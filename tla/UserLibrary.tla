----------------------------- MODULE UserLibrary -----------------------------
(***************************************************************************)
(* What a program is made of: malloc and free, the printf family, and      *)
(* scanf, and the shell as the program itself.  They share no state, and a *)
(* program has one thread, so one of them runs at a time: routine says     *)
(* which a behaviour is about, and the state of the others stays where it  *)
(* was.                                                                    *)
(***************************************************************************)
EXTENDS Malloc, Sequences

CONSTANTS
  PrintCalls, Files, Buffers, CharBits, ShortBits, IntBits, LongBits,
  Strings, PadSize, PtrDigits, Glyphs,           \* of Printf
  Scans, Inputs, UNGET_BUFSIZE,                  \* of Scanf
  Scripts, Volume, UserFds, Codes, MaxInt, CAT_BUF_SIZE \* of Shell

VARIABLES
  routine,
  call, file, size, pass, at, cnt, l, l10n, ap, nl_type, nl_arg,
  text, console, str, offset, stored, ret,               \* of Printf
  formats, input, scan, pos, unget, part, scanning, c, sign, value, digits,
  chars, count, stores, starts,                          \* of Scanf
  keys, line, shown, doing, content, fds, cat, before    \* of Shell

printfVars == <<call, file, size, pass, at, cnt, l, l10n, ap, nl_type, nl_arg,
                text, console, str, offset, stored, ret>>
scanfVars == <<formats, input, scan, pos, unget, part, scanning, c, sign, value, digits,
               chars, count, stores, starts>>
shellVars == <<keys, line, shown, doing, content, fds, cat, before>>
libraryVars == <<routine, vars, printfVars, scanfVars, shellVars>>

P == INSTANCE Printf
S == INSTANCE Scanf WITH call <- scan, at <- part, loop <- scanning, str <- chars
K == INSTANCE Shell

ASSUME LibraryAssumption == P!PrintfAssumption /\ S!ScanfAssumption /\ K!ShellAssumption

AnyCall == CHOOSE p \in PrintCalls : TRUE
AnyScan == CHOOSE fs \in Scans : TRUE

LibraryInit ==
  /\ routine \in {"malloc", "printf", "scanf", "shell"}
  /\ Init
  /\ IF routine = "printf" THEN P!Init ELSE P!Start(AnyCall, "sbi", 0)
  /\ IF routine = "scanf" THEN S!Init ELSE S!Start(AnyScan, <<>>)
  /\ IF routine = "shell" THEN K!Init ELSE K!Start(<<>>)

Allocating ==
  routine = "malloc" /\ Next /\ UNCHANGED <<routine, printfVars, scanfVars, shellVars>>
Printing ==
  routine = "printf" /\ P!Next /\ UNCHANGED <<routine, vars, scanfVars, shellVars>>
Scanning ==
  routine = "scanf" /\ S!Next /\ UNCHANGED <<routine, vars, printfVars, shellVars>>
InShell ==
  routine = "shell" /\ K!Next /\ UNCHANGED <<routine, vars, printfVars, scanfVars>>

LibraryNext == Allocating \/ Printing \/ Scanning \/ InShell

\* A program that is scheduled goes on with the malloc or free it has begun.
InCall == Calls /\ UNCHANGED <<routine, printfVars, scanfVars, shellVars>>

LibrarySpec == LibraryInit /\ [][LibraryNext]_libraryVars /\ WF_libraryVars(InCall)

-----------------------------------------------------------------------------
\* What a call of printf writes is what the standard says, and the console shows
\* it (printf_core, vfprintf, stdout_write).
PrintsAsStandard == P!PrintsAsStandard /\ P!ConsoleShows

\* No count of printf leaves its type, and no write of snprintf its buffer
\* (printf_core, str_write, vsnprintf).
BufferBounded == P!TypeOK /\ P!TotalBounded /\ P!BufferBounded

\* %n stores the number of characters written before it (printf_core).
StoredIsWritten == P!StoredIsWritten

\* scanf stores and counts what its formats describe, call after call, and pushes
\* back one character at most (vfscanf, scanf).
ReadsAsDescribed == S!PushedBackIsLastRead /\ S!ReadsAsDescribed

\* The shell shows the line it will run, and a command does what it says, but for what
\* printk hides of a % or a NUL (main, parse_cmd, stdout_write).
ShellObeys == K!ScreenShowsLine /\ K!CommandDone
=============================================================================
