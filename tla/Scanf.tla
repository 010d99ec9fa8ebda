------------------------------- MODULE Scanf --------------------------------
(***************************************************************************)
(* vfscanf (lib/vfscanf.c) over the one-character reads of scanf           *)
(* (user/src/scanf.c), with its loops as steps.  scanf makes a new FILE    *)
(* for every call, so what one call pushed back the next does not see.     *)
(*                                                                         *)
(* A format is a sequence of white space, literal characters and           *)
(* directives; the input ends in EOF.                                      *)
(*                                                                         *)
(* Operators named after a defect (EndNumberEats ...) are not used: each   *)
(* is a wrong form of the definition after it that the properties must     *)
(* tell from the right one.                                                *)
(***************************************************************************)
EXTENDS Integers, SequencesExt

CONSTANTS
  Scans,          \* programs: the formats of their calls, one after the other
  Inputs,         \* what the console delivers
  UNGET_BUFSIZE

EOF == "EOF"

\* A part of a format: white space, a character, or a directive; a width of 0 is none.
ScanParts == [kind : {"space"}] \cup [kind : {"literal"}, char : STRING \ {EOF}]
               \cup [kind : {"directive"}, suppress : BOOLEAN, width : Nat, conv : STRING]
ScanfAssumption ==
  /\ UNGET_BUFSIZE \in Nat \ {0}
  /\ Scans # {} /\ \A fs \in Scans : fs \in Seq(Seq(ScanParts)) /\ fs # <<>>
  /\ \A delivered \in Inputs : delivered \in Seq(STRING \ {EOF})

Spaces == {" ", "\n"}
Digits == <<"0", "1", "2", "3", "4", "5", "6", "7", "8", "9">>
IsSpace(ch) == ch \in Spaces
IsDigit(ch) == ch \in ToSet(Digits)
DigitOf(ch) == CHOOSE v \in 0 .. 9 : Digits[v + 1] = ch

VARIABLES
  formats, input,
  call,             \* the call of scanf that runs
  pos,              \* how much of the input was read
  unget,            \* unget_buf, the last one pushed on top
  at,               \* fmt
  loop,             \* where in vfscanf
  c, sign, value, digits, str,   \* its locals
  count,
  stores,           \* what was stored through the pointers, per call
  starts            \* where each call began to read

scanfVars == <<formats, input, call, pos, unget, at, loop, c, sign, value, digits, str,
               count, stores, starts>>
locals == <<c, sign, value, digits, str>>

Fresh == /\ at' = 1 /\ loop' = "format" /\ unget' = <<>> /\ count' = 0
         /\ c' = EOF /\ sign' = 1 /\ value' = 0 /\ digits' = 0 /\ str' = <<>>

\* A program that makes these calls of scanf while the console delivers this.
Start(fs, delivered) ==
  /\ formats = fs /\ input = delivered
  /\ call = 1 /\ pos = 0 /\ unget = <<>> /\ at = 1 /\ loop = "format"
  /\ c = EOF /\ sign = 1 /\ value = 0 /\ digits = 0 /\ str = <<>>
  /\ count = 0 /\ stores = [k \in DOMAIN formats |-> <<>>] /\ starts = <<0>>

Init == \E fs \in Scans, delivered \in Inputs : Start(fs, delivered)

fmt == formats[call]
Part == fmt[at]
In(kind) == loop = "format" /\ at <= Len(fmt) /\ Part.kind = kind
Directive(conv) == In("directive") /\ Part.conv = conv

-----------------------------------------------------------------------------
(* The stream                                                              *)

\* file_getc: from the pushed-back characters first.
File == [unget |-> unget, pos |-> pos, c |-> EOF]
GetC(f) ==
  IF f.unget # <<>> THEN [unget |-> Front(f.unget), pos |-> f.pos, c |-> Last(f.unget)]
  ELSE IF f.pos < Len(input) THEN [unget |-> f.unget, pos |-> f.pos + 1, c |-> input[f.pos + 1]]
  ELSE [unget |-> f.unget, pos |-> f.pos, c |-> EOF]

UngetC(f, ch) ==
  IF ch = EOF \/ Len(f.unget) >= UNGET_BUFSIZE THEN f
  ELSE [f EXCEPT !.unget = Append(@, ch)]

FileIs(f) == unget' = f.unget /\ pos' = f.pos

Return ==
  /\ loop' = "return"
  /\ UNCHANGED <<formats, input, call, at, locals, count, stores, starts>>

\* scanf returns, and the next call has a FILE of its own.
NextCall ==
  /\ loop = "return" /\ call < Len(formats)
  /\ call' = call + 1 /\ starts' = Append(starts, pos)
  /\ Fresh
  /\ UNCHANGED <<formats, input, pos, stores>>

EndOfFormat == loop = "format" /\ at > Len(fmt) /\ FileIs(File) /\ Return

-----------------------------------------------------------------------------
(* White space, literal characters and unknown conversions                 *)

\* White space in the format, and in front of %d and %s, is skipped.
StartSkip ==
  /\ In("space") \/ Directive("d") \/ Directive("s")
  /\ loop' = "skip"
  /\ UNCHANGED <<formats, input, call, pos, unget, at, locals, count, stores, starts>>

SkipWhitespace ==
  /\ loop = "skip"
  /\ LET f == GetC(File) IN
     IF IsSpace(f.c) THEN FileIs(f) /\ UNCHANGED <<at, loop>>
     ELSE /\ FileIs(UngetC(f, f.c))
          /\ IF Part.kind = "space" THEN at' = at + 1 /\ loop' = "format"
                                    ELSE loop' = Part.conv /\ UNCHANGED at
  /\ UNCHANGED <<formats, input, call, locals, count, stores, starts>>

Literal ==
  /\ In("literal")
  /\ LET f == GetC(File) IN
     IF f.c # Part.char THEN FileIs(UngetC(f, f.c)) /\ Return
     ELSE /\ FileIs(f) /\ at' = at + 1
          /\ UNCHANGED <<formats, input, call, loop, locals, count, stores, starts>>

Unsupported ==
  /\ In("directive") /\ Part.conv \notin {"d", "s", "c"}
  /\ FileIs(File) /\ Return

\* The end of a directive: what it read is stored and counted unless suppressed.
Store(v) ==
  /\ IF Part.suppress THEN UNCHANGED <<count, stores>>
     ELSE count' = count + 1 /\ stores' = [stores EXCEPT ![call] = Append(@, v)]
  /\ at' = at + 1 /\ loop' = "format"
  /\ c' = EOF /\ sign' = 1 /\ value' = 0 /\ digits' = 0 /\ str' = <<>>
  /\ UNCHANGED <<formats, input, call, starts>>

InWidth(n) == Part.width = 0 \/ n < Part.width

-----------------------------------------------------------------------------
(* %d                                                                      *)

Sign ==
  /\ loop = "d"
  /\ LET f == GetC(File)
         g == IF f.c \in {"-", "+"} THEN GetC(f) ELSE f
     IN IF ~IsDigit(g.c) THEN FileIs(UngetC(g, g.c)) /\ Return
        ELSE /\ FileIs(g) /\ c' = g.c
             /\ sign' = IF f.c = "-" THEN -1 ELSE 1
             /\ loop' = "digits"
             /\ UNCHANGED <<formats, input, call, at, value, digits, str, count, stores, starts>>

Digit ==
  /\ loop = "digits" /\ IsDigit(c) /\ InWidth(digits)
  /\ value' = value * 10 + DigitOf(c)
  /\ FileIs(GetC(File)) /\ c' = GetC(File).c
  /\ digits' = digits + 1
  /\ UNCHANGED <<formats, input, call, at, loop, sign, str, count, stores, starts>>

EndNumberEats ==
  /\ loop = "digits" /\ ~(IsDigit(c) /\ InWidth(digits))
  /\ FileIs(File)
  /\ Store(value * sign)

EndNumber ==
  /\ loop = "digits" /\ ~(IsDigit(c) /\ InWidth(digits))
  /\ FileIs(UngetC(File, c))
  /\ Store(value * sign)

-----------------------------------------------------------------------------
(* %s and %c                                                               *)

FirstChar ==
  /\ loop = "s"
  /\ FileIs(GetC(File)) /\ c' = GetC(File).c
  /\ loop' = "chars"
  /\ UNCHANGED <<formats, input, call, at, sign, value, digits, str, count, stores, starts>>

InString == ~IsSpace(c) /\ c # EOF /\ InWidth(digits)

Char ==
  /\ loop = "chars" /\ InString
  /\ str' = Append(str, c)
  /\ FileIs(GetC(File)) /\ c' = GetC(File).c
  /\ digits' = digits + 1
  /\ UNCHANGED <<formats, input, call, at, loop, sign, value, count, stores, starts>>

EndString ==
  /\ loop = "chars" /\ ~InString
  /\ FileIs(UngetC(File, c))
  /\ Store(str)

\* %c: one character, or as many as the width says; no white space is skipped.
OneChar ==
  /\ Directive("c")
  /\ LET f == GetC(File) IN
     IF f.c = EOF THEN FileIs(f) /\ Return
     ELSE /\ FileIs(f)
          /\ IF Part.width > 1
             THEN /\ str' = <<f.c>> /\ loop' = "more"
                  /\ UNCHANGED <<formats, input, call, at, c, sign, value, digits, count, stores, starts>>
             ELSE Store(<<f.c>>)

MoreChars ==
  /\ loop = "more"
  /\ LET f == GetC(File) IN
     IF Len(str) < Part.width /\ f.c # EOF
     THEN /\ FileIs(f) /\ str' = Append(str, f.c)
          /\ UNCHANGED <<formats, input, call, at, loop, c, sign, value, digits, count, stores, starts>>
     ELSE FileIs(File) /\ Store(str)

Next ==
  \/ StartSkip \/ SkipWhitespace \/ Literal \/ Unsupported
  \/ Sign \/ Digit \/ EndNumber
  \/ FirstChar \/ Char \/ EndString
  \/ OneChar \/ MoreChars
  \/ EndOfFormat \/ NextCall

-----------------------------------------------------------------------------
(* What a call is to read, from the place it starts at                     *)

\* How many characters of a text from place i on have a property.
Run(text, i, Has(_)) ==
  Max({n \in 0 .. Len(text) - i : \A j \in i + 1 .. i + n : Has(text[j])})
AfterSpaces(text, i) == i + Run(text, i, IsSpace)
Limit(n, width) == IF width = 0 THEN n ELSE Min({n, width})
NotSpace(ch) == ~IsSpace(ch)
Anything(ch) == TRUE
Number(s) == FoldLeft(LAMBDA v, ch : v * 10 + DigitOf(ch), 0, s)

\* One part of a format read from place i: whether the call goes on, what is stored, and
\* the place after it.
Fails(i) == [ok |-> FALSE, next |-> i]
Reads(v, i) == [ok |-> TRUE, stored |-> v, next |-> i]
ReadNumber(text, i, width) ==
  LET signed == i < Len(text) /\ text[i + 1] \in {"-", "+"}
      j == IF signed THEN i + 1 ELSE i
      n == Limit(Run(text, j, IsDigit), width)
  IN IF n = 0 THEN Fails(j)
     ELSE Reads(Number(SubSeq(text, j + 1, j + n))
                  * (IF signed /\ text[i + 1] = "-" THEN -1 ELSE 1), j + n)
ReadChars(text, i, n) == Reads(SubSeq(text, i + 1, i + n), i + n)
ReadPart(text, part, i) ==
  CASE part.kind = "space" -> Reads(<<>>, AfterSpaces(text, i))
    [] part.kind = "literal" ->
         IF i < Len(text) /\ text[i + 1] = part.char THEN Reads(<<>>, i + 1) ELSE Fails(i)
    [] part.kind = "directive" /\ part.conv = "d" ->
         ReadNumber(text, AfterSpaces(text, i), part.width)
    [] part.kind = "directive" /\ part.conv = "s" ->
         LET j == AfterSpaces(text, i)
         IN ReadChars(text, j, Limit(Run(text, j, NotSpace), part.width))
    [] part.kind = "directive" /\ part.conv = "c" ->
         IF i = Len(text) THEN Fails(i)
         ELSE ReadChars(text, i, Limit(Run(text, i, Anything), Max({part.width, 1})))
    [] OTHER -> Fails(i)

Stores(part) == part.kind = "directive" /\ ~part.suppress
ReadFormat(text, f, i) ==
  FoldLeft(LAMBDA r, part :
             IF ~r.ok THEN r
             ELSE LET one == ReadPart(text, part, r.next)
                  IN [ok |-> one.ok, next |-> one.next,
                      stores |-> IF one.ok /\ Stores(part) THEN Append(r.stores, one.stored)
                                 ELSE r.stores],
           [ok |-> TRUE, next |-> i, stores |-> <<>>], f)
Read(k) == ReadFormat(input, formats[k], starts[k])

-----------------------------------------------------------------------------
(* Properties                                                              *)

\* A character that is pushed back is the last one that was read, and alone: the buffer
\* never drops one (file_ungetc), and a call of scanf leaves at most one behind that
\* the next call does not see.
PushedBackIsLastRead ==
  /\ pos <= Len(input)
  /\ unget = <<>> \/ (pos > 0 /\ unget = <<input[pos]>>)

\* A call stores and counts what its format describes, reads nothing past it but the
\* character it pushes back, and the next call starts there (vfscanf, scanf).
ReadsAsDescribed ==
  loop = "return" =>
    /\ stores[call] = Read(call).stores /\ count = Len(stores[call])
    /\ pos - Len(unget) = Read(call).next
=============================================================================
