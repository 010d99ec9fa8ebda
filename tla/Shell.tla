------------------------------- MODULE Shell -------------------------------
(***************************************************************************)
(* The program the kernel starts when it is built for files (main.c): a    *)
(* shell that edits a line and runs echo, cat and edit on the files of the *)
(* volume.  The system calls it makes do what FileService promises for a   *)
(* task that is alone: each is over before the next.                       *)
(*                                                                         *)
(* A key is a character; the name of a command counts as one.  What the    *)
(* shell writes is shown from the last line feed or prompt on, by printk,  *)
(* which takes it for a format (stdout_write): a % in it is not shown as   *)
(* itself.  The prompt and the wording of messages are left out.           *)
(*                                                                         *)
(* Operators named after a defect (LastOfChunk ...) are not used: each is  *)
(* a wrong form of the definition after it that the properties must tell   *)
(* from the right one.                                                     *)
(***************************************************************************)
EXTENDS Integers, SequencesExt

CONSTANTS
  Scripts,        \* bound: what is typed, sequences of keys
  Volume,         \* Volume[path], the characters of a file at first
  UserFds,        \* the descriptors that are not the terminal's
  Codes,          \* Codes[c], the value of a char; the name of a command has none
  MaxInt,         \* the largest int
  CAT_BUF_SIZE

CR == "CR"
DEL == "DEL"
Quote == "QUOTE"
LF == "LF"
NUL == "NUL"
Percent == "%"

\* What a write adds to the terminal that shows nothing, and one that shows whatever
\* arguments were never given.
Unseen == "unseen"
Garbled == "?"

Commands == {"echo", "cat", "edit"}
Spelled == {<<"e", "c", "h", "o">>, <<"c", "a", "t">>, <<"e", "d", "i", "t">>}
Digits == <<"0", "1", "2", "3", "4", "5", "6", "7", "8", "9">>
LINE_SIZE == 128

VARIABLES
  keys,      \* what is still to be typed
  line,      \* line_buf, up to char_in_line; for parse_cmd up to its NUL
  shown,     \* what was written to the terminal
  doing,     \* where the shell is: "read", "parse", "cat" or "prompt"
  content,   \* content[path], the files now
  fds,       \* fds[fd], a descriptor: closed, lost, or at a place of a file
  cat,       \* the descriptor of cat, and last_char
  before     \* history: files and descriptors when the command began

shellVars == <<keys, line, shown, doing, content, fds, cat, before>>

Closed == [state |-> "closed"]
Lost == [state |-> "lost"]
At(path, pos) == [state |-> "open", path |-> path, pos |-> pos]

\* How many characters at the head of s are c, or are not.
Run(s, c, same) ==
  CHOOSE n \in 0 .. Len(s) : /\ \A i \in 1 .. n : (s[i] = c) = same
                             /\ n = Len(s) \/ (s[n + 1] = c) # same
Drop(s, n) == SubSeq(s, n + 1, Len(s))
SkipSpaces(s) == Drop(s, Run(s, " ", TRUE))

\* A string of C ends at its first NUL.
CString(s) == SubSeq(s, 1, Run(s, NUL, FALSE))

\* The line after each key of a script.
Edited(s) ==
  LET after[n \in 0 .. Len(s)] ==
        IF n = 0 \/ s[n] = CR THEN <<>>
        ELSE IF s[n] # DEL THEN Append(after[n - 1], s[n])
        ELSE IF after[n - 1] = <<>> THEN <<>> ELSE Front(after[n - 1])
  IN after

\* A quote that begins a word is closed: get_string looks for the second one
\* wherever it may be, and past the end of the string.
QuotesClose(l) ==
  \A i \in 2 .. Len(l) : l[i] = Quote /\ (i = 2 \/ l[i - 1] = " ")
                          => \E j \in i + 1 .. Len(l) : l[j] = Quote

\* What may be typed.  The name of a command is one key at the head of a line, never
\* spelled or erased.  line_buf holds the line (a command is up to four characters of
\* it).  A backspace is no key: the terminal would obey it, and the line keep it.
Typable(s) ==
  /\ s \in Seq(STRING \ {"BS", Unseen})
  /\ \A n \in DOMAIN s :
       LET l == Edited(s)[n - 1] IN
       /\ s[n] \in DOMAIN Codes \cup Commands \cup {CR, DEL}
       /\ s[n] \in Commands => l = <<>>
       /\ s[n] = DEL => l = <<>> \/ Last(l) \notin Commands
       /\ s[n] = CR => QuotesClose(CString(l)) /\ \A name \in Spelled : ~IsPrefix(name, l)
       /\ Len(l) + 3 < LINE_SIZE

ShellAssumption ==
  /\ CAT_BUF_SIZE \in Nat \ {0} /\ MaxInt \in Nat
  /\ UserFds \subseteq Nat /\ IsFiniteSet(UserFds)
  /\ DOMAIN Volume \subseteq Seq(STRING) /\ Volume \in [DOMAIN Volume -> Seq(STRING)]
  /\ DOMAIN Codes \subseteq STRING \ (Commands \cup {CR, DEL})
  /\ Codes \in [DOMAIN Codes -> 0 .. 255]
  /\ \A i \in DOMAIN Digits : Digits[i] \in DOMAIN Codes /\ Codes[Digits[i]] = Codes["0"] + i - 1
  /\ \A s \in Scripts : Typable(s)

Start(script) ==
  /\ keys = script /\ line = <<>> /\ shown = <<>> /\ doing = "read"
  /\ content = Volume /\ fds = [fd \in UserFds |-> Closed]
  /\ cat = [fd |-> -1, last_char |-> NUL]
  /\ before = [content |-> content, fds |-> fds]

Init == \E script \in Scripts : Start(script)

-----------------------------------------------------------------------------
(* The calls of the kernel                                                 *)

Free(table) == {fd \in UserFds : table[fd] = Closed}

\* open: the descriptors after it, and its answer; a path that is no file costs one.
Open(table, path) ==
  IF Free(table) = {} THEN [fds |-> table, fd |-> -1]
  ELSE LET fd == CHOOSE d \in Free(table) : \A e \in Free(table) : d <= e IN
       IF path \in DOMAIN content
       THEN [fds |-> [table EXCEPT ![fd] = At(path, 0)], fd |-> fd]
       ELSE [fds |-> [table EXCEPT ![fd] = Lost], fd |-> -1]

\* What a read or write of n at place pos reaches; a negative place is a large number
\* for them.
Reached(path, pos, n) ==
  LET size == Len(content[path]) IN
  IF pos < 0 \/ pos >= size THEN 0 ELSE IF pos + n > size THEN size - pos ELSE n

Written(path, pos, text) ==
  [i \in DOMAIN content[path] |->
     IF i \in pos + 1 .. pos + Reached(path, pos, Len(text)) THEN text[i - pos]
     ELSE content[path][i]]

\* What a write of a string may show: printk takes it for a format.  With a % at the
\* end alone printk fails before it shows anything.
Printed(string) ==
  IF ~Contains(string, Percent) THEN {string}
  ELSE {<<Unseen>>} \cup (IF Contains(Front(string), Percent) THEN {<<Garbled>>} ELSE {})

\* What a write of one character shows.
PrintedChar(c) == IF c \in {Percent, NUL} THEN Unseen ELSE c

-----------------------------------------------------------------------------
(* The line                                                                *)

Erase ==
  /\ shown' = shown \o <<"BS", " ", "BS">>
  /\ line' = Front(line)

\* One turn of the loop of main.
ReadKey ==
  /\ doing = "read" /\ keys # <<>>
  /\ keys' = Tail(keys)
  /\ LET c == Head(keys) IN
     \/ /\ c = DEL
        /\ IF line # <<>> THEN Erase ELSE UNCHANGED <<line, shown>>
        /\ UNCHANGED <<doing, before>>
     \/ /\ c = CR
        /\ shown' = <<>> /\ doing' = "parse"
        /\ before' = [content |-> content, fds |-> fds]
        /\ line' = CString(line)
     \/ /\ c \notin {DEL, CR}
        /\ line' = Append(line, c) /\ shown' = Append(shown, PrintedChar(c))
        /\ UNCHANGED <<doing, before>>
  /\ UNCHANGED <<content, fds, cat>>

GetParam(s) ==
  LET t == SkipSpaces(s) IN SubSeq(t, 1, Run(t, " ", FALSE))

GetString(s) ==
  LET t == SkipSpaces(s) IN
  IF t # <<>> /\ Head(t) = Quote
  THEN SubSeq(Tail(t), 1, Run(Tail(t), Quote, FALSE))
  ELSE GetParam(t)

\* The name of a command begins its line only: no word holds it.
CodeOf(c) == IF c \in DOMAIN Codes THEN Codes[c] ELSE 0

\* The arithmetic of an int; an overflow wraps.
Wrap(n) ==
  IF n \in -MaxInt - 1 .. MaxInt THEN n
  ELSE ((n + MaxInt + 1) % (2 * MaxInt + 2)) - MaxInt - 1

\* Every character counts, and those below "0" are negative.
Atoi(s) == Wrap(FoldLeft(LAMBDA n, c : n * 10 + CodeOf(c) - Codes["0"], 0, s))

-----------------------------------------------------------------------------
(* parse_cmd                                                               *)

Command(name) == doing = "parse" /\ line # <<>> /\ Head(line) = name
Show(text) == shown' = shown \o text

Echo ==
  /\ Command("echo")
  /\ \E p \in Printed(GetString(Tail(line))) : Show(Append(p, LF))
  /\ doing' = "prompt"
  /\ UNCHANGED <<keys, line, content, fds, cat, before>>

\* last_char is not initialised.
Cat ==
  LET opened == Open(fds, GetParam(Tail(line))) IN
  /\ Command("cat")
  /\ fds' = opened.fds
  /\ IF opened.fd = -1
     THEN Show(<<"can't open file", LF>>) /\ doing' = "prompt" /\ UNCHANGED cat
     ELSE /\ doing' = "cat" /\ UNCHANGED shown
          /\ \E c \in {LF, NUL} : cat' = [fd |-> opened.fd, last_char |-> c]
  /\ UNCHANGED <<keys, line, content, before>>

LastOfChunk(chunk) == Head(chunk)
LastChar(chunk) == Last(chunk)

\* The characters of a chunk are written one by one.
CatRead ==
  LET f == fds[cat.fd]
      n == Reached(f.path, f.pos, CAT_BUF_SIZE)
      chunk == SubSeq(content[f.path], f.pos + 1, f.pos + n)
  IN /\ doing = "cat" /\ n > 0
     /\ Show([i \in 1 .. n |-> IF chunk[i] = NUL THEN "x" ELSE PrintedChar(chunk[i])])
     /\ cat' = [cat EXCEPT !.last_char = LastChar(chunk)]
     /\ fds' = [fds EXCEPT ![cat.fd].pos = @ + n]
     /\ UNCHANGED <<keys, line, doing, content, before>>

CatEnds ==
  LET f == fds[cat.fd] IN
  /\ doing = "cat" /\ Reached(f.path, f.pos, CAT_BUF_SIZE) = 0
  /\ Show(IF cat.last_char = LF THEN <<>> ELSE <<"$", LF>>)
  /\ fds' = [fds EXCEPT ![cat.fd] = Closed]
  /\ doing' = "prompt"
  /\ UNCHANGED <<keys, line, content, cat, before>>

\* Without a file, lseek, write and close are refused.
Edit ==
  LET s1 == SkipSpaces(Tail(line))            name == GetParam(s1)
      s2 == SkipSpaces(Drop(s1, Len(name)))   offset == GetParam(s2)
      s3 == SkipSpaces(Drop(s2, Len(offset))) text == GetString(s3)
      opened == Open(fds, name)
  IN /\ Command("edit")
     /\ IF opened.fd = -1 THEN fds' = opened.fds /\ UNCHANGED content
        ELSE /\ content' = [content EXCEPT ![name] = Written(name, Atoi(offset), text)]
             /\ fds' = [opened.fds EXCEPT ![opened.fd] = Closed]
     /\ doing' = "prompt"
     /\ UNCHANGED <<keys, line, shown, cat, before>>

NotFound ==
  /\ doing = "parse"
  /\ \A name \in Commands : ~Command(name)
  /\ Show(<<"command not found", LF>>)
  /\ doing' = "prompt"
  /\ UNCHANGED <<keys, line, content, fds, cat, before>>

Prompt ==
  /\ doing = "prompt"
  /\ line' = <<>> /\ shown' = <<>> /\ doing' = "read"
  /\ UNCHANGED <<keys, content, fds, cat, before>>

Next ==
  \/ ReadKey \/ Echo \/ Cat \/ CatRead \/ CatEnds \/ Edit \/ NotFound \/ Prompt

-----------------------------------------------------------------------------
(* What the user means by a line: the command and the words after it       *)

Rest == Tail(line)
WordStarts == {i \in DOMAIN Rest : Rest[i] # " " /\ (i = 1 \/ Rest[i - 1] = " ")}

\* The k-th word from place p on, a sequence without spaces.
Word(k) ==
  LET starts == {i \in WordStarts : Cardinality({j \in WordStarts : j <= i}) = k} IN
  IF starts = {} THEN <<>>
  ELSE LET i == CHOOSE i \in starts : TRUE
           j == CHOOSE j \in i .. Len(Rest) :
                  /\ \A n \in i .. j : Rest[n] # " "
                  /\ j = Len(Rest) \/ Rest[j + 1] = " "
       IN SubSeq(Rest, i, j)

\* The k-th word, or all between two quotes that begins with it.
Phrase(k) ==
  IF Word(k) = <<>> \/ Head(Word(k)) # Quote THEN Word(k)
  ELSE LET i == CHOOSE i \in WordStarts : Cardinality({j \in WordStarts : j <= i}) = k
           j == CHOOSE j \in i + 1 .. Len(Rest) :
                  Rest[j] = Quote /\ \A n \in i + 1 .. j - 1 : Rest[n] # Quote
       IN SubSeq(Rest, i + 1, j - 1)

\* A word that is a numeral, and the number it means.
IsNumeral(w) == w # <<>> /\ \A i \in DOMAIN w : Contains(Digits, w[i])
NumberOf(w) ==
  LET value[n \in 0 .. Len(w)] ==
        IF n = 0 THEN 0
        ELSE 10 * value[n - 1] + (CHOOSE i \in DOMAIN Digits : Digits[i] = w[n]) - 1
  IN value[Len(w)]

\* What a terminal shows: each character at the cursor, which BS moves back.
OnScreen ==
  FoldLeft(LAMBDA s, c :
             IF c = Unseen THEN s
             ELSE IF c = "BS" THEN [s EXCEPT !.cursor = @ - 1]
             ELSE [text |-> SubSeq(s.text, 1, s.cursor) \o <<c>> \o
                            SubSeq(s.text, s.cursor + 2, Len(s.text)),
                   cursor |-> s.cursor + 1],
           [text |-> <<>>, cursor |-> 0], shown)

\* While a line is typed, the screen shows its characters, with the cursor behind the
\* last, whatever was erased; unless a % or a NUL was typed, which is in the line and
\* not on the screen (main, stdout_write).
ScreenShowsLine ==
  doing = "read" /\ ~Contains(shown, Unseen) =>
    /\ OnScreen.cursor = Len(line)
    /\ \A i \in DOMAIN OnScreen.text :
         OnScreen.text[i] = IF i \in DOMAIN line THEN line[i] ELSE " "

Opens == line # <<>> /\ Head(line) \in {"cat", "edit"} /\ Free(before.fds) # {}
Found == Opens /\ Word(1) \in DOMAIN content

\* The text of file with what laid over it from place n on.
LaidOver(file, what, n) ==
  [i \in DOMAIN file |-> IF i - n \in DOMAIN what THEN what[i - n] ELSE file[i]]

\* The places edit may write at: the number its word means, where an int holds it, and
\* otherwise some place.
EditPlaces ==
  IF IsNumeral(Word(2)) /\ NumberOf(Word(2)) <= MaxInt THEN {NumberOf(Word(2))}
  ELSE 0 .. Len(before.content[Word(1)])

\* How cat shows a character: a NUL as x, a % not at all.
Visible(c) == IF c = NUL THEN "x" ELSE IF c = Percent THEN Unseen ELSE c

\* A command does what its words say and no more: echo shows its text, cat the file
\* with a $ where the last line has no end, however the reads cut it, and edit
\* writes its text at its place in the file, which keeps its length.  A text that
\* echo shows has no %, and those of a file are not shown.  A descriptor is gone
\* only after an open of what is no file (parse_cmd, atoi, stdout_write).
CommandDone ==
  doing = "prompt" =>
    /\ IF Found /\ Head(line) = "edit"
       THEN \E n \in EditPlaces :
              content = [before.content EXCEPT ![Word(1)] =
                           LaidOver(before.content[Word(1)], Phrase(3), n)]
       ELSE content = before.content
    /\ Cardinality(Free(fds)) =
         Cardinality(Free(before.fds)) - (IF Opens /\ ~Found THEN 1 ELSE 0)
    /\ line # <<>> /\ Head(line) = "echo" /\ ~Contains(Phrase(1), Percent) =>
         shown = Append(Phrase(1), LF)
    /\ Found /\ Head(line) = "cat" =>
         LET text == content[Word(1)]
             visible == [i \in DOMAIN text |-> Visible(text[i])]
         IN shown \in {visible \o end : end \in
              IF text = <<>> THEN {<<>>, <<"$", LF>>}
              ELSE IF Last(text) = LF THEN {<<>>} ELSE {<<"$", LF>>}}
=============================================================================
