------------------------------- MODULE Printf -------------------------------
(***************************************************************************)
(* vfprintf (lib/vfprintf.c) and vsnprintf (lib/vsnprintf.c, with its own  *)
(* copy of printf_core) from the call to the return, and the three files   *)
(* they write to: the SBI console of printk, the standard output of a      *)
(* program, which the kernel prints with printk once more, and the buffer  *)
(* of snprintf.                                                            *)
(*                                                                         *)
(* printf_core runs twice: without a file it only collects the types of    *)
(* numbered arguments, then it prints.  A format is a sequence of literal  *)
(* texts and directives; a character is a string; words have few bits, and *)
(* INT_MAX is small, so that every limit of the code is reached.           *)
(*                                                                         *)
(* Operators named after a defect (SpaceFirst ...) are not used: each      *)
(* is a wrong form of the definition after it that the properties must     *)
(* tell from the right one.                                                *)
(***************************************************************************)
EXTENDS Integers, SequencesExt

CONSTANTS
  PrintCalls,  \* the calls: a format and its arguments
  Files,       \* where they go: "sbi", "stdout" or "str"
  Buffers,     \* the sizes of the buffers of snprintf
  CharBits, ShortBits, IntBits, LongBits,
  Strings,     \* the strings in memory, by address
  PadSize,     \* sizeof pad
  PtrDigits,   \* 2 * sizeof(void *)
  Glyphs       \* the character of each char value; that of 0 is "NUL"

NULL == 0
NL_ARGMAX == 9
Pow2[n \in 0 .. LongBits] == IF n = 0 THEN 1 ELSE 2 * Pow2[n - 1]
INT_MAX == Pow2[IntBits - 1] - 1
INTMAX_MAX == Pow2[LongBits - 1] - 1
UINTMAX == Pow2[LongBits]

VARIABLES
  call,               \* the format and the arguments
  file, size,         \* where it prints; the size of the buffer
  pass,               \* "types", "print", "done"
  at,                 \* s: the next part of the format
  cnt, l, l10n, ap,   \* of printf_core
  nl_type, nl_arg,    \* of vfprintf
  text,               \* the characters that were given to write
  console,            \* those the console shows
  str, offset,        \* the buffer of snprintf
  stored,             \* what %n stored last
  ret

printfVars == <<call, file, size, pass, at, cnt, l, l10n, ap, nl_type, nl_arg,
                text, console, str, offset, stored, ret>>

Nothing == -1

\* A call of printk, printf or snprintf.
Start(c, f, n) ==
  /\ call = c /\ file = f /\ size = n
  /\ pass = "types" /\ at = 1 /\ cnt = 0 /\ l = 0 /\ l10n = FALSE /\ ap = 1
  /\ nl_type = [i \in 1 .. NL_ARGMAX |-> "none"]
  /\ nl_arg = [i \in 1 .. NL_ARGMAX |-> Nothing]
  /\ text = <<>> /\ console = <<>>
  /\ str = [i \in 0 .. size - 1 |-> "old"] /\ offset = 0
  /\ stored = Nothing /\ ret = Nothing

Init == \E c \in PrintCalls, f \in Files :
          \E n \in IF f = "str" THEN Buffers ELSE {0} : Start(c, f, n)

-----------------------------------------------------------------------------
(* Arguments                                                               *)

SignedInts == {"INT", "LONG", "LLONG", "SHORT", "CHAR", "PDIFF", "IMAX"}

SignedType == [none |-> "INT", l |-> "LONG", ll |-> "LLONG", h |-> "SHORT", hh |-> "CHAR",
               z |-> "PDIFF", t |-> "PDIFF", j |-> "IMAX"]
UnsignedType == [none |-> "UINT", l |-> "ULONG", ll |-> "ULLONG", h |-> "USHORT", hh |-> "UCHAR",
                 z |-> "SIZET", t |-> "SIZET", j |-> "UMAX"]

\* The table states, from the length modifier and the conversion to the type.
States(prefix, conv) ==
  CASE conv \in {"d", "i"} -> SignedType[prefix]
    [] conv \in {"o", "u", "x", "X"} -> UnsignedType[prefix]
    [] conv = "n" -> "PTR"
    [] conv = "s" /\ prefix \in {"none", "l"} -> "PTR"
    [] conv = "c" /\ prefix = "none" -> "INT"
    [] conv = "c" /\ prefix = "l" -> "UINT"
    [] conv = "p" /\ prefix = "none" -> "UIPTR"
    [] OTHER -> "none"

Bits(type) ==
  CASE type \in {"CHAR", "UCHAR"} -> CharBits
    [] type \in {"SHORT", "USHORT"} -> ShortBits
    [] type \in {"INT", "UINT"} -> IntBits
    [] OTHER -> LongBits

Signed(v, bits) ==
  LET x == v % Pow2[bits] IN IF x < Pow2[bits - 1] THEN x ELSE x - Pow2[bits]

\* pop_arg: the argument, extended to uintmax_t from its type.
PopArg(type, a) ==
  CASE type = "PTR" -> a
    [] type \in SignedInts -> Signed(a, Bits(type)) % UINTMAX
    [] OTHER -> a % Pow2[Bits(type)]

GetInt(n) == IF n > INT_MAX THEN -1 ELSE n

StarValue(star, a) ==
  CASE star.kind = "number" -> GetInt(star.n)
    [] star.kind = "next" -> Signed(call.args[a], IntBits)
    [] star.kind = "arg" -> Signed(nl_arg[star.n], IntBits)

-----------------------------------------------------------------------------
(* The calls                                                               *)

\* A width or a precision is absent, a number n, the next argument, or argument n.
Stars == [kind : {"absent", "next"}] \cup [kind : {"number"}, n : Nat]
           \cup [kind : {"arg"}, n : 1 .. NL_ARGMAX]
Needs(star) == IF star.kind = "next" THEN 1 ELSE 0

Parts == [kind : {"text"}, text : Seq(STRING)]
           \cup [kind : {"directive"}, pos : 0 .. NL_ARGMAX, flags : SUBSET STRING,
                 w : Stars, p : Stars, prefix : DOMAIN SignedType, conv : STRING]

\* Where the arguments of the k-th part start when none is numbered.
Takes(part) == IF part.kind = "text" THEN 0 ELSE Needs(part.w) + Needs(part.p) + 1
ArgAt(f, k) ==
  LET first[i \in 1 .. Len(f) + 1] == IF i = 1 THEN 1 ELSE first[i - 1] + Takes(f[i - 1])
  IN first[k]

\* Directives with and without a number in one format read arguments nobody has set, and a
\* caller passes every argument that its format takes.
GivesArguments(f, args) ==
  LET directives == {k \in DOMAIN f : f[k].kind = "directive"}
  IN \/ \A k \in directives : /\ f[k].pos \in DOMAIN args
                              /\ \A star \in {f[k].w, f[k].p} :
                                   star.kind = "arg" => star.n \in DOMAIN args
     \/ /\ \A k \in directives : f[k].pos = 0 /\ "arg" \notin {f[k].w.kind, f[k].p.kind}
        /\ ArgAt(f, Len(f) + 1) <= Len(args) + 1

\* What the constants are; the module that calls printf assumes it.  A pointer that is
\* not NULL points to a string.
PrintfAssumption ==
  /\ {CharBits, ShortBits, IntBits, LongBits, PadSize, PtrDigits} \subseteq Nat \ {0}
  /\ CharBits <= ShortBits /\ ShortBits <= IntBits /\ IntBits <= LongBits
  /\ Buffers \subseteq Nat /\ Files = {"sbi", "stdout", "str"} /\ PrintCalls # {}
  /\ \A c \in PrintCalls : /\ c.fmt \in Seq(Parts) /\ c.args \in Seq(0 .. UINTMAX - 1)
                            /\ GivesArguments(c.fmt, c.args)
  /\ Strings \in [1 .. UINTMAX - 1 -> Seq(STRING)]
  /\ Glyphs \in [0 .. Pow2[CharBits] - 1 -> STRING] /\ Glyphs[0] = "NUL"

-----------------------------------------------------------------------------
(* The files                                                               *)

\* stdout_write hands the text to printk as a format, which ends at a NUL.  A % at its
\* end makes the first pass of the kernel's printf_core fail, and nothing is shown; one
\* before takes arguments that were never given, and shows nothing or anything.  (A
\* directive n, which would store through such an argument, is left out.)
UntilNul(s) ==
  IF Contains(s, "NUL") THEN SubSeq(s, 1, (CHOOSE i \in 1 .. Len(s) :
                               s[i] = "NUL" /\ ~Contains(SubSeq(s, 1, i - 1), "NUL")) - 1)
  ELSE s
Anything == "anything"
Shown(s) ==
  LET t == UntilNul(s) IN
  CASE file # "stdout" -> {s}
    [] file = "stdout" /\ ~Contains(t, "%") -> {t}
    [] OTHER -> IF Contains(Front(t), "%") THEN {<<>>, <<Anything>>} ELSE {<<>>}

\* What one write after the other shows.
ShownAll(chunks) ==
  FoldLeft(LAMBDA texts, s : {t \o x : t \in texts, x \in Shown(s)}, {<<>>}, chunks)

StrWriteFull(buffer, s) ==
  LET room == size - buffer.offset
      len == IF buffer.offset + Len(s) > size THEN room ELSE Len(s)
  IN IF size = 0 THEN buffer
     ELSE [str |-> [i \in DOMAIN buffer.str |->
                      IF i \in buffer.offset .. buffer.offset + len - 1
                      THEN s[i - buffer.offset + 1] ELSE buffer.str[i]],
           offset |-> buffer.offset + len]

\* str_write keeps the last place of the buffer free.
StrWrite(buffer, s) ==
  LET room == size - buffer.offset - 1
      len == IF buffer.offset + Len(s) >= size THEN room ELSE Len(s)
  IN IF size = 0 THEN buffer
     ELSE [str |-> [i \in DOMAIN buffer.str |->
                      IF i \in buffer.offset .. buffer.offset + len - 1
                      THEN s[i - buffer.offset + 1] ELSE buffer.str[i]],
           offset |-> buffer.offset + len]

\* One call of f->write after the other.
Out(chunks) ==
  /\ text' = text \o FlattenSeq(chunks)
  /\ IF file = "str"
     THEN LET after == FoldLeft(StrWrite, [str |-> str, offset |-> offset], chunks)
          IN str' = after.str /\ offset' = after.offset /\ UNCHANGED console
     ELSE /\ console' \in {console \o t : t \in ShownAll(chunks)}
          /\ UNCHANGED <<str, offset>>
NoOut == UNCHANGED <<text, console, str, offset>>

\* pad: whole buffers of the character, then the rest.
Pad(c, w, n, fl) ==
  IF fl \cap {"-", "0"} # {} \/ n >= w THEN <<>>
  ELSE [i \in 1 .. (w - n) \div PadSize + 1 |->
          [j \in 1 .. (IF i <= (w - n) \div PadSize THEN PadSize ELSE (w - n) % PadSize) |-> c]]

Toggle(fl, flag) == (fl \ {flag}) \cup ({flag} \ fl)

Lower == <<"0", "1", "2", "3", "4", "5", "6", "7", "8", "9", "a", "b", "c", "d", "e", "f">>
Upper == <<"0", "1", "2", "3", "4", "5", "6", "7", "8", "9", "A", "B", "C", "D", "E", "F">>

\* fmt_x, fmt_o, fmt_u: no digit at all for zero.
Fmt(x, base, glyphs) ==
  LET digits[n \in 0 .. x] ==
        IF n = 0 THEN <<>> ELSE Append(digits[n \div base], glyphs[(n % base) + 1])
  IN digits[x]

-----------------------------------------------------------------------------
(* The conversions: the prefix, the text, the precision and the flags that *)
(* are left, or an overflow.                                               *)

Overflow == [ok |-> FALSE]
Converted(prefix, body, p, fl) ==
  [ok |-> TRUE, prefix |-> prefix, body |-> body, p |-> p, fl |-> fl]

\* What d, i, u, o, x, X and p have in common after their digits.
Integer(prefix, body, p, xp, fl, x) ==
  IF xp /\ p < 0 THEN Overflow
  ELSE Converted(prefix,
                 IF x = 0 /\ p = 0 THEN <<>> ELSE body,
                 IF x = 0 /\ p = 0 THEN p ELSE Max({p, Len(body) + (IF x = 0 THEN 1 ELSE 0)}),
                 IF xp THEN fl \ {"0"} ELSE fl)

SpaceFirst(x, fl) ==
  CASE x > INTMAX_MAX -> <<"-">>
    [] x <= INTMAX_MAX /\ " " \in fl -> <<" ">>
    [] x <= INTMAX_MAX /\ " " \notin fl /\ "+" \in fl -> <<"+">>
    [] OTHER -> <<>>

SignOf(x, fl) ==
  CASE x > INTMAX_MAX -> <<"-">>
    [] x <= INTMAX_MAX /\ "+" \in fl -> <<"+">>
    [] x <= INTMAX_MAX /\ "+" \notin fl /\ " " \in fl -> <<" ">>
    [] OTHER -> <<>>

HexPrefix(x, fl, letter) == IF x # 0 /\ "#" \in fl THEN <<"0", letter>> ELSE <<>>

ConvertInt(conv, x, p, xp, fl) ==
  CASE conv = "p" ->   \* the size_t of a negative p is the larger one
         Integer(HexPrefix(x, {"#"}, "x"), Fmt(x, 16, Lower),
                 IF p < 0 THEN p ELSE Max({p, PtrDigits}), xp, fl \cup {"#"}, x)
    [] conv = "x" -> Integer(HexPrefix(x, fl, "x"), Fmt(x, 16, Lower), p, xp, fl, x)
    [] conv = "X" -> Integer(HexPrefix(x, fl, "X"), Fmt(x, 16, Upper), p, xp, fl, x)
    [] conv = "o" ->
         LET body == Fmt(x, 8, Lower)
         IN Integer(<<>>, body, IF "#" \in fl /\ p < Len(body) + 1 THEN Len(body) + 1 ELSE p,
                    xp, fl, x)
    [] conv \in {"d", "i"} ->
         LET y == IF x > INTMAX_MAX THEN UINTMAX - x ELSE x
         IN Integer(SignOf(x, fl), Fmt(y, 10, Lower), p, xp, fl, y)
    [] conv = "u" -> Integer(<<>>, Fmt(x, 10, Lower), p, xp, fl, x)

ConvertChar(x, fl) == Converted(<<>>, <<Glyphs[x % Pow2[CharBits]]>>, 1, fl \ {"0"})

ConvertString(s, p, fl) ==
  LET chars == IF s = NULL THEN <<"(", "n", "u", "l", "l", ")">> ELSE Strings[s]
      body == SubSeq(chars, 1, Min({Len(chars), IF p < 0 THEN INT_MAX ELSE p}))
  IN IF p < 0 /\ Len(chars) > INT_MAX THEN Overflow
     ELSE Converted(<<>>, body, Len(body), fl \ {"0"})

Convert(conv, x, p, xp, fl) ==
  CASE conv = "c" -> ConvertChar(x, fl)
    [] conv = "s" -> ConvertString(x, p, fl)
    [] OTHER -> ConvertInt(conv, x, p, xp, fl)

\* The six writes of one conversion.
Emit(c, w) ==
  LET n == Len(c.prefix) + c.p IN
  Pad(" ", w, n, c.fl) \o <<c.prefix>> \o Pad("0", w, n, Toggle(c.fl, "0"))
    \o Pad("0", c.p, Len(c.body), {}) \o <<c.body>> \o Pad(" ", w, n, Toggle(c.fl, "-"))

-----------------------------------------------------------------------------
(* printf_core                                                             *)

fmt == call.fmt
Total == cnt + l
Running == pass \in {"types", "print"}
MayGoOn == Running /\ l <= INT_MAX - cnt    \* or an overflow; TotalBounded says that it is none
Part == fmt[at]
IsText == at <= Len(fmt) /\ Part.kind = "text"
IsDirective == at <= Len(fmt) /\ Part.kind = "directive"

\* vsnprintf ends the buffer with a NUL, but not when the first pass failed.
Return(result) ==
  /\ pass' = "done" /\ ret' = result
  /\ str' = IF file = "str" /\ pass = "print" /\ offset < size
            THEN [str EXCEPT ![offset] = "NUL"] ELSE str
  /\ UNCHANGED <<call, file, size, at, cnt, l, l10n, ap, nl_type, nl_arg, text, console, offset,
                 stored>>

Literal ==
  /\ MayGoOn /\ IsText
  /\ IF Len(Part.text) > INT_MAX - Total THEN Return(-1)
     ELSE /\ cnt' = Total /\ l' = Len(Part.text) /\ at' = at + 1
          /\ IF pass = "print" THEN Out(<<Part.text>>) ELSE NoOut
          /\ UNCHANGED <<call, file, size, pass, l10n, ap, nl_type, nl_arg, stored, ret>>

\* Once an argument was numbered, a * without a number is invalid; the number of a
\* precision does not count.
NumberedBefore(d) == l10n \/ d.pos > 0
NumberedInside(d) == NumberedBefore(d) \/ d.w.kind = "arg"
Invalid(d) ==
  \/ d.w.kind = "next" /\ NumberedBefore(d)
  \/ d.w.kind = "number" /\ GetInt(d.w.n) < 0
  \/ d.p.kind = "next" /\ NumberedInside(d)
  \/ States(d.prefix, d.conv) = "none"

InvalidDirective == MayGoOn /\ IsDirective /\ Invalid(Part) /\ Return(-1)

\* Without a file: the types of the numbered arguments; the first directive that is
\* not numbered ends the pass.
Noted(d) ==
  LET starred == {star.n : star \in {s \in {d.w, d.p} : s.kind = "arg"}}
  IN [i \in DOMAIN nl_type |->
        CASE i = d.pos -> States(d.prefix, d.conv)
          [] i # d.pos /\ i \in starred -> "INT"
          [] OTHER -> nl_type[i]]

StartPrinting ==
  /\ pass' = "print" /\ at' = 1 /\ cnt' = 0 /\ l' = 0 /\ l10n' = FALSE
  /\ UNCHANGED <<call, file, size, ap, text, console, str, offset, stored, ret>>

NoteTypes ==
  /\ pass = "types" /\ MayGoOn /\ IsDirective /\ ~Invalid(Part)
  /\ nl_type' = Noted(Part)
  /\ IF Part.pos = 0
     THEN StartPrinting /\ UNCHANGED nl_arg
     ELSE /\ cnt' = Total /\ l' = 0 /\ at' = at + 1 /\ l10n' = NumberedInside(Part)
          /\ UNCHANGED <<call, file, size, pass, ap, nl_arg, text, console, str, offset, stored, ret>>

\* The types must have no gap; then the arguments are taken in their order.
KnownTypes == {i \in DOMAIN nl_type : nl_type[i] # "none"}
EndTypes ==
  /\ pass = "types" /\ MayGoOn /\ at > Len(fmt)
  /\ IF ~l10n THEN StartPrinting /\ UNCHANGED <<nl_type, nl_arg>>
     ELSE IF \E i \in KnownTypes : \E j \in 1 .. i : j \notin KnownTypes THEN Return(-1)
     ELSE /\ nl_arg' = [i \in DOMAIN nl_arg |->
                          IF i \in KnownTypes THEN PopArg(nl_type[i], call.args[i]) ELSE nl_arg[i]]
          /\ StartPrinting /\ UNCHANGED nl_type

Value(d) ==
  IF d.pos > 0 THEN nl_arg[d.pos]
  ELSE PopArg(States(d.prefix, d.conv), call.args[ap + Needs(d.w) + Needs(d.p)])

StarWidth(d) == IF d.w.kind = "absent" THEN 0 ELSE StarValue(d.w, ap)
\* The least int has no positive counterpart: it stays what it is.
Width(d) == IF StarWidth(d) < 0 THEN Signed(-StarWidth(d), IntBits) ELSE StarWidth(d)
Flags(d) == LET fl == IF StarWidth(d) < 0 THEN d.flags \cup {"-"} ELSE d.flags
            IN IF "-" \in fl THEN fl \ {"0"} ELSE fl
Precision(d) == IF d.p.kind = "absent" THEN -1 ELSE StarValue(d.p, ap + Needs(d.w))
Explicit(d) == \/ d.p.kind = "number"
               \/ d.p.kind \in {"next", "arg"} /\ Precision(d) >= 0

Taken(d) == /\ ap' = ap + Needs(d.w) + Needs(d.p) + (IF d.pos = 0 THEN 1 ELSE 0)
            /\ l10n' = NumberedInside(d) /\ at' = at + 1 /\ cnt' = Total
            /\ UNCHANGED <<call, file, size, pass, nl_type, nl_arg, ret>>

StoreCountLate ==
  /\ pass = "print" /\ MayGoOn /\ IsDirective /\ ~Invalid(Part) /\ Part.conv = "n"
  /\ stored' = cnt % Pow2[Bits(UnsignedType[Part.prefix])]
  /\ l' = 0 /\ Taken(Part) /\ NoOut

\* %n: the count so far, in the width of the length modifier.
StoreCount ==
  /\ pass = "print" /\ MayGoOn /\ IsDirective /\ ~Invalid(Part) /\ Part.conv = "n"
  /\ stored' = Total % Pow2[Bits(UnsignedType[Part.prefix])]
  /\ l' = 0 /\ Taken(Part) /\ NoOut

Field(c, w) == Max({w, Len(c.prefix) + c.p})

PrintDirective ==
  /\ pass = "print" /\ MayGoOn /\ IsDirective /\ ~Invalid(Part) /\ Part.conv # "n"
  /\ LET c == Convert(Part.conv, Value(Part), Precision(Part), Explicit(Part), Flags(Part))
     IN IF \/ ~c.ok
           \/ c.p > INT_MAX - Len(c.prefix)
           \/ Field(c, Width(Part)) > INT_MAX - Total
        THEN Return(-1)
        ELSE /\ Out(Emit(c, Field(c, Width(Part))))
             /\ l' = Field(c, Width(Part))
             /\ Taken(Part) /\ UNCHANGED stored

EndOfFormat ==
  /\ pass = "print" /\ MayGoOn /\ at > Len(fmt)
  /\ Return(Total)

Next ==
  \/ Literal \/ InvalidDirective
  \/ NoteTypes \/ EndTypes
  \/ StoreCount \/ PrintDirective \/ EndOfFormat

-----------------------------------------------------------------------------
(* What the C standard says of the same call, field by field               *)

StdBits(prefix) == Bits(UnsignedType[prefix])

\* The shortest digits of v, and at least one.
StdLength(v, base) ==
  CHOOSE n \in 1 .. LongBits : v < base ^ n /\ (n = 1 \/ v >= base ^ (n - 1))
StdGlyphs(v, base, glyphs) ==
  LET n == StdLength(v, base)
  IN [i \in 1 .. n |-> glyphs[((v \div base ^ (n - i)) % base) + 1]]

Repeat(c, n) == [i \in 1 .. n |-> c]

StdArg(k) == call.args[IF fmt[k].pos > 0 THEN fmt[k].pos
                       ELSE ArgAt(fmt, k) + Needs(fmt[k].w) + Needs(fmt[k].p)]
StdStar(star, a) == CASE star.kind = "number" -> star.n
                      [] star.kind = "next" -> Signed(call.args[a], IntBits)
                      [] star.kind = "arg" -> Signed(call.args[star.n], IntBits)
                      [] OTHER -> 0
StdWidth(k) == StdStar(fmt[k].w, ArgAt(fmt, k))

\* A negative precision is as if it were omitted.
StdPrecision(k) == LET p == StdStar(fmt[k].p, ArgAt(fmt, k) + Needs(fmt[k].w))
                   IN IF fmt[k].p.kind = "absent" \/ p < 0 THEN {} ELSE {p}

StdSign(v, flags) == IF v < 0 THEN <<"-">> ELSE IF "+" \in flags THEN <<"+">>
                     ELSE IF " " \in flags THEN <<" ">> ELSE <<>>

\* The digits of a magnitude with the zeros its precision asks for.
StdNumber(v, base, glyphs, p, alternative) ==
  LET digits == IF v = 0 /\ p = {0} THEN <<>> ELSE StdGlyphs(v, base, glyphs)
      zeros == Repeat("0", IF p = {} THEN 0 ELSE Max({0} \cup {n - Len(digits) : n \in p}))
      whole == zeros \o digits
  IN IF alternative /\ (whole = <<>> \/ whole[1] # "0") THEN <<"0">> \o whole ELSE whole

\* The sign or 0x in front, and what follows.
StdConversion(k) ==
  LET d == fmt[k]
      v == StdArg(k)
      u == v % Pow2[StdBits(d.prefix)]
      i == Signed(v, StdBits(d.prefix))
      p == StdPrecision(k)
      Hex(x) == IF "#" \in d.flags /\ u # 0 THEN <<"0", x>> ELSE <<>>
  IN CASE d.conv \in {"d", "i"} ->
            <<StdSign(i, d.flags), StdNumber(IF i < 0 THEN -i ELSE i, 10, Lower, p, FALSE)>>
       [] d.conv = "u" -> <<<<>>, StdNumber(u, 10, Lower, p, FALSE)>>
       [] d.conv = "o" -> <<<<>>, StdNumber(u, 8, Lower, p, "#" \in d.flags)>>
       [] d.conv = "x" -> <<Hex("x"), StdNumber(u, 16, Lower, p, FALSE)>>
       [] d.conv = "X" -> <<Hex("X"), StdNumber(u, 16, Upper, p, FALSE)>>
       [] d.conv = "p" -> <<IF v = 0 THEN <<>> ELSE <<"0", "x">>, StdNumber(v, 16, Lower, {}, FALSE)>>
       [] d.conv = "c" -> <<<<>>, <<Glyphs[v % Pow2[CharBits]]>>>>
       [] d.conv = "n" -> <<<<>>, <<>>>>
       [] d.conv = "s" ->
            LET chars == IF v = NULL THEN <<"(", "n", "u", "l", "l", ")">> ELSE Strings[v]
            IN <<<<>>, SubSeq(chars, 1, Min({Len(chars)} \cup p))>>

\* The field: filled with spaces on one side, or with zeros after the sign.  A width
\* that no int can hold without its sign is outside the standard, and fills nothing.
StdField(k) ==
  LET d == fmt[k]
      w == StdWidth(k)
      front == StdConversion(k)[1]
      body == StdConversion(k)[2]
      width == IF w < -INT_MAX THEN 0 ELSE IF w < 0 THEN -w ELSE w
      fill == Max({0, width - Len(front) - Len(body)})
  IN IF d.kind = "text" THEN d.text
     ELSE IF "-" \in d.flags \/ w < 0 THEN front \o body \o Repeat(" ", fill)
     ELSE IF "0" \in d.flags /\ StdPrecision(k) = {} /\ d.conv \notin {"c", "s"}
          THEN front \o Repeat("0", fill) \o body
     ELSE Repeat(" ", fill) \o front \o body

StdText(n) == FlattenSeq([k \in 1 .. n |-> IF fmt[k].kind = "text" THEN fmt[k].text
                                           ELSE IF fmt[k].conv = "n" THEN <<>> ELSE StdField(k)])

\* A directive the standard defines, with numbers an int can hold.
StdValid(d) ==
  /\ States(d.prefix, d.conv) # "none"
  /\ d.w.kind = "number" => d.w.n <= INT_MAX
  /\ d.p.kind = "number" /\ d.conv \notin {"c", "s", "n"} => d.p.n <= INT_MAX
NumberedDirectives == {k \in DOMAIN fmt : fmt[k].kind = "directive" /\ fmt[k].pos > 0}
NumberedArgs ==
  UNION {{fmt[k].pos} \cup {star.n : star \in {s \in {fmt[k].w, fmt[k].p} : s.kind = "arg"}}
           : k \in NumberedDirectives}
StdFormat ==
  /\ \A k \in DOMAIN fmt : fmt[k].kind = "directive" => StdValid(fmt[k])
  /\ NumberedDirectives # {} =>
       /\ \A k \in NumberedDirectives : {fmt[k].w.kind, fmt[k].p.kind} \cap {"next"} = {}
       /\ NumberedArgs = 1 .. Cardinality(NumberedArgs)

-----------------------------------------------------------------------------
(* Properties                                                              *)

TypeOK ==
  /\ file \in Files /\ size \in Buffers \cup {0}
  /\ pass \in {"types", "print", "done"} /\ at \in 1 .. Len(fmt) + 1
  /\ cnt \in 0 .. INT_MAX /\ l \in 0 .. INT_MAX /\ l10n \in BOOLEAN
  /\ ap \in 1 .. Len(call.args) + 1
  /\ DOMAIN str = 0 .. size - 1 /\ offset \in Nat
  /\ stored \in {Nothing} \cup 0 .. UINTMAX - 1 /\ ret \in -1 .. INT_MAX

\* A call the standard defines and whose output an int can count prints exactly what
\* the standard says and returns its length; every other one returns -1 and has
\* printed whole directives only (printf_core, vfprintf).  A width of -INT_MAX - 1,
\* which the standard cannot negate, fills nothing.
PrintsAsStandard ==
  pass = "done" =>
    IF StdFormat /\ Len(StdText(Len(fmt))) <= INT_MAX
    THEN ret = Len(text) /\ text = StdText(Len(fmt))
    ELSE ret = -1 /\ (StdFormat => \E n \in 0 .. Len(fmt) : text = StdText(n))

\* The count of characters is the number of those written, and never overflows: the
\* check at the head of the loop is one too many (printf_core).
TotalBounded ==
  /\ Running => cnt + l <= INT_MAX
  /\ pass = "print" => cnt + l = Len(text)

\* snprintf writes nothing at the end of its buffer but the NUL, and the buffer holds
\* as much of the text as there is room for; only the first pass leaves it as it was
\* (str_write, vsnprintf).
BufferBounded ==
  file = "str" =>
    /\ offset = Min({Len(text), Max({0, size - 1})})
    /\ \A i \in DOMAIN str : IF i < offset THEN str[i] = text[i + 1]
                             ELSE str[i] = "old" \/ (str[i] = "NUL" /\ i = offset)
    /\ ret >= 0 /\ size > 0 => str[offset] = "NUL"

\* What a program prints is what the console shows, without the NULs, as long as it
\* has no % (printf, stdout_write, printk).
ConsoleShows ==
  file # "str" /\ ~Contains(text, "%") =>
    console = IF file = "sbi" THEN text ELSE SelectSeq(text, LAMBDA c : c # "NUL")

\* %n stores the number of characters that were written before it (printf_core).
StoredIsWritten ==
  [][stored' # stored => \E bits \in {CharBits, ShortBits, IntBits, LongBits} :
       stored' = Len(text) % Pow2[bits] /\ text' = text]_printfVars
=============================================================================
