------------------------------ MODULE MCLibrary ------------------------------
(* Calls of printf with every flag, width, precision, length and kind of    *)
(* argument on words of a few bits, calls of scanf on short inputs, and     *)
(* short sessions of the shell.                                             *)
EXTENDS UserLibrary, TLC

\* Widths and precisions.
Absent == [kind |-> "absent"]
Number(n) == [kind |-> "number", n |-> n]
NextArg == [kind |-> "next"]
Arg(i) == [kind |-> "arg", n |-> i]

Text(t) == [kind |-> "text", text |-> t]
Numbered(p, flags, w, precision, prefix, conv) ==
  [kind |-> "directive", pos |-> p, flags |-> flags, w |-> w, p |-> precision,
   prefix |-> prefix, conv |-> conv]
Directive(flags, w, precision, prefix, conv) == Numbered(0, flags, w, precision, prefix, conv)
Plain(conv) == Directive({}, Absent, Absent, "none", conv)
Call(format, args) == [fmt |-> format, args |-> args]

IntCalls ==
  {Call(<<Directive(flags, w, p, "none", conv)>>, <<v>>) :
     flags \in SUBSET {"#", "0", "-", "+", " "}, w \in {Absent, Number(5)},
     p \in {Absent, Number(0), Number(3)}, conv \in {"d", "u", "o", "x", "X"},
     v \in {0, 5, 27}}
TypeCalls ==
  {Call(<<Directive({}, Absent, Absent, prefix, conv)>>, <<v>>) :
     prefix \in {"none", "l", "ll", "h", "hh", "z", "j", "t"},
     conv \in {"i", "u", "c", "n", "p"}, v \in {0, 7, 44, 63}}
StarCalls ==
  {Call(<<Directive(flags, NextArg, p, "none", "d"), Plain("u")>>, args) :
     flags \in SUBSET {"0", "-"}, p \in {Absent, NextArg},
     args \in {<<w, x, 1, 3>> : w \in {0, 4, 16, 60}, x \in {2, 63}}}
StringCalls ==
  {Call(<<Directive(flags, w, p, prefix, "s")>>, <<v>>) :
     flags \in SUBSET {"0", "-"}, w \in {Absent, Number(4), Number(16)},
     p \in {Absent, Number(2), Number(16)}, prefix \in {"none", "h"}, v \in 0 .. 2}
MCStrings == [a \in 1 .. 63 |-> IF a = 1 THEN <<"a", "b", "c">> ELSE [i \in 1 .. 16 |-> "a"]]
ManyCalls ==
  {Call(<<Text(<<"a", "b">>), Directive({"-"}, w, Absent, "none", "d"),
           Directive({}, Absent, Absent, prefix, "n"), Text(t), Plain("c")>>, <<9, 0, v>>) :
     w \in {Absent, Number(3), Number(12)}, prefix \in {"none", "hh"},
     t \in {<<"c">>, <<"c", "%">>, <<"%", "%">>, [i \in 1 .. 8 |-> "d"]}, v \in {0, 3}}
NumberedCalls ==
  {Call(<<Numbered(x, {}, w, p, "none", "d"),
           Numbered(y, {}, Absent, Absent, "none", "d")>>, <<10, 2, 17>>) :
     x \in 1 .. 2, y \in 1 .. 3, w \in {Absent, NextArg, Arg(1)},
     p \in {Absent, NextArg, Arg(2)}}
MCPrintCalls == IntCalls \cup TypeCalls \cup StarCalls \cup StringCalls \cup ManyCalls
                  \cup NumberedCalls
MCGlyphs == [i \in 0 .. 7 |-> <<"NUL", "A", "B", "C", "D", "E", "F", "%">>[i + 1]]

Space == [kind |-> "space"]
Character(x) == [kind |-> "literal", char |-> x]
Scan(suppress, width, conv) ==
  [kind |-> "directive", suppress |-> suppress, width |-> width, conv |-> conv]
TwoCalls ==
  {<<<<d>>, <<Scan(FALSE, 0, conv)>>>> :
     d \in {Scan(s, w, k) : s \in BOOLEAN, w \in 0 .. 2, k \in {"d", "s", "c"}},
     conv \in {"s", "d"}}
OneCall ==
  {<<<<d, x, Scan(FALSE, 0, conv)>>>> :
     d \in {Scan(FALSE, 0, "d"), Scan(TRUE, 2, "s"), Scan(FALSE, 2, "c")},
     x \in {Space, Character("x"), Scan(FALSE, 0, "x")}, conv \in {"c", "d"}}
MCScans == TwoCalls \cup OneCall
MCInputs == UNION {[1 .. n -> {" ", "-", "1", "2", "x"}] : n \in 0 .. 3}

\* Files that end with and without a line feed, in the middle and at the end of a
\* read of cat; one holds a % and a NUL.
MCVolume == [p \in {<<"f">>, <<"g">>, <<"e">>} |->
              CASE p = <<"f">> -> <<"a", "NUL", "%", "b", "LF">>
                [] p = <<"g">> -> <<"LF", "a">>
                [] OTHER -> <<>>]

\* The codes of ASCII.
Small == <<"a", "b", "c", "d", "e", "f", "g", "h", "i", "j", "k", "l", "m",
           "n", "o", "p", "q", "r", "s", "t", "u", "v", "w", "x", "y", "z">>
Figures == <<"0", "1", "2", "3", "4", "5", "6", "7", "8", "9">>
MCCodes ==
  [x \in {Figures[i] : i \in 1 .. 10} |-> 47 + (CHOOSE i \in 1 .. 10 : Figures[i] = x)]
  @@ [x \in {Small[i] : i \in 1 .. 26} |-> 96 + (CHOOSE i \in 1 .. 26 : Small[i] = x)]
  @@ "NUL" :> 0 @@ "LF" :> 10 @@ " " :> 32 @@ "QUOTE" :> 34 @@ "%" :> 37
  @@ "-" :> 45 @@ "." :> 46

Names == {"f", "g", "e", "z"}
Edits == {<<"edit", " ", x, " ">> \o o \o <<" ">> \o t \o <<"CR", "cat", x, "CR">> :
            x \in Names,
            o \in {<<"0">>, <<"1">>, <<"3">>, <<"0", "2">>, <<"1", "0">>, <<"a">>, <<"-">>,
                   <<"1", "-">>, <<"1", ".">>, <<"1", "2", "8">>, <<"2", "5", "7">>},
            t \in {<<>>, <<"1">>, <<"b", "LF">>, <<"QUOTE", "b", " ", "%", "QUOTE">>}}
Cats == {<<"cat", " ", " ", x, " ", "CR", "cat", y, "CR", "cat", "g", "CR">> :
           x \in Names, y \in Names}
Echos == {<<"echo">> \o t \o <<"CR">> :
            t \in {<<>>, <<" ", "a", "b", " ", "1">>, <<" ", "a", "NUL", "b">>,
                   <<" ", "%">>, <<" ", "%", "a">>, <<" ", "QUOTE", " ", "%", "QUOTE">>,
                   <<" ", "a", " ", "%">>,
                   <<" ", "QUOTE", " ", "a", "QUOTE", "b">>, <<"QUOTE", "QUOTE">>}}

\* Slips of the finger: what is typed in between is erased again, and one too many.
Corrected == {<<"DEL", "a", "DEL", "DEL", "cat", "f", "b", " ", "DEL", "DEL", "CR">>,
              <<"cat", "e", "CR", "DEL", "g", "DEL", "echo", " ", "a", "CR">>,
              <<"a", "%", "DEL", "DEL", "echo", "%", "DEL", "b", "CR">>,
              <<"CR", "a", "CR", " ", "NUL", "a", "DEL", "CR", "NUL", "a", "CR">>}
MCScripts == Edits \cup Cats \cup Echos \cup Corrected
=============================================================================
