---------------------------- MODULE Shell_proofs ----------------------------
(***************************************************************************)
(* Proofs about the shell: the terminal shows the line that is typed, and  *)
(* every command does what its words say, with the exceptions ShellObeys   *)
(* makes for a % and a NUL.  They hold for every volume, every size of the *)
(* buffer of cat and every script that the assumption of Shell allows.     *)
(***************************************************************************)
EXTENDS UserLibrary_proofs, FiniteSetTheorems

-----------------------------------------------------------------------------
(* The words of the shell                                                  *)

\* A part of a text.
LEMMA PartOf ==
  ASSUME NEW r \in Seq(STRING), NEW m \in Nat, NEW n \in 0 .. Len(r)
  PROVE  /\ SubSeq(r, m + 1, n) \in Seq(STRING)
         /\ Len(SubSeq(r, m + 1, n)) = IF m <= n THEN n - m ELSE 0
         /\ \A i \in 1 .. n - m : SubSeq(r, m + 1, n)[i] = r[m + i]
<1>1. Len(r) \in Nat /\ n \in Nat /\ m + 1 \in Int /\ n \in Int /\ m \in Nat
  BY LenProperties
<1>2. \A i \in m + 1 .. n : r[i] \in STRING
  <2> TAKE i \in m + 1 .. n
  <2>1. i \in 1 .. Len(r)
    BY <1>1
  <2> QED BY <2>1, ElementOfSeq
<1>3. /\ SubSeq(r, m + 1, n) \in Seq(STRING)
      /\ Len(SubSeq(r, m + 1, n)) = IF m + 1 <= n THEN n - (m + 1) + 1 ELSE 0
      /\ \A i \in 1 .. n - (m + 1) + 1 : SubSeq(r, m + 1, n)[i] = r[m + 1 + i - 1]
  BY <1>1, <1>2, SubSeqProperties
<1>4. (IF m + 1 <= n THEN n - (m + 1) + 1 ELSE 0) = IF m <= n THEN n - m ELSE 0
  BY <1>1
<1>5. ASSUME NEW i \in 1 .. n - m PROVE SubSeq(r, m + 1, n)[i] = r[m + i]
  <2>1. i \in 1 .. n - (m + 1) + 1 /\ m + 1 + i - 1 = m + i
    BY <1>1
  <2> QED BY <1>3, <2>1
<1> QED BY <1>3, <1>4, <1>5

\* What is left of a text behind its first i characters.
LEMMA DropIs ==
  ASSUME NEW r \in Seq(STRING), NEW i \in 0 .. Len(r)
  PROVE  /\ K!Drop(r, i) \in Seq(STRING)
         /\ Len(K!Drop(r, i)) = Len(r) - i
         /\ \A j \in 1 .. Len(r) - i : K!Drop(r, i)[j] = r[i + j]
<1>1. Len(r) \in Nat /\ i \in Nat /\ Len(r) \in 0 .. Len(r) /\ i <= Len(r)
  BY LenProperties
<1>2. K!Drop(r, i) = SubSeq(r, i + 1, Len(r))
  BY DEF K!Drop
<1> QED BY <1>1, <1>2, PartOf

\* Parts and ends of what is left are parts and ends of the whole.
LEMMA DropParts ==
  ASSUME NEW r \in Seq(STRING), NEW i \in 0 .. Len(r)
  PROVE  /\ K!Drop(r, 0) = r
         /\ \A m \in 0 .. Len(r) - i :
              /\ K!Drop(K!Drop(r, i), m) = K!Drop(r, i + m)
              /\ SubSeq(K!Drop(r, i), 1, m) = SubSeq(r, i + 1, i + m)
         /\ i < Len(r) => /\ K!Drop(r, i) # <<>> /\ Head(K!Drop(r, i)) = r[i + 1]
                          /\ Tail(K!Drop(r, i)) = K!Drop(r, i + 1)
         /\ i = Len(r) => K!Drop(r, i) = <<>>
<1> DEFINE t == K!Drop(r, i)
           N == Len(r)
<1>0. N \in Nat /\ i \in Nat /\ i <= N
  BY LenProperties
<1>1. t \in Seq(STRING) /\ Len(t) = N - i /\ \A j \in 1 .. N - i : t[j] = r[i + j]
  BY Zenon, DropIs
<1>2. K!Drop(r, 0) = r
  <2>1. K!Drop(r, 0) = SubSeq(r, 1, Len(r))
    BY DEF K!Drop
  <2> QED BY <2>1, SubSeqFull
<1>3. ASSUME NEW m \in 0 .. N - i
      PROVE  K!Drop(t, m) = K!Drop(r, i + m) /\ SubSeq(t, 1, m) = SubSeq(r, i + 1, i + m)
  <2>1. i + m \in 0 .. N /\ m \in 0 .. Len(t) /\ m \in Nat /\ i + m \in Nat
    BY <1>0, <1>1
  <2>2. /\ K!Drop(t, m) \in Seq(STRING) /\ Len(K!Drop(t, m)) = Len(t) - m
        /\ \A j \in 1 .. Len(t) - m : K!Drop(t, m)[j] = t[m + j]
    <3> HIDE DEF t
    <3> QED BY Zenon, <1>1, <2>1, DropIs
  <2>3. /\ K!Drop(r, i + m) \in Seq(STRING) /\ Len(K!Drop(r, i + m)) = N - (i + m)
        /\ \A j \in 1 .. N - (i + m) : K!Drop(r, i + m)[j] = r[i + m + j]
    BY Zenon, <2>1, DropIs
  <2> HIDE DEF t, N
  <2>4. K!Drop(t, m) = K!Drop(r, i + m)
    <3>1. Len(K!Drop(t, m)) = Len(K!Drop(r, i + m))
      BY <1>0, <1>1, <2>1, <2>2, <2>3
    <3>2. ASSUME NEW j \in 1 .. Len(K!Drop(t, m)) PROVE K!Drop(t, m)[j] = K!Drop(r, i + m)[j]
      <4>1. j \in 1 .. Len(t) - m /\ m + j \in 1 .. N - i /\ j \in 1 .. N - (i + m) /\ i + (m + j) = i + m + j
        BY <1>0, <1>1, <2>1, <2>2
      <4>2. K!Drop(t, m)[j] = t[m + j]
        BY Zenon, <2>2, <4>1
      <4>3. t[m + j] = r[i + (m + j)]
        BY Zenon, <1>1, <4>1
      <4>4. K!Drop(r, i + m)[j] = r[i + m + j]
        BY Zenon, <2>3, <4>1
      <4> QED BY Zenon, <4>1, <4>2, <4>3, <4>4
    <3> QED BY <2>2, <2>3, <3>1, <3>2, SeqEqual
  <2>5. SubSeq(t, 1, m) = SubSeq(r, i + 1, i + m)
    <3>1. /\ SubSeq(t, 0 + 1, m) \in Seq(STRING) /\ Len(SubSeq(t, 0 + 1, m)) = m
          /\ \A j \in 1 .. m : SubSeq(t, 0 + 1, m)[j] = t[0 + j]
      <4>1. 0 \in Nat /\ 0 <= m /\ m - 0 = m
        BY <2>1
      <4> QED BY <1>1, <2>1, <4>1, PartOf
    <3>2. /\ SubSeq(r, i + 1, i + m) \in Seq(STRING) /\ Len(SubSeq(r, i + 1, i + m)) = m
          /\ \A j \in 1 .. m : SubSeq(r, i + 1, i + m)[j] = r[i + j]
      <4> DEFINE e == i + m
      <4>1. e - i = m /\ i <= e
        BY <1>0, <2>1
      <4>2. i \in Nat /\ e \in 0 .. Len(r)
        BY Zenon, <1>0, <2>1 DEF N
      <4> HIDE DEF e
      <4>3. /\ SubSeq(r, i + 1, e) \in Seq(STRING) /\ Len(SubSeq(r, i + 1, e)) = e - i
            /\ \A j \in 1 .. e - i : SubSeq(r, i + 1, e)[j] = r[i + j]
        BY Zenon, <4>1, <4>2, PartOf
      <4> QED BY Zenon, <4>1, <4>3 DEF e
    <3>3. ASSUME NEW j \in 1 .. m PROVE SubSeq(t, 1, m)[j] = SubSeq(r, i + 1, i + m)[j]
      <4>1. j \in 1 .. N - i /\ 0 + j = j
        BY <1>0, <2>1
      <4> QED BY <1>1, <3>1, <3>2, <4>1
    <3>4. SubSeq(t, 0 + 1, m) = SubSeq(t, 1, m)
      OBVIOUS
    <3>5. /\ SubSeq(t, 1, m) \in Seq(STRING) /\ Len(SubSeq(t, 1, m)) = m
          /\ SubSeq(r, i + 1, i + m) \in Seq(STRING) /\ Len(SubSeq(r, i + 1, i + m)) = m
      BY Zenon, <3>1, <3>2, <3>4
    <3> QED BY Zenon, <3>3, <3>5, SeqEqual
  <2> QED BY <2>4, <2>5
<1>4. ASSUME i < N PROVE t # <<>> /\ Head(t) = r[i + 1] /\ Tail(t) = K!Drop(r, i + 1)
  <2>1. 1 \in 1 .. N - i /\ Len(t) \in Nat \ {0}
    BY <1>0, <1>1, <1>4
  <2>2. t # <<>>
    BY <2>1, EmptySeq
  <2>3. Head(t) = t[1]
    BY <1>1, <2>2
  <2>4. Tail(t) = SubSeq(t, 2, Len(t))
    BY Zenon, <1>1, <2>2, TailIsSubSeq
  <2>5. Tail(t) = K!Drop(t, 1)
    <3>1. K!Drop(t, 1) = SubSeq(t, 1 + 1, Len(t)) /\ 1 + 1 = 2
      BY DEF K!Drop
    <3> QED BY Zenon, <2>4, <3>1
  <2>6. K!Drop(t, 1) = K!Drop(r, i + 1)
    <3>1. 1 \in 0 .. N - i
      BY <1>0, <1>4
    <3> QED BY <1>3, <3>1
  <2> QED BY <1>1, <2>1, <2>2, <2>3, <2>5, <2>6
<1>5. ASSUME i = N PROVE t = <<>>
  <2>1. Len(t) = 0
    BY <1>0, <1>1, <1>5
  <2> QED BY <1>1, <2>1, EmptySeq
<1> QED BY Zenon, <1>2, <1>3, <1>4, <1>5

\* How far a run of one character goes.
LEMMA RunEnds ==
  ASSUME NEW s \in Seq(STRING), NEW ch
  PROVE  /\ K!Run(s, ch, TRUE) \in 0 .. Len(s)
         /\ \A i \in 1 .. K!Run(s, ch, TRUE) : s[i] = ch
         /\ K!Run(s, ch, TRUE) = Len(s) \/ s[K!Run(s, ch, TRUE) + 1] # ch
<1> DEFINE N == Len(s)
           T == {n \in 0 .. N : n = N \/ s[n + 1] # ch}
           IsRun(m) == /\ \A i \in 1 .. m : (s[i] = ch) = TRUE
                       /\ m = Len(s) \/ (s[m + 1] = ch) # TRUE
<1>0. N \in Nat
  BY LenProperties
<1>1. T \in SUBSET Nat /\ N \in T
  BY <1>0
<1>2. PICK n \in T : \A y \in T : n <= y
  BY Zenon, <1>1, LeastNumber
<1>3. n \in 0 .. N /\ (n = N \/ s[n + 1] # ch)
  BY <1>2
<1>4. ASSUME NEW i \in 1 .. n PROVE s[i] = ch
  <2>1. i - 1 \in 0 .. N /\ ~(n <= i - 1) /\ i - 1 + 1 = i
    BY <1>0, <1>3
  <2>2. i - 1 \notin T
    BY <1>2, <2>1
  <2> QED BY <2>1, <2>2
<1>5. ASSUME NEW m PROVE IsRun(m) <=> /\ \A i \in 1 .. m : s[i] = ch
                                      /\ m = Len(s) \/ s[m + 1] # ch
  <2>1. \A i \in 1 .. m : ((s[i] = ch) = TRUE) <=> s[i] = ch
    OBVIOUS
  <2>2. ((s[m + 1] = ch) # TRUE) <=> s[m + 1] # ch
    OBVIOUS
  <2> QED BY Zenon, <2>1, <2>2
<1>6. K!Run(s, ch, TRUE) = CHOOSE m \in 0 .. Len(s) : IsRun(m)
  BY DEF K!Run
<1> HIDE DEF IsRun
<1>7. \E m \in 0 .. Len(s) : IsRun(m)
  BY <1>3, <1>4, <1>5
<1>8. K!Run(s, ch, TRUE) \in 0 .. Len(s) /\ IsRun(K!Run(s, ch, TRUE))
  BY <1>6, <1>7, Zenon
<1> QED BY Zenon, <1>5, <1>8

\* How far a run of other characters goes.
LEMMA OthersAre ==
  ASSUME NEW s \in Seq(STRING), NEW ch
  PROVE  /\ K!Run(s, ch, FALSE) \in 0 .. Len(s)
         /\ \A i \in 1 .. K!Run(s, ch, FALSE) : s[i] # ch
         /\ K!Run(s, ch, FALSE) = Len(s) \/ s[K!Run(s, ch, FALSE) + 1] = ch
<1> DEFINE N == Len(s)
           T == {n \in 0 .. N : n = N \/ s[n + 1] = ch}
           IsRun(m) == /\ \A i \in 1 .. m : (s[i] = ch) = FALSE
                       /\ m = Len(s) \/ (s[m + 1] = ch) # FALSE
<1>0. N \in Nat
  BY LenProperties
<1>1. T \in SUBSET Nat /\ N \in T
  BY <1>0
<1>2. PICK n \in T : \A y \in T : n <= y
  BY Zenon, <1>1, LeastNumber
<1>3. n \in 0 .. N /\ (n = N \/ s[n + 1] = ch)
  BY <1>2
<1>4. ASSUME NEW i \in 1 .. n PROVE s[i] # ch
  <2>1. i - 1 \in 0 .. N /\ ~(n <= i - 1) /\ i - 1 + 1 = i
    BY <1>0, <1>3
  <2>2. i - 1 \notin T
    BY Zenon, <1>2, <2>1
  <2> QED BY <2>1, <2>2
<1>5. ASSUME NEW m PROVE IsRun(m) <=> /\ \A i \in 1 .. m : s[i] # ch
                                      /\ m = Len(s) \/ s[m + 1] = ch
  <2>1. \A i \in 1 .. m : ((s[i] = ch) = FALSE) <=> s[i] # ch
    OBVIOUS
  <2>2. ((s[m + 1] = ch) # FALSE) <=> s[m + 1] = ch
    OBVIOUS
  <2> QED BY Zenon, <2>1, <2>2
<1>6. K!Run(s, ch, FALSE) = CHOOSE m \in 0 .. Len(s) : IsRun(m)
  BY DEF K!Run
<1> HIDE DEF IsRun
<1>7. \E m \in 0 .. Len(s) : IsRun(m)
  BY <1>3, <1>4, <1>5
<1>8. K!Run(s, ch, FALSE) \in 0 .. Len(s) /\ IsRun(K!Run(s, ch, FALSE))
  BY <1>6, <1>7, Zenon
<1> QED BY Zenon, <1>5, <1>8

\* Where the spaces after the first i characters end, where the characters that are no
\* spaces end, and where those before a quote do.
Gap(r, i) == i + K!Run(K!Drop(r, i), " ", TRUE)

\* Where the word that begins behind i ends, and the text of a quote.
WordEnd(r, i) == i + K!Run(K!Drop(r, i), " ", FALSE)
QuoteEnd(r, i) == i + K!Run(K!Drop(r, i), K!Quote, FALSE)

\* Two places in a text.
LEMMA Places ==
  ASSUME NEW r \in Seq(STRING), NEW i \in 0 .. Len(r), NEW a \in i .. Len(r)
  PROVE  /\ Len(r) \in Nat /\ i \in Nat /\ a \in Nat /\ a \in 0 .. Len(r)
         /\ i <= a /\ a <= Len(r)
         /\ a - i \in 0 .. Len(r) - i /\ i + (a - i) = a /\ a - i \in Nat
<1> DEFINE N == Len(r)
<1>1. N \in Nat
  BY LenProperties
<1> HIDE DEF N
<1>2. /\ i \in Nat /\ a \in Nat /\ a \in 0 .. N /\ i <= a /\ a <= N
      /\ a - i \in 0 .. N - i /\ i + (a - i) = a /\ a - i \in Nat
  <2>1. i \in 0 .. N /\ a \in i .. N
    BY DEF N
  <2> QED BY <1>1, <2>1
<1> QED BY <1>1, <1>2 DEF N

\* A run of one character in what is left of a text, by the places of the text.
LEMMA RunFrom ==
  ASSUME NEW r \in Seq(STRING), NEW i \in 0 .. Len(r), NEW ch
  PROVE  LET e == i + K!Run(K!Drop(r, i), ch, TRUE) IN
         /\ e \in i .. Len(r) /\ e - i = K!Run(K!Drop(r, i), ch, TRUE)
         /\ \A j \in i + 1 .. e : r[j] = ch
         /\ e = Len(r) \/ r[e + 1] # ch
<1> DEFINE t == K!Drop(r, i)
           n == K!Run(t, ch, TRUE)
           N == Len(r)
           e == i + n
<1>0. N \in Nat /\ i \in Nat /\ i <= N
  BY LenProperties
<1>1. t \in Seq(STRING) /\ Len(t) = N - i /\ \A j \in 1 .. N - i : t[j] = r[i + j]
  BY Zenon, DropIs
<1>2. /\ n \in 0 .. Len(t) /\ \A j \in 1 .. n : t[j] = ch
      /\ n = Len(t) \/ t[n + 1] # ch
  <2> HIDE DEF t
  <2> QED BY Zenon, <1>1, RunEnds
<1>3. e = i + n
  OBVIOUS
<1> HIDE DEF t, n, N, e
<1>4. e \in i .. N /\ e - i = n /\ n \in Nat
  BY <1>0, <1>1, <1>2, <1>3
<1>5. ASSUME NEW j \in i + 1 .. e PROVE r[j] = ch
  <2>1. j - i \in 1 .. n /\ j - i \in 1 .. N - i /\ i + (j - i) = j
    BY <1>0, <1>1, <1>2, <1>3, <1>4
  <2> QED BY <1>1, <1>2, <2>1
<1>6. e = N \/ r[e + 1] # ch
  <2> SUFFICES ASSUME n # Len(t) PROVE r[e + 1] # ch
    BY <1>0, <1>1, <1>3
  <2>1. n + 1 \in 1 .. N - i /\ i + (n + 1) = e + 1
    BY <1>0, <1>1, <1>2, <1>3
  <2> QED BY <1>1, <1>2, <2>1
<1> QED BY Zenon, <1>4, <1>5, <1>6 DEF N, n, t, e

\* A run of other characters.
LEMMA OthersFrom ==
  ASSUME NEW r \in Seq(STRING), NEW i \in 0 .. Len(r), NEW ch
  PROVE  LET e == i + K!Run(K!Drop(r, i), ch, FALSE) IN
         /\ e \in i .. Len(r) /\ e - i = K!Run(K!Drop(r, i), ch, FALSE)
         /\ \A j \in i + 1 .. e : r[j] # ch
         /\ e = Len(r) \/ r[e + 1] = ch
<1> DEFINE t == K!Drop(r, i)
           n == K!Run(t, ch, FALSE)
           N == Len(r)
           e == i + n
<1>0. N \in Nat /\ i \in Nat /\ i <= N
  BY LenProperties
<1>1. t \in Seq(STRING) /\ Len(t) = N - i /\ \A j \in 1 .. N - i : t[j] = r[i + j]
  BY Zenon, DropIs
<1>2. /\ n \in 0 .. Len(t) /\ \A j \in 1 .. n : t[j] # ch
      /\ n = Len(t) \/ t[n + 1] = ch
  <2> HIDE DEF t
  <2> QED BY Zenon, <1>1, OthersAre
<1>3. e = i + n
  OBVIOUS
<1> HIDE DEF t, n, N, e
<1>4. e \in i .. N /\ e - i = n /\ n \in Nat
  BY <1>0, <1>1, <1>2, <1>3
<1>5. ASSUME NEW j \in i + 1 .. e PROVE r[j] # ch
  <2>1. j - i \in 1 .. n /\ j - i \in 1 .. N - i /\ i + (j - i) = j
    BY <1>0, <1>1, <1>2, <1>3, <1>4
  <2> QED BY <1>1, <1>2, <2>1
<1>6. e = N \/ r[e + 1] = ch
  <2> SUFFICES ASSUME n # Len(t) PROVE r[e + 1] = ch
    BY <1>0, <1>1, <1>3
  <2>1. n + 1 \in 1 .. N - i /\ i + (n + 1) = e + 1
    BY <1>0, <1>1, <1>2, <1>3
  <2> QED BY <1>1, <1>2, <2>1
<1> QED BY Zenon, <1>4, <1>5, <1>6 DEF N, n, t, e

\* Where the spaces end.
LEMMA GapIs ==
  ASSUME NEW r \in Seq(STRING), NEW i \in 0 .. Len(r)
  PROVE  /\ Gap(r, i) \in i .. Len(r) /\ Gap(r, i) \in 0 .. Len(r) /\ Gap(r, i) \in Nat
         /\ Gap(r, i) - i = K!Run(K!Drop(r, i), " ", TRUE)
         /\ \A j \in i + 1 .. Gap(r, i) : r[j] = " "
         /\ Gap(r, i) = Len(r) \/ r[Gap(r, i) + 1] # " "
<1>1. /\ Gap(r, i) \in i .. Len(r)
      /\ Gap(r, i) - i = K!Run(K!Drop(r, i), " ", TRUE)
      /\ \A j \in i + 1 .. Gap(r, i) : r[j] = " "
      /\ Gap(r, i) = Len(r) \/ r[Gap(r, i) + 1] # " "
  BY Zenon, RunFrom DEF Gap
<1>2. Gap(r, i) \in 0 .. Len(r) /\ Gap(r, i) \in Nat
  BY Zenon, <1>1, Places
<1> QED BY Zenon, <1>1, <1>2

\* Where the word ends.
LEMMA WordEndIs ==
  ASSUME NEW r \in Seq(STRING), NEW i \in 0 .. Len(r)
  PROVE  /\ WordEnd(r, i) \in i .. Len(r) /\ WordEnd(r, i) \in 0 .. Len(r) /\ WordEnd(r, i) \in Nat
         /\ WordEnd(r, i) - i = K!Run(K!Drop(r, i), " ", FALSE)
         /\ \A j \in i + 1 .. WordEnd(r, i) : r[j] # " "
         /\ WordEnd(r, i) = Len(r) \/ r[WordEnd(r, i) + 1] = " "
<1>1. /\ WordEnd(r, i) \in i .. Len(r)
      /\ WordEnd(r, i) - i = K!Run(K!Drop(r, i), " ", FALSE)
      /\ \A j \in i + 1 .. WordEnd(r, i) : r[j] # " "
      /\ WordEnd(r, i) = Len(r) \/ r[WordEnd(r, i) + 1] = " "
  BY Zenon, OthersFrom DEF WordEnd
<1>2. WordEnd(r, i) \in 0 .. Len(r) /\ WordEnd(r, i) \in Nat
  BY Zenon, <1>1, Places
<1> QED BY Zenon, <1>1, <1>2

\* Where the quote is closed.
LEMMA QuoteEndIs ==
  ASSUME NEW r \in Seq(STRING), NEW i \in 0 .. Len(r)
  PROVE  /\ QuoteEnd(r, i) \in i .. Len(r) /\ QuoteEnd(r, i) \in 0 .. Len(r) /\ QuoteEnd(r, i) \in Nat
         /\ QuoteEnd(r, i) - i = K!Run(K!Drop(r, i), K!Quote, FALSE)
         /\ \A j \in i + 1 .. QuoteEnd(r, i) : r[j] # K!Quote
         /\ QuoteEnd(r, i) = Len(r) \/ r[QuoteEnd(r, i) + 1] = K!Quote
<1>1. /\ QuoteEnd(r, i) \in i .. Len(r)
      /\ QuoteEnd(r, i) - i = K!Run(K!Drop(r, i), K!Quote, FALSE)
      /\ \A j \in i + 1 .. QuoteEnd(r, i) : r[j] # K!Quote
      /\ QuoteEnd(r, i) = Len(r) \/ r[QuoteEnd(r, i) + 1] = K!Quote
  BY Zenon, OthersFrom DEF QuoteEnd
<1>2. QuoteEnd(r, i) \in 0 .. Len(r) /\ QuoteEnd(r, i) \in Nat
  BY <1>1, Places
<1> QED BY Zenon, <1>1, <1>2

\* Skipping spaces once is enough.
LEMMA SkipIs ==
  ASSUME NEW r \in Seq(STRING), NEW i \in 0 .. Len(r)
  PROVE  /\ K!SkipSpaces(K!Drop(r, i)) = K!Drop(r, Gap(r, i))
         /\ Gap(r, Gap(r, i)) = Gap(r, i)
<1> DEFINE a == Gap(r, i)
           b == Gap(r, a)
<1>1. /\ a \in i .. Len(r)
      /\ a - i = K!Run(K!Drop(r, i), " ", TRUE)
      /\ a = Len(r) \/ r[a + 1] # " "
  BY Zenon, GapIs
<1>2. /\ a - i \in 0 .. Len(r) - i /\ i + (a - i) = a /\ a \in 0 .. Len(r)
      /\ a \in Nat /\ Len(r) \in Nat /\ a <= Len(r)
  <2> HIDE DEF a
  <2> QED BY Zenon, <1>1, Places
<1>3. K!SkipSpaces(K!Drop(r, i)) = K!Drop(K!Drop(r, i), a - i)
  BY Zenon, <1>1 DEF K!SkipSpaces
<1>4. K!Drop(K!Drop(r, i), a - i) = K!Drop(r, i + (a - i))
  BY <1>2, DropParts
<1>5. /\ b \in a .. Len(r) /\ \A j \in a + 1 .. b : r[j] = " "
  <2> HIDE DEF a
  <2> QED BY Zenon, <1>2, GapIs
<1>6. b = a
  <2> HIDE DEF a, b
  <2>1. CASE b # a
    <3>0. b \in Nat /\ a <= b /\ b <= Len(r)
      BY Zenon, <1>2, <1>5, Places
    <3>1. a + 1 \in a + 1 .. b /\ a # Len(r)
      BY <1>2, <2>1, <3>0
    <3> QED BY Zenon, <1>1, <1>5, <3>1
  <2> QED BY <2>1
<1> QED BY <1>2, <1>3, <1>4, <1>6

\* What get_param copies.
LEMMA ParamIs ==
  ASSUME NEW r \in Seq(STRING), NEW i \in 0 .. Len(r), NEW a, a = Gap(r, i)
  PROVE  /\ K!GetParam(K!Drop(r, i)) = SubSeq(r, a + 1, WordEnd(r, a))
         /\ K!GetParam(K!Drop(r, a)) = SubSeq(r, a + 1, WordEnd(r, a))
         /\ Len(SubSeq(r, a + 1, WordEnd(r, a))) = WordEnd(r, a) - a
<1> DEFINE e == WordEnd(r, a)
<1>1. a \in i .. Len(r) /\ a \in 0 .. Len(r) /\ a \in Nat /\ Len(r) \in Nat
  BY Zenon, GapIs, Places
<1>2. e \in a .. Len(r) /\ e \in 0 .. Len(r) /\ e \in Nat /\ e - a = K!Run(K!Drop(r, a), " ", FALSE)
  BY Zenon, <1>1, WordEndIs
<1>3. K!SkipSpaces(K!Drop(r, i)) = K!Drop(r, a) /\ K!SkipSpaces(K!Drop(r, a)) = K!Drop(r, a)
  <2>1. Gap(r, a) = a
    BY SkipIs
  <2>2. K!SkipSpaces(K!Drop(r, a)) = K!Drop(r, Gap(r, a))
    BY <1>1, SkipIs
  <2> QED BY <2>1, <2>2, SkipIs
<1>4. SubSeq(K!Drop(r, a), 1, e - a) = SubSeq(r, a + 1, e)
  <2> HIDE DEF e
  <2> DEFINE d == e - a
  <2>1. d \in 0 .. Len(r) - a /\ a + d = e
    BY Zenon, <1>1, <1>2, Places
  <2> HIDE DEF d
  <2>2. SubSeq(K!Drop(r, a), 1, d) = SubSeq(r, a + 1, a + d)
    BY Zenon, <1>1, <2>1, DropParts
  <2> QED BY Zenon, <2>1, <2>2 DEF d
<1>5. Len(SubSeq(r, a + 1, e)) = e - a
  <2> HIDE DEF e
  <2>1. a <= e
    BY Zenon, <1>1, <1>2, Places
  <2> QED BY Zenon, <1>1, <1>2, <2>1, PartOf
<1> QED BY Zenon, <1>2, <1>3, <1>4, <1>5 DEF K!GetParam

\* What get_string copies.
LEMMA StringIs ==
  ASSUME NEW r \in Seq(STRING), NEW i \in 0 .. Len(r), NEW a, a = Gap(r, i)
  PROVE  K!GetString(K!Drop(r, i)) = IF a < Len(r) /\ r[a + 1] = K!Quote
                                     THEN SubSeq(r, a + 2, QuoteEnd(r, a + 1))
                                     ELSE SubSeq(r, a + 1, WordEnd(r, a))
<1>1. a \in i .. Len(r) /\ a \in 0 .. Len(r) /\ a \in Nat /\ Len(r) \in Nat
  BY Zenon, GapIs, Places
<1>2. K!SkipSpaces(K!Drop(r, i)) = K!Drop(r, a)
  BY SkipIs
<1>3. K!GetParam(K!Drop(r, a)) = SubSeq(r, a + 1, WordEnd(r, a))
  BY ParamIs
<1>4. CASE a < Len(r)
  <2>1. K!Drop(r, a) # <<>> /\ Head(K!Drop(r, a)) = r[a + 1] /\ Tail(K!Drop(r, a)) = K!Drop(r, a + 1)
    BY <1>1, <1>4, DropParts
  <2>2. CASE r[a + 1] = K!Quote
    <3> DEFINE e == QuoteEnd(r, a + 1)
    <3>1. a + 1 \in 0 .. Len(r)
      BY <1>1, <1>4
    <3>2. e \in a + 1 .. Len(r) /\ e - (a + 1) = K!Run(K!Drop(r, a + 1), K!Quote, FALSE)
      BY Zenon, <3>1, QuoteEndIs
    <3>3. e - (a + 1) \in 0 .. Len(r) - (a + 1) /\ a + 1 + (e - (a + 1)) = e /\ a + 1 + 1 = a + 2
      BY <1>1, <3>1, <3>2
    <3>4. SubSeq(K!Drop(r, a + 1), 1, e - (a + 1)) = SubSeq(r, a + 2, e)
      <4>1. SubSeq(K!Drop(r, a + 1), 1, e - (a + 1)) = SubSeq(r, a + 1 + 1, a + 1 + (e - (a + 1)))
        BY Zenon, <3>1, <3>3, DropParts
      <4> QED BY Zenon, <3>3, <4>1
    <3> QED BY Zenon, <1>2, <1>4, <2>1, <2>2, <3>2, <3>4 DEF K!GetString
  <2>3. CASE r[a + 1] # K!Quote
    BY Zenon, <1>2, <1>3, <2>1, <2>3 DEF K!GetString
  <2> QED BY <2>2, <2>3
<1>5. CASE a = Len(r)
  <2>1. K!Drop(r, a) = <<>>
    BY <1>1, <1>5, DropParts
  <2>2. ~(a < Len(r))
    BY <1>1, <1>5
  <2>3. K!GetString(K!Drop(r, i)) = K!GetParam(K!Drop(r, a))
    BY <1>2, <2>1, Zenon DEF K!GetString
  <2> QED BY Zenon, <1>3, <2>2, <2>3
<1> QED BY <1>1, <1>4, <1>5

\* The count of Shell is that of FiniteSets.
LEMMA SameCount ==
  ASSUME NEW s
  PROVE  K!Cardinality(s) = Cardinality(s)
BY DEF K!Cardinality, Cardinality

\* So is its notion of a finite set.
LEMMA SameFinite ==
  ASSUME NEW s
  PROVE  K!IsFiniteSet(s) <=> IsFiniteSet(s)
BY DEF K!IsFiniteSet, IsFiniteSet

\* The places of a set up to b.
Upto(places, n) == {j \in places : j <= n}

\* The places up to a place, counted.
LEMMA CountUpto ==
  ASSUME NEW W \in SUBSET Nat, NEW b \in Nat, NEW a \in Nat, b <= a,
         IsFiniteSet(Upto(W, b)), \A j \in W : ~(b < j /\ j <= a)
  PROVE  /\ Upto(W, a) = Upto(W, b) /\ Cardinality(Upto(W, b)) \in Nat
         /\ \A i \in W : i <= a => /\ i <= b
                                   /\ Cardinality(Upto(W, i)) <= Cardinality(Upto(W, b))
         /\ a + 1 \in W =>
              /\ Upto(W, a + 1) = Upto(W, b) \cup {a + 1} /\ IsFiniteSet(Upto(W, a + 1))
              /\ Cardinality(Upto(W, a + 1)) = Cardinality(Upto(W, b)) + 1
              /\ \A i \in W : i > a + 1 /\ IsFiniteSet(Upto(W, i)) =>
                   Cardinality(Upto(W, i)) > Cardinality(Upto(W, b)) + 1
<1>0. \A i \in W : i \in Nat
  OBVIOUS
<1>1. Upto(W, a) = Upto(W, b)
  <2>1. \A i \in W : i <= a <=> i <= b
    BY <1>0
  <2> QED BY <2>1, Zenon DEF Upto
<1>2. Cardinality(Upto(W, b)) \in Nat
  BY FS_CardinalityType
<1>3. ASSUME NEW i \in W, i <= a
      PROVE  i <= b /\ Cardinality(Upto(W, i)) <= Cardinality(Upto(W, b))
  <2>1. i <= b
    BY <1>3
  <2>2. Upto(W, i) \subseteq Upto(W, b)
    <3>1. \A j \in W : j <= i => j <= b
      BY <1>0, <2>1
    <3> QED BY <3>1, Zenon DEF Upto
  <2> QED BY <2>1, <2>2, FS_Subset
<1>4. ASSUME a + 1 \in W
      PROVE  /\ Upto(W, a + 1) = Upto(W, b) \cup {a + 1} /\ IsFiniteSet(Upto(W, a + 1))
             /\ Cardinality(Upto(W, a + 1)) = Cardinality(Upto(W, b)) + 1
             /\ \A i \in W : i > a + 1 /\ IsFiniteSet(Upto(W, i)) =>
                  Cardinality(Upto(W, i)) > Cardinality(Upto(W, b)) + 1
  <2>1. Upto(W, a + 1) = Upto(W, b) \cup {a + 1} /\ a + 1 \notin Upto(W, b)
    <3>1. \A i \in W : i <= a + 1 <=> i <= b \/ i = a + 1
      BY <1>0
    <3>2. ~(a + 1 <= b)
      OBVIOUS
    <3> QED BY <1>4, <3>1, <3>2, Zenon DEF Upto
  <2>2. /\ IsFiniteSet(Upto(W, b) \cup {a + 1})
        /\ Cardinality(Upto(W, b) \cup {a + 1}) = Cardinality(Upto(W, b)) + 1
    BY <2>1, FS_AddElement
  <2>3. ASSUME NEW i \in W, i > a + 1, IsFiniteSet(Upto(W, i))
        PROVE  Cardinality(Upto(W, i)) > Cardinality(Upto(W, b)) + 1
    <3>1. Upto(W, b) \cup {a + 1} \subseteq Upto(W, i) \ {i} /\ i \in Upto(W, i)
      <4>1. \A j \in W : j <= b \/ j = a + 1 => j <= i /\ j # i
        BY <1>0, <2>3
      <4>2. i <= i
        BY <1>0
      <4> QED BY <1>4, <4>1, <4>2, Zenon DEF Upto
    <3>2. /\ IsFiniteSet(Upto(W, i) \ {i})
          /\ Cardinality(Upto(W, i) \ {i}) = Cardinality(Upto(W, i)) - 1
      BY <2>3, <3>1, FS_RemoveElement
    <3>3. Cardinality(Upto(W, b) \cup {a + 1}) <= Cardinality(Upto(W, i) \ {i})
      BY <3>1, <3>2, FS_Subset
    <3>4. Cardinality(Upto(W, i)) \in Nat
      BY <2>3, FS_CardinalityType
    <3> QED BY <1>2, <2>2, <3>2, <3>3, <3>4
  <2> QED BY <2>1, <2>2, <2>3
<1> QED BY <1>1, <1>2, <1>3, <1>4

\* The rest of the line, behind the name of the command.
IsRest(r) == r = K!Rest

\* Behind place b of the words of the line there are k of them, unless the line ends there.
Behind(k, b) ==
  /\ b \in 0 .. Len(K!Rest) /\ (b = 0 \/ b = Len(K!Rest) \/ K!Rest[b + 1] = " ")
  /\ Cardinality(Upto(K!WordStarts, b)) <= k
  /\ b < Len(K!Rest) => Cardinality(Upto(K!WordStarts, b)) = k

\* Where the words of a text begin.
LEMMA Starts ==
  ASSUME NEW r \in Seq(STRING), IsRest(r)
  PROVE  /\ K!WordStarts \in SUBSET Nat /\ Len(r) \in Nat
         /\ \A i \in K!WordStarts : i \in Nat /\ 1 <= i /\ i <= Len(r)
         /\ \A i \in K!WordStarts : i \in Nat /\ r[i] # " " /\ (i = 1 \/ r[i - 1] = " ")
         /\ \A i \in 1 .. Len(r) : r[i] # " " /\ (i = 1 \/ r[i - 1] = " ") => i \in K!WordStarts
         /\ \A b \in Nat : IsFiniteSet(Upto(K!WordStarts, b))
         /\ \A b \in Nat : K!Cardinality({j \in K!WordStarts : j <= b}) = Cardinality(Upto(K!WordStarts, b))
<1>1. DOMAIN r = 1 .. Len(r) /\ Len(r) \in Nat
  BY LenProperties
<1>2. K!WordStarts = {i \in DOMAIN r : r[i] # " " /\ (i = 1 \/ r[i - 1] = " ")}
  BY DEF K!WordStarts, IsRest
<1>3. K!WordStarts \subseteq 1 .. Len(r)
  BY Zenon, <1>1, <1>2
<1>4. IsFiniteSet(1 .. Len(r))
  <2>1. 1 \in Int /\ Len(r) \in Int
    BY <1>1
  <2> QED BY <2>1, FS_Interval
<1>5. ASSUME NEW b \in Nat PROVE IsFiniteSet(Upto(K!WordStarts, b))
  <2>1. Upto(K!WordStarts, b) \subseteq 1 .. Len(r)
    BY <1>3, Zenon DEF Upto
  <2> QED BY <1>4, <2>1, FS_Subset
<1>6. ASSUME NEW b \in Nat
      PROVE  K!Cardinality({j \in K!WordStarts : j <= b}) = Cardinality(Upto(K!WordStarts, b))
  BY SameCount DEF Upto
<1>7. \A i \in K!WordStarts : i \in 1 .. Len(r) /\ r[i] # " " /\ (i = 1 \/ r[i - 1] = " ")
  BY Zenon, <1>1, <1>2
<1>8. \A i \in 1 .. Len(r) : r[i] # " " /\ (i = 1 \/ r[i - 1] = " ") => i \in K!WordStarts
  BY Zenon, <1>1, <1>2
<1> DEFINE N == Len(r)
<1>9. N \in Nat /\ \A i \in K!WordStarts : i \in 1 .. N
  BY Zenon, <1>1, <1>7
<1> HIDE DEF N
<1>10. K!WordStarts \in SUBSET Nat /\ \A i \in K!WordStarts : i \in Nat /\ 1 <= i /\ i <= N
  BY <1>9
<1>11. \A i \in K!WordStarts : i \in Nat /\ r[i] # " " /\ (i = 1 \/ r[i - 1] = " ")
  BY Zenon, <1>7, <1>10
<1> QED BY Zenon, <1>1, <1>5, <1>6, <1>8, <1>10, <1>11 DEF N

\* No word has begun at the first place.
LEMMA BehindNone ==
  ASSUME NEW r \in Seq(STRING), IsRest(r)
  PROVE  Behind(0, 0)
<1>1. Len(r) \in Nat /\ \A i \in K!WordStarts : i \in Nat /\ 1 <= i
  BY Zenon, Starts
<1>2. \A i \in K!WordStarts : ~(i <= 0)
  BY <1>1
<1>3. Upto(K!WordStarts, 0) = {}
  BY <1>2, Zenon DEF Upto
<1>4. Cardinality({}) = 0
  BY FS_EmptySet
<1>5. 0 \in 0 .. Len(r) /\ 0 <= 0
  BY <1>1
<1> QED BY Zenon, <1>3, <1>4, <1>5 DEF Behind, IsRest

\* The next word of the line: where it begins and ends, and that it is the next.
LEMMA NextWord ==
  ASSUME NEW r \in Seq(STRING), IsRest(r), NEW k \in Nat, NEW b, Behind(k, b)
  PROVE  LET a == Gap(r, b) IN
         /\ b \in 0 .. Len(r) /\ a \in b .. Len(r) /\ a \in 0 .. Len(r)
         /\ K!Word(k + 1) = SubSeq(r, a + 1, WordEnd(r, a))
         /\ Behind(k + 1, WordEnd(r, a))
         /\ a < Len(r) => /\ a + 1 \in K!WordStarts /\ WordEnd(r, a) > a
                          /\ \A i \in K!WordStarts :
                               K!Cardinality({j \in K!WordStarts : j <= i}) = k + 1 <=> i = a + 1
<1> DEFINE a == Gap(r, b)
           N == Len(r)
           W == K!WordStarts
           e == WordEnd(r, a)
           C(n) == Cardinality(Upto(W, n))
           Beg(n) == {i \in W : K!Cardinality({j \in W : j <= i}) = n}
<1>1. b \in 0 .. N /\ C(b) <= k /\ (b < N => C(b) = k)
  BY Zenon DEF Behind, IsRest
<1>13. b = 0 \/ b = N \/ r[b + 1] = " "
  BY Zenon DEF Behind, IsRest
<1>2. a \in b .. N /\ a \in 0 .. N /\ a \in Nat
  BY Zenon, <1>1, GapIs
<1>14. (\A j \in b + 1 .. a : r[j] = " ") /\ (a = N \/ r[a + 1] # " ")
  BY Zenon, <1>1, GapIs
<1>3. e \in a .. N /\ e \in 0 .. N /\ e \in Nat
  BY Zenon, <1>2, WordEndIs
<1>15. (\A j \in a + 1 .. e : r[j] # " ") /\ (e = N \/ r[e + 1] = " ")
  BY Zenon, <1>2, WordEndIs
<1>4. /\ W \in SUBSET Nat /\ N \in Nat
      /\ \A i \in W : i \in Nat /\ 1 <= i /\ i <= N
      /\ \A n \in Nat : IsFiniteSet(Upto(W, n))
  BY Zenon, Starts
<1>11. \A i \in W : i \in Nat /\ r[i] # " " /\ (i = 1 \/ r[i - 1] = " ")
  BY Zenon, Starts
<1>12. \A i \in 1 .. N : r[i] # " " /\ (i = 1 \/ r[i - 1] = " ") => i \in W
  BY Zenon, Starts
<1>5. \A i \in W : K!Cardinality({j \in W : j <= i}) = C(i)
  BY Zenon, Starts
<1>6. K!Word(k + 1) = IF Beg(k + 1) = {} THEN <<>>
                      ELSE LET i == CHOOSE i \in Beg(k + 1) : TRUE
                               j == CHOOSE j \in i .. N : /\ \A n \in i .. j : r[n] # " "
                                                          /\ j = N \/ r[j + 1] = " "
                           IN SubSeq(r, i, j)
  BY DEF K!Word, IsRest
<1> HIDE DEF N, W, e, a
<1>0. b \in Nat /\ a \in Nat /\ e \in Nat /\ N \in Nat /\ b <= a /\ a <= e /\ e <= N /\ a <= N /\ b <= N
  BY <1>1, <1>2, <1>3, <1>4
<1>7. b \in Nat /\ a \in Nat /\ b <= a /\ IsFiniteSet(Upto(W, b)) /\ \A j \in W : ~(b < j /\ j <= a)
  <2>2. ASSUME NEW j \in W, b < j, j <= a PROVE FALSE
    <3>0. j \in Nat
      BY <1>4
    <3>1. j \in b + 1 .. a
      BY <1>0, <2>2, <3>0
    <3>2. r[j] # " "
      BY Zenon, <1>11
    <3> QED BY Zenon, <1>14, <3>1, <3>2
  <2> QED BY <1>0, <1>4, <2>2
<1>8. /\ Upto(W, a) = Upto(W, b) /\ C(b) \in Nat
      /\ \A i \in W : i <= a => i <= b /\ C(i) <= C(b)
      /\ a + 1 \in W =>
           /\ C(a + 1) = C(b) + 1
           /\ \A i \in W : i > a + 1 /\ IsFiniteSet(Upto(W, i)) => C(i) > C(b) + 1
  BY ZenonT(40), <1>4, <1>7, CountUpto
<1>9. CASE a = N
  <2>1. e = N
    BY <1>0, <1>9
  <2>2. C(N) <= k /\ C(N) \in Nat /\ C(N) <= k + 1
    BY <1>1, <1>8, <1>9
  <2>3. \A i \in W : C(i) <= C(N) /\ C(i) # k + 1
    <3>1. ASSUME NEW i \in W PROVE C(i) <= C(N) /\ C(i) # k + 1
      <4>1. i <= a
        BY <1>0, <1>4, <1>9
      <4>2. C(i) <= C(N)
        BY <1>8, <1>9, <4>1
      <4>3. C(i) \in Nat
        BY <1>4, FS_CardinalityType
      <4> HIDE DEF C
      <4> QED BY <2>2, <4>2, <4>3
    <3> QED BY <3>1
  <2>4. Beg(k + 1) = {}
    <3> HIDE DEF C
    <3> QED BY <1>5, <2>3
  <2>5. K!Word(k + 1) = <<>>
    BY <1>6, <2>4
  <2>6. SubSeq(r, a + 1, e) = <<>>
    <3>1. a \in Nat /\ e \in 0 .. Len(r) /\ a <= e /\ e - a = 0
      <4>1. a <= e /\ e - a = 0
        BY <1>0, <1>9, <2>1
      <4> QED BY <1>2, <1>3, <4>1 DEF N
    <3>2. SubSeq(r, a + 1, e) \in Seq(STRING) /\ Len(SubSeq(r, a + 1, e)) = 0
      BY <3>1, PartOf
    <3> QED BY <3>2, EmptySeq
  <2>7. Behind(k + 1, e)
    <3>1. N \in 0 .. N /\ ~(N < N)
      BY <1>4
    <3> QED BY Zenon, <2>1, <2>2, <3>1 DEF Behind, IsRest, N, W
  <2>8. ~(a < N)
    BY <1>0, <1>9
  <2> QED BY <1>1, <1>2, <2>5, <2>6, <2>7, <2>8, Zenon DEF N, W, e, a
<1>10. CASE a # N
  <2>0. a < N /\ a + 1 \in 1 .. N /\ b < N
    BY <1>0, <1>10
  <2>1. a + 1 \in W
    <3>1. r[a + 1] # " "
      BY Zenon, <1>14, <1>10
    <3>2. a + 1 = 1 \/ r[(a + 1) - 1] = " "
      <4>1. CASE a = b
        <5>1. b = 0
          <6>1. b # N
            BY <1>0, <2>0
          <6> QED BY Zenon, <1>13, <3>1, <4>1, <6>1
        <5> QED BY <4>1, <5>1
      <4>2. CASE a # b
        <5>1. a \in b + 1 .. a /\ (a + 1) - 1 = a
          BY <1>0, <4>2
        <5> QED BY Zenon, <1>14, <5>1
      <4> QED BY Zenon, <4>1, <4>2
    <3> QED BY <1>12, <2>0, <3>1, <3>2, Zenon
  <2>2. C(b) = k /\ C(a + 1) = k + 1
    BY <1>1, <1>8, <2>0, <2>1
  <2>3. ASSUME NEW i \in W PROVE C(i) = k + 1 <=> i = a + 1
    <3>1. CASE i <= a
      <4>1. C(i) <= k /\ C(i) \in Nat
        BY <1>4, <1>8, <2>2, <3>1, FS_CardinalityType
      <4>2. i # a + 1
        BY <3>1, <1>0, <1>4
      <4> HIDE DEF C
      <4> QED BY <4>1, <4>2
    <3>2. CASE i = a + 1
      BY <2>2, <3>2
    <3>3. CASE i > a + 1
      <4>1. C(i) > k + 1 /\ C(i) \in Nat
        BY <1>4, <1>8, <2>1, <2>2, <3>3, FS_CardinalityType
      <4>2. i # a + 1
        BY <3>3, <1>0, <1>4
      <4> HIDE DEF C
      <4> QED BY <4>1, <4>2
    <3>4. i <= a \/ i = a + 1 \/ i > a + 1
      BY <1>0, <1>4
    <3> QED BY <3>1, <3>2, <3>3, <3>4
  <2>4. Beg(k + 1) = {a + 1}
    <3>1. \A i \in W : (K!Cardinality({j \in W : j <= i}) = k + 1) <=> i = a + 1
      <4> HIDE DEF C
      <4> QED BY <1>5, <2>3
    <3> QED BY <2>1, <3>1
  <2>5. e > a /\ e \in a + 1 .. N
    <3>1. e # a
      BY Zenon, <1>14, <1>15, <1>10
    <3> QED BY <1>0, <3>1
  <2> DEFINE WordTo(j) == /\ \A n \in a + 1 .. j : r[n] # " "
                          /\ j = N \/ r[j + 1] = " "
  <2>6. ASSUME NEW j \in a + 1 .. N PROVE WordTo(j) <=> j = e
    <3>1. CASE j < e
      <4>1. j + 1 \in a + 1 .. e /\ j # N /\ j # e
        BY <1>0, <2>5, <3>1
      <4> QED BY Zenon, <1>15, <4>1
    <3>2. CASE j = e
      BY Zenon, <1>15, <3>2
    <3>3. CASE j > e
      <4>1. e + 1 \in a + 1 .. j /\ e # N /\ j # e
        BY <1>0, <2>5, <3>3
      <4> QED BY Zenon, <1>15, <4>1
    <3>4. j < e \/ j = e \/ j > e
      BY <1>0
    <3> HIDE DEF WordTo
    <3> QED BY <3>1, <3>2, <3>3, <3>4
  <2>7. (CHOOSE j \in a + 1 .. N : WordTo(j)) = e
    <3> HIDE DEF WordTo
    <3> QED BY <2>5, <2>6
  <2>8. (CHOOSE i \in Beg(k + 1) : TRUE) = a + 1
    <3> HIDE DEF Beg
    <3> QED BY <2>4
  <2>9. K!Word(k + 1) = SubSeq(r, a + 1, e)
    <3>1. Beg(k + 1) # {}
      BY Zenon, <2>4
    <3>2. K!Word(k + 1) = LET j == CHOOSE j \in a + 1 .. N : WordTo(j) IN SubSeq(r, a + 1, j)
      BY Zenon, <1>6, <2>8, <3>1
    <3> HIDE DEF WordTo
    <3> QED BY Zenon, <2>7, <3>2
  <2>10. C(e) = k + 1
    <3>1. Upto(W, e) = Upto(W, a + 1)
      <4>1. ASSUME NEW i \in W PROVE i <= e <=> i <= a + 1
        <5>1. CASE i \in a + 2 .. e
          <6>1. i - 1 \in a + 1 .. e /\ i # 1
            BY <1>0, <5>1
          <6>2. r[i - 1] = " "
            BY Zenon, <1>11, <6>1
          <6> QED BY Zenon, <1>15, <6>1, <6>2
        <5>2. CASE i \notin a + 2 .. e
          BY <1>0, <1>4, <2>5, <5>2
        <5> QED BY <5>1, <5>2
      <4> QED BY <4>1, Zenon DEF Upto
    <3> QED BY <2>2, <3>1
  <2>11. Behind(k + 1, e)
    <3>1. C(e) <= k + 1
      <4> HIDE DEF C
      <4> QED BY <2>10
    <3> QED BY Zenon, <1>3, <1>15, <2>10, <3>1 DEF Behind, IsRest, N, W
  <2>12. \A i \in W : (K!Cardinality({j \in W : j <= i}) = k + 1) <=> i = a + 1
    <3> HIDE DEF C
    <3> QED BY <1>5, <2>3
  <2> QED BY Zenon, <1>1, <1>2, <2>1, <2>5, <2>9, <2>11, <2>12 DEF N, W, e, a
<1> QED BY <1>9, <1>10

\* A quote that begins a word of the rest of the line is closed.
RestCloses(r) ==
  \A i \in 1 .. Len(r) : r[i] = K!Quote /\ (i = 1 \/ r[i - 1] = " ")
                           => \E j \in i + 1 .. Len(r) : r[j] = K!Quote

\* A phrase is what get_string copies.
LEMMA NextPhrase ==
  ASSUME NEW r \in Seq(STRING), IsRest(r), RestCloses(r), NEW k \in Nat, NEW b, Behind(k, b)
  PROVE  LET a == Gap(r, b) IN
         K!Phrase(k + 1) = IF a < Len(r) /\ r[a + 1] = K!Quote
                           THEN SubSeq(r, a + 2, QuoteEnd(r, a + 1))
                           ELSE SubSeq(r, a + 1, WordEnd(r, a))
<1> DEFINE a == Gap(r, b)
           N == Len(r)
           W == K!WordStarts
           e == WordEnd(r, a)
           q == QuoteEnd(r, a + 1)
           First(i) == K!Cardinality({j \in W : j <= i}) = k + 1
           Closes(i, j) == r[j] = K!Quote /\ \A n \in i + 1 .. j - 1 : r[n] # K!Quote
<1>1. /\ b \in 0 .. N /\ a \in b .. N /\ a \in 0 .. N
      /\ K!Word(k + 1) = SubSeq(r, a + 1, e)
      /\ a < N => a + 1 \in W /\ e > a
  BY Zenon, NextWord
<1>2. a < N => \A i \in W : First(i) <=> i = a + 1
  BY NextWord
<1>10. N \in Nat
  BY Zenon, Starts
<1>3. \A i \in W : i \in Nat /\ r[i] # " " /\ (i = 1 \/ r[i - 1] = " ")
  BY Zenon, Starts
<1>4. K!Phrase(k + 1) = IF K!Word(k + 1) = <<>> \/ Head(K!Word(k + 1)) # K!Quote THEN K!Word(k + 1)
                        ELSE LET i == CHOOSE i \in W : First(i)
                                 j == CHOOSE j \in i + 1 .. N : Closes(i, j)
                             IN SubSeq(r, i + 1, j - 1)
  BY DEF K!Phrase, IsRest
<1>5. e \in a .. N /\ e \in 0 .. N
  BY Zenon, <1>1, WordEndIs
<1>6. a + 1 \in 0 .. N =>
        /\ q \in a + 1 .. N /\ q \in Nat
        /\ \A j \in a + 2 .. q : r[j] # K!Quote
        /\ q = N \/ r[q + 1] = K!Quote
  <2> SUFFICES ASSUME a + 1 \in 0 .. N
               PROVE  /\ q \in a + 1 .. N /\ q \in Nat
                      /\ \A j \in a + 2 .. q : r[j] # K!Quote
                      /\ q = N \/ r[q + 1] = K!Quote
    OBVIOUS
  <2>1. /\ q \in a + 1 .. N /\ q \in Nat
        /\ \A j \in (a + 1) + 1 .. q : r[j] # K!Quote
        /\ q = N \/ r[q + 1] = K!Quote
    BY Zenon, QuoteEndIs
  <2>2. (a + 1) + 1 = a + 2
    <3>1. a \in Nat
      BY <1>1, <1>10
    <3> HIDE DEF a, N
    <3> QED BY <3>1
  <2> QED BY <2>1, <2>2
<1> HIDE DEF a, N, W, e, q
<1>11. b \in 0 .. N /\ a \in b .. N /\ a \in 0 .. N /\ (a < N => e > a)
  BY <1>1
<1>0. a \in Nat /\ N \in Nat /\ e \in Nat /\ a <= N /\ a <= e /\ e <= N
  BY <1>10, <1>11, <1>5
<1>7. CASE a = N
  <2>1. ~(a < N) /\ e = a /\ a <= e /\ ~(a < e)
    BY <1>0, <1>7
  <2>2. SubSeq(r, a + 1, e) \in Seq(STRING) /\ Len(SubSeq(r, a + 1, e)) = 0
    <3>1. e - a = 0
      BY <1>0, <2>1
    <3> QED BY <1>0, <1>5, <2>1, <3>1, PartOf DEF N
  <2>3. K!Word(k + 1) = <<>>
    BY <1>1, <2>2, EmptySeq
  <2> QED BY <1>1, <1>4, <2>1, <2>3 DEF N, a, e, q
<1>8. CASE a < N
  <2>1. SubSeq(r, a + 1, e) \in Seq(STRING) /\ SubSeq(r, a + 1, e) # <<>> /\ Head(SubSeq(r, a + 1, e)) = r[a + 1]
    <3>1. e - a \in Nat /\ e - a # 0 /\ 1 \in 1 .. e - a /\ a <= e
      BY <1>0, <1>11, <1>8
    <3>2. /\ SubSeq(r, a + 1, e) \in Seq(STRING) /\ Len(SubSeq(r, a + 1, e)) = e - a
          /\ SubSeq(r, a + 1, e)[1] = r[a + 1]
      BY <1>0, <1>5, <3>1, PartOf DEF N
    <3>3. SubSeq(r, a + 1, e) # <<>>
      BY Zenon, <3>1, <3>2, EmptySeq
    <3>4. Head(SubSeq(r, a + 1, e)) = SubSeq(r, a + 1, e)[1]
      BY <3>2, <3>3
    <3> QED BY <3>2, <3>3, <3>4
  <2>2. CASE r[a + 1] # K!Quote
    BY Zenon, <1>1, <1>4, <1>8, <2>1, <2>2 DEF N, a, e, q
  <2>3. CASE r[a + 1] = K!Quote
    <3>0. a + 1 \in 1 .. N /\ a + 1 \in 0 .. N /\ (a + 1) + 1 = a + 2
      BY <1>0, <1>8
    <3>1. a + 1 \in W /\ \A i \in W : First(i) <=> i = a + 1
      BY <1>1, <1>2, <1>8
    <3>2. (CHOOSE i \in W : First(i)) = a + 1
      <4> HIDE DEF First
      <4> QED BY <3>1
    <3>3. \E j \in a + 2 .. N : r[j] = K!Quote
      <4>1. a + 1 = 1 \/ r[(a + 1) - 1] = " "
        BY Zenon, <1>3, <3>1
      <4>2. \E j \in (a + 1) + 1 .. N : r[j] = K!Quote
        BY Zenon, <2>3, <3>0, <4>1 DEF RestCloses, N
      <4> QED BY <3>0, <4>2
    <3>4. /\ q \in a + 1 .. N /\ q \in Nat
          /\ \A j \in a + 2 .. q : r[j] # K!Quote
      BY <1>6, <3>0
    <3>5. q = N \/ r[q + 1] = K!Quote
      BY <1>6, <3>0
    <3>6. q # N
      BY <3>3, <3>4
    <3>7. q < N /\ a + 1 <= q /\ q + 1 \in a + 2 .. N
      BY <1>0, <3>4, <3>6
    <3>8. ASSUME NEW j \in a + 2 .. N PROVE Closes(a + 1, j) <=> j = q + 1
      <4>0. (a + 1) + 1 = a + 2 /\ (q + 1) - 1 = q /\ j - 1 \in Nat
        BY <1>0, <3>7, <3>4
      <4>1. CASE j < q + 1
        <5>1. j \in a + 2 .. q /\ j # q + 1
          BY <1>0, <3>4, <3>7, <4>1
        <5> QED BY <3>4, <5>1
      <4>2. CASE j = q + 1
        <5>1. r[j] = K!Quote
          BY <3>5, <3>6, <4>2
        <5>2. \A n \in (a + 1) + 1 .. j - 1 : r[n] # K!Quote
          BY <3>4, <4>0, <4>2
        <5> QED BY <4>2, <5>1, <5>2
      <4>3. CASE j > q + 1
        <5>1. q + 1 \in (a + 1) + 1 .. j - 1 /\ j # q + 1
          BY <1>0, <3>4, <3>7, <4>3
        <5> QED BY <3>5, <3>6, <5>1
      <4>4. j < q + 1 \/ j = q + 1 \/ j > q + 1
        BY <1>0, <3>4
      <4> HIDE DEF Closes
      <4> QED BY <4>1, <4>2, <4>3, <4>4
    <3>9. (CHOOSE j \in a + 2 .. N : Closes(a + 1, j)) = q + 1
      <4> HIDE DEF Closes
      <4> QED BY <3>7, <3>8
    <3>10. K!Phrase(k + 1) = SubSeq(r, a + 2, q)
      <4>1. K!Phrase(k + 1) = LET i == CHOOSE i \in W : First(i)
                                  j == CHOOSE j \in i + 1 .. N : Closes(i, j)
                              IN SubSeq(r, i + 1, j - 1)
        BY Zenon, <1>1, <1>4, <2>1, <2>3
      <4>2. K!Phrase(k + 1) = SubSeq(r, (a + 1) + 1, (q + 1) - 1)
        <5> HIDE DEF First, Closes
        <5> QED BY Zenon, <3>0, <3>2, <3>9, <4>1
      <4>3. (q + 1) - 1 = q
        BY <3>4
      <4> QED BY <3>0, <4>2, <4>3
    <3> QED BY <1>8, <2>3, <3>10 DEF N, a, e, q
  <2> QED BY <2>2, <2>3
<1>9. a = N \/ a < N
  BY <1>0
<1> QED BY <1>7, <1>8, <1>9

\* The next word is what get_param copies, and what it leaves is behind that word.
LEMMA NextParam ==
  ASSUME NEW r \in Seq(STRING), IsRest(r), NEW k \in Nat, NEW b, Behind(k, b)
  PROVE  /\ K!GetParam(K!Drop(r, b)) = K!Word(k + 1)
         /\ K!GetParam(K!SkipSpaces(K!Drop(r, b))) = K!Word(k + 1)
         /\ K!Word(k + 1) \in Seq(STRING)
         /\ \E e : /\ Behind(k + 1, e)
                   /\ K!Drop(K!SkipSpaces(K!Drop(r, b)), Len(K!Word(k + 1))) = K!Drop(r, e)
<1> DEFINE a == Gap(r, b)
           N == Len(r)
           e == WordEnd(r, a)
<1>1. /\ b \in 0 .. N /\ a \in b .. N /\ a \in 0 .. N
      /\ K!Word(k + 1) = SubSeq(r, a + 1, e) /\ Behind(k + 1, e)
  BY NextWord
<1>2. e \in a .. N /\ e \in 0 .. N
  BY Zenon, <1>1, WordEndIs
<1>3. N \in Nat
  BY LenProperties
<1>4. K!SkipSpaces(K!Drop(r, b)) = K!Drop(r, a)
  BY <1>1, SkipIs
<1>5. /\ K!GetParam(K!Drop(r, b)) = SubSeq(r, a + 1, e)
      /\ K!GetParam(K!Drop(r, a)) = SubSeq(r, a + 1, e)
      /\ Len(SubSeq(r, a + 1, e)) = e - a
  BY Zenon, <1>1, ParamIs
<1>6. a \in Nat /\ e - a \in 0 .. N - a /\ a + (e - a) = e
  <2>1. a \in 0 .. N /\ e \in a .. N
    BY <1>1, <1>2
  <2> HIDE DEF a, N, e
  <2> QED BY <1>3, <2>1
<1>7. SubSeq(r, a + 1, e) \in Seq(STRING)
  <2> HIDE DEF e, a
  <2> QED BY <1>2, <1>6, PartOf
<1>8. K!Drop(K!Drop(r, a), e - a) = K!Drop(r, e)
  <2> DEFINE d == e - a
  <2>1. d \in 0 .. Len(r) - a /\ a + d = e
    BY <1>6
  <2> HIDE DEF a, e, d
  <2>2. K!Drop(K!Drop(r, a), d) = K!Drop(r, a + d)
    BY <1>1, <2>1, DropParts
  <2> QED BY <2>1, <2>2 DEF d
<1> HIDE DEF a, e, N
<1> QED BY Zenon, <1>1, <1>4, <1>5, <1>7, <1>8

\* The next phrase is what get_string copies.
LEMMA NextText ==
  ASSUME NEW r \in Seq(STRING), IsRest(r), RestCloses(r), NEW k \in Nat, NEW b, Behind(k, b)
  PROVE  /\ K!GetString(K!Drop(r, b)) = K!Phrase(k + 1)
         /\ K!GetString(K!SkipSpaces(K!Drop(r, b))) = K!Phrase(k + 1)
         /\ K!Phrase(k + 1) \in Seq(STRING)
<1> DEFINE a == Gap(r, b)
           N == Len(r)
           e == WordEnd(r, a)
           q == QuoteEnd(r, a + 1)
<1>1. b \in 0 .. N /\ a \in b .. N /\ a \in 0 .. N
  BY NextWord
<1>2. K!Phrase(k + 1) = IF a < N /\ r[a + 1] = K!Quote THEN SubSeq(r, a + 2, q) ELSE SubSeq(r, a + 1, e)
  BY NextPhrase
<1>3. K!GetString(K!Drop(r, b)) = K!Phrase(k + 1)
  BY Zenon, <1>1, <1>2, StringIs
<1>4. a = Gap(r, a) /\ K!SkipSpaces(K!Drop(r, b)) = K!Drop(r, a)
  BY <1>1, SkipIs
<1>5. K!GetString(K!Drop(r, a)) = K!Phrase(k + 1)
  <2> HIDE DEF a
  <2> QED BY Zenon, <1>1, <1>2, <1>4, StringIs
<1>6. N \in Nat
  BY LenProperties
<1>7. e \in 0 .. N
  BY Zenon, <1>1, WordEndIs
<1>8. a + 1 \in 0 .. N => q \in 0 .. N
  BY Zenon, QuoteEndIs
<1>9. a \in Nat /\ (a < N => a + 1 \in 0 .. N) /\ a + 1 \in Nat /\ (a + 1) + 1 = a + 2
  <2> HIDE DEF a, N
  <2> QED BY <1>1, <1>6
<1>10. SubSeq(r, a + 1, e) \in Seq(STRING)
  <2> HIDE DEF e, a
  <2> QED BY <1>7, <1>9, PartOf
<1>11. ASSUME a < N PROVE SubSeq(r, a + 2, q) \in Seq(STRING)
  <2>1. q \in 0 .. N
    BY <1>8, <1>9, <1>11
  <2>2. SubSeq(r, (a + 1) + 1, q) \in Seq(STRING)
    <3> HIDE DEF q, a
    <3> QED BY <1>9, <2>1, PartOf
  <2> QED BY <1>9, <2>2
<1> HIDE DEF a, e, q, N
<1> QED BY Zenon, <1>2, <1>3, <1>4, <1>5, <1>10, <1>11

\* What the commands take from the line are its first words, and what they take for a
\* text is a phrase.
LEMMA WordsOfLine ==
  ASSUME NEW r \in Seq(STRING), IsRest(r), RestCloses(r)
  PROVE  LET s1 == K!SkipSpaces(r)
             name == K!GetParam(s1)
             s2 == K!SkipSpaces(K!Drop(s1, Len(name)))
             place == K!GetParam(s2)
             s3 == K!SkipSpaces(K!Drop(s2, Len(place)))
         IN  /\ K!GetParam(r) = K!Word(1) /\ K!GetString(r) = K!Phrase(1)
             /\ name = K!Word(1) /\ place = K!Word(2) /\ K!GetString(s3) = K!Phrase(3)
             /\ K!Word(1) \in Seq(STRING) /\ K!Word(2) \in Seq(STRING)
             /\ K!Phrase(1) \in Seq(STRING) /\ K!Phrase(3) \in Seq(STRING)
<1>0. 0 + 1 = 1 /\ 1 + 1 = 2 /\ 2 + 1 = 3 /\ 0 \in 0 .. Len(r)
  BY LenProperties
<1>1. Behind(0, 0) /\ K!Drop(r, 0) = r
  BY <1>0, BehindNone, DropParts
<1>2. /\ K!GetParam(r) = K!Word(1) /\ K!GetParam(K!SkipSpaces(r)) = K!Word(1)
      /\ K!Word(1) \in Seq(STRING)
      /\ \E e : Behind(1, e) /\ K!Drop(K!SkipSpaces(r), Len(K!Word(1))) = K!Drop(r, e)
  <2>1. 0 \in Nat
    OBVIOUS
  <2> QED BY <1>0, <1>1, <2>1, NextParam
<1>3. K!GetString(r) = K!Phrase(1) /\ K!Phrase(1) \in Seq(STRING)
  <2>1. 0 \in Nat
    OBVIOUS
  <2> QED BY <1>0, <1>1, <2>1, NextText
<1>4. PICK e1 : Behind(1, e1) /\ K!Drop(K!SkipSpaces(r), Len(K!Word(1))) = K!Drop(r, e1)
  BY <1>2
<1>5. /\ K!GetParam(K!SkipSpaces(K!Drop(r, e1))) = K!Word(2)
      /\ K!Word(2) \in Seq(STRING)
      /\ \E e : Behind(2, e) /\ K!Drop(K!SkipSpaces(K!Drop(r, e1)), Len(K!Word(2))) = K!Drop(r, e)
  <2>1. 1 \in Nat
    OBVIOUS
  <2> QED BY <1>0, <1>4, <2>1, NextParam
<1>6. PICK e2 : Behind(2, e2) /\ K!Drop(K!SkipSpaces(K!Drop(r, e1)), Len(K!Word(2))) = K!Drop(r, e2)
  BY <1>5
<1>7. K!GetString(K!SkipSpaces(K!Drop(r, e2))) = K!Phrase(3) /\ K!Phrase(3) \in Seq(STRING)
  <2>1. 2 \in Nat
    OBVIOUS
  <2> QED BY <1>0, <1>6, <2>1, NextText
<1> QED BY <1>2, <1>3, <1>4, <1>5, <1>6, <1>7

\* Its greatest element is that of printf, whose lemmas are in UserLibrary_proofs.
LEMMA SameGreatest ==
  ASSUME NEW s
  PROVE  K!Max(s) = P!Max(s)
BY DEF K!Max, P!Max

-----------------------------------------------------------------------------
(* The screen of the shell                                                 *)

\* What is written to the terminal: what was typed, what takes it back, and what
\* shows nothing.
Signs == STRING \cup {"BS", " ", "x", K!Unseen}

\* A terminal that gets one character, and what it shows of some.
Blank == [text |-> <<>>, cursor |-> 0]

\* The screen s after the character ch.
Typed(s, ch) ==
  IF ch = K!Unseen THEN s
  ELSE IF ch = "BS" THEN [s EXCEPT !.cursor = @ - 1]
  ELSE [text |-> SubSeq(s.text, 1, s.cursor) \o <<ch>> \o
                 SubSeq(s.text, s.cursor + 2, Len(s.text)),
        cursor |-> s.cursor + 1]

\* The screens as more and more of sh is written, and the one after all of it.
Screens(sh) ==
  CHOOSE f : f = [t \in SUBSET (DOMAIN sh) |->
                    IF t = {} THEN Blank ELSE Typed(f[t \ {K!Max(t)}], sh[K!Max(t)])]
Screen(sh) == Screens(sh)[DOMAIN sh]

\* The screen of the shell is the one after all that was written.
LEMMA ScreenIs == K!OnScreen = Screen(shown)
BY DEF K!OnScreen, K!FoldLeft, K!MapThenFoldSet, Screen, Screens, Typed, Blank

\* There are such screens.
LEMMA ScreensAre ==
  ASSUME NEW sh \in Seq(Signs)
  PROVE  \A t \in SUBSET (DOMAIN sh) :
           Screens(sh)[t] = IF t = {} THEN Blank
                            ELSE Typed(Screens(sh)[t \ {K!Max(t)}], sh[K!Max(t)])
<1> DEFINE N == Len(sh)
           J == SUBSET (1 .. N)
           Value(f, t) == IF t = {} THEN Blank ELSE Typed(f[t \ {K!Max(t)}], sh[K!Max(t)])
           Meets(f, n) == \A t \in J : t \subseteq 1 .. n => f[t] = Value(f, t)
           T == {n \in Nat : n <= N => \E f : f = [t \in J |-> f[t]] /\ Meets(f, n)}
<1>1. N \in Nat /\ DOMAIN sh = 1 .. N
  BY LenProperties
<1> HIDE DEF N
<1>2. ASSUME NEW t \in J, t # {} PROVE K!Max(t) \in t /\ \A x \in t : x <= K!Max(t)
  BY Zenon, <1>1, <1>2, Greatest, SameGreatest
<1>3. 0 \in T
  <2> DEFINE f == [t \in J |-> Blank]
  <2>1. ASSUME NEW t \in J, t \subseteq 1 .. 0 PROVE f[t] = Value(f, t)
    <3>1. t = {}
      BY <2>1
    <3> QED BY <3>1
  <2>2. f = [t \in J |-> f[t]]
    OBVIOUS
  <2> HIDE DEF f, Value
  <2>3. \E g : g = [t \in J |-> g[t]] /\ Meets(g, 0)
    <3> WITNESS f
    <3> QED BY Zenon, <2>1, <2>2
  <2> HIDE DEF Meets, J
  <2> QED BY <2>3
<1>4. ASSUME NEW n \in Nat, n \in T PROVE n + 1 \in T
  <2> HIDE DEF Meets, J
  <2> SUFFICES ASSUME n + 1 <= N PROVE \E f : f = [t \in J |-> f[t]] /\ Meets(f, n + 1)
    OBVIOUS
  <2> USE DEF Meets, J
  <2>1. PICK f : f = [t \in J |-> f[t]] /\ Meets(f, n)
    <3>1. n <= N
      BY <1>1
    <3> HIDE DEF Meets, J
    <3> QED BY <1>4, <3>1
  <2> DEFINE g == [t \in J |-> IF t \subseteq 1 .. n THEN f[t] ELSE Value(f, t)]
  <2>2. ASSUME NEW t \in J, t \subseteq 1 .. n + 1 PROVE g[t] = Value(g, t)
    <3> DEFINE m == K!Max(t)
    <3>1. CASE t = {}
      <4>1. t \subseteq 1 .. n
        BY <3>1
      <4>2. g[t] = f[t] /\ f[t] = Value(f, t)
        <5> HIDE DEF Value
        <5> QED BY Zenon, <2>1, <4>1
      <4> QED BY <3>1, <4>2
    <3>2. CASE t # {}
      <4>1. m \in t /\ \A x \in t : x <= m
        BY <1>2, <3>2
      <4> HIDE DEF m
      <4>2. t \ {m} \in J /\ t \ {m} \subseteq 1 .. n
        <5>1. \A x \in t : x \in Nat /\ m \in Nat /\ m <= n + 1
          BY <2>2, <4>1
        <5>2. ASSUME NEW x \in t \ {m} PROVE x \in 1 .. n
          <6>1. x \in 1 .. n + 1 /\ x <= m /\ x # m /\ m \in Nat /\ m <= n + 1
            BY <2>2, <4>1, <5>1
          <6> QED BY <6>1
        <5> QED BY Zenon, <5>2
      <4>3. g[t \ {m}] = f[t \ {m}]
        <5> HIDE DEF Value
        <5> QED BY <4>2
      <4>4. Value(g, t) = Value(f, t)
        BY <3>2, <4>3 DEF m
      <4>5. g[t] = Value(f, t)
        <5>1. CASE t \subseteq 1 .. n
          <6> HIDE DEF Value
          <6> QED BY Zenon, <2>1, <5>1
        <5>2. CASE ~(t \subseteq 1 .. n)
          <6> HIDE DEF Value
          <6> QED BY <5>2
        <5> QED BY <5>1, <5>2
      <4> QED BY Zenon, <4>4, <4>5
    <3> QED BY Zenon, <3>1, <3>2
  <2>3. g = [t \in J |-> g[t]]
    <3> HIDE DEF Value
    <3> QED OBVIOUS
  <2> HIDE DEF g, Value, J
  <2> WITNESS g
  <2> QED BY <2>2, <2>3
<1>5. \E f : f = [t \in J |-> f[t]] /\ Meets(f, N)
  <2>1. N \in T
    <3> HIDE DEF T
    <3> QED BY <1>1, <1>3, <1>4, AllNumbers
  <2>2. N <= N
    BY <1>1
  <2> HIDE DEF Meets, J
  <2> QED BY <2>1, <2>2
<1>6. PICK f : f = [t \in J |-> f[t]] /\ Meets(f, N)
  <2> HIDE DEF Meets, J
  <2> QED BY <1>5
<1>7. f = [t \in J |-> Value(f, t)]
  <2>1. \A t \in J : f[t] = Value(f, t)
    <3> HIDE DEF Value
    <3> QED BY Zenon, <1>6
  <2> HIDE DEF Value, J
  <2> QED BY <1>6, <2>1
<1>8. Screens(sh) = CHOOSE g : g = [t \in J |-> Value(g, t)]
  BY <1>1 DEF Screens
<1>9. Screens(sh) = [t \in J |-> Value(Screens(sh), t)]
  <2> HIDE DEF Value, J
  <2> QED BY <1>7, <1>8
<1>10. ASSUME NEW t \in J PROVE Screens(sh)[t] = Value(Screens(sh), t)
  <2> HIDE DEF Value, J
  <2> QED BY <1>9
<1> QED BY Zenon, <1>1, <1>10

\* A part of a text of any characters.
LEMMA PieceIs ==
  ASSUME NEW X, NEW r \in Seq(X), NEW m \in Nat, NEW n \in 0 .. Len(r)
  PROVE  /\ SubSeq(r, m + 1, n) \in Seq(X)
         /\ Len(SubSeq(r, m + 1, n)) = IF m <= n THEN n - m ELSE 0
         /\ \A i \in 1 .. n - m : SubSeq(r, m + 1, n)[i] = r[m + i]
<1>1. Len(r) \in Nat /\ n \in Nat /\ m + 1 \in Int /\ n \in Int /\ m \in Nat
  BY LenProperties
<1>2. \A i \in m + 1 .. n : r[i] \in X
  <2> TAKE i \in m + 1 .. n
  <2>1. i \in 1 .. Len(r)
    BY <1>1
  <2> QED BY <2>1, ElementOfSeq
<1>3. /\ SubSeq(r, m + 1, n) \in Seq(X)
      /\ Len(SubSeq(r, m + 1, n)) = IF m + 1 <= n THEN n - (m + 1) + 1 ELSE 0
      /\ \A i \in 1 .. n - (m + 1) + 1 : SubSeq(r, m + 1, n)[i] = r[m + 1 + i - 1]
  BY <1>1, <1>2, SubSeqProperties
<1>4. (IF m + 1 <= n THEN n - (m + 1) + 1 ELSE 0) = IF m <= n THEN n - m ELSE 0
  BY <1>1
<1>5. ASSUME NEW i \in 1 .. n - m PROVE SubSeq(r, m + 1, n)[i] = r[m + i]
  <2>1. i \in 1 .. n - (m + 1) + 1 /\ m + 1 + i - 1 = m + i
    BY <1>1
  <2> QED BY <1>3, <2>1
<1> QED BY <1>3, <1>4, <1>5

\* A text with one character more.
LEMMA AppendIs ==
  ASSUME NEW X, NEW s \in Seq(X), NEW ch \in X
  PROVE  /\ Len(s) \in Nat /\ Append(s, ch) \in Seq(X) /\ Len(Append(s, ch)) = Len(s) + 1
         /\ Append(s, ch)[Len(s) + 1] = ch /\ Append(s, ch) # <<>>
         /\ \A i \in 1 .. Len(s) : Append(s, ch)[i] = s[i]
BY AppendProperties, LenProperties

\* One character more.
LEMMA ScreenGrows ==
  /\ Screen(<<>>) = Blank
  /\ \A sh \in Seq(Signs) : \A ch \in Signs : Screen(Append(sh, ch)) = Typed(Screen(sh), ch)
<1>1. Screen(<<>>) = Blank
  <2>1. <<>> \in Seq(Signs) /\ DOMAIN <<>> = {} /\ {} \in SUBSET (DOMAIN <<>>)
    <3>1. <<>> \in Seq(Signs) /\ Len(<<>>) = 0 /\ DOMAIN <<>> = 1 .. Len(<<>>)
      OBVIOUS
    <3> QED BY <3>1
  <2>2. Screens(<<>>)[{}] = Blank
    BY Zenon, <2>1, ScreensAre
  <2> QED BY <2>1, <2>2 DEF Screen
<1>2. ASSUME NEW sh \in Seq(Signs), NEW ch \in Signs
      PROVE  Screen(Append(sh, ch)) = Typed(Screen(sh), ch)
  <2> DEFINE t == Append(sh, ch)
             N == Len(sh)
  <2>1. /\ N \in Nat /\ t \in Seq(Signs) /\ Len(t) = N + 1 /\ t[N + 1] = ch
        /\ \A i \in 1 .. N : t[i] = sh[i]
    <3>1. /\ Len(sh) \in Nat /\ Append(sh, ch) \in Seq(Signs) /\ Len(Append(sh, ch)) = Len(sh) + 1
          /\ Append(sh, ch)[Len(sh) + 1] = ch
      BY AppendIs
    <3>2. \A i \in 1 .. Len(sh) : Append(sh, ch)[i] = sh[i]
      BY AppendIs
    <3> QED BY <3>1, <3>2
  <2>2. DOMAIN sh = 1 .. N /\ DOMAIN t = 1 .. N + 1
    BY <2>1, LenProperties
  <2> HIDE DEF t, N
  <2> DEFINE a(i) == Screens(sh)[1 .. i]
             b(i) == Screens(t)[1 .. i]
             T == {i \in Nat : i <= N => b(i) = a(i)}
  <2>3. /\ a(0) = Blank /\ b(0) = Blank
        /\ \A i \in 1 .. N : a(i) = Typed(a(i - 1), sh[i])
        /\ \A i \in 1 .. N + 1 : b(i) = Typed(b(i - 1), t[i])
    <3>1. 1 .. 0 = {}
      OBVIOUS
    <3>2. a(0) = Blank /\ b(0) = Blank
      BY Zenon, <2>1, <2>2, <3>1, ScreensAre
    <3>3. ASSUME NEW i \in 1 .. N PROVE a(i) = Typed(a(i - 1), sh[i])
      <4>1. 1 .. i \in SUBSET (1 .. N) /\ 1 .. i # {} /\ K!Max(1 .. i) = i /\ (1 .. i) \ {i} = 1 .. i - 1
        BY <2>1, Prefixes, SameGreatest
      <4>2. Screens(sh)[1 .. i] = Typed(Screens(sh)[(1 .. i) \ {K!Max(1 .. i)}], sh[K!Max(1 .. i)])
        BY Zenon, <2>2, <4>1, ScreensAre
      <4> QED BY Zenon, <4>1, <4>2
    <3>4. ASSUME NEW i \in 1 .. N + 1 PROVE b(i) = Typed(b(i - 1), t[i])
      <4>0. N + 1 \in Nat
        BY <2>1
      <4>1. 1 .. i \in SUBSET (1 .. N + 1) /\ 1 .. i # {} /\ K!Max(1 .. i) = i /\ (1 .. i) \ {i} = 1 .. i - 1
        BY <4>0, Prefixes, SameGreatest
      <4>2. Screens(t)[1 .. i] = Typed(Screens(t)[(1 .. i) \ {K!Max(1 .. i)}], t[K!Max(1 .. i)])
        BY Zenon, <2>1, <2>2, <4>1, ScreensAre
      <4> QED BY Zenon, <4>1, <4>2
    <3> QED BY <3>2, <3>3, <3>4
  <2>4. Screen(sh) = a(N) /\ Screen(t) = b(N + 1)
    BY <2>2 DEF Screen
  <2> HIDE DEF a, b
  <2>5. 0 \in T
    BY <2>3
  <2>6. ASSUME NEW i \in Nat, i \in T PROVE i + 1 \in T
    <3> SUFFICES ASSUME i + 1 <= N PROVE b(i + 1) = a(i + 1)
      OBVIOUS
    <3>1. i + 1 \in 1 .. N /\ i + 1 \in 1 .. N + 1 /\ (i + 1) - 1 = i /\ b(i) = a(i)
      BY SMTT(20), <2>1, <2>6
    <3>2. a(i + 1) = Typed(a((i + 1) - 1), sh[i + 1]) /\ b(i + 1) = Typed(b((i + 1) - 1), t[i + 1])
      BY <2>3, <3>1
    <3> QED BY <2>1, <3>1, <3>2
  <2>7. b(N) = a(N)
    <3>1. N \in T
      <4> HIDE DEF T
      <4> QED BY Zenon, <2>1, <2>5, <2>6, AllNumbers
    <3> QED BY <2>1, <3>1
  <2>8. b(N + 1) = Typed(b(N), ch)
    <3>1. N + 1 \in 1 .. N + 1 /\ (N + 1) - 1 = N
      BY <2>1
    <3>2. b(N + 1) = Typed(b((N + 1) - 1), t[N + 1])
      BY <2>3, <3>1
    <3> QED BY <2>1, <3>1, <3>2
  <2> QED BY <2>4, <2>7, <2>8 DEF t
<1> QED BY <1>1, <1>2

\* A character that is no backspace takes the place at the cursor.
LEMMA Overwrites ==
  ASSUME NEW s \in [text : Seq(Signs), cursor : Int], s.cursor \in 0 .. Len(s.text),
         NEW ch \in Signs, ch # "BS", ch # K!Unseen
  PROVE  /\ Typed(s, ch) \in [text : Seq(Signs), cursor : Int]
         /\ Typed(s, ch).cursor = s.cursor + 1
         /\ Len(Typed(s, ch).text) = IF s.cursor < Len(s.text) THEN Len(s.text) ELSE Len(s.text) + 1
         /\ \A i \in 1 .. Len(Typed(s, ch).text) :
              Typed(s, ch).text[i] = IF i = s.cursor + 1 THEN ch ELSE s.text[i]
<1> DEFINE tx == s.text
           p == s.cursor
           N == Len(tx)
           u == SubSeq(tx, 1, p)
           v == SubSeq(tx, p + 2, N)
           x == u \o <<ch>>
           y == x \o v
           M == IF p < N THEN N ELSE N + 1
<1>1. tx \in Seq(Signs) /\ p \in 0 .. N /\ N \in Nat
  BY LenProperties
<1>2. Typed(s, ch) = [text |-> y, cursor |-> p + 1]
  BY DEF Typed
<1> HIDE DEF tx, p
<1>3. p \in Nat /\ N \in 0 .. N /\ p <= N /\ p + 1 \in Nat
  <2> HIDE DEF N
  <2> QED BY <1>1
<1>4. /\ u \in Seq(Signs) /\ Len(u) = p /\ \A i \in 1 .. p : u[i] = tx[i]
  <2>1. 0 \in Nat /\ 0 <= p /\ p - 0 = p /\ 0 + 1 = 1 /\ \A i \in 1 .. p : 0 + i = i
    BY <1>3
  <2>2. /\ SubSeq(tx, 0 + 1, p) \in Seq(Signs) /\ Len(SubSeq(tx, 0 + 1, p)) = p - 0
        /\ \A i \in 1 .. p - 0 : SubSeq(tx, 0 + 1, p)[i] = tx[0 + i]
    BY <1>1, <1>3, <2>1, PieceIs
  <2> QED BY <2>1, <2>2
<1>5. /\ v \in Seq(Signs) /\ Len(v) = (IF p + 1 <= N THEN N - (p + 1) ELSE 0)
      /\ \A i \in 1 .. N - (p + 1) : v[i] = tx[(p + 1) + i]
  <2>1. (p + 1) + 1 = p + 2
    BY <1>3
  <2>2. /\ SubSeq(tx, (p + 1) + 1, N) \in Seq(Signs)
        /\ Len(SubSeq(tx, (p + 1) + 1, N)) = (IF p + 1 <= N THEN N - (p + 1) ELSE 0)
        /\ \A i \in 1 .. N - (p + 1) : SubSeq(tx, (p + 1) + 1, N)[i] = tx[(p + 1) + i]
    BY <1>1, <1>3, PieceIs
  <2> QED BY Zenon, <2>1, <2>2
<1> HIDE DEF u, v
<1>6. /\ x \in Seq(Signs) /\ Len(x) = p + 1 /\ x[p + 1] = ch
      /\ \A i \in 1 .. p : x[i] = tx[i]
  <2>1. x = Append(u, ch)
    BY <1>4, AppendIsConcat
  <2>2. /\ Append(u, ch) \in Seq(Signs) /\ Len(Append(u, ch)) = Len(u) + 1
        /\ \A i \in 1 .. Len(u) : Append(u, ch)[i] = u[i]
        /\ Append(u, ch)[Len(u) + 1] = ch
    BY <1>4, AppendIs
  <2> HIDE DEF x
  <2> QED BY <1>4, <2>1, <2>2
<1> HIDE DEF x
<1>7. /\ y \in Seq(Signs) /\ Len(y) = Len(x) + Len(v)
      /\ \A i \in 1 .. Len(x) + Len(v) : y[i] = IF i <= Len(x) THEN x[i] ELSE v[i - Len(x)]
  <2>1. y \in Seq(Signs) /\ Len(y) = Len(x) + Len(v)
    BY Zenon, <1>5, <1>6, ConcatProperties
  <2>2. \A i \in 1 .. Len(x) + Len(v) : y[i] = IF i <= Len(x) THEN x[i] ELSE v[i - Len(x)]
    BY <1>5, <1>6, ConcatProperties
  <2> QED BY <2>1, <2>2
<1> HIDE DEF y, N
<1>8. Len(y) = M /\ Len(x) + Len(v) = M
  BY <1>1, <1>3, <1>5, <1>6, <1>7
<1>9. ASSUME NEW i \in 1 .. M PROVE y[i] = IF i = p + 1 THEN ch ELSE tx[i]
  <2>1. y[i] = IF i <= p + 1 THEN x[i] ELSE v[i - (p + 1)]
    BY <1>6, <1>7, <1>8
  <2>2. CASE i = p + 1
    BY <1>3, <1>6, <2>1, <2>2
  <2>3. CASE i < p + 1
    <3>1. i \in 1 .. p /\ i <= p + 1 /\ i # p + 1
      BY <1>3, <2>3
    <3> QED BY <1>6, <2>1, <3>1
  <2>4. CASE i > p + 1
    <3>1. /\ i - (p + 1) \in 1 .. N - (p + 1) /\ ~(i <= p + 1) /\ i # p + 1
          /\ (p + 1) + (i - (p + 1)) = i
      BY <1>1, <1>3, <2>4
    <3>2. v[i - (p + 1)] = tx[(p + 1) + (i - (p + 1))]
      BY <1>5, <3>1
    <3> QED BY <2>1, <3>1, <3>2
  <2> QED BY <1>1, <1>3, <2>2, <2>3, <2>4
<1>10. /\ Typed(s, ch) \in [text : Seq(Signs), cursor : Int]
       /\ Typed(s, ch).cursor = p + 1 /\ Typed(s, ch).text = y
  BY <1>2, <1>3, <1>7
<1> QED BY <1>8, <1>9, <1>10 DEF tx, p, N

\* The screen shows a line with the cursor behind it.
Shows(s, ln) ==
  /\ s \in [text : Seq(Signs), cursor : Int] /\ s.cursor = Len(ln) /\ Len(ln) <= Len(s.text)
  /\ \A i \in 1 .. Len(s.text) : s.text[i] = IF i <= Len(ln) THEN ln[i] ELSE " "

\* An empty screen shows an empty line.
LEMMA ShowsNothing ==
  Shows(Blank, <<>>)
<1>1. <<>> \in Seq(Signs) /\ Len(<<>>) = 0
  OBVIOUS
<1>2. Blank \in [text : Seq(Signs), cursor : Int] /\ Blank.text = <<>> /\ Blank.cursor = 0
  BY <1>1 DEF Blank
<1> QED BY <1>1, <1>2 DEF Shows

\* A backspace moves the cursor.
LEMMA GoesBack ==
  ASSUME NEW s \in [text : Seq(Signs), cursor : Int]
  PROVE  /\ Typed(s, "BS") \in [text : Seq(Signs), cursor : Int]
         /\ Typed(s, "BS").cursor = s.cursor - 1 /\ Typed(s, "BS").text = s.text
<1>0. "BS" # K!Unseen
  BY DEF K!Unseen
<1>1. Typed(s, "BS") = [s EXCEPT !.cursor = s.cursor - 1]
  BY <1>0 DEF Typed
<1> DEFINE p == s.cursor - 1
<1>2. p \in Int
  OBVIOUS
<1> HIDE DEF p
<1>3. LET u == [s EXCEPT !.cursor = p] IN
      u \in [text : Seq(Signs), cursor : Int] /\ u.cursor = p /\ u.text = s.text
  BY <1>2
<1> QED BY <1>1, <1>3 DEF p

\* A key that is shown.
LEMMA ShowsKey ==
  ASSUME NEW s, NEW ln \in Seq(Signs), Shows(s, ln), NEW ch \in Signs, ch # "BS", ch # K!Unseen
  PROVE  Shows(Typed(s, ch), Append(ln, ch))
<1> DEFINE t == Append(ln, ch)
           u == Typed(s, ch)
           L == Len(ln)
           N == Len(s.text)
           M == Len(u.text)
<1>1. /\ s \in [text : Seq(Signs), cursor : Int] /\ s.cursor = L /\ L <= N
      /\ \A i \in 1 .. N : s.text[i] = IF i <= L THEN ln[i] ELSE " "
  BY Zenon DEF Shows
<1>2. L \in Nat /\ N \in Nat /\ L \in 0 .. N
  <2>1. s.text \in Seq(Signs)
    BY Zenon, <1>1
  <2>2. L \in Nat /\ N \in Nat
    BY <2>1, LenProperties
  <2>3. L <= N
    BY Zenon, <1>1
  <2> HIDE DEF L, N
  <2> QED BY <2>2, <2>3
<1>3. /\ u \in [text : Seq(Signs), cursor : Int] /\ u.cursor = L + 1 /\ M = (IF L < N THEN N ELSE N + 1)
      /\ \A i \in 1 .. M : u.text[i] = IF i = L + 1 THEN ch ELSE s.text[i]
  <2>1. s \in [text : Seq(Signs), cursor : Int] /\ s.cursor \in 0 .. Len(s.text) /\ s.cursor = L
    BY Zenon, <1>1, <1>2
  <2>2. /\ u \in [text : Seq(Signs), cursor : Int]
        /\ u.cursor = s.cursor + 1
        /\ M = IF s.cursor < N THEN N ELSE N + 1
        /\ \A i \in 1 .. M : u.text[i] = IF i = s.cursor + 1 THEN ch ELSE s.text[i]
    BY <2>1, Overwrites
  <2> HIDE DEF u, M, N
  <2> QED BY <2>1, <2>2
<1>4. Len(t) = L + 1 /\ t[L + 1] = ch /\ \A i \in 1 .. L : t[i] = ln[i]
  <2>1. Len(t) = L + 1 /\ t[L + 1] = ch
    BY AppendIs
  <2>2. \A i \in 1 .. L : t[i] = ln[i]
    BY AppendIs
  <2> QED BY <2>1, <2>2
<1> HIDE DEF t, u, L, N, M
<1>8. M = IF L < N THEN N ELSE N + 1
  BY <1>3
<1>5. L + 1 <= M /\ M \in Nat
  BY <1>2, <1>8
<1>6. ASSUME NEW i \in 1 .. M PROVE u.text[i] = IF i <= L + 1 THEN t[i] ELSE " "
  <2>1. CASE i = L + 1
    BY <1>2, <1>3, <1>4, <2>1
  <2>2. CASE i < L + 1
    <3>1. i \in 1 .. L /\ i \in 1 .. N /\ i <= L /\ i <= L + 1 /\ i # L + 1
      BY <1>2, <1>5, <2>2
    <3> QED BY Zenon, <1>1, <1>3, <1>4, <3>1
  <2>3. CASE i > L + 1
    <3>1. i \in 1 .. N /\ ~(i <= L) /\ ~(i <= L + 1) /\ i # L + 1
      BY <1>2, <1>5, <1>8, <2>3
    <3> QED BY Zenon, <1>1, <1>3, <3>1
  <2>4. i = L + 1 \/ i < L + 1 \/ i > L + 1
    BY <1>2, <1>5
  <2> QED BY Zenon, <2>1, <2>2, <2>3, <2>4
<1>7. Shows(u, t)
  BY Zenon, <1>3, <1>4, <1>5, <1>6 DEF Shows, M
<1> QED BY <1>7 DEF u, t

\* A key that is taken back: the cursor goes back, a space is shown, the cursor goes back.
LEMMA ShowsErased ==
  ASSUME NEW s, NEW ln \in Seq(Signs), Shows(s, ln), ln # <<>>
  PROVE  Shows(Typed(Typed(Typed(s, "BS"), " "), "BS"), K!Front(ln))
<1> DEFINE t == K!Front(ln)
           L == Len(ln)
           N == Len(s.text)
           s1 == Typed(s, "BS")
           s2 == Typed(s1, " ")
           s3 == Typed(s2, "BS")
<1>1. /\ s \in [text : Seq(Signs), cursor : Int] /\ s.cursor = L /\ L <= N
      /\ \A i \in 1 .. N : s.text[i] = IF i <= L THEN ln[i] ELSE " "
  BY Zenon DEF Shows
<1>2. L \in Nat /\ N \in Nat /\ L # 0 /\ L - 1 \in 0 .. N /\ L - 1 < N /\ L \in 1 .. N
  <2>1. s.text \in Seq(Signs)
    BY Zenon, <1>1
  <2>2. L \in Nat /\ N \in Nat
    BY <2>1, LenProperties
  <2>3. L # 0
    BY EmptySeq
  <2>4. L <= N
    BY Zenon, <1>1
  <2> HIDE DEF L, N
  <2> QED BY <2>2, <2>3, <2>4
<1>3. s1 \in [text : Seq(Signs), cursor : Int] /\ s1.cursor = L - 1 /\ s1.text = s.text
  BY Zenon, <1>1, GoesBack
<1> HIDE DEF s1
<1>4. /\ s2 \in [text : Seq(Signs), cursor : Int] /\ s2.cursor = (L - 1) + 1 /\ Len(s2.text) = N
      /\ \A i \in 1 .. N : s2.text[i] = IF i = (L - 1) + 1 THEN " " ELSE s.text[i]
  <2>1. " " \in Signs /\ " " # "BS" /\ " " # K!Unseen
    <3>1. " " \in Signs /\ " " # "BS"
      BY Zenon DEF Signs
    <3>2. " " # K!Unseen
      BY DEF K!Unseen
    <3> QED BY Zenon, <3>1, <3>2
  <2>2. s1.cursor \in 0 .. Len(s1.text) /\ s1.cursor < Len(s1.text) /\ Len(s1.text) = N
    BY <1>2, <1>3
  <2>3. /\ s2 \in [text : Seq(Signs), cursor : Int]
        /\ s2.cursor = s1.cursor + 1
        /\ Len(s2.text) = N
        /\ \A i \in 1 .. Len(s2.text) :
             s2.text[i] = IF i = s1.cursor + 1 THEN " " ELSE s1.text[i]
    BY Zenon, <1>3, <2>1, <2>2, Overwrites
  <2> HIDE DEF s2
  <2> QED BY Zenon, <1>3, <2>3
<1>5. (L - 1) + 1 = L
  BY <1>2
<1> HIDE DEF s2
<1>6. s3 \in [text : Seq(Signs), cursor : Int] /\ s3.cursor = L - 1 /\ s3.text = s2.text
  <2>1. s2 \in [text : Seq(Signs), cursor : Int] /\ s2.cursor = L
    BY Zenon, <1>4, <1>5
  <2>2. s3 \in [text : Seq(Signs), cursor : Int] /\ s3.cursor = s2.cursor - 1 /\ s3.text = s2.text
    BY Zenon, <2>1, GoesBack
  <2> QED BY Zenon, <2>1, <2>2
<1>7. t \in Seq(Signs) /\ Len(t) = L - 1 /\ \A i \in 1 .. L - 1 : t[i] = ln[i]
  <2>1. t = SubSeq(ln, 0 + 1, L - 1)
    BY DEF K!Front
  <2>2. 0 \in Nat /\ L - 1 \in 0 .. L /\ 0 <= L - 1 /\ (L - 1) - 0 = L - 1
        /\ \A i \in 1 .. L - 1 : 0 + i = i
    BY <1>2
  <2>3. /\ SubSeq(ln, 0 + 1, L - 1) \in Seq(Signs) /\ Len(SubSeq(ln, 0 + 1, L - 1)) = (L - 1) - 0
        /\ \A i \in 1 .. (L - 1) - 0 : SubSeq(ln, 0 + 1, L - 1)[i] = ln[0 + i]
    BY <2>2, PieceIs
  <2> HIDE DEF t, L
  <2> QED BY <2>1, <2>2, <2>3
<1> HIDE DEF t, L, N, s1, s2, s3
<1>8. ASSUME NEW i \in 1 .. N PROVE s3.text[i] = IF i <= L - 1 THEN t[i] ELSE " "
  <2>1. s3.text[i] = IF i = L THEN " " ELSE s.text[i]
    BY Zenon, <1>4, <1>5, <1>6
  <2>2. CASE i = L
    <3>1. ~(i <= L - 1)
      BY <1>2, <2>2
    <3> QED BY Zenon, <2>1, <2>2, <3>1
  <2>3. CASE i < L
    <3>1. i \in 1 .. L - 1 /\ i <= L - 1 /\ i <= L /\ i # L
      BY <1>2, <2>3
    <3> QED BY Zenon, <1>1, <1>7, <2>1, <3>1
  <2>4. CASE i > L
    <3>1. ~(i <= L - 1) /\ ~(i <= L) /\ i # L
      BY <1>2, <2>4
    <3> QED BY Zenon, <1>1, <2>1, <3>1
  <2>5. i = L \/ i < L \/ i > L
    BY <1>2
  <2> QED BY Zenon, <2>2, <2>3, <2>4, <2>5
<1>11. L - 1 <= N
  BY <1>2
<1>9. Len(s3.text) = N /\ L - 1 <= N
  BY Zenon, <1>11, <1>4, <1>6
<1>10. Shows(s3, t)
  BY Zenon, <1>6, <1>7, <1>8, <1>9 DEF Shows
<1> QED BY Zenon, <1>10 DEF s3, s2, s1, t

\* Three characters more.
LEMMA ThreeMore ==
  ASSUME NEW X, NEW sh \in Seq(X), NEW x \in X, NEW y \in X, NEW z \in X
  PROVE  Append(Append(Append(sh, x), y), z) = sh \o <<x, y, z>>
<1> DEFINE a == Append(sh, x)
           b == Append(a, y)
           d == Append(b, z)
           v == <<x, y, z>>
           N == Len(sh)
<1>1. /\ N \in Nat /\ a \in Seq(X) /\ Len(a) = N + 1
      /\ a[N + 1] = x /\ \A i \in 1 .. N : a[i] = sh[i]
  <2>1. Len(sh) \in Nat /\ a \in Seq(X) /\ Len(a) = Len(sh) + 1 /\ a[Len(sh) + 1] = x
    BY AppendIs
  <2>2. \A i \in 1 .. Len(sh) : a[i] = sh[i]
    BY AppendIs
  <2> QED BY <2>1, <2>2
<1> HIDE DEF a
<1>2. /\ b \in Seq(X) /\ Len(b) = Len(a) + 1
      /\ b[Len(a) + 1] = y /\ \A i \in 1 .. Len(a) : b[i] = a[i]
  <2>1. b \in Seq(X) /\ Len(b) = Len(a) + 1 /\ b[Len(a) + 1] = y
    BY <1>1, AppendIs
  <2>2. \A i \in 1 .. Len(a) : b[i] = a[i]
    BY <1>1, AppendIs
  <2> QED BY <2>1, <2>2
<1> HIDE DEF b
<1>3. /\ d \in Seq(X) /\ Len(d) = Len(b) + 1
      /\ d[Len(b) + 1] = z /\ \A i \in 1 .. Len(b) : d[i] = b[i]
  <2>1. d \in Seq(X) /\ Len(d) = Len(b) + 1 /\ d[Len(b) + 1] = z
    BY <1>2, AppendIs
  <2>2. \A i \in 1 .. Len(b) : d[i] = b[i]
    BY <1>2, AppendIs
  <2> QED BY <2>1, <2>2
<1> HIDE DEF d
<1>4. v \in Seq(X) /\ Len(v) = 3 /\ v[1] = x /\ v[2] = y /\ v[3] = z
  OBVIOUS
<1> HIDE DEF v, N
<1>5. /\ sh \o v \in Seq(X) /\ Len(sh \o v) = N + 3
      /\ \A i \in 1 .. N + 3 : (sh \o v)[i] = IF i <= N THEN sh[i] ELSE v[i - N]
  <2>1. /\ sh \o v \in Seq(X) /\ Len(sh \o v) = Len(sh) + Len(v)
        /\ \A i \in 1 .. Len(sh) + Len(v) : (sh \o v)[i] = IF i <= Len(sh) THEN sh[i] ELSE v[i - Len(sh)]
    BY Zenon, <1>4, ConcatProperties
  <2> QED BY <1>4, <2>1 DEF N
<1>6. Len(a) + 1 = N + 2 /\ Len(b) + 1 = N + 3 /\ Len(a) = N + 1 /\ Len(b) = N + 2
  BY <1>1, <1>2
<1>7. ASSUME NEW i \in 1 .. N + 3 PROVE d[i] = (sh \o v)[i]
  <2>0. N \in Nat
    BY <1>1
  <2>1. CASE i <= N
    <3>1. i \in 1 .. N /\ i \in 1 .. N + 1 /\ i \in 1 .. N + 2
      BY <2>0, <2>1
    <3> QED BY Zenon, <1>1, <1>2, <1>3, <1>5, <1>6, <2>1, <3>1
  <2>2. CASE i = N + 1
    <3>1. i \in 1 .. N + 1 /\ i \in 1 .. N + 2 /\ ~(i <= N) /\ i - N = 1
      BY <2>0, <2>2
    <3> QED BY <1>1, <1>2, <1>3, <1>4, <1>5, <1>6, <2>2, <3>1
  <2>3. CASE i = N + 2
    <3>1. i \in 1 .. N + 2 /\ ~(i <= N) /\ i - N = 2
      BY <2>0, <2>3
    <3> QED BY Zenon, <1>2, <1>3, <1>4, <1>5, <1>6, <2>3, <3>1
  <2>4. CASE i = N + 3
    <3>1. ~(i <= N) /\ i - N = 3
      BY <2>0, <2>4
    <3> QED BY Zenon, <1>3, <1>4, <1>5, <1>6, <2>4, <3>1
  <2>5. i <= N \/ i = N + 1 \/ i = N + 2 \/ i = N + 3
    BY <2>0
  <2> QED BY Zenon, <2>1, <2>2, <2>3, <2>4, <2>5
<1>8. d = sh \o v
  <2>1. Len(d) = N + 3
    BY <1>3, <1>6
  <2> QED BY Zenon, <1>3, <1>5, <1>7, <2>1, SeqEqual
<1> QED BY <1>8 DEF a, b, d, v

\* The screen shows what was typed when the shell writes a key, or takes one back.
LEMMA ScreenShows ==
  ASSUME NEW sh \in Seq(Signs), NEW ln \in Seq(Signs), Shows(Screen(sh), ln)
  PROVE  /\ \A ch \in Signs \ {"BS", K!Unseen} : Shows(Screen(Append(sh, ch)), Append(ln, ch))
         /\ ln # <<>> => Shows(Screen(sh \o <<"BS", " ", "BS">>), K!Front(ln))
<1>1. ASSUME NEW ch \in Signs \ {"BS", K!Unseen} PROVE Shows(Screen(Append(sh, ch)), Append(ln, ch))
  BY ScreenGrows, ShowsKey
<1>2. ASSUME ln # <<>> PROVE Shows(Screen(sh \o <<"BS", " ", "BS">>), K!Front(ln))
  <2> DEFINE a == Append(sh, "BS")
             b == Append(a, " ")
             d == Append(b, "BS")
  <2>0. "BS" \in Signs /\ " " \in Signs
    BY Zenon DEF Signs
  <2>1. a \in Seq(Signs) /\ b \in Seq(Signs)
    <3>1. a \in Seq(Signs)
      BY Zenon, <2>0, AppendIs
    <3> HIDE DEF a
    <3> QED BY Zenon, <2>0, <3>1, AppendIs
  <2>2. d = sh \o <<"BS", " ", "BS">>
    <3>1. \A x, y \in Signs : Append(Append(Append(sh, x), y), x) = sh \o <<x, y, x>>
      BY ThreeMore
    <3> QED BY <2>0, <3>1, Zenon
  <2>3. Screen(a) = Typed(Screen(sh), "BS")
    BY Zenon, <2>0, ScreenGrows
  <2> HIDE DEF a
  <2>4. Screen(b) = Typed(Screen(a), " ")
    BY Zenon, <2>0, <2>1, ScreenGrows
  <2> HIDE DEF b
  <2>5. Screen(d) = Typed(Screen(b), "BS")
    BY Zenon, <2>0, <2>1, ScreenGrows
  <2> HIDE DEF d
  <2>6. Shows(Screen(d), K!Front(ln))
    BY Zenon, <1>2, <2>3, <2>4, <2>5, ShowsErased
  <2> QED BY Zenon, <2>2, <2>6
<1> QED BY Zenon, <1>1, <1>2

-----------------------------------------------------------------------------
(* The operators of the shell                                              *)

\* What the assumption says of the constants, one by one.
LEMMA ShellConstants ==
  /\ CAT_BUF_SIZE \in Nat /\ CAT_BUF_SIZE # 0
  /\ UserFds \subseteq Nat /\ IsFiniteSet(UserFds)
  /\ Volume \in [DOMAIN Volume -> Seq(STRING)]
  /\ \A path \in DOMAIN Volume : Volume[path] \in Seq(STRING)
  /\ MaxInt \in Nat /\ Codes \in [DOMAIN Codes -> 0 .. 255]
  /\ \A i \in DOMAIN K!Digits : /\ K!Digits[i] \in DOMAIN Codes
                                /\ Codes[K!Digits[i]] = Codes["0"] + i - 1
  /\ \A s \in Scripts : /\ s \in Seq(STRING \ {"BS", K!Unseen})
                        /\ \A n \in DOMAIN s :
                             s[n] = K!CR => K!QuotesClose(K!CString(K!Edited(s)[n - 1]))
<1>1. K!IsFiniteSet(UserFds) => IsFiniteSet(UserFds)
  BY SameFinite
<1>2. K!ShellAssumption
  BY LibraryAssumption
<1>3. ASSUME NEW s \in Scripts
      PROVE  /\ s \in Seq(STRING \ {"BS", K!Unseen})
             /\ \A n \in DOMAIN s :
                  s[n] = K!CR => K!QuotesClose(K!CString(K!Edited(s)[n - 1]))
  <2>1. K!Typable(s)
    BY Zenon, <1>2 DEF K!ShellAssumption
  <2> QED BY Zenon, <2>1 DEF K!Typable
<1> QED BY <1>1, <1>2, <1>3 DEF K!ShellAssumption

\* A sequence of some elements is one of more.
LEMMA SeqWider ==
  ASSUME NEW X, NEW Y, X \subseteq Y, NEW s \in Seq(X)
  PROVE  s \in Seq(Y)
<1>1. Len(s) \in Nat /\ s \in [1 .. Len(s) -> X]
  BY LenProperties
<1>2. s \in [1 .. Len(s) -> Y]
  BY <1>1
<1> QED BY <1>1, <1>2

\* The codes of characters are numbers, and those of the digits follow each other.
LEMMA CodesAre ==
  /\ Codes["0"] \in Int /\ \A ch : K!CodeOf(ch) \in Int
  /\ DOMAIN K!Digits = 1 .. 10
  /\ \A i \in 1 .. 10 : K!CodeOf(K!Digits[i]) - Codes["0"] = i - 1
<1>1. DOMAIN K!Digits = 1 .. 10 /\ K!Digits[1] = "0"
  BY DEF K!Digits
<1>2. /\ Codes \in [DOMAIN Codes -> 0 .. 255]
      /\ \A i \in DOMAIN K!Digits : /\ K!Digits[i] \in DOMAIN Codes
                                   /\ Codes[K!Digits[i]] = Codes["0"] + i - 1
  BY ShellConstants
<1>3. \A ch \in DOMAIN Codes : Codes[ch] \in Int
  <2>1. \A ch \in DOMAIN Codes : Codes[ch] \in 0 .. 255
    BY <1>2
  <2> QED BY <2>1
<1>4. "0" \in DOMAIN Codes
  <2>1. 1 \in DOMAIN K!Digits
    BY <1>1
  <2> QED BY <1>1, <1>2, <2>1
<1>5. \A ch : K!CodeOf(ch) \in Int
  BY <1>3 DEF K!CodeOf
<1>6. Codes["0"] \in Int
  BY <1>3, <1>4
<1>7. ASSUME NEW i \in 1 .. 10 PROVE K!CodeOf(K!Digits[i]) - Codes["0"] = i - 1
  <2> DEFINE ch == K!Digits[i]
             z == Codes["0"]
  <2>1. ch \in DOMAIN Codes /\ Codes[ch] = z + i - 1
    BY <1>1, <1>2
  <2>2. K!CodeOf(ch) = Codes[ch]
    BY <2>1 DEF K!CodeOf
  <2>3. z \in Int
    BY <1>6
  <2> HIDE DEF ch, z
  <2> QED BY <2>1, <2>2, <2>3 DEF ch, z
<1> QED BY <1>1, <1>5, <1>6, <1>7

\* The number a numeral means grows digit by digit.
LEMMA NumberIs ==
  ASSUME NEW s \in Seq(STRING), K!IsNumeral(s)
  PROVE  \E v : /\ v[0] = 0 /\ K!NumberOf(s) = v[Len(s)]
               /\ \A i \in 0 .. Len(s) : v[i] \in Nat
               /\ \A j \in 1 .. Len(s) : v[j] = v[j - 1] * 10 + K!CodeOf(s[j]) - Codes["0"]
<1> DEFINE N == Len(s)
           J == 0 .. N
           V == Nat
           base == 0
           rank == [n \in J |-> n]
           prev == [n \in J |-> n - 1]
           D(n) == CHOOSE i \in DOMAIN K!Digits : K!Digits[i] = s[n]
           New(v, n) == IF n = 0 THEN 0 ELSE 10 * v + D(n) - 1
           step == [x \in V \X J |-> New(x[1], x[2])]
           Eq(f) == f = [n \in J |-> IF n = 0 THEN 0 ELSE 10 * f[n - 1] + D(n) - 1]
           g == CHOOSE f : Eq(f)
<1>1. N \in Nat /\ DOMAIN s = 1 .. N
  BY LenProperties
<1>2. K!NumberOf(s) = g[N]
  BY DEF K!NumberOf
<1>3. ASSUME NEW n \in 1 .. N
      PROVE  D(n) \in 1 .. 10 /\ D(n) - 1 = K!CodeOf(s[n]) - Codes["0"]
  <2>1. \E i \in DOMAIN K!Digits : K!Digits[i] = s[n]
    <3>1. K!Contains(K!Digits, s[n])
      BY <1>1 DEF K!IsNumeral
    <3>2. Len(K!Digits) = 10
      BY DEF K!Digits
    <3> QED BY <3>1, <3>2, CodesAre DEF K!Contains
  <2>2. D(n) \in DOMAIN K!Digits /\ K!Digits[D(n)] = s[n]
    BY <2>1
  <2> HIDE DEF D
  <2> QED BY <2>2, CodesAre
<1> HIDE DEF N, D, Eq
<1>4. ASSUME NEW v \in V, NEW n \in J PROVE New(v, n) \in V
  <2>1. ASSUME n # 0 PROVE D(n) \in 1 .. 10
    BY <1>1, <1>3, <2>1
  <2> QED BY <2>1
<1>5. Recursion(J, V, N, rank, prev, base, step)
  <2>1. base \in V
    OBVIOUS
  <2>2. step \in [V \X J -> V]
    <3> HIDE DEF V, J, New
    <3> QED BY <1>4
  <2>3. rank \in [J -> 0 .. N]
    OBVIOUS
  <2>4. \A j \in J : rank[j] > 0 => prev[j] \in J /\ rank[prev[j]] < rank[j]
    BY <1>1
  <2> HIDE DEF V, J, base, step, rank, prev
  <2> QED BY <1>1, <2>1, <2>2, <2>3, <2>4 DEF Recursion
<1>6. PICK f \in [J -> V] :
        \A j \in J : f[j] = IF rank[j] = 0 THEN base ELSE step[<<f[prev[j]], j>>]
  <2> HIDE DEF J, V, rank, prev, base, step
  <2> QED BY <1>5, RecursionExists
<1>7. ASSUME NEW n \in J PROVE f[n] = IF n = 0 THEN 0 ELSE 10 * f[n - 1] + D(n) - 1
  <2>1. CASE n = 0
    <3> HIDE DEF V, step
    <3> QED BY Zenon, <1>6, <2>1
  <2>2. CASE n # 0
    <3>1. n - 1 \in J /\ rank[n] # 0 /\ prev[n] = n - 1
      BY <1>1, <2>2
    <3>2. f[n - 1] \in V
      <4> HIDE DEF V
      <4> QED BY <3>1
    <3>3. step[<<f[n - 1], n>>] = New(f[n - 1], n)
      <4> HIDE DEF V, New, J
      <4> QED BY <3>2
    <3>4. f[n] = step[<<f[n - 1], n>>]
      <4> HIDE DEF V, step, J, rank, prev
      <4> QED BY <1>6, <3>1
    <3> QED BY <2>2, <3>3, <3>4
  <2> QED BY <2>1, <2>2
<1>8. Eq(f)
  <2>1. f = [n \in J |-> f[n]]
    OBVIOUS
  <2> HIDE DEF J
  <2> QED BY Zenon, <1>7, <2>1 DEF Eq
<1>9. Eq(g)
  BY <1>8
<1> HIDE DEF g
<1>10. \A n \in J : g[n] = IF n = 0 THEN 0 ELSE 10 * g[n - 1] + D(n) - 1
  BY Zenon, <1>9 DEF Eq
<1> DEFINE T == {n \in Nat : n <= N => g[n] \in Nat}
<1>11. 0 \in T
  BY <1>1, <1>10
<1>12. ASSUME NEW n \in Nat, n \in T PROVE n + 1 \in T
  <2> SUFFICES ASSUME n + 1 <= N PROVE g[n + 1] \in Nat
    OBVIOUS
  <2>1. n + 1 \in J /\ n + 1 \in 1 .. N /\ n + 1 # 0 /\ (n + 1) - 1 = n /\ n <= N
    BY <1>1
  <2>2. g[n] \in Nat /\ D(n + 1) \in 1 .. 10
    BY <1>3, <1>12, <2>1
  <2>3. g[n + 1] = 10 * g[n] + D(n + 1) - 1
    BY <1>10, <2>1
  <2> QED BY <2>2, <2>3
<1>13. \A n \in J : g[n] \in Nat
  <2>1. Nat \subseteq T
    <3> HIDE DEF T
    <3> QED BY <1>11, <1>12, AllNumbers
  <2> QED BY <1>1, <2>1
<1>14. ASSUME NEW n \in 1 .. N
       PROVE  g[n] = g[n - 1] * 10 + K!CodeOf(s[n]) - Codes["0"]
  <2>1. n \in J /\ n # 0 /\ n - 1 \in J
    BY <1>1
  <2>2. g[n] = 10 * g[n - 1] + D(n) - 1 /\ g[n - 1] \in Nat
    BY <1>10, <1>13, <2>1
  <2> DEFINE x == K!CodeOf(s[n])
             z == Codes["0"]
  <2>3. x \in Int /\ z \in Int /\ D(n) \in 1 .. 10 /\ D(n) - 1 = x - z
    BY <1>3, CodesAre
  <2> HIDE DEF x, z
  <2>4. g[n] = g[n - 1] * 10 + x - z
    BY <2>2, <2>3
  <2> QED BY <2>4 DEF x, z
<1>15. g[0] = 0
  BY <1>1, <1>10
<1> QED BY <1>2, <1>13, <1>14, <1>15 DEF N

\* The arithmetic of an int gives an int, and leaves what it can hold.
LEMMA WrapIs ==
  ASSUME NEW n \in Int
  PROVE  K!Wrap(n) \in Int /\ (n \in Nat /\ n <= MaxInt => K!Wrap(n) = n)
<1>1. MaxInt \in Nat
  BY ShellConstants
<1> DEFINE d == 2 * MaxInt + 2
           x == n + MaxInt + 1
<1>2. d \in Nat \ {0} /\ x \in Int
  BY <1>1
<1>3. K!Wrap(n) = IF n \in -MaxInt - 1 .. MaxInt THEN n ELSE (x % d) - MaxInt - 1
  BY DEF K!Wrap
<1> HIDE DEF d, x
<1>4. x % d \in 0 .. d - 1
  BY <1>2, Remainder
<1>5. x % d \in Int
  BY <1>2, <1>4
<1> QED BY <1>1, <1>3, <1>5

\* What edit makes of a word is an int, and of a numeral that an int can hold its number.
LEMMA AtoiIs ==
  ASSUME NEW s \in Seq(STRING)
  PROVE  /\ K!Atoi(s) \in Int
         /\ K!IsNumeral(s) /\ K!NumberOf(s) <= MaxInt =>
              K!NumberOf(s) \in Nat /\ K!Atoi(s) = K!NumberOf(s)
<1> DEFINE N == Len(s)
           J == SUBSET (1 .. N)
           Digit(i) == K!CodeOf(s[i])
           Op(v, i) == v * 10 + Digit(i) - Codes["0"]
           h == CHOOSE f : f = [t \in SUBSET (DOMAIN s) |->
                                  IF t = {} THEN 0
                                  ELSE f[t \ {K!Max(t)}] * 10 + K!CodeOf(s[K!Max(t)]) - Codes["0"]]
<1>1. N \in Nat /\ DOMAIN s = 1 .. N
  BY LenProperties
<1>2. K!Atoi(s) = K!Wrap(h[1 .. N])
  BY <1>1 DEF K!Atoi, K!FoldLeft, K!MapThenFoldSet
<1>3. Codes["0"] \in Int /\ \A i \in 1 .. N : Digit(i) \in Int
  BY CodesAre
<1>4. ASSUME NEW v \in Int, NEW i \in 1 .. N PROVE Op(v, i) \in Int
  <2>1. Digit(i) \in Int
    BY <1>3
  <2> HIDE DEF Digit
  <2> QED BY <1>3, <2>1
<1>5. h = CHOOSE f : f = [t \in J |-> IF t = {} THEN 0 ELSE Op(f[t \ {K!Max(t)}], K!Max(t))]
  BY <1>1
<1> HIDE DEF h
<1> DEFINE step == [x \in Int \X (1 .. N) |-> Op(x[1], x[2])]
<1>6. step \in [Int \X (1 .. N) -> Int]
  <2> HIDE DEF Op
  <2> QED BY Zenon, <1>4
<1>7. PICK g : Folds(g, Int, N, 0, step)
  <2>1. 0 \in Int
    OBVIOUS
  <2> HIDE DEF step, N, Op, J, Digit
  <2> QED BY Zenon, <1>1, <1>6, <2>1, FoldExists
<1>8. ASSUME NEW t \in J PROVE g[t] = IF t = {} THEN 0 ELSE Op(g[t \ {K!Max(t)}], K!Max(t))
  <2>1. g[t] = IF t = {} THEN 0 ELSE step[<<g[t \ {P!Max(t)}], P!Max(t)>>]
    BY Zenon, <1>7 DEF Folds
  <2>2. CASE t # {}
    <3>1. P!Max(t) \in 1 .. N /\ K!Max(t) = P!Max(t)
      BY Zenon, <1>1, <2>2, Greatest, SameGreatest
    <3>2. t \ {P!Max(t)} \in J /\ g \in [J -> Int]
      BY Zenon, <1>7 DEF Folds
    <3>3. <<g[t \ {P!Max(t)}], P!Max(t)>> \in Int \X (1 .. N)
      BY <3>1, <3>2
    <3>4. step[<<g[t \ {P!Max(t)}], P!Max(t)>>] = Op(g[t \ {P!Max(t)}], P!Max(t))
      <4> HIDE DEF Op
      <4> QED BY <3>3
    <3> HIDE DEF step, Op
    <3> QED BY <2>1, <2>2, <3>1, <3>4
  <2> HIDE DEF step, Op
  <2> QED BY <2>1, <2>2
<1>9. g \in [J -> Int] /\ g = [t \in J |-> IF t = {} THEN 0 ELSE Op(g[t \ {K!Max(t)}], K!Max(t))]
  <2> HIDE DEF Op, step
  <2> QED BY Zenon, <1>7, <1>8 DEF Folds
<1> DEFINE Eq(f) == f = [t \in J |-> IF t = {} THEN 0 ELSE Op(f[t \ {K!Max(t)}], K!Max(t))]
<1>10. h = CHOOSE f : Eq(f)
  BY <1>5
<1>11. Eq(h)
  <2>1. Eq(g)
    BY Zenon, <1>9
  <2> HIDE DEF Eq
  <2> QED BY <1>10, <2>1
<1> DEFINE T == {i \in Nat : i <= N => h[1 .. i] \in Int}
<1>12. ASSUME NEW t \in J PROVE h[t] = IF t = {} THEN 0 ELSE Op(h[t \ {K!Max(t)}], K!Max(t))
  <2> HIDE DEF J, Op
  <2> QED BY Zenon, <1>11
<1> HIDE DEF J, Op, N, Eq
<1>13. 0 \in T
  <2>1. 1 .. 0 = {} /\ {} \in J
    BY <1>1 DEF J
  <2>2. h[{}] = 0
    BY Zenon, <1>12, <2>1
  <2> QED BY <2>1, <2>2
<1>14. ASSUME NEW i \in Nat, i + 1 <= N
       PROVE  i + 1 \in 1 .. N /\ h[1 .. i + 1] = Op(h[1 .. i], i + 1)
  <2>1. i + 1 \in 1 .. N /\ (i + 1) - 1 = i
    BY <1>1, <1>14
  <2>2. /\ 1 .. i + 1 \in J /\ 1 .. i + 1 # {} /\ K!Max(1 .. i + 1) = i + 1
        /\ (1 .. i + 1) \ {i + 1} = 1 .. (i + 1) - 1
    BY <1>1, <2>1, Prefixes, SameGreatest DEF J
  <2> QED BY Zenon, <1>12, <2>1, <2>2
<1>15. ASSUME NEW i \in Nat, i \in T PROVE i + 1 \in T
  <2> SUFFICES ASSUME i + 1 <= N PROVE h[1 .. i + 1] \in Int
    OBVIOUS
  <2>1. h[1 .. i] \in Int
    BY <1>1, <1>15
  <2> QED BY Zenon, <1>4, <1>14, <2>1
<1>16. N \in T
  <2> HIDE DEF T
  <2> QED BY <1>1, <1>13, <1>15, AllNumbers
<1>17. K!Atoi(s) \in Int
  <2>1. h[1 .. N] \in Int
    BY <1>1, <1>16
  <2> QED BY <1>2, <2>1, WrapIs
<1>18. ASSUME K!IsNumeral(s), K!NumberOf(s) <= MaxInt
       PROVE  K!NumberOf(s) \in Nat /\ K!Atoi(s) = K!NumberOf(s)
  <2>1. PICK v : /\ v[0] = 0 /\ K!NumberOf(s) = v[N]
                 /\ \A i \in 0 .. N : v[i] \in Nat
                 /\ \A j \in 1 .. N : v[j] = v[j - 1] * 10 + K!CodeOf(s[j]) - Codes["0"]
    BY <1>18, NumberIs DEF N
  <2> DEFINE U == {i \in Nat : i <= N => h[1 .. i] = v[i]}
  <2>2. 0 \in U
    <3>1. 1 .. 0 = {} /\ {} \in J
      BY <1>1 DEF J
    <3> QED BY <1>12, <2>1, <3>1
  <2>3. ASSUME NEW i \in Nat, i \in U PROVE i + 1 \in U
    <3> SUFFICES ASSUME i + 1 <= N PROVE h[1 .. i + 1] = v[i + 1]
      OBVIOUS
    <3>1. h[1 .. i] = v[i]
      BY <1>1, <2>3
    <3>2. i + 1 \in 1 .. N /\ h[1 .. i + 1] = Op(v[i], i + 1)
      BY <1>14, <3>1
    <3>3. v[i + 1] = v[(i + 1) - 1] * 10 + K!CodeOf(s[i + 1]) - Codes["0"] /\ (i + 1) - 1 = i
      BY <2>1, <3>2
    <3> QED BY <3>2, <3>3 DEF Op
  <2>4. N \in U
    <3> HIDE DEF U
    <3> QED BY <1>1, <2>2, <2>3, AllNumbers
  <2>5. h[1 .. N] = K!NumberOf(s) /\ K!NumberOf(s) \in Nat
    BY <1>1, <2>1, <2>4
  <2> QED BY <1>2, <1>18, <2>5, WrapIs
<1> QED BY <1>17, <1>18

\* A line without its last character.
LEMMA FrontIs ==
  ASSUME NEW s \in Seq(STRING), s # <<>>
  PROVE  K!Front(s) \in Seq(STRING)
<1>1. Len(s) \in Nat \ {0}
  BY EmptySeq
<1>2. 0 \in Nat /\ Len(s) - 1 \in 0 .. Len(s) /\ 0 + 1 = 1
  BY <1>1
<1>3. SubSeq(s, 0 + 1, Len(s) - 1) \in Seq(STRING)
  BY <1>2, PartOf
<1> QED BY <1>2, <1>3 DEF K!Front

\* What a key makes of a line.
Keyed(ln, key) ==
  IF key = K!CR THEN <<>>
  ELSE IF key # K!DEL THEN Append(ln, key)
  ELSE IF ln = <<>> THEN <<>> ELSE K!Front(ln)

\* The line after each key of a script is what that key makes of the line before it.
LEMMA EditedIs ==
  ASSUME NEW s \in Seq(STRING \ {"BS", K!Unseen})
  PROVE  /\ K!Edited(s)[0] = <<>>
         /\ \A n \in 0 .. Len(s) : K!Edited(s)[n] \in Seq(STRING)
         /\ \A n \in 1 .. Len(s) : K!Edited(s)[n] = Keyed(K!Edited(s)[n - 1], s[n])
<1> DEFINE N == Len(s)
           J == 0 .. N
           V == Seq(STRING)
           base == <<>>
           rank == [n \in J |-> n]
           prev == [n \in J |-> n - 1]
           New(ln, n) == IF n = 0 THEN <<>> ELSE Keyed(ln, s[n])
           step == [x \in V \X J |-> New(x[1], x[2])]
           Eq(f) == f = [n \in J |->
                     IF n = 0 \/ s[n] = K!CR THEN <<>>
                     ELSE IF s[n] # K!DEL THEN Append(f[n - 1], s[n])
                     ELSE IF f[n - 1] = <<>> THEN <<>> ELSE K!Front(f[n - 1])]
<1>1. N \in Nat /\ DOMAIN s = 1 .. N /\ \A n \in 1 .. N : s[n] \in STRING
  <2>1. \A n \in 1 .. N : s[n] \in STRING \ {"BS", K!Unseen}
    BY ElementOfSeq
  <2> QED BY <2>1, LenProperties
<1>2. K!Edited(s) = CHOOSE f : Eq(f)
  BY DEF K!Edited
<1> HIDE DEF N, Eq
<1>3. ASSUME NEW ln \in V, NEW n \in J PROVE New(ln, n) \in V
  <2>1. <<>> \in V
    BY EmptySeq
  <2>2. ASSUME n # 0 PROVE Keyed(ln, s[n]) \in V
    <3>1. s[n] \in STRING
      BY <1>1, <2>2
    <3>2. Append(ln, s[n]) \in V
      BY <3>1, AppendProperties
    <3>3. ln # <<>> => K!Front(ln) \in V
      BY FrontIs
    <3> QED BY Zenon, <2>1, <3>2, <3>3 DEF Keyed
  <2> HIDE DEF V
  <2> QED BY <2>1, <2>2
<1>4. Recursion(J, V, N, rank, prev, base, step)
  <2>1. base \in V
    BY EmptySeq
  <2>2. step \in [V \X J -> V]
    <3> HIDE DEF V, J, New
    <3> QED BY <1>3
  <2>3. rank \in [J -> 0 .. N]
    OBVIOUS
  <2>4. \A j \in J : rank[j] > 0 => prev[j] \in J /\ rank[prev[j]] < rank[j]
    BY <1>1
  <2> HIDE DEF V, J, base, step, rank, prev
  <2> QED BY <1>1, <2>1, <2>2, <2>3, <2>4 DEF Recursion
<1>5. PICK f \in [J -> V] :
        \A j \in J : f[j] = IF rank[j] = 0 THEN base ELSE step[<<f[prev[j]], j>>]
  <2> HIDE DEF J, V, rank, prev, base, step
  <2> QED BY <1>4, RecursionExists
<1>6. ASSUME NEW n \in J PROVE f[n] = IF n = 0 THEN <<>> ELSE Keyed(f[n - 1], s[n])
  <2>1. CASE n = 0
    <3> HIDE DEF V, step
    <3> QED BY Zenon, <1>5, <2>1
  <2>2. CASE n # 0
    <3>1. n - 1 \in J /\ rank[n] # 0 /\ prev[n] = n - 1
      BY <1>1, <2>2
    <3>2. f[n - 1] \in V
      <4> HIDE DEF V
      <4> QED BY <3>1
    <3>3. step[<<f[n - 1], n>>] = New(f[n - 1], n)
      <4> HIDE DEF V, New, J
      <4> QED BY <3>2
    <3>4. f[n] = step[<<f[n - 1], n>>]
      <4> HIDE DEF V, step, J, rank, prev
      <4> QED BY <1>5, <3>1
    <3> QED BY <2>2, <3>3, <3>4
  <2> QED BY <2>1, <2>2
<1>7. Eq(f)
  <2>1. \A n \in J : f[n] = IF n = 0 \/ s[n] = K!CR THEN <<>>
                     ELSE IF s[n] # K!DEL THEN Append(f[n - 1], s[n])
                     ELSE IF f[n - 1] = <<>> THEN <<>> ELSE K!Front(f[n - 1])
    BY <1>6 DEF Keyed
  <2>2. f = [n \in J |-> f[n]]
    OBVIOUS
  <2> HIDE DEF J
  <2> QED BY Zenon, <2>1, <2>2 DEF Eq
<1> DEFINE g == K!Edited(s)
<1>8. Eq(g)
  BY <1>2, <1>7
<1> HIDE DEF g
<1>9. \A n \in J : g[n] = IF n = 0 THEN <<>> ELSE Keyed(g[n - 1], s[n])
  BY Zenon, <1>8 DEF Eq, Keyed
<1> DEFINE T == {n \in Nat : n <= N => g[n] \in V}
<1>10. 0 \in T
  <2>1. g[0] = <<>> /\ <<>> \in V
    BY <1>1, <1>9, EmptySeq
  <2> HIDE DEF V
  <2> QED BY <2>1
<1>11. ASSUME NEW n \in Nat, n \in T PROVE n + 1 \in T
  <2> SUFFICES ASSUME n + 1 <= N PROVE g[n + 1] \in V
    OBVIOUS
  <2>1. n + 1 \in J /\ n + 1 # 0 /\ (n + 1) - 1 = n /\ n <= N
    BY <1>1
  <2>2. g[n] \in V
    BY <1>11, <2>1
  <2>3. g[n + 1] = New(g[n], n + 1)
    BY <1>9, <2>1
  <2> HIDE DEF New, V
  <2> QED BY <1>3, <2>1, <2>2, <2>3
<1>12. \A n \in J : g[n] \in V
  <2>1. Nat \subseteq T
    <3> HIDE DEF T
    <3> QED BY <1>10, <1>11, AllNumbers
  <2> HIDE DEF V
  <2> QED BY <1>1, <2>1
<1>13. g[0] = <<>> /\ \A n \in 1 .. N : g[n] = Keyed(g[n - 1], s[n])
  BY <1>1, <1>9
<1> QED BY <1>12, <1>13 DEF g, N

\* The rest of a line whose quotes close.
LEMMA QuotesOfLine ==
  ASSUME NEW ln \in Seq(STRING), ln # <<>>, K!QuotesClose(ln)
  PROVE  RestCloses(Tail(ln)) /\ Tail(ln) \in Seq(STRING)
<1> DEFINE r == Tail(ln)
           N == Len(ln)
<1>1. r \in Seq(STRING) /\ Len(r) = N - 1 /\ \A i \in 1 .. N - 1 : r[i] = ln[i + 1]
  BY HeadTailProperties
<1>2. N \in Nat \ {0}
  BY EmptySeq
<1>3. \A i \in 2 .. N : ln[i] = K!Quote /\ (i = 2 \/ ln[i - 1] = " ")
                          => \E j \in i + 1 .. N : ln[j] = K!Quote
  BY Zenon DEF K!QuotesClose
<1> HIDE DEF r, N
<1>4. ASSUME NEW i \in 1 .. N - 1, r[i] = K!Quote, i = 1 \/ r[i - 1] = " "
      PROVE  \E j \in i + 1 .. N - 1 : r[j] = K!Quote
  <2>1. i + 1 \in 2 .. N /\ (i = 1 => i + 1 = 2) /\ (i # 1 => i - 1 \in 1 .. N - 1)
        /\ (i - 1) + 1 = i /\ (i + 1) - 1 = i
    BY <1>2
  <2>2. ln[i + 1] = K!Quote /\ (i + 1 = 2 \/ ln[(i + 1) - 1] = " ")
    BY Zenon, <1>1, <1>4, <2>1
  <2>3. PICK j \in (i + 1) + 1 .. N : ln[j] = K!Quote
    BY Zenon, <1>3, <2>1, <2>2
  <2>4. j - 1 \in i + 1 .. N - 1 /\ j - 1 \in 1 .. N - 1 /\ (j - 1) + 1 = j
    BY <1>2, <2>1
  <2>5. r[j - 1] = K!Quote
    BY <1>1, <2>3, <2>4
  <2> QED BY <2>4, <2>5
<1> QED BY Zenon, <1>1, <1>4 DEF RestCloses, r

\* A table has an entry for each descriptor.
IsTable(table) == table = [fd \in UserFds |-> table[fd]]

\* The descriptors of a table that are free, before and after one of them is taken.
LEMMA FreeIs ==
  ASSUME NEW table, IsTable(table)
  PROVE  /\ IsFiniteSet(K!Free(table)) /\ K!Cardinality(K!Free(table)) \in Nat
         /\ \A fd \in K!Free(table) : fd \in UserFds /\ fd \in Nat /\ fd # -1
         /\ \A fd \in K!Free(table) : \A x :
              /\ IsTable([table EXCEPT ![fd] = x])
              /\ [table EXCEPT ![fd] = x][fd] = x
              /\ \A y : [[table EXCEPT ![fd] = x] EXCEPT ![fd] = y] = [table EXCEPT ![fd] = y]
              /\ [[table EXCEPT ![fd] = x] EXCEPT ![fd] = K!Closed] = table
         /\ \A fd \in K!Free(table) : \A x : x # K!Closed =>
              K!Cardinality(K!Free([table EXCEPT ![fd] = x])) = K!Cardinality(K!Free(table)) - 1
<1>1. K!Free(table) = {fd \in UserFds : table[fd] = K!Closed}
  BY DEF K!Free
<1>2. UserFds \subseteq Nat /\ IsFiniteSet(UserFds)
  BY ShellConstants
<1>3. IsFiniteSet(K!Free(table))
  <2>1. K!Free(table) \subseteq UserFds
    BY <1>1
  <2> QED BY <1>2, <2>1, FS_Subset
<1>4. K!Cardinality(K!Free(table)) \in Nat
  BY <1>3, FS_CardinalityType, SameCount
<1>5. \A fd \in K!Free(table) : fd \in UserFds /\ fd \in Nat /\ fd # -1 /\ table[fd] = K!Closed
  <2>1. \A fd \in K!Free(table) : fd \in UserFds /\ table[fd] = K!Closed
    BY <1>1, Zenon
  <2>2. \A fd \in UserFds : fd \in Nat /\ fd # -1
    BY <1>2
  <2> QED BY <2>1, <2>2
<1>6. ASSUME NEW fd \in K!Free(table), NEW x
      PROVE  /\ IsTable([table EXCEPT ![fd] = x])
             /\ [table EXCEPT ![fd] = x][fd] = x
             /\ \A y : [[table EXCEPT ![fd] = x] EXCEPT ![fd] = y] = [table EXCEPT ![fd] = y]
             /\ [[table EXCEPT ![fd] = x] EXCEPT ![fd] = K!Closed] = table
  BY Zenon, <1>5 DEF IsTable
<1>7. ASSUME NEW fd \in K!Free(table), NEW x, x # K!Closed
      PROVE  K!Cardinality(K!Free([table EXCEPT ![fd] = x])) = K!Cardinality(K!Free(table)) - 1
  <2>1. K!Free([table EXCEPT ![fd] = x]) = K!Free(table) \ {fd}
    <3>1. ASSUME NEW e \in UserFds
          PROVE  [table EXCEPT ![fd] = x][e] = K!Closed <=> table[e] = K!Closed /\ e # fd
      BY <1>5, <1>7 DEF IsTable
    <3>2. K!Free([table EXCEPT ![fd] = x]) = {e \in UserFds : [table EXCEPT ![fd] = x][e] = K!Closed}
      BY DEF K!Free
    <3> QED BY Zenon, <1>1, <3>1, <3>2
  <2>2. Cardinality(K!Free(table) \ {fd}) = Cardinality(K!Free(table)) - 1
    BY <1>3, FS_RemoveElement
  <2> QED BY Zenon, <2>1, <2>2, SameCount
<1> QED BY Zenon, <1>3, <1>4, <1>5, <1>6, <1>7

\* One descriptor of a table taken, and given back.
LEMMA TakesOne ==
  ASSUME NEW table, IsTable(table), NEW fd \in K!Free(table), NEW x, x # K!Closed
  PROVE  /\ IsTable([table EXCEPT ![fd] = x])
         /\ K!Cardinality(K!Free([table EXCEPT ![fd] = x])) = K!Cardinality(K!Free(table)) - 1
         /\ [[table EXCEPT ![fd] = x] EXCEPT ![fd] = K!Closed] = table
BY FreeIs

\* open takes a free descriptor, if there is one, and keeps it for a file.
LEMMA OpenIs ==
  ASSUME NEW table, IsTable(table), NEW path
  PROVE  /\ K!Free(table) = {} => K!Open(table, path).fds = table /\ K!Open(table, path).fd = -1
         /\ K!Free(table) # {} =>
              \E fd \in K!Free(table) :
                /\ path \in DOMAIN content =>
                     /\ K!Open(table, path).fds = [table EXCEPT ![fd] = K!At(path, 0)]
                     /\ K!Open(table, path).fd = fd
                /\ path \notin DOMAIN content =>
                     /\ K!Open(table, path).fds = [table EXCEPT ![fd] = K!Lost]
                     /\ K!Open(table, path).fd = -1
<1>1. ASSUME K!Free(table) # {} PROVE \E fd \in K!Free(table) : \A e \in K!Free(table) : fd <= e
  <2>1. K!Free(table) \in SUBSET Nat
    BY FreeIs
  <2> QED BY <1>1, <2>1, LeastNumber
<1> DEFINE fd == CHOOSE d \in K!Free(table) : \A e \in K!Free(table) : d <= e
<1>2. K!Free(table) # {} => fd \in K!Free(table)
  BY <1>1
<1>3. K!Open(table, path) =
        IF K!Free(table) = {} THEN [fds |-> table, fd |-> -1]
        ELSE IF path \in DOMAIN content
             THEN [fds |-> [table EXCEPT ![fd] = K!At(path, 0)], fd |-> fd]
             ELSE [fds |-> [table EXCEPT ![fd] = K!Lost], fd |-> -1]
  BY DEF K!Open
<1> HIDE DEF fd
<1>4. CASE K!Free(table) = {}
  BY <1>3, <1>4
<1>5. CASE K!Free(table) # {}
  <2>1. /\ path \in DOMAIN content =>
             /\ K!Open(table, path).fds = [table EXCEPT ![fd] = K!At(path, 0)]
             /\ K!Open(table, path).fd = fd
        /\ path \notin DOMAIN content =>
             /\ K!Open(table, path).fds = [table EXCEPT ![fd] = K!Lost]
             /\ K!Open(table, path).fd = -1
    <3>1. CASE path \in DOMAIN content
      BY <1>3, <1>5, <3>1
    <3>2. CASE path \notin DOMAIN content
      BY <1>3, <1>5, <3>2
    <3> QED BY <3>1, <3>2
  <2> QED BY Zenon, <1>2, <1>5, <2>1
<1> QED BY Zenon, <1>4, <1>5

\* A descriptor that is taken is not free.
LEMMA TakenIsNotFree ==
  /\ K!Lost # K!Closed
  /\ \A path, place : K!At(path, place) # K!Closed
<1>1. "lost" # "closed" /\ "open" # "closed"
  OBVIOUS
<1>2. K!Lost.state = "lost" /\ K!Closed.state = "closed"
  BY DEF K!Lost, K!Closed
<1>3. \A path, place : K!At(path, place).state = "open"
  BY DEF K!At
<1> QED BY <1>1, <1>2, <1>3

\* What a read or a write reaches.
LEMMA ReachedIs ==
  ASSUME NEW path, NEW N, N = Len(content[path]), N \in Nat, NEW p \in Nat, NEW n \in Nat
  PROVE  /\ K!Reached(path, p, n) \in 0 .. n
         /\ p <= N => p + K!Reached(path, p, n) \in p .. N
         /\ p <= N /\ n # 0 => (K!Reached(path, p, n) = 0 <=> p = N)
         /\ \A i \in 1 .. N : i \in p + 1 .. p + K!Reached(path, p, n) <=> i - p \in 1 .. n
<1>1. K!Reached(path, p, n) = IF p >= N THEN 0 ELSE IF p + n > N THEN N - p ELSE n
  BY DEF K!Reached
<1> QED BY <1>1

\* What edit makes of a file: its text is laid over at some place, its own if that is
\* no negative number.
LEMMA WrittenIs ==
  ASSUME NEW path, content[path] \in Seq(STRING), NEW p \in Int, NEW tx \in Seq(STRING)
  PROVE  /\ K!Written(path, p, tx) \in Seq(STRING)
         /\ p \in Nat => K!Written(path, p, tx) = K!LaidOver(content[path], tx, p)
         /\ \E n \in 0 .. Len(content[path]) :
              K!Written(path, p, tx) = K!LaidOver(content[path], tx, n)
<1> DEFINE N == Len(content[path])
           M == Len(tx)
           f == content[path]
<1>1. /\ N \in Nat /\ DOMAIN f = 1 .. N /\ M \in Nat /\ DOMAIN tx = 1 .. M
      /\ \A i \in 1 .. N : f[i] \in STRING
      /\ \A i \in 1 .. M : tx[i] \in STRING
  <2>1. \A i \in 1 .. N : f[i] \in STRING
    BY ElementOfSeq
  <2>2. \A i \in 1 .. M : tx[i] \in STRING
    BY ElementOfSeq
  <2> QED BY <2>1, <2>2, LenProperties
<1>2. ASSUME p \in Nat
      PROVE  \A i \in 1 .. N : i \in p + 1 .. p + K!Reached(path, p, M) <=> i - p \in 1 .. M
  BY Zenon, <1>1, <1>2, ReachedIs
<1>3. K!Written(path, p, tx) =
        [i \in DOMAIN f |-> IF i \in p + 1 .. p + K!Reached(path, p, M) THEN tx[i - p] ELSE f[i]]
  BY DEF K!Written
<1>4. ~(p \in 0 .. N) => K!Reached(path, p, M) = 0
  BY <1>1 DEF K!Reached
<1>5. \A n : K!LaidOver(f, tx, n) = [i \in DOMAIN f |-> IF i - n \in DOMAIN tx THEN tx[i - n] ELSE f[i]]
  BY DEF K!LaidOver
<1> HIDE DEF N, M, f
<1>6. ASSUME NEW n \in Nat PROVE K!LaidOver(f, tx, n) \in Seq(STRING)
  <2> DEFINE g == [i \in 1 .. N |-> IF i - n \in 1 .. M THEN tx[i - n] ELSE f[i]]
  <2>1. \A i \in 1 .. N : (IF i - n \in 1 .. M THEN tx[i - n] ELSE f[i]) \in STRING
    BY <1>1
  <2>2. g \in [1 .. N -> STRING]
    BY <2>1
  <2>3. K!LaidOver(f, tx, n) = g
    BY <1>1, <1>5
  <2> HIDE DEF g
  <2> QED BY <1>1, <2>2, <2>3
<1>7. CASE p \in 0 .. N
  <2>1. p \in Nat /\ K!Written(path, p, tx) = K!LaidOver(f, tx, p)
    BY <1>1, <1>2, <1>3, <1>5, <1>7
  <2> QED BY <1>6, <1>7, <2>1 DEF f, N
<1>8. CASE ~(p \in 0 .. N)
  <2>1. /\ K!Written(path, p, tx) = K!LaidOver(f, tx, N)
        /\ p \in Nat => K!LaidOver(f, tx, p) = K!LaidOver(f, tx, N)
    <3>1. \A i \in 1 .. N : i \notin p + 1 .. p + K!Reached(path, p, M)
      BY <1>4, <1>8
    <3>2. \A i \in 1 .. N : i - N \notin 1 .. M /\ (p \in Nat => i - p \notin 1 .. M)
      BY <1>1, <1>8
    <3>3. K!Written(path, p, tx) = [i \in 1 .. N |-> f[i]]
      BY <1>1, <1>3, <3>1
    <3>4. K!LaidOver(f, tx, N) = [i \in 1 .. N |-> f[i]]
      BY <1>1, <1>5, <3>2
    <3>5. p \in Nat => K!LaidOver(f, tx, p) = [i \in 1 .. N |-> f[i]]
      BY <1>1, <1>5, <3>2
    <3> QED BY <3>3, <3>4, <3>5
  <2>2. N \in 0 .. N /\ K!LaidOver(f, tx, N) \in Seq(STRING)
    BY <1>1, <1>6
  <2> QED BY <2>1, <2>2 DEF f, N
<1> QED BY <1>7, <1>8

-----------------------------------------------------------------------------
(* What the shell keeps                                                    *)

\* What the assumption says of a script.
IsScript(s) ==
  /\ s \in Seq(STRING \ {"BS", K!Unseen})
  /\ \A n \in DOMAIN s : s[n] = K!CR => K!QuotesClose(K!CString(K!Edited(s)[n - 1]))

\* What cat shows of the first p characters of a text.
Shown(tx, p) == [i \in 1 .. p |-> K!Visible(tx[i])]

\* The keys that were typed made the line.
Keying ==
  \E s : IsScript(s) /\ \E n \in 0 .. Len(s) :
    /\ keys = SubSeq(s, n + 1, Len(s))
    /\ K!Edited(s)[n] = IF doing = "read" THEN line ELSE <<>>

\* The line is a text, and no quote of a line that is run is left open.
Lined ==
  /\ line \in Seq(STRING) /\ doing \in {"read", "parse", "cat", "prompt"}
  /\ doing # "read" => K!QuotesClose(line)

\* The files are texts, and the descriptors a table, now and before the command.
Filed ==
  /\ content = [path \in DOMAIN Volume |-> content[path]]
  /\ \A path \in DOMAIN Volume : content[path] \in Seq(STRING)
  /\ IsTable(fds) /\ IsTable(before.fds)

\* The screen shows the line that is typed, if all of it could be shown.
Echoed ==
  doing = "read" => /\ shown \in Seq(Signs)
                    /\ ~K!Contains(shown, K!Unseen) => Shows(Screen(shown), line)

\* When a command begins, nothing is written yet and the history is the present.
Begun == doing = "parse" => shown = <<>> /\ before = [content |-> content, fds |-> fds]

\* cat has shown the first p characters of the file, and its descriptor is behind them.
CatAt(name, p) ==
  /\ p \in 0 .. Len(content[name]) /\ cat.fd \in K!Free(before.fds)
  /\ cat = [fd |-> cat.fd, last_char |-> cat.last_char]
  /\ fds = [before.fds EXCEPT ![cat.fd] = K!At(name, p)]
  /\ shown = Shown(content[name], p)
  /\ p # 0 => cat.last_char = content[name][p]

\* cat reads the file of its first word, through a descriptor that was free.
Catting ==
  doing = "cat" => /\ line # <<>> /\ Head(line) = "cat" /\ before.content = content
                   /\ K!Word(1) \in DOMAIN content
                   /\ \E p : CatAt(K!Word(1), p)

\* The strengthening of ShellObeys.
ShellInv == Keying /\ Lined /\ Filed /\ Echoed /\ Begun /\ Catting /\ K!CommandDone

\* Every script is one, and so is the empty one.
LEMMA ScriptsAre ==
  IsScript(<<>>) /\ \A s \in Scripts : IsScript(s)
<1>1. <<>> \in Seq(STRING \ {"BS", K!Unseen}) /\ DOMAIN <<>> = {}
  BY EmptySeq
<1>2. IsScript(<<>>)
  BY <1>1 DEF IsScript
<1>3. \A s \in Scripts : IsScript(s)
  BY ShellConstants DEF IsScript
<1> QED BY <1>2, <1>3

\* The next key of a script, and the line behind it.
LEMMA KeyIs ==
  ASSUME NEW s, IsScript(s), NEW n \in 0 .. Len(s), SubSeq(s, n + 1, Len(s)) # <<>>
  PROVE  /\ n \in Nat /\ n + 1 \in 0 .. Len(s) /\ s[n + 1] \in STRING
         /\ s[n + 1] # "BS" /\ s[n + 1] # K!Unseen
         /\ Head(SubSeq(s, n + 1, Len(s))) = s[n + 1]
         /\ Tail(SubSeq(s, n + 1, Len(s))) = SubSeq(s, (n + 1) + 1, Len(s))
         /\ K!Edited(s)[n + 1] = Keyed(K!Edited(s)[n], s[n + 1])
         /\ s[n + 1] = K!CR => K!QuotesClose(K!CString(K!Edited(s)[n]))
<1> DEFINE N == Len(s)
<1>1. s \in Seq(STRING \ {"BS", K!Unseen}) /\ N \in Nat /\ DOMAIN s = 1 .. N
  BY LenProperties DEF IsScript
<1>2. n < N
  <2> SUFFICES ASSUME ~(n < N) PROVE FALSE
    OBVIOUS
  <2>1. n + 1 \in Int /\ N \in Int /\ N < n + 1
    BY <1>1
  <2>2. SubSeq(s, n + 1, N) = <<>>
    <3> HIDE DEF N
    <3> QED BY <2>1, SubSeqEmpty
  <2> QED BY <2>2
<1>3. n + 1 \in 1 .. N /\ N \in n + 1 .. N /\ (n + 1) - 1 = n /\ n \in Nat /\ n + 1 \in 0 .. N
  <2> HIDE DEF N
  <2> QED BY <1>1, <1>2
<1>4. s[n + 1] \in STRING \ {"BS", K!Unseen}
  BY <1>1, <1>3, ElementOfSeq
<1>5. /\ Head(SubSeq(s, n + 1, N)) = s[n + 1]
      /\ Tail(SubSeq(s, n + 1, N)) = SubSeq(s, (n + 1) + 1, N)
  BY <1>1, <1>3, HeadTailOfSubSeq
<1>6. K!Edited(s)[n + 1] = Keyed(K!Edited(s)[n], s[n + 1])
  BY Zenon, <1>1, <1>3, EditedIs
<1>7. s[n + 1] = K!CR => K!QuotesClose(K!CString(K!Edited(s)[n]))
  BY <1>1, <1>3 DEF IsScript
<1> QED BY <1>3, <1>4, <1>5, <1>6, <1>7

\* What cat shows grows with each read.
LEMMA ShownGrows ==
  ASSUME NEW tx \in Seq(STRING), NEW p \in 0 .. Len(tx), NEW n \in Nat, p + n \in p .. Len(tx)
  PROVE  LET chunk == SubSeq(tx, p + 1, p + n) IN
         /\ Shown(tx, 0) = <<>>
         /\ Shown(tx, p) \o [i \in 1 .. n |-> IF chunk[i] = K!NUL THEN "x" ELSE K!PrintedChar(chunk[i])]
              = Shown(tx, p + n)
         /\ Shown(tx, p) \in Seq(Signs)
         /\ n # 0 => K!Last(chunk) = tx[p + n]
<1> DEFINE N == Len(tx)
           chunk == SubSeq(tx, p + 1, p + n)
           more == [i \in 1 .. n |-> IF chunk[i] = K!NUL THEN "x" ELSE K!PrintedChar(chunk[i])]
<1>1. N \in Nat /\ p \in Nat /\ p + n \in 0 .. N /\ (p + n) - p = n /\ p <= p + n /\ p <= N
  <2>1. N \in Nat /\ p \in 0 .. N /\ p + n \in p .. N
    BY LenProperties
  <2> HIDE DEF N
  <2> QED BY <2>1
<1>2. Len(chunk) = n /\ \A i \in 1 .. n : chunk[i] = tx[p + i]
  <2> DEFINE e == p + n
  <2>1. e \in 0 .. Len(tx) /\ e - p = n /\ p <= e
    BY <1>1
  <2> HIDE DEF e
  <2>2. /\ Len(SubSeq(tx, p + 1, e)) = IF p <= e THEN e - p ELSE 0
        /\ \A i \in 1 .. e - p : SubSeq(tx, p + 1, e)[i] = tx[p + i]
    BY <1>1, <2>1, PartOf
  <2> QED BY <2>1, <2>2 DEF e
<1>3. \A i \in 1 .. N : K!Visible(tx[i]) \in Signs
  <2>1. \A i \in 1 .. N : tx[i] \in STRING
    BY ElementOfSeq
  <2>2. "x" \in Signs /\ K!Unseen \in Signs /\ STRING \subseteq Signs
    BY Zenon DEF Signs
  <2> QED BY Zenon, <2>1, <2>2 DEF K!Visible
<1>4. ASSUME NEW m \in 0 .. N
      PROVE  Shown(tx, m) \in Seq(Signs) /\ Len(Shown(tx, m)) = m
             /\ \A i \in 1 .. m : Shown(tx, m)[i] = K!Visible(tx[i])
  <2>1. m \in Nat /\ \A i \in 1 .. m : i \in 1 .. N
    BY <1>1
  <2>2. Shown(tx, m) \in [1 .. m -> Signs]
    <3>1. \A i \in 1 .. m : K!Visible(tx[i]) \in Signs
      BY <1>3, <2>1
    <3> QED BY <3>1 DEF Shown
  <2>3. Shown(tx, m) \in Seq(Signs)
    BY <2>1, <2>2
  <2>4. Len(Shown(tx, m)) = m
    BY <2>1 DEF Shown
  <2>5. \A i \in 1 .. m : Shown(tx, m)[i] = K!Visible(tx[i])
    BY DEF Shown
  <2> QED BY <2>3, <2>4, <2>5
<1>5. Shown(tx, 0) = <<>>
  <2>1. 0 \in 0 .. N
    BY <1>1
  <2>2. Shown(tx, 0) \in Seq(Signs) /\ Len(Shown(tx, 0)) = 0
    BY <1>4, <2>1
  <2> QED BY <2>2, EmptySeq
<1>6. more \in Seq(Signs) /\ Len(more) = n /\ \A i \in 1 .. n : more[i] = K!Visible(tx[p + i])
  <2>1. \A i \in 1 .. n : p + i \in 1 .. N
    BY <1>1
  <2>2. more = [i \in 1 .. n |-> K!Visible(tx[p + i])]
    <3>1. \A ch : (IF ch = K!NUL THEN "x" ELSE K!PrintedChar(ch)) = K!Visible(ch)
      BY Zenon DEF K!Visible, K!PrintedChar
    <3> HIDE DEF chunk
    <3> QED BY <1>2, <3>1
  <2> HIDE DEF more, N
  <2>3. more \in [1 .. n -> Signs]
    BY Zenon, <1>3, <2>1, <2>2
  <2>4. Len(more) = n /\ \A i \in 1 .. n : more[i] = K!Visible(tx[p + i])
    BY <2>2
  <2> QED BY <2>3, <2>4
<1> HIDE DEF N, more
<1>7. Shown(tx, p) \o more = Shown(tx, p + n)
  <2>1. /\ Shown(tx, p) \in Seq(Signs) /\ Len(Shown(tx, p)) = p
        /\ \A i \in 1 .. p : Shown(tx, p)[i] = K!Visible(tx[i])
    BY <1>4 DEF N
  <2>2. /\ Shown(tx, p + n) \in Seq(Signs) /\ Len(Shown(tx, p + n)) = p + n
        /\ \A i \in 1 .. p + n : Shown(tx, p + n)[i] = K!Visible(tx[i])
    BY <1>1, <1>4
  <2>3. /\ Shown(tx, p) \o more \in Seq(Signs) /\ Len(Shown(tx, p) \o more) = p + n
        /\ \A i \in 1 .. p + n : (Shown(tx, p) \o more)[i] =
                                   IF i <= p THEN Shown(tx, p)[i] ELSE more[i - p]
    <3> DEFINE u == Shown(tx, p)
    <3>1. u \in Seq(Signs) /\ Len(u) = p
      BY <2>1
    <3> HIDE DEF u
    <3>2. /\ u \o more \in Seq(Signs) /\ Len(u \o more) = Len(u) + Len(more)
          /\ \A i \in 1 .. Len(u) + Len(more) :
               (u \o more)[i] = IF i <= Len(u) THEN u[i] ELSE more[i - Len(u)]
      BY Zenon, <1>6, <3>1, ConcatProperties
    <3> QED BY <1>6, <3>1, <3>2 DEF u
  <2>4. ASSUME NEW i \in 1 .. p + n PROVE (Shown(tx, p) \o more)[i] = Shown(tx, p + n)[i]
    <3>1. CASE i <= p
      <4>1. i \in 1 .. p
        BY <1>1, <3>1
      <4> QED BY Zenon, <2>1, <2>2, <2>3, <3>1, <4>1
    <3>2. CASE ~(i <= p)
      <4>1. i - p \in 1 .. n /\ p + (i - p) = i
        BY <1>1, <3>2
      <4> QED BY <1>6, <2>2, <2>3, <3>2, <4>1
    <3> QED BY Zenon, <3>1, <3>2
  <2> QED BY Zenon, <2>2, <2>3, <2>4, SeqEqual
<1>8. n # 0 => K!Last(chunk) = tx[p + n]
  <2> HIDE DEF chunk
  <2> QED BY <1>2 DEF K!Last
<1>9. Shown(tx, p) \in Seq(Signs)
  BY <1>4 DEF N
<1> QED BY Zenon, <1>5, <1>7, <1>8, <1>9 DEF more

\* The words are those of the line.
LEMMA WordsKeep ==
  ASSUME line' = line
  PROVE  /\ K!Word(1)' = K!Word(1) /\ K!Word(2)' = K!Word(2)
         /\ K!Phrase(1)' = K!Phrase(1) /\ K!Phrase(3)' = K!Phrase(3)
<1>1. K!Rest' = K!Rest
  BY DEF K!Rest
<1>2. K!WordStarts' = K!WordStarts
  BY <1>1 DEF K!WordStarts
<1>3. K!Word(1)' = K!Word(1) /\ K!Word(2)' = K!Word(2) /\ K!Word(3)' = K!Word(3)
  BY <1>1, <1>2 DEF K!Word
<1>4. K!Phrase(1)' = K!Phrase(1) /\ K!Phrase(3)' = K!Phrase(3)
  BY <1>1, <1>2, <1>3 DEF K!Phrase
<1> QED BY <1>3, <1>4

\* So are the places they name.
LEMMA PlacesKeep ==
  ASSUME line' = line, before' = before
  PROVE  K!EditPlaces' = K!EditPlaces
<1>1. K!Word(1)' = K!Word(1) /\ K!Word(2)' = K!Word(2)
  BY WordsKeep
<1>2. (K!IsNumeral(K!Word(2)))' <=> K!IsNumeral(K!Word(2))
  BY <1>1 DEF K!IsNumeral, K!Contains, K!Digits
<1>3. (K!NumberOf(K!Word(2)))' = K!NumberOf(K!Word(2))
  BY <1>1
<1> QED BY <1>1, <1>2, <1>3 DEF K!EditPlaces

\* A step that takes no key and leaves the line leaves what was typed.
LEMMA KeyingKeeps ==
  ASSUME Keying, keys' = keys,
         (IF doing' = "read" THEN line' ELSE <<>>) = (IF doing = "read" THEN line ELSE <<>>)
  PROVE  Keying'
BY DEF Keying

\* The shell begins as it keeps on.
LEMMA ShellInit ==
  ASSUME LibraryInit
  PROVE  ShellInv
<1>1. PICK script : IsScript(script) /\ K!Start(script)
  <2>1. (\E script \in Scripts : K!Start(script)) \/ K!Start(<<>>)
    BY DEF LibraryInit, K!Init
  <2> QED BY <2>1, ScriptsAre
<1>2. /\ keys = script /\ line = <<>> /\ shown = <<>> /\ doing = "read"
      /\ content = Volume /\ fds = [fd \in UserFds |-> K!Closed]
      /\ before = [content |-> content, fds |-> fds]
  BY <1>1 DEF K!Start
<1>3. Keying
  <2>1. script \in Seq(STRING \ {"BS", K!Unseen}) /\ Len(script) \in Nat
    BY <1>1, LenProperties DEF IsScript
  <2>2. SubSeq(script, 0 + 1, Len(script)) = script /\ 0 \in 0 .. Len(script)
    <3>1. 0 + 1 = 1
      OBVIOUS
    <3> QED BY <2>1, <3>1, SubSeqFull
  <2>3. K!Edited(script)[0] = <<>>
    BY <2>1, EditedIs
  <2> QED BY <1>1, <1>2, <2>2, <2>3 DEF Keying
<1>4. Lined
  <2>1. line \in Seq(STRING)
    BY <1>2, EmptySeq
  <2> QED BY <1>2, <2>1 DEF Lined
<1>5. Filed
  <2>1. content = [path \in DOMAIN Volume |-> content[path]]
    <3>1. Volume \in [DOMAIN Volume -> Seq(STRING)]
      BY ShellConstants
    <3> QED BY <1>2, <3>1
  <2>2. \A path \in DOMAIN Volume : content[path] \in Seq(STRING)
    BY <1>2, ShellConstants
  <2>3. IsTable(fds) /\ IsTable(before.fds)
    BY <1>2 DEF IsTable
  <2> QED BY <2>1, <2>2, <2>3 DEF Filed
<1>6. Echoed
  <2>1. shown \in Seq(Signs) /\ Screen(shown) = Blank
    BY <1>2, EmptySeq, ScreenGrows
  <2> QED BY <1>2, <2>1, ShowsNothing DEF Echoed
<1>7. Begun /\ Catting /\ K!CommandDone
  BY <1>2 DEF Begun, Catting, K!CommandDone
<1> QED BY <1>3, <1>4, <1>5, <1>6, <1>7 DEF ShellInv

\* What a text holds, it holds with one character more, which it holds too.
LEMMA ContainsMore ==
  ASSUME NEW sh \in Seq(Signs), NEW ch \in Signs, NEW x
  PROVE  K!Contains(sh, x) \/ ch = x => K!Contains(Append(sh, ch), x)
<1> DEFINE t == Append(sh, ch)
           N == Len(sh)
<1>1. /\ N \in Nat /\ Len(t) = N + 1 /\ t[N + 1] = ch
      /\ \A i \in 1 .. N : t[i] = sh[i]
  BY AppendIs
<1> HIDE DEF t
<1>2. K!Contains(t, x) <=> \E i \in 1 .. N + 1 : t[i] = x
  BY <1>1 DEF K!Contains
<1>3. K!Contains(sh, x) <=> \E i \in 1 .. N : sh[i] = x
  BY DEF K!Contains
<1> HIDE DEF N
<1> QED BY <1>1, <1>2, <1>3 DEF t

\* A C string is a text.
LEMMA CStringIs ==
  ASSUME NEW s \in Seq(STRING)
  PROVE  K!CString(s) \in Seq(STRING)
<1>1. K!Run(s, K!NUL, FALSE) \in 0 .. Len(s)
  BY OthersAre
<1>2. 0 \in Nat /\ 0 + 1 = 1
  OBVIOUS
<1>3. SubSeq(s, 0 + 1, K!Run(s, K!NUL, FALSE)) \in Seq(STRING)
  BY <1>1, <1>2, PartOf
<1> QED BY <1>2, <1>3 DEF K!CString

\* A key that is typed.
LEMMA ReadKeyKeeps ==
  ASSUME ShellInv, K!ReadKey
  PROVE  ShellInv'
<1>1. PICK s : IsScript(s) /\ \E n \in 0 .. Len(s) :
        /\ keys = SubSeq(s, n + 1, Len(s))
        /\ K!Edited(s)[n] = IF doing = "read" THEN line ELSE <<>>
  BY Zenon DEF ShellInv, Keying
<1>2. PICK n \in 0 .. Len(s) :
        /\ keys = SubSeq(s, n + 1, Len(s))
        /\ K!Edited(s)[n] = IF doing = "read" THEN line ELSE <<>>
  BY <1>1
<1> DEFINE key == s[n + 1]
<1>3. /\ doing = "read" /\ keys # <<>> /\ keys' = Tail(keys)
      /\ UNCHANGED <<content, fds, cat>>
  BY DEF K!ReadKey
<1>4. /\ n \in Nat /\ n + 1 \in 0 .. Len(s) /\ key \in STRING /\ key # "BS"
      /\ Head(keys) = key /\ Tail(keys) = SubSeq(s, (n + 1) + 1, Len(s))
      /\ K!Edited(s)[n + 1] = Keyed(line, key)
      /\ key = K!CR => K!QuotesClose(K!CString(line))
      /\ key # K!Unseen
  BY Zenon, <1>1, <1>2, <1>3, KeyIs
<1>5. \/ /\ key = K!DEL
         /\ IF line # <<>> THEN K!Erase ELSE UNCHANGED <<line, shown>>
         /\ UNCHANGED <<doing, before>>
      \/ /\ key = K!CR
         /\ shown' = <<>> /\ doing' = "parse"
         /\ before' = [content |-> content, fds |-> fds]
         /\ line' = K!CString(line)
      \/ /\ key \notin {K!DEL, K!CR}
         /\ line' = Append(line, key) /\ shown' = Append(shown, K!PrintedChar(key))
         /\ UNCHANGED <<doing, before>>
  BY <1>4 DEF K!ReadKey
<1> HIDE DEF key
<1>6. /\ line \in Seq(STRING) /\ shown \in Seq(Signs)
      /\ ~K!Contains(shown, K!Unseen) => Shows(Screen(shown), line)
  BY <1>3 DEF ShellInv, Lined, Echoed
<1>7. /\ line \in Seq(Signs) /\ key \in Signs /\ key \in Signs \ {"BS", K!Unseen}
      /\ "BS" \in Signs /\ " " \in Signs /\ K!PrintedChar(key) \in Signs
  <2>1. STRING \subseteq Signs /\ "BS" \in Signs /\ " " \in Signs
    BY Zenon DEF Signs
  <2>2. line \in Seq(Signs)
    BY Zenon, <1>6, <2>1, SeqWider
  <2>3. K!Unseen \in Signs /\ key \in Signs
    <3>1. K!Unseen \in Signs
      BY Zenon DEF Signs
    <3> QED BY Zenon, <1>4, <2>1, <3>1
  <2> QED BY Zenon, <1>4, <2>1, <2>2, <2>3 DEF K!PrintedChar
<1>8. K!CR # K!DEL
  BY DEF K!CR, K!DEL
<1>9. Filed' <=> IsTable(before'.fds)
  <2>1. Filed
    BY DEF ShellInv
  <2> QED BY <1>3, <2>1 DEF Filed, IsTable
<1>10. IsTable(fds) /\ IsTable(before.fds)
  BY DEF ShellInv, Filed
<1>11. ASSUME (IF doing' = "read" THEN line' ELSE <<>>) = Keyed(line, key) PROVE Keying'
  <2>1. /\ keys' = SubSeq(s, (n + 1) + 1, Len(s))
        /\ K!Edited(s)[n + 1] = IF doing' = "read" THEN line' ELSE <<>>
    BY <1>3, <1>4, <1>11
  <2>2. \E m \in 0 .. Len(s) :
          /\ keys' = SubSeq(s, m + 1, Len(s))
          /\ K!Edited(s)[m] = IF doing' = "read" THEN line' ELSE <<>>
    BY <1>4, <2>1
  <2> QED BY <1>1, <2>2 DEF Keying
<1>12. ASSUME doing' = "read", before' = before,
              line' = Keyed(line, key), line' \in Seq(STRING),
              shown' \in Seq(Signs),
              ~K!Contains(shown', K!Unseen) => Shows(Screen(shown'), line')
       PROVE  ShellInv'
  <2>1. Keying'
    BY <1>11, <1>12
  <2>2. Lined'
    BY <1>12 DEF Lined
  <2>3. Filed'
    BY <1>9, <1>10, <1>12
  <2>4. Echoed'
    BY Zenon, <1>12 DEF Echoed, Screen, Screens, Typed, Blank, K!Contains, K!Unseen
  <2>5. Begun' /\ Catting' /\ K!CommandDone'
    BY <1>12 DEF Begun, Catting, K!CommandDone
  <2> QED BY <2>1, <2>2, <2>3, <2>4, <2>5 DEF ShellInv
<1>13. CASE key = K!DEL /\ line = <<>>
  <2>1. UNCHANGED <<line, shown>> /\ UNCHANGED <<doing, before>>
    BY <1>5, <1>8, <1>13
  <2>2. line' = Keyed(line, key)
    BY <1>8, <1>13, <2>1 DEF Keyed
  <2> QED BY Zenon, <1>3, <1>6, <1>12, <2>1, <2>2
<1>14. CASE key = K!DEL /\ line # <<>>
  <2>1. /\ shown' = shown \o <<"BS", " ", "BS">> /\ line' = K!Front(line)
        /\ UNCHANGED <<doing, before>>
    BY Zenon, <1>5, <1>8, <1>14 DEF K!Erase
  <2>2. line' = Keyed(line, key) /\ line' \in Seq(STRING)
    BY Zenon, <1>6, <1>8, <1>14, <2>1, FrontIs DEF Keyed
  <2>4. shown' \in Seq(Signs) /\ (~K!Contains(shown', K!Unseen) => ~K!Contains(shown, K!Unseen))
    <3> DEFINE a == Append(shown, "BS")
               b == Append(a, " ")
    <3>1. \A x, y \in Signs : Append(Append(Append(shown, x), y), x) = shown \o <<x, y, x>>
      BY <1>6, ThreeMore
    <3>2. Append(b, "BS") = shown \o <<"BS", " ", "BS">>
      BY <1>7, <3>1, Zenon
    <3>3. a \in Seq(Signs)
      BY Zenon, <1>6, <1>7, AppendProperties
    <3> HIDE DEF a
    <3>4. b \in Seq(Signs)
      BY Zenon, <1>7, <3>3, AppendProperties
    <3> HIDE DEF b
    <3>5. Append(b, "BS") \in Seq(Signs)
      BY Zenon, <1>7, <3>4, AppendProperties
    <3>6. K!Contains(b, K!Unseen) => K!Contains(Append(b, "BS"), K!Unseen)
      BY <1>7, <3>4, ContainsMore
    <3>7. K!Contains(a, K!Unseen) => K!Contains(b, K!Unseen)
      BY <1>7, <3>3, ContainsMore DEF b
    <3>8. K!Contains(shown, K!Unseen) => K!Contains(a, K!Unseen)
      BY <1>6, <1>7, ContainsMore DEF a
    <3> QED BY Zenon, <2>1, <3>2, <3>5, <3>6, <3>7, <3>8
  <2>3. ~K!Contains(shown', K!Unseen) => Shows(Screen(shown'), line')
    BY Zenon, <1>6, <1>7, <1>14, <2>1, <2>4, ScreenShows
  <2> QED BY Zenon, <1>3, <1>12, <2>1, <2>2, <2>3, <2>4
<1>15. CASE key \notin {K!DEL, K!CR}
  <2>1. /\ line' = Append(line, key) /\ shown' = Append(shown, K!PrintedChar(key))
        /\ UNCHANGED <<doing, before>>
    BY <1>5, <1>15
  <2>2. line' = Keyed(line, key)
    BY <1>15, <2>1 DEF Keyed
  <2>3. line' \in Seq(STRING) /\ shown' \in Seq(Signs)
    BY Zenon, <1>4, <1>6, <1>7, <2>1, AppendProperties
  <2>4. ASSUME ~K!Contains(shown', K!Unseen) PROVE Shows(Screen(shown'), line')
    <3>1. ~K!Contains(shown, K!Unseen) /\ K!PrintedChar(key) # K!Unseen
      BY <1>6, <1>7, <2>1, <2>4, ContainsMore
    <3>2. K!PrintedChar(key) = key
      BY <3>1 DEF K!PrintedChar
    <3> QED BY Zenon, <1>6, <1>7, <2>1, <3>1, <3>2, ScreenShows
  <2> QED BY <1>3, <1>12, <2>1, <2>2, <2>3, <2>4
<1>16. CASE key = K!CR
  <2>1. /\ shown' = <<>> /\ doing' = "parse" /\ line' = K!CString(line)
        /\ before' = [content |-> content, fds |-> fds]
    BY <1>5, <1>8, <1>16
  <2>2. Keying'
    BY <1>11, <1>16, <2>1 DEF Keyed
  <2>3. Lined'
    <3>1. K!CString(line) \in Seq(STRING)
      BY <1>6, CStringIs
    <3> QED BY <1>4, <1>16, <2>1, <3>1 DEF Lined
  <2>4. Filed'
    BY <1>9, <1>10, <2>1
  <2>5. Echoed' /\ Begun' /\ Catting' /\ K!CommandDone'
    BY <1>3, <2>1 DEF Echoed, Begun, Catting, K!CommandDone
  <2> QED BY <2>2, <2>3, <2>4, <2>5 DEF ShellInv
<1> QED BY <1>5, <1>13, <1>14, <1>15, <1>16

\* What the words of the line say of the files, the descriptors and the screen.
Told(files, table, sh) ==
  /\ IF K!Found /\ Head(line) = "edit"
     THEN \E n \in K!EditPlaces :
            files = [before.content EXCEPT ![K!Word(1)] =
                       K!LaidOver(before.content[K!Word(1)], K!Phrase(3), n)]
     ELSE files = before.content
  /\ K!Cardinality(K!Free(table)) =
       K!Cardinality(K!Free(before.fds)) - (IF K!Opens /\ ~K!Found THEN 1 ELSE 0)
  /\ line # <<>> /\ Head(line) = "echo" /\ ~K!Contains(K!Phrase(1), K!Percent) =>
       sh = Append(K!Phrase(1), K!LF)
  /\ K!Found /\ Head(line) = "cat" =>
       sh \in {Shown(files[K!Word(1)], Len(files[K!Word(1)])) \o end : end \in
                 IF files[K!Word(1)] = <<>> THEN {<<>>, <<"$", K!LF>>}
                 ELSE IF K!Last(files[K!Word(1)]) = K!LF THEN {<<>>} ELSE {<<"$", K!LF>>}}

\* A command that is over and did what it was told.
LEMMA CommandEnds ==
  ASSUME ShellInv, doing # "read", doing' = "prompt", UNCHANGED <<keys, line, before>>,
         content' = [path \in DOMAIN Volume |-> content'[path]],
         \A path \in DOMAIN Volume : content'[path] \in Seq(STRING),
         IsTable(fds'), Told(content', fds', shown')
  PROVE  ShellInv'
<1>1. Keying'
  BY KeyingKeeps DEF ShellInv
<1>2. Lined'
  BY DEF ShellInv, Lined
<1>3. Filed'
  <2>1. IsTable(before'.fds)
    BY DEF ShellInv, Filed
  <2> QED BY <2>1 DEF Filed, IsTable
<1>4. Echoed' /\ Begun' /\ Catting'
  BY DEF Echoed, Begun, Catting
<1>5. K!CommandDone'
  <2>1. /\ K!Word(1)' = K!Word(1) /\ K!Word(2)' = K!Word(2)
        /\ K!Phrase(1)' = K!Phrase(1) /\ K!Phrase(3)' = K!Phrase(3)
    BY WordsKeep
  <2>2. DOMAIN content' = DOMAIN Volume /\ DOMAIN content = DOMAIN Volume
    BY DEF ShellInv, Filed
  <2>3. K!Opens' = K!Opens /\ K!Found' = K!Found
    BY <2>1, <2>2 DEF K!Opens, K!Found, K!Free
  <2>4. IF K!Found' /\ Head(line') = "edit"
        THEN \E n \in K!EditPlaces' :
               content' = [before'.content EXCEPT ![K!Word(1)'] =
                            K!LaidOver(before'.content[K!Word(1)'], K!Phrase(3)', n)]
        ELSE content' = before'.content
    BY <2>1, <2>3, PlacesKeep DEF Told
  <2>5. K!Cardinality(K!Free(fds')) =
          K!Cardinality(K!Free(before'.fds)) - (IF K!Opens' /\ ~K!Found' THEN 1 ELSE 0)
    BY <2>3 DEF Told
  <2>6. line' # <<>> /\ Head(line') = "echo" /\ ~K!Contains(K!Phrase(1)', K!Percent) =>
          shown' = Append(K!Phrase(1)', K!LF)
    BY <2>1 DEF Told
  <2>7. ASSUME K!Found', Head(line') = "cat"
        PROVE  LET tx == content'[K!Word(1)']
                   visible == [i \in DOMAIN tx |-> K!Visible(tx[i])]
               IN shown' \in {visible \o end : end \in
                    IF tx = <<>> THEN {<<>>, <<"$", K!LF>>}
                    ELSE IF K!Last(tx) = K!LF THEN {<<>>} ELSE {<<"$", K!LF>>}}
    <3> DEFINE tx == content'[K!Word(1)]
    <3>1. K!Word(1) \in DOMAIN Volume
      BY <2>2, <2>3, <2>7 DEF K!Found
    <3>2. DOMAIN tx = 1 .. Len(tx)
      BY <3>1, LenProperties
    <3>3. shown' \in {Shown(tx, Len(tx)) \o end : end \in
                        IF tx = <<>> THEN {<<>>, <<"$", K!LF>>}
                        ELSE IF K!Last(tx) = K!LF THEN {<<>>} ELSE {<<"$", K!LF>>}}
      BY Zenon, <2>3, <2>7 DEF Told
    <3> HIDE DEF tx
    <3>4. Shown(tx, Len(tx)) = [i \in DOMAIN tx |-> K!Visible(tx[i])]
      BY <3>2 DEF Shown, K!Visible
    <3>5. shown' \in {[i \in DOMAIN tx |-> K!Visible(tx[i])] \o end : end \in
                        IF tx = <<>> THEN {<<>>, <<"$", K!LF>>}
                        ELSE IF K!Last(tx) = K!LF THEN {<<>>} ELSE {<<"$", K!LF>>}}
      BY Zenon, <3>3, <3>4
    <3> QED BY Zenon, <2>1, <3>5 DEF tx
  <2>8. (IF K!Found /\ Head(line) = "edit"
         THEN \E n \in K!EditPlaces :
                content = [before.content EXCEPT ![K!Word(1)] =
                             K!LaidOver(before.content[K!Word(1)], K!Phrase(3), n)]
         ELSE content = before.content)'
    BY <2>4 DEF K!LaidOver
  <2>9. (K!Cardinality(K!Free(fds)) =
          K!Cardinality(K!Free(before.fds)) - (IF K!Opens /\ ~K!Found THEN 1 ELSE 0))'
    BY <2>5
  <2>10. (line # <<>> /\ Head(line) = "echo" /\ ~K!Contains(K!Phrase(1), K!Percent) =>
            shown = Append(K!Phrase(1), K!LF))'
    BY <2>6 DEF K!Contains, K!Percent, K!LF
  <2>11. (K!Found /\ Head(line) = "cat" =>
         LET tx == content[K!Word(1)]
             visible == [i \in DOMAIN tx |-> K!Visible(tx[i])]
         IN shown \in {visible \o end : end \in
              IF tx = <<>> THEN {<<>>, <<"$", K!LF>>}
              ELSE IF K!Last(tx) = K!LF THEN {<<>>} ELSE {<<"$", K!LF>>}})'
    BY Zenon, <2>7
  <2> QED BY Zenon, <2>8, <2>9, <2>10, <2>11 DEF K!CommandDone
<1> QED BY <1>1, <1>2, <1>3, <1>4, <1>5 DEF ShellInv

\* The words of a line that a command runs.
LEMMA WordsAre ==
  ASSUME Lined, doing # "read", line # <<>>
  PROVE  LET r == Tail(line)
             s1 == K!SkipSpaces(r)
             name == K!GetParam(s1)
             s2 == K!SkipSpaces(K!Drop(s1, Len(name)))
             place == K!GetParam(s2)
             s3 == K!SkipSpaces(K!Drop(s2, Len(place)))
         IN  /\ K!GetParam(r) = K!Word(1) /\ K!GetString(r) = K!Phrase(1)
             /\ name = K!Word(1) /\ place = K!Word(2) /\ K!GetString(s3) = K!Phrase(3)
             /\ K!Word(1) \in Seq(STRING) /\ K!Word(2) \in Seq(STRING)
             /\ K!Phrase(1) \in Seq(STRING) /\ K!Phrase(3) \in Seq(STRING)
<1>1. line \in Seq(STRING) /\ K!QuotesClose(line)
  BY DEF Lined
<1>2. RestCloses(Tail(line)) /\ Tail(line) \in Seq(STRING) /\ IsRest(Tail(line))
  BY <1>1, QuotesOfLine DEF IsRest, K!Rest
<1> QED BY Zenon, <1>2, WordsOfLine

\* What holds when a command begins.
LEMMA CommandBegins ==
  ASSUME ShellInv, doing = "parse"
  PROVE  /\ shown = <<>> /\ before.content = content /\ before.fds = fds
         /\ content = [path \in DOMAIN Volume |-> content[path]]
         /\ \A path \in DOMAIN Volume : content[path] \in Seq(STRING)
         /\ IsTable(fds) /\ Lined
         /\ ~K!Opens => (IF K!Opens /\ ~K!Found THEN 1 ELSE 0) = 0
         /\ K!Cardinality(K!Free(fds)) \in Nat
         /\ K!Cardinality(K!Free(fds)) - 0 = K!Cardinality(K!Free(fds))
<1>1. /\ shown = <<>> /\ before.content = content /\ before.fds = fds
      /\ content = [path \in DOMAIN Volume |-> content[path]]
      /\ \A path \in DOMAIN Volume : content[path] \in Seq(STRING)
      /\ IsTable(fds) /\ Lined
  BY DEF ShellInv, Begun, Filed
<1>2. K!Cardinality(K!Free(fds)) \in Nat
  BY <1>1, FreeIs
<1>3. K!Cardinality(K!Free(fds)) - 0 = K!Cardinality(K!Free(fds))
  BY <1>2
<1> QED BY <1>1, <1>2, <1>3

\* echo keeps the invariant.
LEMMA EchoKeeps ==
  ASSUME ShellInv, K!Echo
  PROVE  ShellInv'
<1>1. /\ doing = "parse" /\ line # <<>> /\ Head(line) = "echo"
      /\ \E p \in K!Printed(K!GetString(Tail(line))) : shown' = shown \o Append(p, K!LF)
      /\ doing' = "prompt" /\ UNCHANGED <<keys, line, content, fds, cat, before>>
  BY DEF K!Echo, K!Command, K!Show
<1>2. /\ shown = <<>> /\ before.content = content /\ before.fds = fds
      /\ content = [path \in DOMAIN Volume |-> content[path]]
      /\ \A path \in DOMAIN Volume : content[path] \in Seq(STRING)
      /\ IsTable(fds) /\ Lined
  BY <1>1, CommandBegins
<1>3. K!GetString(Tail(line)) = K!Phrase(1) /\ K!Phrase(1) \in Seq(STRING)
  BY <1>1, <1>2, WordsAre
<1>4. ASSUME ~K!Contains(K!Phrase(1), K!Percent) PROVE shown' = Append(K!Phrase(1), K!LF)
  <2>0. shown' = shown \o Append(K!Phrase(1), K!LF)
    BY Zenon, <1>1, <1>3, <1>4 DEF K!Printed
  <2> DEFINE Y == STRING \cup {K!LF}
  <2>1. K!Phrase(1) \in Seq(Y) /\ K!LF \in Y
    BY <1>3, SeqWider
  <2> HIDE DEF Y
  <2>2. Append(K!Phrase(1), K!LF) \in Seq(Y)
    BY <2>1, AppendProperties
  <2> QED BY <1>2, <2>0, <2>2, ConcatEmptySeq
<1>5. ~K!Opens /\ ~K!Found
  BY <1>1 DEF K!Opens, K!Found
<1>6. Told(content', fds', shown')
  BY <1>1, <1>2, <1>4, <1>5, CommandBegins DEF Told
<1> QED BY <1>1, <1>2, <1>6, CommandEnds

\* So does a word that is no command.
LEMMA NotFoundKeeps ==
  ASSUME ShellInv, K!NotFound
  PROVE  ShellInv'
<1>1. /\ doing = "parse" /\ doing' = "prompt" /\ UNCHANGED <<keys, line, content, fds, cat, before>>
      /\ line = <<>> \/ Head(line) \notin {"echo", "cat", "edit"}
  BY Zenon DEF K!NotFound, K!Command, K!Show, K!Commands
<1>2. /\ before.content = content /\ before.fds = fds
      /\ content = [path \in DOMAIN Volume |-> content[path]]
      /\ \A path \in DOMAIN Volume : content[path] \in Seq(STRING)
      /\ IsTable(fds)
  BY <1>1, CommandBegins
<1>3. ~K!Opens /\ ~K!Found /\ ~(line # <<>> /\ Head(line) = "echo")
  BY <1>1 DEF K!Opens, K!Found
<1>4. Told(content', fds', shown')
  BY <1>1, <1>2, <1>3, CommandBegins DEF Told
<1> QED BY <1>1, <1>2, <1>4, CommandEnds

\* So does the prompt, which ends a command.
LEMMA PromptKeeps ==
  ASSUME ShellInv, K!Prompt
  PROVE  ShellInv'
<1>1. /\ doing = "prompt" /\ line' = <<>> /\ shown' = <<>> /\ doing' = "read"
      /\ UNCHANGED <<keys, content, fds, cat, before>>
  BY DEF K!Prompt
<1>2. Keying'
  BY <1>1, KeyingKeeps DEF ShellInv
<1>3. Lined' /\ Filed'
  <2>1. <<>> \in Seq(STRING)
    BY EmptySeq
  <2>2. Lined'
    BY <1>1, <2>1 DEF Lined
  <2>3. Filed
    BY DEF ShellInv
  <2>4. Filed'
    BY <1>1, <2>3 DEF Filed, IsTable
  <2> QED BY <2>2, <2>4
<1>4. Echoed'
  <2>1. <<>> \in Seq(Signs) /\ Screen(<<>>) = Blank
    BY EmptySeq, ScreenGrows
  <2>2. shown' \in Seq(Signs) /\ Shows(Screen(shown'), line')
    BY <1>1, <2>1, ShowsNothing
  <2> QED BY Zenon, <2>2 DEF Echoed, Screen, Screens, Typed, Blank
<1>5. Begun' /\ Catting' /\ K!CommandDone'
  BY <1>1 DEF Begun, Catting, K!CommandDone
<1> QED BY <1>2, <1>3, <1>4, <1>5 DEF ShellInv

\* edit writes its text at its place.
LEMMA EditKeeps ==
  ASSUME ShellInv, K!Edit
  PROVE  ShellInv'
<1> DEFINE name == K!Word(1)
           place == K!Atoi(K!Word(2))
           words == K!Phrase(3)
           opened == K!Open(fds, name)
<1>0. /\ doing = "parse" /\ line # <<>> /\ Head(line) = "edit"
      /\ doing' = "prompt" /\ UNCHANGED <<keys, line, shown, cat, before>>
  BY DEF K!Edit, K!Command
<1>2. /\ before.content = content /\ before.fds = fds
      /\ content = [path \in DOMAIN Volume |-> content[path]]
      /\ \A path \in DOMAIN Volume : content[path] \in Seq(STRING)
      /\ IsTable(fds) /\ Lined
  BY <1>0, CommandBegins
<1>3. LET s1 == K!SkipSpaces(Tail(line))
          nm == K!GetParam(s1)
          s2 == K!SkipSpaces(K!Drop(s1, Len(nm)))
          pl == K!GetParam(s2)
          s3 == K!SkipSpaces(K!Drop(s2, Len(pl)))
      IN  nm = name /\ pl = K!Word(2) /\ K!GetString(s3) = words
  BY <1>0, <1>2, WordsAre
<1>4. K!Word(2) \in Seq(STRING) /\ words \in Seq(STRING)
  BY <1>0, <1>2, WordsAre
<1>5. IF opened.fd = -1 THEN fds' = opened.fds /\ UNCHANGED content
      ELSE /\ content' = [content EXCEPT ![name] = K!Written(name, place, words)]
           /\ fds' = [opened.fds EXCEPT ![opened.fd] = K!Closed]
  BY <1>3, Zenon DEF K!Edit
<1>6. /\ place \in Int
      /\ K!IsNumeral(K!Word(2)) /\ K!NumberOf(K!Word(2)) <= MaxInt =>
           place \in Nat /\ place = K!NumberOf(K!Word(2))
  BY <1>4, AtoiIs
<1>7. ~(Head(line) = "echo") /\ ~(Head(line) = "cat")
  BY <1>0
<1>8. /\ K!Opens <=> K!Free(fds) # {}
      /\ K!Found <=> K!Free(fds) # {} /\ name \in DOMAIN content
  BY <1>0, <1>2 DEF K!Opens, K!Found
<1>9. /\ K!Free(fds) = {} => opened.fds = fds /\ opened.fd = -1
      /\ K!Free(fds) # {} =>
           \E fd \in K!Free(fds) :
             /\ name \in DOMAIN content =>
                  opened.fds = [fds EXCEPT ![fd] = K!At(name, 0)] /\ opened.fd = fd
             /\ name \notin DOMAIN content =>
                  opened.fds = [fds EXCEPT ![fd] = K!Lost] /\ opened.fd = -1
  <2> HIDE DEF name
  <2>1. IsTable(fds)
    BY <1>2
  <2> QED BY Zenon, <2>1, OpenIs
<1> HIDE DEF name, place, words, opened
<1>10. ASSUME content' = content, IsTable(fds'), ~K!Found,
              K!Cardinality(K!Free(fds')) =
                K!Cardinality(K!Free(fds)) - (IF K!Opens /\ ~K!Found THEN 1 ELSE 0)
       PROVE  ShellInv'
  <2>1. Told(content', fds', shown')
    BY <1>2, <1>7, <1>10 DEF Told
  <2> QED BY <1>0, <1>2, <1>10, <2>1, CommandEnds
<1>11. CASE K!Free(fds) = {}
  <2>1. fds' = fds /\ content' = content
    BY <1>5, <1>9, <1>11
  <2>2. ~K!Opens /\ ~K!Found
    BY <1>8, <1>11
  <2>3. K!Cardinality(K!Free(fds)) - 0 = K!Cardinality(K!Free(fds))
    BY <1>0, CommandBegins
  <2> QED BY <1>2, <1>10, <2>1, <2>2, <2>3
<1>12. CASE K!Free(fds) # {} /\ name \notin DOMAIN content
  <2>1. PICK fd \in K!Free(fds) : opened.fds = [fds EXCEPT ![fd] = K!Lost] /\ opened.fd = -1
    BY Zenon, <1>9, <1>12
  <2>2. fds' = [fds EXCEPT ![fd] = K!Lost] /\ content' = content
    BY <1>5, <2>1
  <2>3. IsTable(fds') /\ K!Cardinality(K!Free(fds')) = K!Cardinality(K!Free(fds)) - 1
    <3>1. IsTable(fds) /\ K!Lost # K!Closed
      BY <1>2, TakenIsNotFree
    <3> DEFINE table == [fds EXCEPT ![fd] = K!Lost]
    <3>2. IsTable(table) /\ K!Cardinality(K!Free(table)) = K!Cardinality(K!Free(fds)) - 1
      BY <3>1, TakesOne
    <3>3. fds' = table
      BY <2>2
    <3> HIDE DEF table
    <3> QED BY <3>2, <3>3
  <2>4. K!Opens /\ ~K!Found
    BY <1>8, <1>12
  <2> QED BY <1>10, <2>2, <2>3, <2>4
<1>13. CASE K!Free(fds) # {} /\ name \in DOMAIN content
  <2>1. PICK fd \in K!Free(fds) : opened.fds = [fds EXCEPT ![fd] = K!At(name, 0)] /\ opened.fd = fd
    BY Zenon, <1>9, <1>13
  <2>2. fd # -1
    BY <1>2, FreeIs
  <2>3. /\ content' = [content EXCEPT ![name] = K!Written(name, place, words)]
        /\ fds' = [[fds EXCEPT ![fd] = K!At(name, 0)] EXCEPT ![fd] = K!Closed]
    BY <1>5, <2>1, <2>2
  <2>4. fds' = fds
    <3>1. IsTable(fds) /\ K!At(name, 0) # K!Closed
      BY <1>2, TakenIsNotFree
    <3>2. [[fds EXCEPT ![fd] = K!At(name, 0)] EXCEPT ![fd] = K!Closed] = fds
      BY Zenon, <3>1, TakesOne
    <3> QED BY <2>3, <3>2
  <2>5. content[name] \in Seq(STRING) /\ name \in DOMAIN Volume /\ DOMAIN content = DOMAIN Volume
    BY <1>2, <1>13
  <2>6. /\ K!Written(name, place, words) \in Seq(STRING)
        /\ place \in Nat => K!Written(name, place, words) = K!LaidOver(content[name], words, place)
        /\ \E n \in 0 .. Len(content[name]) :
             K!Written(name, place, words) = K!LaidOver(content[name], words, n)
    BY <1>4, <1>6, <2>5, WrittenIs
  <2>7. /\ content' = [path \in DOMAIN Volume |-> content'[path]]
        /\ \A path \in DOMAIN Volume : content'[path] \in Seq(STRING)
    <3> DEFINE w == K!Written(name, place, words)
    <3>1. w \in Seq(STRING) /\ content' = [content EXCEPT ![name] = w]
      BY <2>3, <2>6
    <3> HIDE DEF w
    <3>2. content' = [path \in DOMAIN Volume |-> IF path = name THEN w ELSE content[path]]
      BY <1>2, <3>1
    <3> QED BY <1>2, <3>1, <3>2
  <2>8. K!Opens /\ K!Found
    BY <1>8, <1>13
  <2>9. PICK n \in K!EditPlaces : K!Written(name, place, words) = K!LaidOver(content[name], words, n)
    <3>1. K!EditPlaces = IF K!IsNumeral(K!Word(2)) /\ K!NumberOf(K!Word(2)) <= MaxInt
                         THEN {K!NumberOf(K!Word(2))} ELSE 0 .. Len(content[name])
      BY <1>2 DEF K!EditPlaces, name
    <3>2. CASE K!IsNumeral(K!Word(2)) /\ K!NumberOf(K!Word(2)) <= MaxInt
      BY Zenon, <1>6, <2>6, <3>1, <3>2
    <3>3. CASE ~(K!IsNumeral(K!Word(2)) /\ K!NumberOf(K!Word(2)) <= MaxInt)
      BY Zenon, <2>6, <3>1, <3>3
    <3> QED BY <3>2, <3>3
  <2>10. K!Cardinality(K!Free(fds)) - 0 = K!Cardinality(K!Free(fds))
    BY <1>0, CommandBegins
  <2>11. \E m \in K!EditPlaces :
           content' = [before.content EXCEPT ![K!Word(1)] =
                         K!LaidOver(before.content[K!Word(1)], K!Phrase(3), m)]
    BY Zenon, <1>2, <2>3, <2>9 DEF name, words
  <2>12. Told(content', fds', shown')
    BY Zenon, <1>0, <1>2, <1>7, <2>4, <2>8, <2>10, <2>11 DEF Told
  <2> QED BY <1>0, <1>2, <2>4, <2>7, <2>12, CommandEnds
<1> QED BY <1>11, <1>12, <1>13

\* cat opens its file.
LEMMA CatKeeps ==
  ASSUME ShellInv, K!Cat
  PROVE  ShellInv'
<1> DEFINE name == K!Word(1)
           opened == K!Open(fds, name)
<1>1. /\ doing = "parse" /\ line # <<>> /\ Head(line) = "cat"
      /\ UNCHANGED <<keys, line, content, before>>
  BY Zenon DEF K!Cat, K!Command
<1>2. /\ shown = <<>> /\ before.content = content /\ before.fds = fds
      /\ content = [path \in DOMAIN Volume |-> content[path]]
      /\ \A path \in DOMAIN Volume : content[path] \in Seq(STRING)
      /\ IsTable(fds) /\ Lined
  BY <1>1, CommandBegins
<1>3. K!GetParam(Tail(line)) = name
  BY <1>1, <1>2, WordsAre
<1>4. /\ fds' = opened.fds
      /\ IF opened.fd = -1
         THEN doing' = "prompt"
         ELSE /\ doing' = "cat" /\ UNCHANGED shown
              /\ \E ch \in {K!LF, K!NUL} : cat' = [fd |-> opened.fd, last_char |-> ch]
  BY Zenon, <1>3 DEF K!Cat
<1>5. ~(Head(line) = "echo") /\ ~(Head(line) = "edit")
  BY <1>1
<1>6. /\ K!Opens <=> K!Free(fds) # {}
      /\ K!Found <=> K!Free(fds) # {} /\ name \in DOMAIN content
  BY <1>1, <1>2 DEF K!Opens, K!Found
<1>7. /\ K!Free(fds) = {} => opened.fds = fds /\ opened.fd = -1
      /\ K!Free(fds) # {} =>
           \E fd \in K!Free(fds) :
             /\ name \in DOMAIN content =>
                  opened.fds = [fds EXCEPT ![fd] = K!At(name, 0)] /\ opened.fd = fd
             /\ name \notin DOMAIN content =>
                  opened.fds = [fds EXCEPT ![fd] = K!Lost] /\ opened.fd = -1
  <2> HIDE DEF name
  <2>1. IsTable(fds)
    BY <1>2
  <2> QED BY Zenon, <2>1, OpenIs
<1> HIDE DEF opened
<1>8. ASSUME opened.fd = -1, IsTable(fds'), ~K!Found,
             K!Cardinality(K!Free(fds')) =
               K!Cardinality(K!Free(fds)) - (IF K!Opens /\ ~K!Found THEN 1 ELSE 0)
      PROVE  ShellInv'
  <2>1. Told(content', fds', shown')
    BY <1>1, <1>2, <1>5, <1>8 DEF Told
  <2> QED BY <1>1, <1>2, <1>4, <1>8, <2>1, CommandEnds
<1>9. CASE K!Free(fds) = {}
  <2>1. opened.fd = -1 /\ fds' = fds
    BY <1>4, <1>7, <1>9
  <2>2. ~K!Opens /\ ~K!Found
    BY <1>6, <1>9
  <2>3. K!Cardinality(K!Free(fds)) - 0 = K!Cardinality(K!Free(fds))
    BY <1>1, CommandBegins
  <2> QED BY <1>2, <1>8, <2>1, <2>2, <2>3
<1>10. CASE K!Free(fds) # {} /\ name \notin DOMAIN content
  <2>1. PICK fd \in K!Free(fds) : opened.fds = [fds EXCEPT ![fd] = K!Lost] /\ opened.fd = -1
    <3> HIDE DEF name
    <3> QED BY Zenon, <1>7, <1>10
  <2>2. fds' = [fds EXCEPT ![fd] = K!Lost]
    BY <1>4, <2>1
  <2>3. IsTable(fds') /\ K!Cardinality(K!Free(fds')) = K!Cardinality(K!Free(fds)) - 1
    <3>1. IsTable(fds) /\ K!Lost # K!Closed
      BY <1>2, TakenIsNotFree
    <3> DEFINE table == [fds EXCEPT ![fd] = K!Lost]
    <3>2. IsTable(table) /\ K!Cardinality(K!Free(table)) = K!Cardinality(K!Free(fds)) - 1
      BY <3>1, TakesOne
    <3>3. fds' = table
      BY <2>2
    <3> HIDE DEF table
    <3> QED BY <3>2, <3>3
  <2>4. K!Opens /\ ~K!Found
    BY <1>6, <1>10
  <2> QED BY <1>8, <2>1, <2>3, <2>4
<1>11. CASE K!Free(fds) # {} /\ name \in DOMAIN content
  <2>1. PICK fd \in K!Free(fds) : opened.fds = [fds EXCEPT ![fd] = K!At(name, 0)] /\ opened.fd = fd
    <3> HIDE DEF name
    <3> QED BY Zenon, <1>7, <1>11
  <2>2. fd # -1
    BY <1>2, FreeIs
  <2>3. /\ doing' = "cat" /\ shown' = <<>> /\ fds' = [before.fds EXCEPT ![fd] = K!At(name, 0)]
        /\ \E ch \in {K!LF, K!NUL} : cat' = [fd |-> fd, last_char |-> ch]
    BY <1>2, <1>4, <2>1, <2>2
  <2>4. IsTable(fds')
    BY Zenon, <1>2, <2>3, FreeIs
  <2>5. content[name] \in Seq(STRING)
    BY <1>2, <1>11
  <2>6. name' = name
    BY <1>1, WordsKeep
  <2>7. Shown(content[name], 0) = <<>> /\ 0 \in 0 .. Len(content[name])
    <3> DEFINE tx == content[name]
    <3>1. Len(tx) \in Nat
      BY <2>5, LenProperties
    <3> HIDE DEF tx
    <3>2. 0 \in 0 .. Len(tx) /\ 0 \in Nat /\ 0 + 0 \in 0 .. Len(tx) /\ tx \in Seq(STRING)
      BY <2>5, <3>1 DEF tx
    <3>3. Shown(tx, 0) = <<>>
      BY <3>2, ShownGrows
    <3> QED BY <3>2, <3>3 DEF tx
  <2>8. /\ 0 \in 0 .. Len(content'[name']) /\ cat'.fd \in K!Free(before'.fds)
        /\ cat' = [fd |-> cat'.fd, last_char |-> cat'.last_char]
        /\ fds' = [before'.fds EXCEPT ![cat'.fd] = K!At(name', 0)]
        /\ shown' = Shown(content'[name'], 0)
    <3> HIDE DEF name
    <3> QED BY <1>1, <1>2, <2>3, <2>6, <2>7
  <2>9. Catting'
    <3>1. before'.content = content' /\ K!Word(1)' \in DOMAIN content' /\ line' # <<>> /\ Head(line') = "cat"
      BY <1>1, <1>2, <1>11, <2>6
    <3>2. CatAt(K!Word(1), 0)'
      BY <2>8 DEF CatAt, K!Free, K!At, Shown, K!Visible, K!NUL, K!Percent, K!Unseen
    <3>3. (\E p : CatAt(K!Word(1), p))'
      BY <3>2
    <3> QED BY <3>1, <3>3 DEF Catting
  <2>10. Keying'
    BY <1>1, <2>3, KeyingKeeps DEF ShellInv
  <2>11. Lined' /\ Filed'
    BY <1>1, <1>2, <2>3, <2>4 DEF Lined, Filed, IsTable
  <2>12. Echoed' /\ Begun' /\ K!CommandDone'
    BY <2>3 DEF Echoed, Begun, K!CommandDone
  <2> QED BY <2>9, <2>10, <2>11, <2>12 DEF ShellInv
<1> QED BY <1>9, <1>10, <1>11

\* Where cat is, between two reads.
LEMMA CatIs ==
  ASSUME ShellInv, doing = "cat"
  PROVE  /\ line # <<>> /\ Head(line) = "cat" /\ before.content = content
         /\ content = [path \in DOMAIN Volume |-> content[path]]
         /\ \A path \in DOMAIN Volume : content[path] \in Seq(STRING)
         /\ IsTable(before.fds) /\ Lined
         /\ K!Word(1) \in DOMAIN content /\ content[K!Word(1)] \in Seq(STRING)
         /\ \E p \in 0 .. Len(content[K!Word(1)]) :
              /\ CatAt(K!Word(1), p) /\ p \in Nat
              /\ fds[cat.fd] = K!At(K!Word(1), p)
              /\ fds[cat.fd].path = K!Word(1) /\ fds[cat.fd].pos = p
              /\ \A x : [fds EXCEPT ![cat.fd] = x] = [before.fds EXCEPT ![cat.fd] = x]
              /\ [fds EXCEPT ![cat.fd] = K!Closed] = before.fds
<1> DEFINE name == K!Word(1)
<1>1. /\ line # <<>> /\ Head(line) = "cat" /\ before.content = content
      /\ content = [path \in DOMAIN Volume |-> content[path]]
      /\ \A path \in DOMAIN Volume : content[path] \in Seq(STRING)
      /\ IsTable(before.fds) /\ Lined /\ K!Word(1) \in DOMAIN content
  BY DEF ShellInv, Catting, Filed
<1>2. PICK p : CatAt(name, p)
  BY DEF ShellInv, Catting
<1>3. content[name] \in Seq(STRING)
  BY <1>1
<1>4. p \in 0 .. Len(content[name]) /\ p \in Nat
  BY <1>2, <1>3, LenProperties DEF CatAt
<1>5. fds = [before.fds EXCEPT ![cat.fd] = K!At(name, p)] /\ cat.fd \in K!Free(before.fds)
  BY <1>2 DEF CatAt
<1> DEFINE table == before.fds
           fd == cat.fd
           x1 == K!At(name, p)
<1>6. /\ fds[fd] = x1
      /\ \A x : [fds EXCEPT ![fd] = x] = [table EXCEPT ![fd] = x]
      /\ [fds EXCEPT ![fd] = K!Closed] = table
  <2>1. IsTable(table) /\ fd \in K!Free(table) /\ fds = [table EXCEPT ![fd] = x1]
    BY <1>1, <1>5
  <2> HIDE DEF table, fd, x1
  <2>2. /\ [table EXCEPT ![fd] = x1][fd] = x1
        /\ \A y : [[table EXCEPT ![fd] = x1] EXCEPT ![fd] = y] = [table EXCEPT ![fd] = y]
        /\ [[table EXCEPT ![fd] = x1] EXCEPT ![fd] = K!Closed] = table
    BY <2>1, FreeIs
  <2> QED BY <2>1, <2>2
<1>7. x1.path = name /\ x1.pos = p
  <2> HIDE DEF name
  <2> QED BY DEF K!At
<1> HIDE DEF name, x1
<1>8. fds[fd].path = name /\ fds[fd].pos = p
  BY <1>6, <1>7
<1> QED BY Zenon, <1>1, <1>2, <1>3, <1>4, <1>6, <1>8 DEF name, x1

\* A read of cat shows what it reads.
LEMMA CatReadKeeps ==
  ASSUME ShellInv, K!CatRead
  PROVE  ShellInv'
<1> DEFINE name == K!Word(1)
           tx == content[name]
           fd == cat.fd
<1>1. doing = "cat" /\ UNCHANGED <<keys, line, doing, content, before>>
  BY DEF K!CatRead
<1>2. /\ line # <<>> /\ Head(line) = "cat" /\ before.content = content
      /\ content = [path \in DOMAIN Volume |-> content[path]]
      /\ \A path \in DOMAIN Volume : content[path] \in Seq(STRING)
      /\ IsTable(before.fds) /\ Lined /\ name \in DOMAIN content /\ tx \in Seq(STRING)
  BY <1>1, CatIs
<1>3. PICK p \in 0 .. Len(tx) :
        /\ CatAt(name, p) /\ p \in Nat
        /\ fds[fd] = K!At(name, p) /\ fds[fd].path = name /\ fds[fd].pos = p
        /\ \A x : [fds EXCEPT ![fd] = x] = [before.fds EXCEPT ![fd] = x]
  BY Zenon, <1>1, CatIs
<1> DEFINE n == K!Reached(name, p, CAT_BUF_SIZE)
           chunk == SubSeq(tx, p + 1, p + n)
           more == [i \in 1 .. n |-> IF chunk[i] = K!NUL THEN "x" ELSE K!PrintedChar(chunk[i])]
<1>4. n > 0 /\ shown' = shown \o more
      /\ cat' = [cat EXCEPT !.last_char = K!Last(chunk)]
      /\ fds' = [fds EXCEPT ![fd].pos = @ + n]
  BY Zenon, <1>3 DEF K!CatRead, K!Show, K!LastChar
<1>5. n \in Nat /\ p + n \in p .. Len(tx)
  <2>1. Len(tx) \in Nat /\ CAT_BUF_SIZE \in Nat
    BY <1>2, LenProperties, ShellConstants
  <2> DEFINE N == Len(tx)
  <2>2. N = Len(content[name]) /\ N \in Nat /\ p <= N
    BY <1>3, <2>1
  <2> HIDE DEF N, name
  <2>3. n \in 0 .. CAT_BUF_SIZE /\ p + n \in p .. N
    BY Zenon, <1>3, <2>1, <2>2, ReachedIs
  <2>4. n \in Nat
    BY <2>1, <2>3
  <2> QED BY <2>3, <2>4 DEF N
<1> HIDE DEF name, n
<1>6. /\ cat = [fd |-> fd, last_char |-> cat.last_char] /\ shown = Shown(tx, p)
      /\ fd \in K!Free(before.fds)
  BY <1>3 DEF CatAt
<1>7. cat' = [fd |-> fd, last_char |-> tx[p + n]] /\ shown' = Shown(tx, p + n)
  <2>1. K!Last(chunk) = tx[p + n] /\ Shown(tx, p) \o more = Shown(tx, p + n)
    <3>1. /\ tx \in Seq(STRING) /\ p \in 0 .. Len(tx) /\ n \in Nat /\ p + n \in p .. Len(tx)
          /\ n # 0
      <4>1. n \in Nat /\ n > 0
        BY <1>4, <1>5
      <4>2. n # 0
        BY <4>1
      <4> HIDE DEF tx
      <4> QED BY <1>2, <1>3, <1>5, <4>2
    <3> HIDE DEF tx
    <3> QED BY Zenon, <3>1, ShownGrows
  <2> HIDE DEF tx, chunk, more
  <2>2. cat' = [cat EXCEPT !.last_char = tx[p + n]]
    BY <1>4, <2>1
  <2>3. shown' = Shown(tx, p + n)
    BY <1>4, <1>6, <2>1
  <2>4. cat' = [fd |-> fd, last_char |-> tx[p + n]]
    <3> DEFINE ch == tx[p + n]
               d == fd
               lc == cat.last_char
    <3>1. cat = [fd |-> d, last_char |-> lc] /\ cat' = [cat EXCEPT !.last_char = ch]
      BY <1>6, <2>2
    <3> HIDE DEF ch, d, lc
    <3>2. cat' = [fd |-> d, last_char |-> ch]
      BY <3>1
    <3> QED BY <3>2 DEF ch, d
  <2> QED BY <2>3, <2>4
<1>8. fds' = [before.fds EXCEPT ![fd] = K!At(name, p + n)]
  <2>1. fds' = [fds EXCEPT ![fd] = [fds[fd] EXCEPT !.pos = @ + n]]
    BY <1>4
  <2>2. [fds[fd] EXCEPT !.pos = @ + n] = K!At(name, p + n)
    BY <1>3 DEF K!At
  <2> QED BY Zenon, <1>3, <2>1, <2>2
<1>9. IsTable(fds')
  <2>1. \A x : IsTable([before.fds EXCEPT ![fd] = x])
    BY Zenon, <1>2, <1>6, FreeIs
  <2> QED BY Zenon, <1>8, <2>1
<1>10. K!Word(1)' = K!Word(1)
  BY <1>1, WordsKeep
<1>11. Catting'
  <2>1. before'.content = content' /\ K!Word(1)' \in DOMAIN content' /\ line' # <<>> /\ Head(line') = "cat"
    BY <1>1, <1>2, <1>10 DEF name
  <2>2. p + n \in 0 .. Len(tx)
    BY <1>3, <1>5, <1>2, LenProperties
  <2>6. PICK m : m = p + n
    OBVIOUS
  <2>3. /\ m \in 0 .. Len(content'[K!Word(1)']) /\ cat'.fd \in K!Free(before'.fds)
        /\ cat' = [fd |-> cat'.fd, last_char |-> cat'.last_char]
        /\ fds' = [before'.fds EXCEPT ![cat'.fd] = K!At(K!Word(1)', m)]
        /\ shown' = Shown(content'[K!Word(1)'], m)
        /\ cat'.last_char = content'[K!Word(1)'][m]
    BY <1>1, <1>6, <1>7, <1>8, <1>10, <2>2, <2>6 DEF name
  <2>4. CatAt(K!Word(1), m)'
    <3>1. (K!Free(before.fds))' = K!Free(before'.fds)
      BY DEF K!Free
    <3>2. (K!At(K!Word(1), m))' = K!At(K!Word(1)', m)
      BY DEF K!At
    <3>3. (Shown(content[K!Word(1)], m))' = Shown(content'[K!Word(1)'], m)
      BY DEF Shown, K!Visible, K!NUL, K!Percent, K!Unseen
    <3> QED BY <2>3, <3>1, <3>2, <3>3 DEF CatAt
  <2>5. (\E q : CatAt(K!Word(1), q))'
    BY <2>4
  <2> QED BY <2>1, <2>5 DEF Catting
<1>12. Keying'
  BY <1>1, KeyingKeeps DEF ShellInv
<1>13. Lined' /\ Filed'
  BY <1>1, <1>2, <1>9 DEF Lined, Filed, IsTable
<1>14. Echoed' /\ Begun' /\ K!CommandDone'
  BY <1>1 DEF Echoed, Begun, K!CommandDone
<1> QED BY Zenon, <1>11, <1>12, <1>13, <1>14 DEF ShellInv

\* cat ends: it has shown the file.
LEMMA CatEndsKeeps ==
  ASSUME ShellInv, K!CatEnds
  PROVE  ShellInv'
<1> DEFINE name == K!Word(1)
           tx == content[name]
           fd == cat.fd
           end == IF cat.last_char = K!LF THEN <<>> ELSE <<"$", K!LF>>
<1>1. doing = "cat" /\ doing' = "prompt" /\ UNCHANGED <<keys, line, content, cat, before>>
  BY DEF K!CatEnds
<1>2. /\ line # <<>> /\ Head(line) = "cat" /\ before.content = content
      /\ content = [path \in DOMAIN Volume |-> content[path]]
      /\ \A path \in DOMAIN Volume : content[path] \in Seq(STRING)
      /\ IsTable(before.fds) /\ Lined /\ name \in DOMAIN content /\ tx \in Seq(STRING)
  BY <1>1, CatIs
<1>3. PICK p \in 0 .. Len(tx) :
        /\ CatAt(name, p) /\ p \in Nat
        /\ fds[fd].path = name /\ fds[fd].pos = p
        /\ [fds EXCEPT ![fd] = K!Closed] = before.fds
  BY Zenon, <1>1, CatIs
<1>4. /\ K!Reached(name, p, CAT_BUF_SIZE) = 0 /\ shown' = shown \o end
      /\ fds' = before.fds
  BY <1>3 DEF K!CatEnds, K!Show
<1>5. p = Len(tx) /\ Len(tx) \in Nat
  <2>1. Len(tx) \in Nat /\ CAT_BUF_SIZE \in Nat /\ CAT_BUF_SIZE # 0
    BY <1>2, LenProperties, ShellConstants
  <2> DEFINE N == Len(tx)
  <2>2. N = Len(content[name]) /\ N \in Nat /\ p <= N
    BY <1>3, <2>1
  <2> HIDE DEF N, name
  <2>3. p = N
    <3>1. p \in Nat
      BY <1>3
    <3> DEFINE b == CAT_BUF_SIZE
    <3>2. b \in Nat /\ b # 0 /\ N = Len(content[name]) /\ N \in Nat
      BY <2>1, <2>2
    <3> HIDE DEF b
    <3>3. K!Reached(name, p, b) = IF p >= N THEN 0 ELSE IF p + b > N THEN N - p ELSE b
      BY <3>2 DEF K!Reached
    <3>4. K!Reached(name, p, b) = 0 /\ p <= N
      BY <1>4, <2>2 DEF b
    <3> QED BY <3>1, <3>2, <3>3, <3>4
  <2> QED BY <2>1, <2>3 DEF N
<1>6. /\ shown = Shown(tx, Len(tx)) /\ fd \in K!Free(before.fds)
      /\ Len(tx) # 0 => cat.last_char = tx[Len(tx)]
  BY <1>3, <1>5 DEF CatAt
<1>7. end \in IF tx = <<>> THEN {<<>>, <<"$", K!LF>>}
              ELSE IF K!Last(tx) = K!LF THEN {<<>>} ELSE {<<"$", K!LF>>}
  <2>1. CASE tx = <<>>
    BY <2>1
  <2>2. CASE tx # <<>>
    <3>1. Len(tx) # 0
      BY <1>2, <2>2, EmptySeq
    <3>2. cat.last_char = K!Last(tx)
      BY <1>6, <3>1 DEF K!Last
    <3> QED BY <2>2, <3>2
  <2> QED BY <2>1, <2>2
<1>8. shown' \in {Shown(tx, Len(tx)) \o e : e \in
                    IF tx = <<>> THEN {<<>>, <<"$", K!LF>>}
                    ELSE IF K!Last(tx) = K!LF THEN {<<>>} ELSE {<<"$", K!LF>>}}
  <2> HIDE DEF end, tx
  <2> QED BY Zenon, <1>4, <1>6, <1>7
<1>9. K!Opens /\ K!Found
  BY <1>2, <1>6 DEF K!Opens, K!Found
<1>10. ~(Head(line) = "echo") /\ ~(Head(line) = "edit")
  BY <1>2
<1>11. K!Cardinality(K!Free(before.fds)) - 0 = K!Cardinality(K!Free(before.fds))
  <2>1. K!Cardinality(K!Free(before.fds)) \in Nat
    BY <1>2, FreeIs
  <2> QED BY <2>1
<1>12. Told(content', fds', shown')
  <2>1. content' = content /\ fds' = before.fds
    BY <1>1, <1>4
  <2> QED BY Zenon, <1>2, <1>8, <1>9, <1>10, <1>11, <2>1 DEF Told
<1>13. IsTable(fds')
  BY <1>2, <1>4
<1> QED BY <1>1, <1>2, <1>12, <1>13, CommandEnds

\* A command that is over did what it was told.
LEMMA DoneIsTold ==
  ASSUME ShellInv, doing = "prompt"
  PROVE  Told(content, fds, shown)
<1>1. K!CommandDone /\ \A path \in DOMAIN content : content[path] \in Seq(STRING)
  BY DEF ShellInv, Filed
<1>2. IF K!Found /\ Head(line) = "edit"
      THEN \E n \in K!EditPlaces :
             content = [before.content EXCEPT ![K!Word(1)] =
                          K!LaidOver(before.content[K!Word(1)], K!Phrase(3), n)]
      ELSE content = before.content
  BY <1>1 DEF K!CommandDone
<1>3. K!Cardinality(K!Free(fds)) =
          K!Cardinality(K!Free(before.fds)) - (IF K!Opens /\ ~K!Found THEN 1 ELSE 0)
  BY <1>1 DEF K!CommandDone
<1>4. line # <<>> /\ Head(line) = "echo" /\ ~K!Contains(K!Phrase(1), K!Percent) =>
        shown = Append(K!Phrase(1), K!LF)
  BY <1>1 DEF K!CommandDone
<1>5. ASSUME K!Found, Head(line) = "cat"
      PROVE  LET tx == content[K!Word(1)] IN
             shown \in {Shown(tx, Len(tx)) \o end : end \in
                          IF tx = <<>> THEN {<<>>, <<"$", K!LF>>}
                          ELSE IF K!Last(tx) = K!LF THEN {<<>>} ELSE {<<"$", K!LF>>}}
  <2> DEFINE tx == content[K!Word(1)]
  <2>1. DOMAIN tx = 1 .. Len(tx)
    BY <1>1, <1>5, LenProperties DEF K!Found
  <2>2. shown \in {[i \in DOMAIN tx |-> K!Visible(tx[i])] \o end : end \in
                     IF tx = <<>> THEN {<<>>, <<"$", K!LF>>}
                     ELSE IF K!Last(tx) = K!LF THEN {<<>>} ELSE {<<"$", K!LF>>}}
    BY Zenon, <1>1, <1>5 DEF K!CommandDone
  <2> HIDE DEF tx
  <2>3. Shown(tx, Len(tx)) = [i \in DOMAIN tx |-> K!Visible(tx[i])]
    BY <2>1 DEF Shown, K!Visible
  <2>4. shown \in {Shown(tx, Len(tx)) \o end : end \in
                     IF tx = <<>> THEN {<<>>, <<"$", K!LF>>}
                     ELSE IF K!Last(tx) = K!LF THEN {<<>>} ELSE {<<"$", K!LF>>}}
    BY Zenon, <2>2, <2>3
  <2> QED BY <2>4 DEF tx
<1> QED BY Zenon, <1>2, <1>3, <1>4, <1>5 DEF Told

\* Every step keeps the invariant of the shell.
LEMMA ShellStep ==
  ASSUME ShellInv, [LibraryNext]_libraryVars
  PROVE  ShellInv'
<1>1. CASE UNCHANGED shellVars
  <2>1. UNCHANGED <<keys, line, shown, doing, content, fds, cat, before>>
    BY <1>1 DEF shellVars
  <2>2. K!Word(1)' = K!Word(1)
    BY <2>1, WordsKeep
  <2>3. Keying'
    BY <2>1, KeyingKeeps DEF ShellInv
  <2>4. Lined' /\ Filed' /\ Echoed' /\ Begun'
    <3>1. Lined /\ Filed /\ Echoed /\ Begun
      BY DEF ShellInv
    <3>2. Lined' /\ Begun'
      BY <2>1, <3>1 DEF Lined, Begun
    <3>3. Filed'
      BY <2>1, <3>1 DEF Filed, IsTable
    <3>4. Echoed'
      <4>1. CASE doing = "read"
        <5>1. /\ shown' \in Seq(Signs)
              /\ ~K!Contains(shown', K!Unseen) => Shows(Screen(shown'), line')
          BY <2>1, <3>1, <4>1 DEF Echoed
        <5> QED BY Zenon, <2>1, <5>1 DEF Echoed, Screen, Screens, Typed, Blank, K!Contains, K!Unseen
      <4>2. CASE doing # "read"
        BY <2>1, <4>2 DEF Echoed
      <4> QED BY <4>1, <4>2
    <3> QED BY <3>2, <3>3, <3>4
  <2>5. Catting'
    <3>1. ASSUME doing = "cat"
          PROVE  /\ (\E p : CatAt(K!Word(1), p))'
                 /\ (K!Word(1) \in DOMAIN content)' /\ line' # <<>> /\ Head(line') = "cat"
                 /\ before'.content = content'
      <4>1. PICK p : CatAt(K!Word(1), p)
        BY <3>1 DEF ShellInv, Catting
      <4>2. CatAt(K!Word(1), p)'
        BY <2>1, <2>2, <4>1 DEF CatAt, K!Free, K!At, Shown, K!Visible, K!NUL, K!Percent, K!Unseen
      <4>3. /\ (K!Word(1) \in DOMAIN content)' /\ line' # <<>> /\ Head(line') = "cat"
            /\ before'.content = content'
        BY <2>1, <2>2, <3>1 DEF ShellInv, Catting
      <4> QED BY <4>2, <4>3
    <3> QED BY <2>1, <3>1 DEF Catting
  <2>6. CASE doing # "prompt"
    <3>1. K!CommandDone'
      BY <2>1, <2>6 DEF K!CommandDone
    <3> QED BY <2>3, <2>4, <2>5, <3>1 DEF ShellInv
  <2>7. CASE doing = "prompt"
    <3>1. Told(content', fds', shown')
      BY <2>1, <2>7, DoneIsTold
    <3>2. /\ content' = [path \in DOMAIN Volume |-> content'[path]]
          /\ \A path \in DOMAIN Volume : content'[path] \in Seq(STRING)
          /\ IsTable(fds')
      BY <2>1 DEF ShellInv, Filed
    <3>3. doing # "read" /\ doing' = "prompt"
      BY <2>1, <2>7
    <3> QED BY <2>1, <3>1, <3>2, <3>3, CommandEnds
  <2> QED BY <2>6, <2>7
<1>2. CASE K!Next
  BY <1>2, ReadKeyKeeps, EchoKeeps, CatKeeps, CatReadKeeps, CatEndsKeeps, EditKeeps,
     NotFoundKeeps, PromptKeeps DEF K!Next
<1> QED BY <1>1, <1>2 DEF LibraryNext, Allocating, Printing, Scanning, InShell, libraryVars

\* The invariant holds of every behaviour.
LEMMA ShellInvariant == LibrarySpec => []ShellInv
BY ShellInit, ShellStep, PTL DEF LibrarySpec

\* What the invariant says of the screen and of a command that is over.
LEMMA ObeysByInvariant == ShellInv => ShellObeys
<1> SUFFICES ASSUME ShellInv PROVE ShellObeys
  OBVIOUS
<1>1. ASSUME doing = "read", ~K!Contains(shown, K!Unseen)
      PROVE  /\ K!OnScreen.cursor = Len(line)
             /\ \A i \in DOMAIN K!OnScreen.text :
                  K!OnScreen.text[i] = IF i \in DOMAIN line THEN line[i] ELSE " "
  <2> DEFINE scr == K!OnScreen
  <2>1. Shows(scr, line) /\ line \in Seq(STRING)
    BY <1>1, ScreenIs DEF ShellInv, Echoed, Lined
  <2> HIDE DEF scr
  <2>2. /\ scr.text \in Seq(Signs) /\ scr.cursor = Len(line)
        /\ \A i \in 1 .. Len(scr.text) : scr.text[i] = IF i <= Len(line) THEN line[i] ELSE " "
    BY Zenon, <2>1 DEF Shows
  <2>3. DOMAIN scr.text = 1 .. Len(scr.text) /\ DOMAIN line = 1 .. Len(line) /\ Len(line) \in Nat
        /\ Len(scr.text) \in Nat
    BY Zenon, <2>1, <2>2, LenProperties
  <2>4. \A i \in 1 .. Len(scr.text) : i \in DOMAIN line <=> i <= Len(line)
    BY <2>3
  <2>5. \A i \in DOMAIN scr.text : scr.text[i] = IF i \in DOMAIN line THEN line[i] ELSE " "
    BY Zenon, <2>2, <2>3, <2>4
  <2> QED BY Zenon, <2>2, <2>5 DEF scr
<1>2. K!ScreenShowsLine
  BY Zenon, <1>1 DEF K!ScreenShowsLine
<1> QED BY <1>2 DEF ShellInv, ShellObeys

\* The shell shows the line it will run, unless a % or a NUL was typed, and every
\* command does what its words say: echo shows a text without a %, cat the whole file
\* but for each %, however the reads cut it, edit writes its text at the place its
\* numeral means and nothing else, and only an open of what is no file costs a
\* descriptor (main, get_param, get_string, atoi, parse_cmd, stdout_write).
THEOREM ShellDoesAsTold == LibrarySpec => []ShellObeys
BY ShellInvariant, ObeysByInvariant, PTL

=============================================================================
