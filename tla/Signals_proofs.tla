--------------------------- MODULE Signals_proofs ---------------------------
(***************************************************************************)
(* Theorems about Signals, for every number of tasks and signals.          *)
(***************************************************************************)
EXTENDS Signals, SequenceTheorems, WellFoundedInduction, TLAPS

Points == [of : Tasks, step : 0..(Steps - 1)]

-----------------------------------------------------------------------------
(* Contexts                                                                *)

LEMMA ConstantFacts ==
  /\ Tasks \subseteq Nat /\ 1 \in Tasks /\ MaxTasks \in Nat
  /\ NSIG \in Nat /\ Sigs \subseteq Nat /\ 0 \in Bits
  /\ \A sig \in 0..(NSIG - 1) : Bit(sig) \in Bits
  /\ 0 \in 0..(Steps - 1)
  BY SignalAssumption DEF Tasks, Sigs, Bits, Bit

LEMMA StartContext ==
  ASSUME NEW p \in Tasks
  PROVE  Start(p) \in Contexts /\ Len(Start(p)) = 1
<1>1. [of |-> p, step |-> 0] \in Points
  BY ConstantFacts DEF Points
<1> QED BY <1>1 DEF Start, Contexts, Points

LEMMA EnteredContext ==
  ASSUME NEW p \in Tasks, NEW c \in Contexts
  PROVE  /\ Entered(p, c) \in Contexts
         /\ Len(Entered(p, c)) = Len(c) + 1
         /\ Front(Entered(p, c)) = c
<1>1. c \in Seq(Points) /\ Start(p) \in Seq(Points) /\ Len(Start(p)) = 1
  BY StartContext DEF Contexts, Points
<1>2. /\ Entered(p, c) \in Seq(Points)
      /\ Len(Entered(p, c)) = Len(c) + 1
      /\ \A i \in 1..Len(c) : Entered(p, c)[i] = c[i]
  BY <1>1, ConcatProperties DEF Entered
<1>3. Len(c) \in Nat
  BY <1>1
<1>4. Front(Entered(p, c)) = SubSeq(Entered(p, c), 1, Len(c))
  BY <1>2, <1>3 DEF Front
<1>5. SubSeq(Entered(p, c), 1, Len(c)) = c
  BY <1>1, <1>2, <1>3
<1>6. Entered(p, c) # <<>>
  BY <1>2, <1>3
<1> QED BY <1>2, <1>4, <1>5, <1>6 DEF Contexts, Points

\* A context has a last point.
LEMMA LastPoint ==
  ASSUME NEW c \in Contexts
  PROVE  c \in Seq(Points) /\ Len(c) \in 1..Len(c) /\ c[Len(c)] \in Points
<1>1. c \in Seq(Points) /\ c # <<>>
  BY DEF Contexts, Points
<1>2. Len(c) \in Nat /\ Len(c) # 0
  BY <1>1, EmptySeq
<1>3. \A i \in 1..Len(c) : c[i] \in Points
  BY <1>1
<1> QED BY <1>1, <1>2, <1>3

LEMMA ReturnedContext ==
  ASSUME NEW c \in Contexts
  PROVE  Returned(c) \in Contexts /\ Len(Returned(c)) = Len(c)
<1>1. c \in Seq(Points) /\ Len(c) \in 1..Len(c) /\ c[Len(c)] \in Points
  BY LastPoint
<1>2. (c[Len(c)].step + 1) % Steps \in 0..(Steps - 1)
  BY <1>1, SignalAssumption DEF Points
<1>3. [c[Len(c)] EXCEPT !.step = (c[Len(c)].step + 1) % Steps] \in Points
  BY <1>1, <1>2 DEF Points
<1>4. /\ [c EXCEPT ![Len(c)] = [c[Len(c)] EXCEPT !.step = (c[Len(c)].step + 1) % Steps]]
           \in Seq(Points)
      /\ Len([c EXCEPT ![Len(c)] = [c[Len(c)] EXCEPT !.step = (c[Len(c)].step + 1) % Steps]])
           = Len(c)
  BY <1>1, <1>3
<1>5. Returned(c) =
        [c EXCEPT ![Len(c)] = [c[Len(c)] EXCEPT !.step = (c[Len(c)].step + 1) % Steps]]
  BY DEF Returned
<1> QED BY <1>1, <1>4, <1>5 DEF Contexts, Points

\* What do_fork gives the child to go on from.
LEMMA ChildContext ==
  ASSUME NEW c \in Contexts, NEW p \in Tasks
  PROVE  /\ [c EXCEPT ![Len(c)].of = p] \in Contexts
         /\ Len([c EXCEPT ![Len(c)].of = p]) = Len(c)
<1>1. c \in Seq(Points) /\ Len(c) \in 1..Len(c) /\ c[Len(c)] \in Points
  BY LastPoint
<1>2. [c[Len(c)] EXCEPT !.of = p] \in Points
  BY <1>1 DEF Points
<1>3. /\ [c EXCEPT ![Len(c)] = [c[Len(c)] EXCEPT !.of = p]] \in Seq(Points)
      /\ Len([c EXCEPT ![Len(c)] = [c[Len(c)] EXCEPT !.of = p]]) = Len(c)
  BY <1>1, <1>2
<1> QED BY <1>1, <1>3 DEF Contexts, Points

-----------------------------------------------------------------------------
(* The flag                                                                *)

FlagsExact(flags, bits) == \A q \in Tasks : flags[q] <=> bits[q] # {}

FInv == TypeOK /\ FlagsExact(flag, pending)

\* What an exit does: one handler entered, or none.
LEMMA ExitEffect ==
  ASSUME TypeOK, NEW p \in Tasks, NEW acts,
         NEW bits \in [Tasks -> SUBSET Bits], NEW flags \in [Tasks -> BOOLEAN],
         NEW r \in [Tasks -> Contexts], FlagsExact(flags, bits),
         ExitToUser(p, acts, bits, flags, r)
  PROVE  /\ pending' \in [Tasks -> SUBSET Bits]
         /\ flag' \in [Tasks -> BOOLEAN]
         /\ FlagsExact(flag', pending')
         /\ \/ regs' = r /\ frame' = frame
            \/ /\ regs' = [r EXCEPT ![p] = Entered(p, r[p])]
               /\ frame' = [frame EXCEPT ![page[p]] = r[p]]
<1>1. CASE flags[p] /\ Deliverable(bits[p]) # {}
  <2> DEFINE sig == NextSignal(bits[p])
             left == bits[p] \ {Bit(sig)}
  <2>1. /\ pending' = [bits EXCEPT ![p] = left]
        /\ flag' = [flags EXCEPT ![p] = FlagLeft(flags[p], left)]
        /\ IF acts[sig] \in {SIG_IGN, SIG_DFL}
           THEN regs' = r /\ UNCHANGED frame
           ELSE regs' = [r EXCEPT ![p] = Entered(p, r[p])] /\ SaveFrame(p, r[p])
    BY <1>1 DEF ExitToUser
  <2>2. left \in SUBSET Bits
    OBVIOUS
  <2> DEFINE more == FlagLeft(flags[p], left)
  <2>3. more \in BOOLEAN /\ (more <=> left # {})
    BY <1>1 DEF FlagLeft
  <2>4. /\ pending' = [bits EXCEPT ![p] = left]
        /\ flag' = [flags EXCEPT ![p] = more]
    BY <2>1
  <2>5. FlagsExact(flag', pending')
    <3> HIDE DEF left, more
    <3>1. SUFFICES ASSUME NEW q \in Tasks PROVE flag'[q] <=> pending'[q] # {}
      BY DEF FlagsExact
    <3>2. CASE q = p
      <4>1. flag'[q] = more /\ pending'[q] = left
        BY <2>4, <3>2
      <4> QED BY <2>3, <4>1
    <3>3. CASE q # p
      <4>1. flag'[q] = flags[q] /\ pending'[q] = bits[q]
        BY <2>4, <3>3
      <4> QED BY <4>1 DEF FlagsExact
    <3> QED BY <3>2, <3>3
  <2>6. pending' \in [Tasks -> SUBSET Bits] /\ flag' \in [Tasks -> BOOLEAN]
    <3> HIDE DEF left, more
    <3> QED BY <2>2, <2>3, <2>4
  <2> QED BY <2>1, <2>5, <2>6 DEF SaveFrame
<1>2. CASE ~(flags[p] /\ Deliverable(bits[p]) # {})
  BY <1>2 DEF ExitToUser
<1> QED BY <1>1, <1>2

\* So an exit keeps the types.
LEMMA ExitTypes ==
  ASSUME TypeOK, NEW p \in Tasks, NEW r \in [Tasks -> Contexts],
         \/ regs' = r /\ frame' = frame
         \/ /\ regs' = [r EXCEPT ![p] = Entered(p, r[p])]
            /\ frame' = [frame EXCEPT ![page[p]] = r[p]]
  PROVE  regs' \in [Tasks -> Contexts] /\ frame' \in [Tasks -> Contexts]
<1>1. Entered(p, r[p]) \in Contexts /\ r[p] \in Contexts
  BY EnteredContext
<1>2. frame \in [Tasks -> Contexts] /\ page[p] \in Tasks
  BY DEF TypeOK
<1>3. [r EXCEPT ![p] = Entered(p, r[p])] \in [Tasks -> Contexts]
  BY <1>1
<1>4. [frame EXCEPT ![page[p]] = r[p]] \in [Tasks -> Contexts]
  BY <1>1, <1>2
<1> QED BY <1>2, <1>3, <1>4

LEMMA AfterType ==
  ASSUME TypeOK, NEW p \in Tasks
  PROVE  /\ After(p) \in [Tasks -> Contexts]
         /\ \A q \in Tasks : Len(After(p)[q]) = Len(regs[q])
         /\ \A q \in Tasks \ {p} : After(p)[q] = regs[q]
<1>1. regs \in [Tasks -> Contexts]
  BY DEF TypeOK
<1>2. Returned(regs[p]) \in Contexts /\ Len(Returned(regs[p])) = Len(regs[p])
  BY <1>1, ReturnedContext
<1> QED BY <1>1, <1>2 DEF After

\* The registers after a fork, the child's among them.
Forked(p) == [After(p) EXCEPT ![task_num + 1] =
                [Returned(regs[p]) EXCEPT ![Len(regs[p])].of = task_num + 1]]

LEMMA ForkedType ==
  ASSUME TypeOK, NEW p \in Tasks, task_num + 1 \in Tasks, p # task_num + 1
  PROVE  /\ Forked(p) \in [Tasks -> Contexts]
         /\ Len(Forked(p)[task_num + 1]) = Len(regs[p])
         /\ \A q \in Tasks \ {task_num + 1} : Forked(p)[q] = After(p)[q]
<1> DEFINE c == Returned(regs[p])
<1>1. c \in Contexts /\ Len(c) = Len(regs[p])
  BY ReturnedContext DEF TypeOK
<1> DEFINE d == [c EXCEPT ![Len(c)].of = task_num + 1]
<1>2. d \in Contexts /\ Len(d) = Len(regs[p])
  <2> HIDE DEF c
  <2> QED BY <1>1, ChildContext
<1>3. Forked(p) = [After(p) EXCEPT ![task_num + 1] = d]
  BY <1>1 DEF Forked
<1> HIDE DEF c, d
<1> QED BY <1>2, <1>3, AfterType

-----------------------------------------------------------------------------
(* The steps                                                               *)

\* An exit of p from the registers r, with a handler or without.
Effect(p, r) ==
  \/ regs' = r /\ frame' = frame
  \/ /\ regs' = [r EXCEPT ![p] = Entered(p, r[p])]
     /\ frame' = [frame EXCEPT ![page[p]] = r[p]]

\* A whole step whose last part is an exit.
LEMMA ExitFInv ==
  ASSUME TypeOK, NEW p \in Tasks, NEW acts,
         NEW bits \in [Tasks -> SUBSET Bits], NEW flags \in [Tasks -> BOOLEAN],
         NEW r \in [Tasks -> Contexts], FlagsExact(flags, bits),
         ExitToUser(p, acts, bits, flags, r),
         task_num' \in Tasks, action' \in [Tasks -> [Sigs -> Actions]],
         page' \in [Tasks -> Tasks]
  PROVE  FInv' /\ Effect(p, r)
<1>1. /\ pending' \in [Tasks -> SUBSET Bits] /\ flag' \in [Tasks -> BOOLEAN]
      /\ FlagsExact(flag', pending') /\ Effect(p, r)
  BY ExitEffect DEF Effect
<1>2. regs' \in [Tasks -> Contexts] /\ frame' \in [Tasks -> Contexts]
  BY <1>1, ExitTypes DEF Effect
<1>3. TypeOK'
  BY <1>1, <1>2 DEF TypeOK
<1>4. FlagsExact(flag, pending)'
  BY <1>1 DEF FlagsExact
<1> QED BY <1>1, <1>3, <1>4 DEF FInv

LEMMA TypeFacts ==
  ASSUME FInv
  PROVE  /\ TypeOK /\ task_num \in Tasks
         /\ action \in [Tasks -> [Sigs -> Actions]]
         /\ pending \in [Tasks -> SUBSET Bits] /\ flag \in [Tasks -> BOOLEAN]
         /\ regs \in [Tasks -> Contexts] /\ frame \in [Tasks -> Contexts]
         /\ page \in [Tasks -> Tasks] /\ FlagsExact(flag, pending)
         /\ Existing \subseteq Tasks
  BY ConstantFacts DEF FInv, TypeOK, Existing, Tasks

LEMMA CallOutcome ==
  ASSUME FInv, NEW p \in Tasks,
         SysSigaction(p) \/ SysKill(p) \/ OtherCall(p)
  PROVE  FInv' /\ Effect(p, After(p)) /\ UNCHANGED <<task_num, page>> /\ MayCall(p)
<1>1. After(p) \in [Tasks -> Contexts]
  BY TypeFacts, AfterType
<1>2. CASE SysSigaction(p)
  <2>1. PICK signum \in Sigs, act \in Actions :
          LET acts == IF Settable(signum) THEN [action[p] EXCEPT ![signum] = act]
                      ELSE action[p] IN
          /\ action' = [action EXCEPT ![p] = acts]
          /\ ExitToUser(p, acts, pending, flag, After(p))
    BY <1>2 DEF SysSigaction
  <2> DEFINE acts == IF Settable(signum) THEN [action[p] EXCEPT ![signum] = act]
                     ELSE action[p]
  <2>2. acts \in [Sigs -> Actions]
    BY TypeFacts
  <2>3. action' = [action EXCEPT ![p] = acts] /\ ExitToUser(p, acts, pending, flag, After(p))
    BY <2>1
  <2>4. action' \in [Tasks -> [Sigs -> Actions]]
    <3> HIDE DEF acts
    <3> QED BY <2>2, <2>3, TypeFacts
  <2>5. UNCHANGED <<task_num, page>> /\ MayCall(p)
    BY <1>2 DEF SysSigaction
  <2>6. FInv' /\ Effect(p, After(p))
    <3> HIDE DEF acts
    <3> QED BY <1>1, <2>3, <2>4, <2>5, TypeFacts, ExitFInv
  <2> QED BY <2>5, <2>6
<1>3. CASE SysKill(p)
  <2>1. PICK pid \in Existing, sig \in 0..(NSIG - 1) :
          ExitToUser(p, action[p],
                     [pending EXCEPT ![pid] = pending[pid] \cup {Bit(sig)}],
                     SendFlags(pid), After(p))
    BY <1>3 DEF SysKill
  <2> DEFINE bits == [pending EXCEPT ![pid] = pending[pid] \cup {Bit(sig)}]
             flags == [flag EXCEPT ![pid] = TRUE]
  <2>2. pid \in Tasks /\ Bit(sig) \in Bits
    BY TypeFacts, ConstantFacts
  <2>3. bits \in [Tasks -> SUBSET Bits] /\ flags \in [Tasks -> BOOLEAN]
    BY <2>2, TypeFacts
  <2>4. FlagsExact(flags, bits)
    BY <2>2, TypeFacts DEF FlagsExact
  <2>5. UNCHANGED <<task_num, action, page>> /\ MayCall(p)
    BY <1>3 DEF SysKill
  <2>6. ExitToUser(p, action[p], bits, flags, After(p))
    BY <2>1 DEF SendFlags
  <2>7. FInv' /\ Effect(p, After(p))
    <3> HIDE DEF bits, flags
    <3> QED BY <1>1, <2>3, <2>4, <2>5, <2>6, TypeFacts, ExitFInv
  <2> QED BY <2>5, <2>7
<1>4. CASE OtherCall(p)
  <2>1. /\ ExitToUser(p, action[p], pending, flag, After(p))
        /\ UNCHANGED <<task_num, action, page>> /\ MayCall(p)
    BY <1>4 DEF OtherCall
  <2>2. FInv' /\ Effect(p, After(p))
    BY <1>1, <2>1, TypeFacts, ExitFInv
  <2> QED BY <2>1, <2>2
<1> QED BY <1>2, <1>3, <1>4

LEMMA ReturnOutcome ==
  ASSUME FInv, NEW p \in Tasks, SysRtSigreturn(p)
  PROVE  /\ FInv' /\ UNCHANGED <<task_num, page>>
         /\ Effect(p, [regs EXCEPT ![p] = frame[page[p]]])
<1>1. [regs EXCEPT ![p] = frame[page[p]]] \in [Tasks -> Contexts]
  BY TypeFacts
<1>2. /\ ExitToUser(p, action[p], pending, flag, [regs EXCEPT ![p] = frame[page[p]]])
      /\ UNCHANGED <<task_num, action, page>>
  BY DEF SysRtSigreturn
<1>3. FInv' /\ Effect(p, [regs EXCEPT ![p] = frame[page[p]]])
  BY <1>1, <1>2, TypeFacts, ExitFInv
<1> QED BY <1>2, <1>3

LEMMA ForkOutcome ==
  ASSUME FInv, NEW p \in Tasks, DoFork(p)
  PROVE  /\ FInv' /\ Effect(p, Forked(p)) /\ MayCall(p)
         /\ task_num' = task_num + 1 /\ task_num + 1 \in Tasks \ Existing
         /\ page' = [page EXCEPT ![task_num + 1] = page[p]]
<1> DEFINE pid == task_num + 1
<1>1. /\ MayCall(p) /\ pid \in Tasks /\ task_num' = pid
      /\ action' = [action EXCEPT ![pid] = action[p]]
      /\ page' = [page EXCEPT ![pid] = page[p]]
      /\ ExitToUser(p, action[p], [pending EXCEPT ![pid] = pending[p]],
                    [flag EXCEPT ![pid] = flag[p]], Forked(p))
  BY DEF DoFork, Forked
<1>2. pid \notin Existing
  <2>1. task_num \in Nat
    BY ConstantFacts, TypeFacts
  <2> QED BY <2>1 DEF Existing
<1>3. p \in Existing /\ p # pid
  BY <1>1, <1>2 DEF MayCall
<1>4. Forked(p) \in [Tasks -> Contexts]
  BY <1>1, <1>3, TypeFacts, ForkedType
<1>5. /\ action' \in [Tasks -> [Sigs -> Actions]] /\ page' \in [Tasks -> Tasks]
      /\ [pending EXCEPT ![pid] = pending[p]] \in [Tasks -> SUBSET Bits]
      /\ [flag EXCEPT ![pid] = flag[p]] \in [Tasks -> BOOLEAN]
  BY <1>1, TypeFacts
<1>6. FlagsExact([flag EXCEPT ![pid] = flag[p]], [pending EXCEPT ![pid] = pending[p]])
  BY <1>1, TypeFacts DEF FlagsExact
<1>7. FInv' /\ Effect(p, Forked(p))
  <2> HIDE DEF pid
  <2> QED BY <1>1, <1>4, <1>5, <1>6, TypeFacts, ExitFInv
<1> QED BY <1>1, <1>2, <1>7

LEMMA WriteOutcome ==
  ASSUME FInv, NEW p \in Tasks, WriteStack(p)
  PROVE  /\ FInv' /\ UNCHANGED <<task_num, regs>> /\ p \in Existing
         /\ \E g \in Tasks : /\ \A q \in Existing : page[q] # g
                             /\ page' = [page EXCEPT ![p] = g]
                             /\ frame' = [frame EXCEPT ![g] = frame[page[p]]]
<1>1. /\ UNCHANGED <<task_num, action, pending, flag, regs>> /\ p \in Existing
      /\ \E g \in Tasks : /\ \A q \in Existing : page[q] # g
                          /\ page' = [page EXCEPT ![p] = g]
                          /\ frame' = [frame EXCEPT ![g] = frame[page[p]]]
  BY DEF WriteStack
<1>2. page' \in [Tasks -> Tasks] /\ frame' \in [Tasks -> Contexts]
  BY <1>1, TypeFacts
<1>3. TypeOK'
  BY <1>1, <1>2, TypeFacts DEF TypeOK
<1>4. FlagsExact(flag, pending)'
  BY <1>1, TypeFacts DEF FlagsExact
<1> QED BY <1>1, <1>3, <1>4 DEF FInv

LEMMA InitFInv == Init => FInv
<1> SUFFICES ASSUME Init PROVE FInv
  OBVIOUS
<1>1. \A p \in Tasks : Start(p) \in Contexts
  BY StartContext
<1>2. SIG_DFL \in Actions
  BY DEF Actions
<1>3. TypeOK
  BY <1>1, <1>2, ConstantFacts DEF Init, TypeOK
<1>4. FlagsExact(flag, pending)
  BY DEF Init, FlagsExact
<1> QED BY <1>3, <1>4 DEF FInv

LEMMA NextFInv == FInv /\ [Next]_vars => FInv'
<1> SUFFICES ASSUME FInv, [Next]_vars PROVE FInv'
  OBVIOUS
<1>1. CASE Next
  <2>1. PICK p \in Tasks :
          WriteStack(p) \/ SysSigaction(p) \/ SysKill(p) \/ DoFork(p)
            \/ OtherCall(p) \/ SysRtSigreturn(p)
    BY <1>1 DEF Next
  <2> QED BY <2>1, CallOutcome, ReturnOutcome, ForkOutcome, WriteOutcome
<1>2. CASE UNCHANGED vars
  BY <1>2 DEF vars, FInv, TypeOK, FlagsExact
<1> QED BY <1>1, <1>2

LEMMA SpecFInv == Spec => []FInv
  BY InitFInv, NextFInv, PTL DEF Spec

\* Types of the state of signals.
THEOREM TypeCorrect == Spec => []TypeOK
<1>1. FInv => TypeOK
  BY DEF FInv
<1> QED BY <1>1, SpecFInv, PTL

\* Whatever is sent, ignored, handled, copied by fork or returned from, the
\* flag of a task says whether it has pending bits.  Code: send_signal,
\* get_signal, recalc_sigpending, do_fork.
THEOREM FlagExact == Spec => []FlagTracksPending
<1>1. FInv => FlagTracksPending
  BY TypeFacts DEF FlagTracksPending, FlagsExact
<1> QED BY <1>1, SpecFInv, PTL

-----------------------------------------------------------------------------
(* Handlers that make no calls                                             *)

\* The assumption under which handlers return: they make no calls, and the
\* program writes to its stack between a fork and its next call.
Careful == CallDepth = 0 /\ BareCalls = FALSE

Handling(p) == Len(regs[p]) = 2

\* One handler at a time; the frame it returns to is on its page; and of the
\* tasks that share a page, one at most is in a handler.
RInv ==
  /\ FInv
  /\ \A p \in Tasks : Len(regs[p]) \in 1..2
  /\ \A p \in Existing : Handling(p) =>
       Len(frame[page[p]]) = 1 /\ regs[p] = Entered(p, frame[page[p]])
  /\ \A p, q \in Existing :
       p # q /\ page[p] = page[q] => ~(Handling(p) /\ Handling(q))

LEMMA InitRInv == Init => RInv
<1> SUFFICES ASSUME Init PROVE RInv
  OBVIOUS
<1>1. FInv /\ Existing \subseteq Tasks
  BY InitFInv, TypeFacts
<1>2. \A p \in Tasks : Len(regs[p]) = 1
  BY StartContext DEF Init
<1>3. \A p \in Existing : ~Handling(p)
  BY <1>1, <1>2 DEF Handling
<1> QED BY <1>1, <1>2, <1>3 DEF RInv

LEMMA CareCalls ==
  ASSUME Careful, RInv, NEW p \in Tasks, MayCall(p)
  PROVE  /\ p \in Existing /\ Len(regs[p]) = 1 /\ ~Handling(p)
         /\ \A q \in Existing \ {p} : page[q] # page[p]
<1>1. p \in Existing /\ Len(regs[p]) <= 1 + 0 /\ ~Shared(p)
  BY DEF MayCall, Careful
<1>2. Len(regs[p]) \in 1..2
  BY DEF RInv
<1> QED BY <1>1, <1>2 DEF Shared, Handling

\* An exit of p, which runs no handler and shares its page with none of the
\* others that do.
LEMMA ExitRInv ==
  ASSUME RInv, FInv', NEW p \in Tasks, NEW r \in [Tasks -> Contexts], Effect(p, r),
         Len(r[p]) = 1, p \in Existing',
         NEW old \in SUBSET Tasks, Existing' = old \cup {p},
         \A q \in old \ {p} : Len(r[q]) = 1 \/ (q \in Existing /\ r[q] = regs[q]
                                                /\ page'[q] = page[q]
                                                /\ page[q] # page[p]),
         \A q \in Tasks : Len(r[q]) \in 1..2,
         page'[p] = page[p]
  PROVE  RInv'
<1>1. frame \in [Tasks -> Contexts] /\ page \in [Tasks -> Tasks] /\ Existing \subseteq Tasks
  BY TypeFacts DEF RInv
<1>2. r[p] \in Contexts
  OBVIOUS
<1>3. \A q \in Tasks \ {p} : regs'[q] = r[q]
  BY DEF Effect
<1>4. \/ regs'[p] = r[p]
      \/ regs'[p] = Entered(p, r[p]) /\ frame'[page[p]] = r[p]
  BY <1>1 DEF Effect
<1>5. Len(regs'[p]) \in 1..2
  <2>1. Len(Entered(p, r[p])) = 1 + 1
    BY <1>2, EnteredContext
  <2> QED BY <1>4, <2>1
<1>6. \A q \in Tasks : Len(regs'[q]) \in 1..2
  BY <1>3, <1>5
<1>7. \A g \in Tasks \ {page[p]} : frame'[g] = frame[g]
  BY <1>1 DEF Effect
<1>8. Handling(p)' =>
        Len(frame'[page'[p]]) = 1 /\ regs'[p] = Entered(p, frame'[page'[p]])
  BY <1>4 DEF Handling
<1>9. ASSUME NEW q \in old \ {p}, Handling(q)'
      PROVE  /\ q \in Existing /\ Handling(q) /\ regs'[q] = regs[q]
             /\ page'[q] = page[q] /\ page[q] # page[p]
             /\ frame'[page[q]] = frame[page[q]]
  <2>1. regs'[q] = r[q] /\ Len(r[q]) = 2
    BY <1>3, <1>9 DEF Handling
  <2>2. /\ q \in Existing /\ r[q] = regs[q]
        /\ page'[q] = page[q] /\ page[q] # page[p]
    BY <2>1
  <2> QED BY <1>1, <1>7, <2>1, <2>2 DEF Handling
<1>10. \A q \in Existing' : Handling(q)' =>
         Len(frame'[page'[q]]) = 1 /\ regs'[q] = Entered(q, frame'[page'[q]])
  BY <1>8, <1>9 DEF RInv
<1>11. ASSUME NEW q \in Existing', NEW s \in Existing', q # s,
              page'[q] = page'[s], Handling(q)', Handling(s)'
       PROVE  FALSE
  BY <1>9, <1>11 DEF RInv
<1> QED BY <1>6, <1>10, <1>11 DEF RInv

LEMMA CallRInv ==
  ASSUME Careful, RInv, NEW p \in Tasks,
         SysSigaction(p) \/ SysKill(p) \/ OtherCall(p)
  PROVE  RInv'
<1>1. FInv' /\ Effect(p, After(p)) /\ UNCHANGED <<task_num, page>> /\ MayCall(p)
  BY CallOutcome DEF RInv
<1>2. /\ p \in Existing /\ Len(regs[p]) = 1
      /\ \A q \in Existing \ {p} : page[q] # page[p]
  BY <1>1, CareCalls
<1>3. /\ After(p) \in [Tasks -> Contexts]
      /\ \A q \in Tasks : Len(After(p)[q]) = Len(regs[q])
      /\ \A q \in Tasks \ {p} : After(p)[q] = regs[q]
  BY AfterType, TypeFacts DEF RInv
<1>4. Existing' = Existing \cup {p} /\ Existing \in SUBSET Tasks
  BY <1>1, <1>2, TypeFacts DEF Existing, RInv
<1>5. \A q \in Tasks : Len(After(p)[q]) \in 1..2
  BY <1>3 DEF RInv
<1> QED BY <1>1, <1>2, <1>3, <1>4, <1>5, ExitRInv

LEMMA ForkRInv ==
  ASSUME Careful, RInv, NEW p \in Tasks, DoFork(p)
  PROVE  RInv'
<1> DEFINE pid == task_num + 1
<1>1. /\ FInv' /\ Effect(p, Forked(p)) /\ MayCall(p)
      /\ task_num' = pid /\ pid \in Tasks \ Existing
      /\ page' = [page EXCEPT ![pid] = page[p]]
  BY ForkOutcome DEF RInv
<1>2. /\ p \in Existing /\ Len(regs[p]) = 1
      /\ \A q \in Existing \ {p} : page[q] # page[p]
  BY <1>1, CareCalls
<1>3. TypeOK /\ Existing \subseteq Tasks /\ task_num \in Nat /\ p # pid
  BY <1>1, <1>2, TypeFacts, ConstantFacts DEF RInv
<1>4. /\ Forked(p) \in [Tasks -> Contexts]
      /\ Len(Forked(p)[pid]) = Len(regs[p])
      /\ \A q \in Tasks \ {pid} : Forked(p)[q] = After(p)[q]
  BY <1>1, <1>3, ForkedType
<1>5. /\ \A q \in Tasks : Len(After(p)[q]) = Len(regs[q])
      /\ \A q \in Tasks \ {p} : After(p)[q] = regs[q]
  BY <1>3, AfterType
<1>6. Existing' = Existing \cup {pid}
  BY <1>1, <1>3 DEF Existing
<1> DEFINE old == Existing \cup {pid}
<1>7. old \in SUBSET Tasks /\ Existing' = old \cup {p} /\ p \in Existing'
  BY <1>1, <1>2, <1>3, <1>6
<1>8. \A q \in Tasks \ {pid} : page'[q] = page[q]
  BY <1>1, <1>3 DEF TypeOK
<1>9. ASSUME NEW q \in old \ {p}
      PROVE  Len(Forked(p)[q]) = 1 \/ (q \in Existing /\ Forked(p)[q] = regs[q]
                                       /\ page'[q] = page[q] /\ page[q] # page[p])
  <2>1. CASE q = pid
    BY <1>2, <1>4, <2>1
  <2>2. CASE q # pid
    BY <1>2, <1>3, <1>4, <1>5, <1>8, <2>2
  <2> QED BY <2>1, <2>2
<1>10. \A q \in Tasks : Len(Forked(p)[q]) \in 1..2
  <2>1. \A q \in Tasks : Len(regs[q]) \in 1..2
    BY DEF RInv
  <2> QED BY <1>2, <1>4, <1>5, <2>1
<1>11. Len(Forked(p)[p]) = 1 /\ page'[p] = page[p]
  BY <1>2, <1>3, <1>4, <1>5, <1>8
<1> HIDE DEF pid, old
<1> QED BY <1>1, <1>4, <1>7, <1>9, <1>10, <1>11, ExitRInv

LEMMA ReturnRInv ==
  ASSUME RInv, NEW p \in Tasks, SysRtSigreturn(p)
  PROVE  RInv'
<1> DEFINE r == [regs EXCEPT ![p] = frame[page[p]]]
<1>1. FInv' /\ UNCHANGED <<task_num, page>> /\ Effect(p, r)
  BY ReturnOutcome DEF RInv
<1>2. p \in Existing /\ Handling(p)
  <2>1. Len(regs[p]) \in 1..2 /\ Len(regs[p]) > 1
    BY DEF SysRtSigreturn, InHandler, RInv
  <2>2. \A n \in 1..2 : n > 1 => n = 2
    OBVIOUS
  <2>3. p \in Existing
    BY DEF SysRtSigreturn
  <2> QED BY <2>1, <2>2, <2>3 DEF Handling
<1>3. /\ Len(frame[page[p]]) = 1 /\ regs[p] = Entered(p, frame[page[p]])
      /\ \A q \in Existing \ {p} : page[q] = page[p] => ~Handling(q)
  BY <1>2 DEF RInv
<1>4. regs \in [Tasks -> Contexts] /\ Existing \subseteq Tasks /\ page \in [Tasks -> Tasks]
      /\ frame \in [Tasks -> Contexts]
  BY TypeFacts DEF RInv
<1>5. r \in [Tasks -> Contexts] /\ Len(r[p]) = 1
  BY <1>3, <1>4
<1>6. Existing' = Existing \cup {p} /\ Existing \in SUBSET Tasks
  BY <1>1, <1>2, <1>4 DEF Existing
<1>7. \A q \in Tasks : Len(regs[q]) \in 1..2
  BY DEF RInv
<1>8. \A q \in Existing \ {p} : Len(r[q]) = 1 \/ (q \in Existing /\ r[q] = regs[q]
                                                  /\ page'[q] = page[q]
                                                  /\ page[q] # page[p])
  BY <1>1, <1>3, <1>4, <1>7 DEF Handling
<1>9. \A q \in Tasks : Len(r[q]) \in 1..2
  BY <1>3, <1>4, <1>7
<1> HIDE DEF r
<1> QED BY <1>1, <1>2, <1>5, <1>6, <1>8, <1>9, ExitRInv

LEMMA WriteRInv ==
  ASSUME RInv, NEW p \in Tasks, WriteStack(p)
  PROVE  RInv'
<1>1. FInv' /\ UNCHANGED <<task_num, regs>> /\ p \in Existing
  BY WriteOutcome DEF RInv
<1>2. PICK g \in Tasks : /\ \A q \in Existing : page[q] # g
                         /\ page' = [page EXCEPT ![p] = g]
                         /\ frame' = [frame EXCEPT ![g] = frame[page[p]]]
  BY WriteOutcome DEF RInv
<1>3. /\ page \in [Tasks -> Tasks] /\ frame \in [Tasks -> Contexts]
      /\ Existing \subseteq Tasks /\ Existing' = Existing
  BY <1>1, TypeFacts DEF RInv, Existing
<1>4. \A q \in Existing : frame'[page'[q]] = frame[page[q]]
  BY <1>2, <1>3
<1>5. \A q \in Tasks : Handling(q)' <=> Handling(q)
  BY <1>1 DEF Handling
<1>6. \A q, s \in Existing : q # s /\ page'[q] = page'[s] => page[q] = page[s]
  BY <1>2, <1>3
<1> QED BY <1>1, <1>3, <1>4, <1>5, <1>6 DEF RInv

LEMMA NextRInv == ASSUME Careful PROVE RInv /\ [Next]_vars => RInv'
<1> SUFFICES ASSUME RInv, [Next]_vars PROVE RInv'
  OBVIOUS
<1>1. CASE Next
  <2>1. PICK p \in Tasks :
          WriteStack(p) \/ SysSigaction(p) \/ SysKill(p) \/ DoFork(p)
            \/ OtherCall(p) \/ SysRtSigreturn(p)
    BY <1>1 DEF Next
  <2> QED BY <2>1, CallRInv, ForkRInv, ReturnRInv, WriteRInv
<1>2. CASE UNCHANGED vars
  <2>1. FInv'
    BY <1>2, NextFInv DEF RInv
  <2> QED BY <1>2, <2>1 DEF vars, RInv, Handling, Existing
<1> QED BY <1>1, <1>2

LEMMA ReturnsRight ==
  ASSUME RInv, NEW p \in Tasks, SysRtSigreturn(p)
  PROVE  regs'[p] \in {Front(regs[p]), Entered(p, Front(regs[p]))}
<1> DEFINE r == [regs EXCEPT ![p] = frame[page[p]]]
<1>1. Effect(p, r) /\ p \in Existing /\ Handling(p)
  <2>1. Len(regs[p]) \in 1..2 /\ Len(regs[p]) > 1
    BY DEF SysRtSigreturn, InHandler, RInv
  <2>2. \A n \in 1..2 : n > 1 => n = 2
    OBVIOUS
  <2>3. p \in Existing
    BY DEF SysRtSigreturn
  <2>4. Effect(p, r)
    BY ReturnOutcome DEF RInv
  <2> QED BY <2>1, <2>2, <2>3, <2>4 DEF Handling
<1>2. regs \in [Tasks -> Contexts] /\ frame[page[p]] \in Contexts
  BY TypeFacts DEF RInv
<1>3. regs[p] = Entered(p, frame[page[p]])
  BY <1>1 DEF RInv
<1>4. Front(regs[p]) = frame[page[p]]
  BY <1>2, <1>3, EnteredContext
<1>5. regs'[p] \in {frame[page[p]], Entered(p, frame[page[p]])}
  BY <1>1, <1>2 DEF Effect
<1> QED BY <1>4, <1>5

\* A handler returns to what it interrupted, if handlers make no calls and
\* programs write to their stacks after a fork: the frame is still there,
\* although other tasks may share its page.  Code: setup_rt_frame,
\* sys_rt_sigreturn, do_fork.
THEOREM HandlersResume == Careful => (Spec => ResumesInterrupted)
<1> SUFFICES ASSUME Careful PROVE Spec => ResumesInterrupted
  OBVIOUS
<1>1. RInv /\ [Next]_vars => RInv'
  BY NextRInv
<1>2. RInv => [\A p \in Tasks : SysRtSigreturn(p) =>
                 regs'[p] \in {Front(regs[p]), Entered(p, Front(regs[p]))}]_vars
  BY ReturnsRight
<1> QED BY <1>1, <1>2, InitRInv, PTL DEF Spec, ResumesInterrupted

-----------------------------------------------------------------------------
(* What programs see                                                       *)

\* A set of numbers that is not empty has a least one.
LessThan == {ss \in Nat \X Nat : ss[1] < ss[2]}

LEMMA LeastNumber ==
  ASSUME NEW T \in SUBSET Nat, T # {}
  PROVE  \E x \in T : \A y \in T : x <= y
<1>1. IsWellFoundedOn(LessThan, Nat)
  BY NatLessThanWellFounded DEF OpToRel, LessThan
<1>2. PICK x \in T : \A y \in T : ~(<<y, x>> \in LessThan)
  BY <1>1, WFMin
<1>3. ASSUME NEW y \in T PROVE x <= y
  <2>1. x \in Nat /\ y \in Nat /\ ~(<<y, x>> \in LessThan)
    BY <1>2
  <2> QED BY <2>1 DEF LessThan
<1> QED BY <1>3

\* get_signal finds one of the signals, and taking its bit takes it alone.
LEMMA TakesOne ==
  ASSUME NEW bits \in SUBSET Bits, Deliverable(bits) # {}
  PROVE  /\ NextSignal(bits) \in Deliverable(bits)
         /\ Deliverable(bits \ {Bit(NextSignal(bits))}) = Deliverable(bits) \ {NextSignal(bits)}
<1>1. Deliverable(bits) \in SUBSET Nat
  BY ConstantFacts DEF Deliverable
<1>2. \E s \in Deliverable(bits) : \A r \in Deliverable(bits) : s <= r
  BY <1>1, LeastNumber
<1>3. NextSignal(bits) \in Deliverable(bits)
  BY <1>2 DEF NextSignal
<1>4. \A r, s \in Sigs : Bit(r) = Bit(s) => r = s
  BY SignalAssumption DEF Sigs, Bit
<1> QED BY <1>3, <1>4 DEF Deliverable

Waits(bits) == [q \in Tasks |-> Deliverable(bits[q])]

\* The exit of a call takes one of the signals that wait, if any does.
LEMMA ExitTakes ==
  ASSUME TypeOK, NEW p \in Tasks, NEW acts \in [Sigs -> Actions],
         NEW bits \in [Tasks -> SUBSET Bits], NEW flags \in [Tasks -> BOOLEAN],
         NEW r \in [Tasks -> Contexts], FlagsExact(flags, bits),
         ExitToUser(p, acts, bits, flags, r)
  PROVE  Service!Take(p, acts, Waits(bits), r)
<1>1. bits[p] \in SUBSET Bits /\ (flags[p] <=> bits[p] # {})
  BY DEF FlagsExact
<1>2. CASE Deliverable(bits[p]) = {}
  <2>1. pending' = bits /\ regs' = r
    BY <1>2 DEF ExitToUser
  <2> QED BY <1>2, <2>1 DEF Service!Take, Waits
<1>3. CASE Deliverable(bits[p]) # {}
  <2> DEFINE sig == NextSignal(bits[p])
             left == bits[p] \ {Bit(sig)}
  <2>1. flags[p]
    BY <1>1, <1>3 DEF Deliverable
  <2>2. /\ pending' = [bits EXCEPT ![p] = left]
        /\ IF acts[sig] \in {SIG_IGN, SIG_DFL}
           THEN regs' = r ELSE regs' = [r EXCEPT ![p] = Entered(p, r[p])]
    BY <1>3, <2>1 DEF ExitToUser
  <2>3. sig \in Deliverable(bits[p]) /\ Deliverable(left) = Deliverable(bits[p]) \ {sig}
    BY <1>1, <1>3, TakesOne
  <2>4. sig \in Sigs
    BY <2>3 DEF Deliverable
  <2>5. acts[sig] \in Handlers <=> acts[sig] \notin {SIG_IGN, SIG_DFL}
    BY <2>4, SignalAssumption DEF Actions
  <2> HIDE DEF sig, left
  <2>6. Waits(pending)' = [q \in Tasks |-> IF q = p THEN Waits(bits)[p] \ {sig} ELSE Waits(bits)[q]]
    BY <2>2, <2>3 DEF Waits
  <2>7. regs' = IF acts[sig] \in Handlers
                THEN [r EXCEPT ![p] = r[p] \o Service!First(p)] ELSE r
    BY <2>2, <2>5 DEF Entered, Start, Service!First
  <2>8. sig \in Waits(bits)[p]
    BY <2>3 DEF Waits
  <2> QED BY <2>6, <2>7, <2>8 DEF Service!Take, Waits
<1> QED BY <1>2, <1>3

LEMMA PastIsAfter ==
  ASSUME NEW p \in Tasks
  PROVE  Service!Past(p) = Returned(regs[p]) /\ Service!Moved(p) = After(p)
BY DEF Service!Past, Service!Moved, Returned, After

LEMMA SigactionSimulates ==
  ASSUME FInv, NEW p \in Tasks, SysSigaction(p)
  PROVE  Service!Install(p) \/ Service!Call(p)
<1>1. PICK signum \in Sigs, act \in Actions :
        LET acts == IF Settable(signum) THEN [action[p] EXCEPT ![signum] = act]
                    ELSE action[p] IN
        /\ action' = [action EXCEPT ![p] = acts]
        /\ ExitToUser(p, acts, pending, flag, After(p))
  BY DEF SysSigaction
<1> DEFINE acts == IF Settable(signum) THEN [action[p] EXCEPT ![signum] = act]
                   ELSE action[p]
<1>2. acts \in [Sigs -> Actions]
  BY TypeFacts
<1>3. action' = [action EXCEPT ![p] = acts] /\ ExitToUser(p, acts, pending, flag, After(p))
  BY <1>1
<1>4. Service!Take(p, acts, Waits(pending), After(p)) /\ UNCHANGED task_num
  <2> HIDE DEF acts
  <2>1. After(p) \in [Tasks -> Contexts]
    BY TypeFacts, AfterType
  <2> QED BY <1>2, <1>3, <2>1, TypeFacts, ExitTakes DEF SysSigaction
<1>5. CASE Settable(signum)
  <2>1. signum \in Sigs \ {SIGKILL, SIGSTOP} /\ acts = [action[p] EXCEPT ![signum] = act]
    BY <1>5 DEF Settable
  <2> HIDE DEF acts
  <2> QED BY <1>3, <1>4, <2>1, PastIsAfter DEF Service!Install, Waits
<1>6. CASE ~Settable(signum)
  <2>1. acts = action[p] /\ action' = action
    BY <1>3, <1>6, TypeFacts
  <2> HIDE DEF acts
  <2> QED BY <1>4, <2>1, PastIsAfter DEF Service!Call, Waits
<1> QED BY <1>5, <1>6

\* A signal waits when its bit is set; the last bit is no signal's.
LEMMA SentWaits ==
  ASSUME FInv, NEW pid \in Tasks, NEW sig \in 0..(NSIG - 1),
         NEW bits, bits = [pending EXCEPT ![pid] = pending[pid] \cup {Bit(sig)}]
  PROVE  Waits(bits) = IF sig = 0 THEN Waits(pending)
                       ELSE [Waits(pending) EXCEPT ![pid] = Waits(pending)[pid] \cup {sig}]
<1>1. pending \in [Tasks -> SUBSET Bits]
  BY TypeFacts
<1>2. \A s \in Sigs : (Bit(s) = Bit(sig)) <=> (s = sig)
  BY SignalAssumption DEF Sigs, Bit
<1>3. sig # 0 => sig \in Sigs
  BY SignalAssumption DEF Sigs
<1>4. 0 \notin Sigs
  BY SignalAssumption DEF Sigs
<1>5. Deliverable(bits[pid]) = Deliverable(pending[pid]) \cup ({sig} \cap Sigs)
  BY <1>1, <1>2 DEF Deliverable
<1>6. \A q \in Tasks \ {pid} : bits[q] = pending[q]
  BY <1>1
<1>7. CASE sig = 0
  <2>1. {sig} \cap Sigs = {}
    BY <1>4, <1>7
  <2>2. \A q \in Tasks : Deliverable(bits[q]) = Deliverable(pending[q])
    BY <1>5, <1>6, <2>1
  <2> QED BY <1>7, <2>2 DEF Waits
<1>8. CASE sig # 0
  <2>1. {sig} \cap Sigs = {sig}
    BY <1>3, <1>8
  <2>2. Waits(bits)[pid] = Waits(pending)[pid] \cup {sig}
    BY <1>5, <2>1 DEF Waits
  <2>3. \A q \in Tasks \ {pid} : Waits(bits)[q] = Waits(pending)[q]
    BY <1>6 DEF Waits
  <2>4. DOMAIN Waits(bits) = Tasks /\ Waits(bits) = [q \in Tasks |-> Waits(bits)[q]]
        /\ Waits(pending) = [q \in Tasks |-> Waits(pending)[q]]
    BY DEF Waits
  <2> HIDE DEF Waits
  <2>5. Waits(bits) = [Waits(pending) EXCEPT ![pid] = Waits(pending)[pid] \cup {sig}]
    BY <2>2, <2>3, <2>4
  <2> QED BY <1>8, <2>5
<1> QED BY <1>7, <1>8

LEMMA KillSimulates ==
  ASSUME FInv, NEW p \in Tasks, SysKill(p)
  PROVE  Service!Send(p) \/ Service!Call(p)
<1>1. PICK pid \in Existing, sig \in 0..(NSIG - 1) :
        ExitToUser(p, action[p],
                   [pending EXCEPT ![pid] = pending[pid] \cup {Bit(sig)}],
                   SendFlags(pid), After(p))
  BY DEF SysKill
<1> DEFINE bits == [pending EXCEPT ![pid] = pending[pid] \cup {Bit(sig)}]
           flags == [flag EXCEPT ![pid] = TRUE]
<1>2. pid \in Tasks /\ pid \in 1..task_num /\ Bit(sig) \in Bits
  BY TypeFacts, ConstantFacts DEF Existing
<1>3. bits \in [Tasks -> SUBSET Bits] /\ flags \in [Tasks -> BOOLEAN] /\ FlagsExact(flags, bits)
  BY <1>2, TypeFacts DEF FlagsExact
<1>4. Service!Take(p, action[p], Waits(bits), After(p)) /\ UNCHANGED <<task_num, action>>
  <2>1. After(p) \in [Tasks -> Contexts] /\ action[p] \in [Sigs -> Actions]
    BY TypeFacts, AfterType
  <2>2. ExitToUser(p, action[p], bits, flags, After(p))
    BY <1>1 DEF SendFlags
  <2> HIDE DEF bits, flags
  <2> QED BY <1>3, <2>1, <2>2, TypeFacts, ExitTakes DEF SysKill
<1>5. CASE sig = 0
  <2>1. Waits(bits) = Waits(pending)
    BY <1>2, <1>5, SentWaits
  <2> HIDE DEF bits
  <2> QED BY <1>4, <2>1, PastIsAfter DEF Service!Call, Waits
<1>6. CASE sig # 0
  <2>1. Waits(bits) = [Waits(pending) EXCEPT ![pid] = Waits(pending)[pid] \cup {sig}]
    BY <1>2, <1>6, SentWaits
  <2>2. sig \in Sigs
    BY <1>6, SignalAssumption DEF Sigs
  <2> HIDE DEF bits
  <2> QED BY <1>2, <1>4, <2>1, <2>2, PastIsAfter DEF Service!Send, Waits
<1> QED BY <1>5, <1>6

LEMMA OtherSimulates ==
  ASSUME FInv, NEW p \in Tasks, OtherCall(p)
  PROVE  Service!Call(p)
<1>1. After(p) \in [Tasks -> Contexts] /\ action[p] \in [Sigs -> Actions]
  BY TypeFacts, AfterType
<1>2. ExitToUser(p, action[p], pending, flag, After(p)) /\ UNCHANGED <<task_num, action>>
  BY DEF OtherCall
<1>3. Service!Take(p, action[p], Waits(pending), After(p))
  BY <1>1, <1>2, TypeFacts, ExitTakes
<1> QED BY <1>2, <1>3, PastIsAfter DEF Service!Call, Waits

LEMMA ForkSimulates ==
  ASSUME FInv, NEW p \in Tasks, DoFork(p)
  PROVE  Service!Join(p)
<1> DEFINE pid == task_num + 1
           bits == [pending EXCEPT ![pid] = pending[p]]
           flags == [flag EXCEPT ![pid] = flag[p]]
<1>1. /\ pid \in Tasks /\ task_num' = pid /\ MayCall(p)
      /\ action' = [action EXCEPT ![pid] = action[p]]
      /\ ExitToUser(p, action[p], bits, flags, Forked(p))
  BY DEF DoFork, Forked
<1>2. p # pid
  BY <1>1, ForkOutcome DEF MayCall
<1>3. Forked(p) \in [Tasks -> Contexts] /\ action[p] \in [Sigs -> Actions]
  BY <1>1, <1>2, TypeFacts, ForkedType
<1>4. bits \in [Tasks -> SUBSET Bits] /\ flags \in [Tasks -> BOOLEAN] /\ FlagsExact(flags, bits)
  BY <1>1, TypeFacts DEF FlagsExact
<1>5. Waits(bits) = [Waits(pending) EXCEPT ![pid] = Waits(pending)[p]]
  BY <1>1, TypeFacts DEF Waits
<1>6. Len(Service!Past(p)) = Len(regs[p])
  BY PastIsAfter, TypeFacts, ReturnedContext
<1>7. Forked(p) = [Service!Moved(p) EXCEPT ![pid] =
                     [Service!Past(p) EXCEPT ![Len(Service!Past(p))].of = pid]]
  BY <1>6, PastIsAfter DEF Forked
<1>8. Service!Take(p, action[p], Waits(bits), Forked(p))
  <2> HIDE DEF pid, bits, flags
  <2> QED BY <1>1, <1>3, <1>4, TypeFacts, ExitTakes
<1> HIDE DEF bits, flags
<1> QED BY <1>1, <1>5, <1>7, <1>8 DEF Service!Join, Waits

LEMMA ReturnSimulates ==
  ASSUME RInv, NEW p \in Tasks, SysRtSigreturn(p)
  PROVE  Service!Return(p)
<1>1. FInv /\ p \in Existing /\ Len(regs[p]) > 1
  BY DEF RInv, SysRtSigreturn, InHandler
<1>2. Handling(p)
  <2>1. Len(regs[p]) \in 1..2
    BY DEF RInv
  <2>2. \A n \in 1..2 : n > 1 => n = 2
    OBVIOUS
  <2> QED BY <1>1, <2>1, <2>2 DEF Handling
<1>3. frame[page[p]] \in Contexts /\ action[p] \in [Sigs -> Actions]
  BY <1>1, TypeFacts
<1>4. Front(regs[p]) = frame[page[p]]
  BY <1>1, <1>2, <1>3, EnteredContext DEF RInv
<1> DEFINE r == [regs EXCEPT ![p] = frame[page[p]]]
<1>5. r \in [Tasks -> Contexts]
  BY <1>1, <1>3, TypeFacts
<1>6. ExitToUser(p, action[p], pending, flag, r) /\ UNCHANGED <<task_num, action>>
  BY DEF SysRtSigreturn
<1>7. Service!Take(p, action[p], Waits(pending), r)
  <2> HIDE DEF r
  <2> QED BY <1>1, <1>3, <1>5, <1>6, TypeFacts, ExitTakes
<1>8. r = [regs EXCEPT ![p] = Front(regs[p])]
  BY <1>4
<1> HIDE DEF r
<1>9. Service!Take(p, action[p], Waits(pending), [regs EXCEPT ![p] = Service!Front(regs[p])])
  BY <1>7, <1>8 DEF Front, Service!Front
<1> QED BY <1>1, <1>6, <1>9 DEF Service!Return, Waits

LEMMA NextSimulates ==
  ASSUME RInv, [Next]_vars
  PROVE  [Service!Next]_(Service!vars)
<1>1. FInv
  BY DEF RInv
<1>2. ASSUME NEW p \in Tasks, WriteStack(p) PROVE UNCHANGED Service!vars
  BY <1>2 DEF WriteStack, Service!vars
<1>3. ASSUME NEW p \in Tasks,
             SysSigaction(p) \/ SysKill(p) \/ DoFork(p) \/ OtherCall(p) \/ SysRtSigreturn(p)
      PROVE  Service!Next
  <2>1. p \in 1..task_num
    BY <1>3 DEF SysSigaction, SysKill, DoFork, OtherCall, SysRtSigreturn, MayCall, Existing
  <2>2. Service!Install(p) \/ Service!Send(p) \/ Service!Join(p) \/ Service!Call(p)
          \/ Service!Return(p)
    BY <1>1, <1>3, SigactionSimulates, KillSimulates, ForkSimulates, OtherSimulates,
       ReturnSimulates
  <2> QED BY <2>1, <2>2 DEF Service!Next
<1>4. CASE UNCHANGED vars
  BY <1>4 DEF vars, Service!vars
<1> QED BY <1>2, <1>3, <1>4 DEF Next

LEMMA InitSimulates == Init => Service!Init
<1> SUFFICES ASSUME Init PROVE Service!Init
  OBVIOUS
<1>1. \A p \in Tasks : Deliverable(pending[p]) = {}
  BY DEF Init, Deliverable
<1> QED BY <1>1 DEF Init, Service!Init, Start, Service!First

\* What programs see of signals is SignalService, for every number of tasks and
\* signals: each that is sent waits and is taken once, a call takes one that
\* waits, and a handler goes back to what it interrupted, if handlers make no
\* calls and programs write to their stacks after a fork.  Code: send_signal,
\* get_signal, setup_rt_frame, sys_rt_sigreturn, do_fork.
THEOREM ImplementsSignalService == Careful => (Spec => RefinesSignalService)
<1> SUFFICES ASSUME Careful PROVE Spec => RefinesSignalService
  OBVIOUS
<1>1. RInv /\ [Next]_vars => RInv'
  BY NextRInv
<1>2. RInv /\ [Next]_vars => [Service!Next]_(Service!vars)
  BY NextSimulates
<1> QED BY <1>1, <1>2, InitRInv, InitSimulates, PTL DEF Spec, RefinesSignalService, Service!Spec
=============================================================================
