--------------------------- MODULE WeightedRounds ---------------------------
(***************************************************************************)
(* What the scheduler promises: time goes by in rounds.  In a round every  *)
(* task that was there when it began runs once, for as many ticks as its   *)
(* weight; a task that joins waits for the next round.  Which task comes   *)
(* next within a round is left open.                                       *)
(***************************************************************************)
EXTENDS Naturals

CONSTANTS
  Tasks,    \* tasks that may ever join
  Weights   \* weights a task may have, positive

VARIABLES
  weight,   \* weight[p], 0 until p joins
  owed,     \* owed[p], ticks p still has in this round
  running   \* the running task, 0 before the first

vars == <<weight, owed, running>>

\* The next task to run when o is owed: one that is owed, else a new round.
Pass(o) ==
  IF \E p \in Tasks : o[p] > 0
  THEN owed' = o /\ \E p \in Tasks : o[p] > 0 /\ running' = p
  ELSE owed' = weight /\ \E p \in Tasks : weight[p] > 0 /\ running' = p

Init ==
  /\ \E p \in Tasks, w \in Weights :
       weight = [q \in Tasks |-> IF q = p THEN w ELSE 0]
  /\ owed = [q \in Tasks |-> 0]
  /\ running = 0

Begin ==
  /\ running = 0
  /\ Pass(owed)
  /\ UNCHANGED weight

\* A tick of the running task, the last of its turn or not.
Tick ==
  LET o == [owed EXCEPT ![running] = @ - 1] IN
  /\ running # 0
  /\ owed[running] > 0
  /\ IF o[running] > 0 THEN owed' = o /\ UNCHANGED running ELSE Pass(o)
  /\ UNCHANGED weight

Join ==
  /\ running # 0
  /\ \E p \in Tasks, w \in Weights :
       weight[p] = 0 /\ weight' = [weight EXCEPT ![p] = w]
  /\ UNCHANGED <<owed, running>>

Next == Begin \/ Tick \/ Join

Spec == Init /\ [][Next]_vars /\ WF_vars(Begin) /\ WF_vars(Tick)
=============================================================================
