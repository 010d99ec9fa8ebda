--------------------------- MODULE SignalService ---------------------------
(***************************************************************************)
(* What signals promise a program: what is sent to a task waits for it,    *)
(* once; each of the task's calls ends by taking one that waits, if any    *)
(* does; a handler runs on top of what the call returns to, and when it    *)
(* returns, exactly that goes on.  Which of several is taken is left open. *)
(***************************************************************************)
EXTENDS Naturals, SequencesExt

CONSTANTS
  Tasks,     \* tasks there may ever be, 1..n
  Sigs,      \* signals
  Fixed,     \* those whose action cannot be set
  Default,   \* the action they have, and all have at first
  Actions,   \* actions, the default and the handlers among them
  Handlers,  \* actions that run a function of the program
  Steps      \* points of a function of the program

VARIABLES
  number,   \* tasks 1..number are there
  action,   \* action[p][s]
  waiting,  \* waiting[p], signals sent to p and not taken
  context   \* context[p], the points reached by the program and by each
            \*   handler that interrupts it, and who came there

vars == <<number, action, waiting, context>>

First(p) == <<[of |-> p, step |-> 0]>>

Init ==
  /\ number = 1
  /\ action = [p \in Tasks |-> [s \in Sigs |-> Default]]
  /\ waiting = [p \in Tasks |-> {}]
  /\ context = [p \in Tasks |-> First(p)]

\* The call of p that has led to w and c ends, with these actions of p.
Take(p, acts, w, c) ==
  \/ w[p] = {} /\ waiting' = w /\ context' = c
  \/ \E s \in w[p] :
       /\ waiting' = [q \in Tasks |-> IF q = p THEN w[p] \ {s} ELSE w[q]]
       /\ context' = IF acts[s] \in Handlers
                     THEN [c EXCEPT ![p] = c[p] \o First(p)] ELSE c

\* p goes on behind its call.
Past(p) == [context[p] EXCEPT ![Len(context[p])].step = (@ + 1) % Steps]
Moved(p) == [context EXCEPT ![p] = Past(p)]

Install(p) ==
  \E s \in Sigs \ Fixed, a \in Actions :
    LET acts == [action[p] EXCEPT ![s] = a] IN
    /\ action' = [action EXCEPT ![p] = acts]
    /\ Take(p, acts, waiting, Moved(p))
    /\ UNCHANGED number

Send(p) ==
  /\ \E q \in 1..number, s \in Sigs :
       Take(p, action[p], [waiting EXCEPT ![q] = waiting[q] \cup {s}], Moved(p))
  /\ UNCHANGED <<number, action>>

\* A task like p joins: what p was sent waits for it too.
Join(p) ==
  LET q == number + 1 IN
  /\ q \in Tasks
  /\ number' = q
  /\ action' = [action EXCEPT ![q] = action[p]]
  /\ Take(p, action[p], [waiting EXCEPT ![q] = waiting[p]],
          [Moved(p) EXCEPT ![q] = [Past(p) EXCEPT ![Len(Past(p))].of = q]])

Call(p) ==
  /\ Take(p, action[p], waiting, Moved(p))
  /\ UNCHANGED <<number, action>>

Return(p) ==
  /\ Len(context[p]) > 1
  /\ Take(p, action[p], waiting, [context EXCEPT ![p] = Front(context[p])])
  /\ UNCHANGED <<number, action>>

Next == \E p \in 1..number : Install(p) \/ Send(p) \/ Join(p) \/ Call(p) \/ Return(p)

Spec == Init /\ [][Next]_vars
=============================================================================
