----------------------------- MODULE Scheduler -----------------------------
(***************************************************************************)
(* Scheduling: task creation, the timer interrupt and schedule().          *)
(*                                                                         *)
(* User code runs with interrupts on.  The kernel runs with them off, so a *)
(* timer interrupt that arrives while it works stays pending until the     *)
(* return to user mode and is then taken before the next user instruction. *)
(* A read from the console spins in the kernel until the input is there.   *)
(*                                                                         *)
(* Operators named after a defect (BestSmallest ...) are not used: each    *)
(* is a wrong form of the definition after it that the properties must     *)
(* tell from the right one.                                                *)
(***************************************************************************)
EXTENDS Naturals, FiniteSets

CONSTANTS
  NR_TASKS,      \* slots of the task array, the idle thread's included
  PRIORITY_MIN,
  PRIORITY_MAX,
  MaxTasks       \* bound: user tasks the programs create

\* Programs stay inside the task array: do_fork does not look where it ends.
ASSUME SchedulerAssumption ==
  /\ NR_TASKS \in Nat /\ MaxTasks < NR_TASKS
  /\ PRIORITY_MIN \in Nat \ {0}
  /\ PRIORITY_MAX \in Nat /\ PRIORITY_MIN <= PRIORITY_MAX
  /\ MaxTasks \in Nat \ {0}

Tasks == 1..MaxTasks
Priorities == PRIORITY_MIN..PRIORITY_MAX

VARIABLES
  task_num,  \* the last pid given out
  current,   \* pid of the running thread, 0 for idle
  counter,   \* counter[p], ticks left
  priority,  \* priority[p], 0 until p is created
  pending,   \* a timer interrupt is pending
  spinning   \* the kernel waits in uart_getchar

schedulerVars == <<task_num, current, counter, priority, pending, spinning>>

Existing == 1..task_num

SchedulerTypeOK ==
  /\ task_num \in Tasks
  /\ current \in {0} \cup Tasks
  /\ counter \in [Tasks -> 0..PRIORITY_MAX]
  /\ priority \in [Tasks -> {0} \cup Priorities]
  /\ pending \in BOOLEAN
  /\ spinning \in BOOLEAN

SchedulerInit ==
  /\ task_num = 1
  /\ current = 0
  /\ counter = [p \in Tasks |-> 0]
  /\ \E n \in Priorities : priority = [p \in Tasks |-> IF p = 1 THEN n ELSE 0]
  /\ pending = FALSE
  /\ spinning = FALSE

-----------------------------------------------------------------------------
(* schedule                                                                *)

RechargedRunner(c) ==
  [p \in Tasks |-> IF p \in {1, current} THEN (c[p] \div 2) + priority[p] ELSE c[p]]

Recharged(c) == [p \in Tasks |-> IF p \in Existing THEN (c[p] \div 2) + priority[p]
                                 ELSE c[p]]

\* Counters when the loop of schedule ends: recharged if none was left.
Refilled(c) == IF \E p \in Existing : c[p] > 0 THEN c ELSE Recharged(c)

BestSmallest(c) == CHOOSE p \in Existing :
  \A q \in Existing : c[q] > c[p] \/ (c[q] = c[p] /\ p <= q)

\* The task with the largest counter, the first of several.
Best(c) == CHOOSE p \in Existing :
             \A q \in Existing : c[q] < c[p] \/ (c[q] = c[p] /\ p <= q)

Schedule(c) ==
  /\ counter' = Refilled(c)
  /\ current' = Best(Refilled(c))

\* start_kernel, on the idle thread.
StartKernel ==
  /\ current = 0
  /\ Schedule(counter)
  /\ UNCHANGED <<task_num, priority, pending, spinning>>

-----------------------------------------------------------------------------
(* Interrupts                                                              *)

TimerFires ==
  /\ ~pending
  /\ pending' = TRUE
  /\ UNCHANGED <<task_num, current, counter, priority, spinning>>

\* User code runs, and no interrupt comes first.
InUserMode == current # 0 /\ ~spinning

\* Timer interrupt: the next event is set, which clears this one; do_timer.
DoTimer ==
  LET left == [counter EXCEPT ![current] = @ - 1] IN
  /\ InUserMode
  /\ pending
  /\ pending' = FALSE
  /\ IF counter[current] = 0 THEN Schedule(counter)
     ELSE IF left[current] = 0 THEN Schedule(left)
     ELSE counter' = left /\ UNCHANGED current
  /\ UNCHANGED <<task_num, priority, spinning>>

-----------------------------------------------------------------------------
(* System calls                                                            *)

DoForkInherits ==
  /\ InUserMode
  /\ ~pending
  /\ task_num < MaxTasks
  /\ task_num' = task_num + 1
  /\ \E n \in Priorities : priority' = [priority EXCEPT ![task_num + 1] = n]
  /\ counter' = [counter EXCEPT ![task_num + 1] = counter[current]]
  /\ UNCHANGED <<current, pending, spinning>>

\* do_fork: a random priority, and no ticks before the next recharge.
DoFork ==
  /\ InUserMode
  /\ ~pending
  /\ task_num < MaxTasks
  /\ task_num' = task_num + 1
  /\ \E n \in Priorities : priority' = [priority EXCEPT ![task_num + 1] = n]
  /\ counter' = [counter EXCEPT ![task_num + 1] = 0]
  /\ UNCHANGED <<current, pending, spinning>>

ReadConsole ==
  /\ InUserMode
  /\ ~pending
  /\ spinning' = TRUE
  /\ UNCHANGED <<task_num, current, counter, priority, pending>>

\* The characters a read asked for are there.
Input ==
  /\ spinning
  /\ spinning' = FALSE
  /\ UNCHANGED <<task_num, current, counter, priority, pending>>

SchedulerNext ==
  \/ StartKernel
  \/ TimerFires
  \/ DoTimer
  \/ DoFork
  \/ ReadConsole
  \/ Input

\* The hart runs the kernel it has booted; the timer, set again at each
\* interrupt, fires and is taken; whoever reads the console is typed to.
Fairness ==
  /\ WF_schedulerVars(StartKernel)
  /\ WF_schedulerVars(TimerFires)
  /\ WF_schedulerVars(DoTimer)
  /\ WF_schedulerVars(Input)

SchedulerSpec == SchedulerInit /\ [][SchedulerNext]_schedulerVars /\ Fairness
-----------------------------------------------------------------------------
(* Properties                                                              *)

\* The thread user code runs on has ticks left, so the first branch of
\* do_timer, for a counter of zero, is never taken.  Code: schedule and
\* do_timer together, with do_fork adding tasks without ticks in between.
RunnerHasTicks == current # 0 => counter[current] > 0

\* Recharging never lets ticks pile up: counter >> 1 adds nothing, because
\* schedule recharges only when all counters are zero.
NoTicksSaved == \A p \in Existing : counter[p] <= priority[p]

\* Every task in the table runs again and again, whatever is forked and read
\* in the meantime.  Code: schedule, do_timer, do_fork, trap_handler.
EveryTaskRuns == \A p \in Tasks : [](p \in Existing => <>(current = p))

\* schedule and do_timer serve the tasks in rounds, each for as many ticks as
\* its priority.
Rounds == INSTANCE WeightedRounds WITH
            Weights <- Priorities, weight <- priority,
            owed <- counter, running <- current
RefinesWeightedRounds == Rounds!Spec
=============================================================================
