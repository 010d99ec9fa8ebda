------------------------------ MODULE Signals ------------------------------
(***************************************************************************)
(* Signals: rt_sigaction, kill, delivery at the exit of a system call,     *)
(* rt_sigreturn, and what do_fork does with them.                          *)
(*                                                                         *)
(* A system call runs to its end with interrupts off, so that calls of     *)
(* different tasks interleave as wholes.  A task's user registers are      *)
(* known by how far the program and the handlers it runs have come, and by *)
(* the task that came there: a child goes on from its parent's points.  The *)
(* frame of a delivery lies at the base of the physical page of the stack, *)
(* written through the kernel's mapping, whoever shares that page.  The    *)
(* programs keep their stack above the frame and within one page.          *)
(*                                                                         *)
(* Nothing in the kernel sets a bit of signal->blocked or reads sa_mask    *)
(* and sa_flags; they are left out.                                        *)
(*                                                                         *)
(* Operators named after a defect (FlagForgotten ...) are not used: each   *)
(* is a wrong form of the definition after it that the properties must     *)
(* tell from the right one.                                                *)
(***************************************************************************)
EXTENDS Naturals, SequencesExt

CONSTANTS
  NSIG,       \* _NSIG, and the bits of a word of pending signals
  SIGKILL,
  SIGSTOP,
  SIG_DFL,
  SIG_IGN,
  Handlers,   \* functions a program may install
  MaxTasks,   \* bound: tasks
  Steps,      \* bound: program points told apart
  CallDepth,  \* handlers one inside the other that make calls, 0 for none
  BareCalls   \* whether a call may follow fork with no write to the stack

Sigs == 1..(NSIG - 1)
Actions == {SIG_DFL, SIG_IGN} \cup Handlers
Tasks == 1..MaxTasks

ASSUME SignalAssumption ==
  /\ NSIG \in Nat \ {0, 1}
  /\ SIGKILL \in Sigs /\ SIGSTOP \in Sigs
  /\ SIG_DFL \notin Handlers /\ SIG_IGN \notin Handlers
  /\ MaxTasks \in Nat \ {0}
  /\ Steps \in Nat \ {0}
  /\ CallDepth \in Nat
  /\ BareCalls \in BOOLEAN

VARIABLES
  task_num,  \* the last pid given out
  action,    \* action[p][sig]
  pending,   \* pending[p], the bits of signal->sigpending
  flag,      \* flag[p], _TIF_SIGPENDING
  regs,      \* regs[p], the user's registers: the points reached by the
             \*   program and by each handler on top of it
  page,      \* page[p], the physical page of the stack
  frame      \* frame[g], the registers saved at the base of page g

vars == <<task_num, action, pending, flag, regs, page, frame>>

Existing == 1..task_num

Bits == 0..(NSIG - 1)
Contexts == Seq([of : Tasks, step : 0..(Steps - 1)]) \ {<<>>}

\* As many pages as tasks are enough: each has one stack.
TypeOK ==
  /\ task_num \in Tasks
  /\ action \in [Tasks -> [Sigs -> Actions]]
  /\ pending \in [Tasks -> SUBSET Bits]
  /\ flag \in [Tasks -> BOOLEAN]
  /\ regs \in [Tasks -> Contexts]
  /\ page \in [Tasks -> Tasks]
  /\ frame \in [Tasks -> Contexts]

\* sigmask: for signal 0 the shift by -1 reaches the last bit of the word.
Bit(sig) == IF sig = 0 THEN NSIG - 1 ELSE sig - 1

\* What task p runs from its first instruction.
Start(p) == <<[of |-> p, step |-> 0]>>

\* task_init.
Init ==
  /\ task_num = 1
  /\ action = [p \in Tasks |-> [s \in Sigs |-> SIG_DFL]]
  /\ pending = [p \in Tasks |-> {}]
  /\ flag = [p \in Tasks |-> FALSE]
  /\ regs = [p \in Tasks |-> Start(p)]
  /\ page = [p \in Tasks |-> p]
  /\ frame = [g \in Tasks |-> Start(g)]

-----------------------------------------------------------------------------
(* The user's side                                                         *)

\* Task p enters a handler on top of context c.
Entered(p, c) == c \o Start(p)

\* The call of context c returns: the registers go on behind the ecall.
Returned(c) == [c EXCEPT ![Len(c)].step = (@ + 1) % Steps]

InHandler(p) == Len(regs[p]) > 1

Shared(p) == \E q \in Existing \ {p} : page[q] = page[p]

MayCall(p) ==
  /\ p \in Existing
  /\ Len(regs[p]) <= 1 + CallDepth
  /\ BareCalls \/ ~Shared(p)

\* do_page_fault, when user code writes to a stack it shares since a fork.
WriteStack(p) ==
  /\ p \in Existing
  /\ Shared(p)
  /\ \E g \in Tasks \ {page[q] : q \in Existing} :
       /\ page' = [page EXCEPT ![p] = g]
       /\ frame' = [frame EXCEPT ![g] = frame[page[p]]]
  /\ UNCHANGED <<task_num, action, pending, flag, regs>>

-----------------------------------------------------------------------------
(* Delivery                                                                *)

\* The signals get_signal finds among the pending bits: never the last bit.
Deliverable(bits) == {s \in Sigs : Bit(s) \in bits}

HighestSignal(bits) == CHOOSE s \in Deliverable(bits) : \A r \in Deliverable(bits) : r <= s

\* get_signal: the first of several.
NextSignal(bits) == CHOOSE s \in Deliverable(bits) : \A r \in Deliverable(bits) : s <= r

FlagForgotten(set, bits) == FALSE

\* recalc_sigpending: the flag stays while any bit is left.
FlagLeft(set, bits) == set /\ bits # {}

FrameLost(p, c) == UNCHANGED frame

\* setup_rt_frame, what it saves: the context c that the handler interrupts.
SaveFrame(p, c) == frame' = [frame EXCEPT ![page[p]] = c]

\* syscall_exit_to_user_mode of task p, with these actions of p, pending bits,
\* flags and registers: one signal is taken.
ExitToUser(p, acts, bits, flags, r) ==
  IF flags[p] /\ Deliverable(bits[p]) # {}
  THEN LET sig  == NextSignal(bits[p])
           left == bits[p] \ {Bit(sig)} IN
       /\ pending' = [bits EXCEPT ![p] = left]
       /\ flag' = [flags EXCEPT ![p] = FlagLeft(flags[p], left)]
       /\ IF acts[sig] \in {SIG_IGN, SIG_DFL}
          THEN regs' = r /\ UNCHANGED frame
          ELSE regs' = [r EXCEPT ![p] = Entered(p, r[p])] /\ SaveFrame(p, r[p])
  ELSE pending' = bits /\ flag' = flags /\ regs' = r /\ UNCHANGED frame

\* The registers when a call of p, any but rt_sigreturn, has returned.
After(p) == [regs EXCEPT ![p] = Returned(regs[p])]

-----------------------------------------------------------------------------
(* System calls                                                            *)

SettableAlways(signum) == signum \in Sigs

\* sys_sigaction, when it is given a new action.
Settable(signum) == signum \in Sigs \ {SIGKILL, SIGSTOP}

\* rt_sigaction.  The new action is in place for this call's own delivery.
SysSigaction(p) ==
  /\ MayCall(p)
  /\ \E signum \in Sigs, act \in Actions :
       LET acts == IF Settable(signum) THEN [action[p] EXCEPT ![signum] = act]
                   ELSE action[p] IN
       /\ action' = [action EXCEPT ![p] = acts]
       /\ ExitToUser(p, acts, pending, flag, After(p))
  /\ UNCHANGED <<task_num, page>>

\* send_signal, the flags after it.
SendFlags(task) == [flag EXCEPT ![task] = TRUE]

\* kill, of a task there is and a signal in range; else OtherCall.
SysKill(p) ==
  /\ MayCall(p)
  /\ \E pid \in Existing, sig \in 0..(NSIG - 1) :
       ExitToUser(p, action[p],
                  [pending EXCEPT ![pid] = @ \cup {Bit(sig)}],
                  SendFlags(pid), After(p))
  /\ UNCHANGED <<task_num, action, page>>

\* clone: the child copies the actions, the pending bits and the flag, and
\* shares the stack.  It starts behind the call, with no delivery of its own.
DoFork(p) ==
  LET pid == task_num + 1 IN
  /\ MayCall(p)
  /\ pid \in Tasks
  /\ task_num' = pid
  /\ action' = [action EXCEPT ![pid] = action[p]]
  /\ page' = [page EXCEPT ![pid] = page[p]]
  /\ ExitToUser(p, action[p],
                [pending EXCEPT ![pid] = pending[p]],
                [flag EXCEPT ![pid] = flag[p]],
                [After(p) EXCEPT ![pid] = [Returned(regs[p]) EXCEPT ![Len(regs[p])].of = pid]])

\* Any other call, and those that fail.
OtherCall(p) ==
  /\ MayCall(p)
  /\ ExitToUser(p, action[p], pending, flag, After(p))
  /\ UNCHANGED <<task_num, action, page>>

\* rt_sigreturn, the trampoline's call when a handler returns.
SysRtSigreturn(p) ==
  /\ p \in Existing
  /\ InHandler(p)
  /\ ExitToUser(p, action[p], pending, flag,
                [regs EXCEPT ![p] = frame[page[p]]])
  /\ UNCHANGED <<task_num, action, page>>

Next == \E p \in Tasks :
  \/ WriteStack(p)
  \/ SysSigaction(p)
  \/ SysKill(p)
  \/ DoFork(p)
  \/ OtherCall(p)
  \/ SysRtSigreturn(p)

\* Every task is scheduled, goes on making calls, and every handler returns.
Fairness == \A p \in Tasks :
  /\ WF_vars(WriteStack(p))
  /\ WF_vars(OtherCall(p))
  /\ WF_vars(SysRtSigreturn(p))

Spec == Init /\ [][Next]_vars /\ Fairness
-----------------------------------------------------------------------------
(* Properties                                                              *)

\* A task has the flag as long as it has pending bits, so that a signal is
\* neither missed at the exit nor looked for in vain: send_signal,
\* recalc_sigpending and do_fork together.
FlagTracksPending == \A p \in Existing : flag[p] <=> pending[p] # {}
\* A handler returns to what it interrupted, whatever has happened meanwhile:
\* the frame of setup_rt_frame is still there for sys_rt_sigreturn.
ResumesInterrupted ==
  [][\A p \in Tasks : SysRtSigreturn(p) =>
       regs'[p] \in {Front(regs[p]), Entered(p, Front(regs[p]))}]_vars

\* A signal that waits is taken, unless lower ones come again and again:
\* get_signal takes the lowest, one at each exit.
SignalsTaken == \A p \in Tasks, s \in Sigs :
  \/ []<>(Bit(s) \notin pending[p])
  \/ []<>(\E r \in 1..(s - 1) : Bit(r) \in pending[p])

\* The programs see signals taken once each, and handlers that return to what
\* they interrupted, although the frames lie in pages that fork shares.
Service == INSTANCE SignalService WITH
             Fixed <- {SIGKILL, SIGSTOP}, Default <- SIG_DFL,
             number <- task_num, context <- regs,
             waiting <- [p \in Tasks |-> Deliverable(pending[p])]
RefinesSignalService == Service!Spec
=============================================================================
