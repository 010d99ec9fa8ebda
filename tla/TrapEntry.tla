----------------------------- MODULE TrapEntry -----------------------------
(***************************************************************************)
(* entry.S: the way into the kernel and out of it, from user code and from *)
(* kernel code that faults on a user address, and the context switch.      *)
(*                                                                         *)
(* Of the registers, sp and t0 are modelled, which the entry itself uses,  *)
(* and x, which stands for all the others.  A stack pointer is the stack   *)
(* it points into and how many frames lie on it; stack 0 is the user stack *)
(* of the running task, stack p the one page that holds thread p.  The C   *)
(* functions between an entry and its exit use no stack of their own here. *)
(* Left out because they are overwritten before anything reads them: the   *)
(* slot of t0 in the frame, and s0-s11, stval and scause in the thread.    *)
(*                                                                         *)
(* Operators named after a defect (SameStack ...) are not used: each is a  *)
(* wrong form of the definition after it that the properties must tell     *)
(* from the right one.                                                     *)
(***************************************************************************)
EXTENDS Integers, SequencesExt

CONSTANTS
  MaxTasks,   \* bound: tasks
  Points,     \* bound: points and call depths of the user program
  MaxFrames,  \* bound: frames told apart on a stack
  BareCalls   \* whether a program may pass a user address to the kernel
              \* before it has written to its stack since the last fork

Tasks == 1..MaxTasks
User == 0..(Points - 1)

ASSUME TrapAssumption ==
  /\ MaxTasks \in Nat \ {0}
  /\ Points \in Nat \ {0}
  /\ MaxFrames \in Nat /\ Points < MaxFrames
  /\ BareCalls \in BOOLEAN

VARIABLES
  current,   \* the running thread, 0 for idle
  task_num,  \* the last pid given out
  mode,      \* privilege: "U" or "S"
  pc,        \* a point of the user program, or a place in the kernel
  reg,       \* registers sp, t0 and x
  sepc,
  scause,    \* and stval: a page fault is at a user address
  sscratch,
  sstatus,   \* its bits SPP, SPIE and SIE
  frames,    \* frames[p].user[d], frames[p].kernel[d]: pt_regs on a stack of p
  thread,    \* thread[p], thread_struct
  writable,  \* writable[p]: user pages p may write without a fault
  taken      \* history: taken[p], the contexts p has to go back to

hart == <<mode, pc, reg, sepc, scause, sscratch, sstatus>>
vars == <<hart, current, task_num, frames, thread, writable, taken>>

Existing == 1..task_num

\* A user address is on a page of data or of the stack, or it is wild: in no area
\* of the task, or in one that does not allow the access.
Pages == {"data", "stack"}
Addresses == Pages \cup {"wild"}
Causes == {"timer", "ecall"} \cup Addresses

\* Places of the kernel: start_kernel, the stores of _traps, trap_handler, the
\* body of a system call, its accesses to user addresses, restore, and __dummy.
Places == {"boot", "save", "handler", "call", "restore", "__dummy"} \cup Addresses
PCs == [place : {"user"}, at : User] \cup [place : Places, at : {0}]
Point(n) == [place |-> "user", at |-> n]
Place(name) == [place |-> name, at |-> 0]

Stacks == [stack : {0} \cup Tasks, depth : 0..MaxFrames]
Top(p) == [stack |-> p, depth |-> 0]
Below(s) == [s EXCEPT !.depth = @ + 1]
Above(s) == [s EXCEPT !.depth = @ - 1]

Junk == Points  \* what C code leaves in x
Xs == 0..Points
T0s == Stacks \cup [word : Xs]
Word(x) == [word |-> x]

PtRegs == [sp : Stacks, x : Xs, sepc : PCs]
Status == [spp : {"U", "S"}, spie : BOOLEAN, sie : BOOLEAN]
Thread == [ra : PCs, sp : Stacks, sepc : PCs,
           sscratch : Stacks, sstatus : Status]

\* Interrupts stay off in the kernel: head.S does not set SIE.  The first task
\* enters user mode with them on.
BootStatusEnabled == [spp |-> "U", spie |-> TRUE, sie |-> TRUE]
BootStatus == [spp |-> "U", spie |-> TRUE, sie |-> FALSE]

\* The thread made by task_init: __dummy takes it to the first instruction.
FirstThread(p) ==
  [ra |-> Place("__dummy"), sp |-> Top(p), sepc |-> Point(0), sscratch |-> Top(0),
   sstatus |-> BootStatus]

Context == [sp |-> reg.sp, x |-> reg.x, pc |-> pc, mode |-> mode]

Init ==
  LET blank == [sp |-> Top(0), x |-> 0, sepc |-> Point(0)]
      page == [d \in 1..MaxFrames |-> blank]
      start == [sp |-> Top(0), x |-> 0, pc |-> Point(0), mode |-> "U"]
  IN /\ current = 0 /\ task_num = 1
     /\ mode = "S" /\ pc = Place("boot")
     /\ reg = [sp |-> Top(0), t0 |-> Word(Junk), x |-> Junk]
     /\ sepc = Point(0) /\ scause = "timer"
     /\ sscratch = Top(0)
     /\ sstatus = BootStatus
     /\ frames = [p \in Tasks |-> [user |-> page, kernel |-> page]]
     /\ thread = [p \in {0} \cup Tasks |-> FirstThread(p)]
     /\ writable = [p \in Tasks |-> {}]
     /\ taken = [p \in Tasks |-> IF p = 1 THEN <<start>> ELSE <<>>]

\* The frame that a stack pointer of the running task points to.
Frame(s) == IF s.stack = 0 THEN frames[current].user[s.depth]
            ELSE frames[s.stack].kernel[s.depth]

Store(s, f) ==
  frames' = IF s.stack = 0
            THEN [frames EXCEPT ![current].user[s.depth] = f]
            ELSE [frames EXCEPT ![s.stack].kernel[s.depth] = f]

-----------------------------------------------------------------------------
\* The hart takes a trap, and _traps runs up to its first store: t0 has the old
\* sp, which is exchanged with sscratch and moved down by one frame.
Trap(cause) ==
  /\ sepc' = pc
  /\ scause' = cause
  /\ mode' = "S"
  /\ sstatus' = [spp |-> mode, spie |-> sstatus.sie, sie |-> FALSE]
  /\ reg' = [reg EXCEPT !.t0 = reg.sp, !.sp = Below(sscratch)]
  /\ sscratch' = reg.sp
  /\ pc' = Place("save")
  /\ taken' = [taken EXCEPT ![current] = Append(@, Context)]
  /\ UNCHANGED <<current, task_num, frames, thread, writable>>

\* A step of the user program that makes no trap: it computes, it writes to its
\* stack if it can, it calls and returns.  Point n is n calls deep, and the
\* registers hold n there.
UserStep ==
  /\ mode = "U" /\ pc.place = "user"
  /\ \E n \in User :
       /\ n > reg.sp.depth => "stack" \in writable[current]
       /\ pc' = Point(n)
       /\ reg' = [sp |-> [reg.sp EXCEPT !.depth = n], t0 |-> Word(n), x |-> n]
  /\ UNCHANGED <<mode, sepc, scause, sscratch, sstatus, current, task_num,
                 frames, thread, writable, taken>>

UserFault(address) ==
  /\ mode = "U" /\ pc.place = "user"
  /\ address \notin writable[current]
  /\ Trap(address)

Ecall == mode = "U" /\ pc.place = "user" /\ Trap("ecall")

\* User mode can always be interrupted, the kernel when SIE is set.
TimerInterrupt == current # 0 /\ (mode = "U" \/ sstatus.sie) /\ Trap("timer")

-----------------------------------------------------------------------------
\* _traps stores the registers.  In a trap from the kernel the frame is on the
\* stack sscratch pointed to, the user's, and the first store may fault.
SavedFrameOfHandler == [sp |-> reg.sp, x |-> reg.x, sepc |-> sepc]
SavedFrame == [sp |-> reg.t0, x |-> reg.x, sepc |-> sepc]

StoreFaults == reg.sp.stack = 0 /\ "stack" \notin writable[current]

Save ==
  /\ mode = "S" /\ pc = Place("save")
  /\ IF StoreFaults
     THEN Trap("stack")
     ELSE /\ Store(reg.sp, SavedFrame)
          /\ reg' = [reg EXCEPT !.t0 = Word(Junk), !.x = Junk]
          /\ pc' = Place("handler")
          /\ UNCHANGED <<mode, sepc, scause, sscratch, sstatus, current,
                         task_num, thread, writable, taken>>

\* __switch_to: the thread is stored and the next one is loaded; ra leads
\* through the callers, which all return, to restore.
SwitchTo(next) ==
  LET t == thread[next] IN
  /\ thread' = [thread EXCEPT ![current] =
                  [ra |-> Place("restore"), sp |-> reg.sp, sepc |-> sepc,
                   sscratch |-> sscratch, sstatus |-> sstatus]]
  /\ current' = next
  /\ reg' = [reg EXCEPT !.sp = t.sp]
  /\ pc' = t.ra
  /\ sepc' = t.sepc /\ sscratch' = t.sscratch /\ sstatus' = t.sstatus
  /\ UNCHANGED <<mode, scause, task_num, frames, writable, taken>>

\* start_kernel calls schedule.
Boot == mode = "S" /\ pc = Place("boot") /\ \E next \in Existing : SwitchTo(next)

InHandler(cause) == mode = "S" /\ pc = Place("handler") /\ scause = cause

\* do_timer returns, or schedule finds another task.
Tick ==
  /\ InHandler("timer")
  /\ pc' = Place("restore")
  /\ UNCHANGED <<mode, reg, sepc, scause, sscratch, sstatus, current, task_num,
                 frames, thread, writable, taken>>

TickSwitches ==
  InHandler("timer") /\ \E next \in Existing \ {current} : SwitchTo(next)

\* do_page_fault makes the page writable; at a wild address it does nothing.
ResolvedForUser(address) ==
  IF Frame(reg.sp).sp.stack = 0 THEN writable[current] \cup ({address} \cap Pages)
  ELSE writable[current]
Resolved(address) == writable[current] \cup ({address} \cap Pages)

PageFault(address) ==
  /\ InHandler(address)
  /\ writable' = [writable EXCEPT ![current] = Resolved(address)]
  /\ pc' = Place("restore")
  /\ UNCHANGED <<mode, reg, sepc, scause, sscratch, sstatus, current, task_num,
                 frames, thread, taken>>

-----------------------------------------------------------------------------
\* syscall_handler begins to work, with a value of its own in x.
Syscall ==
  /\ InHandler("ecall")
  /\ pc' = Place("call")
  /\ reg' = [reg EXCEPT !.x = 0]
  /\ UNCHANGED <<mode, sepc, scause, sscratch, sstatus, current, task_num,
                 frames, thread, writable, taken>>

\* It comes to an access to a user address that is not writable yet.
Copy(address) ==
  /\ mode = "S" /\ pc = Place("call")
  /\ BareCalls \/ "stack" \in writable[current]
  /\ address \notin writable[current]
  /\ pc' = Place(address)
  /\ UNCHANGED <<mode, reg, sepc, scause, sscratch, sstatus, current, task_num,
                 frames, thread, writable, taken>>

\* The access faults, and again whenever the return finds it as it was, or it is
\* made and the call goes on.
CopyFault(address) ==
  /\ mode = "S" /\ pc = Place(address)
  /\ address \notin writable[current]
  /\ Trap(address)

CopyDone(address) ==
  /\ mode = "S" /\ pc = Place(address)
  /\ address \in writable[current]
  /\ pc' = Place("call")
  /\ UNCHANGED <<mode, reg, sepc, scause, sscratch, sstatus, current, task_num,
                 frames, thread, writable, taken>>

AfterEcall(point) == Point((point.at + 1) % Points)
Answered(f, x) == [f EXCEPT !.sepc = AfterEcall(@), !.x = x]
Expected(c, x) == [c EXCEPT !.pc = AfterEcall(@), !.x = x]

\* The result goes into the frame, and sepc moves past the ecall.
SysReturn ==
  /\ mode = "S" /\ pc = Place("call")
  /\ \E x \in User :
       /\ Store(reg.sp, Answered(Frame(reg.sp), x))
       /\ taken' = [taken EXCEPT ![current] = Front(@) \o <<Expected(Last(@), x)>>]
  /\ reg' = [reg EXCEPT !.x = Junk]
  /\ pc' = Place("restore")
  /\ UNCHANGED <<mode, sepc, scause, sscratch, sstatus, current, task_num,
                 thread, writable>>

\* Where the stack of the new thread begins: as far down its page as the
\* parent's frame.
SameStack(child) == reg.sp
ChildStack(child) == [reg.sp EXCEPT !.stack = child]

\* do_fork: the child's thread goes on at restore, with a copy of the frame; its
\* sepc is whatever its page held.  No user page is writable any more.
DoFork ==
  LET child == task_num + 1 IN
  /\ mode = "S" /\ pc = Place("call")
  /\ child \in Tasks
  /\ task_num' = child
  /\ \E junk \in User :
       thread' = [thread EXCEPT ![child] =
                    [ra |-> Place("restore"), sp |-> ChildStack(child), sepc |-> Point(junk),
                     sscratch |-> sscratch, sstatus |-> thread[current].sstatus]]
  /\ \E x \in User \ {0} :
       LET f == Frame(reg.sp)  c == Last(taken[current]) IN
       /\ frames' = [frames EXCEPT
                       ![current].kernel[reg.sp.depth] = Answered(f, x),
                       ![child].kernel[reg.sp.depth] = Answered(f, 0),
                       ![child].user = frames[current].user]
       /\ taken' = [taken EXCEPT ![current] = <<Expected(c, x)>>,
                                 ![child] = <<Expected(c, 0)>>]
  /\ writable' = [writable EXCEPT ![current] = {}, ![child] = {}]
  /\ reg' = [reg EXCEPT !.x = Junk]
  /\ pc' = Place("restore")
  /\ UNCHANGED <<mode, sepc, scause, sscratch, sstatus, current>>

-----------------------------------------------------------------------------
\* sret: to the mode in SPP, with SIE as it was before the trap.
Sret(target) ==
  /\ mode' = sstatus.spp
  /\ sstatus' = [spp |-> "U", spie |-> TRUE, sie |-> sstatus.spie]
  /\ pc' = target
  /\ sepc' = target
  /\ taken' = [taken EXCEPT ![current] = Front(@)]

\* restore: the registers from the frame, sp into sscratch, and sp by way of t0,
\* which keeps it.
Restore ==
  LET f == Frame(reg.sp) IN
  /\ mode = "S" /\ pc = Place("restore")
  /\ Sret(f.sepc)
  /\ reg' = [sp |-> f.sp, t0 |-> f.sp, x |-> f.x]
  /\ sscratch' = Above(reg.sp)
  /\ UNCHANGED <<scause, current, task_num, frames, thread, writable>>

Dummy ==
  /\ mode = "S" /\ pc = Place("__dummy")
  /\ Sret(sepc)
  /\ reg' = [reg EXCEPT !.sp = sscratch]
  /\ sscratch' = reg.sp
  /\ UNCHANGED <<scause, current, task_num, frames, thread, writable>>

Kernel ==
  \/ Boot \/ Save \/ Tick \/ TickSwitches \/ Syscall \/ SysReturn
  \/ DoFork \/ Restore \/ Dummy
  \/ \E address \in Addresses :
       PageFault(address) \/ Copy(address) \/ CopyFault(address) \/ CopyDone(address)

Next ==
  \/ Kernel \/ UserStep \/ Ecall \/ TimerInterrupt
  \/ \E address \in Addresses : UserFault(address)

Spec == Init /\ [][Next]_vars
FairSpec == Spec /\ WF_vars(Kernel)

-----------------------------------------------------------------------------
TypeOK ==
  /\ current \in {0} \cup Tasks
  /\ task_num \in Tasks
  /\ mode \in {"U", "S"}
  /\ pc \in PCs
  /\ reg \in [sp : Stacks, t0 : T0s, x : Xs]
  /\ sepc \in PCs
  /\ scause \in Causes
  /\ sscratch \in Stacks
  /\ sstatus \in Status
  /\ frames \in [Tasks -> [user : [1..MaxFrames -> PtRegs],
                           kernel : [1..MaxFrames -> PtRegs]]]
  /\ thread \in [{0} \cup Tasks -> Thread]
  /\ writable \in [Tasks -> SUBSET Pages]

\* The state has its types, which bounds the frames on a stack; and while user
\* code runs, sscratch is the empty kernel stack of that task, and of no other:
\* the next trap of it builds its frame there (entry.S:13).
ScratchIsKernelStack == TypeOK /\ (mode = "U" => sscratch = Top(current))

\* No interrupt is taken in the kernel: neither the traps inside it nor the
\* switches from thread to thread ever leave SIE set there, so the handlers and
\* schedule need no locks (trap.c, proc.c).
KernelUninterrupted == mode = "S" => ~sstatus.sie

Returning == mode = "S" /\ pc.place \in {"restore", "__dummy"}

\* A return goes back to the innermost context that was interrupted: same stack,
\* same place (past an ecall), same privilege, and from restore the same
\* registers, x0-x31 but for t0; also when the thread was switched away, or was
\* made by a fork, in between (entry.S:59, entry.S:110).
ContextRestored ==
  [][Returning => LET c == Last(taken[current]) IN
       /\ reg'.sp = c.sp /\ pc' = c.pc /\ mode' = c.mode
       /\ pc = Place("restore") => reg'.x = c.x]_vars

\* A system call at an access to a wild address, or in the trap that it made.
AtWildAddress ==
  /\ mode = "S" /\ current # 0
  /\ \/ pc = Place("wild")
     \/ taken[current] # <<>> /\ Last(taken[current]).pc = Place("wild")

\* The kernel always comes back to user code, whatever pages it has to make
\* writable for itself while it traps in its own traps; the one exception is a
\* system call that was given a wild address: do_page_fault returns without a
\* mapping, and the same access faults for ever (trap.c:131, trap.c:17).
KernelReturns == []<>(mode = "U") \/ <>[]AtWildAddress
=============================================================================
