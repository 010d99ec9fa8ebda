-------------------------- MODULE TrapEntry_proofs --------------------------
(***************************************************************************)
(* Theorems about TrapEntry, for every number of tasks and any depth of    *)
(* the user stack.                                                         *)
(***************************************************************************)
EXTENDS TrapEntry, SequenceTheorems, TLAPS

LEMMA ConstantFacts ==
  /\ MaxTasks \in Nat /\ Tasks \subseteq Nat /\ 0 \notin Tasks /\ 1 \in Tasks
  /\ Points \in Nat /\ MaxFrames \in Nat /\ Points < MaxFrames
  /\ 0 \in User /\ User \subseteq Nat
  /\ \A n \in User : n < Points
  BY TrapAssumption DEF Tasks, User

-----------------------------------------------------------------------------
(* Interrupts in the kernel                                                *)

\* Neither on now nor after an sret into the kernel.
Quiet(s) == ~s.sie /\ (s.spp = "S" => ~s.spie)

QInv ==
  /\ current \in {0} \cup Tasks
  /\ task_num \in Tasks
  /\ DOMAIN thread = {0} \cup Tasks
  /\ mode = "S" => Quiet(sstatus)
  /\ \A p \in {0} \cup Tasks : Quiet(thread[p].sstatus)

LEMMA InitQuiet == Init => QInv
  BY ConstantFacts DEF Init, QInv, Quiet, BootStatus, FirstThread

LEMMA TrapQuiet ==
  ASSUME QInv, NEW cause, Trap(cause)
  PROVE  QInv'
  BY DEF QInv, Quiet, Trap

LEMMA SwitchQuiet ==
  ASSUME QInv, mode = "S", NEW next \in Existing, SwitchTo(next)
  PROVE  QInv'
<1>1. next \in Tasks
  BY ConstantFacts DEF QInv, Existing, Tasks
<1>2. DOMAIN thread' = {0} \cup Tasks
  BY DEF QInv, SwitchTo
<1>3. ASSUME NEW p \in {0} \cup Tasks PROVE Quiet(thread'[p].sstatus)
  <2>1. CASE p = current
    BY <2>1 DEF QInv, Quiet, SwitchTo
  <2>2. CASE p # current
    BY <2>2 DEF QInv, Quiet, SwitchTo
  <2>3. QED
    BY <2>1, <2>2
<1>4. Quiet(sstatus')
  BY <1>1 DEF QInv, Quiet, SwitchTo
<1>5. QED
  BY <1>1, <1>2, <1>3, <1>4 DEF QInv, Quiet, SwitchTo

LEMMA ForkQuiet ==
  ASSUME QInv, DoFork
  PROVE  QInv'
<1>1. task_num' \in Tasks /\ mode' = mode /\ sstatus' = sstatus /\ current' = current
  BY DEF DoFork
<1>2. PICK junk \in User :
        thread' = [thread EXCEPT ![task_num + 1] =
                    [ra |-> Place("restore"), sp |-> ChildStack(task_num + 1),
                     sepc |-> Point(junk), sscratch |-> sscratch,
                     sstatus |-> thread[current].sstatus]]
  BY DEF DoFork
<1>3. DOMAIN thread' = {0} \cup Tasks
  BY <1>2 DEF QInv
<1>4. ASSUME NEW p \in {0} \cup Tasks PROVE Quiet(thread'[p].sstatus)
  <2>1. CASE p = task_num + 1
    BY <1>2, <2>1 DEF QInv
  <2>2. CASE p # task_num + 1
    BY <1>2, <2>2 DEF QInv
  <2>3. QED
    BY <2>1, <2>2
<1>5. mode' = "S" => Quiet(sstatus')
  BY <1>1 DEF QInv, Quiet
<1>6. QED
  BY <1>1, <1>3, <1>4, <1>5 DEF QInv

LEMMA NextQuiet == QInv /\ [Next]_vars => QInv'
<1>1. SUFFICES ASSUME QInv, [Next]_vars PROVE QInv'
  OBVIOUS
<1>2. CASE UNCHANGED vars
  BY <1>1, <1>2 DEF QInv, Quiet, vars, hart
<1>3. CASE Boot
  BY <1>1, <1>3, SwitchQuiet DEF Boot
<1>4. CASE TickSwitches
  BY <1>1, <1>4, SwitchQuiet DEF TickSwitches, InHandler
<1>5. CASE DoFork
  BY <1>1, <1>5, ForkQuiet
<1>6. CASE Save
  <2>1. CASE StoreFaults
    BY <1>1, <1>6, <2>1, TrapQuiet DEF Save
  <2>2. CASE ~StoreFaults
    BY <1>1, <1>6, <2>2 DEF Save, QInv, Quiet
  <2>3. QED
    BY <2>1, <2>2
<1>7. CASE Restore
  BY <1>1, <1>7 DEF Restore, Sret, QInv, Quiet
<1>8. CASE Dummy
  BY <1>1, <1>8 DEF Dummy, Sret, QInv, Quiet
<1>9. CASE Tick \/ Syscall \/ SysReturn \/ UserStep
  BY <1>1, <1>9 DEF Tick, Syscall, SysReturn, UserStep, QInv, Quiet
<1>10. ASSUME NEW address \in Addresses,
              PageFault(address) \/ Copy(address) \/ CopyDone(address)
       PROVE  QInv'
  BY <1>1, <1>10 DEF PageFault, Copy, CopyDone, QInv, Quiet
<1>11. ASSUME NEW address \in Addresses, CopyFault(address) \/ UserFault(address)
       PROVE  QInv'
  BY <1>1, <1>11, TrapQuiet DEF CopyFault, UserFault
<1>12. CASE Ecall \/ TimerInterrupt
  BY <1>1, <1>12, TrapQuiet DEF Ecall, TimerInterrupt
<1>13. QED
  BY <1>1, <1>2, <1>3, <1>4, <1>5, <1>6, <1>7, <1>8, <1>9, <1>10, <1>11, <1>12
     DEF Next, Kernel

\* Whatever traps are nested and however threads are switched and forked, the
\* kernel runs with interrupts off (entry.S, head.S, proc.c).
THEOREM NoInterrupts == Spec => []KernelUninterrupted
<1>1. QInv => KernelUninterrupted
  BY DEF QInv, Quiet, KernelUninterrupted
<1>2. QED
  BY InitQuiet, NextQuiet, <1>1, PTL DEF Spec

-----------------------------------------------------------------------------
(* Where every thread stands                                               *)

\* No program passes an address of its stack before it has written to it.
Careful == BareCalls = FALSE

Contexts == [sp : Stacks, x : Xs, pc : PCs, mode : {"U", "S"}]
UserPCs == [place : {"user"}, at : User]
UserStacks == [stack : {0}, depth : User]
Deep(p) == [stack |-> p, depth |-> 1]

\* The addresses that a careful program passes to the kernel, and the places
\* where a call accesses them.
Elsewhere == {"data", "wild"}
Accesses == {Place("data"), Place("wild")}

Matches(f, c) == f.sp = c.sp /\ f.x = c.x /\ f.sepc = c.pc
FromUser(c) == c.mode = "U" /\ c.sp \in UserStacks /\ c.pc \in UserPCs
FromCall(c, p) == c.mode = "S" /\ c.sp = Deep(p) /\ c.pc = Place(scause)

\* Task p has never run, or has one frame on its kernel stack that holds what it
\* has to go back to.
Fresh(p) ==
  /\ Len(taken[p]) = 1
  /\ taken[p][1].sp = Top(0) /\ taken[p][1].pc = Point(0) /\ taken[p][1].mode = "U"
Saved(p) ==
  FromUser(taken[p][1]) /\ Matches(frames[p].kernel[1], taken[p][1])

Ready(p) ==
  \/ /\ Fresh(p)
     /\ thread[p].ra = Place("__dummy") /\ thread[p].sp = Top(p)
     /\ thread[p].sepc = Point(0) /\ thread[p].sscratch = Top(0)
  \/ /\ Len(taken[p]) = 1 /\ Saved(p)
     /\ thread[p].ra = Place("restore") /\ thread[p].sp = Deep(p)
     /\ thread[p].sscratch = taken[p][1].sp

\* The places of the task that runs.
AtBoot ==
  /\ mode = "S" /\ pc = Place("boot") /\ current = 0 /\ task_num = 1
  /\ sstatus.spp = "U"
InUser(p) ==
  /\ mode = "U" /\ pc \in UserPCs /\ taken[p] = <<>>
  /\ reg.sp \in UserStacks /\ sscratch = Top(p)
InDummy(p) ==
  /\ mode = "S" /\ pc = Place("__dummy") /\ sstatus.spp = "U" /\ Fresh(p)
  /\ reg.sp = Top(p) /\ sscratch = Top(0) /\ sepc = Point(0)
Entering(p) ==
  /\ mode = "S" /\ pc = Place("save") /\ sstatus.spp = "U" /\ Len(taken[p]) = 1
  /\ FromUser(taken[p][1])
  /\ reg.sp = Deep(p) /\ reg.x = taken[p][1].x /\ sepc = taken[p][1].pc
  /\ reg.t0 = taken[p][1].sp /\ sscratch = taken[p][1].sp
InKernel(p) ==
  /\ mode = "S" /\ pc \in {Place("handler"), Place("call"), Place("restore")} \cup Accesses
  /\ pc \in Accesses => "stack" \in writable[p]
  /\ sstatus.spp = "U" /\ Len(taken[p]) = 1 /\ Saved(p)
  /\ reg.sp = Deep(p) /\ sscratch = taken[p][1].sp
Nested(p) ==
  /\ mode = "S" /\ sstatus.spp = "S" /\ scause \in Elsewhere /\ Len(taken[p]) = 2
  /\ "stack" \in writable[p] /\ Saved(p) /\ FromCall(taken[p][2], p)
  /\ reg.sp = Below(taken[p][1].sp) /\ sscratch = Deep(p)
  /\ \/ /\ pc = Place("save")
        /\ reg.t0 = Deep(p) /\ reg.x = taken[p][2].x /\ sepc = Place(scause)
     \/ /\ pc \in {Place("handler"), Place("restore")}
        /\ Matches(frames[p].user[taken[p][1].sp.depth + 1], taken[p][2])

Running(p) == InUser(p) \/ InDummy(p) \/ Entering(p) \/ InKernel(p) \/ Nested(p)

Typed == TypeOK /\ taken \in [Tasks -> Seq(Contexts)]

SInv ==
  /\ Typed
  /\ \A p \in {0} \cup Tasks : thread[p].sstatus.spp = "U"
  /\ AtBoot \/ (current \in Existing /\ Running(current))
  /\ \A p \in Existing \ {current} : Ready(p)

RInv == QInv /\ SInv

-----------------------------------------------------------------------------
(* Stacks and contexts                                                     *)

LEMMA StackFacts ==
  /\ Top(0) \in UserStacks /\ Top(0) \in Stacks
  /\ \A p \in Tasks : /\ Top(p) \in Stacks /\ Deep(p) \in Stacks
                      /\ Deep(p).stack = p /\ Deep(p).depth = 1
                      /\ Below(Top(p)) = Deep(p) /\ Above(Deep(p)) = Top(p)
  /\ \A s \in UserStacks : /\ s \in Stacks /\ Below(s) \in Stacks
                           /\ Below(s).stack = 0 /\ Below(s).depth = s.depth + 1
                           /\ s.depth + 1 \in 1..MaxFrames
                           /\ Above(Below(s)) = s
  /\ 1 \in 1..MaxFrames
<1>1. Top(0) \in UserStacks /\ Top(0) \in Stacks
  BY ConstantFacts DEF Top, UserStacks, Stacks
<1>2. ASSUME NEW p \in Tasks
      PROVE  /\ Top(p) \in Stacks /\ Deep(p) \in Stacks
             /\ Deep(p).stack = p /\ Deep(p).depth = 1
             /\ Below(Top(p)) = Deep(p) /\ Above(Deep(p)) = Top(p)
  BY ConstantFacts DEF Top, Deep, Stacks, Below, Above
<1>3. ASSUME NEW s \in UserStacks
      PROVE  /\ s \in Stacks /\ Below(s) \in Stacks
             /\ Below(s).stack = 0 /\ Below(s).depth = s.depth + 1
             /\ s.depth + 1 \in 1..MaxFrames
             /\ Above(Below(s)) = s
  <2>1. PICK n \in User : s = [stack |-> 0, depth |-> n]
    BY DEF UserStacks
  <2>2. n \in 0..MaxFrames /\ n + 1 \in 0..MaxFrames /\ n + 1 \in 1..MaxFrames /\ n + 1 - 1 = n
    BY ConstantFacts
  <2>3. Below(s) = [stack |-> 0, depth |-> n + 1]
    BY <2>1 DEF Below
  <2>4. Above(Below(s)) = [stack |-> 0, depth |-> n]
    BY <2>2, <2>3 DEF Above
  <2>5. QED
    BY <2>1, <2>2, <2>3, <2>4 DEF Stacks
<1>4. QED
  BY <1>1, <1>2, <1>3, ConstantFacts

LEMMA PlaceFacts ==
  /\ \A name \in Places : Place(name) \in PCs
  /\ \A n \in User : Point(n) \in UserPCs
  /\ UserPCs \subseteq PCs
  /\ \A q \in UserPCs : q.place = "user"
  BY ConstantFacts DEF Place, Point, PCs, UserPCs, Places

\* The places that are no access to a user address.
LEMMA OtherPlaces ==
  ASSUME NEW name \in {"boot", "save", "handler", "call", "restore", "__dummy"}
  PROVE  Place(name) \notin Accesses
BY DEF Place, Accesses

LEMMA ContextsGrow ==
  ASSUME NEW s \in Seq(Contexts), NEW c \in Contexts
  PROVE  /\ Append(s, c) \in Seq(Contexts)
         /\ Len(Append(s, c)) = Len(s) + 1
         /\ Append(s, c)[Len(s) + 1] = c
         /\ \A i \in 1..Len(s) : Append(s, c)[i] = s[i]
  OBVIOUS

LEMMA ContextsShrink ==
  ASSUME NEW s \in Seq(Contexts), Len(s) \in {1, 2}
  PROVE  /\ Front(s) \in Seq(Contexts)
         /\ Len(s) = 1 => Front(s) = <<>> /\ Last(s) = s[1]
         /\ Len(s) = 2 => Len(Front(s)) = 1 /\ Front(s)[1] = s[1] /\ Last(s) = s[2]
         /\ Last(s) \in Contexts
  BY DEF Front, Last

LEMMA SomeTask ==
  ASSUME RInv
  PROVE  /\ Existing \subseteq Tasks /\ task_num \in Existing
         /\ 0 \notin Existing
         /\ AtBoot \/ (current \in Tasks /\ current # 0)
  BY ConstantFacts DEF RInv, SInv, QInv, Existing, Tasks

LEMMA RegFacts ==
  /\ 0 \in Xs /\ Junk \in Xs /\ Word(Junk) \in T0s /\ Stacks \subseteq T0s
  /\ \A n \in User : n \in Xs /\ Word(n) \in T0s
  /\ RInv => reg \in [sp : Stacks, t0 : T0s, x : Xs]
<1>1. 0 \in Xs /\ Junk \in Xs /\ \A n \in User : n \in Xs
  BY ConstantFacts DEF Xs, Junk
<1>2. RInv => reg \in [sp : Stacks, t0 : T0s, x : Xs]
  BY DEF RInv, SInv, Typed, TypeOK
<1>3. QED
  BY <1>1, <1>2 DEF T0s, Word

\* What a step leaves alone stays ready to run.
LEMMA OthersStayReady ==
  ASSUME RInv, UNCHANGED <<current, task_num, thread>>,
         \A p \in Tasks \ {current} :
            taken'[p] = taken[p] /\ frames'[p].kernel[1] = frames[p].kernel[1]
  PROVE  \A p \in Existing' \ {current'} : Ready(p)'
  BY SomeTask DEF RInv, SInv, Existing, Ready, Fresh, Saved

LEMMA InitRunning == Init => SInv
<1>1. SUFFICES ASSUME Init PROVE SInv
  OBVIOUS
<1>2. /\ Point(0) \in PCs /\ Place("boot") \in PCs /\ Place("__dummy") \in PCs
      /\ Top(0) \in Stacks /\ Word(0) \in T0s /\ Word(Junk) \in T0s
      /\ 0 \in Xs /\ Junk \in Xs
  BY ConstantFacts, PlaceFacts, StackFacts DEF Places, T0s, Word, Xs, Junk
<1>3. BootStatus \in Status
  BY DEF BootStatus, Status
<1>4. [sp |-> Top(0), x |-> 0, sepc |-> Point(0)] \in PtRegs
  BY <1>2 DEF PtRegs
<1>5. ASSUME NEW p \in {0} \cup Tasks PROVE FirstThread(p) \in Thread
  BY <1>2, <1>3, StackFacts DEF FirstThread, Thread
<1>6. TypeOK
  BY <1>1, <1>2, <1>3, <1>4, <1>5, ConstantFacts DEF Init, TypeOK, Causes
<1>7. [sp |-> Top(0), x |-> 0, pc |-> Point(0), mode |-> "U"] \in Contexts
  BY <1>2 DEF Contexts
<1>8. taken \in [Tasks -> Seq(Contexts)]
  BY <1>1, <1>7 DEF Init
<1>9. \A p \in {0} \cup Tasks : thread[p].sstatus.spp = "U"
  BY <1>1 DEF Init, FirstThread, BootStatus
<1>10. AtBoot
  BY <1>1 DEF Init, AtBoot, BootStatus
<1>11. ASSUME NEW p \in Existing PROVE Ready(p)
  <2>1. p = 1 /\ p \in Tasks
    BY <1>1, ConstantFacts DEF Init, Existing
  <2>2. taken[p] = <<[sp |-> Top(0), x |-> 0, pc |-> Point(0), mode |-> "U"]>>
    BY <1>1, <2>1 DEF Init
  <2>3. thread[p] = FirstThread(p)
    BY <1>1, <2>1 DEF Init
  <2>4. QED
    BY <2>2, <2>3 DEF Ready, Fresh, FirstThread
<1>12. QED
  BY <1>6, <1>8, <1>9, <1>10, <1>11 DEF SInv, Typed

-----------------------------------------------------------------------------
(* Into the kernel                                                         *)

LEMMA TrapEffect ==
  ASSUME RInv, current \in Tasks, NEW cause \in Causes, Trap(cause),
         Below(sscratch) \in Stacks
  PROVE  /\ Typed'
         /\ taken'[current] = Append(taken[current], Context)
         /\ \A p \in Existing' \ {current'} : Ready(p)'
         /\ \A p \in {0} \cup Tasks : thread'[p].sstatus.spp = "U"
         /\ Context \in Contexts /\ taken[current] \in Seq(Contexts)
<1>1. Context \in Contexts /\ taken[current] \in Seq(Contexts)
  BY DEF RInv, SInv, Typed, TypeOK, Context, Contexts
<1>2. Append(taken[current], Context) \in Seq(Contexts)
  BY <1>1
<1>3. taken' = [taken EXCEPT ![current] = Append(taken[current], Context)]
  BY DEF Trap
<1>4. /\ taken' \in [Tasks -> Seq(Contexts)]
      /\ taken'[current] = Append(taken[current], Context)
      /\ \A p \in Tasks \ {current} : taken'[p] = taken[p]
  BY <1>2, <1>3 DEF RInv, SInv, Typed
<1>5. reg' \in [sp : Stacks, t0 : T0s, x : Xs]
  BY DEF Trap, RInv, SInv, Typed, TypeOK, T0s
<1>6. sstatus' \in Status
  BY DEF Trap, RInv, SInv, Typed, TypeOK, Status
<1>7. pc' \in PCs
  BY PlaceFacts DEF Trap, Places
<1>8. TypeOK'
  BY <1>5, <1>6, <1>7 DEF Trap, RInv, SInv, Typed, TypeOK
<1>9. \A p \in Existing' \ {current'} : Ready(p)'
  BY <1>4, OthersStayReady DEF Trap
<1>10. QED
  BY <1>1, <1>4, <1>8, <1>9 DEF Typed, Trap, RInv, SInv

\* A trap from user code.
LEMMA EnterStep ==
  ASSUME RInv, mode = "U", NEW cause \in Causes, Trap(cause)
  PROVE  SInv'
<1>1. current \in Tasks /\ current \in Existing /\ InUser(current)
  BY SomeTask DEF RInv, SInv, AtBoot, Running, InDummy, Entering, InKernel, Nested
<1>2. Below(sscratch) = Deep(current) /\ Below(sscratch) \in Stacks
  BY <1>1, StackFacts DEF InUser
<1>3. /\ Typed' /\ Context \in Contexts
      /\ taken'[current] = Append(taken[current], Context)
      /\ \A p \in Existing' \ {current'} : Ready(p)'
      /\ \A p \in {0} \cup Tasks : thread'[p].sstatus.spp = "U"
  BY <1>1, <1>2, TrapEffect
<1>4. taken'[current] = <<Context>>
  BY <1>1, <1>3 DEF InUser
<1>5. Len(taken'[current]) = 1 /\ taken'[current][1] = Context
  BY <1>4
<1>6. FromUser(Context)
  BY <1>1 DEF FromUser, Context, InUser
<1>7. reg'.sp = Deep(current) /\ reg'.t0 = reg.sp /\ reg'.x = reg.x
  BY <1>2 DEF Trap, RInv, SInv, Typed, TypeOK
<1>8. /\ mode' = "S" /\ pc' = Place("save") /\ sstatus'.spp = "U" /\ sepc' = pc
      /\ sscratch' = reg.sp /\ current' = current /\ task_num' = task_num
  BY DEF Trap
<1>9. Entering(current)'
  BY <1>5, <1>6, <1>7, <1>8 DEF Entering, Context
<1>10. QED
  BY <1>1, <1>3, <1>8, <1>9 DEF SInv, Running, Existing

\* Where a system call accesses a user address, it serves a trap from user code,
\* and the stack of the program is writable.
LEMMA AtAccess ==
  ASSUME RInv, NEW address \in Addresses, mode = "S", pc = Place(address)
  PROVE  /\ current \in Tasks /\ current \in Existing /\ InKernel(current)
         /\ "stack" \in writable[current] /\ address \in Elsewhere
<1>1. /\ pc \notin {Place("boot"), Place("__dummy"), Place("save"), Place("handler"),
                    Place("call"), Place("restore")}
      /\ pc.place # "user"
      /\ pc \in Accesses => address \in Elsewhere
  BY DEF Place, Addresses, Pages, Accesses, Elsewhere
<1>2. ~AtBoot /\ ~InUser(current) /\ ~InDummy(current) /\ ~Entering(current)
      /\ ~Nested(current)
  BY <1>1, PlaceFacts DEF AtBoot, InUser, InDummy, Entering, Nested
<1>3. current \in Tasks /\ current \in Existing /\ InKernel(current)
  BY <1>2, SomeTask DEF RInv, SInv, Running
<1>4. QED
  BY <1>1, <1>3 DEF InKernel

\* A system call that faults on such an access.
LEMMA CopyFaultStep ==
  ASSUME RInv, NEW address \in Addresses, CopyFault(address)
  PROVE  SInv'
<1>1. mode = "S" /\ pc = Place(address) /\ address \notin writable[current] /\ Trap(address)
      /\ address \in Causes
  BY DEF CopyFault, Causes
<1>2. /\ current \in Tasks /\ current \in Existing /\ InKernel(current)
      /\ "stack" \in writable[current] /\ address \in Elsewhere
  BY <1>1, AtAccess
<1> DEFINE outer == taken[current][1]
<1>3. /\ outer.sp \in UserStacks /\ sscratch = outer.sp /\ Len(taken[current]) = 1
      /\ FromUser(outer) /\ Matches(frames[current].kernel[1], outer)
      /\ reg.sp = Deep(current)
  BY <1>2 DEF InKernel, Saved, FromUser
<1>4. Below(sscratch) \in Stacks
  BY <1>3, StackFacts
<1>5. /\ Typed' /\ Context \in Contexts /\ taken[current] \in Seq(Contexts)
      /\ taken'[current] = Append(taken[current], Context)
      /\ \A p \in Existing' \ {current'} : Ready(p)'
      /\ \A p \in {0} \cup Tasks : thread'[p].sstatus.spp = "U"
  BY <1>1, <1>2, <1>4, TrapEffect
<1>6. Len(taken'[current]) = 2 /\ taken'[current][1] = outer /\ taken'[current][2] = Context
  BY <1>3, <1>5
<1>7. Context.mode = "S" /\ Context.sp = Deep(current) /\ Context.pc = Place(address)
  BY <1>1, <1>3 DEF Context
<1>8. /\ mode' = "S" /\ pc' = Place("save") /\ sstatus'.spp = "S" /\ sepc' = pc
      /\ sscratch' = reg.sp /\ scause' = address /\ current' = current
      /\ frames' = frames /\ writable' = writable /\ task_num' = task_num
  BY <1>1 DEF Trap
<1>9. reg'.sp = Below(outer.sp) /\ reg'.t0 = Deep(current) /\ reg'.x = reg.x
  BY <1>1, <1>3 DEF Trap, RInv, SInv, Typed, TypeOK
<1>10. Nested(current)'
  BY <1>1, <1>2, <1>3, <1>6, <1>7, <1>8, <1>9 DEF Nested, Saved, FromCall, Context
<1>11. QED
  BY <1>2, <1>5, <1>8, <1>10 DEF SInv, Running, Existing

\* A frame of a task changes in one place.
LEMMA StoreEffect ==
  ASSUME RInv, current \in Tasks, NEW f \in PtRegs, NEW s \in Stacks,
         s.stack \in {0, current}, s.depth \in 1..MaxFrames, Store(s, f)
  PROVE  /\ frames' \in [Tasks -> [user : [1..MaxFrames -> PtRegs],
                                   kernel : [1..MaxFrames -> PtRegs]]]
         /\ \A p \in Tasks \ {current} : frames'[p] = frames[p]
         /\ s.stack = 0 => /\ frames'[current].kernel = frames[current].kernel
                           /\ frames'[current].user[s.depth] = f
         /\ s.stack # 0 => frames'[current].kernel[s.depth] = f
<1>1. frames \in [Tasks -> [user : [1..MaxFrames -> PtRegs],
                           kernel : [1..MaxFrames -> PtRegs]]]
  BY DEF RInv, SInv, Typed, TypeOK
<1>2. CASE s.stack = 0
  <2>1. frames' = [frames EXCEPT ![current] =
                    [frames[current] EXCEPT !.user = [frames[current].user EXCEPT ![s.depth] = f]]]
    BY <1>2 DEF Store
  <2>2. [frames[current].user EXCEPT ![s.depth] = f] \in [1..MaxFrames -> PtRegs]
    BY <1>1
  <2>3. QED
    BY <1>1, <1>2, <2>1, <2>2
<1>3. CASE s.stack # 0
  <2>1. frames' = [frames EXCEPT ![current] =
                    [frames[current] EXCEPT
                       !.kernel = [frames[current].kernel EXCEPT ![s.depth] = f]]]
    BY <1>3 DEF Store
  <2>2. [frames[current].kernel EXCEPT ![s.depth] = f] \in [1..MaxFrames -> PtRegs]
    BY <1>1
  <2>3. QED
    BY <1>1, <1>3, <2>1, <2>2
<1>4. QED
  BY <1>2, <1>3

LEMMA SaveStep ==
  ASSUME RInv, Save
  PROVE  SInv'
<1>1. mode = "S" /\ pc = Place("save")
  BY DEF Save
<1>2. /\ current \in Tasks /\ current \in Existing /\ current # 0
      /\ Entering(current) \/ Nested(current)
  BY <1>1, SomeTask, OtherPlaces
     DEF RInv, SInv, AtBoot, Running, InUser, InDummy, InKernel, Place
<1>3. ~StoreFaults
  <2>1. CASE Entering(current)
    BY <1>2, <2>1, StackFacts DEF StoreFaults, Entering
  <2>2. CASE Nested(current)
    BY <2>2 DEF StoreFaults, Nested
  <2>3. QED
    BY <1>2, <2>1, <2>2
<1>4. /\ Store(reg.sp, SavedFrame) /\ pc' = Place("handler")
      /\ reg' = [reg EXCEPT !.t0 = Word(Junk), !.x = Junk]
      /\ UNCHANGED <<mode, sepc, scause, sscratch, sstatus, current,
                     task_num, thread, writable, taken>>
  BY <1>3 DEF Save
<1>5. /\ reg.sp \in Stacks /\ reg.sp.stack \in {0, current} /\ reg.sp.depth \in 1..MaxFrames
      /\ reg.t0 \in Stacks
  BY <1>1, <1>2, StackFacts, ConstantFacts DEF Entering, Nested, Saved, FromUser, Place
<1>6. SavedFrame \in PtRegs
  BY <1>5 DEF SavedFrame, PtRegs, RInv, SInv, Typed, TypeOK
<1>7. /\ frames' \in [Tasks -> [user : [1..MaxFrames -> PtRegs],
                                kernel : [1..MaxFrames -> PtRegs]]]
      /\ \A p \in Tasks \ {current} : frames'[p] = frames[p]
      /\ reg.sp.stack = 0 => /\ frames'[current].kernel = frames[current].kernel
                             /\ frames'[current].user[reg.sp.depth] = SavedFrame
      /\ reg.sp.stack # 0 => frames'[current].kernel[reg.sp.depth] = SavedFrame
  BY <1>2, <1>4, <1>5, <1>6, StoreEffect
<1>8. reg'.sp = reg.sp /\ reg' \in [sp : Stacks, t0 : T0s, x : Xs]
  BY <1>4, RegFacts
<1>9. Typed'
  BY <1>4, <1>7, <1>8, PlaceFacts DEF Places, RInv, SInv, Typed, TypeOK
<1>10. \A p \in Existing' \ {current'} : Ready(p)'
  BY <1>4, <1>7, OthersStayReady
<1>11. CASE Entering(current)
  <2>1. reg.sp.stack # 0 /\ reg.sp.depth = 1
    BY <1>2, <1>11, StackFacts DEF Entering
  <2>2. Saved(current)'
    BY <1>4, <1>7, <1>11, <2>1 DEF Entering, Saved, Matches, SavedFrame, FromUser
  <2>3. InKernel(current)'
    BY <1>4, <1>8, <1>11, <2>2, OtherPlaces DEF Entering, InKernel
  <2>4. QED
    BY <1>2, <1>4, <1>9, <1>10, <2>3 DEF RInv, SInv, Running, Existing
<1>12. CASE Nested(current)
  <2> DEFINE outer == taken[current][1]
  <2>1. reg.sp.stack = 0 /\ reg.sp.depth = outer.sp.depth + 1
    BY <1>12, StackFacts DEF Nested, Saved, FromUser
  <2>2. Saved(current)'
    BY <1>4, <1>7, <1>12, <2>1 DEF Nested, Saved, Matches, FromUser
  <2>3. Matches(frames'[current].user[outer.sp.depth + 1], taken[current][2])
    <3>1. frames'[current].user[outer.sp.depth + 1] = SavedFrame
      BY <1>7, <2>1
    <3>2. reg.t0 = Deep(current) /\ reg.x = taken[current][2].x /\ sepc = Place(scause)
      BY <1>1, <1>12 DEF Nested, Place
    <3>3. FromCall(taken[current][2], current)
      BY <1>12 DEF Nested
    <3>4. QED
      BY <3>1, <3>2, <3>3 DEF Matches, SavedFrame, FromCall
  <2>4. Nested(current)'
    BY <1>4, <1>8, <1>12, <2>2, <2>3 DEF Nested, FromCall
  <2>5. QED
    BY <1>2, <1>4, <1>9, <1>10, <2>4 DEF RInv, SInv, Running, Existing
<1>13. QED
  BY <1>2, <1>11, <1>12

-----------------------------------------------------------------------------
(* In the kernel                                                           *)

\* The handler of the timer, or of a call, serves a trap from user code.
LEMMA FirstLevel ==
  ASSUME RInv, mode = "S",
         (pc = Place("handler") /\ scause \notin Elsewhere) \/ pc = Place("call")
  PROVE  current \in Tasks /\ current \in Existing /\ InKernel(current)
<1>1. pc.place # "user" /\ pc \notin {Place("boot"), Place("__dummy"), Place("save"),
                                       Place("restore")}
  BY DEF Place
<1>2. ~AtBoot /\ ~InUser(current) /\ ~InDummy(current) /\ ~Entering(current)
  BY <1>1, PlaceFacts DEF AtBoot, InUser, InDummy, Entering
<1>3. ~Nested(current)
  BY <1>1 DEF Nested, Place
<1>4. QED
  BY <1>2, <1>3, SomeTask DEF RInv, SInv, Running

LEMMA TickStep ==
  ASSUME RInv, Tick
  PROVE  SInv'
<1>1. current \in Tasks /\ current \in Existing /\ InKernel(current)
  BY FirstLevel DEF Tick, InHandler, Elsewhere
<1>2. Typed'
  BY PlaceFacts DEF Tick, Places, RInv, SInv, Typed, TypeOK
<1>3. InKernel(current)'
  BY <1>1, OtherPlaces DEF Tick, InKernel, Saved
<1>4. \A p \in Existing' \ {current'} : Ready(p)'
  BY OthersStayReady DEF Tick
<1>5. QED
  BY <1>1, <1>2, <1>3, <1>4 DEF Tick, RInv, SInv, Running, Existing

LEMMA SyscallStep ==
  ASSUME RInv, Syscall
  PROVE  SInv'
<1>1. current \in Tasks /\ current \in Existing /\ InKernel(current)
  BY FirstLevel DEF Syscall, InHandler, Elsewhere
<1>2. reg' \in [sp : Stacks, t0 : T0s, x : Xs] /\ reg'.sp = reg.sp
  BY RegFacts DEF Syscall
<1>3. Typed'
  BY <1>2, PlaceFacts DEF Syscall, Places, RInv, SInv, Typed, TypeOK
<1>4. InKernel(current)'
  BY <1>1, <1>2, OtherPlaces DEF Syscall, InKernel, Saved
<1>5. \A p \in Existing' \ {current'} : Ready(p)'
  BY OthersStayReady DEF Syscall
<1>6. QED
  BY <1>1, <1>3, <1>4, <1>5 DEF Syscall, RInv, SInv, Running, Existing

LEMMA PageFaultStep ==
  ASSUME RInv, NEW address \in Addresses, PageFault(address)
  PROVE  SInv'
<1>1. mode = "S" /\ pc = Place("handler")
  BY DEF PageFault, InHandler
<1>2. /\ current \in Tasks /\ current \in Existing
      /\ InKernel(current) \/ Nested(current)
  BY <1>1, SomeTask DEF RInv, SInv, AtBoot, Running, InUser, InDummy, Entering, Place
<1>3. writable' \in [Tasks -> SUBSET Pages]
  BY <1>2 DEF PageFault, Resolved, RInv, SInv, Typed, TypeOK
<1>4. Typed'
  BY <1>3, PlaceFacts DEF PageFault, Places, RInv, SInv, Typed, TypeOK
<1>5. writable[current] \subseteq writable'[current] /\ pc' = Place("restore")
  BY <1>2 DEF PageFault, Resolved, RInv, SInv, Typed, TypeOK
<1>6. InKernel(current)' \/ Nested(current)'
  <2>1. CASE InKernel(current)
    BY <1>5, <2>1 DEF PageFault, InKernel, Saved, Accesses, Place
  <2>2. CASE Nested(current)
    BY <1>1, <1>5, <2>2 DEF PageFault, Nested, Saved, FromCall, Place
  <2>3. QED
    BY <1>2, <2>1, <2>2
<1>7. \A p \in Existing' \ {current'} : Ready(p)'
  BY OthersStayReady DEF PageFault
<1>8. QED
  BY <1>2, <1>4, <1>6, <1>7 DEF PageFault, RInv, SInv, Running, Existing

\* A call comes to an access, when its program is careful.
LEMMA CopyStep ==
  ASSUME Careful, RInv, NEW address \in Addresses, Copy(address)
  PROVE  SInv'
<1>1. /\ mode = "S" /\ pc = Place("call") /\ pc' = Place(address)
      /\ "stack" \in writable[current] /\ address \notin writable[current]
      /\ UNCHANGED <<mode, reg, sepc, scause, sscratch, sstatus, current, task_num,
                     frames, thread, writable, taken>>
  BY DEF Copy, Careful
<1>2. current \in Tasks /\ current \in Existing /\ InKernel(current)
  BY <1>1, FirstLevel
<1>3. Place(address) \in Accesses /\ Place(address) \in PCs
  BY <1>1, PlaceFacts DEF Addresses, Pages, Accesses, Places
<1>4. Typed'
  BY <1>1, <1>3 DEF RInv, SInv, Typed, TypeOK
<1>5. InKernel(current)'
  BY <1>1, <1>2, <1>3 DEF InKernel, Saved
<1>6. \A p \in Existing' \ {current'} : Ready(p)'
  BY <1>1, OthersStayReady
<1>7. QED
  BY <1>1, <1>2, <1>4, <1>5, <1>6 DEF RInv, SInv, Running, Existing

LEMMA CopyDoneStep ==
  ASSUME RInv, NEW address \in Addresses, CopyDone(address)
  PROVE  SInv'
<1>1. /\ mode = "S" /\ pc = Place(address) /\ pc' = Place("call")
      /\ UNCHANGED <<mode, reg, sepc, scause, sscratch, sstatus, current, task_num,
                     frames, thread, writable, taken>>
  BY DEF CopyDone
<1>2. /\ current \in Tasks /\ current \in Existing /\ InKernel(current)
      /\ "stack" \in writable[current]
  BY <1>1, AtAccess
<1>3. Typed'
  BY <1>1, PlaceFacts DEF Places, RInv, SInv, Typed, TypeOK
<1>4. InKernel(current)'
  BY <1>1, <1>2 DEF InKernel, Saved
<1>5. \A p \in Existing' \ {current'} : Ready(p)'
  BY <1>1, OthersStayReady
<1>6. QED
  BY <1>1, <1>2, <1>3, <1>4, <1>5 DEF RInv, SInv, Running, Existing

-----------------------------------------------------------------------------
(* From thread to thread                                                   *)

\* The task that is loaded goes on where Ready says it stands.
LEMMA SwitchLoads ==
  ASSUME RInv, mode = "S", NEW next \in Existing, next # current, SwitchTo(next)
  PROVE  Running(next)' /\ Typed' /\ current' = next /\ task_num' = task_num
<1>1. next \in Tasks /\ next # 0 /\ Ready(next) /\ thread[next] \in Thread
  BY SomeTask DEF RInv, SInv, Typed, TypeOK
<1>2. thread[next].sstatus.spp = "U"
  BY <1>1 DEF RInv, SInv
<1>3. /\ current' = next /\ mode' = "S" /\ pc' = thread[next].ra
      /\ reg' = [reg EXCEPT !.sp = thread[next].sp]
      /\ sepc' = thread[next].sepc /\ sscratch' = thread[next].sscratch
      /\ sstatus' = thread[next].sstatus
      /\ UNCHANGED <<scause, task_num, frames, writable, taken>>
  BY DEF SwitchTo
<1>4. reg'.sp = thread[next].sp /\ reg' \in [sp : Stacks, t0 : T0s, x : Xs]
  BY <1>1, <1>3, RegFacts DEF Thread
<1>5. [ra |-> Place("restore"), sp |-> reg.sp, sepc |-> sepc,
       sscratch |-> sscratch, sstatus |-> sstatus] \in Thread
  BY PlaceFacts DEF Thread, Places, RInv, SInv, Typed, TypeOK
<1>6. thread' \in [{0} \cup Tasks -> Thread]
  BY <1>5 DEF SwitchTo, RInv, SInv, Typed, TypeOK
<1>7. Typed'
  BY <1>1, <1>3, <1>4, <1>6 DEF Thread, RInv, SInv, Typed, TypeOK
<1>8. InDummy(next)' \/ InKernel(next)'
  <2>1. CASE Fresh(next) /\ thread[next].ra = Place("__dummy") /\ thread[next].sp = Top(next)
             /\ thread[next].sepc = Point(0) /\ thread[next].sscratch = Top(0)
    BY <1>2, <1>3, <1>4, <2>1 DEF InDummy, Fresh
  <2>2. CASE Len(taken[next]) = 1 /\ Saved(next) /\ thread[next].ra = Place("restore")
             /\ thread[next].sp = Deep(next) /\ thread[next].sscratch = taken[next][1].sp
    BY <1>2, <1>3, <1>4, <2>2, OtherPlaces DEF InKernel, Saved
  <2>3. QED
    BY <1>1, <2>1, <2>2 DEF Ready
<1>9. QED
  BY <1>3, <1>7, <1>8 DEF Running

LEMMA ThreadStored ==
  ASSUME RInv, NEW next, SwitchTo(next)
  PROVE  /\ \A p \in ({0} \cup Tasks) \ {current} : thread'[p] = thread[p]
         /\ thread'[current] = [ra |-> Place("restore"), sp |-> reg.sp, sepc |-> sepc,
                               sscratch |-> sscratch, sstatus |-> sstatus]
BY DEF SwitchTo, RInv, SInv, Typed, TypeOK

LEMMA BootStep ==
  ASSUME RInv, Boot
  PROVE  SInv'
<1>1. mode = "S" /\ pc = Place("boot")
  BY DEF Boot
<1>2. AtBoot
  BY <1>1, PlaceFacts, OtherPlaces
     DEF RInv, SInv, Running, InUser, InDummy, Entering, InKernel, Nested, Place
<1>3. PICK next \in Existing : SwitchTo(next)
  BY DEF Boot
<1>4. current = 0 /\ next # current /\ Existing = {next}
  BY <1>2, <1>3, SomeTask DEF AtBoot, Existing
<1>5. Running(next)' /\ Typed' /\ current' = next /\ task_num' = task_num
  BY <1>1, <1>3, <1>4, SwitchLoads
<1>6. \A p \in {0} \cup Tasks : thread'[p].sstatus.spp = "U"
  <2>1. sstatus.spp = "U"
    BY <1>2 DEF AtBoot
  <2>2. QED
    BY <1>3, <2>1, ThreadStored DEF RInv, SInv
<1>7. QED
  BY <1>4, <1>5, <1>6 DEF SInv, Existing

LEMMA TickSwitchesStep ==
  ASSUME RInv, TickSwitches
  PROVE  SInv'
<1>1. mode = "S" /\ pc = Place("handler") /\ scause = "timer"
  BY DEF TickSwitches, InHandler
<1>2. current \in Tasks /\ current \in Existing /\ InKernel(current)
  BY <1>1, FirstLevel DEF Elsewhere
<1>3. PICK next \in Existing \ {current} : SwitchTo(next)
  BY DEF TickSwitches
<1>4. Running(next)' /\ Typed' /\ current' = next /\ task_num' = task_num
  BY <1>1, <1>3, SwitchLoads
<1>5. /\ \A p \in ({0} \cup Tasks) \ {current} : thread'[p] = thread[p]
      /\ thread'[current] = [ra |-> Place("restore"), sp |-> reg.sp, sepc |-> sepc,
                            sscratch |-> sscratch, sstatus |-> sstatus]
      /\ frames' = frames /\ taken' = taken
  BY <1>3, ThreadStored DEF SwitchTo
<1>6. ASSUME NEW p \in Existing, p = current PROVE Ready(p)'
  <2>1. Len(taken[p]) = 1 /\ Saved(p) /\ reg.sp = Deep(p) /\ sscratch = taken[p][1].sp
    BY <1>2, <1>6 DEF InKernel
  <2>2. thread'[p].ra = Place("restore") /\ thread'[p].sp = Deep(p)
        /\ thread'[p].sscratch = taken[p][1].sp
    BY <1>5, <1>6, <2>1
  <2>3. QED
    BY <1>5, <2>1, <2>2 DEF Ready, Saved
<1>7. ASSUME NEW p \in Existing, p # current PROVE Ready(p)'
  <2>1. Ready(p) /\ p \in Tasks
    BY <1>7, SomeTask DEF RInv, SInv
  <2>2. thread'[p] = thread[p]
    BY <1>5, <1>7, <2>1
  <2>3. QED
    BY <1>5, <2>1, <2>2 DEF Ready, Fresh, Saved
<1>8. \A p \in {0} \cup Tasks : thread'[p].sstatus.spp = "U"
  BY <1>2, <1>5 DEF RInv, SInv, InKernel
<1>9. QED
  BY <1>3, <1>4, <1>6, <1>7, <1>8 DEF SInv, Existing

-----------------------------------------------------------------------------
(* The answer to a call                                                    *)

LEMMA AfterCall ==
  ASSUME NEW q \in UserPCs
  PROVE  AfterEcall(q) \in UserPCs
<1>1. q.at \in Nat
  <2>1. PICK n \in User : q = [place |-> "user", at |-> n]
    BY DEF UserPCs
  <2>2. QED
    BY <2>1, ConstantFacts
<1>2. (q.at + 1) % Points \in User
  BY <1>1, TrapAssumption DEF User
<1>3. QED
  BY <1>2, PlaceFacts DEF AfterEcall

\* The frame and the context change together.
LEMMA AnswerMatches ==
  ASSUME NEW f \in PtRegs, NEW c \in Contexts, NEW x \in Xs, Matches(f, c), FromUser(c)
  PROVE  /\ Answered(f, x) \in PtRegs /\ Expected(c, x) \in Contexts
         /\ Matches(Answered(f, x), Expected(c, x)) /\ FromUser(Expected(c, x))
         /\ Expected(c, x).sp = c.sp
<1>1. AfterEcall(c.pc) \in UserPCs /\ AfterEcall(c.pc) \in PCs /\ f.sepc = c.pc
  BY AfterCall, PlaceFacts DEF FromUser, Matches
<1>2. /\ Answered(f, x) \in PtRegs /\ Answered(f, x).sp = f.sp
      /\ Answered(f, x).x = x /\ Answered(f, x).sepc = AfterEcall(c.pc)
  BY <1>1 DEF Answered, PtRegs
<1>3. /\ Expected(c, x) \in Contexts /\ Expected(c, x).sp = c.sp
      /\ Expected(c, x).x = x /\ Expected(c, x).pc = AfterEcall(c.pc)
      /\ Expected(c, x).mode = c.mode
  BY <1>1 DEF Expected, Contexts
<1>4. QED
  BY <1>1, <1>2, <1>3 DEF Matches, FromUser

\* What a call finds when it ends: its frame, and the one context it goes back to.
LEMMA CallFacts ==
  ASSUME RInv, mode = "S", pc = Place("call")
  PROVE  /\ current \in Tasks /\ current \in Existing /\ InKernel(current)
         /\ Frame(reg.sp) = frames[current].kernel[1] /\ Frame(reg.sp) \in PtRegs
         /\ reg.sp = Deep(current) /\ reg.sp.stack = current /\ reg.sp.depth = 1
         /\ taken[current] \in Seq(Contexts) /\ Len(taken[current]) = 1
         /\ Front(taken[current]) = <<>>
         /\ Last(taken[current]) = taken[current][1]
         /\ taken[current][1] \in Contexts
         /\ FromUser(taken[current][1]) /\ Matches(Frame(reg.sp), taken[current][1])
         /\ sscratch = taken[current][1].sp /\ sstatus.spp = "U"
<1>1. current \in Tasks /\ current \in Existing /\ current # 0 /\ InKernel(current)
  BY FirstLevel, SomeTask
<1>2. reg.sp = Deep(current) /\ reg.sp.stack = current /\ reg.sp.depth = 1
  BY <1>1, StackFacts DEF InKernel
<1>3. Frame(reg.sp) = frames[current].kernel[1]
  BY <1>1, <1>2 DEF Frame
<1>4. Frame(reg.sp) \in PtRegs
  <2>1. frames[current] \in [user : [1..MaxFrames -> PtRegs],
                             kernel : [1..MaxFrames -> PtRegs]]
    BY <1>1 DEF RInv, SInv, Typed, TypeOK
  <2>2. 1 \in 1..MaxFrames
    BY StackFacts
  <2>3. QED
    BY <1>3, <2>1, <2>2
<1>5. taken[current] \in Seq(Contexts) /\ Len(taken[current]) = 1
  BY <1>1 DEF InKernel, RInv, SInv, Typed
<1>6. /\ Front(taken[current]) = <<>> /\ Last(taken[current]) = taken[current][1]
      /\ taken[current][1] \in Contexts
  BY <1>5, ContextsShrink
<1>7. QED
  BY <1>1, <1>2, <1>3, <1>4, <1>5, <1>6 DEF InKernel, Saved

LEMMA SysReturnStep ==
  ASSUME RInv, SysReturn
  PROVE  SInv'
<1> DEFINE f == Frame(reg.sp)
           c == taken[current][1]
<1>1. mode = "S" /\ pc = Place("call")
  BY DEF SysReturn
<1>2. /\ current \in Tasks /\ current \in Existing /\ InKernel(current)
      /\ f = frames[current].kernel[1] /\ f \in PtRegs
      /\ reg.sp = Deep(current) /\ reg.sp.stack = current /\ reg.sp.depth = 1
      /\ Front(taken[current]) = <<>> /\ Last(taken[current]) = c /\ c \in Contexts
      /\ FromUser(c) /\ Matches(f, c) /\ sscratch = c.sp /\ sstatus.spp = "U"
  BY <1>1, CallFacts
<1>3. PICK x \in User :
        /\ Store(reg.sp, Answered(f, x))
        /\ taken' = [taken EXCEPT ![current] =
                       Front(taken[current]) \o <<Expected(Last(taken[current]), x)>>]
  BY DEF SysReturn
<1>4. /\ Answered(f, x) \in PtRegs /\ Expected(c, x) \in Contexts
      /\ Matches(Answered(f, x), Expected(c, x)) /\ FromUser(Expected(c, x))
      /\ Expected(c, x).sp = c.sp
  BY <1>2, AnswerMatches, RegFacts
<1>5. taken' = [taken EXCEPT ![current] = <<Expected(c, x)>>]
  BY <1>2, <1>3
<1>6. /\ taken' \in [Tasks -> Seq(Contexts)]
      /\ taken'[current] = <<Expected(c, x)>>
      /\ \A p \in Tasks \ {current} : taken'[p] = taken[p]
  BY <1>2, <1>4, <1>5 DEF RInv, SInv, Typed
<1>7. /\ frames' \in [Tasks -> [user : [1..MaxFrames -> PtRegs],
                                kernel : [1..MaxFrames -> PtRegs]]]
      /\ \A p \in Tasks \ {current} : frames'[p] = frames[p]
      /\ frames'[current].kernel[1] = Answered(f, x)
  <2>1. current # 0 /\ reg.sp \in Stacks /\ reg.sp.depth \in 1..MaxFrames
    BY <1>2, SomeTask, StackFacts, ConstantFacts
  <2>2. /\ frames' \in [Tasks -> [user : [1..MaxFrames -> PtRegs],
                                  kernel : [1..MaxFrames -> PtRegs]]]
        /\ \A p \in Tasks \ {current} : frames'[p] = frames[p]
        /\ reg.sp.stack # 0 => frames'[current].kernel[reg.sp.depth] = Answered(f, x)
    BY <1>2, <1>3, <1>4, <2>1, StoreEffect
  <2>3. QED
    BY <1>2, <2>1, <2>2
<1>8. /\ mode' = "S" /\ pc' = Place("restore") /\ reg'.sp = reg.sp
      /\ reg' \in [sp : Stacks, t0 : T0s, x : Xs]
      /\ UNCHANGED <<sepc, scause, sscratch, sstatus, current, task_num, thread, writable>>
  BY <1>1, RegFacts DEF SysReturn
<1>9. Typed'
  BY <1>6, <1>7, <1>8, PlaceFacts DEF Places, RInv, SInv, Typed, TypeOK
<1>10. Saved(current)' /\ Len(taken'[current]) = 1 /\ taken'[current][1].sp = c.sp
  BY <1>4, <1>6, <1>7, <1>8 DEF Saved
<1>11. InKernel(current)'
  BY <1>2, <1>8, <1>10, OtherPlaces DEF InKernel
<1>12. \A p \in Existing' \ {current'} : Ready(p)'
  BY <1>6, <1>7, <1>8, OthersStayReady
<1>13. QED
  BY <1>2, <1>8, <1>9, <1>11, <1>12 DEF RInv, SInv, Running, Existing

-----------------------------------------------------------------------------
(* Back to what was interrupted                                            *)

LEMMA RestoreStep ==
  ASSUME RInv, Restore
  PROVE  /\ SInv'
         /\ LET c == Last(taken[current]) IN
              reg'.sp = c.sp /\ pc' = c.pc /\ mode' = c.mode /\ reg'.x = c.x
<1> DEFINE f == Frame(reg.sp)
           outer == taken[current][1]
<1>1. mode = "S" /\ pc = Place("restore")
  BY DEF Restore
<1>2. /\ current \in Tasks /\ current # 0 /\ current \in Existing
      /\ InKernel(current) \/ Nested(current)
  BY <1>1, SomeTask DEF RInv, SInv, AtBoot, Running, InUser, InDummy, Entering, Place
<1>3. /\ mode' = sstatus.spp /\ pc' = f.sepc /\ sepc' = f.sepc
      /\ sstatus' = [spp |-> "U", spie |-> TRUE, sie |-> sstatus.spie]
      /\ taken' = [taken EXCEPT ![current] = Front(taken[current])]
      /\ reg' = [sp |-> f.sp, t0 |-> f.sp, x |-> f.x]
      /\ sscratch' = Above(reg.sp)
      /\ UNCHANGED <<scause, current, task_num, frames, thread, writable>>
  BY DEF Restore, Sret
<1>4. /\ FromUser(outer) /\ outer.sp \in UserStacks
      /\ Matches(frames[current].kernel[1], outer)
      /\ taken[current] \in Seq(Contexts) /\ Len(taken[current]) \in {1, 2}
  BY <1>2 DEF InKernel, Nested, Saved, FromUser, RInv, SInv, Typed
<1>5. /\ Front(taken[current]) \in Seq(Contexts)
      /\ Len(taken[current]) = 1 => /\ Front(taken[current]) = <<>>
                                    /\ Last(taken[current]) = outer
      /\ Len(taken[current]) = 2 => /\ Len(Front(taken[current])) = 1
                                    /\ Front(taken[current])[1] = outer
                                    /\ Last(taken[current]) = taken[current][2]
  BY <1>4, ContextsShrink
<1>6. /\ taken' \in [Tasks -> Seq(Contexts)]
      /\ taken'[current] = Front(taken[current])
      /\ \A p \in Tasks \ {current} : taken'[p] = taken[p]
  BY <1>2, <1>3, <1>5 DEF RInv, SInv, Typed
<1>7. \A p \in Existing' \ {current'} : Ready(p)'
  BY <1>3, <1>6, OthersStayReady
<1>8. ASSUME f \in PtRegs, Above(reg.sp) \in Stacks
      PROVE  Typed'
  <2>1. f.sp \in Stacks /\ f.x \in Xs /\ f.sepc \in PCs
    BY <1>8 DEF PtRegs
  <2>2. reg' \in [sp : Stacks, t0 : T0s, x : Xs]
    BY <1>3, <2>1, RegFacts
  <2>3. sstatus' \in Status /\ mode' \in {"U", "S"}
    BY <1>3 DEF Status, RInv, SInv, Typed, TypeOK
  <2>4. QED
    BY <1>3, <1>6, <1>8, <2>1, <2>2, <2>3 DEF RInv, SInv, Typed, TypeOK
<1>9. CASE InKernel(current)
  <2>1. /\ reg.sp = Deep(current) /\ reg.sp.stack = current /\ reg.sp.depth = 1
        /\ Above(reg.sp) = Top(current) /\ Top(current) \in Stacks
    BY <1>2, <1>9, StackFacts DEF InKernel
  <2>2. f = frames[current].kernel[1] /\ f \in PtRegs
    BY <1>2, <2>1, StackFacts DEF Frame, RInv, SInv, Typed, TypeOK
  <2>3. Last(taken[current]) = outer /\ taken'[current] = <<>> /\ sstatus.spp = "U"
    BY <1>5, <1>6, <1>9 DEF InKernel
  <2>4. /\ mode' = "U" /\ pc' = outer.pc /\ reg'.sp = outer.sp /\ reg'.x = outer.x
        /\ outer.mode = "U"
    BY <1>3, <1>4, <2>2, <2>3 DEF Matches, FromUser
  <2>5. InUser(current)'
    BY <1>3, <1>4, <2>1, <2>3, <2>4 DEF InUser, FromUser
  <2>6. Typed'
    BY <1>8, <2>1, <2>2
  <2>7. QED
    BY <1>2, <1>3, <1>7, <2>3, <2>4, <2>5, <2>6 DEF RInv, SInv, Running, Existing
<1>10. CASE Nested(current)
  <2> DEFINE inner == taken[current][2]
  <2>1. /\ reg.sp = Below(outer.sp) /\ Len(taken[current]) = 2 /\ sstatus.spp = "S"
        /\ sscratch = Deep(current) /\ FromCall(inner, current)
        /\ Matches(frames[current].user[outer.sp.depth + 1], inner)
    BY <1>1, <1>10 DEF Nested, Place
  <2>2. /\ reg.sp.stack = 0 /\ reg.sp.depth = outer.sp.depth + 1
        /\ reg.sp.depth \in 1..MaxFrames
        /\ Above(reg.sp) = outer.sp /\ outer.sp \in Stacks
    BY <1>4, <2>1, StackFacts
  <2>3. f = frames[current].user[outer.sp.depth + 1] /\ f \in PtRegs
    BY <1>2, <2>2 DEF Frame, RInv, SInv, Typed, TypeOK
  <2>4. /\ Last(taken[current]) = inner /\ Len(taken'[current]) = 1
        /\ taken'[current][1] = outer
    BY <1>5, <1>6, <2>1
  <2>5. /\ mode' = "S" /\ pc' = inner.pc /\ reg'.sp = inner.sp /\ reg'.x = inner.x
        /\ inner.mode = "S" /\ inner.sp = Deep(current) /\ inner.pc = Place(scause)
        /\ Place(scause) \in Accesses /\ "stack" \in writable[current]
    BY <1>3, <1>10, <2>1, <2>3 DEF Matches, FromCall, Nested, Elsewhere, Accesses
  <2>6. sscratch' = outer.sp /\ sstatus'.spp = "U"
    BY <1>3, <2>2
  <2>7. Saved(current)'
    BY <1>3, <1>4, <2>4 DEF Saved
  <2>8. InKernel(current)'
    BY <1>3, <2>4, <2>5, <2>6, <2>7 DEF InKernel
  <2>9. Typed'
    BY <1>8, <2>2, <2>3
  <2>10. QED
    BY <1>2, <1>3, <1>7, <2>4, <2>5, <2>8, <2>9 DEF RInv, SInv, Running, Existing
<1>11. QED
  BY <1>2, <1>9, <1>10

LEMMA DummyStep ==
  ASSUME RInv, Dummy
  PROVE  /\ SInv'
         /\ LET c == Last(taken[current]) IN
              reg'.sp = c.sp /\ pc' = c.pc /\ mode' = c.mode
<1>1. mode = "S" /\ pc = Place("__dummy")
  BY DEF Dummy
<1>2. /\ current \in Tasks /\ current \in Existing /\ InDummy(current)
  BY <1>1, SomeTask, OtherPlaces
     DEF RInv, SInv, AtBoot, Running, InUser, Entering, InKernel, Nested, Place
<1>3. /\ mode' = sstatus.spp /\ pc' = sepc /\ sepc' = sepc
      /\ sstatus' = [spp |-> "U", spie |-> TRUE, sie |-> sstatus.spie]
      /\ taken' = [taken EXCEPT ![current] = Front(taken[current])]
      /\ reg' = [reg EXCEPT !.sp = sscratch] /\ sscratch' = reg.sp
      /\ UNCHANGED <<scause, current, task_num, frames, thread, writable>>
  BY DEF Dummy, Sret
<1>4. taken[current] \in Seq(Contexts) /\ Len(taken[current]) = 1
  BY <1>2 DEF InDummy, Fresh, RInv, SInv, Typed
<1>5. Front(taken[current]) = <<>> /\ Last(taken[current]) = taken[current][1]
  BY <1>4, ContextsShrink
<1>6. /\ taken' \in [Tasks -> Seq(Contexts)] /\ taken'[current] = <<>>
      /\ \A p \in Tasks \ {current} : taken'[p] = taken[p]
  BY <1>2, <1>3, <1>5 DEF RInv, SInv, Typed
<1>7. /\ sscratch = Top(0) /\ reg.sp = Top(current) /\ sepc = Point(0) /\ sstatus.spp = "U"
      /\ Top(0) \in UserStacks /\ Top(0) \in Stacks /\ Point(0) \in UserPCs
      /\ Point(0) \in PCs
  BY <1>2, StackFacts, PlaceFacts, ConstantFacts DEF InDummy
<1>8. reg'.sp = Top(0) /\ reg' \in [sp : Stacks, t0 : T0s, x : Xs]
  BY <1>3, <1>7, RegFacts
<1>9. sstatus' \in Status
  BY <1>3 DEF Status, RInv, SInv, Typed, TypeOK
<1>10. Typed'
  BY <1>3, <1>6, <1>7, <1>8, <1>9 DEF RInv, SInv, Typed, TypeOK
<1>11. InUser(current)'
  BY <1>3, <1>6, <1>7, <1>8 DEF InUser
<1>12. \A p \in Existing' \ {current'} : Ready(p)'
  BY <1>3, <1>6, OthersStayReady
<1>13. Fresh(current)
  BY <1>2 DEF InDummy
<1>14. QED
  BY <1>2, <1>3, <1>5, <1>7, <1>8, <1>10, <1>11, <1>12, <1>13
     DEF Fresh, RInv, SInv, Running, Existing

LEMMA UserStepStep ==
  ASSUME RInv, UserStep
  PROVE  SInv'
<1>1. current \in Tasks /\ current \in Existing /\ InUser(current)
  BY SomeTask
     DEF UserStep, RInv, SInv, AtBoot, Running, InDummy, Entering, InKernel, Nested
<1>2. PICK n \in User :
        /\ pc' = Point(n)
        /\ reg' = [sp |-> [reg.sp EXCEPT !.depth = n], t0 |-> Word(n), x |-> n]
  BY DEF UserStep
<1>3. UNCHANGED <<mode, sepc, scause, sscratch, sstatus, current, task_num,
                  frames, thread, writable, taken>>
  BY DEF UserStep
<1>4. reg'.sp \in UserStacks
  BY <1>1, <1>2 DEF InUser, UserStacks
<1>5. reg' \in [sp : Stacks, t0 : T0s, x : Xs]
  BY <1>2, <1>4, RegFacts, StackFacts
<1>6. Typed'
  BY <1>2, <1>3, <1>5, PlaceFacts DEF RInv, SInv, Typed, TypeOK
<1>7. InUser(current)'
  BY <1>1, <1>2, <1>3, <1>4, PlaceFacts DEF InUser
<1>8. \A p \in Existing' \ {current'} : Ready(p)'
  BY <1>3, OthersStayReady
<1>9. QED
  BY <1>1, <1>3, <1>6, <1>7, <1>8 DEF RInv, SInv, Running, Existing

-----------------------------------------------------------------------------
(* A new task                                                              *)

LEMMA DoForkStep ==
  ASSUME RInv, DoFork
  PROVE  SInv'
<1> DEFINE child == task_num + 1
           f == Frame(reg.sp)
           c == taken[current][1]
<1>1. mode = "S" /\ pc = Place("call")
  BY DEF DoFork
<1>2. /\ current \in Tasks /\ current \in Existing /\ InKernel(current)
      /\ f = frames[current].kernel[1] /\ f \in PtRegs
      /\ reg.sp = Deep(current) /\ reg.sp.stack = current /\ reg.sp.depth = 1
      /\ Last(taken[current]) = c /\ c \in Contexts
      /\ FromUser(c) /\ Matches(f, c) /\ sscratch = c.sp /\ sstatus.spp = "U"
  BY <1>1, CallFacts
<1>3. /\ child \in Tasks /\ child \notin Existing /\ child # current
      /\ task_num' = child /\ current' = current
      /\ \A p \in 1..child : p \in Existing \/ p = child
      /\ task_num \in Nat
  <2>1. child \in Tasks /\ task_num' = child /\ current' = current
    BY DEF DoFork
  <2>2. task_num \in Nat /\ Existing = 1..task_num /\ current \in 1..task_num
    BY <1>2, ConstantFacts DEF Existing, RInv, QInv
  <2>3. QED
    BY <2>1, <2>2
<1>4. PICK junk \in User :
        thread' = [thread EXCEPT ![child] =
                    [ra |-> Place("restore"), sp |-> ChildStack(child),
                     sepc |-> Point(junk), sscratch |-> sscratch,
                     sstatus |-> thread[current].sstatus]]
  BY DEF DoFork
<1>5. PICK x \in User \ {0} :
        /\ frames' = [frames EXCEPT
                        ![current].kernel[reg.sp.depth] = Answered(f, x),
                        ![child].kernel[reg.sp.depth] = Answered(f, 0),
                        ![child].user = frames[current].user]
        /\ taken' = [taken EXCEPT
                       ![current] = <<Expected(Last(taken[current]), x)>>,
                       ![child] = <<Expected(Last(taken[current]), 0)>>]
  BY DEF DoFork
<1>6. /\ writable' = [writable EXCEPT ![current] = {}, ![child] = {}]
      /\ mode' = "S" /\ pc' = Place("restore") /\ reg'.sp = reg.sp
      /\ reg' \in [sp : Stacks, t0 : T0s, x : Xs]
      /\ UNCHANGED <<mode, sepc, scause, sscratch, sstatus, current>>
  BY <1>1, RegFacts DEF DoFork
<1>7. ASSUME NEW y \in User
      PROVE  /\ Answered(f, y) \in PtRegs /\ Expected(c, y) \in Contexts
             /\ Matches(Answered(f, y), Expected(c, y)) /\ FromUser(Expected(c, y))
             /\ Expected(c, y).sp = c.sp
  BY <1>2, AnswerMatches, RegFacts
<1>8. x \in User /\ 0 \in User
  BY ConstantFacts
<1>9. /\ taken' \in [Tasks -> Seq(Contexts)]
      /\ taken'[current] = <<Expected(c, x)>> /\ taken'[child] = <<Expected(c, 0)>>
      /\ \A p \in Tasks \ {current, child} : taken'[p] = taken[p]
  <2>1. taken \in [Tasks -> Seq(Contexts)]
    BY DEF RInv, SInv, Typed
  <2>2. <<Expected(c, x)>> \in Seq(Contexts) /\ <<Expected(c, 0)>> \in Seq(Contexts)
    BY <1>7, <1>8
  <2>3. taken' = [taken EXCEPT ![current] = <<Expected(c, x)>>,
                               ![child] = <<Expected(c, 0)>>]
    BY <1>2, <1>5
  <2>4. QED
    BY <1>2, <1>3, <2>1, <2>2, <2>3
<1>10. /\ frames' \in [Tasks -> [user : [1..MaxFrames -> PtRegs],
                                 kernel : [1..MaxFrames -> PtRegs]]]
       /\ frames'[current].kernel[1] = Answered(f, x)
       /\ frames'[child].kernel[1] = Answered(f, 0)
       /\ \A p \in Tasks \ {current, child} : frames'[p] = frames[p]
  <2> DEFINE mine == [frames[current] EXCEPT !.kernel =
                        [frames[current].kernel EXCEPT ![1] = Answered(f, x)]]
             its == [frames[child] EXCEPT
                       !.kernel = [frames[child].kernel EXCEPT ![1] = Answered(f, 0)],
                       !.user = frames[current].user]
  <2>1. frames \in [Tasks -> [user : [1..MaxFrames -> PtRegs],
                              kernel : [1..MaxFrames -> PtRegs]]]
    BY DEF RInv, SInv, Typed, TypeOK
  <2>2. 1 \in 1..MaxFrames
    BY StackFacts
  <2>3. /\ mine \in [user : [1..MaxFrames -> PtRegs], kernel : [1..MaxFrames -> PtRegs]]
        /\ mine.kernel[1] = Answered(f, x)
    BY <1>2, <1>7, <1>8, <2>1, <2>2
  <2>4. /\ its \in [user : [1..MaxFrames -> PtRegs], kernel : [1..MaxFrames -> PtRegs]]
        /\ its.kernel[1] = Answered(f, 0)
    BY <1>2, <1>3, <1>7, <1>8, <2>1, <2>2
  <2>5. frames' = [frames EXCEPT ![current] = mine, ![child] = its]
    BY <1>2, <1>3, <1>5, <2>1
  <2>6. QED
    BY <1>2, <1>3, <2>1, <2>3, <2>4, <2>5
<1>11. ChildStack(child) = Deep(child) /\ Deep(child) \in Stacks
  BY <1>2, <1>3, StackFacts DEF ChildStack, Deep
<1>12. /\ thread'[child] = [ra |-> Place("restore"), sp |-> Deep(child),
                           sepc |-> Point(junk), sscratch |-> sscratch,
                           sstatus |-> thread[current].sstatus]
       /\ \A p \in ({0} \cup Tasks) \ {child} : thread'[p] = thread[p]
  BY <1>3, <1>4, <1>11 DEF RInv, SInv, Typed, TypeOK
<1>13. thread' \in [{0} \cup Tasks -> Thread]
  <2>1. Point(junk) \in PCs /\ Place("restore") \in PCs
    BY PlaceFacts DEF Places
  <2>2. thread[current].sstatus \in Status /\ sscratch \in Stacks
    BY <1>2 DEF RInv, SInv, Typed, TypeOK, Thread
  <2>3. [ra |-> Place("restore"), sp |-> ChildStack(child), sepc |-> Point(junk),
         sscratch |-> sscratch, sstatus |-> thread[current].sstatus] \in Thread
    BY <1>11, <2>1, <2>2 DEF Thread
  <2>4. QED
    BY <1>4, <2>3 DEF RInv, SInv, Typed, TypeOK
<1>14. Typed'
  <2>1. writable' \in [Tasks -> SUBSET Pages]
    BY <1>6 DEF RInv, SInv, Typed, TypeOK
  <2>2. QED
    BY <1>3, <1>6, <1>9, <1>10, <1>13, <2>1, PlaceFacts
       DEF Places, RInv, SInv, Typed, TypeOK
<1>15. ASSUME NEW p \in {0} \cup Tasks PROVE thread'[p].sstatus.spp = "U"
  <2>1. thread[current].sstatus.spp = "U" /\ thread[p].sstatus.spp = "U"
    BY <1>2 DEF RInv, SInv
  <2>2. CASE p = child
    BY <1>12, <2>1, <2>2
  <2>3. CASE p # child
    BY <1>12, <2>1, <2>3
  <2>4. QED
    BY <2>2, <2>3
<1>16. InKernel(current)'
  BY <1>2, <1>3, <1>6, <1>7, <1>8, <1>9, <1>10, OtherPlaces DEF InKernel, Saved
<1>17. ASSUME NEW p \in Tasks, p = child PROVE Ready(p)'
  <2>1. Len(taken'[p]) = 1 /\ taken'[p][1] = Expected(c, 0)
        /\ frames'[p].kernel[1] = Answered(f, 0)
    <3>1. taken'[p] = <<Expected(c, 0)>> /\ frames'[p].kernel[1] = Answered(f, 0)
      BY <1>9, <1>10, <1>17
    <3>2. QED
      BY <3>1
  <2>2. Saved(p)'
    BY <1>7, <1>8, <2>1 DEF Saved
  <2>3. thread'[p].ra = Place("restore") /\ thread'[p].sp = Deep(p)
        /\ thread'[p].sscratch = c.sp
    BY <1>2, <1>12, <1>17
  <2>4. QED
    BY <1>7, <1>8, <2>1, <2>2, <2>3 DEF Ready
<1>18. ASSUME NEW p \in Existing, p # current PROVE Ready(p)'
  <2>1. Ready(p) /\ p \in Tasks /\ p # child
    BY <1>3, <1>18, SomeTask DEF RInv, SInv
  <2>2. thread'[p] = thread[p] /\ taken'[p] = taken[p] /\ frames'[p] = frames[p]
    BY <1>9, <1>10, <1>12, <1>18, <2>1
  <2>3. QED
    BY <2>1, <2>2 DEF Ready, Fresh, Saved
<1>19. \A p \in Existing' \ {current'} : Ready(p)'
  BY <1>3, <1>17, <1>18 DEF Existing
<1>20. current \in Existing'
  BY <1>2, <1>3 DEF Existing
<1>21. QED
  BY <1>3, <1>14, <1>15, <1>16, <1>19, <1>20 DEF SInv, Running

-----------------------------------------------------------------------------
(* The theorems                                                            *)

\* A trap inside the kernel needs a fault: its interrupts are off.
LEMMA TimerStep ==
  ASSUME RInv, TimerInterrupt
  PROVE  SInv'
<1>1. mode = "U" /\ Trap("timer")
  BY DEF TimerInterrupt, RInv, QInv, Quiet, SInv, Typed, TypeOK
<1>2. QED
  BY <1>1, EnterStep DEF Causes

LEMMA NextRunning == Careful /\ RInv /\ [Next]_vars => RInv'
<1>1. SUFFICES ASSUME Careful, RInv, [Next]_vars PROVE RInv'
  OBVIOUS
<1>2. QInv'
  BY <1>1, NextQuiet DEF RInv
<1>3. SInv'
  <2>1. CASE UNCHANGED vars
    BY <1>1, <2>1 DEF vars, hart, RInv, SInv, Typed, TypeOK, AtBoot, Existing, Running,
       InUser, InDummy, Entering, InKernel, Nested, FromCall, Ready, Fresh, Saved
  <2>2. CASE Boot \/ Save \/ Tick \/ TickSwitches \/ Syscall \/ SysReturn
    BY <1>1, <2>2, BootStep, SaveStep, TickStep, TickSwitchesStep, SyscallStep,
       SysReturnStep
  <2>3. CASE DoFork \/ Restore \/ Dummy \/ UserStep
    BY <1>1, <2>3, DoForkStep, RestoreStep, DummyStep, UserStepStep
  <2>4. ASSUME NEW address \in Addresses,
               \/ PageFault(address) \/ Copy(address) \/ CopyFault(address)
               \/ CopyDone(address) \/ UserFault(address)
        PROVE  SInv'
    BY <1>1, <2>4, PageFaultStep, CopyStep, CopyFaultStep, CopyDoneStep, EnterStep
       DEF UserFault, Causes
  <2>5. CASE Ecall \/ TimerInterrupt
    BY <1>1, <2>5, EnterStep, TimerStep DEF Ecall, Causes
  <2>6. QED
    BY <1>1, <2>1, <2>2, <2>3, <2>4, <2>5 DEF Next, Kernel
<1>4. QED
  BY <1>2, <1>3 DEF RInv

LEMMA AlwaysRunning == ASSUME Careful PROVE Spec => []RInv
<1>1. Init => RInv
  BY InitQuiet, InitRunning DEF RInv
<1>2. RInv /\ [Next]_vars => RInv'
  BY NextRunning
<1>3. QED
  BY <1>1, <1>2, PTL DEF Spec

\* Every state has its types; in particular no stack runs over, and whenever
\* user code runs, sscratch is the empty kernel stack of that task (entry.S:13).
THEOREM ScratchStaysKernelStack == ASSUME Careful PROVE Spec => []ScratchIsKernelStack
<1>1. RInv => ScratchIsKernelStack
  BY DEF RInv, SInv, Typed, AtBoot, Running, InUser, InDummy, Entering, InKernel,
     Nested, ScratchIsKernelStack
<1>2. QED
  BY <1>1, AlwaysRunning, PTL

\* What is returned to is what was interrupted: its stack, its place, its
\* privilege and its registers (entry.S:59, entry.S:110).
THEOREM ReturnsRestore == ASSUME Careful PROVE Spec => ContextRestored
<1> DEFINE Restored ==
      Returning => LET c == Last(taken[current]) IN
        /\ reg'.sp = c.sp /\ pc' = c.pc /\ mode' = c.mode
        /\ pc = Place("restore") => reg'.x = c.x
<1>1. RInv /\ [Next]_vars => [Restored]_vars
  <2>1. SUFFICES ASSUME RInv, Next, Returning PROVE Restored
    OBVIOUS
  <2>2. Restore \/ Dummy
    BY <2>1 DEF Returning, Next, Kernel, Boot, Save, Tick, TickSwitches, Syscall,
       SysReturn, DoFork, PageFault, Copy, CopyFault, CopyDone, UserStep, Ecall, TimerInterrupt,
       UserFault, InHandler, Place, Addresses, Pages, RInv, QInv, Quiet
  <2>3. CASE Restore
    BY <2>1, <2>3, RestoreStep
  <2>4. CASE Dummy
    BY <2>1, <2>4, DummyStep DEF Dummy, Place
  <2>5. QED
    BY <2>2, <2>3, <2>4
<1>2. QED
  BY <1>1, AlwaysRunning, PTL DEF Spec, ContextRestored
=============================================================================
