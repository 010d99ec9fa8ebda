# TLA+ models and proofs for sys-kernel

sys-kernel is a small RISC-V (Sv39, one hart) teaching kernel: it boots under
OpenSBI, runs one embedded ELF program in user mode, and lets it fork, grow and
shrink its heap, handle signals and read and write files on a FAT32 disk behind
a virtio block device. This directory holds TLA+ models of its parts, the TLC
configurations that check them on small instances, and TLAPS proofs of what can
be proved for every instance. Every definition that models code is listed in
`PROJECT.json` under `map` with the lines it stands for.

## Inventory

| part | source | state | operations | interacts with |
|---|---|---|---|---|
| user memory | `kernel/trap.c` (`do_page_fault`), `proc.c` (`do_fork`, `do_mmap`, `find_vma`, `walk_page_table`), `vm.c`, `vma.c`, `ksyscalls.c` (`sys_brk`) | areas (`mm->mmap`), `mm->brk`, page tables, frames' contents, cached translations | page fault, fork, brk, context switch, user loads and stores | page allocator (calls), scheduler (current task) |
| page allocator | `kernel/mm.c` | buddy tree, reference counts | `alloc_pages`, `free_pages`, `ref_page`, `deref_page` | called by every other part of the kernel |
| scheduler, timer | `proc.c` (`schedule`, `do_timer`, `switch_to`), `clock.c`, `main.c` | `task[]`, `task_num`, `current`, `counter`, `priority`, pending interrupt | timer interrupt, fork, console read | trap entry, `__switch_to` |
| trap entry, context switch | `entry.S`, `head.S` | registers, `sscratch`, `sepc`, saved frames | trap, return, switch, first run | everything |
| signals | `ksyscalls.c`, `trap.c` | pending and blocked sets, actions, `TIF_SIGPENDING`, frame on the user stack | `sigaction`, `kill`, delivery at system-call exit, `rt_sigreturn` | user memory (frame), fork |
| kernel page tables | `kernel/vm.c`, `kernel/head.S` | the two root tables, `satp` | `setup_vm`, `relocate`, `mm_init`, `setup_vm_final` | page allocator; the driver, which reaches its device through them |
| open files | `fs/fs.c`, `fs/open.c` | per-task descriptor table | open, close, lseek, read, write, copy by fork | FAT32, console |
| FAT32, MBR | `fs/fat32.c`, `fs/mbr.c` | volume header, FAT, directory entries, sector buffers | open, read, write, lseek | virtio driver |
| virtio block driver | `fs/virtio.c` | descriptors, available and used rings, the driver's place in them | probe, initialise, read and write a sector | the device (external), which runs beside the hart |
| console | `fs/vfs.c` | none | spinning read, print | SBI (external) |
| user allocator | `user/src/memalloc.c`, `user/src/syscalls.c` | block list in the heap, program's copy of the break | `malloc`, `free`, `sbrk` | brk |
| formatted output and input | `lib/vfprintf.c`, `lib/vsnprintf.c`, `lib/vfscanf.c`, `user/src/printf.c`, `scanf.c` | counts, lists of argument types, the buffer, the character pushed back | `printf`, `snprintf`, `scanf`, `printk` | console |
| shell | `user/src/main.c` | the line, the descriptors it opened | editing keys, `echo`, `cat`, `edit` | open files, console |
| other demo programs, string functions, `rand`, headers | `user/src/main.c`, `lib/`, `include/elf.h` | none that matters here | | |

The kernel is never preempted: interrupts are off while it runs. What is hard
in it is therefore not locking but

* the order of faults, forks, stores and brk calls of several tasks on shared
  frames, and the account of references that has to survive all of them;
* states that exist only inside a loop of `do_fork` or `unmap_page`;
* translations that stay cached after the page table changed;
* pages that are used without being cleared;
* values left behind in the buddy tree by earlier splits and merges;
* memory running out at any allocation;
* rounds of scheduling with tasks joining in the middle and with a console read
  that stops the timer from being served;
* traps inside traps: a system call that faults on a user address, with a thread
  switched away and another loaded in between;
* signals that arrive while a handler runs, and signal frames in pages that a
  fork shares;
* offsets of files that fall inside or on the boundary of sectors and clusters,
  and tables that are followed from sector to sector;
* tables that are built while the hart runs on others, and nothing to catch a
  wrong one;
* rings shared with a device that runs by itself, and indices that wrap;
* a buffer that one part of the boot reads into and another part relies on later;
* a list of blocks that is taken apart and put together by every order of calls,
  under a break that the kernel and the program each keep for themselves;
* formats that are gone through twice, counts at the end of their type, buffers
  that are too small, and input that is read one character too far;
* lines edited on the screen and in a buffer that have to agree.

`PROJECT.json` lists these under `hazards`, each at its line with the
properties that watch it.

## Modules

| module | models |
|---|---|
| `PrivateMemory` | abstract: every task has a private memory; a fork copies, a store stays at home, read-only pages keep the file's content, brk moves a limit |
| `CowMemory` | the code that does it: areas, page tables, reference counts, demand paging, copy on write, the fork and unmap loops, brk, the translation cache |
| `MCCowMemory` | two programs for TLC: a data segment with .bss; text and data |
| `CowMemory_proofs` | theorems about `CowMemory`: types, the account of references, private pages, free frames, cached translations, areas, the lookup of the heap, exact counts, and that `CowMemory` implements `PrivateMemory` |
| `FrameAllocator` | abstract: aligned blocks that never overlap, refused only when none fits, held while referenced |
| `Buddy` | `mm.c`: the tree, its descent, climb and merge, reference counts, boot |
| `WeightedRounds` | abstract: in a round each task runs once, for as many ticks as its weight |
| `Scheduler` | `schedule`, `do_timer`, `do_fork`'s task creation, the pending timer interrupt, the console read that spins |
| `Resources_proofs` | theorems about `Buddy` and `Scheduler`, the two things the kernel deals out |
| `SignalService` | abstract: a signal that was sent waits once, each call takes one, a handler returns to exactly what it interrupted |
| `Signals` | `sigaction`, `kill`, delivery at the end of a call, the frame, `rt_sigreturn`, what a fork copies |
| `Signals_proofs` | theorems about `Signals` |
| `TrapEntry` | `entry.S`: save and restore, `sscratch`, `sepc` and `sstatus`, traps inside traps, `__switch_to`, new threads |
| `TrapEntry_proofs` | theorems about `TrapEntry` |
| `FileService` | abstract: files of fixed length, descriptors with a position each, reads and writes at it |
| `Files` | descriptor tables, the scan of the directory, cluster chains, reads and writes sector by sector |
| `Files_proofs` | theorems about `Files` |
| `MCFiles` | two volumes for TLC |
| `Disk` | abstract: one request at a time, served once, on the sector and buffer that were named |
| `VirtioBlk` | the driver, its descriptors and rings, and the device |
| `KernelMap` | `setup_vm`, `relocate`, `mm_init`, `setup_vm_final` |
| `Boot` | `KernelMap` and `VirtioBlk` together, from reset through the partition table to the requests of `fat32.c` |
| `Boot_proofs` | theorems about `VirtioBlk`, `KernelMap` and `Boot` |
| `MCBoot` | the disks for TLC |
| `UserHeap` | abstract: a block is given whole, below the break, to nobody else until it is freed |
| `Malloc` | `malloc`, `free`, `sbrk`, `sys_brk` |
| `Printf` | `printf_core` with its two passes, and the files it writes to; the text the standard asks for |
| `Scanf` | `vfscanf` over reads of single characters; what a format describes |
| `Shell` | the program of `main.c` that edits a line and runs `echo`, `cat` and `edit` |
| `UserLibrary` | `Malloc`, `Printf`, `Scanf` and `Shell` as what a program is made of |
| `UserLibrary_proofs` | theorems about `Printf`, `Scanf` and `Malloc` |
| `Shell_proofs` | theorems about `Shell` |
| `MCLibrary` | calls, inputs and sessions for TLC |

`CowMemory` uses what `Buddy` is shown to implement. The other modules meet in
the abstract: `TrapEntry` keeps of user memory only which pages can be written,
`Signals` only which tasks share a stack page, and both leave open which thread
is next, which is what `Scheduler` decides. `Files` takes single sectors as `Disk`
promises them, `VirtioBlk` is shown to keep that promise, and `Boot` puts the driver
under the tables of `KernelMap` and on top of it the reads that make the volume.
`Shell` makes the calls of `FileService` as a task that is alone.

Some modules hold operators named after a defect (`CallFresh`, `LinkedToHead`, ...).
Nothing uses them: each is a wrong form of the definition that follows it, which
one of the properties must tell from the right one (`mutants` in `PROJECT.json`).

### CowMemory and the code

`vmas[p]` is the list `mm->mmap` from the head, `brk[p]` is `mm->brk`, `pt[p]`
the leaf entries, `tables[p]` the interior page-table pages that exist (so that
a mapping takes as many frames as `vm_create_mapping` allocates), `refcnt` is
`buddy.ref_cnt` (zero means free), `content` what a frame holds. `tlb[pg]` is an
entry the kernel has replaced and the hardware may still use: the hardware
caches one translation per page, a walk at any time forgets the old one and
`sfence.vma` forgets all. Addresses are numbers below `USER_END`; contents are
whole pages.

| action | code |
|---|---|
| `Store` | a store of the running program through whichever translation the hardware has |
| `PageFault` | `do_page_fault`: `FaultRejected` (no area or no permission), `FaultSpurious` (mapped, not shared), `FaultCow` (PTE_S), `FaultDemand` (not mapped) |
| `ForkBegin`, `ForkPage`, `ForkNextVma`, `ForkEnd` | `do_fork`: bookkeeping pages and the reversed copy of the areas; one step per page of every area; files, `brk`, `sfence.vma`, the entry in `task[]` |
| `BrkUnchanged`, `BrkGrow`, `BrkShrink` | `sys_brk` with `do_vma_mmap` and `do_vma_munmap` |
| `UnmapPage`, `UnmapEnd` | `unmap_page`, one step per page |
| `Switch` | `switch_to`; which task is next is left open here, `Scheduler` says |
| `OutOfMemory`, `PoweredOff` | `buddy_alloc` resets the machine |

The kernel's loops are split into steps only so that invariants see what is
half done; nothing else runs in between (`kop`).

Free frames are handed out lowest first. That is what `Buddy` does for single
pages, by `RefinesFrameAllocator`; `CowMemory` uses this result in place of the
tree.

Named assumptions: the sizes are positive (`SizeAssumption`); segments start on
page boundaries, do not touch and lie below the heap (`SegmentAssumption`, what
`user/uapp.lds` produces); `load_program` never marks an area of the file as
anonymous (`FileAssumption`); heap and stack do not touch for the breaks asked for
(`LayoutAssumption`); `Kernel` is not user content (`DataAssumption`).

### Buddy and the code

`bitmap` and `ref_cnt` are the arrays of `mm.c`; `Descend`, `TakeNode`, `Climb`
and `GiveNode` are the loops of `buddy_alloc` and `buddy_free`, written as
recursive functions on the path between a node and the root. `answer` is what
the last call returned. Callers
hold addresses of pages at or above the first one given out, allocated or not
(a stale pointer): `ref_page` and `deref_page` answer -1 for a page where no
block starts. `free_pages` is called with a page `alloc_pages` gave; the source
tree has no caller of it.

### Scheduler and the code

`counter`, `priority`, `task_num` and `current` are the kernel's. `pending` is
the timer interrupt between the moment it fires and the moment it is taken, and
`spinning` the loop of `uart_getchar`. All threads have the one state the code
has. A random priority is any priority. The definitions that `Buddy` has under the
same names are called `SchedulerInit`, `SchedulerNext` and so on.

### Signals and the code

`pending[p]` is the word `signal->sigpending`, `flag[p]` `_TIF_SIGPENDING`.
`regs[p]` stands for the user registers in `pt_regs`: the points reached by the
program and by each handler on top of it. `page[p]` is the physical page of the
stack and `frame[g]` what `setup_rt_frame` left at its base, through the
kernel's own mapping, whoever shares the page. Calls run to their end with
interrupts off, so each is one action that ends in `ExitToUser`
(`syscall_exit_to_user_mode`). `kill` with signal 0 is a call like any other: its
shift by minus one reaches the last bit of the word.

Two constants bound what programs do. `CallDepth` is how many handlers, one
inside the other, make calls; `BareCalls` allows a call between a fork and the
next write to the stack. `BareCalls` as well as a positive `CallDepth` lets the
frame be overwritten.

### TrapEntry and the code

The hart's registers are kept as far as the entry uses them: `sp`, `t0`, and `x`
for all others. A stack pointer is a stack and a number of frames on it.
`frames` holds every `pt_regs` ever stored, `thread` the `thread_struct`s;
`taken[p]` is a history variable, the contexts task `p` has to go back to. A
user address is on the data or the stack page or is `"wild"`: in no area of the task,
or in one that forbids the access (`Addresses`).

| action | code |
|---|---|
| `UserStep`, `UserFault`, `Ecall`, `TimerInterrupt` | what user code does, and the interrupt, with the first instructions of `_traps` |
| `Save` | the stores of `_traps`; the first may fault |
| `Tick`, `TickSwitches`, `Boot` | `do_timer` and `schedule` with `__switch_to` |
| `PageFault` | `do_page_fault`; at a wild address it returns without a mapping |
| `Copy`, `CopyFault`, `CopyDone` | the access of a system call to a user address: it comes, faults as often as the page is not there, and is made |
| `Syscall`, `SysReturn`, `DoFork` | `syscall_handler`; `do_fork` with the child's thread |
| `Restore`, `Dummy` | `restore` and `__dummy` with `sret` |

### Files and the code

A unit of data stands for the bytes that no offset of the instance separates.
`disk[c][s]` is sector `s` of cluster `c`; the table (`Fat`) and the directory
are constants, since nothing writes them. `files[p][fd]` is `struct file`; its
function pointers are named by `ops`. `io` holds the locals of the open, read or
write that runs: the loops of `fat32_open_file` (one step per cluster) and of
`fat32_read` and `fat32_write` (one step per cluster skipped and per sector)
are steps of their own, so that the runs can see whether they end. Nothing else
runs meanwhile. `NextCluster` keeps the arithmetic of `next_cluster`.

Programs use the descriptors they were given by a successful open: one that
failed leaves its descriptor taken (`Usable`), and using it is not modelled.

Named assumptions: the sizes are those of a file system (`FilesAssumption`), and the
volume is sound (`VolumeAssumption`): chains reach as far as the sizes say, no two
files share a cluster or a name, and the directory ends. That `next_cluster` finds
each next cluster and that entries of files lie in the first sectors of their
clusters is not assumed of a volume: it is `WithinReach`, a hypothesis of the theorems
that need it. `far_chain` is a volume without it.

### VirtioBlk and the code

`desc`, `avail` and `used` are the queue, `req` and `original` the locals of a
request, `status` and `ready` the registers that matter, `regs` the window found.
`taken` and `work` belong to the device: how far it has read the available ring and
the request it holds. `disk` and `memory` are the sectors and the kernel's
buffers. A stored sector moves at once; when it does is up to the device.

| action | code |
|---|---|
| `Probe`, `BlkInit` | `virtio_dev_init`: one window; `virtio_blk_init` with the queue |
| `Call`, `Publish`, `Notify`, `Return` | `virtio_blk_read_sector` and `_write_sector`: the request and its descriptors, `virtio_blk_cmd`, the notification, the loop on the used index |
| `Use` | the caller between two requests |
| `DeviceTake`, `DeviceMove`, `DeviceDone`, `DeviceSleep` | the device (external) |

The driver writes the head of a chain one place behind the one its index makes
available. It is served all the same because every head is 0 and the ring holds
zeros: `StaleAssumption` says that the page, which `alloc_pages` does not clear, is
clear at boot. `BlkAssumption` says that there is a block device: without one
`virtio_blk_regs` stays `NULL`, and the first request would use it.

### KernelMap, Boot and the code

Addresses are page numbers and a table has `Fan` entries. `stage` says how far
`head.S` is, `satp` which table is in use, `tables` the memory of the tables, `todo`
the mappings of `setup_vm_final` still to come. Every step that touches memory
does it through the table in use; `lost` says that one was not mapped.
`SetupVm`, `Relocate`, `MmInit`, `SetupVmFinal`, `MapPage`, `NextMapping` and `Activate`
are the steps.

`MapAssumption` is about the layout that `vmlinux.lds` and the machine give: root
table and memory begin on giant pages, all that is mapped is in the upper half, the
image with its tables and the tables `setup_vm_final` takes (`TablesTaken`) fit in
memory, and the devices are under another entry of the root than the kernel.

`Boot` goes on with `VirtioDevInit`, the reads of `virtio_blk_init`
(`ReadSignature`) and `mbr_init` (`ReadMbr`, `SkipPartition`, `ReadHeader`), the
outcomes of `is_fat32` and `fat32_init` (`NotFat32`, `IsFat32`, `Fat32Init`),
`StartKernel`, and then any requests of `fat32.c` (`FileRequest`, `FileUse`).
`InRequest` and `DeviceRuns` are the steps of `VirtioBlk` in between. A sector's
content is a model value: whether it ends with the signature, and which entries
of a partition table are of type 0x83, are constants.

### Malloc and the code

`header` is the memory of the headers, `head` and `tail` the list, `current_brk`
the static of `sbrk`, `mm` the kernel's break with the end of the heap area.
`loop`, `current` and `arg` are the locals of the loop that runs, `live` what
the program holds. `Malloc` starts `get_free_block`, whose loop is
`GetFreeBlockNext` and which ends in `Reuse` or `Extend`; `free` is `FreeInner`,
`FreeOnly` or `FreeLast`, the last with the loop `UnlinkNext` and `Unlink`.
`SysBrk` keeps the kernel's old break as long as the page stays the same, as the
code does. `MaxBreak` is where the program stops asking; a size whose sum with
the header overflows is not asked for.

### Printf, Scanf, Shell, UserLibrary and the code

A format is a sequence of texts and directives and a character a string; parsing
of digits and flags is therefore reading a record. Words have few bits,
`INT_MAX` is 15 and `pad` has two characters, so that each limit in the code is
met. `Printf` models both copies of `printf_core`, that of `vfprintf` and that
of `vsnprintf`, and the files they write to: `sbi` (the console of `printk`),
`stdout` (a write call, which the kernel prints as a format once more), `str`
(the buffer of `snprintf`). `GivesArguments` says that a caller passes the arguments
its format takes, and excludes formats with numbered and unnumbered arguments, for which
the code reads what nobody has set. `PrintfAssumption` has nothing else but the order of
the widths (a `char` is no wider than a `short`, and so on) and the shape of the data.

`Scanf` reads the input one character at a time and pushes at most one back, in a
`FILE` that lives for one call only. `Shell` has one step per key, per command and per
read of `cat`. What it writes goes through `printk` as a format (`Printed`, `PrintedChar`): a `%`
or a NUL that is typed shows nothing and stays in the line, a text of `echo` with a `%` is lost
or garbled, `cat` does not show a `%`. For `parse_cmd` the line ends at its first NUL (`CString`).
`Atoi` adds `c - '0'` for every character and wraps as an `int`, so an offset may be
negative; `Codes` gives the values of the characters, and no more is assumed of them than that
digits follow each other.

The assumptions are about what is typed (`Typable`): a line fits `line_buf`; a quote that begins
a word is closed when the line is run (`QuotesClose`; `get_string` looks for the second
quote wherever it may be); nobody types a backspace, which the terminal obeys and the line keeps.
The name of a command is one key of the model at the head of a line, neither spelled nor erased.
In `UserLibrary`, `routine` chooses which of the four a behaviour is about. They share
no state, and a program has one thread.

## Runs

| run | instance | what it shows |
|---|---|---|
| `heap` | 2 tasks, 25 frames, pages of 2 addresses, one writable segment, heap of up to 2 pages, breaks 0, 1, 3, 6 | types, exact counts, zeroed free frames, coherent translations, the heap is always found, refinement of `PrivateMemory`: no kernel step changes what a task reads |
| `fork` | 3 tasks, 41 frames, read-only text and writable data with .bss | private writable pages inside the fork loop, refinement of `PrivateMemory` |
| `buddy` | 8 pages, 2 reserved, requests 0, 2, 3, 2 references | the tree is exact, the allocator refines `FrameAllocator` |
| `scheduler` | 4 tasks, priorities 1 to 3 | whoever runs has ticks, no ticks are saved up, every task runs for ever, refinement of `WeightedRounds` |
| `signals` | 2 tasks, 2 signals, one of them fixed, 1 handler, no calls in handlers | flag and bits agree, every signal is taken unless lower ones keep coming, handlers return right, refinement of `SignalService` |
| `trap_entry` | 2 tasks, 2 points, 3 frames to a stack | each return is to what was interrupted, `sscratch` is right in user mode, no interrupt in the kernel, the kernel always returns, but from a system call that was given a wild address |
| `files` | 2 tasks, a file of 5 units in 2 clusters of 2 sectors of 2 units, directory of 2 clusters, reads and writes of 1 or 2 units | refinement of `FileService`, no other data touched, every call ends |
| `boot` | tables of 4 entries, 15 pages of memory, 2 windows with the device in the second, a queue of 4 with indices modulo 8, a disk of 3 sectors | no access without a mapping, the final table and its pages, the header `fat32_open_file` relies on, order of the queue, the device alone has its buffer, every request returns, refinement of `Disk` |
| `user_library` | a heap of 3 pages of 8 with sizes 1, 3 and 6; 1,500 calls of `printf` to each file, buffers of 0, 1 and 4; 1 or 2 calls of `scanf` on each input of up to 3 characters; short sessions of the shell on 3 files, with `%`, NUL and offsets that are no numerals or that no `int` holds | the list of `malloc` and its refinement of `UserHeap`, calls return; output, length and `%n` as the standard says, no buffer overrun; what `scanf` stores and where it stops reading; line, screen and commands of the shell |
| `nested_handlers`, `stack_fault`, `far_chain` | | where comments and programs of the repository expect something the code does not do (below) |

The cfg files name the properties, and every property has its mutant. Where a
component's type invariant is not a property of its own it is a conjunct of
`TreeExact`, `ScratchIsKernelStack`, `OtherDataKept`, `QueueInOrder`,
`HeapWhole` and `BufferBounded`; those of `Scheduler` and `Signals` are proved.
`user_library` alone does not look for deadlocks: a call of `printf`, a program
of `scanf` and a session of the shell end.

Bounds. Two addresses per page are enough to put a break or a fault inside a
page and on its boundary. Breaks 1, 3 and 6 are below the start of the heap,
inside its first page and at the end of its second; 0 is the query. Two heap
pages give a page that survives a shrink and one that does not. `MaxDropped`
stops a program from giving heap back once two frames are lost: the leak below
would otherwise be all a run shows. 25 frames are few enough that `heap` also
reaches the reset of the machine in faults, forks and unmaps. Three tasks
give a fork of a fork, so a frame is shared by three entries. Eight pages
give blocks of three sizes and merges over two levels; two reserved pages keep
the root from ever being free, as in the kernel. `MaxRef` 2 tells a dereference
that frees from one that does not. Four tasks with three priorities let a task
join in every place of a round.

Signals 0, 1 and 2 are the one that sets the stray bit, the one that cannot be
caught and an ordinary one that has to wait for it; two steps tell a context
before a call from the one after it. Two points of a user program and two call
depths let the stack pointer move between traps, and three frames leave room for
a fault inside a system call (or, in `stack_fault`, inside its entry). File `a`
starts in a first sector and ends in the middle of the first sector of its second
cluster; a transfer of two units from an odd offset crosses sectors, and from
offset 3 clusters; both `a`'s second cluster and the directory's are found in
another sector of the table. Seeks by -1 from start, position and end, with
reads, reach every offset from -1 to the end. 16 table entries to a sector keep
the arithmetic of 128 with clusters below 32: four of the 16 are found, as 32 of
the 128.

With tables of four entries the kernel's image and the memory each take several
of the smallest tables, and the devices lie under another entry of the root; 15 pages
of memory hold the image and just the tables that are taken.
Indices modulo 8 on a ring of 4 wrap at two widths, as those of 16 bits on a
ring of 16 do. The second window makes the driver go past one that is not a
block device; sector 3 is past the end of the disk. The partition table has two
entries of the type, first and last, and each may or may not be FAT32. Three
sizes and three pages give free blocks that are too small, fit, or leave room,
and breaks that stay in a page or leave it. Buffers of 0, 1 and 4 have no room,
room for the NUL, and less than most texts need. Three characters of input are a
sign and two digits or a number, a space and the next word. `CAT_BUF_SIZE` 2
splits files of 0, 2 and 5 characters at and off the end of a read.

Fairness. In `Scheduler`, the booted hart runs (`StartKernel`), the timer, set
again at each interrupt, fires and is taken (`TimerFires`, `DoTimer`), and a
console read is answered (`Input`). Weak fairness is enough: a pending interrupt
is taken before the next user instruction, so no user step can put it off, and a
read ends. Without `Input` a single read stops every other task; that is the
code's design and stated as a hazard. In `Signals`, every task goes on: it
writes to its stack, makes calls, and its handlers return; a program that never
makes another call takes no signal. In `TrapEntry` and `Files` only steps of the
kernel are fair, and it is not interrupted there: the hart executes the next
instruction. `KernelReturns` holds under this alone, except where the same access faults for ever. In `Boot` the hart goes on (`Hart`) and the device serves what it
was notified of (`DeviceRuns`): the kernel spins until it does. In `Malloc` and
`UserLibrary` a call under way goes on (`Calls`, `InCall`); nobody has to call.

## Where the text and the code differ

* `nested_handlers`: `get_sigframe` takes the base of the page of `sp` whatever
  lies there. A signal delivered at the end of a call that a handler makes
  overwrites the handler's own frame, and its return goes to the wrong place;
  the demo program has such a handler.
* `stack_fault`: a fault in the kernel builds its frame on the user stack. If that
  page cannot be written (after a fork, before any store to it), the entry faults
  in its first store, and the outer context is lost.
* `far_chain`: `next_cluster` reduces a byte offset modulo the number of entries,
  so only the first 32 of the 128 entries of each sector of the table are found.

Seen while modelling, and not among the runs:

* `mm.h` says `deref_page` frees the memory when the page-table reference count
  reaches zero. A mapped frame has one reference more than mappings
  (`CountsStayExact`), so `unmap_page` leaves the last one allocated for ever.
  `FreeFramesZeroed` holds only because of this: no user frame ever becomes free.
* `_traps` copies `sp` to `t0` before `t0` is stored and `restore` leaves it there, so a
  program interrupted by the timer loses `t0` (`ContextRestored` is about the others).
* `find_vma` takes `vm_end`, past-the-end in `proc.h`, for an address of the area,
  and the page there is mapped on demand; `CowMemory` does so too (`Covers`).
* `proc.h` says the list of areas is sorted by address; it is in reverse order of
  insertion, and each fork reverses it again (`DoMmap`, `Reverse`).
* `mm.h` says `free_pages` frees; it does nothing for an allocated page, whose
  count is not zero (`FreePages` in `Buddy`, a step without effect).
* Nothing stops `do_fork` at the end of the array of `NR_TASKS` threads
  (an assumption of `Scheduler`).
* `kill` with signal 0 leaves a bit that is never taken, and so the flag set.
* `dir.index` is the index in a sector while `fs.h` says in the cluster: the size of
  a file whose entry is in a later sector is read from another entry.
* `is_fat32` overwrites the header that a volume in use keeps its root cluster in
  (`VolumeWhole` says when that does no harm).
* `setup_vm_final` maps `PHY_SIZE` from behind OpenSBI, so the direct map ends
  `OPENSBI_SIZE` past the end of memory (`KernelMap`).
* The status byte a request ends with is never read: a sector the disk does not have
  leaves the buffer as it was, and the caller goes on (`Disk`).
* `stdout_write` passes the text of a program to `printk` as a format and returns 0. A `%`
  at the end of the text makes it show nothing, one before takes arguments nobody gave
  (`Shown`). `ConsoleShows` speaks of texts without a `%`; `ShellObeys` says what the shell
  shows when there is one.
* A `*` width of `-INT_MAX - 1` has no counterpart and stays negative: nothing is filled
  (`Width`). The standard has no such width.
* The width of `%d` in `scanf` does not count the sign, and `%s` at the end of the input
  counts an empty string (`Scanf`).
* When its first pass fails `snprintf` leaves the buffer without an end, and `str_write`
  returns a length nobody set (`Printf`).
* `cat` of an empty file looks at a last character that was never read (`LastChar`), and
  each open that fails costs the shell a descriptor (`Lost`).

## Proofs

`CowMemory_proofs` proves, from the named assumptions and for every layout,
program, number of frames and tasks:

* `TypeCorrect`: `Spec => []TypeOK`. The work is in page numbers that stay in user
  space, rounded breaks that stay below the stack, and file pages that exist.
* `PrivateWritable`: `Spec => []WritableIsPrivate`.
* `MappedIsHeld`: a mapped frame has at least one reference more than entries.

`WritableIsPrivate` is not inductive: a fault may be handed a frame that is
still mapped, unless mapped frames are never free, and a fork may share a page
twice, unless the child only has frames of its parent. `IInv` therefore adds

* `Counted`: the count of a named frame is at least one more than its entries;
* `Unshared`: a writable entry is the only one naming its frame;
* `UnbornMapNothing`, `CurrentRuns`, `ForkShares`: what the fork loop relies on.

The lemmas `TakeKeepsCounted`, `ClearKeepsCounted`, `EnterKeepsCounted` and
`ShareKeepsCounted` say what each kind of page-table update does to the account,
for any tables and counts; each action is then one or two of them.

The second half of the module adds to `IInv`:

* `FreeStaysZeroed`: `Spec => []FreeFramesZeroed`;
* `TlbStaysCoherent`: `Spec => []TlbCoherent`.

That replaced translations are harmless while a program runs does not follow from
the tables alone. `FInv` says what they are: frames that are not free (`CachedHeld`),
with the content the page has now and without any writable entry (`CachedFresh`),
and shared entries allow no store (`SharedReadOnly`). `FreeBefore`, `CachedBefore` and
`Kept` say what a step may do to frames and translations; each action is shown to do no
more (`FaultEffect`, `ForkPageEffect`, `UnmapPageEffect`, `StoreTarget`).

and to `FInv`:

* `BrkAlwaysFindsHeap`: `Spec => []BrkFindsHeap`. `AreasGood` says that areas do not touch
  and that one of them is the heap, from its start past the break and short of the
  stack; `ShrinkBounds` says where a shrink is.
* `CountsStayExact`: `Spec => []RefCountExact`. `Exact` becomes inductive with
  `ForkPlace`: what the child maps are pages `do_fork` has passed. Since areas lie
  apart, no page is passed twice, so no entry is overwritten without its reference.

and, last, `ImplementsPrivateMemory`: `Spec => RefinesPrivateMemory`. `PInv` adds to all of the above that areas are segments, stack and heap (`AreaKinds`), that no
entry of a text page allows a store (`NoTextWritable`), that the child maps, of the pages
`do_fork` has passed, those the parent maps (`ForkCopied`), and where an unmap is
(`UnmapPlace`). A store maps
to `Store`, the store of `brk` and the steps of unmap to `Resize` and `Discard`, and the
end of the fork loop to `Fork`; there `AllPassed` says that every page the parent may
use was passed. A fault changes nothing that is read (`FaultReads`), and what is left stutters.

`Resources_proofs` proves of `Buddy`, for every power of two of pages, every reserved part, and all
requests and bounds of references:

* `TreeStaysExact`: `Spec => []TreeExact`;
* `ImplementsFrameAllocator`: `Spec => RefinesFrameAllocator`.

`TreeExact` speaks of longest free blocks and is not inductive: it says nothing about the
values that earlier splits and merges left inside a block, which `buddy_free` shows again
when it gives the block back. `TreeInv` says that there is a set of blocks, apart from each
other, with 0 at each; that below a block every node is as if it were whole; and that every
other node follows from its two halves (`Sound`). `Owns` ties the blocks to the pages with
references. `TreeLongest` gets the longest free blocks from it, `DescendFinds` that the
descent ends at the lowest free block of the length, `ClimbIs` that the climb ends at
the block, and `TakeKeeps` and `GiveKeeps` that the two updates keep it; `BootTree` follows
the loop of `buddy_init`. What a recursive function computes needs a proof that
there is one: `RankedExists` gives it for any definition that looks only at places of
lower rank, and each loop has its rank. Powers of two are the function `Pow2`, and
`NodeIsBlock` and `BlockHasNode` turn node numbers into aligned runs of pages and back.

Of `Scheduler` it proves, for every number of tasks and range of priorities:

* `TypeCorrect`: `SchedulerSpec => []SchedulerTypeOK`;
* `RunnerTicks`: `SchedulerSpec => []RunnerHasTicks`, and
  `NoneSaved`: `SchedulerSpec => []NoTicksSaved`;
* `ServesRounds`: the initial states and every step of `Scheduler` are those of
  `WeightedRounds`, or stutter.

The invariant `SInv` is the two properties with the types, that tasks there are
have priorities and others have no ticks (`Enrolled`), and that before boot
nobody has any (`BootHasNoTicks`). Together they make the first branch of
`do_timer` dead and the carry of `counter >> 1` zero, which is what the rounds
need. `RefilledOwes` and `SchedulePasses` say what the two loops of `schedule` do.

`Signals_proofs` proves, for every number of tasks, signals and handlers:

* `TypeCorrect` and `FlagExact`: `Spec => []FlagTracksPending`, with handlers that
  make calls and frames that are overwritten, too;
* `HandlersResume`: `Careful => (Spec => ResumesInterrupted)`, where `Careful` says
  `CallDepth = 0` and `BareCalls = FALSE`; `nested_handlers` shows that the first
  of these is needed.

`ExitEffect` says once what the exit of any call does; `CallOutcome`,
`ForkOutcome`, `ReturnOutcome` and `WriteOutcome` bring each action to it. `RInv`
strengthens `ResumesInterrupted`: handlers are at most one deep, the frame of a
task's page is what its handler interrupted, and of the tasks that share a page
at most one is in a handler.

* `ImplementsSignalService`: `Careful => (Spec => RefinesSignalService)`. Each call maps to
  its own step of `SignalService`. The signal taken at the exit is the lowest that
  waits (`LeastNumber`, `TakesOne`), so the exit of a call takes what the abstract call
  takes (`ExitTakes`); a signal `kill` has sent waits (`SentWaits`).

`TrapEntry_proofs` proves, for every number of tasks, of points of a program and of
frames on the user's stack:

* `NoInterrupts`: `Spec => []KernelUninterrupted`, whatever programs do. `QInv` says that
  no thread is ever stored with a status that would turn interrupts on.
* `ScratchStaysKernelStack` and `ReturnsRestore`, under `Careful`: programs write to their stack
  before they pass addresses to the kernel (`BareCalls = FALSE`); `stack_fault` shows that
  this is needed. `SInv` lists the places the running task can be in (`Running`), with its
  stacks, its frames and what it has to go back to, and says of every other task
  that it is at `__dummy` or inside a switch with one frame (`Ready`).

`Files_proofs` proves, for every sound volume that is `WithinReach`, every number of tasks
and descriptors and every size of sectors, clusters and transfers:

* `OthersKept`: `Spec => []OtherDataKept`;
* `ImplementsFileService`: `Spec => RefinesFileService`.

`IInv` says what is stored of an open file (`Handles`: its first cluster and size are
those of the directory), where the scan of the directory is (`Scan`), and where a read
or write is (`Moving`: cluster and offset are those of its place in the file, less the
clusters still to skip). `Division` and `UnitAt` relate units, sectors and clusters;
`UnitPlaced` says that no two places of the volume's files are one place of the disk, so that
a write changes one unit of one file. `Chain` is a recursive function on numbers;
`LeastNumber`, `AllNumbers` and `WalkDefined` show once that such functions exist and
unfold, from the order of the numbers rather than from a theorem with an operator
parameter. Reads and writes map to one step when they return, opens to one when the scan
ends, and what is in between stutters.

`Boot_proofs` proves, for every size of the queue and width of the indices, from
`StaleAssumption` and the others, of the driver alone:

* `QueueStaysInOrder`: `Spec => []QueueInOrder`;
* `DeviceOwns`: `Spec => DeviceOwnsRequest`;
* `ImplementsDisk`: `Spec => RefinesDisk`;

and of the whole boot, for every layout that satisfies `MapAssumption` and every disk:

* `NeverFaults`: `BootSpec => []BootNeverFaults`;
* `MapsKernel`: `BootSpec => []KernelMapped`;
* `KeepsVolume`: `BootSpec => []VolumeWhole`;
* `BootKeepsQueue`, `BootLeavesRequests`, `BootUsesDisk`: what is proved of the driver alone
  holds under the boot.

For the driver, `IInv` adds that the ring holds zeros (`RingClear`), what the descriptors are
during a request (`Built`), and that the device is at one of three places of it (`DeviceAt`).

For the tables, `KInv` says which of them are in use at each stage (`StageInv`) and what
they hold: `EarlyTable` before `setup_vm_final`, and from then on a tree (`TreeInv`). The
tree is stated without walking it: sets of top, middle and low places, an injective
choice of a page for each, and what each page holds (`Tree`). `RootEntry`, `MidEntry` and
`LeafEntry` say that `create_mapping` adds one place to it; `TreeWalk` says that a walk finds a
page that is in it. Each step maps a page that `CallRight` says is mapped where it
belongs, and `TablesFit` counts the places: the pages taken stay in the memory
that the early table reaches, which is why no step faults.

For the volume, `BInv` says how far the boot is (`OrderInv`, `EntryInv`), which buffers its
requests have (`BufferInv`), and that `VolumeWhole` holds for the entries of the partition table
seen so far (`WholeAt`). Every step of the boot is a step of the driver or leaves it alone.

`UserLibrary_proofs` proves of `printf`, for every set of calls whose formats are given their
arguments, every buffer size and every width of the integer types:

* `PrintfIsBounded`: `LibrarySpec => []BufferBounded`;
* `CountIsStored`: `LibrarySpec => StoredIsWritten`.

`BufferBounded` is not inductive, since the first pass leaves the string alone and the
steps of the second one write to it piece by piece. `PrintInv` says that `cnt` and `l` are
what has been handed to the file and what the last directive added (`Counted`), that the
string holds the start of that (`Buffered`, `HoldsText`), and, of the arguments, that those the
parts still to come need are there: the next ones from `ap` on, or the numbered ones
with the types the first pass has noted (`Found`). `IsField` is what each conversion gives: an
overflow, or a text no longer than its precision; `EmitFills` writes any such field. That
widths and precisions are numbers, so that the arithmetic on them is defined, is where
the assumptions on the calls are used (`StarValueTyped`, `PopArgTyped`).

Of `scanf` it proves, for every sequence of formats and every input:

* `ScanfReadsItsFormat`: `LibrarySpec => []ReadsAsDescribed`.

`ReadsAsDescribed` speaks of a call that returns. `ScanInv` says where a call is before:
the parts behind it are read as described (`Clean`, `Sofar`), and in the loop of a directive
how far the spaces, digits or characters read so far go in the run that the
description takes at once (`SkippingFrom`, `NumberFrom`, `StringFrom`, `CharsFrom`). `Place` is
where the stream is for the caller, whether or not a character was pushed back; a
character that is read and pushed back leaves it there. `LongestRun` says when a run ends, and
`ReadingsAre` unfolds the description part by part.

Model and description use folds and recursive functions over sequences; what they compute comes
from the order of the numbers, as in the other modules (`RecursionExists`, `FoldExists`,
`FlattenExists`, `CountsUpExists`).

Of `malloc` it proves, for every page and header size and every set of sizes:

* `HeapStaysWhole`: `Spec => []HeapWhole`;
* `BlocksStayApart`: no two blocks, and no block and header, share a byte;
* `ImplementsUserHeap`: `Spec => RefinesUserHeap`.

The list is described by what each header says of the next one (`ListTiles`) and by the
order of all of them (`Ordered`), so that no recursive definition is needed; `Held` ties
what the program holds to the headers, `Area` the two breaks.

`Shell_proofs` proves, for every volume, every size of the buffer of `cat`, every set of
descriptors and every session that the assumptions allow:

* `ShellDoesAsTold`: `LibrarySpec => []ShellObeys`.

The property states what a `%` or a NUL changes: the screen shows the line as long as neither
was typed; `echo` shows a text without a `%`; `cat` shows the file without each `%`, and `x`
for a NUL. `edit` writes where its second word says if this is a numeral that an `int` holds
(`NumberOf`, which knows nothing of character codes), and otherwise at one place or nowhere,
so that the file keeps its length and all else in it. Words are those of the line up to its NUL.

`ShellObeys` speaks of the screen while a line is typed and of a command that is over.
`ShellInv` says what comes before:

* `Keying`: the line is the one the keys so far make (`Edited`), so its quotes close when it is
  run (`Lined`). `EditedIs` gives the line after one more key.
* `Echoed`: what was written since the prompt shows the line, and nothing behind it, unless
  a `%` or a NUL was among it (`Shows`). A character overwrites and moves on, a backspace only moves back;
  `ShowsErased` puts together the backspace, space and backspace that take one away.
* `Catting`: when `cat` has read `p` characters, it has shown these as `Visible` says,
  its descriptor is behind them and was free before, and `last_char` is the last of them.
* `Begun`: the history is the state in which the command was entered; `Filed`: files and
  descriptors keep their shape.

The words of a line are the hard part: `get_param` and `get_string` walk it with a position,
while the property takes it apart at once, by the places where words start. `Behind` says
that the walk has passed `k` words; `NextWord` and `NextPhrase` (a word, and a quoted text that
may hold blanks) take it to the next one, and `NextParam` and `NextText` show that the two
functions of the code do this. `AtoiIs` shows that the fold over character codes gives the number
of a numeral, digit by digit (`NumberIs`), as long as it does not wrap.

Only model-checked: that the text `printf` writes is the one the standard asks for
(`PrintsAsStandard`, which compares the code with another description of the same texts,
directive by directive). All liveness and `ENABLED` stay with TLC, since the prover
cannot do them.

## Not modelled

* The other programs of `main.c`: they make system calls one after the other, and what any
  program may do is the environment of the modules.
* The string and memory functions and the division helpers are loops of one line, and
  `rand` is arithmetic: no property depends on how they are computed.
* `elf.h`, the headers of ext2 and of the features of virtio are declarations.
* Paths below the root directory, long names, growing and creating files: the code
  has none of them. Converting names to the form of the directory is left out.
* Excluded by assumptions: segments that are not page aligned or whose .bss reaches
  the heap, accesses at or above `USER_END`, a machine without a block device, sizes that
  overflow in `malloc`, formats that mix numbered and other arguments, numbers that
  overflow in `scanf`, a `%s` without a string, quotes that do not close, a typed backspace.
* Hazards without a property. Three are the plain reading of a line, and a model could only
  repeat it: the task array is not bounded (`proc.c`), `dir.index` is relative to its
  sector (`fat32.c`), and the line buffer of the shell is not bounded (`main.c`). Pages that
  a shrinking `brk` gave back are mapped again on demand (`vma.c`): no text forbids
  a program to use them, and `PrivateMemory` does not either. A console read spins with
  interrupts off (`vfs.c`): that it ends is the fairness of `Input`. The rings of
  virtio are not cleared (`virtio.c`): what stale memory tells the device is `StaleAssumption`.
* A fault that `do_page_fault` does not resolve returns to the instruction that faulted, for ever.
  In user code that is a loop the timer interrupts; in `CowMemory` it is a step that changes
  nothing. In a system call interrupts are off and the hart does not come back: that is the
  exception `KernelReturns` makes (`AtWildAddress`). That the loop on the used index reads memory each
  time rests on the optimisation level of the build.

## Plan

Done: all modules above with their runs and proofs. What is left, in this order:

1. Compositions: signal frames on copy-on-write pages (`Signals` over `CowMemory`), and file
   reads into pages that fault (`Files` over `TrapEntry` and `CowMemory`).
2. Proofs: that the text of `printf` is the one the standard asks for, and the compositions
   of 1.
3. `Boot` with several devices and with partitions that are not in order.
