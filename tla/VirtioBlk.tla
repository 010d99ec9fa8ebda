------------------------------ MODULE VirtioBlk ------------------------------
(***************************************************************************)
(* The driver of the block device (fs/virtio.c) and the device behind its  *)
(* queue.  The driver fills three descriptors, publishes their head in the *)
(* available ring, notifies the device and spins until the index of the    *)
(* used ring moves.  The device runs beside the hart and does one step at  *)
(* any time.                                                               *)
(*                                                                         *)
(* The driver writes the head to the place after the one its index names;  *)
(* it is served because every head is 0 and the pages of the rings hold    *)
(* zeros before.  Stale is what else they might hold: alloc_pages does     *)
(* not clear them.                                                         *)
(*                                                                         *)
(* Operators named after a defect (CallFresh ...) are not used: each       *)
(* is a wrong form of the definition after it that the properties must     *)
(* tell from the right one.                                                *)
(***************************************************************************)
EXTENDS Integers, FiniteSets

CONSTANTS
  QueueSize,    \* VIRTIO_QUEUE_SIZE
  IdxMod,       \* the values of a uint16_t, the type of the indices
  Transports,   \* VIRTIO_COUNT, the number of virtio-mmio windows
  BlkAt,        \* the windows that show a block device
  Capacity,     \* the sectors of the disk are 0 .. Capacity - 1
  SectorNos,    \* the sector numbers callers ask for
  Buffers,      \* the sector buffers of the kernel
  Data,         \* what a sector holds
  Images,       \* what the disk may hold at boot
  Stale         \* what a place of the available ring may hold at boot

ASSUME QueueAssumption == /\ QueueSize \in Nat /\ QueueSize >= 3
                          /\ IdxMod \in Nat /\ IdxMod > 1
                          /\ IdxMod % QueueSize = 0
ASSUME DiskAssumption == /\ Capacity \in Nat
                         /\ SectorNos \subseteq Nat
                         /\ Images \subseteq [0 .. Capacity - 1 -> Data]
ASSUME BlkAssumption == Transports \in Nat /\ BlkAt \subseteq 0 .. Transports - 1 /\ BlkAt # {}
\* The memory of the rings is clear at boot.
ASSUME StaleAssumption == Stale = {0}

VARIABLES
  regs,       \* virtio_blk_regs: the window in use, -1 for NULL
  probed,     \* i of virtio_dev_init
  status,     \* the Status register
  ready,      \* the QueueReady register
  desc, avail, used,  \* the three parts of virtio_blk_ring
  req,        \* virtio_blk_req
  original,   \* original_idx of the call that runs
  driver,     \* where the driver is
  memory,     \* what the buffers hold
  disk, taken, notified, work  \* the device: content, its index into the
              \* available ring, a notification to serve, the request in work

driverVars == <<regs, probed, status, ready, desc, avail, req, original, driver>>
deviceVars == <<disk, taken, used, work>>
vars == <<driverVars, deviceVars, memory, notified>>

Places == 0 .. QueueSize - 1
Indices == 0 .. IdxMod - 1
Flags == {"next", "write"}
Addresses == Buffers \cup {"req", "status", "none"}
Types == {"in", "out"}
NoWork == [head |-> -1]
Descriptors == [addr : Addresses, flags : SUBSET Flags, next : Places]
Works == [head : Places, type : Types, sector : SectorNos, buffer : Buffers,
          moved : BOOLEAN]

Init ==
  /\ regs = -1 /\ probed = 0 /\ status = {} /\ ready = FALSE
  /\ desc = [i \in Places |-> [addr |-> "none", flags |-> {}, next |-> 0]]
  /\ avail \in [idx : {0}, ring : [Places -> Stale]]
  /\ used = [idx |-> 0, ring |-> [i \in Places |-> 0]]
  /\ req = [type |-> "in", sector |-> 0]
  /\ original = 0 /\ driver = "probe"
  /\ memory \in [Buffers -> Data]
  /\ disk \in Images
  /\ taken = 0 /\ notified = FALSE /\ work = NoWork

-----------------------------------------------------------------------------
(* The driver. *)

\* virtio_dev_test on one window: the last one with a block device is kept.
Probe ==
  /\ driver = "probe" /\ probed < Transports
  /\ regs' = IF probed \in BlkAt THEN probed ELSE regs
  /\ probed' = probed + 1
  /\ UNCHANGED <<status, ready, desc, avail, req, original, driver,
                 deviceVars, memory, notified>>

\* virtio_blk_init up to its first request: reset, features, configuration,
\* and the queue with its chain of descriptors.
BlkInit ==
  /\ driver = "probe" /\ probed = Transports /\ regs # -1
  /\ status' = {"acknowledge", "driver", "features_ok"}
  /\ desc' = [i \in Places |->
               [addr |-> desc[i].addr, flags |-> desc[i].flags,
                next |-> IF i + 1 \in Places THEN i + 1 ELSE desc[i].next]]
  /\ ready' = TRUE
  /\ driver' = "idle"
  /\ UNCHANGED <<regs, probed, avail, req, original, deviceVars, memory, notified>>

CallFresh(type, sector, buffer) ==
  /\ driver = "idle"
  /\ req' = [type |-> type, sector |-> sector]
  /\ desc' = [desc EXCEPT
       ![0] = [addr |-> "req", flags |-> {"next"}, next |-> 1],
       ![1] = [addr |-> buffer,
               flags |-> IF type = "in" THEN {"write", "next"} ELSE {"next"},
               next |-> 2],
       ![2] = [addr |-> "status", flags |-> {"write"}, next |-> @.next]]
  /\ status' = status \cup {"driver_ok"}
  /\ driver' = "filled"
  /\ UNCHANGED <<regs, probed, ready, avail, original, deviceVars, memory, notified>>

\* A call of virtio_blk_read_sector ("in") or virtio_blk_write_sector ("out"),
\* and virtio_blk_cmd until the request is complete in memory.
Call(type, sector, buffer) ==
  /\ driver = "idle"
  /\ original' = used.idx
  /\ req' = [type |-> type, sector |-> sector]
  /\ desc' = [desc EXCEPT
       ![0] = [addr |-> "req", flags |-> {"next"}, next |-> 1],
       ![1] = [addr |-> buffer,
               flags |-> IF type = "in" THEN {"write", "next"} ELSE {"next"},
               next |-> 2],
       ![2] = [addr |-> "status", flags |-> {"write"}, next |-> @.next]]
  /\ status' = status \cup {"driver_ok"}
  /\ driver' = "filled"
  /\ UNCHANGED <<regs, probed, ready, avail, deviceVars, memory, notified>>

Publish ==
  /\ driver = "filled"
  /\ avail' = [idx |-> (avail.idx + 1) % IdxMod,
               ring |-> [avail.ring EXCEPT ![(avail.idx + 1) % QueueSize] = 0]]
  /\ driver' = "published"
  /\ UNCHANGED <<regs, probed, status, ready, desc, req, original,
                 deviceVars, memory, notified>>

NotifyAndReturn ==
  /\ driver = "published"
  /\ notified' = TRUE
  /\ driver' = "idle"
  /\ UNCHANGED <<regs, probed, status, ready, desc, avail, req, original,
                 deviceVars, memory>>

Notify ==
  /\ driver = "published"
  /\ notified' = TRUE
  /\ driver' = "wait"
  /\ UNCHANGED <<regs, probed, status, ready, desc, avail, req, original,
                 deviceVars, memory>>

ReturnUnasked ==
  /\ driver = "wait"
  /\ driver' = "idle"
  /\ UNCHANGED <<regs, probed, status, ready, desc, avail, req, original,
                 deviceVars, memory, notified>>

ReturnRetries ==
  /\ driver = "wait"
  /\ driver' = IF used.idx = (original + 2) % IdxMod THEN "idle" ELSE "published"
  /\ UNCHANGED <<regs, probed, status, ready, desc, avail, req, original,
                 deviceVars, memory, notified>>

\* The loop ends: the index of the used ring is another than before the call.
Return ==
  /\ driver = "wait"
  /\ used.idx # original
  /\ driver' = "idle"
  /\ UNCHANGED <<regs, probed, status, ready, desc, avail, req, original,
                 deviceVars, memory, notified>>

\* The owner of a buffer fills it between calls (fat32_write changes what it read).
Use(buffer, data) ==
  /\ driver = "idle"
  /\ memory' = [memory EXCEPT ![buffer] = data]
  /\ UNCHANGED <<driverVars, deviceVars, notified>>

-----------------------------------------------------------------------------
(* The device: it looks at the rings after a notification and until it     *)
(* finds no more, so it may find a request before that one's notification. *)

\* The three descriptors from head on are a block request.
IsRequest(head) ==
  LET d1 == desc[head].next
      d2 == desc[d1].next
  IN /\ desc[head].addr = "req" /\ "next" \in desc[head].flags
     /\ desc[d1].addr \in Buffers /\ "next" \in desc[d1].flags
     /\ ("write" \in desc[d1].flags) = (req.type = "in")
     /\ desc[d2].addr = "status" /\ desc[d2].flags = {"write"}

DeviceTake ==
  LET head == avail.ring[taken % QueueSize]
  IN /\ notified /\ ready /\ "driver_ok" \in status
     /\ work = NoWork /\ taken # avail.idx
     /\ IsRequest(head)
     /\ work' = [head |-> head, type |-> req.type, sector |-> req.sector,
                 buffer |-> desc[desc[head].next].addr, moved |-> FALSE]
     /\ taken' = (taken + 1) % IdxMod
     /\ UNCHANGED <<driverVars, disk, used, memory, notified>>

DeviceSleep ==
  /\ notified /\ work = NoWork /\ taken = avail.idx
  /\ notified' = FALSE
  /\ UNCHANGED <<driverVars, deviceVars, memory>>

\* The data moves; a sector past the end moves none and sets an error in
\* virtio_blk_status, which the driver never reads.
DeviceMove ==
  /\ work # NoWork /\ ~work.moved
  /\ work' = [work EXCEPT !.moved = TRUE]
  /\ \/ /\ work.sector >= Capacity
        /\ UNCHANGED <<disk, memory>>
     \/ /\ work.sector < Capacity /\ work.type = "in"
        /\ memory' = [memory EXCEPT ![work.buffer] = disk[work.sector]]
        /\ UNCHANGED disk
     \/ /\ work.sector < Capacity /\ work.type = "out"
        /\ disk' = [disk EXCEPT ![work.sector] = memory[work.buffer]]
        /\ UNCHANGED memory
  /\ UNCHANGED <<driverVars, taken, used, notified>>

DeviceDone ==
  /\ work # NoWork /\ work.moved
  /\ used' = [idx |-> (used.idx + 1) % IdxMod,
              ring |-> [used.ring EXCEPT ![used.idx % QueueSize] = work.head]]
  /\ work' = NoWork
  /\ UNCHANGED <<driverVars, disk, taken, memory, notified>>

Device == DeviceTake \/ DeviceSleep \/ DeviceMove \/ DeviceDone
Driver == Probe \/ BlkInit \/ Publish \/ Notify \/ Return

Next == \/ Driver
        \/ Device
        \/ \E type \in Types, s \in SectorNos, b \in Buffers : Call(type, s, b)
        \/ \E b \in Buffers, d \in Data : Use(b, d)

\* The hart executes the driver's next instruction and the device serves what
\* it was notified of; nobody has to call.
Fairness == WF_vars(Driver) /\ WF_vars(Device)

Spec == Init /\ [][Next]_vars /\ Fairness

-----------------------------------------------------------------------------
TypeOK ==
  /\ regs \in {-1} \cup BlkAt /\ probed \in 0 .. Transports
  /\ status \subseteq {"acknowledge", "driver", "features_ok", "driver_ok"}
  /\ ready \in BOOLEAN /\ notified \in BOOLEAN
  /\ desc \in [Places -> Descriptors]
  /\ avail \in [idx : Indices, ring : [Places -> Places]]
  /\ used \in [idx : Indices, ring : [Places -> Places]]
  /\ req \in [type : Types, sector : SectorNos \cup {0}]
  /\ original \in Indices /\ taken \in Indices
  /\ driver \in {"probe", "idle", "filled", "published", "wait"}
  /\ memory \in [Buffers -> Data]
  /\ disk \in [0 .. Capacity - 1 -> Data]
  /\ work \in Works \cup {NoWork}

\* The indices of the driver and of the device count the same requests, also
\* after they have wrapped: between calls all three agree, and during one the
\* device is at most one behind (virtio_blk_cmd, avail->idx += 1).
IndicesAgree ==
  /\ driver \in {"probe", "idle", "filled"} =>
       taken = avail.idx /\ used.idx = avail.idx
  /\ driver \in {"published", "wait"} =>
       /\ avail.idx = (original + 1) % IdxMod
       /\ used.idx \in {original, avail.idx}
       /\ taken = original => used.idx = original /\ work = NoWork

\* What the device works on is what the caller asked for, although the device
\* reads the descriptors and the driver may have gone on: the driver touches
\* none of them, nor the buffer, before the device is done.
WorkIsRequest ==
  work # NoWork =>
    /\ driver \in {"published", "wait"}
    /\ work.type = req.type /\ work.sector = req.sector
    /\ work.buffer = desc[1].addr

\* Driver and device agree on the state of the queue in every interleaving: its
\* types, its indices, and what is being worked on (virtio_blk_cmd and the device).
QueueInOrder == TypeOK /\ IndicesAgree /\ WorkIsRequest

\* While the device has the request, nobody else changes what it reads or
\* where it writes (the spinning loops of virtio_blk_read_sector and _write_sector).
DeviceOwnsRequest ==
  [][work # NoWork =>
       /\ UNCHANGED <<desc, req>>
       /\ UNCHANGED memory \/ work' = [work EXCEPT !.moved = TRUE]]_vars

\* Every call of virtio_blk_read_sector and virtio_blk_write_sector returns.
RequestsReturn == (driver = "filled") ~> (driver = "idle")

\* The request seen from outside: asked for with Call, served when the data
\* moves, over when the loop ends.
Asked ==
  IF driver \in {"probe", "idle"}
  THEN [type |-> "none"]
  ELSE [type |-> req.type, sector |-> req.sector, buffer |-> desc[1].addr,
        served |-> IF work = NoWork THEN used.idx # original ELSE work.moved]

D == INSTANCE Disk WITH sectors <- disk, request <- Asked

\* The driver and the device together are the disk that fat32.c expects.
RefinesDisk == D!Spec
=============================================================================
