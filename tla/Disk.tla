-------------------------------- MODULE Disk --------------------------------
(***************************************************************************)
(* What a caller of virtio_blk_read_sector and virtio_blk_write_sector     *)
(* relies on (fs/virtio.c): one request at a time is asked for, it is      *)
(* served exactly once, on the sector and the buffer that were named, and  *)
(* the call returns after it was served.  A sector the disk does not have  *)
(* is answered without any effect, and the caller is not told.             *)
(***************************************************************************)
EXTENDS Naturals

CONSTANTS SectorNos,  \* the sector numbers callers ask for
          Capacity,   \* the sectors of the disk are 0 .. Capacity - 1
          Buffers,    \* where callers keep sectors
          Data        \* what a sector holds

VARIABLES sectors,    \* the content of the disk
          memory,     \* the content of each buffer
          request     \* what is asked for; None between calls

vars == <<sectors, memory, request>>

Types == {"in", "out"}
None == [type |-> "none"]
Request(type, sector, buffer, served) ==
  [type |-> type, sector |-> sector, buffer |-> buffer, served |-> served]

Init == /\ sectors \in [0 .. Capacity - 1 -> Data]
        /\ memory \in [Buffers -> Data]
        /\ request = None

Ask(type, sector, buffer) ==
  /\ request = None
  /\ request' = Request(type, sector, buffer, FALSE)
  /\ UNCHANGED <<sectors, memory>>

Serve ==
  /\ request # None
  /\ ~request.served
  /\ request' = Request(request.type, request.sector, request.buffer, TRUE)
  /\ \/ /\ request.sector >= Capacity
        /\ UNCHANGED <<sectors, memory>>
     \/ /\ request.sector < Capacity
        /\ request.type = "in"
        /\ memory' = [memory EXCEPT ![request.buffer] = sectors[request.sector]]
        /\ UNCHANGED sectors
     \/ /\ request.sector < Capacity
        /\ request.type = "out"
        /\ sectors' = [sectors EXCEPT ![request.sector] = memory[request.buffer]]
        /\ UNCHANGED memory

Return ==
  /\ request # None
  /\ request.served
  /\ request' = None
  /\ UNCHANGED <<sectors, memory>>

\* Between calls the owner of a buffer fills it.
Use(buffer, data) ==
  /\ request = None
  /\ memory' = [memory EXCEPT ![buffer] = data]
  /\ UNCHANGED <<sectors, request>>

Next == \/ \E type \in Types, s \in SectorNos, b \in Buffers : Ask(type, s, b)
        \/ \E b \in Buffers, d \in Data : Use(b, d)
        \/ Serve
        \/ Return

Spec == Init /\ [][Next]_vars
=============================================================================
