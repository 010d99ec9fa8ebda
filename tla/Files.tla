------------------------------- MODULE Files -------------------------------
(***************************************************************************)
(* Open files (fs.c, open.c and the calls of ksyscalls.c on them) over a   *)
(* FAT32 volume (fat32.c): the descriptor table of every task, the scan of *)
(* the root directory, cluster chains, and reads and writes that go sector *)
(* by sector.  The kernel is not interrupted, so a call runs to its end    *)
(* before any other begins; its loops are one step per turn.               *)
(*                                                                         *)
(* A sector is named by its cluster and its place there; it holds          *)
(* SectorUnits pieces of data, the units of every length and offset.  The  *)
(* table of the volume and its directories are never written.  A call that *)
(* returns an error and changes nothing is a stuttering step, and left     *)
(* out, and so is what is read from and written to the terminal.           *)
(*                                                                         *)
(* NextInFirstSector, WholeSector and ForgottenOps are not used: each is a *)
(* wrong form of the definition after it that the properties must tell     *)
(* from the right one.                                                     *)
(***************************************************************************)
EXTENDS Integers, SequencesExt

CONSTANTS
  MaxTasks,         \* bound: tasks
  MAX_FILE_NUMBER,  \* size of a table of descriptors
  UserFds,          \* bound: the descriptors that programs close and use
  FatEntries,       \* entries in a sector of the volume's table
  SectorUnits,      \* pieces of data in a sector
  SecPerCluster,    \* sectors in a cluster
  EOC,              \* the least mark for the end of a chain
  Fat,              \* the volume's table: what follows each cluster
  Root,             \* the first cluster of the root directory
  Directory,        \* Directory[c][s], the entries of a directory's sector
  DiskData,         \* DiskData[c][s], the data of a file's sector at first
  OtherPaths,       \* paths outside the volume
  Paths,            \* bound: paths that programs open
  Flags,            \* bound: flags of open, subsets of {"R", "W"}
  Out,              \* the data of all writes, from the first unit on
  Seeks             \* bound: offsets of lseek

Tasks == 1..MaxTasks
Fds == 0..(MAX_FILE_NUMBER - 1)
ClusterUnits == SecPerCluster * SectorUnits
Sectors == 0..(SecPerCluster - 1)

ASSUME FilesAssumption ==
  /\ MaxTasks \in Nat \ {0}
  /\ MAX_FILE_NUMBER \in Nat /\ MAX_FILE_NUMBER > 3
  /\ UserFds \subseteq Fds
  /\ FatEntries \in Nat \ {0} /\ FatEntries % 4 = 0
  /\ SectorUnits \in Nat \ {0} /\ SecPerCluster \in Nat \ {0} /\ EOC \in Nat
  /\ Root \in DOMAIN Directory
  /\ \A c \in DOMAIN Directory : DOMAIN Directory[c] = Sectors
  /\ Out \in Seq(Range(Out)) /\ Len(Out) > 0

VARIABLES
  task_num,  \* the last pid given out
  current,   \* the running task
  files,     \* files[p][fd], struct file
  disk,      \* disk[c][s], the data of a sector now
  io         \* the open, read or write that runs: its locals

vars == <<task_num, current, files, disk, io>>

File == [opened : BOOLEAN, perms : SUBSET {"R", "W"}, cfo : Int,
         ops : {"none", "stdin", "stdout", "fat32"},
         path : {""} \cup Paths, cluster : Nat, dir_cluster : Nat, dir_index : Nat]

Closed == [opened |-> FALSE, perms |-> {}, cfo |-> 0, ops |-> "none",
           path |-> "", cluster |-> 0, dir_cluster |-> 0, dir_index |-> 0]
Terminal(ops, right) == [Closed EXCEPT !.opened = TRUE, !.perms = {right}, !.ops = ops]

FileInit ==
  [fd \in Fds |-> IF fd = 0 THEN Terminal("stdin", "R")
                  ELSE IF fd \in {1, 2} THEN Terminal("stdout", "W") ELSE Closed]

Idle == [op |-> "idle", fd |-> 0, cluster |-> 0, skip |-> 0,
         off |-> 0, left |-> 0, done |-> 0, buf |-> <<>>]

Init ==
  /\ task_num = 1 /\ current = 1
  /\ files = [p \in Tasks |-> IF p = 1 THEN FileInit ELSE [fd \in Fds |-> Closed]]
  /\ disk = DiskData
  /\ io = Idle

-----------------------------------------------------------------------------
\* next_cluster: the sector of the table is right, the byte in it is reduced
\* modulo the number of entries.
NextInFirstSector(c) == Fat[((c * 4) % FatEntries) \div 4]
NextCluster(c) ==
  Fat[(c \div FatEntries) * FatEntries + ((c * 4) % FatEntries) \div 4]

UnusedFds == {fd \in Fds : ~files[current][fd].opened}
GetUnusedFd == CHOOSE fd \in UnusedFds : \A e \in UnusedFds : fd <= e

\* file_open takes the descriptor first.  The place of the file, and for a path
\* outside the volume the operations, stay what they were.
OpenedAs(f, flags, path) ==
  [f EXCEPT !.opened = TRUE, !.perms = flags, !.cfo = 0, !.path = path,
            !.ops = IF path \in OtherPaths THEN @ ELSE "fat32"]

SysOpen ==
  /\ io = Idle
  /\ UnusedFds # {}
  /\ \E path \in Paths, flags \in Flags :
       LET fd == GetUnusedFd IN
       /\ files' = [files EXCEPT ![current][fd] = OpenedAs(@, flags, path)]
       /\ io' = IF path \in OtherPaths THEN Idle
                ELSE [Idle EXCEPT !.op = "open", !.fd = fd, !.cluster = Root]
  /\ UNCHANGED <<task_num, current, disk>>

\* Where the scan of a cluster of the directory stops: at the first entry with
\* the name, or at the end of the directory.
Stops(c) ==
  {at \in {<<s, i>> : s \in Sectors, i \in 0..(FatEntries - 1)} :
     /\ at[2] \in DOMAIN Directory[c][at[1]]
     /\ LET e == Directory[c][at[1]][at[2]] IN
        e.kind = "end" \/ (e.kind = "file" /\ e.name = files[current][io.fd].path)}

FirstStop(c) ==
  CHOOSE at \in Stops(c) : \A b \in Stops(c) :
    at[1] < b[1] \/ (at[1] = b[1] /\ at[2] <= b[2])

\* The result of fat32_open_file: no cluster means no file, and the descriptor
\* stays taken.
OpenReturns(cluster, dir_cluster, dir_index) ==
  /\ files' = [files EXCEPT ![current][io.fd].cluster = cluster,
                            ![current][io.fd].dir_cluster = dir_cluster,
                            ![current][io.fd].dir_index = dir_index]
  /\ io' = Idle

ScanCluster ==
  /\ io.op = "open"
  /\ IF io.cluster >= EOC THEN OpenReturns(0, 0, 0)
     ELSE IF Stops(io.cluster) = {}
     THEN io' = [io EXCEPT !.cluster = NextCluster(@)] /\ UNCHANGED files
     ELSE LET at == FirstStop(io.cluster)
              e == Directory[io.cluster][at[1]][at[2]]
          IN IF e.kind = "file" THEN OpenReturns(e.cluster, io.cluster, at[2])
             ELSE OpenReturns(0, 0, 0)
  /\ UNCHANGED <<task_num, current, disk>>

-----------------------------------------------------------------------------
ForgottenOps(f) == [f EXCEPT !.opened = FALSE, !.perms = {}, !.cfo = 0]
ClosedFrom(f) == [f EXCEPT !.opened = FALSE, !.perms = {}, !.cfo = 0, !.ops = "none"]

SysClose ==
  /\ io = Idle
  /\ \E fd \in UserFds :
       /\ files[current][fd].opened
       /\ files' = [files EXCEPT ![current][fd] = ClosedFrom(@)]
  /\ UNCHANGED <<task_num, current, disk, io>>

\* The size in the directory: the first sector of the cluster is looked at.
FileSize(f) == Directory[f.dir_cluster][0][f.dir_index].size

\* Programs use the descriptors that open gave them; one that a failed open has
\* left behind is none of these.
Usable(fd) == LET f == files[current][fd] IN f.ops = "fat32" /\ f.cluster # 0

SysLseek ==
  /\ io = Idle
  /\ \E fd \in UserFds, offset \in Seeks, whence \in {"SET", "CUR", "END"} :
       LET f == files[current][fd]
           base == [SET |-> 0, CUR |-> f.cfo, END |-> FileSize(f)]
       IN /\ Usable(fd) /\ f.opened
          /\ base[whence] + offset \in -1..FileSize(f)  \* bound
          /\ files' = [files EXCEPT ![current][fd].cfo = base[whence] + offset]
  /\ UNCHANGED <<task_num, current, disk, io>>

\* The offset is compared as an unsigned number.
Inside(f) == f.cfo >= 0 /\ f.cfo < FileSize(f)

\* sys_read and sys_write check the descriptor; fat32_read and fat32_write then
\* begin alike.
Begin(op, right) ==
  /\ io = Idle
  /\ \E fd \in UserFds, len \in 1..Len(Out) :
       LET f == files[current][fd] IN
       /\ Usable(fd) /\ f.opened /\ right \in f.perms
       /\ Inside(f)
       /\ io' = [Idle EXCEPT !.op = op, !.fd = fd, !.cluster = f.cluster,
                   !.skip = f.cfo \div ClusterUnits,
                   !.off = f.cfo % ClusterUnits,
                   !.left = IF f.cfo + len > FileSize(f) THEN FileSize(f) - f.cfo ELSE len]
  /\ UNCHANGED <<task_num, current, files, disk>>

SysRead == Begin("read", "R")
SysWrite == Begin("write", "W")

InChain == io.cluster < EOC

SkipCluster ==
  /\ io.op \in {"read", "write"} /\ io.skip > 0 /\ InChain
  /\ io' = [io EXCEPT !.cluster = NextCluster(@), !.skip = @ - 1]
  /\ UNCHANGED <<task_num, current, files, disk>>

\* The units of a sector, with those from byte on replaced by what is written.
WholeSector(sector, byte, n, data) == [u \in DOMAIN sector |-> data[1]]
Patched(sector, byte, n, data) ==
  [u \in DOMAIN sector |-> IF u \in byte .. byte + n - 1 THEN data[u - byte + 1]
                           ELSE sector[u]]

\* One turn of the loop over sectors, and after its last also the step to the
\* next cluster.
CopySector ==
  LET sec == io.off \div SectorUnits
      byte == io.off % SectorUnits
      n == IF SectorUnits - byte > io.left THEN io.left ELSE SectorUnits - byte
      here == disk[io.cluster][sec]
      next == IF sec + 1 < SecPerCluster /\ io.left > n
              THEN [io EXCEPT !.off = (sec + 1) * SectorUnits]
              ELSE [io EXCEPT !.off = 0, !.cluster = NextCluster(@)]
      moved == [next EXCEPT !.left = @ - n, !.done = @ + n]
  IN /\ io.op \in {"read", "write"} /\ io.skip = 0 /\ io.left > 0 /\ InChain
     /\ IF io.op = "read"
        THEN /\ io' = [moved EXCEPT !.buf = @ \o [i \in 1..n |-> here[byte + i - 1]]]
             /\ UNCHANGED disk
        ELSE /\ io' = moved
             /\ disk' = [disk EXCEPT ![io.cluster][sec] =
                  Patched(@, byte, n, SubSeq(Out, io.done + 1, io.done + n))]
     /\ UNCHANGED <<task_num, current, files>>

Return ==
  /\ io.op \in {"read", "write"} /\ (io.left = 0 \/ ~InChain)
  /\ files' = [files EXCEPT ![current][io.fd].cfo = @ + io.done]
  /\ io' = Idle
  /\ UNCHANGED <<task_num, current, disk>>

-----------------------------------------------------------------------------
\* do_fork: the child's table is file_init's, overwritten by a copy.
CopiedFiles(p) == files[p]

DoFork ==
  /\ io = Idle
  /\ task_num + 1 \in Tasks
  /\ task_num' = task_num + 1
  /\ files' = [files EXCEPT ![task_num + 1] = CopiedFiles(current)]
  /\ UNCHANGED <<current, disk, io>>

Switch ==
  /\ io = Idle
  /\ \E p \in 1..task_num : current' = p
  /\ UNCHANGED <<task_num, files, disk, io>>

Running == ScanCluster \/ SkipCluster \/ CopySector \/ Return

Next ==
  \/ SysOpen \/ SysClose \/ SysLseek \/ SysRead \/ SysWrite \/ DoFork \/ Switch
  \/ Running

Spec == Init /\ [][Next]_vars /\ WF_vars(Running)

-----------------------------------------------------------------------------
TypeOK ==
  /\ task_num \in Tasks /\ current \in Tasks
  /\ files \in [Tasks -> [Fds -> File]]
  /\ DOMAIN disk = DOMAIN DiskData
  /\ io.op \in {"idle", "open", "read", "write"} /\ io.fd \in Fds
  /\ {io.cluster, io.skip, io.off, io.left, io.done} \subseteq Nat

\* The files of the volume by its directory, the clusters of each in the order of
\* its chain, and the place of its units.
OnVolume ==
  {e \in UNION {UNION {Range(Directory[c][s]) : s \in Sectors} : c \in DOMAIN Directory} :
     e.kind = "file" /\ e.cluster # 0}
Names == {e.name : e \in OnVolume}
Entry(name) == CHOOSE e \in OnVolume : e.name = name
Chain(name) ==
  LET at[k \in Nat] == IF k = 0 THEN Entry(name).cluster ELSE Fat[at[k - 1]] IN at
Place ==
  [name \in Names |-> [i \in 1..Entry(name).size |->
     <<Chain(name)[(i - 1) \div ClusterUnits], ((i - 1) % ClusterUnits) \div SectorUnits,
       (i - 1) % SectorUnits>>]]
Content(sectors) ==
  [name \in Names |-> [i \in DOMAIN Place[name] |->
     LET at == Place[name][i] IN sectors[at[1]][at[2]][at[3]]]]

\* The places in its chain of the clusters that a file needs.
Links(name) == {(i - 1) \div ClusterUnits : i \in 1..Entry(name).size}

\* A sound volume: numbers of clusters lead to clusters, names are unique, the
\* chains reach as far as the sizes say and have no cluster in common, and the
\* directory goes on to its end mark or to the end of its own chain.
ASSUME VolumeAssumption ==
  /\ Flags \subseteq SUBSET {"R", "W"}
  /\ \A c \in DOMAIN Directory \cup DOMAIN DiskData : c \in Nat /\ NextCluster(c) \in Nat
  /\ \A c \in DOMAIN DiskData :
       DOMAIN DiskData[c] = Sectors /\ \A s \in Sectors :
         DOMAIN DiskData[c][s] = 0..(SectorUnits - 1)
  /\ \A c \in DOMAIN Directory : \A s \in Sectors : \A i \in DOMAIN Directory[c][s] :
       LET e == Directory[c][s][i] IN
       e.kind = "file" => e.cluster \in Nat /\ e.size \in Nat /\ i \in Nat
  /\ \A e, f \in OnVolume : e.name = f.name => e = f
  /\ \A name \in Names : \A k \in Links(name) :
       Chain(name)[k] \in DOMAIN DiskData /\ Chain(name)[k] < EOC
  /\ \A a, b \in Names : \A j \in Links(a), k \in Links(b) :
       Chain(a)[j] = Chain(b)[k] => a = b /\ j = k
  /\ \A c \in DOMAIN Directory :
       \/ \E s \in Sectors : \E i \in DOMAIN Directory[c][s] :
            i \in 0..(FatEntries - 1) /\ Directory[c][s][i].kind = "end"
       \/ NextCluster(c) \in DOMAIN Directory \/ NextCluster(c) >= EOC

\* What the code needs besides: all clusters of a file but the last have their
\* entries in the part of a sector of the table that next_cluster looks at, and
\* the entries of files are in the first sectors of their clusters.
WithinReach ==
  /\ \A name \in Names : \A k \in Links(name) :
       k + 1 \in Links(name) => Chain(name)[k] % FatEntries < FatEntries \div 4
  /\ \A c \in DOMAIN Directory : \A s \in Sectors : \A i \in DOMAIN Directory[c][s] :
       Directory[c][s][i].kind = "file" => s = 0

\* What a program has of a descriptor: nothing yet while its open goes on.
Seen(f, opening) ==
  LET state == IF ~f.opened \/ opening THEN "closed"
               ELSE IF f.ops \in {"stdin", "stdout"} THEN "terminal"
               ELSE IF f.ops = "none" \/ f.cluster = 0 THEN "lost" ELSE "open"
  IN IF state # "open"
     THEN [state |-> state, file |-> "", rights |-> {}, pos |-> 0]
     ELSE [state |-> state, file |-> f.path, rights |-> f.perms, pos |-> f.cfo]

Handle(p, fd) == Seen(files[p][fd], io.op = "open" /\ p = current /\ fd = io.fd)
Descriptors == [p \in Tasks |-> [fd \in Fds |-> Handle(p, fd)]]
Data == Content(disk)

Call ==
  IF io.op \in {"read", "write"}
  THEN [kind |-> io.op, by |-> current, fd |-> io.fd, want |-> io.left + io.done,
        got |-> io.buf, done |-> io.done]
  ELSE [kind |-> "none", by |-> 0, fd |-> 0, want |-> 0, got |-> <<>>, done |-> 0]

Service == INSTANCE FileService WITH
  Rights <- Flags, Initial <- Content(DiskData),
  number <- task_num, content <- Data, handle <- Descriptors, call <- Call

\* Reads and writes give and change the data of the file that was asked for, at
\* the position of the descriptor, as far as the file goes; whatever the chain of
\* its clusters, the sectors passed, what the descriptor was used for before and
\* the calls of other tasks (fat32_open_file, fat32_read, fat32_write, sys_close).
RefinesFileService == Service!Spec

\* The state has its types, and no call ever changes data of a sector that
\* belongs to no file: the rest of a last sector, or other clusters (fat32.c:258).
Owned == UNION {Range(Place[name]) : name \in Names}
OtherDataKept ==
  /\ TypeOK
  /\ \A c \in DOMAIN disk : \A s \in Sectors : \A u \in 0..(SectorUnits - 1) :
       <<c, s, u>> \notin Owned => disk[c][s][u] = DiskData[c][s][u]

\* Every open, read and write comes to its end: the walk along a chain does not
\* go round (fat32.c:79, fat32.c:189).
CallsReturn == io # Idle ~> io = Idle
=============================================================================
