---------------------------- MODULE FileService ----------------------------
(***************************************************************************)
(* What the kernel promises about files: a file is a sequence of pieces of *)
(* data whose length never changes; a task reads and writes it at the      *)
(* position of one of its descriptors, as far as the file goes, and never  *)
(* moves another descriptor, of a forked task neither.  A call works piece *)
(* by piece, and no other is made in the meantime.  An open that fails may *)
(* cost a descriptor.                                                      *)
(***************************************************************************)
EXTENDS Integers, SequencesExt

CONSTANTS
  Tasks,   \* tasks there may ever be, 1..n
  Fds,     \* descriptors of a task
  Initial, \* Initial[f], the data of file f at first
  Out,     \* the data that programs write
  Rights   \* ways to open a file, subsets of {"R", "W"}

VARIABLES
  number,   \* tasks 1..number are there
  content,  \* content[f], a sequence
  handle,   \* handle[p][d]
  call      \* the read or write that is going on

vars == <<number, content, handle, call>>

NoCall == [kind |-> "none", by |-> 0, fd |-> 0, want |-> 0, got |-> <<>>, done |-> 0]
NotOpen(state) == [state |-> state, file |-> "", rights |-> {}, pos |-> 0]
Opened(f, r, n) == [state |-> "open", file |-> f, rights |-> r, pos |-> n]

Init ==
  /\ number = 1
  /\ content = Initial
  /\ handle \in [Tasks -> [Fds -> {NotOpen("closed"), NotOpen("terminal")}]]
  /\ call = NoCall

Quiet == call = NoCall /\ UNCHANGED <<number, call>>

\* No descriptor but d of p changes, and no data.
Only(p, d) ==
  /\ handle' = [handle EXCEPT ![p][d] = handle'[p][d]]
  /\ UNCHANGED content

Open(p, d) ==
  /\ Quiet
  /\ handle[p][d].state = "closed"
  /\ handle'[p][d] \in {NotOpen("lost")} \cup
                       {Opened(f, r, 0) : f \in DOMAIN content, r \in Rights}
  /\ Only(p, d)

Close(p, d) ==
  /\ Quiet
  /\ handle[p][d].state # "closed"
  /\ handle'[p][d] = NotOpen("closed")
  /\ Only(p, d)

Seek(p, d) ==
  /\ Quiet
  /\ handle[p][d].state = "open"
  /\ handle'[p][d].pos \in Int
  /\ handle'[p][d] = [handle[p][d] EXCEPT !.pos = handle'[p][d].pos]
  /\ Only(p, d)

\* A task like p joins, with descriptors of its own.
Join(p) ==
  /\ call = NoCall
  /\ number + 1 \in Tasks
  /\ number' = number + 1
  /\ handle' = [handle EXCEPT ![number + 1] = handle[p]]
  /\ UNCHANGED <<content, call>>

\* A read or write of n pieces begins; at the end of the file it gets fewer.
Begin(p, d, kind, n) ==
  LET h == handle[p][d]
      rest == Len(content[h.file]) - h.pos
  IN /\ call = NoCall /\ call'.by = p /\ call'.fd = d /\ call'.kind = kind
     /\ h.state = "open" /\ h.pos >= 0 /\ rest > 0
     /\ (IF kind = "read" THEN "R" ELSE "W") \in h.rights
     /\ call' = [NoCall EXCEPT !.kind = kind, !.by = p, !.fd = d,
                               !.want = IF n < rest THEN n ELSE rest]
     /\ UNCHANGED <<number, content, handle>>

\* The next n pieces of the call that is going on.
Move(n) ==
  LET h == handle[call.by][call.fd]
      from == h.pos + call.done
  IN /\ call # NoCall /\ call'.done = call.done + n
     /\ n > 0 /\ call.done + n <= call.want
     /\ IF call.kind = "read"
        THEN /\ call' = [call EXCEPT !.done = @ + n,
                           !.got = @ \o SubSeq(content[h.file], from + 1, from + n)]
             /\ UNCHANGED content
        ELSE /\ call' = [call EXCEPT !.done = @ + n]
             /\ content' = [content EXCEPT ![h.file] =
                  [i \in DOMAIN @ |-> IF i \in from + 1 .. from + n
                                      THEN Out[i - h.pos] ELSE @[i]]]
     /\ UNCHANGED <<number, handle>>

End ==
  /\ call # NoCall /\ call.done = call.want
  /\ handle' = [handle EXCEPT ![call.by][call.fd].pos = @ + call.done]
  /\ call' = NoCall
  /\ UNCHANGED <<number, content>>

Next ==
  \/ \E p \in 1..number, d \in Fds :
       \/ Open(p, d) \/ Close(p, d) \/ Seek(p, d) \/ Join(p)
       \/ \E kind \in {"read", "write"}, n \in 1..Len(Out) : Begin(p, d, kind, n)
  \/ \E n \in 1..Len(Out) : Move(n)
  \/ End

Spec == Init /\ [][Next]_vars
=============================================================================
