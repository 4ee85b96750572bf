--------------------------- MODULE EpochProtocol ---------------------------
(***************************************************************************)
(* What AllVBManager promises its clients, with threads, slots, scans and  *)
(* rings left out: epochs are opened and published in order, a writer      *)
(* joins the open epoch, and an epoch is published only when nobody can    *)
(* write in it any more, so that a published epoch is an immutable         *)
(* snapshot.  EpochManager implements this specification.                  *)
(***************************************************************************)
EXTENDS Integers

CONSTANTS
  Threads,
  Ring        \* how many epochs may be unpublished at once

VARIABLES
  open,       \* the epoch new writers join
  published,  \* the last published epoch
  member,     \* the epoch each thread is writing in, 0 if none
  closed      \* the write phase has ended

vars == <<open, published, member, closed>>

Init ==
  /\ open = 1
  /\ published = 0
  /\ member = [t \in Threads |-> 0]
  /\ closed = FALSE

Join(t) ==
  /\ ~closed
  /\ member[t] = 0
  /\ member' = [member EXCEPT ![t] = open]
  /\ UNCHANGED <<open, published, closed>>

Leave(t) ==
  /\ member[t] # 0
  /\ member' = [member EXCEPT ![t] = 0]
  /\ UNCHANGED <<open, published, closed>>

\* Only a writer of the open epoch opens the next one.
Open ==
  /\ \E t \in Threads : member[t] = open
  /\ open - published < Ring
  /\ open' = open + 1
  /\ UNCHANGED <<published, member, closed>>

\* The open epoch itself is published only after the write phase.
Publish ==
  /\ IF closed THEN published < open ELSE published + 1 < open
  /\ \A t \in Threads : member[t] # published + 1
  /\ published' = published + 1
  /\ UNCHANGED <<open, member, closed>>

Close ==
  /\ \A t \in Threads : member[t] = 0
  /\ closed' = TRUE
  /\ UNCHANGED <<open, published, member>>

Next ==
  \/ \E t \in Threads : Join(t) \/ Leave(t)
  \/ Open
  \/ Publish
  \/ Close

Spec == Init /\ [][Next]_vars
=============================================================================
