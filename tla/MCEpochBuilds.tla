---------------------------- MODULE MCEpochBuilds ----------------------------
(***************************************************************************)
(* The two ways in which the manager is used, in one instance: without a   *)
(* background updater in the coarse build, where the main thread           *)
(* publishes, and with one in the fine-grained build.  The initial state   *)
(* chooses; no property speaks of the two flags.                           *)
(***************************************************************************)
EXTENDS EpochManager

VARIABLE build

TwoWriters == {0, 1}
OneReader  == {1}

Updated == INSTANCE EpochManager WITH on <- TRUE, FINEGRAIN <- TRUE

MCInit ==
  \/ build = "manual" /\ Init
  \/ build = "updater" /\ Updated!Init

MCNext ==
  /\ UNCHANGED build
  /\ \/ build = "manual" /\ Next
     \/ build = "updater" /\ Updated!Next
=============================================================================
