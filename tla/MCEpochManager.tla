--------------------------- MODULE MCEpochManager ---------------------------
(***************************************************************************)
(* Model-checking instances of EpochManager.  The configurations give the  *)
(* constants; NoTransaction = 15 is the largest value of a 4-bit epoch_t,  *)
(* far above the bound MaxEpoch on the epochs of a run.                    *)
(***************************************************************************)
EXTENDS EpochManager

OneWriter  == {0}
TwoWriters == {0, 1}
OneReader  == {1}
NoReader   == {}
=============================================================================
