---------------------------- MODULE MCStableTrain ----------------------------
(* Small bounds for StableTrain: the second version is queued, as the queue  *)
(* of the repository skips some, and the others are generated.             *)
EXTENDS StableTrain

Second == {2}
=============================================================================
