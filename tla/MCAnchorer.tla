------------------------------ MODULE MCAnchorer ------------------------------
(* Instances of Anchorer. *)
EXTENDS Anchorer
CONSTANTS i1, i2, w1, w2
=============================================================================
