----------------------------- MODULE MCAlphaTrain -----------------------------
(* Small bounds for AlphaTrain: the second release is a boundary one.      *)
EXTENDS AlphaTrain

Second == {2}
=============================================================================
