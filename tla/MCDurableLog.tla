---------------------------- MODULE MCDurableLog -----------------------------
(***************************************************************************)
(* DurableLog for TLC.  The threads run the same code and no definition    *)
(* tells them apart, so the safety runs take them up to permutation.       *)
(***************************************************************************)
EXTENDS DurableLog, TLC

Perms == Permutations(Threads)

=============================================================================
