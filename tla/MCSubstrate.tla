----------------------------- MODULE MCSubstrate -----------------------------
\* Substrate for TLC: the threads run the same code and are interchangeable.
EXTENDS Substrate, TLC

Perms == Permutations(Threads)

=============================================================================
