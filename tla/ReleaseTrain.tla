------------------------------ MODULE ReleaseTrain ------------------------------
(***************************************************************************)
(* What the two release trains (AlphaTrain, StableTrain) have in common: a *)
(* process that works on one release after the other in a clone, whose     *)
(* tags it pushes, and whose steps may fail.                               *)
(***************************************************************************)
EXTENDS Integers

CONSTANT
    MaxFaults       \* bound: steps, calls and workflows that fail

VARIABLES
    pc,          \* where the train is
    localTag,    \* tags of the clone, with the commits they point to
    remoteTag,   \* tags of GitHub
    faults

Step(from, to) == pc = from /\ pc' = to
Faulty == faults < MaxFaults /\ faults' = faults + 1

=============================================================================
