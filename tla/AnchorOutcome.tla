---------------------------- MODULE AnchorOutcome ----------------------------
(***************************************************************************)
(* What an anchorer promises to whoever enqueues a chain head (ADR-0003    *)
(* section 4): each item that is submitted gets at most one outcome, a     *)
(* timestamp or a hard reject, and the caller is handed it at most once.   *)
(***************************************************************************)
CONSTANT Items

VARIABLES
    outcome,    \* what is known of each item
    handedOver  \* items whose outcome the caller has

vars == <<outcome, handedOver>>

Init ==
    /\ outcome = [i \in Items |-> "unknown"]
    /\ handedOver = {}

Submit(i) ==
    /\ outcome[i] = "unknown"
    /\ outcome' = [outcome EXCEPT ![i] = "open"]
    /\ UNCHANGED handedOver

Decide(i) ==
    /\ outcome[i] = "open"
    /\ \E o \in {"anchored", "failed_permanent"} : outcome' = [outcome EXCEPT ![i] = o]
    /\ UNCHANGED handedOver

HandOver(S) ==
    /\ S \cap handedOver = {}
    /\ \A i \in S : outcome[i] \in {"anchored", "failed_permanent"}
    /\ handedOver' = handedOver \cup S
    /\ UNCHANGED outcome

Next == (\E i \in Items : Submit(i) \/ Decide(i)) \/ (\E S \in SUBSET Items : HandOver(S))

Spec == Init /\ [][Next]_vars

=============================================================================
