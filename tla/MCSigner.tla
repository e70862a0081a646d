------------------------------- MODULE MCSigner -------------------------------
(* Instances of Signer. *)
EXTENDS Signer

\* One event enqueued by hand for a signature of its own.
OneRequest == {[seq |-> 1, mode |-> "per_event"]}
=============================================================================
