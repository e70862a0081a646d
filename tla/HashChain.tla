------------------------------ MODULE HashChain ------------------------------
(***************************************************************************)
(* The pure functions of sdk/python/src/attestplane/hashchain.py.          *)
(*                                                                         *)
(* An AuditEvent is its event_id and the payload object it REFERS to: the  *)
(* frozen dataclass keeps the caller's dict, it does not copy it.  The     *)
(* contents of the objects are the argument `heap`, so a hash is taken of  *)
(* what the object holds when the hash is computed.  SHA-256 over the      *)
(* canonical form is injective: the digest is the pair of what is hashed.  *)
(***************************************************************************)
EXTENDS Integers, Sequences

\* prev_hash of the first event: no digest of an event equals it.
GENESIS_HASH == <<>>

genesis_head == [seq |-> -1, event_hash |-> GENESIS_HASH]

hash_event(heap, event) == <<event.id, heap[event.obj]>>

chain_extend(heap, head, event) ==
    [seq        |-> head.seq + 1,
     prev_hash  |-> head.event_hash,
     event_hash |-> hash_event(heap, event),
     event      |-> event]

head_of(events) ==
    IF events = <<>>
    THEN genesis_head
    ELSE [seq        |-> events[Len(events)].seq,
          event_hash |-> events[Len(events)].event_hash]

(***************************************************************************)
(* verify_chain walks the list and returns at the first index whose event  *)
(* fails one of its three comparisons.  When the walk reaches index i the  *)
(* expected tip is the event before it, or the genesis head.               *)
(***************************************************************************)
LinkFails(heap, events, i) ==
    \/ events[i].seq # i - 1
    \/ events[i].prev_hash # IF i = 1 THEN GENESIS_HASH ELSE events[i - 1].event_hash
    \/ events[i].event_hash # hash_event(heap, events[i].event)

verify_chain(heap, events) == \A i \in 1..Len(events) : ~LinkFails(heap, events, i)

=============================================================================
