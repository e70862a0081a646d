------------------------------ MODULE Substrate ------------------------------
(***************************************************************************)
(* AttestSubstrate (sdk/python/src/attestplane/substrate.py): the          *)
(* in-memory log that threads of one process append to under a lock.       *)
(*                                                                         *)
(* append() is three steps of the thread that holds the lock: acquire it,  *)
(* extend the list, then move the tip and release.  A canonicalisation     *)
(* error leaves the lock with nothing written.                             *)
(***************************************************************************)
EXTENDS HashChain, FiniteSets

CONSTANTS
    Threads,       \* threads that share the substrate
    None,          \* no holder of the lock, no returned event
    MaxEvents      \* bound: events ever created

ASSUME SubstrateAssumption ==
    /\ None \notin Threads
    /\ MaxEvents \in Nat

VARIABLES
    events,    \* _events
    tip,       \* _tip
    lock,      \* _lock: its holder or None
    pc,        \* where each thread is
    ret,       \* the ChainedEvent append() is about to return to the thread
    seen,      \* the ChainHead each thread last got from tip()
    heap,      \* what each caller's payload dict holds now
    nextId     \* event ids issued so far: a UUIDv7 is never issued twice

subVars == <<events, tip, lock, pc, ret, seen, heap, nextId>>

Contents == 0..1
Event == [id : Nat, obj : Threads]
Digest == (Nat \X Contents) \cup {GENESIS_HASH}
ChainedEvent == [seq : Nat, prev_hash : Digest, event_hash : Nat \X Contents, event : Event]
ChainHead == [seq : Nat \cup {-1}, event_hash : Digest]

SubInit ==
    /\ events = <<>>
    /\ tip = genesis_head
    /\ lock = None
    /\ pc = [t \in Threads |-> "idle"]
    /\ ret = [t \in Threads |-> None]
    /\ seen = [t \in Threads |-> genesis_head]
    /\ heap = [t \in Threads |-> 0]
    /\ nextId = 0

-----------------------------------------------------------------------------
\* append(): `with self._lock`.
Acquire(t) ==
    /\ pc[t] = "idle"
    /\ lock = None
    /\ nextId < MaxEvents
    /\ lock' = t
    /\ pc' = [pc EXCEPT ![t] = "locked"]
    /\ UNCHANGED <<events, tip, ret, seen, heap, nextId>>

ExtendUnchecked(t, head) ==
    LET chained == chain_extend(heap, head, [id |-> nextId, obj |-> t]) IN
    /\ events' = Append(events, chained)
    /\ ret' = [ret EXCEPT ![t] = chained]
    /\ nextId' = nextId + 1
    /\ pc' = [pc EXCEPT ![t] = "extended"]
    /\ UNCHANGED <<tip, lock, seen, heap>>

\* Mutant: the head is the one the thread read earlier with tip().
ExtendSeenHead(t) == pc[t] = "locked" /\ ExtendUnchecked(t, seen[t])

\* append(): chain_extend() from the current tip, then _events.append().
Extend(t) == pc[t] = "locked" /\ ExtendUnchecked(t, tip)

\* append(): canonicalize() refuses the payload and the exception leaves the lock.
Reject(t) ==
    /\ pc[t] = "locked"
    /\ lock' = None
    /\ pc' = [pc EXCEPT ![t] = "idle"]
    /\ UNCHANGED <<events, tip, ret, seen, heap, nextId>>

\* Mutant: the tip is not moved.
KeepTip(t) ==
    /\ pc[t] = "extended"
    /\ lock' = None
    /\ pc' = [pc EXCEPT ![t] = "returned"]
    /\ UNCHANGED <<events, tip, ret, seen, heap, nextId>>

\* append(): _tip is the new event, the lock is released, the event is returned.
SetTip(t) ==
    /\ pc[t] = "extended"
    /\ tip' = [seq |-> ret[t].seq, event_hash |-> ret[t].event_hash]
    /\ lock' = None
    /\ pc' = [pc EXCEPT ![t] = "returned"]
    /\ UNCHANGED <<events, ret, seen, heap, nextId>>

\* tip(), and the head a caller takes from snapshot(): read under the lock.
ReadTip(t) ==
    /\ pc[t] = "idle"
    /\ lock = None
    /\ seen' = [seen EXCEPT ![t] = tip]
    /\ UNCHANGED <<events, tip, lock, pc, ret, heap, nextId>>

\* The caller fills the dict it handed over with something else.
Refill(t) ==
    /\ pc[t] = "idle"
    /\ heap' = [heap EXCEPT ![t] = 1 - @]
    /\ UNCHANGED <<events, tip, lock, pc, ret, seen, nextId>>

\* The caller is done with the event append() returned.
Return(t) ==
    /\ pc[t] = "returned"
    /\ pc' = [pc EXCEPT ![t] = "idle"]
    /\ ret' = [ret EXCEPT ![t] = None]
    /\ UNCHANGED <<events, tip, lock, seen, heap, nextId>>

AppendStep(t) == Acquire(t) \/ Extend(t) \/ Reject(t) \/ SetTip(t)
SubStep(t) == AppendStep(t) \/ ReadTip(t) \/ Refill(t)

SubNext == \E t \in Threads : SubStep(t) \/ Return(t)

SubSpec == SubInit /\ [][SubNext]_subVars

-----------------------------------------------------------------------------
SubTypeOK ==
    /\ events \in Seq(ChainedEvent)
    /\ tip \in ChainHead
    /\ lock \in Threads \cup {None}
    /\ pc \in [Threads -> {"idle", "locked", "extended", "returned"}]
    /\ ret \in [Threads -> ChainedEvent \cup {None}]
    /\ seen \in [Threads -> ChainHead]
    /\ heap \in [Threads -> Contents]
    /\ nextId \in 0..MaxEvents

\* Whatever the interleaving, a reader that gets the lock finds a tip() that is
\* the last event of the list, and verify() stops at no event but one whose
\* payload dict its caller changed after append(): the links never fail.
OnlyAlteredEventsFail ==
    lock = None =>
        /\ tip = head_of(events)
        /\ \A i \in 1..Len(events) :
              LinkFails(heap, events, i) => events[i].event_hash # hash_event(heap, events[i].event)

\* A head that tip() returned stays on the chain at its seq: nothing a thread
\* does between two reads rewrites what another thread already saw.
SeenHeadOnChain ==
    \A t \in Threads :
        seen[t] # genesis_head =>
            /\ seen[t].seq + 1 \in 1..Len(events)
            /\ events[seen[t].seq + 1].event_hash = seen[t].event_hash

\* append() never returns an event that is not in the log at its own seq, and
\* no two threads hold the same returned event.
ReturnedEventsAreOnChain ==
    \A t \in Threads :
        ret[t] # None =>
            /\ ret[t].seq + 1 \in 1..Len(events)
            /\ events[ret[t].seq + 1] = ret[t]
            /\ \A u \in Threads \ {t} : ret[u] # ret[t]

=============================================================================
