-------------------------------- MODULE Signer --------------------------------
(***************************************************************************)
(* Signer (sdk/python/src/attestplane/signing/signer.py): the daemon       *)
(* thread that signs heads of a growing chain, next to callers of          *)
(* enqueue_segment_head(), enqueue_event() and step_once().                *)
(*                                                                         *)
(* The worker first walks a snapshot of the chain for heads above the last *)
(* signed one and enqueues them one by one, then signs what is queued until*)
(* the queue is empty or a signature fails.  A failed item is in nobody's  *)
(* hands any more; only a later walk can find its seq again.               *)
(*                                                                         *)
(* sign_event() and sign_segment_head() called directly change two counters*)
(* only and are left out.  One thread at a time: overlapping workers are   *)
(* the Anchorer's, whose start() and stop() are the same code.             *)
(***************************************************************************)
EXTENDS Integers, Sequences, FiniteSets

CONSTANTS
    Worker,      \* the thread start() spawns
    Caller,      \* the thread that calls step_once() itself
    None,
    BatchSize,   \* policy.batch_size
    MaxEvents,   \* bound: length of the chain
    MaxErrors,   \* bound: provider errors
    MaxStarts,   \* bound: calls of start() that spawn a thread
    Requests,    \* what callers may enqueue by hand, once each
    CallerSteps  \* somebody calls step_once() besides the worker

ASSUME SignerAssumption ==
    /\ Worker # Caller
    /\ BatchSize \in Nat \ {0}
    /\ MaxEvents \in Nat
    /\ MaxErrors \in Nat
    /\ MaxStarts \in Nat
    /\ CallerSteps \in BOOLEAN
    /\ Requests \subseteq [seq : 0..(MaxEvents - 1), mode : {"segment_head", "per_event"}]
    /\ None \notin [seq : 0..(MaxEvents - 1), mode : {"segment_head", "per_event"}]

VARIABLES
    length,      \* events in the substrate
    queue,       \* _queue
    signed,      \* results ever produced per item: none, one, or more (2)
    lastSigned,  \* _last_signed_segment_head_seq
    errors,      \* _stats.provider_errors
    shutdown,    \* _shutdown.is_set()
    alive,       \* _thread: "none", "running", "joining"
    pc,          \* where each actor is
    held,        \* the _PendingSignature in the actor's hands
    snap,        \* length of the snapshot the worker walks
    found,       \* candidate_seqs still to be enqueued
    asked,       \* Requests already made
    starts       \* threads spawned so far

vars == <<length, queue, signed, lastSigned, errors, shutdown, alive, pc, held, snap, found, asked, starts>>
walkVars == <<snap, found>>
outerVars == <<length, shutdown, alive, asked, starts>>

Actors == {Worker, Caller}
Seqs == 0..(MaxEvents - 1)
Pending == [seq : Seqs, mode : {"segment_head", "per_event"}]
HeadAt(s) == [seq |-> s, mode |-> "segment_head"]

Init ==
    /\ length = 0
    /\ queue = <<>>
    /\ signed = [p \in Pending |-> 0]
    /\ lastSigned = -1
    /\ errors = 0
    /\ shutdown = FALSE
    /\ alive = "none"
    /\ pc = [a \in Actors |-> "off"]
    /\ held = [a \in Actors |-> None]
    /\ snap = 0
    /\ found = {}
    /\ asked = {}
    /\ starts = 0

GoTo(a, place) == pc' = [pc EXCEPT ![a] = place]

-----------------------------------------------------------------------------
\* AttestSubstrate.append() by the application.
AppendEvent ==
    /\ length < MaxEvents
    /\ length' = length + 1
    /\ UNCHANGED <<queue, signed, lastSigned, errors, shutdown, alive, pc, held, walkVars, asked, starts>>

\* enqueue_segment_head() and enqueue_event() by the application.
Request(r) ==
    /\ r \in Requests \ asked
    /\ r.seq < length
    /\ asked' = asked \cup {r}
    /\ queue' = Append(queue, r)
    /\ UNCHANGED <<length, signed, lastSigned, errors, shutdown, alive, pc, held, walkVars, starts>>

Start ==
    /\ pc[Worker] = "off"
    /\ alive # "joining"
    /\ starts < MaxStarts
    /\ starts' = starts + 1
    /\ shutdown' = FALSE
    /\ alive' = "running"
    /\ GoTo(Worker, "outer")
    /\ UNCHANGED <<length, queue, signed, lastSigned, errors, held, walkVars, asked>>

\* stop() up to the join, and the join.
Stop ==
    /\ alive = "running"
    /\ shutdown' = TRUE
    /\ alive' = "joining"
    /\ UNCHANGED <<length, queue, signed, lastSigned, errors, pc, held, walkVars, asked, starts>>

Joined ==
    /\ alive = "joining"
    /\ pc[Worker] = "off"
    /\ alive' = "none"
    /\ UNCHANGED <<length, queue, signed, lastSigned, errors, shutdown, pc, held, walkVars, asked, starts>>

-----------------------------------------------------------------------------
\* _run(): `while not self._shutdown.is_set()`, then the wait of one second at most.
OuterTest ==
    /\ pc[Worker] = "outer"
    /\ GoTo(Worker, IF shutdown THEN "off" ELSE "pull")
    /\ UNCHANGED <<outerVars, queue, signed, lastSigned, errors, held, walkVars>>

\* pull_segment_heads_from_snapshot(): the snapshot; an empty chain ends it.
TakeSnapshot ==
    /\ pc[Worker] = "pull"
    /\ snap' = length
    /\ GoTo(Worker, IF length = 0 THEN "inner" ELSE "walk")
    /\ UNCHANGED <<outerVars, queue, signed, lastSigned, errors, held, found>>

\* _run(): an exception out of the snapshot is counted, and the thread goes on.
SnapshotRaises ==
    /\ pc[Worker] = "pull"
    /\ errors < MaxErrors
    /\ errors' = errors + 1
    /\ GoTo(Worker, "inner")
    /\ UNCHANGED <<outerVars, queue, signed, lastSigned, held, walkVars>>

Boundary(s) == (s + 1) % BatchSize = 0
\* Mutant: only full batches.
BoundariesOnly(last, n) == {s \in (last + 1)..(n - 1) : Boundary(s)}
\* Mutant: only the tail.
TailOnly(last, n) == {s \in (last + 1)..(n - 1) : s = n - 1}
candidate_seqs(last, n) == {s \in (last + 1)..(n - 1) : Boundary(s) \/ s = n - 1}

\* The candidates above the last signed head: batch boundaries and the tail.
Walk ==
    /\ pc[Worker] = "walk"
    /\ found' = candidate_seqs(lastSigned, snap)
    /\ GoTo(Worker, "enqueue")
    /\ UNCHANGED <<outerVars, queue, signed, lastSigned, errors, held, snap>>

\* enqueue_segment_head() of each candidate, in seq order.
EnqueueFound ==
    /\ pc[Worker] = "enqueue"
    /\ \E s \in found :
          /\ \A other \in found : s <= other
          /\ queue' = Append(queue, HeadAt(s))
          /\ found' = found \ {s}
    /\ UNCHANGED <<outerVars, signed, lastSigned, errors, held, pc, snap>>

WalkDone ==
    /\ pc[Worker] = "enqueue"
    /\ found = {}
    /\ GoTo(Worker, "inner")
    /\ snap' = 0
    /\ UNCHANGED <<outerVars, queue, signed, lastSigned, errors, held, found>>

InnerTest ==
    /\ pc[Worker] = "inner"
    /\ GoTo(Worker, IF shutdown THEN "outer" ELSE "step")
    /\ UNCHANGED <<outerVars, queue, signed, lastSigned, errors, held, walkVars>>

\* A caller without a thread runs step_once() itself.
CallStep ==
    /\ CallerSteps
    /\ pc[Caller] = "off"
    /\ queue # <<>>
    /\ GoTo(Caller, "step")
    /\ UNCHANGED <<outerVars, queue, signed, lastSigned, errors, held, walkVars>>

-----------------------------------------------------------------------------
\* None and an error end the worker's inner loop, a result does not.
LeaveLoop(a) == GoTo(a, IF a = Caller THEN "off" ELSE "outer")
StayInLoop(a) == GoTo(a, IF a = Caller THEN "off" ELSE "inner")

FindEmpty(a) ==
    /\ pc[a] = "step"
    /\ queue = <<>>
    /\ LeaveLoop(a)
    /\ UNCHANGED <<outerVars, queue, signed, lastSigned, errors, held, walkVars>>

Pop(a) ==
    /\ pc[a] = "step"
    /\ queue # <<>>
    /\ held' = [held EXCEPT ![a] = Head(queue)]
    /\ queue' = Tail(queue)
    /\ GoTo(a, "signing")
    /\ UNCHANGED <<outerVars, signed, lastSigned, errors, walkVars>>

SignWith(a, last) ==
    /\ pc[a] = "signing"
    /\ signed' = [signed EXCEPT ![held[a]] = IF @ = 0 THEN 1 ELSE 2]
    /\ lastSigned' = last
    /\ held' = [held EXCEPT ![a] = None]
    /\ StayInLoop(a)
    /\ UNCHANGED <<outerVars, queue, errors, walkVars>>

Newest(a) == IF held[a].mode = "segment_head" /\ held[a].seq > lastSigned THEN held[a].seq ELSE lastSigned

\* Mutant: the last head signed, not the newest.
SignLatest(a) == SignWith(a, IF held[a].mode = "segment_head" THEN held[a].seq ELSE lastSigned)

\* step_once(): the result, and the newest segment head signed so far.
Sign(a) == SignWith(a, Newest(a))

\* step_once(): the key provider fails; the item is dropped, SigningError raised.
Fail(a) ==
    /\ pc[a] = "signing"
    /\ errors < MaxErrors
    /\ errors' = errors + 1
    /\ held' = [held EXCEPT ![a] = None]
    /\ LeaveLoop(a)
    /\ UNCHANGED <<outerVars, queue, signed, lastSigned, walkVars>>

StepOnce(a) == FindEmpty(a) \/ Pop(a) \/ Sign(a) \/ Fail(a)
Run == OuterTest \/ TakeSnapshot \/ SnapshotRaises \/ Walk \/ EnqueueFound \/ WalkDone \/ InnerTest

Next ==
    \/ AppendEvent \/ Start \/ Stop \/ Joined \/ CallStep
    \/ \E r \in Requests : Request(r)
    \/ Run
    \/ \E a \in Actors : StepOnce(a)

Spec == Init /\ [][Next]_vars

\* The thread is scheduled.  A provider fails MaxErrors times at most; nothing
\* obliges the application to append, to start the worker or to stop it.
FairSpec == Spec /\ WF_vars(Run \/ StepOnce(Worker)) /\ WF_vars(StepOnce(Caller)) /\ WF_vars(Joined)

-----------------------------------------------------------------------------
SignedHeads == {s \in Seqs : signed[HeadAt(s)] > 0}
Underway ==
    {queue[k] : k \in DOMAIN queue} \cup ({held[a] : a \in Actors} \ {None})
        \cup {HeadAt(s) : s \in found}

SigTypeOK ==
    /\ length \in 0..MaxEvents
    /\ queue \in Seq(Pending)
    /\ signed \in [Pending -> 0..2]
    /\ lastSigned \in Seqs \cup {-1}
    /\ errors \in 0..MaxErrors
    /\ shutdown \in BOOLEAN
    /\ alive \in {"none", "running", "joining"}
    /\ pc \in [Actors -> {"off", "outer", "pull", "walk", "enqueue", "inner", "step", "signing"}]
    /\ held \in [Actors -> Pending \cup {None}]
    /\ snap \in 0..MaxEvents
    /\ found \subseteq Seqs
    /\ asked \subseteq Requests
    /\ starts \in 0..MaxStarts

\* signer.py step_once(): whatever the order in which two actors finish, the
\* walk starts above a head that really is signed, the newest one.
LastSignedIsNewest ==
    /\ \A s \in SignedHeads : s <= lastSigned
    /\ lastSigned # -1 => lastSigned \in SignedHeads

\* signer.py _run(): with a worker that nobody stops, every event is in the end
\* at or below a signed segment head, although a failed item is dropped.
EveryEventCovered ==
    \A n \in 1..MaxEvents :
        (alive = "running" /\ length >= n) ~> (lastSigned >= n - 1 \/ shutdown)

\* signer.py:353-354: "Emit a segment head at every batch_size boundary AFTER
\* last_signed."  A boundary the walk will not look at again is signed or on
\* its way.
NoBoundarySkipped ==
    \A s \in 0..lastSigned : Boundary(s) => s \in SignedHeads \/ HeadAt(s) \in Underway

\* The same of a worker whose signatures all succeed, when nothing was enqueued
\* by hand: a stop, a restart or a caller of step_once() skips no boundary.
NoBoundarySkippedWithoutError == errors = 0 /\ asked = {} => NoBoundarySkipped

=============================================================================
