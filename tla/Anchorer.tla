------------------------------- MODULE Anchorer -------------------------------
(***************************************************************************)
(* Anchorer (sdk/python/src/attestplane/anchoring/worker.py): a queue of   *)
(* chain heads, the daemon thread that asks a TSA to timestamp them, and   *)
(* the callers of enqueue(), start(), stop(), step_once() and              *)
(* drained_results().                                                      *)
(*                                                                         *)
(* An actor runs step_once() in three pieces: pop the item under the lock, *)
(* look at its next_attempt_at and call the provider with no lock held,    *)
(* then lock again for what the answer changes.  Between the pieces every  *)
(* other actor may run.                                                    *)
(*                                                                         *)
(* The retry and clock-skew counters of WorkerStats only ever grow and     *)
(* nothing reads them; they are left out.  Time is the Tick action, one    *)
(* second each.                                                            *)
(***************************************************************************)
EXTENDS Integers, Sequences, FiniteSets

CONSTANTS
    Items,         \* entries handed to enqueue(), at most one each
    Workers,       \* bound: worker threads alive at the same time
    Caller,        \* the thread that calls step_once() itself
    None,
    MaxBackoff,    \* max_backoff_seconds
    Outcomes       \* how request_timestamp() may end with the configured provider

ASSUME AnchorerAssumption ==
    /\ None \notin Items \cup Workers
    /\ Caller \notin Workers
    /\ MaxBackoff \in Nat \ {0}
    /\ Outcomes \subseteq {"token", "unavailable", "malformed", "exception"}

VARIABLES
    queue,     \* _queue
    results,   \* _results: the items that have an AnchorerResult
    stats,     \* _stats: enqueued, anchored, failed_permanent
    shutdown,  \* _shutdown.is_set()
    wakeup,    \* _wakeup.is_set()
    thread,    \* _thread
    status,    \* PendingAnchor.status, "new" before enqueue()
    delay,     \* seconds until next_attempt_at
    backoff,   \* the delay the next TSAUnavailableError gives the item
    pc,        \* where each actor is
    held,      \* the PendingAnchor in the actor's hands
    joining,   \* stop() waits in join()
    drained    \* items drained_results() returned

vars == <<queue, results, stats, shutdown, wakeup, thread, status, delay,
          backoff, pc, held, joining, drained>>
itemVars == <<status, delay, backoff>>
threadVars == <<shutdown, thread, joining>>

Actors == Workers \cup {Caller}
Settled == {"anchored", "failed_permanent"}

Init ==
    /\ queue = <<>>
    /\ results = <<>>
    /\ stats = [enqueued |-> 0, anchored |-> 0, failed_permanent |-> 0]
    /\ shutdown = FALSE
    /\ wakeup = FALSE
    /\ thread = None
    /\ status = [i \in Items |-> "new"]
    /\ delay = [i \in Items |-> 0]
    /\ backoff = [i \in Items |-> 1]
    /\ pc = [a \in Actors |-> "off"]
    /\ held = [a \in Actors |-> None]
    /\ joining = FALSE
    /\ drained = {}

GoTo(a, place) == pc' = [pc EXCEPT ![a] = place]
Unmoved == UNCHANGED <<queue, results, stats, wakeup, threadVars, itemVars, held, drained>>

-----------------------------------------------------------------------------
\* enqueue()
Enqueue(i) ==
    /\ status[i] = "new"
    /\ status' = [status EXCEPT ![i] = "pending"]
    /\ queue' = Append(queue, i)
    /\ stats' = [stats EXCEPT !.enqueued = @ + 1]
    /\ wakeup' = TRUE
    /\ UNCHANGED <<results, threadVars, delay, backoff, pc, held, drained>>

\* start(): returns at once when the thread it knows of is alive.  No lock keeps
\* it from a join() that stop() waits in; that join() then drops the new thread.
Start(w) ==
    /\ thread # None => pc[thread] = "off"
    /\ pc[w] = "off"
    /\ shutdown' = FALSE
    /\ thread' = w
    /\ GoTo(w, "outer")
    /\ UNCHANGED <<queue, results, stats, wakeup, itemVars, held, joining, drained>>

\* stop() up to the join.
Stop ==
    /\ ~joining
    /\ shutdown' = TRUE
    /\ wakeup' = TRUE
    /\ joining' = (thread # None)
    /\ UNCHANGED <<queue, results, stats, thread, itemVars, pc, held, drained>>

\* stop(): join() returns, because the thread ended or because the timeout
\* passed; which of them, nobody looks.
Joined ==
    /\ joining
    /\ thread' = None
    /\ joining' = FALSE
    /\ UNCHANGED <<queue, results, stats, shutdown, wakeup, itemVars, pc, held, drained>>

\* drained_results()
Drain ==
    /\ results # <<>>
    /\ drained' = drained \cup {results[k] : k \in DOMAIN results}
    /\ results' = <<>>
    /\ UNCHANGED <<queue, stats, wakeup, threadVars, itemVars, pc, held>>

Tick ==
    /\ \E i \in Items : delay[i] > 0
    /\ delay' = [i \in Items |-> IF delay[i] > 0 THEN delay[i] - 1 ELSE 0]
    /\ UNCHANGED <<queue, results, stats, wakeup, threadVars, status, backoff, pc, held, drained>>

-----------------------------------------------------------------------------
\* _run(): the outer loop tests _shutdown, waits a second or for _wakeup, and
\* the inner loop tests _shutdown before each step_once().
OuterMove(w, ends) ==
    /\ pc[w] = "outer"
    /\ GoTo(w, IF ends THEN "off" ELSE "waiting")
    /\ Unmoved

\* Mutant: the outer loop is `while True`.
OuterTestOmitted(w) == OuterMove(w, FALSE)

OuterTest(w) == OuterMove(w, shutdown)

Woken(w) ==
    /\ pc[w] = "waiting"
    /\ wakeup' = FALSE
    /\ GoTo(w, "inner")
    /\ UNCHANGED <<queue, results, stats, threadVars, itemVars, held, drained>>

\* Mutant: the wait has no timeout.
WakeWhenSet(w) == wakeup /\ Woken(w)

\* Set or not, `_wakeup.wait(timeout=1.0)` returns.
Wake(w) == Woken(w)

InnerTest(w) ==
    /\ pc[w] = "inner"
    /\ GoTo(w, IF shutdown THEN "outer" ELSE "step")
    /\ Unmoved

\* A caller without a thread runs step_once() itself.
CallStep ==
    /\ pc[Caller] = "off"
    /\ GoTo(Caller, "step")
    /\ Unmoved

\* Where step_once() returns to: None ends the worker's inner loop.
AfterNone(a) == GoTo(a, IF a = Caller THEN "off" ELSE "outer")
AfterResult(a) == GoTo(a, IF a = Caller THEN "off" ELSE "inner")
PutDown(a) == held' = [held EXCEPT ![a] = None]

-----------------------------------------------------------------------------
\* step_once(): `if not self._queue: return None`
FindEmpty(a) ==
    /\ pc[a] = "step"
    /\ queue = <<>>
    /\ AfterNone(a)
    /\ Unmoved

Take(a, newQueue) ==
    /\ pc[a] = "step"
    /\ queue # <<>>
    /\ held' = [held EXCEPT ![a] = Head(queue)]
    /\ queue' = newQueue
    /\ GoTo(a, "popped")
    /\ UNCHANGED <<results, stats, wakeup, threadVars, itemVars, drained>>

\* Mutant: the item is read, not removed.
PeekOnly(a) == Take(a, queue)

\* step_once(): popleft() under the lock.
Pop(a) == Take(a, Tail(queue))

NotEligible(a, newQueue) ==
    /\ pc[a] = "popped"
    /\ delay[held[a]] > 0
    /\ queue' = newQueue
    /\ PutDown(a)
    /\ AfterNone(a)
    /\ UNCHANGED <<results, stats, wakeup, threadVars, itemVars, drained>>

\* step_once(): not yet eligible, back to the tail.
PushBack(a) == NotEligible(a, Append(queue, held[a]))

\* step_once(): request_timestamp() starts.
Request(a) ==
    /\ pc[a] = "popped"
    /\ delay[held[a]] = 0
    /\ GoTo(a, "calling")
    /\ Unmoved

RetryLater(a, nextBackoff) ==
    /\ pc[a] = "calling"
    /\ "unavailable" \in Outcomes
    /\ status' = [status EXCEPT ![held[a]] = "quarantined"]
    /\ delay' = [delay EXCEPT ![held[a]] = backoff[held[a]]]
    /\ backoff' = [backoff EXCEPT ![held[a]] = nextBackoff]
    /\ queue' = Append(queue, held[a])
    /\ PutDown(a)
    /\ AfterNone(a)
    /\ UNCHANGED <<results, stats, wakeup, threadVars, drained>>

\* TSAUnavailableError: back to the tail, quarantined, 1 s, 2 s, 4 s ... later.
Unavailable(a) ==
    RetryLater(a, IF 2 * backoff[held[a]] < MaxBackoff THEN 2 * backoff[held[a]] ELSE MaxBackoff)

Settle(a, outcome) ==
    /\ pc[a] = "calling"
    /\ status' = [status EXCEPT ![held[a]] = outcome]
    /\ results' = Append(results, held[a])
    /\ stats' = [stats EXCEPT ![outcome] = @ + 1]
    /\ PutDown(a)
    /\ AfterResult(a)
    /\ UNCHANGED <<wakeup, threadVars, delay, backoff, drained>>

\* Mutant: a malformed answer is queued again as an outage is.
RejectAndRetry(a) ==
    /\ "malformed" \in Outcomes
    /\ Settle(a, "failed_permanent")
    /\ queue' = Append(queue, held[a])

\* AnchorVerificationError: a result without a record.
HardReject(a) == "malformed" \in Outcomes /\ Settle(a, "failed_permanent") /\ UNCHANGED queue

\* The success path.
Anchored(a) == "token" \in Outcomes /\ Settle(a, "anchored") /\ UNCHANGED queue

(***************************************************************************)
(* Any other exception: step_once() does not catch it, so the item in hand *)
(* is gone and the worker thread ends.  A MultiTSAProvider always ends so: *)
(* it has request_timestamps() only.                                       *)
(***************************************************************************)
ProviderRaises(a) ==
    /\ pc[a] = "calling"
    /\ "exception" \in Outcomes
    /\ PutDown(a)
    /\ GoTo(a, "off")
    /\ UNCHANGED <<queue, results, stats, wakeup, threadVars, itemVars, drained>>

-----------------------------------------------------------------------------
Answer(a) == Unavailable(a) \/ HardReject(a) \/ Anchored(a) \/ ProviderRaises(a)
StepOnce(a) == FindEmpty(a) \/ Pop(a) \/ PushBack(a) \/ Request(a) \/ Answer(a)
Run(w) == OuterTest(w) \/ Wake(w) \/ InnerTest(w)

Next ==
    \/ \E i \in Items : Enqueue(i)
    \/ \E w \in Workers : Start(w) \/ Run(w)
    \/ Stop \/ Joined \/ Drain \/ Tick \/ CallStep
    \/ \E a \in Actors : StepOnce(a)

Spec == Init /\ [][Next]_vars

(***************************************************************************)
(* Threads are scheduled, time passes, and a TSA that is asked again and   *)
(* again answers in the end.  Nothing says that anyone calls start(),      *)
(* stop() or step_once().                                                  *)
(***************************************************************************)
Fairness ==
    /\ WF_vars(Tick)
    /\ WF_vars(Joined)
    /\ \A w \in Workers : WF_vars(Run(w))
    /\ \A a \in Actors : WF_vars(StepOnce(a)) /\ SF_vars(HardReject(a) \/ Anchored(a))

FairSpec == Spec /\ Fairness

-----------------------------------------------------------------------------

Queued == {queue[k] : k \in DOMAIN queue}
InHand == {held[a] : a \in Actors} \ {None}
Finished == {results[k] : k \in DOMAIN results}

\* worker.py step_once(): whatever the interleaving of workers and callers, an
\* item is never in two places: twice in the queue or the results, in two
\* actors' hands, queued while it is being timestamped or once it has a result.
NoItemTwice ==
    /\ \A j, k \in DOMAIN queue : queue[j] = queue[k] => j = k
    /\ \A j, k \in DOMAIN results : results[j] = results[k] => j = k
    /\ \A a, b \in Actors : held[a] = held[b] /\ held[a] # None => a = b
    /\ Queued \cap InHand = {}
    /\ (Queued \cup InHand) \cap (Finished \cup drained) = {}
    /\ Finished \cap drained = {}

\* An item that is not lost to a provider call that raised what nobody expects.
Present == Queued \cup InHand \cup Finished \cup drained

\* ADR-0003 section 4: the outcome of an item is decided once and handed over
\* once, although items are queued again, held and polled by several actors.
Promise == INSTANCE AnchorOutcome WITH
    outcome <- [i \in Items |-> CASE status[i] = "new" -> "unknown"
                                  [] status[i] \in Settled -> status[i]
                                  [] OTHER -> "open"],
    handedOver <- drained
OneOutcomeEach == Promise!Spec

\* worker.py _run(): while the worker lives and nobody stops it, every item that
\* no exception took gets its outcome: an item in backoff at the head delays
\* the others but never starves them.
WorkerGone == IF thread = None THEN TRUE ELSE pc[thread] = "off"
EveryItemSettles ==
    \A i \in Items :
        (~WorkerGone /\ status[i] # "new") ~>
            (status[i] \in Settled \/ shutdown \/ WorkerGone \/ i \notin Present)

\* worker.py stop(): a stopped worker ends, however long its queue is.
StopEndsWorkers ==
    \A w \in Workers : shutdown ~> (pc[w] = "off" \/ ~shutdown)

=============================================================================
