---------------------------- MODULE AnchorerProofs ----------------------------
(***************************************************************************)
(* Proofs about the anchorer worker for any number of items, workers and   *)
(* answers of the TSA: no item is ever in two places, and the worker       *)
(* implements AnchorOutcome.                                               *)
(*                                                                         *)
(* NoItemTwice needs to know who holds an item (HolderIsAtWork) and that   *)
(* an item that nobody enqueued yet is nowhere (NewIsNowhere).  What the   *)
(* status of an item says of the place it is in (OpenUntilSettled,         *)
(* SettledOnce) is what the refinement needs besides.                      *)
(***************************************************************************)
EXTENDS Anchorer, TLAPS

Stati == {"new", "pending", "quarantined", "anchored", "failed_permanent"}
AtWork == {"popped", "calling"}

AnchTyped ==
    /\ queue \in Seq(Items)
    /\ results \in Seq(Items)
    /\ drained \subseteq Items
    /\ status \in [Items -> Stati]
    /\ pc \in [Actors -> {"off", "outer", "waiting", "inner", "step"} \cup AtWork]
    /\ held \in [Actors -> Items \cup {None}]

HolderIsAtWork == \A a \in Actors : pc[a] \in AtWork <=> held[a] # None

NewIsNowhere == \A i \in Items : status[i] = "new" => i \notin Present

OpenUntilSettled == \A i \in Queued \cup InHand : status[i] \in {"pending", "quarantined"}

SettledOnce == \A i \in Finished \cup drained : status[i] \in Settled

IInv ==
    /\ AnchTyped
    /\ HolderIsAtWork
    /\ NoItemTwice
    /\ NewIsNowhere
    /\ OpenUntilSettled
    /\ SettledOnce

-----------------------------------------------------------------------------
(* Sequences without repetition.                                           *)
Elements(s) == {s[k] : k \in DOMAIN s}
Distinct(s) == \A j, k \in DOMAIN s : s[j] = s[k] => j = k

\* An element that is new to a sequence without repetition may be appended.
LEMMA AppendDistinct ==
    ASSUME NEW s \in Seq(Items), NEW x \in Items
    PROVE  /\ Append(s, x) \in Seq(Items)
           /\ Elements(Append(s, x)) = Elements(s) \cup {x}
           /\ Distinct(s) /\ x \notin Elements(s) => Distinct(Append(s, x))
<1> DEFINE t == Append(s, x)
<1>1. t \in Seq(Items) /\ Len(t) = Len(s) + 1 /\ Len(s) \in Nat /\ DOMAIN s = 1..Len(s) /\ DOMAIN t = 1..Len(t)
  OBVIOUS
<1>2. (\A k \in 1..Len(s) : t[k] = s[k]) /\ t[Len(s) + 1] = x
  OBVIOUS
<1> HIDE DEF t
<1>3. Elements(t) = Elements(s) \cup {x}
  <2>1. Elements(s) \cup {x} \subseteq Elements(t)
    BY <1>1, <1>2 DEF Elements
  <2>2. Elements(t) \subseteq Elements(s) \cup {x}
    BY <1>1, <1>2 DEF Elements
  <2> QED
    BY <2>1, <2>2
<1>4. ASSUME Distinct(s), x \notin Elements(s) PROVE Distinct(t)
  <2> SUFFICES ASSUME NEW j \in DOMAIN t, NEW k \in DOMAIN t, t[j] = t[k] PROVE j = k
    BY DEF Distinct
  <2>1. \A m \in 1..Len(s) : s[m] # x
    BY <1>1, <1>4 DEF Elements
  <2> QED
    BY <1>1, <1>2, <1>4, <2>1 DEF Distinct
<1> QED
  BY <1>1, <1>3, <1>4 DEF t

\* Taking the head off leaves the others, once each.
LEMMA TailDistinct ==
    ASSUME NEW s \in Seq(Items), s # <<>>, Distinct(s)
    PROVE  /\ Head(s) \in Items /\ Head(s) \in Elements(s)
           /\ Tail(s) \in Seq(Items)
           /\ Elements(Tail(s)) = Elements(s) \ {Head(s)}
           /\ Distinct(Tail(s))
<1> DEFINE t == Tail(s)
<1>1. /\ t \in Seq(Items) /\ Len(t) = Len(s) - 1 /\ Len(s) \in Nat /\ Len(s) >= 1
      /\ DOMAIN s = 1..Len(s) /\ DOMAIN t = 1..Len(t)
      /\ Head(s) = s[1] /\ s[1] \in Items
  OBVIOUS
<1>2. \A k \in 1..Len(t) : t[k] = s[k + 1] /\ k + 1 \in 1..Len(s)
  BY <1>1
<1> HIDE DEF t
<1>3. Elements(t) = Elements(s) \ {s[1]}
  <2>1. ASSUME NEW k \in DOMAIN t PROVE t[k] \in Elements(s) \ {s[1]}
    <3>1. k + 1 \in DOMAIN s /\ 1 \in DOMAIN s /\ k + 1 # 1 /\ t[k] = s[k + 1]
      BY <1>1, <1>2
    <3> QED
      BY <3>1 DEF Distinct, Elements
  <2>2. ASSUME NEW k \in DOMAIN s, s[k] # s[1] PROVE s[k] \in Elements(t)
    <3>1. k - 1 \in DOMAIN t /\ t[k - 1] = s[k]
      BY <1>1, <1>2, <2>2
    <3> QED
      BY <3>1 DEF Elements
  <2> QED
    BY <2>1, <2>2 DEF Elements
<1>4. Distinct(t)
  <2> SUFFICES ASSUME NEW j \in DOMAIN t, NEW k \in DOMAIN t, t[j] = t[k] PROVE j = k
    BY DEF Distinct
  <2>1. j + 1 \in DOMAIN s /\ k + 1 \in DOMAIN s /\ s[j + 1] = s[k + 1]
    BY <1>1, <1>2
  <2>2. j + 1 = k + 1
    BY <2>1 DEF Distinct
  <2> QED
    BY <1>1, <2>2
<1>5. s[1] \in Elements(s)
  BY <1>1 DEF Elements
<1> QED
  BY <1>1, <1>3, <1>4, <1>5 DEF t

\* NoItemTwice in the words of these lemmas.
LEMMA NoItemTwiceSays ==
    NoItemTwice <=>
        /\ Distinct(queue)
        /\ Distinct(results)
        /\ \A a, b \in Actors : held[a] = held[b] /\ held[a] # None => a = b
        /\ Elements(queue) \cap InHand = {}
        /\ (Elements(queue) \cup InHand) \cap (Elements(results) \cup drained) = {}
        /\ Elements(results) \cap drained = {}
BY DEF NoItemTwice, Distinct, Elements, Queued, Finished

LEMMA PlacesAreElements ==
    /\ Queued = Elements(queue) /\ Queued' = Elements(queue')
    /\ Finished = Elements(results) /\ Finished' = Elements(results')
BY DEF Queued, Finished, Elements

-----------------------------------------------------------------------------
(* What actors hold.                                                       *)

\* An actor with empty hands takes an item nobody holds.
LEMMA TakenUp ==
    ASSUME IInv, NEW a \in Actors, held[a] = None, NEW i \in Items, i \notin InHand,
           held' = [held EXCEPT ![a] = i]
    PROVE  /\ held' \in [Actors -> Items \cup {None}]
           /\ InHand' = InHand \cup {i}
           /\ \A b, c \in Actors : held'[b] = held'[c] /\ held'[b] # None => b = c
<1>1. held \in [Actors -> Items \cup {None}] /\ None \notin Items
  BY AnchorerAssumption DEF IInv, AnchTyped
<1>2. \A b \in Actors : held'[b] = IF b = a THEN i ELSE held[b]
  BY <1>1
<1>3. InHand' = InHand \cup {i}
  BY <1>1, <1>2 DEF InHand
<1>4. \A b, c \in Actors : held'[b] = held'[c] /\ held'[b] # None => b = c
  BY <1>1, <1>2 DEF InHand, IInv, NoItemTwice
<1> QED
  BY <1>1, <1>3, <1>4

\* An actor lets go of its item, which is then in nobody's hands.
LEMMA LetGo ==
    ASSUME IInv, NEW a \in Actors, held[a] # None, PutDown(a)
    PROVE  /\ held[a] \in Items /\ held[a] \in InHand
           /\ held' \in [Actors -> Items \cup {None}]
           /\ InHand' = InHand \ {held[a]}
           /\ \A b, c \in Actors : held'[b] = held'[c] /\ held'[b] # None => b = c
<1>1. held \in [Actors -> Items \cup {None}] /\ None \notin Items
  BY AnchorerAssumption DEF IInv, AnchTyped
<1>2. \A b \in Actors : held'[b] = IF b = a THEN None ELSE held[b]
  BY <1>1 DEF PutDown
<1>3. \A b \in Actors \ {a} : held[b] # held[a]
  BY DEF IInv, NoItemTwice
<1>4. InHand' = InHand \ {held[a]}
  BY <1>1, <1>2, <1>3 DEF InHand
<1>5. \A b, c \in Actors : held'[b] = held'[c] /\ held'[b] # None => b = c
  BY <1>1, <1>2 DEF IInv, NoItemTwice
<1> QED
  BY <1>1, <1>4, <1>5 DEF PutDown, InHand

-----------------------------------------------------------------------------
LEMMA InitInvariant == Init => IInv
<1> SUFFICES ASSUME Init PROVE IInv
  OBVIOUS
<1>1. AnchTyped /\ HolderIsAtWork
  BY DEF Init, AnchTyped, HolderIsAtWork, Stati, AtWork
<1>2. Queued = {} /\ Finished = {} /\ InHand = {}
  BY DEF Init, Queued, Finished, InHand
<1>3. NoItemTwice
  BY <1>2 DEF Init, NoItemTwice
<1> QED
  BY <1>1, <1>2, <1>3 DEF Init, IInv, NewIsNowhere, Present, OpenUntilSettled, SettledOnce

\* Steps that move actors about and touch no item.
LEMMA MovesKeep ==
    ASSUME IInv, UNCHANGED <<queue, results, drained, status, held>>,
           \/ pc' = pc
           \/ \E a \in Actors, place \in {"off", "outer", "waiting", "inner", "step"} :
                 pc[a] \notin AtWork /\ GoTo(a, place)
           \/ \E a \in Actors : pc[a] = "popped" /\ GoTo(a, "calling")
    PROVE  IInv'
<1>1. /\ Queued' = Queued /\ Finished' = Finished /\ InHand' = InHand
      /\ (NoItemTwice <=> NoItemTwice')
  BY DEF Queued, Finished, InHand, NoItemTwice
<1>2. AnchTyped' /\ HolderIsAtWork'
  BY DEF IInv, AnchTyped, HolderIsAtWork, AtWork, GoTo
<1> QED
  BY <1>1, <1>2 DEF IInv, NewIsNowhere, Present, OpenUntilSettled, SettledOnce

LEMMA EnqueueKeeps == ASSUME IInv, NEW i \in Items, Enqueue(i) PROVE IInv'
<1>1. i \notin Queued /\ i \notin InHand /\ i \notin Finished /\ i \notin drained
  BY DEF IInv, NewIsNowhere, Present, Enqueue
<1>2. /\ queue' \in Seq(Items) /\ Queued' = Queued \cup {i} /\ Distinct(queue')
  BY <1>1, AppendDistinct, NoItemTwiceSays, PlacesAreElements DEF Enqueue, IInv, AnchTyped
<1>3. InHand' = InHand /\ Finished' = Finished /\ UNCHANGED <<results, held, drained, pc>>
  BY DEF Enqueue, InHand, Finished
<1>4. status' \in [Items -> Stati] /\ \A j \in Items : status'[j] = IF j = i THEN "pending" ELSE status[j]
  BY DEF Enqueue, IInv, AnchTyped, Stati
<1>5. AnchTyped' /\ HolderIsAtWork'
  BY <1>2, <1>3, <1>4 DEF IInv, AnchTyped, HolderIsAtWork
<1>6. NoItemTwice'
  BY <1>1, <1>2, <1>3 DEF IInv, NoItemTwice, Distinct
<1>7. Queued \subseteq Items /\ InHand \subseteq Items /\ Finished \subseteq Items /\ drained \subseteq Items
  BY DEF IInv, AnchTyped, Queued, InHand, Finished
<1>8. NewIsNowhere' /\ OpenUntilSettled' /\ SettledOnce'
  BY <1>1, <1>2, <1>3, <1>4, <1>7 DEF IInv, NewIsNowhere, Present, OpenUntilSettled, SettledOnce
<1> QED
  BY <1>5, <1>6, <1>8 DEF IInv

LEMMA DrainKeeps == ASSUME IInv, Drain PROVE IInv'
<1>1. Finished' = {} /\ drained' = drained \cup Finished /\ results' \in Seq(Items) /\ DOMAIN results' = {}
  BY DEF Drain, Finished
<1>2. Finished \subseteq Items
  BY DEF IInv, AnchTyped, Finished
<1>3. Queued' = Queued /\ InHand' = InHand /\ UNCHANGED <<queue, status, held, pc>>
  BY DEF Drain, Queued, InHand, itemVars
<1>4. AnchTyped' /\ HolderIsAtWork'
  BY <1>1, <1>2, <1>3 DEF IInv, AnchTyped, HolderIsAtWork
<1>5. NoItemTwice'
  BY <1>1, <1>3 DEF IInv, NoItemTwice
<1> QED
  BY <1>1, <1>3, <1>4, <1>5 DEF IInv, NewIsNowhere, Present, OpenUntilSettled, SettledOnce

\* step_once() takes the head of the queue into its hands.
LEMMA PopKeeps == ASSUME IInv, NEW a \in Actors, Pop(a) PROVE IInv'
<1> DEFINE i == Head(queue)
<1>1. /\ pc[a] = "step" /\ queue # <<>>
      /\ held' = [held EXCEPT ![a] = i] /\ queue' = Tail(queue)
      /\ pc' = [pc EXCEPT ![a] = "popped"]
      /\ UNCHANGED <<results, status, drained>>
  BY DEF Pop, Take, GoTo, itemVars
<1>2. queue \in Seq(Items) /\ Distinct(queue)
  BY NoItemTwiceSays DEF IInv, AnchTyped
<1>3. /\ i \in Items /\ i \in Queued /\ queue' \in Seq(Items)
      /\ Queued' = Queued \ {i} /\ Distinct(queue')
  BY <1>1, <1>2, TailDistinct, PlacesAreElements
<1>4. held[a] = None /\ i \notin InHand
  BY <1>1, <1>3 DEF IInv, HolderIsAtWork, AtWork, NoItemTwice
<1> HIDE DEF i
<1>5. /\ held' \in [Actors -> Items \cup {None}]
      /\ InHand' = InHand \cup {i}
      /\ \A b, c \in Actors : held'[b] = held'[c] /\ held'[b] # None => b = c
  BY <1>1, <1>3, <1>4, TakenUp
<1>6. Finished' = Finished
  BY <1>1 DEF Finished
<1>7. AnchTyped'
  BY <1>1, <1>3, <1>5 DEF IInv, AnchTyped, AtWork
<1>8. HolderIsAtWork'
  <2>1. i # None /\ pc \in [Actors -> {"off", "outer", "waiting", "inner", "step"} \cup AtWork]
        /\ held \in [Actors -> Items \cup {None}]
    BY <1>3, AnchorerAssumption DEF IInv, AnchTyped
  <2> QED
    BY <1>1, <2>1 DEF IInv, HolderIsAtWork, AtWork
<1>9. NoItemTwice'
  BY <1>1, <1>3, <1>4, <1>5, <1>6 DEF IInv, NoItemTwice, Distinct
<1>10. NewIsNowhere' /\ OpenUntilSettled' /\ SettledOnce'
  BY <1>1, <1>3, <1>5, <1>6 DEF IInv, NewIsNowhere, Present, OpenUntilSettled, SettledOnce
<1> QED
  BY <1>7, <1>8, <1>9, <1>10 DEF IInv

\* The hands of an actor that works are empty after it has let go.
LEMMA LeavesWork ==
    ASSUME IInv, NEW a \in Actors, pc[a] \in AtWork, PutDown(a),
           NEW place \in {"off", "outer", "inner"}, GoTo(a, place)
    PROVE  /\ HolderIsAtWork'
           /\ pc' \in [Actors -> {"off", "outer", "waiting", "inner", "step"} \cup AtWork]
BY AnchorerAssumption DEF IInv, AnchTyped, HolderIsAtWork, AtWork, PutDown, GoTo

\* An item in hand goes back to the tail: it is not yet eligible, or the TSA
\* did not answer.
LEMMA RequeueKeeps ==
    ASSUME IInv, NEW a \in Actors, pc[a] \in AtWork, PutDown(a),
           NEW place \in {"off", "outer", "inner"}, GoTo(a, place),
           queue' = Append(queue, held[a]),
           status' = status \/ status' = [status EXCEPT ![held[a]] = "quarantined"],
           UNCHANGED <<results, drained>>
    PROVE  IInv'
<1> DEFINE i == held[a]
<1>1. /\ i \in Items /\ i \in InHand
      /\ held' \in [Actors -> Items \cup {None}] /\ InHand' = InHand \ {i}
      /\ \A b, c \in Actors : held'[b] = held'[c] /\ held'[b] # None => b = c
  BY LetGo DEF IInv, HolderIsAtWork
<1>2. i \notin Queued /\ i \notin Finished /\ i \notin drained
  BY <1>1 DEF IInv, NoItemTwice
<1>3. queue' \in Seq(Items) /\ Queued' = Queued \cup {i} /\ Distinct(queue')
  BY <1>1, <1>2, AppendDistinct, NoItemTwiceSays, PlacesAreElements DEF IInv, AnchTyped
<1>4. Finished' = Finished
  BY DEF Finished
<1>5. /\ status' \in [Items -> Stati]
      /\ \A j \in Items : status'[j] = status[j] \/ (j = i /\ status'[j] = "quarantined")
  BY <1>1 DEF IInv, AnchTyped, Stati
<1> HIDE DEF i
<1>6. AnchTyped' /\ HolderIsAtWork'
  BY <1>1, <1>3, <1>5, LeavesWork DEF IInv, AnchTyped
<1>7. NoItemTwice'
  BY <1>1, <1>2, <1>3, <1>4 DEF IInv, NoItemTwice, Distinct
<1>8. Queued \subseteq Items /\ InHand \subseteq Items /\ Finished \subseteq Items /\ drained \subseteq Items
  BY DEF IInv, AnchTyped, Queued, InHand, Finished
<1>9. NewIsNowhere' /\ OpenUntilSettled' /\ SettledOnce'
  BY <1>1, <1>2, <1>3, <1>4, <1>5, <1>8 DEF IInv, NewIsNowhere, Present, OpenUntilSettled, SettledOnce
<1> QED
  BY <1>6, <1>7, <1>9 DEF IInv

\* An item in hand gets its outcome and its result.
LEMMA SettleKeeps ==
    ASSUME IInv, NEW a \in Actors, NEW o \in Settled, Settle(a, o), UNCHANGED queue
    PROVE  IInv'
<1> DEFINE i == held[a]
<1>0. pc[a] \in AtWork /\ PutDown(a) /\ \E place \in {"off", "outer", "inner"} : GoTo(a, place)
  BY DEF Settle, AtWork, AfterResult
<1>1. /\ i \in Items /\ i \in InHand
      /\ held' \in [Actors -> Items \cup {None}] /\ InHand' = InHand \ {i}
      /\ \A b, c \in Actors : held'[b] = held'[c] /\ held'[b] # None => b = c
  BY <1>0, LetGo DEF IInv, HolderIsAtWork
<1>2. i \notin Queued /\ i \notin Finished /\ i \notin drained
  BY <1>1 DEF IInv, NoItemTwice
<1>3. results' \in Seq(Items) /\ Finished' = Finished \cup {i} /\ Distinct(results')
  BY <1>1, <1>2, AppendDistinct, NoItemTwiceSays, PlacesAreElements DEF Settle, IInv, AnchTyped
<1>4. Queued' = Queued /\ drained' = drained
  BY DEF Settle, Queued
<1>5. status' \in [Items -> Stati] /\ \A j \in Items : status'[j] = IF j = i THEN o ELSE status[j]
  BY <1>1 DEF Settle, IInv, AnchTyped, Stati, Settled
<1> HIDE DEF i
<1>6. AnchTyped' /\ HolderIsAtWork'
  BY <1>0, <1>1, <1>3, <1>4, <1>5, LeavesWork DEF IInv, AnchTyped
<1>7. NoItemTwice'
  BY <1>1, <1>2, <1>3, <1>4 DEF IInv, NoItemTwice, Distinct
<1>8. Queued \subseteq Items /\ InHand \subseteq Items /\ Finished \subseteq Items /\ drained \subseteq Items
  BY DEF IInv, AnchTyped, Queued, InHand, Finished
<1>9. NewIsNowhere' /\ OpenUntilSettled' /\ SettledOnce'
  BY <1>1, <1>2, <1>3, <1>4, <1>5, <1>8
     DEF IInv, NewIsNowhere, Present, OpenUntilSettled, SettledOnce, Settled
<1> QED
  BY <1>6, <1>7, <1>9 DEF IInv

\* The item of a call that raised what nobody expects is nowhere any more.
LEMMA ProviderRaisesKeeps == ASSUME IInv, NEW a \in Actors, ProviderRaises(a) PROVE IInv'
<1>0. /\ pc[a] \in AtWork /\ PutDown(a) /\ GoTo(a, "off")
      /\ UNCHANGED <<queue, results, drained, status>>
  BY DEF ProviderRaises, AtWork, itemVars
<1>1. /\ held' \in [Actors -> Items \cup {None}] /\ InHand' = InHand \ {held[a]}
      /\ \A b, c \in Actors : held'[b] = held'[c] /\ held'[b] # None => b = c
  BY <1>0, LetGo DEF IInv, HolderIsAtWork
<1>2. Queued' = Queued /\ Finished' = Finished
  BY <1>0 DEF Queued, Finished
<1>3. AnchTyped' /\ HolderIsAtWork'
  BY <1>0, <1>1, LeavesWork DEF IInv, AnchTyped
<1>4. NoItemTwice'
  BY <1>0, <1>1, <1>2 DEF IInv, NoItemTwice
<1> QED
  BY <1>0, <1>1, <1>2, <1>3, <1>4 DEF IInv, NewIsNowhere, Present, OpenUntilSettled, SettledOnce

-----------------------------------------------------------------------------
\* What an actor does in step_once() keeps the invariant.
LEMMA StepOnceKeeps == ASSUME IInv, NEW a \in Actors, StepOnce(a) PROVE IInv'
<1> USE DEF AtWork, AfterNone, AfterResult, itemVars
<1>1. CASE FindEmpty(a)
  BY <1>1, MovesKeep DEF FindEmpty, Unmoved
<1>2. CASE PushBack(a)
  BY <1>2, RequeueKeeps DEF PushBack, NotEligible
<1>3. CASE Request(a)
  BY <1>3, MovesKeep DEF Request, Unmoved
<1>4. CASE Unavailable(a)
  BY <1>4, RequeueKeeps DEF Unavailable, RetryLater
<1>5. CASE HardReject(a) \/ Anchored(a)
  BY <1>5, SettleKeeps DEF HardReject, Anchored, Settled
<1> QED
  BY <1>1, <1>2, <1>3, <1>4, <1>5, PopKeeps, ProviderRaisesKeeps DEF StepOnce, Answer

LEMMA NextInvariant == IInv /\ [Next]_vars => IInv'
<1> SUFFICES ASSUME IInv, [Next]_vars PROVE IInv'
  OBVIOUS
<1> USE DEF AtWork, itemVars, threadVars
<1>1. ASSUME NEW w \in Workers, Start(w) \/ Run(w) PROVE IInv'
  BY <1>1, MovesKeep DEF Start, Run, OuterTest, OuterMove, Wake, Woken, InnerTest, Unmoved, Actors
<1>2. CASE CallStep
  BY <1>2, MovesKeep DEF CallStep, Unmoved, Actors
<1>3. CASE Stop \/ Joined \/ Tick \/ UNCHANGED vars
  BY <1>3, MovesKeep DEF Stop, Joined, Tick, vars
<1> QED
  BY <1>1, <1>2, <1>3, EnqueueKeeps, DrainKeeps, StepOnceKeeps DEF Next

LEMMA Invariant == Spec => []IInv
BY InitInvariant, NextInvariant, PTL DEF Spec

\* worker.py step_once(): for any number of workers that overlap, callers and
\* answers of the TSA, no item is in two places.
THEOREM NeverTwice == Spec => []NoItemTwice
BY Invariant, PTL DEF IInv

-----------------------------------------------------------------------------
(***************************************************************************)
(* The refinement.  outcome is a function of status, and handedOver is     *)
(* drained: an item that is settled was open, because it was in somebody's *)
(* hands (OpenUntilSettled), and what Drain hands over is settled and was  *)
(* not handed over before (SettledOnce, NoItemTwice).                      *)
(***************************************************************************)
OutcomeOf(s) == CASE s = "new" -> "unknown" [] s \in Settled -> s [] OTHER -> "open"
outcomes == [i \in Items |-> OutcomeOf(status[i])]

LEMMA OutcomesAre ==
    /\ OutcomeOf("new") = "unknown"
    /\ OutcomeOf("pending") = "open" /\ OutcomeOf("quarantined") = "open"
    /\ \A o \in Settled : OutcomeOf(o) = o
BY DEF OutcomeOf, Settled

\* One item gets another status, and the outcomes follow.
LEMMA OutcomeFollows ==
    ASSUME AnchTyped, NEW i \in Items, NEW s, status' = [status EXCEPT ![i] = s]
    PROVE  outcomes' = [outcomes EXCEPT ![i] = OutcomeOf(s)]
BY DEF AnchTyped, outcomes

LEMMA StepsPromise ==
    ASSUME IInv, [Next]_vars
    PROVE  \/ UNCHANGED <<outcomes, drained>>
           \/ \E i \in Items :
                 /\ outcomes[i] = "unknown" /\ outcomes' = [outcomes EXCEPT ![i] = "open"]
                 /\ UNCHANGED drained
           \/ \E i \in Items, o \in Settled :
                 /\ outcomes[i] = "open" /\ outcomes' = [outcomes EXCEPT ![i] = o]
                 /\ UNCHANGED drained
           \/ \E S \in SUBSET Items :
                 /\ S \cap drained = {} /\ \A i \in S : outcomes[i] \in Settled
                 /\ drained' = drained \cup S
                 /\ UNCHANGED outcomes
<1> USE DEF itemVars, threadVars
<1>1. ASSUME NEW i \in Items, Enqueue(i)
      PROVE  /\ outcomes[i] = "unknown" /\ outcomes' = [outcomes EXCEPT ![i] = "open"]
             /\ UNCHANGED drained
  BY <1>1, OutcomesAre, OutcomeFollows DEF Enqueue, outcomes, IInv
<1>2. ASSUME NEW a \in Actors, NEW o \in Settled, Settle(a, o)
      PROVE  \E i \in Items :
                /\ outcomes[i] = "open" /\ outcomes' = [outcomes EXCEPT ![i] = o]
                /\ UNCHANGED drained
  <2>1. held[a] \in Items /\ status[held[a]] \in {"pending", "quarantined"}
    BY <1>2, LetGo DEF Settle, IInv, HolderIsAtWork, AtWork, OpenUntilSettled
  <2>2. AnchTyped /\ status' = [status EXCEPT ![held[a]] = o] /\ drained' = drained
    BY <1>2 DEF Settle, IInv
  <2>3. outcomes' = [outcomes EXCEPT ![held[a]] = OutcomeOf(o)]
    BY <2>1, <2>2, OutcomeFollows
  <2>4. outcomes[held[a]] = "open" /\ OutcomeOf(o) = o
    BY <2>1, OutcomesAre DEF outcomes
  <2> QED
    BY <2>1, <2>2, <2>3, <2>4
<1>3. ASSUME NEW a \in Actors, Unavailable(a) PROVE UNCHANGED <<outcomes, drained>>
  <2>1. held[a] \in Items /\ status[held[a]] \in {"pending", "quarantined"}
    BY <1>3, LetGo DEF Unavailable, RetryLater, IInv, HolderIsAtWork, AtWork, OpenUntilSettled
  <2>2. drained' = drained
    BY <1>3 DEF Unavailable, RetryLater
  <2>3. status' = status \/ status' = [status EXCEPT ![held[a]] = "quarantined"]
    BY <1>3, <2>1 DEF Unavailable, RetryLater, IInv, AnchTyped
  <2>4. \A i \in Items : OutcomeOf(status'[i]) = OutcomeOf(status[i])
    BY <2>1, <2>3, OutcomesAre DEF IInv, AnchTyped
  <2> QED
    BY <2>2, <2>4 DEF outcomes
<1>4. CASE Drain
  <2>1. /\ drained' = drained \cup Finished /\ status' = status
        /\ Finished \in SUBSET Items /\ Finished \cap drained = {}
        /\ \A i \in Finished : status[i] \in Settled
    BY <1>4 DEF Drain, Finished, IInv, AnchTyped, NoItemTwice, SettledOnce
  <2>2. UNCHANGED outcomes /\ \A i \in Finished : outcomes[i] \in Settled
    BY <2>1, OutcomesAre DEF outcomes
  <2> QED
    BY <2>1, <2>2
<1>5. ASSUME UNCHANGED <<status, drained>> PROVE UNCHANGED <<outcomes, drained>>
  BY <1>5 DEF outcomes
<1> QED
  BY <1>1, <1>2, <1>3, <1>4, <1>5
     DEF Next, StepOnce, Answer, Run, Start, Stop, Joined, Tick, CallStep, OuterTest, OuterMove, Wake, Woken,
         InnerTest, FindEmpty, Pop, Take, PushBack, NotEligible, Request, HardReject, Anchored, ProviderRaises,
         Unmoved, vars, Settled

\* ADR-0003 section 4: the worker, whatever its threads and its TSA do, decides
\* the outcome of an item once and hands it over once.
THEOREM ImplementsOutcomes == Spec => OneOutcomeEach
<1>1. outcomes = [i \in Items |-> CASE status[i] = "new" -> "unknown"
                                    [] status[i] \in Settled -> status[i]
                                    [] OTHER -> "open"]
  BY DEF outcomes, OutcomeOf
<1>2. Init => Promise!Init
  <2>1. Init => outcomes = [i \in Items |-> "unknown"]
    BY OutcomesAre DEF Init, outcomes
  <2> QED
    BY <1>1, <2>1 DEF Init, Promise!Init
<1>3. IInv /\ [Next]_vars => [Promise!Next]_(Promise!vars)
  BY <1>1, StepsPromise
     DEF Promise!Next, Promise!Submit, Promise!Decide, Promise!HandOver, Promise!vars, Settled,
         outcomes, OutcomeOf
<1> QED
  BY Invariant, <1>2, <1>3, PTL DEF Spec, OneOutcomeEach, Promise!Spec

=============================================================================
