----------------------------- MODULE SignerProofs -----------------------------
(***************************************************************************)
(* Proofs about the signer worker for any chain length, batch size, set of *)
(* requests and number of errors and starts.                               *)
(*                                                                         *)
(* LastSignedIsNewest is disturbed by Sign only, and there it needs to     *)
(* know that what the actor holds is an item (HeldIsItem) and that seqs    *)
(* are in range, which is the type invariant.                              *)
(***************************************************************************)
EXTENDS Signer, TLAPS

HeldIsItem == \A a \in Actors : pc[a] = "signing" => held[a] \in Pending

TInv == SigTypeOK /\ HeldIsItem

-----------------------------------------------------------------------------
LEMMA InitTyped == Init => TInv
<1> SUFFICES ASSUME Init PROVE TInv
  OBVIOUS
<1>1. SigTypeOK
  <2>1. queue \in Seq(Pending) /\ signed \in [Pending -> 0..2] /\ lastSigned \in Seqs \cup {-1}
    BY DEF Init
  <2>2. /\ pc \in [Actors -> {"off", "outer", "pull", "walk", "enqueue", "inner", "step", "signing"}]
        /\ held \in [Actors -> Pending \cup {None}]
    BY DEF Init
  <2>3. 0 \in 0..MaxEvents /\ 0 \in 0..MaxErrors /\ 0 \in 0..MaxStarts
    BY SignerAssumption
  <2> QED
    BY <2>1, <2>2, <2>3 DEF Init, SigTypeOK
<1>2. HeldIsItem
  BY DEF Init, HeldIsItem
<1> QED
  BY <1>1, <1>2 DEF TInv

\* A head of an event of the chain is an item.
LEMMA HeadIsItem == ASSUME NEW s \in Seqs PROVE HeadAt(s) \in Pending
BY DEF HeadAt, Pending

\* The walk finds seqs of the chain only.
LEMMA CandidatesAreSeqs ==
    ASSUME TInv
    PROVE  candidate_seqs(lastSigned, snap) \subseteq Seqs
<1>1. lastSigned \in Int /\ lastSigned >= -1 /\ snap \in Int /\ snap <= MaxEvents /\ MaxEvents \in Nat
  BY SignerAssumption DEF TInv, SigTypeOK, Seqs
<1> QED
  BY <1>1 DEF candidate_seqs, Seqs

LEMMA StepTyped == TInv /\ [Next]_vars => TInv'
<1> SUFFICES ASSUME TInv, [Next]_vars PROVE TInv'
  OBVIOUS
<1> USE SignerAssumption
<1> USE DEF TInv, SigTypeOK, HeldIsItem, Actors, GoTo, outerVars, walkVars
<1>1. CASE AppendEvent
  BY <1>1 DEF AppendEvent
<1>2. ASSUME NEW r \in Requests, Request(r) PROVE TInv'
  <2>1. r \in Pending
    BY DEF Pending, Seqs
  <2>2. queue' \in Seq(Pending)
    BY <1>2, <2>1 DEF Request
  <2> QED
    BY <1>2, <2>2 DEF Request
<1>3. CASE Start
  <2>1. starts' \in 0..MaxStarts
    BY <1>3 DEF Start
  <2>2. /\ pc' \in [Actors -> {"off", "outer", "pull", "walk", "enqueue", "inner", "step", "signing"}]
        /\ \A b \in Actors : pc'[b] = "signing" => pc[b] = "signing"
    BY <1>3 DEF Start
  <2>3. shutdown' \in BOOLEAN /\ alive' \in {"none", "running", "joining"}
    BY <1>3 DEF Start
  <2> QED
    BY <1>3, <2>1, <2>2, <2>3 DEF Start
<1>4. CASE Stop
  BY <1>4 DEF Stop
<1>5. CASE Joined
  BY <1>5 DEF Joined
<1>6. CASE CallStep
  BY <1>6 DEF CallStep
<1>7. CASE OuterTest
  BY <1>7 DEF OuterTest
<1>8. CASE TakeSnapshot
  BY <1>8 DEF TakeSnapshot
<1>18. CASE SnapshotRaises
  BY <1>18 DEF SnapshotRaises
<1>9. CASE Walk
  <2>1. found' \subseteq Seqs
    BY <1>9, CandidatesAreSeqs DEF Walk
  <2> QED
    BY <1>9, <2>1 DEF Walk
<1>10. CASE EnqueueFound
  <2>1. PICK s \in found : queue' = Append(queue, HeadAt(s)) /\ found' = found \ {s}
    BY <1>10 DEF EnqueueFound
  <2>2. HeadAt(s) \in Pending
    BY <2>1, HeadIsItem
  <2>3. queue' \in Seq(Pending) /\ found' \subseteq Seqs
    BY <2>1, <2>2
  <2> QED
    BY <1>10, <2>3 DEF EnqueueFound
<1>11. CASE WalkDone
  BY <1>11 DEF WalkDone
<1>12. CASE InnerTest
  BY <1>12 DEF InnerTest
<1>13. ASSUME NEW a \in Actors, FindEmpty(a) PROVE TInv'
  BY <1>13 DEF FindEmpty, LeaveLoop
<1>14. ASSUME NEW a \in Actors, Pop(a) PROVE TInv'
  <2>1. Head(queue) \in Pending /\ Tail(queue) \in Seq(Pending)
    BY <1>14 DEF Pop
  <2>2. queue' \in Seq(Pending) /\ held' \in [Actors -> Pending \cup {None}] /\ held'[a] \in Pending
    BY <1>14, <2>1 DEF Pop
  <2>3. \A b \in Actors : pc'[b] = "signing" => held'[b] \in Pending
    BY <1>14, <2>2 DEF Pop
  <2> QED
    BY <1>14, <2>2, <2>3 DEF Pop
<1>15. ASSUME NEW a \in Actors, Sign(a) PROVE TInv'
  <2>1. held[a] \in Pending
    BY <1>15 DEF Sign, SignWith
  <2>2. held[a].seq \in Seqs
    BY <2>1 DEF Pending
  <2>3. lastSigned' \in Seqs \cup {-1}
    BY <1>15, <2>2 DEF Sign, SignWith, Newest
  <2>4. signed' \in [Pending -> 0..2]
    BY <1>15, <2>1 DEF Sign, SignWith
  <2> QED
    BY <1>15, <2>3, <2>4 DEF Sign, SignWith, StayInLoop
<1>16. ASSUME NEW a \in Actors, Fail(a) PROVE TInv'
  BY <1>16 DEF Fail, LeaveLoop
<1>17. CASE UNCHANGED vars
  BY <1>17 DEF vars
<1> QED
  BY <1>1, <1>2, <1>3, <1>4, <1>5, <1>6, <1>7, <1>8, <1>9, <1>10, <1>11, <1>12, <1>13, <1>14,
     <1>15, <1>16, <1>17, <1>18 DEF Next, Run, StepOnce

\* The type invariant of the signer worker.
THEOREM SignerTyped == Spec => []SigTypeOK
<1>1. TInv => SigTypeOK
  BY DEF TInv
<1> QED
  BY InitTyped, StepTyped, <1>1, PTL DEF Spec

-----------------------------------------------------------------------------
\* Signing an item moves the newest head up to it, when it is a head.
LEMMA SignKeepsNewest ==
    ASSUME TInv, LastSignedIsNewest, NEW a \in Actors, Sign(a)
    PROVE  LastSignedIsNewest'
<1>1. PICK p \in Pending :
        /\ p = held[a]
        /\ signed' = [signed EXCEPT ![p] = IF @ = 0 THEN 1 ELSE 2]
  BY DEF TInv, HeldIsItem, Sign, SignWith
<1>2. signed \in [Pending -> 0..2] /\ lastSigned \in Seqs \cup {-1}
  BY DEF TInv, SigTypeOK
<1>3. lastSigned' = IF p.mode = "segment_head" /\ p.seq > lastSigned THEN p.seq ELSE lastSigned
  BY <1>1 DEF Sign, SignWith, Newest
<1>4. \A q \in Pending : signed'[q] > 0 <=> (signed[q] > 0 \/ q = p)
  BY <1>1, <1>2
<1>5. \A s \in Seqs : s \in SignedHeads' <=> (s \in SignedHeads \/ HeadAt(s) = p)
  BY <1>4, HeadIsItem DEF SignedHeads
<1>6. SignedHeads \subseteq Seqs /\ SignedHeads' \subseteq Seqs /\ Seqs \subseteq Nat
  BY DEF SignedHeads, Seqs
<1>7. CASE p.mode = "segment_head"
  <2>1. p.seq \in Seqs /\ \A s \in Seqs : HeadAt(s) = p <=> s = p.seq
    BY <1>7 DEF Pending, HeadAt
  <2>2. \A s \in Seqs : s \in SignedHeads' <=> (s \in SignedHeads \/ s = p.seq)
    BY <1>5, <2>1
  <2>3. lastSigned' = IF p.seq > lastSigned THEN p.seq ELSE lastSigned
    BY <1>3, <1>7
  <2>4. ASSUME NEW s \in SignedHeads' PROVE s <= lastSigned'
    <3>1. s \in Seqs
      BY <1>6, <2>4
    <3>2. lastSigned \in Int /\ p.seq \in Int /\ s \in Int
      BY <1>2, <2>1, <3>1 DEF Seqs
    <3>3. lastSigned' \in Int /\ lastSigned <= lastSigned' /\ p.seq <= lastSigned'
      BY <2>3, <3>2
    <3>4. s \in SignedHeads \/ s = p.seq
      BY <2>2, <2>4, <3>1
    <3>5. s \in SignedHeads => s <= lastSigned
      BY DEF LastSignedIsNewest
    <3> QED
      BY <3>2, <3>3, <3>4, <3>5
  <2>5. lastSigned' # -1 => lastSigned' \in SignedHeads'
    BY <1>2, <1>6, <2>1, <2>2, <2>3 DEF LastSignedIsNewest
  <2> QED
    BY <2>4, <2>5 DEF LastSignedIsNewest
<1>8. CASE p.mode # "segment_head"
  <2>1. \A s \in Seqs : HeadAt(s) # p
    BY <1>8 DEF HeadAt
  <2>2. SignedHeads' = SignedHeads
    BY <1>5, <1>6, <2>1
  <2>3. lastSigned' = lastSigned
    BY <1>3, <1>8
  <2> QED
    BY <2>2, <2>3 DEF LastSignedIsNewest
<1> QED
  BY <1>7, <1>8

\* signer.py step_once(): in whatever order the worker and the callers finish
\* their signatures, the walk starts above a signed head, the newest one.
THEOREM NewestIsRecorded == Spec => []LastSignedIsNewest
<1>1. Init => LastSignedIsNewest
  <2> SUFFICES ASSUME Init PROVE LastSignedIsNewest
    OBVIOUS
  <2>1. SignedHeads = {} /\ lastSigned = -1
    BY HeadIsItem DEF Init, SignedHeads
  <2> QED
    BY <2>1 DEF LastSignedIsNewest
<1>2. TInv /\ LastSignedIsNewest /\ [Next]_vars => LastSignedIsNewest'
  <2> SUFFICES ASSUME TInv, LastSignedIsNewest, [Next]_vars PROVE LastSignedIsNewest'
    OBVIOUS
  <2>1. ASSUME NEW a \in Actors, Sign(a) PROVE LastSignedIsNewest'
    BY <2>1, SignKeepsNewest
  <2>2. ASSUME UNCHANGED <<signed, lastSigned>> PROVE LastSignedIsNewest'
    BY <2>2 DEF LastSignedIsNewest, SignedHeads
  <2> QED
    BY <2>1, <2>2
       DEF Next, Run, StepOnce, AppendEvent, Request, Start, Stop, Joined, CallStep, OuterTest,
           TakeSnapshot, SnapshotRaises, Walk, EnqueueFound, WalkDone, InnerTest, FindEmpty, Pop,
           Fail, vars, walkVars
<1> QED
  BY InitTyped, StepTyped, <1>1, <1>2, PTL DEF Spec

-----------------------------------------------------------------------------
(***************************************************************************)
(* No boundary is skipped.  While nothing fails and nothing is enqueued by *)
(* hand, the heads that are signed or on their way (Known) only grow, and  *)
(* they have no gap: with a head, every boundary below it is known         *)
(* (NoGap).  A head is lost by nobody, because an actor takes one with     *)
(* empty hands and a walk starts with nothing left to enqueue; the walk    *)
(* adds a set that has no gap above the last signed head, which is known   *)
(* itself (LastSignedIsNewest).                                            *)
(***************************************************************************)
Known == SignedHeads \cup {s \in Seqs : HeadAt(s) \in Underway}
OnlyTheWalk == errors = 0 /\ asked = {}

HandsEmpty == \A a \in Actors : pc[a] # "signing" => held[a] = None
NothingLeftOver == found # {} => pc[Worker] = "enqueue"
NoGap == OnlyTheWalk => \A t \in Known, b \in Seqs : b <= t /\ Boundary(b) => b \in Known

WalkInv == TInv /\ LastSignedIsNewest /\ HandsEmpty /\ NothingLeftOver /\ NoGap

LEMMA InitWalk == Init => HandsEmpty /\ NothingLeftOver /\ NoGap
<1> SUFFICES ASSUME Init PROVE HandsEmpty /\ NothingLeftOver /\ NoGap
  OBVIOUS
<1>1. Underway = {} /\ SignedHeads = {}
  BY HeadIsItem DEF Init, Underway, SignedHeads
<1>2. Known = {}
  BY <1>1 DEF Known
<1> QED
  BY <1>2 DEF Init, HandsEmpty, NothingLeftOver, NoGap

LEMMA StepHands == TInv /\ HandsEmpty /\ NothingLeftOver /\ [Next]_vars => HandsEmpty' /\ NothingLeftOver'
<1> SUFFICES ASSUME TInv, HandsEmpty, NothingLeftOver, [Next]_vars PROVE HandsEmpty' /\ NothingLeftOver'
  OBVIOUS
<1> USE DEF HandsEmpty, NothingLeftOver, GoTo, outerVars, walkVars, Actors
<1>1. /\ pc \in [Actors -> {"off", "outer", "pull", "walk", "enqueue", "inner", "step", "signing"}]
      /\ held \in [Actors -> Pending \cup {None}] /\ Worker # Caller
  BY SignerAssumption DEF TInv, SigTypeOK
<1>2. CASE Start \/ CallStep \/ OuterTest \/ TakeSnapshot \/ SnapshotRaises \/ WalkDone \/ InnerTest \/ Walk
  BY <1>1, <1>2 DEF Start, CallStep, OuterTest, TakeSnapshot, SnapshotRaises, WalkDone, InnerTest, Walk
<1>3. CASE EnqueueFound
  BY <1>1, <1>3 DEF EnqueueFound
<1>4. ASSUME NEW a \in Actors, StepOnce(a) PROVE HandsEmpty' /\ NothingLeftOver'
  <2>1. CASE FindEmpty(a)
    BY <1>1, <2>1 DEF FindEmpty, LeaveLoop
  <2>2. CASE Pop(a)
    BY <1>1, <2>2 DEF Pop
  <2>3. CASE Sign(a)
    BY <1>1, <2>3 DEF Sign, SignWith, StayInLoop
  <2>4. CASE Fail(a)
    BY <1>1, <2>4 DEF Fail, LeaveLoop
  <2> QED
    BY <1>4, <2>1, <2>2, <2>3, <2>4 DEF StepOnce
<1>5. ASSUME UNCHANGED <<pc, held, found>> PROVE HandsEmpty' /\ NothingLeftOver'
  BY <1>5
<1> QED
  BY <1>2, <1>3, <1>4, <1>5 DEF Next, Run, AppendEvent, Request, Stop, Joined, vars

-----------------------------------------------------------------------------
\* What a queue holds after an append, and before the head is taken.
LEMMA AppendHolds ==
    ASSUME NEW q \in Seq(Pending), NEW x \in Pending
    PROVE  {Append(q, x)[k] : k \in DOMAIN Append(q, x)} = {q[k] : k \in DOMAIN q} \cup {x}
<1>1. /\ Len(Append(q, x)) = Len(q) + 1 /\ Len(q) \in Nat
      /\ DOMAIN q = 1..Len(q) /\ DOMAIN Append(q, x) = 1..(Len(q) + 1)
      /\ \A k \in 1..Len(q) : Append(q, x)[k] = q[k]
      /\ Append(q, x)[Len(q) + 1] = x
  OBVIOUS
<1>2. 1..(Len(q) + 1) = 1..Len(q) \cup {Len(q) + 1}
  BY <1>1
<1> QED
  BY <1>1, <1>2

LEMMA TailHolds ==
    ASSUME NEW q \in Seq(Pending), q # <<>>
    PROVE  {q[k] : k \in DOMAIN q} = {Tail(q)[k] : k \in DOMAIN Tail(q)} \cup {Head(q)}
<1>1. /\ Len(q) \in Nat \ {0} /\ DOMAIN q = 1..Len(q) /\ DOMAIN Tail(q) = 1..(Len(q) - 1)
      /\ \A k \in 1..(Len(q) - 1) : Tail(q)[k] = q[k + 1]
      /\ Head(q) = q[1]
  OBVIOUS
<1>2. ASSUME NEW k \in 1..Len(q), k # 1 PROVE k - 1 \in 1..(Len(q) - 1) /\ Tail(q)[k - 1] = q[k]
  <2>1. k - 1 \in 1..(Len(q) - 1) /\ (k - 1) + 1 = k
    BY <1>1, <1>2
  <2>2. Tail(q)[k - 1] = q[(k - 1) + 1]
    BY <1>1, <2>1
  <2> QED
    BY <2>1, <2>2
<1>3. ASSUME NEW k \in 1..(Len(q) - 1) PROVE k + 1 \in 1..Len(q)
  BY <1>1, <1>3
<1>4. {q[k] : k \in DOMAIN q} \subseteq {Tail(q)[k] : k \in DOMAIN Tail(q)} \cup {Head(q)}
  <2> SUFFICES ASSUME NEW k \in 1..Len(q)
               PROVE  q[k] \in {Tail(q)[j] : j \in DOMAIN Tail(q)} \cup {Head(q)}
    BY <1>1
  <2>1. CASE k = 1
    BY <1>1, <2>1
  <2>2. CASE k # 1
    BY <1>1, <1>2, <2>2
  <2> QED
    BY <2>1, <2>2
<1>5. {Tail(q)[k] : k \in DOMAIN Tail(q)} \subseteq {q[k] : k \in DOMAIN q}
  BY <1>1, <1>3
<1>6. Head(q) \in {q[k] : k \in DOMAIN q}
  BY <1>1
<1> QED
  BY <1>4, <1>5, <1>6

\* A candidate above a head that is known leaves no boundary between them out.
LEMMA CandidatesHaveNoGap ==
    ASSUME TInv, NEW t \in candidate_seqs(lastSigned, snap), NEW b \in Seqs, b <= t, Boundary(b)
    PROVE  b <= lastSigned \/ b \in candidate_seqs(lastSigned, snap)
<1>1. lastSigned \in Int /\ snap \in Int /\ b \in Int
  BY SignerAssumption DEF TInv, SigTypeOK, Seqs
<1> QED
  BY <1>1 DEF candidate_seqs

LEMMA SameKnown ==
    ASSUME NoGap, Known' = Known, OnlyTheWalk' => OnlyTheWalk
    PROVE  NoGap'
BY DEF NoGap, Boundary

LEMMA SameUnderway ==
    ASSUME Underway' = Underway, signed' = signed
    PROVE  Known' = Known
BY DEF Known, SignedHeads

LEMMA WalkLeavesNoGap == ASSUME WalkInv, Walk PROVE NoGap'
<1> DEFINE C == candidate_seqs(lastSigned, snap)
<1>1. found = {} /\ found' = C /\ queue' = queue /\ held' = held /\ signed' = signed /\ C \subseteq Seqs
  BY CandidatesAreSeqs DEF Walk, WalkInv, NothingLeftOver
<1>2. lastSigned' = lastSigned /\ errors' = errors /\ asked' = asked
  BY DEF Walk, outerVars
<1>3. Underway' = Underway \cup {HeadAt(s) : s \in C}
  BY <1>1 DEF Underway, HeadAt
<1>4. SignedHeads' = SignedHeads
  BY <1>1 DEF SignedHeads, HeadAt
<1>5. \A s \in Seqs : HeadAt(s) \in {HeadAt(c) : c \in C} <=> s \in C
  BY DEF HeadAt
<1>6. Known' = Known \cup C
  BY <1>1, <1>3, <1>4, <1>5 DEF Known, HeadAt
<1> SUFFICES ASSUME OnlyTheWalk, NEW t \in Known', NEW b \in Seqs, b <= t, Boundary(b)
             PROVE  b \in Known'
  BY <1>2 DEF NoGap, OnlyTheWalk, Boundary
<1>7. CASE t \in Known
  BY <1>6, <1>7 DEF WalkInv, NoGap
<1>8. CASE t \in C
  <2>1. b <= lastSigned \/ b \in C
    BY <1>8, CandidatesHaveNoGap DEF WalkInv
  <2>2. ASSUME b <= lastSigned PROVE b \in Known
    <3>1. lastSigned # -1
      BY <2>2 DEF Seqs
    <3>2. lastSigned \in Known
      BY <3>1 DEF WalkInv, LastSignedIsNewest, Known
    <3> QED
      BY <2>2, <3>2 DEF WalkInv, NoGap
  <2> QED
    BY <1>6, <2>1, <2>2
<1> QED
  BY <1>6, <1>7, <1>8

LEMMA EnqueueKeepsUnderway == ASSUME WalkInv, EnqueueFound PROVE Underway' = Underway
<1>1. PICK s \in found : queue' = Append(queue, HeadAt(s)) /\ found' = found \ {s}
  BY DEF EnqueueFound
<1>2. held' = held /\ queue \in Seq(Pending) /\ HeadAt(s) \in Pending
  BY <1>1, HeadIsItem DEF EnqueueFound, WalkInv, TInv, SigTypeOK
<1>3. {queue'[k] : k \in DOMAIN queue'} = {queue[k] : k \in DOMAIN queue} \cup {HeadAt(s)}
  BY <1>1, <1>2, AppendHolds
<1>4. {HeadAt(t) : t \in found} = {HeadAt(t) : t \in found'} \cup {HeadAt(s)}
  BY <1>1
<1> QED
  BY <1>2, <1>3, <1>4 DEF Underway, HeadAt

LEMMA PopKeepsUnderway == ASSUME WalkInv, NEW a \in Actors, Pop(a) PROVE Underway' = Underway
<1>1. queue # <<>> /\ queue \in Seq(Pending) /\ queue' = Tail(queue) /\ found' = found
  BY DEF Pop, WalkInv, TInv, SigTypeOK, walkVars
<1>2. held[a] = None /\ held \in [Actors -> Pending \cup {None}]
  BY DEF Pop, WalkInv, HandsEmpty, TInv, SigTypeOK
<1>3. Head(queue) \in Pending /\ Head(queue) # None
  <2>1. Head(queue) \in Pending
    BY <1>1
  <2> QED
    BY <2>1, SignerAssumption DEF Pending, Seqs
<1>4. held' = [held EXCEPT ![a] = Head(queue)]
  BY DEF Pop
<1>5. {held'[b] : b \in Actors} \ {None} = ({held[b] : b \in Actors} \ {None}) \cup {Head(queue)}
  <2>1. held'[a] = Head(queue) /\ \A b \in Actors : b # a => held'[b] = held[b]
    BY <1>2, <1>4
  <2> QED
    BY <1>2, <1>3, <2>1
<1>6. {queue[k] : k \in DOMAIN queue} = {queue'[k] : k \in DOMAIN queue'} \cup {Head(queue)}
  BY <1>1, TailHolds
<1> QED
  BY <1>1, <1>5, <1>6 DEF Underway, HeadAt

\* A head that is signed was on its way, and what is signed stays so.
LEMMA SignKeepsKnown == ASSUME WalkInv, NEW a \in Actors, Sign(a) PROVE Known' = Known
<1>1. PICK p \in Pending : p = held[a] /\ signed' = [signed EXCEPT ![p] = IF @ = 0 THEN 1 ELSE 2]
  BY DEF WalkInv, TInv, HeldIsItem, Sign, SignWith
<1>2. signed \in [Pending -> 0..2] /\ held \in [Actors -> Pending \cup {None}] /\ p # None
  <2>1. p # None
    BY SignerAssumption DEF Pending, Seqs
  <2> QED
    BY <2>1 DEF WalkInv, TInv, SigTypeOK
<1>3. held' = [held EXCEPT ![a] = None] /\ queue' = queue /\ found' = found
  BY DEF Sign, SignWith, walkVars
<1>4. \A q \in Pending : signed'[q] > 0 <=> (signed[q] > 0 \/ q = p)
  BY <1>1, <1>2
<1>5. \A s \in Seqs : s \in SignedHeads' <=> (s \in SignedHeads \/ HeadAt(s) = p)
  BY <1>4, HeadIsItem DEF SignedHeads
<1>6. p \in {held[b] : b \in Actors} \ {None}
  BY <1>1, <1>2
<1>7. {held[b] : b \in Actors} \ {None} = ({held'[b] : b \in Actors} \ {None}) \cup {p}
  BY <1>1, <1>2, <1>3
<1>8. Underway = Underway' \cup {p}
  <2>1. Underway' = {queue[k] : k \in DOMAIN queue} \cup ({held'[b] : b \in Actors} \ {None})
                       \cup {HeadAt(s) : s \in found}
    BY <1>3 DEF Underway, HeadAt, Actors
  <2> QED
    BY <1>7, <2>1 DEF Underway
<1>9. \A s \in Seqs : s \in Known' <=> s \in Known
  <2>1. \A s \in Seqs : HeadAt(s) \in Underway <=> HeadAt(s) \in Underway' \/ HeadAt(s) = p
    BY <1>8
  <2>2. \A s \in Seqs : s \in Known' <=> s \in SignedHeads' \/ HeadAt(s) \in Underway'
    BY DEF Known, HeadAt
  <2>3. \A s \in Seqs : s \in Known <=> s \in SignedHeads \/ HeadAt(s) \in Underway
    BY DEF Known
  <2> QED
    BY <1>5, <2>1, <2>2, <2>3
<1> QED
  BY <1>9 DEF Known, SignedHeads

LEMMA StepWalk == WalkInv /\ [Next]_vars => NoGap'
<1> SUFFICES ASSUME WalkInv, [Next]_vars PROVE NoGap'
  OBVIOUS
<1> USE DEF outerVars, walkVars
<1>1. NoGap
  BY DEF WalkInv
<1>2. ASSUME NEW r \in Requests, Request(r) PROVE NoGap'
  BY <1>2 DEF Request, NoGap, OnlyTheWalk
<1>3. CASE Walk
  BY <1>3, WalkLeavesNoGap
<1>4. CASE EnqueueFound
  <2>1. UNCHANGED <<signed, errors, asked>>
    BY <1>4 DEF EnqueueFound
  <2> QED
    BY <1>1, <1>4, <2>1, EnqueueKeepsUnderway, SameUnderway, SameKnown DEF OnlyTheWalk
<1>5. ASSUME NEW a \in Actors, Pop(a) PROVE NoGap'
  <2>1. UNCHANGED <<signed, errors, asked>>
    BY <1>5 DEF Pop
  <2> QED
    BY <1>1, <1>5, <2>1, PopKeepsUnderway, SameUnderway, SameKnown DEF OnlyTheWalk
<1>6. ASSUME NEW a \in Actors, Sign(a) PROVE NoGap'
  <2>1. UNCHANGED <<errors, asked>>
    BY <1>6 DEF Sign, SignWith
  <2> QED
    BY <1>1, <1>6, <2>1, SignKeepsKnown, SameKnown DEF OnlyTheWalk
<1>7. ASSUME SnapshotRaises \/ \E a \in Actors : Fail(a) PROVE NoGap'
  <2>1. errors \in Nat /\ errors' = errors + 1
    BY <1>7, SignerAssumption DEF SnapshotRaises, Fail, WalkInv, TInv, SigTypeOK
  <2> QED
    BY <2>1 DEF NoGap, OnlyTheWalk
<1>8. ASSUME UNCHANGED <<signed, errors, asked, queue, held, found>> PROVE NoGap'
  <2>1. Underway' = Underway
    BY <1>8 DEF Underway
  <2> QED
    BY <1>1, <1>8, <2>1, SameUnderway, SameKnown DEF OnlyTheWalk
<1> QED
  BY <1>2, <1>3, <1>4, <1>5, <1>6, <1>7, <1>8
     DEF Next, Run, StepOnce, AppendEvent, Start, Stop, Joined, CallStep, OuterTest, TakeSnapshot,
         WalkDone, InnerTest, FindEmpty, vars

\* signer.py:353-354: a worker whose signatures succeed, however it is stopped
\* and restarted and whoever calls step_once() beside it, skips no boundary.
THEOREM NothingSkippedWithoutError == Spec => []NoBoundarySkippedWithoutError
<1>1. WalkInv => NoBoundarySkippedWithoutError
  <2> SUFFICES ASSUME WalkInv, OnlyTheWalk, NEW s \in 0..lastSigned, Boundary(s)
               PROVE  s \in SignedHeads \/ HeadAt(s) \in Underway
    BY DEF NoBoundarySkippedWithoutError, NoBoundarySkipped, OnlyTheWalk
  <2>1. lastSigned \in Seqs
    BY DEF WalkInv, TInv, SigTypeOK, Seqs
  <2>2. lastSigned \in Known /\ s \in Seqs /\ s <= lastSigned
    BY <2>1, SignerAssumption DEF WalkInv, LastSignedIsNewest, Known, Seqs
  <2>3. s \in Known
    BY <2>2 DEF WalkInv, NoGap
  <2> QED
    BY <2>3 DEF Known
<1> QED
  BY InitTyped, StepTyped, InitWalk, StepHands, StepWalk, NewestIsRecorded, <1>1, PTL DEF Spec, WalkInv

=============================================================================
