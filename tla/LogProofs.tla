------------------------------- MODULE LogProofs -------------------------------
(***************************************************************************)
(* Proofs about the log: first AttestSubstrate alone (SubSpec), then the   *)
(* threads that log and store, die and start again (Spec), for any number  *)
(* of threads, events, faults and pieces a flush writes.                   *)
(*                                                                         *)
(* In the substrate the chain invariant is not inductive alone: between    *)
(* Extend and SetTip the tip lags behind the list.  The strengthening says *)
(* who may be in that window (the lock's holder), that the event it is     *)
(* about to return is the last of the list, and that outside the window    *)
(* the tip is exact.                                                       *)
(***************************************************************************)
EXTENDS DurableLog, TLAPS

LockHeld == \A t \in Threads : pc[t] \in {"locked", "extended"} <=> lock = t

LastIsReturned ==
    \A t \in Threads : pc[t] = "extended" => events # <<>> /\ ret[t] = events[Len(events)]

TipIsHead == (\A t \in Threads : pc[t] # "extended") => tip = head_of(events)

RoomForOne == \A t \in Threads : pc[t] = "locked" => nextId < MaxEvents

SeqIsPosition == \A i \in 1..Len(events) : events[i].seq = i - 1

IInv ==
    /\ SubTypeOK
    /\ LockHeld
    /\ LastIsReturned
    /\ TipIsHead
    /\ RoomForOne
    /\ SeqIsPosition

-----------------------------------------------------------------------------
\* What chain_extend() builds has the type of a ChainedEvent.
LEMMA ChainExtendType ==
    ASSUME NEW h, NEW head \in ChainHead, NEW e \in Event, h \in [Threads -> Contents]
    PROVE  /\ chain_extend(h, head, e) \in ChainedEvent
           /\ chain_extend(h, head, e).seq = head.seq + 1
           /\ chain_extend(h, head, e).prev_hash = head.event_hash
           /\ chain_extend(h, head, e).event_hash = hash_event(h, e)
           /\ chain_extend(h, head, e).event = e
BY DEF chain_extend, ChainHead, ChainedEvent, Event, Digest, hash_event

\* head_of() of a list of chained events is a ChainHead.
LEMMA HeadOfType ==
    ASSUME NEW s \in Seq(ChainedEvent)
    PROVE  head_of(s) \in ChainHead
<1>1. CASE s = <<>>
  BY <1>1 DEF head_of, ChainHead, genesis_head, Digest
<1>2. CASE s # <<>>
  <2>1. s[Len(s)] \in ChainedEvent
    BY <1>2
  <2> QED
    BY <1>2, <2>1 DEF head_of, ChainHead, ChainedEvent, Digest
<1> QED BY <1>1, <1>2

LEMMA InitInvariant == SubInit => IInv
<1> SUFFICES ASSUME SubInit PROVE IInv
  OBVIOUS
<1>1. SubTypeOK
  BY SubstrateAssumption DEF SubInit, SubTypeOK, ChainHead, Digest, genesis_head, Contents
<1> QED
  BY <1>1, SubstrateAssumption
     DEF SubInit, IInv, LockHeld, LastIsReturned, TipIsHead, RoomForOne, SeqIsPosition, head_of

\* The step that grows the list: the new event sits at its own seq.
LEMMA ExtendInvariant ==
    ASSUME IInv, NEW t \in Threads, Extend(t)
    PROVE  IInv'
<1> DEFINE chained == chain_extend(heap, tip, [id |-> nextId, obj |-> t])
<1>1. /\ pc[t] = "locked"
      /\ events' = Append(events, chained)
      /\ ret' = [ret EXCEPT ![t] = chained]
      /\ nextId' = nextId + 1
      /\ pc' = [pc EXCEPT ![t] = "extended"]
      /\ UNCHANGED <<tip, lock, seen, heap>>
  BY DEF Extend, ExtendUnchecked
<1>2. SubTypeOK /\ nextId < MaxEvents /\ nextId \in Nat /\ MaxEvents \in Nat
  BY <1>1, SubstrateAssumption DEF IInv, SubTypeOK, RoomForOne
<1>3. \A u \in Threads : u # t => pc[u] \notin {"locked", "extended"}
  BY <1>1 DEF IInv, LockHeld
<1>4. tip = head_of(events)
  BY <1>1, <1>3 DEF IInv, TipIsHead
<1>5. [id |-> nextId, obj |-> t] \in Event
  BY <1>2 DEF Event
<1>6. chained \in ChainedEvent /\ chained.seq = tip.seq + 1
  BY <1>2, <1>5, ChainExtendType DEF SubTypeOK
<1>7. tip.seq + 1 = Len(events)
  <2>1. CASE events = <<>>
    BY <2>1, <1>4 DEF head_of, genesis_head
  <2>2. CASE events # <<>>
    BY <2>2, <1>4, <1>2 DEF head_of, IInv, SeqIsPosition, SubTypeOK
  <2> QED BY <2>1, <2>2
<1>8. SubTypeOK'
  <2> HIDE DEF chained
  <2>1. nextId' \in 0..MaxEvents
    BY <1>1, <1>2
  <2> QED
    BY <1>1, <1>2, <1>6, <2>1 DEF SubTypeOK
<1>9. SeqIsPosition'
  <2> HIDE DEF chained
  <2> QED
    BY <1>1, <1>2, <1>6, <1>7 DEF IInv, SeqIsPosition, SubTypeOK
<1>10. LockHeld'
  BY <1>1, <1>2 DEF IInv, LockHeld, SubTypeOK
<1>11. LastIsReturned'
  <2> HIDE DEF chained
  <2> QED
    BY <1>1, <1>2, <1>3, <1>6 DEF LastIsReturned, SubTypeOK
<1>12. TipIsHead' /\ RoomForOne'
  BY <1>1, <1>2, <1>3 DEF TipIsHead, RoomForOne, SubTypeOK
<1> QED
  BY <1>8, <1>9, <1>10, <1>11, <1>12 DEF IInv

\* Every step keeps the strengthened invariant.
LEMMA NextInvariant == IInv /\ [SubNext]_subVars => IInv'
<1> SUFFICES ASSUME IInv, [SubNext]_subVars PROVE IInv'
  OBVIOUS
<1> USE SubstrateAssumption
<1> USE DEF IInv, LockHeld, LastIsReturned, TipIsHead, RoomForOne, SeqIsPosition
<1>1. ASSUME NEW t \in Threads, Acquire(t) PROVE IInv'
  BY <1>1 DEF Acquire, SubTypeOK
<1>2. ASSUME NEW t \in Threads, Extend(t) PROVE IInv'
  BY <1>2, ExtendInvariant
<1>3. ASSUME NEW t \in Threads, Reject(t) PROVE IInv'
  BY <1>3 DEF Reject, SubTypeOK
<1>4. ASSUME NEW t \in Threads, SetTip(t) PROVE IInv'
  <2>1. /\ pc[t] = "extended" /\ lock = t /\ events # <<>> /\ ret[t] = events[Len(events)]
        /\ \A u \in Threads : u # t => pc[u] \notin {"locked", "extended"}
    BY <1>4 DEF SetTip
  <2>2. tip' = head_of(events)
    BY <1>4, <2>1 DEF SetTip, head_of
  <2>3. tip' \in ChainHead
    BY <2>2, HeadOfType DEF SubTypeOK
  <2> QED
    BY <1>4, <2>1, <2>2, <2>3 DEF SetTip, SubTypeOK
<1>5. ASSUME NEW t \in Threads, ReadTip(t) PROVE IInv'
  BY <1>5 DEF ReadTip, SubTypeOK
<1>6. ASSUME NEW t \in Threads, Refill(t) PROVE IInv'
  <2>1. heap' \in [Threads -> Contents]
    BY <1>6 DEF Refill, SubTypeOK, Contents
  <2> QED
    BY <1>6, <2>1 DEF Refill, SubTypeOK
<1>7. ASSUME NEW t \in Threads, Return(t) PROVE IInv'
  BY <1>7 DEF Return, SubTypeOK
<1>8. CASE UNCHANGED subVars
  BY <1>8 DEF subVars, SubTypeOK
<1> QED
  BY <1>1, <1>2, <1>3, <1>4, <1>5, <1>6, <1>7, <1>8 DEF SubNext, SubStep, AppendStep

THEOREM Invariance == SubSpec => []IInv
BY InitInvariant, NextInvariant, PTL DEF SubSpec

\* The type invariant of AttestSubstrate.
THEOREM TypeCorrect == SubSpec => []SubTypeOK
<1>1. IInv => SubTypeOK
  BY DEF IInv
<1> QED
  BY Invariance, <1>1, PTL

-----------------------------------------------------------------------------
(***************************************************************************)
(* The links of the chain.  What a payload dict holds may change at any    *)
(* time, so the hashes cannot be part of the invariant; seq and prev_hash  *)
(* can.                                                                    *)
(***************************************************************************)
PrevHash(i) == IF i = 1 THEN GENESIS_HASH ELSE events[i - 1].event_hash
Linked == \A i \in 1..Len(events) : events[i].prev_hash = PrevHash(i)

\* One more event, linked to the head of the list, keeps the list linked.
LEMMA ExtendedListLinked ==
    ASSUME IInv, Linked, NEW t \in Threads, Extend(t)
    PROVE  Linked'
<1> DEFINE chained == chain_extend(heap, tip, [id |-> nextId, obj |-> t])
<1>1. /\ pc[t] = "locked"
      /\ events' = Append(events, chained)
  BY DEF Extend, ExtendUnchecked
<1>2. SubTypeOK /\ tip = head_of(events)
  BY <1>1 DEF IInv, LockHeld, TipIsHead
<1>3. [id |-> nextId, obj |-> t] \in Event
  BY <1>2, SubstrateAssumption DEF Event, SubTypeOK
<1>4. chained.prev_hash = tip.event_hash
  BY <1>2, <1>3, ChainExtendType DEF SubTypeOK
<1>5. tip.event_hash = IF events = <<>> THEN GENESIS_HASH ELSE events[Len(events)].event_hash
  BY <1>2 DEF head_of, genesis_head
<1> HIDE DEF chained
<1>6. events \in Seq(ChainedEvent) /\ Len(events) \in Nat
  BY <1>2 DEF SubTypeOK
<1>7. Len(events') = Len(events) + 1 /\ events'[Len(events) + 1] = chained
  BY <1>1, <1>6
<1>8. \A i \in 1..Len(events) : events'[i] = events[i]
  BY <1>1, <1>6
<1>9. ASSUME NEW i \in 1..Len(events') PROVE events'[i].prev_hash = PrevHash(i)'
  <2>1. CASE i \in 1..Len(events)
    <3>1. events[i].prev_hash = PrevHash(i)
      BY <2>1 DEF Linked
    <3>2. events'[i] = events[i] /\ (i # 1 => events'[i - 1] = events[i - 1])
      BY <2>1, <1>6, <1>8
    <3> QED
      BY <3>1, <3>2 DEF PrevHash
  <2>2. CASE i = Len(events) + 1
    <3>1. events'[i] = chained /\ (i # 1 => events'[i - 1] = events[Len(events)])
      BY <2>2, <1>6, <1>7, <1>8
    <3>2. i = 1 <=> events = <<>>
      BY <2>2, <1>6
    <3> QED
      BY <3>1, <3>2, <1>4, <1>5 DEF PrevHash
  <2> QED
    BY <2>1, <2>2, <1>6, <1>7
<1> QED
  BY <1>9 DEF Linked

\* substrate.py append()/verify()/tip(): for any number of threads and events,
\* whoever gets the lock finds a tip that is the head of the list, and verify()
\* can stop only at an event whose payload was changed after it was appended.
THEOREM LinksNeverFail == SubSpec => []OnlyAlteredEventsFail
<1>1. SubInit => Linked
  BY DEF SubInit, Linked
<1>2. IInv /\ Linked /\ [SubNext]_subVars => Linked'
  <2> SUFFICES ASSUME IInv, Linked, [SubNext]_subVars PROVE Linked'
    OBVIOUS
  <2>1. ASSUME NEW t \in Threads, Extend(t) PROVE Linked'
    BY <2>1, ExtendedListLinked
  <2>2. ASSUME UNCHANGED events PROVE Linked'
    BY <2>2 DEF Linked, PrevHash
  <2> QED
    BY <2>1, <2>2
       DEF SubNext, SubStep, AppendStep, Acquire, Reject, SetTip, ReadTip, Refill, Return, subVars
<1>3. IInv /\ Linked => OnlyAlteredEventsFail
  <2> SUFFICES ASSUME IInv, Linked, lock = None PROVE
        /\ tip = head_of(events)
        /\ \A i \in 1..Len(events) :
              LinkFails(heap, events, i) => events[i].event_hash # hash_event(heap, events[i].event)
    BY DEF OnlyAlteredEventsFail
  <2>1. tip = head_of(events)
    BY SubstrateAssumption DEF IInv, LockHeld, TipIsHead
  <2>2. ASSUME NEW i \in 1..Len(events)
        PROVE  events[i].seq = i - 1 /\ events[i].prev_hash = PrevHash(i)
    BY <2>2 DEF IInv, SeqIsPosition, Linked
  <2> QED
    BY <2>1, <2>2 DEF LinkFails, PrevHash
<1> QED
  BY Invariance, <1>1, <1>2, <1>3, PTL DEF SubSpec

-----------------------------------------------------------------------------
\* What the list holds, an append leaves where it is.
LEMMA ExtendKeepsEvents ==
    ASSUME IInv, NEW t \in Threads, Extend(t)
    PROVE  /\ Len(events') = Len(events) + 1
           /\ \A i \in 1..Len(events) : i \in 1..Len(events') /\ events'[i] = events[i]
           /\ ret'[t] = events'[Len(events')]
           /\ \A u \in Threads \ {t} : ret'[u] = ret[u]
           /\ seen' = seen
<1> DEFINE chained == chain_extend(heap, tip, [id |-> nextId, obj |-> t])
<1>1. /\ events' = Append(events, chained)
      /\ ret' = [ret EXCEPT ![t] = chained]
      /\ seen' = seen
  BY DEF Extend, ExtendUnchecked
<1>2. events \in Seq(ChainedEvent) /\ Len(events) \in Nat /\ ret \in [Threads -> ChainedEvent \cup {None}]
  BY DEF IInv, SubTypeOK
<1> HIDE DEF chained
<1> QED
  BY <1>1, <1>2

\* substrate.py tip(): the head a caller once read stays on the chain.
THEOREM SeenHeadStays == SubSpec => []SeenHeadOnChain
<1>1. SubInit => SeenHeadOnChain
  BY DEF SubInit, SeenHeadOnChain
<1>2. IInv /\ SeenHeadOnChain /\ [SubNext]_subVars => SeenHeadOnChain'
  <2> SUFFICES ASSUME IInv, SeenHeadOnChain, [SubNext]_subVars PROVE SeenHeadOnChain'
    OBVIOUS
  <2>0. Len(events) \in Nat
    BY DEF IInv, SubTypeOK
  <2>1. ASSUME NEW t \in Threads, Extend(t) PROVE SeenHeadOnChain'
    BY <2>0, <2>1, ExtendKeepsEvents DEF SeenHeadOnChain
  <2>2. ASSUME NEW t \in Threads, ReadTip(t) PROVE SeenHeadOnChain'
    <3>1. tip = head_of(events)
      BY <2>2, SubstrateAssumption DEF ReadTip, IInv, LockHeld, TipIsHead
    <3>2. tip # genesis_head =>
             /\ tip.seq + 1 \in 1..Len(events)
             /\ events[tip.seq + 1].event_hash = tip.event_hash
      BY <2>0, <3>1 DEF head_of, IInv, SeqIsPosition, SubTypeOK
    <3>3. events' = events /\ seen' = [seen EXCEPT ![t] = tip] /\ seen \in [Threads -> ChainHead]
      BY <2>2 DEF ReadTip, IInv, SubTypeOK
    <3> QED
      BY <3>2, <3>3 DEF SeenHeadOnChain
  <2>3. ASSUME UNCHANGED <<events, seen>> PROVE SeenHeadOnChain'
    BY <2>3 DEF SeenHeadOnChain
  <2> QED
    BY <2>1, <2>2, <2>3
       DEF SubNext, SubStep, AppendStep, Acquire, Reject, SetTip, Refill, Return, subVars
<1> QED
  BY Invariance, <1>1, <1>2, PTL DEF SubSpec

\* substrate.py append(): a returned event is in the log at its seq, and it
\* was returned to one caller only.
THEOREM ReturnedStaysOnChain == SubSpec => []ReturnedEventsAreOnChain
<1>1. SubInit => ReturnedEventsAreOnChain
  BY DEF SubInit, ReturnedEventsAreOnChain
<1>2. IInv /\ ReturnedEventsAreOnChain /\ [SubNext]_subVars => ReturnedEventsAreOnChain'
  <2> SUFFICES ASSUME IInv, ReturnedEventsAreOnChain, [SubNext]_subVars
               PROVE ReturnedEventsAreOnChain'
    OBVIOUS
  <2>0. Len(events) \in Nat /\ ret \in [Threads -> ChainedEvent \cup {None}]
    BY DEF IInv, SubTypeOK
  <2>1. ASSUME NEW t \in Threads, Extend(t) PROVE ReturnedEventsAreOnChain'
    <3>1. IInv'
      BY <2>1, ExtendInvariant
    <3>2. ret'[t].seq + 1 = Len(events')
      <4>1. Len(events') = Len(events) + 1 /\ ret'[t] = events'[Len(events')]
        BY <2>1, ExtendKeepsEvents
      <4>2. events'[Len(events')].seq = Len(events') - 1
        BY <2>0, <3>1, <4>1 DEF IInv, SeqIsPosition
      <4> QED
        BY <2>0, <4>1, <4>2
    <3>3. \A u \in Threads \ {t} :
             ret[u] # None => /\ ret'[u].seq + 1 \in 1..Len(events)
                              /\ events'[ret'[u].seq + 1] = ret'[u]
                              /\ ret'[u] # ret'[t]
      BY <2>0, <2>1, <3>2, ExtendKeepsEvents DEF ReturnedEventsAreOnChain
    <3> QED
      BY <2>0, <2>1, <3>2, <3>3, ExtendKeepsEvents DEF ReturnedEventsAreOnChain
  <2>2. ASSUME NEW t \in Threads, Return(t) PROVE ReturnedEventsAreOnChain'
    BY <2>0, <2>2 DEF Return, ReturnedEventsAreOnChain
  <2>3. ASSUME UNCHANGED <<events, ret>> PROVE ReturnedEventsAreOnChain'
    BY <2>3 DEF ReturnedEventsAreOnChain
  <2> QED
    BY <2>1, <2>2, <2>3
       DEF SubNext, SubStep, AppendStep, Acquire, Reject, SetTip, ReadTip, Refill, subVars
<1> QED
  BY Invariance, <1>1, <1>2, PTL DEF SubSpec

-----------------------------------------------------------------------------
(***************************************************************************)
(* The durable use: lines, pieces and files.                               *)
(***************************************************************************)
LineType == [ev : ChainedEvent, form : {"whole", "partial", "mixed", "spoiled"}]
PieceType == [ev : ChainedEvent, part : {"whole", "rest"}]
RawType == [ev : ChainedEvent, part : {"whole", "head", "rest"}]

Finished(line) == line.form \in {"whole", "spoiled"}

\* Every line of f that has its newline is a line of g.
Extends(g, f) == Len(f) <= Len(g) /\ \A i \in 1..Len(f) : Finished(f[i]) => g[i] = f[i]

\* Among the first n lines e is there, or the file will be refused.
Covered(f, e, n) == \E i \in 1..n : f[i] = Line(e, "whole") \/ f[i].form = "spoiled"

-----------------------------------------------------------------------------
\* Short sequences.
LEMMA NothingLeft == ASSUME NEW S, NEW s \in Seq(S), Len(s) = 0 PROVE s = <<>>
OBVIOUS

LEMMA OneLeft == ASSUME NEW x PROVE Len(<<x>>) = 1 /\ <<x>> # <<>> /\ <<x>>[1] = x
OBVIOUS

LEMMA ConcatNothing == ASSUME NEW x PROVE <<x>> \o <<>> = <<x>>
OBVIOUS

LEMMA SameSequence ==
    ASSUME NEW S, NEW s \in Seq(S), NEW r \in Seq(S), Len(s) = Len(r), \A i \in 1..Len(r) : s[i] = r[i]
    PROVE  s = r
OBVIOUS

LEMMA LastOfTail ==
    ASSUME NEW S, NEW s \in Seq(S), s # <<>>, Len(s) # 1
    PROVE  /\ Tail(s) \in Seq(S) /\ Len(Tail(s)) = Len(s) - 1
           /\ Tail(s)[Len(s) - 1] = s[Len(s)]
<1>1. /\ Tail(s) \in Seq(S) /\ Len(Tail(s)) = Len(s) - 1
      /\ \A i \in 1..(Len(s) - 1) : Tail(s)[i] = s[i + 1]
  OBVIOUS
<1>2. Len(s) \in Nat /\ Len(s) # 0
  BY NothingLeft
<1>3. \A n \in Nat : n # 0 /\ n # 1 => n - 1 \in 1..(n - 1) /\ (n - 1) + 1 = n
  OBVIOUS
<1> QED
  BY <1>1, <1>2, <1>3

\* The rest of a line fits its head, or spoils the line.
LEMMA LongerLine ==
    ASSUME NEW line \in LineType, NEW p \in RawType
    PROVE  /\ Longer(line, p) \in LineType
           /\ Longer(line, p).ev = line.ev
           /\ p.part # "head" => Longer(line, p) = Line(p.ev, "whole") \/ Longer(line, p).form = "spoiled"
           /\ p.part # "head" => Finished(Longer(line, p))
<1>1. CASE p.part = "head"
  BY <1>1 DEF Longer, LineType, RawType
<1>2. CASE p.part # "head" /\ line = Line(p.ev, "partial") /\ p.part = "rest"
  BY <1>2 DEF Longer, LineType, RawType, Line, Finished
<1>3. CASE p.part # "head" /\ ~(line = Line(p.ev, "partial") /\ p.part = "rest")
  BY <1>3 DEF Longer, LineType, RawType, Line, Finished
<1> QED
  BY <1>1, <1>2, <1>3

LEMMA NewLineType ==
    ASSUME NEW p \in RawType
    PROVE  /\ NewLine(p) \in LineType /\ NewLine(p).ev = p.ev
           /\ p.part # "head" => NewLine(p) = Line(p.ev, "whole") \/ NewLine(p).form = "spoiled"
           /\ p.part = "whole" => NewLine(p) = Line(p.ev, "whole")
           /\ p.part = "head" => NewLine(p) = Line(p.ev, "partial")
BY DEF NewLine, LineType, RawType, Line

LEMMA WriteExtends ==
    ASSUME NEW f \in Seq(LineType), NEW p \in RawType
    PROVE  /\ Write(f, p) \in Seq(LineType) /\ Extends(Write(f, p), f)
           /\ p.part # "head" => Covered(Write(f, p), p.ev, Len(Write(f, p)))
<1>1. CASE PartialTrailingLine(f)
  <2> DEFINE n == Len(f)
             l == Longer(f[n], p)
  <2>1. n \in Nat \ {0} /\ f[n] \in LineType /\ ~Finished(f[n])
    BY <1>1 DEF PartialTrailingLine, Finished
  <2>2. l \in LineType /\ (p.part # "head" => l = Line(p.ev, "whole") \/ l.form = "spoiled")
    BY <2>1, LongerLine
  <2>3. Write(f, p) = [f EXCEPT ![n] = l]
    BY <1>1 DEF Write
  <2> HIDE DEF l
  <2>4. /\ Write(f, p) \in Seq(LineType) /\ Len(Write(f, p)) = n
        /\ Write(f, p)[n] = l /\ \A i \in 1..n : i # n => Write(f, p)[i] = f[i]
    BY <2>1, <2>2, <2>3
  <2> QED
    BY <2>1, <2>2, <2>4 DEF Extends, Covered
<1>2. CASE ~PartialTrailingLine(f)
  <2> DEFINE l == NewLine(p)
  <2>1. l \in LineType /\ (p.part # "head" => l = Line(p.ev, "whole") \/ l.form = "spoiled")
    BY NewLineType
  <2>2. Write(f, p) = Append(f, l)
    BY <1>2 DEF Write
  <2> HIDE DEF l
  <2>3. /\ Write(f, p) \in Seq(LineType) /\ Len(Write(f, p)) = Len(f) + 1 /\ Len(f) \in Nat
        /\ Write(f, p)[Len(f) + 1] = l /\ \A i \in 1..Len(f) : Write(f, p)[i] = f[i]
    BY <2>1, <2>2
  <2> QED
    BY <2>1, <2>3 DEF Extends, Covered
<1> QED
  BY <1>1, <1>2

LEMMA WriteAllExtends ==
    ASSUME NEW f \in Seq(LineType), NEW ps \in Seq(RawType)
    PROVE  WriteAll(f, ps) \in Seq(LineType) /\ Extends(WriteAll(f, ps), f)
<1>1. CASE ps = <<>>
  BY <1>1 DEF WriteAll, Extends
<1>2. CASE ps # <<>>
  <2> DEFINE g == Write(f, Head(ps))
             more == [k \in 1..(Len(ps) - 1) |-> NewLine(ps[k + 1])]
  <2>1. Head(ps) \in RawType /\ Len(ps) \in Nat \ {0}
    BY <1>2
  <2>2. g \in Seq(LineType) /\ Extends(g, f)
    BY <2>1, WriteExtends
  <2>3. more \in Seq(LineType)
    <3>1. \A k \in 1..(Len(ps) - 1) : NewLine(ps[k + 1]) \in LineType
      BY <2>1, NewLineType
    <3>2. Len(ps) - 1 \in Nat
      BY <2>1
    <3> QED
      BY <3>1, <3>2
  <2>4. WriteAll(f, ps) = g \o more
    BY <1>2 DEF WriteAll
  <2> HIDE DEF g, more
  <2>5. /\ g \o more \in Seq(LineType) /\ Len(g) <= Len(g \o more)
        /\ \A i \in 1..Len(g) : (g \o more)[i] = g[i]
    BY <2>2, <2>3
  <2> QED
    BY <2>2, <2>4, <2>5 DEF Extends
<1> QED
  BY <1>1, <1>2

LEMMA CutsAreRaw ==
    ASSUME NEW ps \in Seq(PieceType), NEW cut \in Cuts(ps) \cup {ps}
    PROVE  cut \in Seq(RawType)
<1>1. ps \in Seq(RawType)
  <2>1. PieceType \subseteq RawType
    BY DEF PieceType, RawType
  <2>2. \A i \in 1..Len(ps) : ps[i] \in RawType
    BY <2>1
  <2> QED
    BY <2>2
<1>2. \A k \in 0..Len(ps) : SubSeq(ps, 1, k) \in Seq(RawType)
  BY <1>1
<1>3. \A k \in 0..(Len(ps) - 1) : Piece(ps[k + 1].ev, "head") \in RawType
  <2> SUFFICES ASSUME NEW k \in 0..(Len(ps) - 1) PROVE ps[k + 1] \in PieceType
    BY DEF PieceType, RawType, Piece
  <2> QED
    OBVIOUS
<1>4. CASE cut \in {SubSeq(ps, 1, k) : k \in 0..Len(ps)} \cup {ps}
  BY <1>1, <1>2, <1>4
<1>5. ASSUME NEW k \in 0..(Len(ps) - 1), cut = Append(SubSeq(ps, 1, k), Piece(ps[k + 1].ev, "head"))
      PROVE  cut \in Seq(RawType)
  <2>1. k \in 0..Len(ps)
    BY <1>5
  <2> QED
    BY <1>2, <1>3, <1>5, <2>1
<1> QED
  BY <1>4, <1>5 DEF Cuts

LEMMA CutFilesKeep ==
    ASSUME NEW f \in Seq(LineType), NEW n \in 0..Len(f), NEW g \in CutFiles(f, n)
    PROVE  /\ g \in Seq(LineType) /\ n <= Len(g) /\ \A i \in 1..n : g[i] = f[i]
           /\ \E k \in n..Len(f) :
                 \/ Len(g) = k /\ \A i \in 1..k : g[i] = f[i]
                 \/ /\ k < Len(f) /\ Len(g) = k + 1 /\ \A i \in 1..k : g[i] = f[i]
                    /\ g[k + 1] = Line(f[k + 1].ev, "partial")
<1>1. ASSUME NEW k \in n..Len(f), g = SubSeq(f, 1, k)
      PROVE  g \in Seq(LineType) /\ Len(g) = k /\ \A i \in 1..k : g[i] = f[i]
  BY <1>1
<1>2. ASSUME NEW k \in n..(Len(f) - 1), g = Append(SubSeq(f, 1, k), Line(f[k + 1].ev, "partial"))
      PROVE  /\ g \in Seq(LineType) /\ Len(g) = k + 1 /\ \A i \in 1..k : g[i] = f[i]
             /\ g[k + 1] = Line(f[k + 1].ev, "partial") /\ k < Len(f)
  <2> DEFINE h == SubSeq(f, 1, k)
             l == Line(f[k + 1].ev, "partial")
  <2>1. h \in Seq(LineType) /\ Len(h) = k /\ \A i \in 1..k : h[i] = f[i]
    BY <1>2
  <2>2. l \in LineType
    <3>1. k + 1 \in 1..Len(f)
      BY <1>2
    <3>2. f[k + 1] \in LineType
      BY <3>1
    <3> QED
      BY <3>2 DEF Line, LineType
  <2>3. g = Append(h, l) /\ k \in Nat /\ k < Len(f)
    BY <1>2
  <2> HIDE DEF h, l
  <2>4. g \in Seq(LineType) /\ Len(g) = k + 1 /\ (\A i \in 1..k : g[i] = f[i]) /\ g[k + 1] = l
    BY <2>1, <2>2, <2>3
  <2> QED
    BY <2>3, <2>4 DEF l
<1> QED
  BY <1>1, <1>2 DEF CutFiles

LEMMA CoveredStays ==
    ASSUME NEW f \in Seq(LineType), NEW g \in Seq(LineType), NEW e, NEW n \in 0..Len(f), NEW m \in n..Len(g),
           \A i \in 1..n : Finished(f[i]) => g[i] = f[i], Covered(f, e, n)
    PROVE  Covered(g, e, m)
<1>1. PICK i \in 1..n : f[i] = Line(e, "whole") \/ f[i].form = "spoiled"
  BY DEF Covered
<1>2. g[i] = f[i]
  BY <1>1 DEF Line, Finished
<1> QED
  BY <1>1, <1>2 DEF Covered

-----------------------------------------------------------------------------
(***************************************************************************)
(* The scan: GoodLines is the number of lines before the first one that is *)
(* not whole, so the scan of a file that is complete has all of them.      *)
(***************************************************************************)
LEMMA GoodLinesAre ==
    ASSUME NEW f \in Seq(LineType), NEW n \in 0..Len(f), \A i \in 1..n : f[i].form = "whole",
           n = Len(f) \/ f[n + 1].form # "whole"
    PROVE  GoodLines(f) = n /\ ScanEvents(f) = [k \in 1..n |-> f[k].ev]
<1> DEFINE S == {m \in 0..Len(f) : \A i \in 1..m : f[i].form = "whole"}
<1>1. n \in S
  OBVIOUS
<1>2. ASSUME NEW m \in S PROVE n >= m
  <2> SUFFICES ASSUME m > n PROVE FALSE
    BY <1>2
  <2>1. n + 1 \in 1..m /\ n # Len(f)
    BY <1>2
  <2> QED
    BY <1>2, <2>1
<1>3. \A m \in S : m \in Int
  OBVIOUS
<1>4. Max(S) = n
  <2>1. Max(S) \in S /\ \A y \in S : Max(S) >= y
    BY <1>1, <1>2 DEF Max
  <2> QED
    BY <1>1, <1>2, <1>3, <2>1
<1>5. GoodLines(f) = n
  BY <1>4 DEF GoodLines
<1> QED
  BY <1>5 DEF ScanEvents

LEMMA CompleteScan ==
    ASSUME NEW f \in Seq(LineType), ScanComplete(f)
    PROVE  /\ ScanEvents(f) \in Seq(ChainedEvent) /\ Len(ScanEvents(f)) = Len(f)
           /\ \A i \in 1..Len(f) : ScanEvents(f)[i] = f[i].ev
<1>1. ScanEvents(f) = [k \in 1..Len(f) |-> f[k].ev] /\ Len(f) \in Nat
  BY GoodLinesAre DEF ScanComplete
<1>2. \A i \in 1..Len(f) : f[i].ev \in ChainedEvent
  <2>1. \A i \in 1..Len(f) : f[i] \in LineType
    OBVIOUS
  <2> QED
    BY <2>1 DEF LineType
<1> QED
  BY <1>1, <1>2

-----------------------------------------------------------------------------
(***************************************************************************)
(* The substrate in a process that may die.  Its own invariant and links   *)
(* hold as in SubstrateProofs; here nobody changes a payload dict, so the  *)
(* hashes hold as well and verify_chain() accepts the chain at any time.   *)
(***************************************************************************)
HashesHold == \A i \in 1..Len(events) : events[i].event_hash = hash_event(heap, events[i].event)

InPlace(e) == e.seq + 1 \in 1..Len(events) /\ events[e.seq + 1] = e

ReturnedInPlace == \A t \in Threads : pc[t] \in {"extended", "returned"} => ret[t] \in ChainedEvent /\ InPlace(ret[t])

LogInv == IInv /\ Linked /\ HashesHold /\ ReturnedInPlace

\* What the backend has in hand, and nothing more about the events in it.
StoreTyped ==
    /\ file \in Seq(LineType)
    /\ pending \in Seq(PieceType)
    /\ synced \in 0..Len(file)
    /\ slock \in Threads \cup {Nobody}
    /\ wpc \in [Threads -> {"idle", "flush", "fsync", "done", "failed"}]
    /\ arg \in [Threads -> ChainedEvent \cup {Nobody}]
    /\ acked \subseteq ChainedEvent
    /\ up \in {"up", "down", "refused"}
    /\ writer \in Threads \cup {None}

\* The lock is held through a write, and an event is stored as it was returned.
OneStores == \A t \in Threads : wpc[t] \in {"flush", "fsync"} <=> slock = t
StoresReturned == \A t \in Threads : wpc[t] # "idle" => pc[t] = "returned" /\ arg[t] = ret[t]
NothingRuns ==
    up # "up" =>
        /\ lock = None /\ slock = Nobody /\ pending = <<>>
        /\ \A t \in Threads : pc[t] = "idle" /\ wpc[t] = "idle"

StoreInv == StoreTyped /\ OneStores /\ StoresReturned /\ NothingRuns

LEMMA VerifiedChain ==
    ASSUME NEW chain, verify_chain(heap, chain)
    PROVE  \A i \in 1..Len(chain) :
              /\ chain[i].seq = i - 1
              /\ chain[i].prev_hash = IF i = 1 THEN GENESIS_HASH ELSE chain[i - 1].event_hash
              /\ chain[i].event_hash = hash_event(heap, chain[i].event)
BY DEF verify_chain, LinkFails

LEMMA ChainVerifies == ASSUME LogInv PROVE verify_chain(heap, events)
BY DEF LogInv, IInv, SeqIsPosition, Linked, PrevHash, HashesHold, verify_chain, LinkFails

LEMMA InitLog == Init => LogInv /\ StoreInv
<1> SUFFICES ASSUME Init PROVE LogInv /\ StoreInv
  OBVIOUS
<1>1. IInv
  BY InitInvariant DEF Init
<1>2. Linked /\ HashesHold /\ ReturnedInPlace
  BY DEF Init, SubInit, Linked, HashesHold, ReturnedInPlace
<1>3. StoreInv
  BY DurableLogAssumption, JsonlAssumption
     DEF Init, SubInit, StoreInit, StoreInv, StoreTyped, OneStores, StoresReturned, NothingRuns
<1> QED
  BY <1>1, <1>2, <1>3 DEF LogInv

\* append(), as far as the substrate is concerned.
LEMMA LogKeeps ==
    ASSUME LogInv, NEW t \in Threads, AppendStep(t) \/ Return(t)
    PROVE  LogInv' /\ \A e \in ChainedEvent : InPlace(e) => InPlace(e)'
<1>1. IInv'
  BY NextInvariant DEF LogInv, SubNext, SubStep
<1>2. CASE Extend(t)
  <2>1. IInv /\ Linked /\ Len(events) \in Nat
    BY DEF LogInv, IInv, SubTypeOK
  <2>2. /\ Len(events') = Len(events) + 1
        /\ \A i \in 1..Len(events) : i \in 1..Len(events') /\ events'[i] = events[i]
        /\ ret'[t] = events'[Len(events')]
        /\ \A u \in Threads \ {t} : ret'[u] = ret[u]
    BY <1>2, <2>1, ExtendKeepsEvents
  <2>3. Linked'
    BY <1>2, <2>1, ExtendedListLinked
  <2>4. \A e \in ChainedEvent : InPlace(e) => InPlace(e)'
    BY <2>1, <2>2 DEF InPlace
  <2>5. heap' = heap /\ pc' = [pc EXCEPT ![t] = "extended"]
    BY <1>2 DEF Extend, ExtendUnchecked
  <2>6. HashesHold'
    <3> DEFINE e == [id |-> nextId, obj |-> t]
    <3>1. events' = Append(events, chain_extend(heap, tip, e)) /\ events \in Seq(ChainedEvent)
      BY <1>2, <2>1 DEF Extend, ExtendUnchecked, IInv, SubTypeOK
    <3>2. events'[Len(events')] = chain_extend(heap, tip, e)
      BY <2>1, <2>2, <3>1
    <3>3. events'[Len(events')].event_hash = hash_event(heap, events'[Len(events')].event)
      BY <3>2 DEF chain_extend
    <3>4. ASSUME NEW i \in 1..Len(events') PROVE i \in 1..Len(events) \/ i = Len(events')
      BY <2>1, <2>2
    <3> QED
      BY <2>2, <2>5, <3>3, <3>4 DEF LogInv, HashesHold, hash_event
  <2>7. ReturnedInPlace'
    <3>1. events' \in Seq(ChainedEvent) /\ pc \in [Threads -> {"idle", "locked", "extended", "returned"}]
      BY <1>1, <2>1 DEF IInv, SubTypeOK
    <3>2. ret'[t] \in ChainedEvent /\ ret'[t].seq + 1 = Len(events')
      BY <1>1, <2>1, <2>2, <3>1 DEF IInv, SeqIsPosition
    <3> QED
      BY <2>1, <2>2, <2>4, <2>5, <3>1, <3>2 DEF LogInv, ReturnedInPlace, InPlace
  <2> QED
    BY <1>1, <2>3, <2>4, <2>6, <2>7 DEF LogInv
<1>3. CASE Acquire(t) \/ Reject(t) \/ SetTip(t) \/ Return(t)
  <2>1. UNCHANGED <<events, heap>>
    BY <1>3 DEF Acquire, Reject, SetTip, Return
  <2>2. /\ pc \in [Threads -> {"idle", "locked", "extended", "returned"}]
        /\ ret \in [Threads -> ChainedEvent \cup {None}]
    BY DEF LogInv, IInv, SubTypeOK
  <2>3. \A u \in Threads : pc'[u] \in {"extended", "returned"} => pc[u] \in {"extended", "returned"} /\ ret'[u] = ret[u]
    BY <1>3, <2>2 DEF Acquire, Reject, SetTip, Return
  <2> QED
    BY <1>1, <2>1, <2>3 DEF LogInv, Linked, PrevHash, HashesHold, ReturnedInPlace, InPlace
<1> QED
  BY <1>2, <1>3 DEF AppendStep

-----------------------------------------------------------------------------
\* The new process has the chain it has read, or no chain at all.
LEMMA RestartKeepsLog == ASSUME LogInv, StoreInv, Restart PROVE LogInv'
<1>1. /\ UNCHANGED <<lock, pc, ret, seen, heap, nextId>>
      /\ up = "down" /\ lock = None /\ \A t \in Threads : pc[t] = "idle"
  BY DEF Restart, StoreInv, NothingRuns
<1>2. CASE UNCHANGED <<events, tip>>
  BY <1>1, <1>2 DEF LogInv, IInv, SubTypeOK, LockHeld, LastIsReturned, TipIsHead, RoomForOne, SeqIsPosition,
     Linked, PrevHash, HashesHold, ReturnedInPlace, InPlace
<1>3. CASE ScanComplete(file) /\ from_events_accepts(ScanEvents(file))
  <2> DEFINE chain == ScanEvents(file)
  <2>1. events' = chain /\ tip' = head_of(chain)
    BY <1>3 DEF Restart
  <2>2. chain \in Seq(ChainedEvent) /\ verify_chain(heap, chain)
    BY <1>3, CompleteScan DEF StoreInv, StoreTyped, from_events_accepts
  <2>3. head_of(chain) \in ChainHead
    BY <2>2, HeadOfType
  <2> HIDE DEF chain
  <2>4. SubTypeOK'
    BY <1>1, <2>1, <2>2, <2>3 DEF LogInv, IInv, SubTypeOK
  <2>5. LockHeld' /\ LastIsReturned' /\ TipIsHead' /\ RoomForOne' /\ ReturnedInPlace'
    BY <1>1, <2>1 DEF LogInv, IInv, LockHeld, LastIsReturned, TipIsHead, RoomForOne, ReturnedInPlace
  <2>6. SeqIsPosition' /\ Linked' /\ HashesHold'
    BY <1>1, <2>1, <2>2, VerifiedChain DEF SeqIsPosition, Linked, PrevHash, HashesHold
  <2> QED
    BY <2>4, <2>5, <2>6 DEF LogInv, IInv
<1> QED
  BY <1>2, <1>3 DEF Restart

LEMMA LoseMemoryKeepsLog == ASSUME LogInv, LoseMemory PROVE LogInv'
<1>1. /\ events' = <<>> /\ tip' = genesis_head /\ lock' = None
      /\ pc' = [t \in Threads |-> "idle"] /\ ret' = [t \in Threads |-> None]
      /\ seen' = [t \in Threads |-> genesis_head] /\ UNCHANGED <<heap, nextId>>
  BY DEF LoseMemory
<1>2. genesis_head \in ChainHead /\ head_of(<<>>) = genesis_head
  BY DEF ChainHead, Digest, genesis_head, head_of
<1>3. SubTypeOK'
  BY <1>1, <1>2 DEF LogInv, IInv, SubTypeOK
<1>4. LockHeld' /\ LastIsReturned' /\ TipIsHead' /\ RoomForOne' /\ SeqIsPosition'
  BY <1>1, <1>2, SubstrateAssumption DEF LockHeld, LastIsReturned, TipIsHead, RoomForOne, SeqIsPosition
<1>5. Linked' /\ HashesHold' /\ ReturnedInPlace'
  BY <1>1 DEF Linked, HashesHold, ReturnedInPlace
<1> QED
  BY <1>3, <1>4, <1>5 DEF LogInv, IInv

LEMMA SameLog == ASSUME LogInv, UNCHANGED subVars PROVE LogInv'
<1>1. IInv'
  BY NextInvariant DEF LogInv
<1> QED
  BY <1>1 DEF subVars, LogInv, Linked, PrevHash, HashesHold, ReturnedInPlace, InPlace

LEMMA NextLog == LogInv /\ StoreInv /\ [Next]_vars => LogInv'
<1> SUFFICES ASSUME LogInv, StoreInv, [Next]_vars PROVE LogInv'
  OBVIOUS
<1>1. ASSUME NEW t \in Threads, Log(t) \/ GoOn(t) PROVE LogInv'
  BY <1>1, LogKeeps DEF Log, GoOn
<1>2. ASSUME UNCHANGED subVars PROVE LogInv'
  BY <1>2, SameLog
<1>3. CASE Restart
  BY <1>3, RestartKeepsLog
<1>4. CASE LoseMemory
  BY <1>4, LoseMemoryKeepsLog
<1>5. CASE Running
  <2>1. CASE CloseStorage
    BY <1>2, <2>1 DEF CloseStorage
  <2>2. CASE \E t \in Threads : Log(t) \/ StoreBegin(t) \/ Store(t) \/ GoOn(t)
    BY <1>1, <1>2, <2>2 DEF StoreBegin, Store
  <2> QED
    BY <1>5, <2>1, <2>2 DEF Running, alone, StoreInv, StoreTyped
<1> QED
  BY <1>2, <1>3, <1>4, <1>5 DEF Next, Fault, Crash, PowerLoss, Retry, vars

-----------------------------------------------------------------------------
(***************************************************************************)
(* The backend.  Each step of append() keeps its part of the invariant.    *)
(***************************************************************************)
LEMMA RawWriteKeeps ==
    ASSUME StoreTyped, NEW t \in Threads, RawWrite(t)
    PROVE  /\ file' \in Seq(LineType) /\ pending' \in Seq(PieceType) /\ Extends(file', file)
           /\ Len(file) \in Nat /\ Len(file') \in Nat
<1>1. /\ file \in Seq(LineType) /\ pending \in Seq(PieceType) /\ pending # <<>>
  BY DEF StoreTyped, RawWrite
<1>2. Head(pending) \in PieceType /\ Tail(pending) \in Seq(PieceType)
  BY <1>1
<1>3. Head(pending) \in RawType /\ Piece(Head(pending).ev, "head") \in RawType
  BY <1>2 DEF PieceType, RawType, Piece
<1>4. CASE file' = Write(file, Head(pending)) /\ pending' = Tail(pending)
  <2>1. file' \in Seq(LineType) /\ Extends(file', file)
    BY <1>1, <1>3, <1>4, WriteExtends
  <2> QED
    BY <1>1, <1>2, <1>4, <2>1
<1>5. CASE /\ file' = Write(file, Piece(Head(pending).ev, "head"))
           /\ pending' = <<Piece(Head(pending).ev, "rest")>> \o Tail(pending)
  <2>1. <<Piece(Head(pending).ev, "rest")>> \in Seq(PieceType)
    BY <1>2 DEF Piece, PieceType
  <2>2. pending' \in Seq(PieceType)
    BY <1>2, <1>5, <2>1
  <2>3. file' \in Seq(LineType) /\ Extends(file', file)
    BY <1>1, <1>3, <1>5, WriteExtends
  <2> QED
    BY <1>1, <2>2, <2>3
<1> QED
  BY <1>4, <1>5 DEF RawWrite

LEMMA CloseKeeps ==
    ASSUME StoreTyped, Close
    PROVE  /\ file' \in Seq(LineType) /\ pending' = <<>> /\ Extends(file', file)
           /\ Len(file) \in Nat /\ Len(file') \in Nat
<1>1. PICK cut \in Cuts(pending) \cup {pending} : file' = WriteAll(file, cut)
  BY DEF Close
<1>2. cut \in Seq(RawType)
  BY <1>1, CutsAreRaw DEF StoreTyped
<1> QED
  BY <1>1, <1>2, WriteAllExtends DEF Close, StoreTyped

\* A power loss keeps a file, and everything an fsync has covered.
LEMMA PowerLossKeeps ==
    ASSUME StoreTyped, PowerLoss
    PROVE  /\ file' \in Seq(LineType) /\ synced' = Len(file') /\ Len(file') \in Nat
           /\ synced <= Len(file') /\ \A i \in 1..synced : file'[i] = file[i]
BY CutFilesKeep DEF StoreTyped, PowerLoss

LEMMA StoreKeeps ==
    ASSUME LogInv, StoreInv, NEW t \in Threads, WriteStep(t) \/ (pc[t] = "returned" /\ WriteBegin(t, ret[t])),
           subVars' = subVars, up' = up, writer' = writer,
           acked' = acked \/ (acked' = acked \cup {arg[t]} /\ slock = t)
    PROVE  StoreInv'
<1>1. StoreTyped /\ OneStores /\ StoresReturned /\ NothingRuns
  BY DEF StoreInv
<1>2. /\ UNCHANGED <<pc, ret, lock, up, writer>> /\ Writers = Threads /\ Nobody \notin Threads
      /\ wpc \in [Threads -> {"idle", "flush", "fsync", "done", "failed"}]
      /\ arg \in [Threads -> ChainedEvent \cup {Nobody}]
  BY <1>1, DurableLogAssumption, JsonlAssumption DEF subVars, StoreTyped
<1>3. ASSUME pc[t] = "returned" PROVE ret[t] \in ChainedEvent
  BY <1>3 DEF LogInv, ReturnedInPlace
<1>4. acked' \subseteq ChainedEvent
  <2>1. slock = t => arg[t] \in ChainedEvent
    BY <1>1, <1>3 DEF OneStores, StoresReturned
  <2> QED
    BY <1>1, <2>1 DEF StoreTyped
<1>5. /\ file' \in Seq(LineType) /\ pending' \in Seq(PieceType) /\ synced' \in 0..Len(file')
  <2>1. CASE RawWrite(t)
    BY <1>1, <2>1, RawWriteKeeps DEF StoreTyped, RawWrite, Extends
  <2>2. CASE WriteBegin(t, ret[t]) /\ pc[t] = "returned"
    <3>1. Piece(ret[t], "whole") \in PieceType /\ pending \in Seq(PieceType)
      BY <1>1, <1>3, <2>2 DEF StoreTyped, Piece, PieceType
    <3>2. pending' = Append(pending, Piece(ret[t], "whole"))
      BY <2>2 DEF WriteBegin
    <3>3. pending' \in Seq(PieceType)
      BY <3>1, <3>2
    <3> QED
      BY <1>1, <2>2, <3>3 DEF StoreTyped, WriteBegin
  <2>3. CASE FlushFails(t)
    <3>1. pending \in Seq(PieceType) /\ pending # <<>>
      BY <1>1, <2>3 DEF StoreTyped, FlushFails
    <3>2. Front(pending) \in Seq(PieceType)
      BY <3>1 DEF Front
    <3> QED
      BY <1>1, <2>3, <3>1, <3>2 DEF StoreTyped, FlushFails
  <2>4. CASE Fsync(t)
    BY <1>1, <2>4 DEF StoreTyped, Fsync
  <2>5. CASE FlushDone(t) \/ FsyncFails(t)
    BY <1>1, <2>5 DEF StoreTyped, FlushDone, FsyncFails
  <2> QED
    BY <2>1, <2>2, <2>3, <2>4, <2>5 DEF WriteStep
<1>6. /\ slock' \in Threads \cup {Nobody}
      /\ wpc' \in [Threads -> {"idle", "flush", "fsync", "done", "failed"}]
      /\ arg' \in [Threads -> ChainedEvent \cup {Nobody}]
  BY <1>1, <1>2, <1>3 DEF StoreTyped, WriteStep, WriteBegin, RawWrite, FlushDone, FlushFails, Fsync, FsyncFails
<1>7. StoreTyped'
  BY <1>1, <1>2, <1>4, <1>5, <1>6 DEF StoreTyped
<1>8. OneStores'
  BY <1>1, <1>2 DEF OneStores, WriteStep, WriteBegin, RawWrite, FlushDone, FlushFails, Fsync, FsyncFails
<1>9. StoresReturned'
  BY <1>1, <1>2 DEF StoresReturned, WriteStep, WriteBegin, RawWrite, FlushDone, FlushFails, Fsync, FsyncFails
<1>10. NothingRuns'
  BY <1>1, <1>2 DEF NothingRuns, WriteStep, WriteBegin, RawWrite, FlushDone, FlushFails, Fsync, FsyncFails
<1> QED
  BY <1>7, <1>8, <1>9, <1>10 DEF StoreInv

LEMMA NextStore == LogInv /\ StoreInv /\ [Next]_vars => StoreInv'
<1> SUFFICES ASSUME LogInv, StoreInv, [Next]_vars PROVE StoreInv'
  OBVIOUS
<1>0. /\ StoreTyped /\ OneStores /\ StoresReturned /\ NothingRuns
      /\ Writers = Threads /\ Nobody \notin Threads
      /\ wpc \in [Threads -> {"idle", "flush", "fsync", "done", "failed"}]
      /\ arg \in [Threads -> ChainedEvent \cup {Nobody}]
      /\ pc \in [Threads -> {"idle", "locked", "extended", "returned"}]
      /\ ret \in [Threads -> ChainedEvent \cup {None}]
  BY DurableLogAssumption, JsonlAssumption DEF StoreInv, StoreTyped, LogInv, IInv, SubTypeOK
<1>1. ASSUME NEW t \in Threads, Log(t), UNCHANGED <<up, writer>>, up = "up" PROVE StoreInv'
  <2>1. UNCHANGED <<file, synced, pending, slock, wpc, arg, acked>>
    BY <1>1 DEF Log, storeVars
  <2>2. \A u \in Threads : pc[u] = "returned" => pc'[u] = "returned" /\ ret'[u] = ret[u]
    BY <1>0, <1>1 DEF Log, AppendStep, Acquire, Extend, ExtendUnchecked, Reject, SetTip
  <2> QED
    BY <1>0, <1>1, <2>1, <2>2 DEF StoreInv, StoreTyped, OneStores, StoresReturned, NothingRuns
<1>2. ASSUME NEW t \in Threads, StoreBegin(t), UNCHANGED <<up, writer>> PROVE StoreInv'
  <2>1. subVars' = subVars /\ up' = up /\ writer' = writer /\ acked' = acked
        /\ pc[t] = "returned" /\ WriteBegin(t, ret[t])
    BY <1>2 DEF StoreBegin
  <2> QED
    BY <2>1, StoreKeeps
<1>3. ASSUME NEW t \in Threads, Store(t), UNCHANGED <<up, writer>> PROVE StoreInv'
  <2>1. wpc'[t] = "done" => slock = t
    BY <1>0, <1>3 DEF Store, WriteStep, RawWrite, FlushDone, FlushFails, Fsync, FsyncFails, OneStores
  <2> QED
    <3>1. /\ subVars' = subVars /\ up' = up /\ writer' = writer /\ WriteStep(t)
          /\ acked' = acked \/ (acked' = acked \cup {arg[t]} /\ slock = t)
      BY <1>3, <2>1 DEF Store
    <3> QED
      BY <3>1, StoreKeeps
<1>4. ASSUME NEW t \in Threads, GoOn(t) \/ Retry(t), UNCHANGED <<up, writer>>, up = "up" PROVE StoreInv'
  <2>1. /\ UNCHANGED <<file, synced, pending, slock, acked>> /\ wpc[t] \in {"done", "failed"}
        /\ wpc' = [wpc EXCEPT ![t] = "idle"] /\ arg' = [arg EXCEPT ![t] = Nobody]
    BY <1>4 DEF GoOn, Retry, WriteEnd
  <2>2. \A u \in Threads \ {t} : pc'[u] = pc[u] /\ ret'[u] = ret[u]
    BY <1>0, <1>4 DEF GoOn, Retry, Return, subVars
  <2> QED
    BY <1>0, <1>4, <2>1, <2>2 DEF StoreInv, StoreTyped, OneStores, StoresReturned, NothingRuns
<1>5. ASSUME CloseStorage, UNCHANGED <<up, writer>>, up = "up" PROVE StoreInv'
  <2>1. UNCHANGED <<synced, slock, wpc, arg, acked, pc, ret, lock>>
    BY <1>5 DEF CloseStorage, Close, subVars
  <2>2. file' \in Seq(LineType) /\ pending' \in Seq(PieceType) /\ synced \in 0..Len(file')
    <3>1. file' \in Seq(LineType) /\ pending' = <<>> /\ Len(file) <= Len(file') /\ Len(file') \in Nat /\ Len(file) \in Nat
      BY <1>0, <1>5, CloseKeeps DEF CloseStorage, Extends
    <3> QED
      BY <1>0, <1>5, <3>1 DEF CloseStorage, Close, StoreTyped
  <2> QED
    BY <1>0, <1>5, <2>1, <2>2 DEF StoreInv, StoreTyped, OneStores, StoresReturned, NothingRuns
<1>6. ASSUME LoseMemory, Crash \/ PowerLoss, up' = "down", UNCHANGED writer PROVE StoreInv'
  <2>1. /\ pending' = <<>> /\ slock' = Nobody /\ lock' = None /\ UNCHANGED acked
        /\ wpc' = [t \in Threads |-> "idle"] /\ arg' = [t \in Threads |-> Nobody]
        /\ pc' = [t \in Threads |-> "idle"]
    BY <1>0, <1>6 DEF LoseMemory, LoseProcess
  <2>2. file' \in Seq(LineType) /\ synced' \in 0..Len(file')
    BY <1>0, <1>6, PowerLossKeeps DEF Crash, StoreTyped
  <2> QED
    BY <1>0, <1>6, <2>1, <2>2 DEF StoreInv, StoreTyped, OneStores, StoresReturned, NothingRuns
<1>7. CASE Restart
  BY <1>0, <1>7 DEF Restart, storeVars, StoreInv, StoreTyped, OneStores, StoresReturned, NothingRuns
<1>8. CASE Running
  <2>1. up = "up" /\ UNCHANGED <<up, writer>>
    BY <1>8 DEF Running
  <2>2. CASE CloseStorage
    BY <1>5, <2>1, <2>2
  <2>3. CASE \E t \in Threads : Log(t) \/ StoreBegin(t) \/ Store(t) \/ GoOn(t)
    BY <1>1, <1>2, <1>3, <1>4, <2>1, <2>3
  <2> QED
    BY <1>0, <1>8, <2>2, <2>3 DEF Running, alone, StoreTyped
<1>9. CASE Fault
  <2>1. up = "up" /\ UNCHANGED writer
    BY <1>9 DEF Fault
  <2>2. CASE \E t \in Threads : Retry(t) /\ UNCHANGED up
    BY <1>4, <2>1, <2>2
  <2>3. CASE (Crash \/ PowerLoss) /\ up' = "down"
    BY <1>6, <2>1, <2>3 DEF Crash, PowerLoss
  <2> QED
    BY <1>9, <2>2, <2>3 DEF Fault
<1>10. CASE UNCHANGED vars
  BY <1>0, <1>10 DEF vars, storeVars, subVars, StoreInv, StoreTyped, OneStores, StoresReturned, NothingRuns
<1> QED
  BY <1>7, <1>8, <1>9, <1>10 DEF Next

\* substrate.py append() and from_events(): whoever finds the lock of a running
\* process free finds a chain that verify() accepts and a tip that is its head,
\* however often the process died and whatever the file held when it came back.
THEOREM RunningVerifies == Spec => []RunningChainVerifies
<1>1. Init => LogInv /\ StoreInv
  BY InitLog
<1>2. LogInv /\ StoreInv /\ [Next]_vars => LogInv' /\ StoreInv'
  BY NextLog, NextStore
<1>3. LogInv => RunningChainVerifies
  <2> SUFFICES ASSUME LogInv, lock = None PROVE verify_chain(heap, events) /\ tip = head_of(events)
    BY DEF RunningChainVerifies
  <2>1. tip = head_of(events)
    BY SubstrateAssumption DEF LogInv, IInv, LockHeld, TipIsHead
  <2> QED
    BY <2>1, ChainVerifies
<1> QED
  BY <1>1, <1>2, <1>3, PTL DEF Spec

-----------------------------------------------------------------------------
(***************************************************************************)
(* With durable=True, an event is on its way to the file from the moment   *)
(* it is in the buffer: as the last piece to be written, as the rest of    *)
(* its own line, or as a line nobody can take back.  A line that was       *)
(* spoiled by a failed write stands for every event: the next process will *)
(* not start from it.                                                      *)
(***************************************************************************)
AboutToCover(e) ==
    \/ pending = <<>> /\ Covered(file, e, Len(file))
    \/ pending # <<>> /\ pending[Len(pending)] = Piece(e, "whole")
    \/ pending = <<Piece(e, "rest")>>

OnItsWay ==
    \A t \in Threads :
        /\ wpc[t] = "flush" => AboutToCover(arg[t])
        /\ wpc[t] = "fsync" => Covered(file, arg[t], Len(file))

AckedCovered == \A e \in acked : Covered(file, e, synced)

DurableInv == OnItsWay /\ AckedCovered /\ AckedNeverLost

\* What an append() covered, more lines leave covered.
LEMMA AckedStayCovered ==
    ASSUME StoreTyped, AckedCovered, file' \in Seq(LineType), acked' = acked, synced \in 0..Len(file'), synced' \in synced..Len(file'),
           \A i \in 1..synced : Finished(file[i]) => file'[i] = file[i]
    PROVE  AckedCovered'
<1> SUFFICES ASSUME NEW e \in acked PROVE Covered(file', e, synced')
  BY DEF AckedCovered
<1>1. Covered(file, e, synced) /\ file \in Seq(LineType) /\ synced \in 0..Len(file)
  BY DEF AckedCovered, StoreTyped
<1> QED
  BY <1>1, CoveredStays

LEMMA ExtendedStaysCovered ==
    ASSUME StoreTyped, AckedCovered, file' \in Seq(LineType), acked' = acked, synced' = synced, Extends(file', file)
    PROVE  AckedCovered'
<1>1. synced \in 0..Len(file) /\ Len(file) \in Nat /\ Len(file') \in Nat /\ Len(file) <= Len(file')
  BY DEF StoreTyped, Extends
<1>2. \A i \in 1..synced : Finished(file[i]) => file'[i] = file[i]
  BY <1>1 DEF Extends
<1>3. synced \in 0..Len(file') /\ synced' \in synced..Len(file')
  BY <1>1
<1> QED
  BY <1>2, <1>3, AckedStayCovered

\* The piece a raw write takes brings the event it belongs to nearer the file.
LEMMA RawWriteCovers ==
    ASSUME StoreTyped, NEW t \in Threads, RawWrite(t), NEW e, AboutToCover(e)
    PROVE  AboutToCover(e)'
<1>1. /\ file \in Seq(LineType) /\ pending \in Seq(PieceType) /\ pending # <<>>
      /\ Len(pending) \in Nat \ {0}
  BY DEF StoreTyped, RawWrite
<1>2. Head(pending) = pending[1] /\ pending[1] \in PieceType
  BY <1>1
<1>3. pending[1] \in RawType /\ pending[1].part # "head"
  BY <1>2 DEF PieceType, RawType
<1>4. CASE Len(pending) = 1
  <2>1. pending[1].ev = e /\ (pending[1] = Piece(e, "whole") \/ pending[1] = Piece(e, "rest"))
    <3>1. CASE pending[1] = Piece(e, "whole")
      BY <3>1 DEF Piece
    <3>2. CASE pending = <<Piece(e, "rest")>>
      BY <3>2 DEF Piece
    <3> QED
      BY <1>1, <1>4, <3>1, <3>2 DEF AboutToCover
  <2>2. Tail(pending) = <<>>
    <3>1. Tail(pending) \in Seq(PieceType) /\ Len(Tail(pending)) = Len(pending) - 1
      BY <1>1
    <3>2. Len(Tail(pending)) = 0
      BY <1>4, <3>1
    <3> QED
      BY <3>1, <3>2, NothingLeft
  <2>3. CASE file' = Write(file, Head(pending)) /\ pending' = Tail(pending)
    <3>1. Covered(file', e, Len(file'))
      BY <1>1, <1>2, <1>3, <2>1, <2>3, WriteExtends
    <3> QED
      BY <2>2, <2>3, <3>1 DEF AboutToCover
  <2>4. CASE pending' = <<Piece(Head(pending).ev, "rest")>> \o Tail(pending)
    <3> DEFINE r == Piece(e, "rest")
    <3>1. pending' = <<r>> \o <<>>
      BY <1>2, <2>1, <2>2, <2>4
    <3>2. r \in PieceType
      BY <1>2, <2>1 DEF Piece, PieceType
    <3>3. r \in PieceType => <<r>> \o <<>> = <<r>>
      <4> HIDE DEF r
      <4> QED
        OBVIOUS
    <3> QED
      BY <3>1, <3>2, <3>3 DEF AboutToCover
  <2> QED
    BY <2>3, <2>4 DEF RawWrite
<1>5. CASE Len(pending) # 1
  <2>1. pending[Len(pending)] = Piece(e, "whole")
    <3>1. Len(<<Piece(e, "rest")>>) = 1
      BY OneLeft
    <3>2. pending # <<Piece(e, "rest")>>
      BY <1>5, <3>1
    <3> QED
      BY <1>1, <3>2 DEF AboutToCover
  <2>2. /\ Tail(pending) \in Seq(PieceType) /\ Len(Tail(pending)) = Len(pending) - 1
        /\ Tail(pending)[Len(pending) - 1] = pending[Len(pending)]
    BY <1>1, <1>5, LastOfTail
  <2>3. CASE pending' = Tail(pending)
    <3>1. Len(pending') = Len(pending) - 1 /\ pending'[Len(pending')] = Piece(e, "whole")
      BY <2>1, <2>2, <2>3
    <3>2. pending' # <<>>
      BY <1>1, <1>5, <3>1
    <3> QED
      BY <3>1, <3>2 DEF AboutToCover
  <2>4. CASE pending' = <<Piece(Head(pending).ev, "rest")>> \o Tail(pending)
    <3> DEFINE r == Piece(Head(pending).ev, "rest")
    <3>1. r \in PieceType
      BY <1>2 DEF Piece, PieceType
    <3> HIDE DEF r
    <3>2. Len(pending') = Len(pending) /\ pending'[Len(pending)] = Tail(pending)[Len(pending) - 1]
      BY <1>1, <1>5, <2>2, <2>4, <3>1
    <3> QED
      BY <1>1, <2>1, <2>2, <3>2 DEF AboutToCover
  <2> QED
    BY <2>3, <2>4 DEF RawWrite
<1> QED
  BY <1>4, <1>5

LEMMA WriteStepIsDurable ==
    ASSUME Durable, LogInv, StoreInv, DurableInv, NEW t \in Threads, Store(t), UNCHANGED up
    PROVE  DurableInv'
<1>1. /\ StoreTyped /\ OneStores /\ StoresReturned /\ Writers = Threads
      /\ wpc \in [Threads -> {"idle", "flush", "fsync", "done", "failed"}]
      /\ arg \in [Threads -> ChainedEvent \cup {Nobody}]
  BY DurableLogAssumption DEF StoreInv, StoreTyped
<1>2. OnItsWay /\ AckedCovered /\ AckedNeverLost /\ UNCHANGED <<events, up>>
  BY DEF DurableInv, Store, subVars
<1>3. \A u \in Threads \ {t} : wpc[t] \in {"flush", "fsync"} => wpc[u] \notin {"flush", "fsync"}
  BY <1>1 DEF OneStores
<1>4. CASE RawWrite(t)
  <2>1. UNCHANGED <<synced, slock, wpc, arg>> /\ wpc[t] = "flush" /\ acked' = acked
    BY <1>1, <1>4 DEF RawWrite, Store
  <2>2. AckedCovered'
    BY <1>1, <1>2, <1>4, <2>1, RawWriteKeeps, ExtendedStaysCovered
  <2>3. AboutToCover(arg[t])'
    <3>1. AboutToCover(arg[t])
      BY <1>2, <2>1 DEF OnItsWay
    <3>2. \A e : AboutToCover(e) => AboutToCover(e)'
      BY <1>1, <1>4, RawWriteCovers
    <3> QED
      BY <2>1, <3>1, <3>2 DEF AboutToCover
  <2>4. OnItsWay'
    BY <1>3, <2>1, <2>3 DEF OnItsWay
  <2> QED
    BY <1>2, <2>1, <2>2, <2>4 DEF DurableInv, AckedNeverLost
<1>5. CASE FlushDone(t)
  <2>1. /\ UNCHANGED <<file, synced, pending, arg>> /\ wpc[t] = "flush" /\ pending = <<>>
        /\ wpc' = [wpc EXCEPT ![t] = "fsync"]
    BY <1>5 DEF FlushDone
  <2>2. acked' = acked
    BY <1>1, <2>1 DEF Store
  <2>3. Covered(file, arg[t], Len(file))
    <3>1. <<>> # <<Piece(arg[t], "rest")>>
      OBVIOUS
    <3> QED
      BY <1>2, <2>1, <3>1 DEF OnItsWay, AboutToCover
  <2>4. OnItsWay'
    BY <1>1, <1>3, <2>1, <2>3 DEF OnItsWay
  <2> QED
    BY <1>2, <2>1, <2>2, <2>4 DEF DurableInv, AckedCovered, AckedNeverLost
<1>6. CASE FlushFails(t) \/ FsyncFails(t)
  <2>1. UNCHANGED <<file, synced, arg>> /\ wpc' = [wpc EXCEPT ![t] = "failed"] /\ wpc[t] \in {"flush", "fsync"}
    BY <1>6 DEF FlushFails, FsyncFails
  <2>2. acked' = acked
    BY <1>1, <2>1 DEF Store
  <2>3. OnItsWay'
    BY <1>1, <1>3, <2>1 DEF OnItsWay
  <2> QED
    BY <1>2, <2>1, <2>2, <2>3 DEF DurableInv, AckedCovered, AckedNeverLost
<1>7. CASE Fsync(t)
  <2>1. /\ UNCHANGED <<file, pending, arg>> /\ synced' = Len(file) /\ wpc[t] = "fsync"
        /\ wpc' = [wpc EXCEPT ![t] = "done"]
    BY <1>7 DEF Fsync
  <2>2. acked' = acked \cup {arg[t]}
    BY <1>1, <2>1 DEF Store
  <2>3. Covered(file, arg[t], Len(file))
    BY <1>2, <2>1 DEF OnItsWay
  <2>4. AckedCovered'
    <3>1. ASSUME NEW e \in acked PROVE Covered(file, e, Len(file))
      BY <1>1, <1>2, CoveredStays DEF AckedCovered, StoreTyped
    <3> QED
      BY <2>1, <2>2, <2>3, <3>1 DEF AckedCovered
  <2>5. OnItsWay'
    BY <1>1, <1>3, <2>1 DEF OnItsWay
  <2>6. InPlace(arg[t])
    BY <1>1, <2>1 DEF StoresReturned, LogInv, ReturnedInPlace
  <2>7. AckedNeverLost'
    BY <1>2, <2>2, <2>6 DEF AckedNeverLost, InPlace
  <2> QED
    BY <2>4, <2>5, <2>7 DEF DurableInv
<1> QED
  BY <1>4, <1>5, <1>6, <1>7 DEF Store, WriteStep

\* The next process starts from a file without bad lines, and has read every
\* acknowledged event at its seq.
LEMMA RestartKeepsAcked ==
    ASSUME LogInv, StoreInv, DurableInv, Restart
    PROVE  DurableInv'
<1>1. /\ UNCHANGED <<file, synced, pending, wpc, arg, acked>> /\ up = "down"
  BY DEF Restart, storeVars
<1>2. OnItsWay' /\ AckedCovered'
  BY <1>1 DEF DurableInv, OnItsWay, AboutToCover, AckedCovered
<1>3. AckedNeverLost'
  <2> SUFFICES ASSUME up' = "up", NEW e \in acked PROVE InPlace(e)'
    BY <1>1 DEF AckedNeverLost, InPlace
  <2> DEFINE chain == ScanEvents(file)
  <2>1. ScanComplete(file) /\ verify_chain(heap, chain) /\ events' = chain
    BY DEF Restart, from_events_accepts
  <2>2. file \in Seq(LineType) /\ synced \in 0..Len(file)
    BY DEF StoreInv, StoreTyped
  <2>3. Len(chain) = Len(file) /\ \A i \in 1..Len(file) : chain[i] = file[i].ev /\ chain[i].seq = i - 1
    BY <2>1, <2>2, CompleteScan, VerifiedChain
  <2>4. PICK i \in 1..synced : file[i] = Line(e, "whole") \/ file[i].form = "spoiled"
    BY DEF DurableInv, AckedCovered, Covered
  <2>5. i \in 1..Len(file) /\ file[i] = Line(e, "whole")
    BY <2>1, <2>2, <2>4 DEF ScanComplete
  <2>6. chain[i] = e /\ e.seq = i - 1
    BY <2>3, <2>5 DEF Line
  <2> HIDE DEF chain
  <2> QED
    BY <2>1, <2>2, <2>3, <2>5, <2>6 DEF InPlace
<1> QED
  BY <1>2, <1>3 DEF DurableInv

LEMMA NextDurable == ASSUME Durable, LogInv, StoreInv, DurableInv, [Next]_vars PROVE DurableInv'
<1>1. /\ StoreTyped /\ OneStores /\ Writers = Threads /\ OnItsWay /\ AckedCovered /\ AckedNeverLost
      /\ wpc \in [Threads -> {"idle", "flush", "fsync", "done", "failed"}]
      /\ arg \in [Threads -> ChainedEvent \cup {Nobody}] /\ acked \subseteq ChainedEvent
  BY DurableLogAssumption DEF StoreInv, StoreTyped, DurableInv
<1>2. ASSUME NEW t \in Threads, Log(t) \/ GoOn(t), UNCHANGED up PROVE DurableInv'
  <2>1. UNCHANGED <<file, synced, pending, acked>> /\ (AppendStep(t) \/ Return(t))
    BY <1>2 DEF Log, GoOn, WriteEnd, storeVars
  <2>2. \A u \in Threads : wpc'[u] \in {"flush", "fsync"} => wpc'[u] = wpc[u] /\ arg'[u] = arg[u]
    BY <1>1, <1>2 DEF Log, GoOn, WriteEnd, storeVars
  <2>3. \A e \in ChainedEvent : InPlace(e) => InPlace(e)'
    BY <2>1, LogKeeps
  <2>4. AckedNeverLost'
    BY <1>1, <1>2, <2>1, <2>3 DEF AckedNeverLost, InPlace
  <2> QED
    BY <1>1, <2>1, <2>2, <2>4 DEF DurableInv, OnItsWay, AboutToCover, AckedCovered
<1>3. ASSUME NEW t \in Threads, StoreBegin(t), UNCHANGED up PROVE DurableInv'
  <2>1. /\ UNCHANGED <<file, synced, acked, events>> /\ slock = Nobody
        /\ arg' = [arg EXCEPT ![t] = ret[t]] /\ wpc' = [wpc EXCEPT ![t] = "flush"]
        /\ pending' = Append(pending, Piece(ret[t], "whole"))
    BY <1>3 DEF StoreBegin, WriteBegin, subVars
  <2>2. \A u \in Threads : wpc[u] \notin {"flush", "fsync"}
    BY <1>1, <2>1, DurableLogAssumption, JsonlAssumption DEF OneStores
  <2>3. pending \in Seq(PieceType)
    BY <1>1 DEF StoreTyped
  <2>4. pending' # <<>> /\ pending'[Len(pending')] = Piece(ret[t], "whole")
    BY <2>1, <2>3
  <2>5. OnItsWay'
    BY <1>1, <2>1, <2>2, <2>4 DEF OnItsWay, AboutToCover
  <2> QED
    BY <1>1, <1>3, <2>1, <2>5 DEF DurableInv, AckedCovered, AckedNeverLost
<1>4. ASSUME NEW t \in Threads, Retry(t), UNCHANGED up PROVE DurableInv'
  <2>1. UNCHANGED <<file, synced, pending, acked, events>>
    BY <1>4 DEF Retry, WriteEnd, subVars
  <2>2. \A u \in Threads : wpc'[u] \in {"flush", "fsync"} => wpc'[u] = wpc[u] /\ arg'[u] = arg[u]
    BY <1>1, <1>4 DEF Retry, WriteEnd
  <2> QED
    BY <1>1, <1>4, <2>1, <2>2 DEF DurableInv, OnItsWay, AboutToCover, AckedCovered, AckedNeverLost
<1>5. ASSUME CloseStorage, UNCHANGED up PROVE DurableInv'
  <2>1. UNCHANGED <<synced, slock, wpc, arg, acked, events>> /\ slock = Nobody /\ Close
    BY <1>5 DEF CloseStorage, Close, subVars
  <2>2. \A u \in Threads : wpc[u] \notin {"flush", "fsync"}
    BY <1>1, <2>1, DurableLogAssumption, JsonlAssumption DEF OneStores
  <2>3. AckedCovered'
    BY <1>1, <2>1, CloseKeeps, ExtendedStaysCovered
  <2> QED
    BY <1>1, <1>5, <2>1, <2>2, <2>3 DEF DurableInv, OnItsWay, AckedNeverLost
<1>6. ASSUME LoseMemory, Crash \/ PowerLoss, up' = "down" PROVE DurableInv'
  <2>1. wpc' = [t \in Threads |-> "idle"] /\ UNCHANGED acked
    BY <1>1, <1>6 DEF LoseMemory, LoseProcess
  <2>2. AckedCovered'
    <3>2. CASE Crash
      BY <1>1, <2>1, <3>2 DEF Crash, AckedCovered
    <3>1. CASE PowerLoss
      <4>1. /\ file' \in Seq(LineType) /\ synced' = Len(file') /\ Len(file') \in Nat
            /\ synced <= Len(file') /\ \A i \in 1..synced : file'[i] = file[i]
        BY <1>1, <3>1, PowerLossKeeps
      <4>2. synced \in Nat
        BY <1>1 DEF StoreTyped
      <4>3. synced \in 0..Len(file') /\ synced' \in synced..Len(file')
        BY <4>1, <4>2
      <4> QED
        BY <1>1, <2>1, <4>1, <4>3, AckedStayCovered
    <3> QED
      BY <1>6, <3>1, <3>2
  <2> QED
    BY <1>6, <2>1, <2>2 DEF DurableInv, OnItsWay, AckedNeverLost
<1>7. CASE Running
  <2>1. UNCHANGED up
    BY <1>7 DEF Running
  <2>2. CASE CloseStorage
    BY <1>5, <2>1, <2>2
  <2>3. CASE \E t \in Threads : Log(t) \/ StoreBegin(t) \/ Store(t) \/ GoOn(t)
    BY <1>2, <1>3, <2>1, <2>3, WriteStepIsDurable
  <2> QED
    BY <1>1, <1>7, <2>2, <2>3 DEF Running, alone, StoreTyped
<1>8. CASE Fault
  <2>1. CASE \E t \in Threads : Retry(t) /\ UNCHANGED up
    BY <1>4, <2>1
  <2>2. CASE (Crash \/ PowerLoss) /\ up' = "down"
    BY <1>6, <2>2 DEF Crash, PowerLoss
  <2> QED
    BY <1>8, <2>1, <2>2 DEF Fault
<1>9. CASE UNCHANGED vars
  BY <1>1, <1>9 DEF vars, storeVars, subVars, DurableInv, OnItsWay, AboutToCover, AckedCovered, AckedNeverLost
<1> QED
  BY <1>7, <1>8, <1>9, RestartKeepsAcked DEF Next

\* storage/jsonl.py append() and read_all(), with durable=True: an event whose
\* append() returned is in every process that comes up, at its seq, whatever
\* writes failed and were retried and wherever the power was lost.
THEOREM AckedStays == ASSUME Durable PROVE Spec => []AckedNeverLost
<1>1. Init => LogInv /\ StoreInv /\ DurableInv
  <2>1. Init => DurableInv
    BY DurableLogAssumption DEF Init, StoreInit, DurableInv, OnItsWay, AckedCovered, AckedNeverLost
  <2> QED
    BY <2>1, InitLog
<1>2. LogInv /\ StoreInv /\ DurableInv /\ [Next]_vars => LogInv' /\ StoreInv' /\ DurableInv'
  BY NextLog, NextStore, NextDurable
<1>3. DurableInv => AckedNeverLost
  BY DEF DurableInv
<1> QED
  BY <1>1, <1>2, <1>3, PTL DEF Spec

-----------------------------------------------------------------------------
(***************************************************************************)
(* One writer and no I/O error.  The file follows the chain one event      *)
(* behind or not at all, and only its last line can lack its newline.      *)
(***************************************************************************)
FileShape(f) == \A i \in 1..Len(f) : f[i].form = "whole" \/ (i = Len(f) /\ f[i].form = "partial")

PrefixOf(f, chain) == Len(f) <= Len(chain) /\ \A i \in 1..Len(f) : f[i].ev = chain[i]

InStep ==
    \/ /\ wpc[writer] = "idle" /\ pc[writer] \in {"idle", "locked"}
       /\ pending = <<>> /\ Len(file) = Len(events) /\ ScanComplete(file)
    \/ /\ wpc[writer] = "idle" /\ pc[writer] \in {"extended", "returned"}
       /\ pending = <<>> /\ Len(file) + 1 = Len(events) /\ ScanComplete(file)
    \/ /\ wpc[writer] = "flush" /\ pending = <<Piece(ret[writer], "whole")>>
       /\ Len(file) + 1 = Len(events) /\ ScanComplete(file)
    \/ /\ wpc[writer] = "flush" /\ pending = <<Piece(ret[writer], "rest")>>
       /\ Len(file) = Len(events) /\ file[Len(file)] = Line(ret[writer], "partial")
    \/ /\ wpc[writer] \in {"flush", "fsync", "done"}
       /\ pending = <<>> /\ Len(file) = Len(events) /\ ScanComplete(file)

LastReturned == pc[writer] \in {"extended", "returned"} => events # <<>> /\ ret[writer] = events[Len(events)]

AloneInv ==
    alone =>
        /\ \A t \in Threads \ {writer} : pc[t] = "idle" /\ wpc[t] = "idle"
        /\ FileShape(file)
        /\ up = "up" => PrefixOf(file, events) /\ InStep /\ LastReturned

LEMMA CompleteShape == ASSUME NEW f, ScanComplete(f) PROVE FileShape(f)
BY DEF ScanComplete, FileShape

\* A line that is written in one go, or that is finished in a second write.
LEMMA WriteNew ==
    ASSUME NEW f \in Seq(LineType), ScanComplete(f), NEW p \in RawType
    PROVE  Write(f, p) = Append(f, NewLine(p))
<1>1. ~PartialTrailingLine(f)
  <2> SUFFICES ASSUME f # <<>> PROVE f[Len(f)].form = "whole"
    BY DEF PartialTrailingLine
  <2>1. Len(f) \in Nat /\ Len(f) # 0
    BY NothingLeft
  <2>2. Len(f) \in 1..Len(f)
    BY <2>1
  <2> QED
    BY <2>2 DEF ScanComplete
<1> QED
  BY <1>1 DEF Write

LEMMA AppendedLine ==
    ASSUME NEW f \in Seq(LineType), NEW line \in LineType, NEW g, g = Append(f, line)
    PROVE  /\ g \in Seq(LineType) /\ Len(g) = Len(f) + 1 /\ g[Len(g)] = line
           /\ \A i \in 1..Len(f) : g[i] = f[i]
           /\ \A i \in 1..Len(g) : i \in 1..Len(f) \/ i = Len(f) + 1
OBVIOUS

LEMMA WriteRest ==
    ASSUME NEW f \in Seq(LineType), NEW e \in ChainedEvent, FileShape(f), f # <<>>,
           f[Len(f)] = Line(e, "partial")
    PROVE  /\ Len(Write(f, Piece(e, "rest"))) = Len(f) /\ ScanComplete(Write(f, Piece(e, "rest")))
           /\ \A i \in 1..Len(f) : Write(f, Piece(e, "rest"))[i].ev = f[i].ev
<1> DEFINE n == Len(f)
           l == Longer(f[n], Piece(e, "rest"))
           g == Write(f, Piece(e, "rest"))
<1>1. n \in 1..Len(f)
  <2>1. Len(f) \in Nat /\ Len(f) # 0
    BY NothingLeft
  <2> QED
    BY <2>1
<1>2. g = [f EXCEPT ![n] = l]
  BY DEF Write, PartialTrailingLine, Line
<1>3. l = Line(e, "whole")
  BY DEF Longer, Line, Piece
<1>4. Len(g) = n /\ g[n] = l /\ \A i \in 1..n : i # n => g[i] = f[i]
  <2> HIDE DEF l, g
  <2> QED
    BY <1>1, <1>2
<1>5. \A i \in 1..n : i # n => f[i].form = "whole"
  BY DEF FileShape
<1> HIDE DEF g, l
<1>6. \A i \in 1..n : g[i].form = "whole" /\ g[i].ev = f[i].ev
  <2> SUFFICES ASSUME NEW i \in 1..n PROVE g[i].form = "whole" /\ g[i].ev = f[i].ev
    OBVIOUS
  <2>1. CASE i = n
    BY <1>3, <1>4, <2>1 DEF Line
  <2>2. CASE i # n
    BY <1>4, <1>5, <2>2
  <2> QED
    BY <2>1, <2>2
<1> QED
  BY <1>4, <1>6 DEF ScanComplete, g

\* What is left of a file that has its shape still has it, and still is a
\* prefix of the chain it was a prefix of.
LEMMA CutShape ==
    ASSUME NEW f \in Seq(LineType), NEW n \in 0..Len(f), NEW g \in CutFiles(f, n), FileShape(f)
    PROVE  FileShape(g) /\ \A chain : PrefixOf(f, chain) /\ Len(chain) \in Nat => PrefixOf(g, chain)
<1>1. PICK k \in n..Len(f) :
         \/ Len(g) = k /\ \A i \in 1..k : g[i] = f[i]
         \/ /\ k < Len(f) /\ Len(g) = k + 1 /\ \A i \in 1..k : g[i] = f[i]
            /\ g[k + 1] = Line(f[k + 1].ev, "partial")
  BY CutFilesKeep
<1>2. k \in Nat /\ Len(f) \in Nat /\ k <= Len(f)
  BY <1>1
<1>3. CASE Len(g) = k /\ \A i \in 1..k : g[i] = f[i]
  BY <1>2, <1>3 DEF FileShape, PrefixOf
<1>4. CASE /\ k < Len(f) /\ Len(g) = k + 1 /\ \A i \in 1..k : g[i] = f[i]
           /\ g[k + 1] = Line(f[k + 1].ev, "partial")
  <2>1. \A i \in 1..(k + 1) : i \in 1..k \/ i = k + 1
    BY <1>2
  <2>2. \A i \in 1..k : g[i].form = "whole" /\ g[i].ev = f[i].ev
    BY <1>2, <1>4 DEF FileShape
  <2>3. g[k + 1].form = "partial" /\ g[k + 1].ev = f[k + 1].ev
    BY <1>4 DEF Line
  <2>4. FileShape(g)
    BY <1>4, <2>1, <2>2, <2>3 DEF FileShape
  <2>5. k + 1 \in 1..Len(f) /\ \A i \in 1..k : i \in 1..Len(f)
    BY <1>2, <1>4
  <2>6. ASSUME NEW chain, PrefixOf(f, chain), Len(chain) \in Nat PROVE PrefixOf(g, chain)
    <3>1. Len(g) <= Len(chain)
      BY <1>2, <1>4, <2>5, <2>6 DEF PrefixOf
    <3>2. \A i \in 1..Len(g) : g[i].ev = chain[i]
      BY <1>4, <2>1, <2>2, <2>3, <2>5, <2>6 DEF PrefixOf
    <3> QED
      BY <3>1, <3>2 DEF PrefixOf
  <2> QED
    BY <2>4, <2>6
<1> QED
  BY <1>1, <1>3, <1>4

\* The writer's next append() to the substrate.
LEMMA AloneLog ==
    ASSUME LogInv, StoreInv, AloneInv, alone, up = "up", Log(writer), UNCHANGED <<up, writer>>
    PROVE  AloneInv'
<1>1. /\ writer \in Threads /\ (wpc[writer] # "idle" => pc[writer] = "returned")
      /\ UNCHANGED <<file, pending, wpc>> /\ AppendStep(writer)
      /\ PrefixOf(file, events) /\ InStep /\ LastReturned /\ FileShape(file)
      /\ \A t \in Threads \ {writer} : pc[t] = "idle" /\ wpc[t] = "idle"
  BY DEF StoreInv, StoreTyped, StoresReturned, AloneInv, alone, Log, storeVars
<1>2. /\ IInv /\ events \in Seq(ChainedEvent) /\ Len(events) \in Nat /\ file \in Seq(LineType) /\ Len(file) \in Nat
      /\ pc \in [Threads -> {"idle", "locked", "extended", "returned"}]
  BY DEF LogInv, IInv, SubTypeOK, StoreInv, StoreTyped
<1>3. \A t \in Threads \ {writer} : pc'[t] = "idle" /\ wpc'[t] = "idle"
  BY <1>1, <1>2 DEF AppendStep, Acquire, Extend, ExtendUnchecked, Reject, SetTip
<1>4. CASE Acquire(writer) \/ Reject(writer)
  <2>1. /\ UNCHANGED <<events, ret>> /\ pc[writer] \in {"idle", "locked"} /\ pc'[writer] \in {"idle", "locked"}
    BY <1>1, <1>2, <1>4 DEF Acquire, Reject
  <2>2. InStep'
    BY <1>1, <2>1 DEF InStep
  <2> QED
    BY <1>1, <1>3, <2>1, <2>2 DEF AloneInv, alone, LastReturned
<1>5. CASE Extend(writer)
  <2>1. pc[writer] = "locked" /\ pc'[writer] = "extended"
    BY <1>1, <1>2, <1>5 DEF Extend, ExtendUnchecked
  <2>2. /\ Len(events') = Len(events) + 1
        /\ \A i \in 1..Len(events) : i \in 1..Len(events') /\ events'[i] = events[i]
        /\ ret'[writer] = events'[Len(events')]
    BY <1>1, <1>2, <1>5, ExtendKeepsEvents
  <2>3. wpc[writer] = "idle" /\ pending = <<>> /\ Len(file) = Len(events) /\ ScanComplete(file)
    BY <1>1, <2>1 DEF InStep
  <2>4. PrefixOf(file, events')
    BY <1>1, <1>2, <2>2, <2>3 DEF PrefixOf
  <2>5. InStep'
    BY <1>1, <2>1, <2>2, <2>3 DEF InStep
  <2>6. Len(events') # 0
    BY <1>2, <2>2
  <2>7. events' # <<>>
    BY <2>6
  <2> QED
    BY <1>1, <1>3, <2>2, <2>4, <2>5, <2>7 DEF AloneInv, alone, LastReturned, PrefixOf
<1>6. CASE SetTip(writer)
  <2>1. UNCHANGED <<events, ret>> /\ pc[writer] = "extended" /\ pc'[writer] = "returned"
    BY <1>1, <1>2, <1>6 DEF SetTip
  <2>2. InStep'
    BY <1>1, <2>1 DEF InStep
  <2> QED
    BY <1>1, <1>3, <2>1, <2>2 DEF AloneInv, alone, LastReturned
<1> QED
  BY <1>1, <1>4, <1>5, <1>6 DEF AppendStep

LEMMA AloneRawWrite ==
    ASSUME LogInv, StoreInv, AloneInv, alone, up = "up", RawWrite(writer), UNCHANGED <<subVars, up, writer>>
    PROVE  PrefixOf(file', events) /\ FileShape(file') /\ InStep'
<1>1. /\ writer \in Threads /\ pc[writer] = "returned" /\ wpc[writer] = "flush"
      /\ PrefixOf(file, events) /\ InStep /\ LastReturned /\ FileShape(file)
      /\ UNCHANGED <<wpc, pc, ret, events>> /\ pending # <<>>
  BY DEF StoreInv, StoreTyped, StoresReturned, AloneInv, alone, RawWrite, subVars
<1>2. /\ file \in Seq(LineType) /\ Len(file) \in Nat /\ events \in Seq(ChainedEvent) /\ Len(events) \in Nat
      /\ ret[writer] = events[Len(events)] /\ ret[writer] \in ChainedEvent
  BY <1>1 DEF LogInv, IInv, SubTypeOK, StoreInv, StoreTyped, LastReturned, ReturnedInPlace
<1> DEFINE e == ret[writer]
<1>3. /\ Piece(e, "whole") \in RawType /\ Piece(e, "head") \in RawType
      /\ Piece(e, "whole").part = "whole" /\ Piece(e, "rest").part = "rest"
      /\ Piece(e, "whole").ev = e /\ Piece(e, "head").part = "head" /\ Piece(e, "head").ev = e
  BY <1>2 DEF Piece, RawType
<1>4. CASE pending = <<Piece(e, "whole")>> /\ Len(file) + 1 = Len(events) /\ ScanComplete(file)
  <2>1. Head(pending) = Piece(e, "whole") /\ Tail(pending) = <<>>
    BY <1>4
  <2>2. ASSUME NEW form \in {"whole", "partial"}, file' = Append(file, Line(e, form))
        PROVE  /\ PrefixOf(file', events) /\ FileShape(file') /\ Len(file') = Len(events)
               /\ file'[Len(file')] = Line(e, form) /\ (form = "whole" => ScanComplete(file'))
    <3>1. Line(e, form) \in LineType
      BY <1>2 DEF Line, LineType
    <3>2. /\ file' \in Seq(LineType) /\ Len(file') = Len(file) + 1 /\ file'[Len(file')] = Line(e, form)
          /\ \A i \in 1..Len(file) : file'[i] = file[i]
          /\ \A i \in 1..Len(file') : i \in 1..Len(file) \/ i = Len(file) + 1
      BY <1>2, <2>2, <3>1, AppendedLine
    <3>3. \A i \in 1..Len(file) : file'[i].form = "whole" /\ file'[i].ev = events[i]
      BY <1>1, <1>4, <3>2 DEF ScanComplete, PrefixOf
    <3>4. Line(e, form).form = form /\ Line(e, form).ev = e
      BY DEF Line
    <3> QED
      BY <1>2, <1>4, <2>2, <3>2, <3>3, <3>4 DEF PrefixOf, FileShape, ScanComplete
  <2>3. CASE file' = Write(file, Head(pending)) /\ pending' = Tail(pending)
    <3>1. file' = Append(file, Line(e, "whole")) /\ pending' = <<>>
      BY <1>2, <1>3, <1>4, <2>1, <2>3, WriteNew, NewLineType
    <3>2. PrefixOf(file', events) /\ FileShape(file') /\ Len(file') = Len(events) /\ ScanComplete(file')
      BY <2>2, <3>1
    <3> QED
      BY <1>1, <3>1, <3>2 DEF InStep, ScanComplete
  <2>4. CASE /\ file' = Write(file, Piece(Head(pending).ev, "head"))
             /\ pending' = <<Piece(Head(pending).ev, "rest")>> \o Tail(pending)
    <3>1. file' = Append(file, Line(e, "partial"))
      <4>1. file' = Write(file, Piece(e, "head"))
        BY <1>3, <2>1, <2>4
      <4> QED
        BY <1>2, <1>3, <1>4, <4>1, WriteNew, NewLineType
    <3>2. pending' = <<Piece(e, "rest")>>
      <4>1. pending' = <<Piece(e, "rest")>> \o <<>>
        BY <1>3, <2>1, <2>4
      <4> DEFINE r == Piece(e, "rest")
      <4>2. <<r>> \o <<>> = <<r>>
        BY ConcatNothing
      <4> QED
        BY <4>1, <4>2
    <3>3. PrefixOf(file', events) /\ FileShape(file') /\ Len(file') = Len(events) /\ file'[Len(file')] = Line(e, "partial")
      BY <2>2, <3>1
    <3> QED
      BY <1>1, <3>2, <3>3 DEF InStep
  <2> QED
    BY <2>3, <2>4 DEF RawWrite
<1>5. CASE pending = <<Piece(e, "rest")>> /\ Len(file) = Len(events) /\ file[Len(file)] = Line(e, "partial")
  <2>1. Head(pending) = Piece(e, "rest") /\ Tail(pending) = <<>>
    BY <1>5
  <2>2. file' = Write(file, Piece(e, "rest")) /\ pending' = <<>>
    BY <1>3, <2>1 DEF RawWrite
  <2>3. file # <<>>
    <3>1. Len(file) # 0
      BY <1>1, <1>2, <1>5, NothingLeft DEF LastReturned
    <3> QED
      BY <3>1
  <2>4. Len(file') = Len(file) /\ ScanComplete(file') /\ \A i \in 1..Len(file) : file'[i].ev = file[i].ev
    BY <1>1, <1>2, <1>5, <2>2, <2>3, WriteRest
  <2>5. FileShape(file') /\ PrefixOf(file', events)
    BY <1>1, <2>4, CompleteShape DEF PrefixOf
  <2> QED
    BY <1>1, <1>5, <2>2, <2>4, <2>5 DEF InStep, ScanComplete
<1> QED
  BY <1>1, <1>4, <1>5 DEF InStep

LEMMA AloneStore ==
    ASSUME Durable, LogInv, StoreInv, AloneInv, alone, up = "up",
           StoreBegin(writer) \/ Store(writer) \/ GoOn(writer), UNCHANGED <<up, writer>>
    PROVE  AloneInv'
<1>1. /\ writer \in Threads /\ (wpc[writer] # "idle" => pc[writer] = "returned")
      /\ PrefixOf(file, events) /\ InStep /\ LastReturned /\ FileShape(file)
      /\ \A t \in Threads \ {writer} : pc[t] = "idle" /\ wpc[t] = "idle"
  BY DEF StoreInv, StoreTyped, StoresReturned, AloneInv, alone
<1>2. /\ Writers = Threads
      /\ pc \in [Threads -> {"idle", "locked", "extended", "returned"}]
      /\ wpc \in [Threads -> {"idle", "flush", "fsync", "done", "failed"}]
      /\ ret \in [Threads -> ChainedEvent \cup {None}]
  BY DurableLogAssumption DEF LogInv, IInv, SubTypeOK, StoreInv, StoreTyped
<1>3. events' = events
  BY DEF StoreBegin, Store, GoOn, Return, subVars
<1>4. \A t \in Threads \ {writer} : pc'[t] = "idle" /\ wpc'[t] = "idle"
  BY <1>1, <1>2
     DEF StoreBegin, Store, GoOn, Return, WriteEnd, WriteBegin, WriteStep, RawWrite, FlushDone, FlushFails,
         Fsync, FsyncFails, subVars
<1>5. ASSUME UNCHANGED <<file, pc, ret>>, InStep' PROVE AloneInv'
  BY <1>1, <1>3, <1>4, <1>5 DEF AloneInv, alone, LastReturned
<1>6. CASE StoreBegin(writer)
  <2>1. /\ UNCHANGED <<file, pc, ret>> /\ wpc[writer] = "idle" /\ pc[writer] = "returned" /\ wpc'[writer] = "flush"
        /\ pending' = Append(pending, Piece(ret[writer], "whole"))
    BY <1>1, <1>2, <1>6 DEF StoreBegin, WriteBegin, subVars
  <2>2. pending = <<>> /\ Len(file) + 1 = Len(events) /\ ScanComplete(file)
    BY <1>1, <2>1 DEF InStep
  <2>3. pending' = <<Piece(ret[writer], "whole")>>
    BY <2>1, <2>2
  <2>4. InStep'
    BY <1>3, <2>1, <2>2, <2>3 DEF InStep
  <2> QED
    BY <1>5, <2>1, <2>4
<1>7. CASE RawWrite(writer) /\ Store(writer)
  <2>1. UNCHANGED <<subVars, pc, ret>>
    BY <1>7 DEF Store, subVars
  <2>2. PrefixOf(file', events) /\ FileShape(file') /\ InStep'
    BY <1>7, <2>1, AloneRawWrite
  <2> QED
    BY <1>1, <1>3, <1>4, <2>1, <2>2 DEF AloneInv, alone, LastReturned
<1>8. CASE (FlushDone(writer) \/ Fsync(writer)) /\ Store(writer)
  <2>1. /\ UNCHANGED <<file, pc, ret, pending>> /\ wpc'[writer] \in {"fsync", "done"}
        /\ wpc[writer] \in {"flush", "fsync"} /\ (wpc[writer] = "flush" => pending = <<>>)
    BY <1>1, <1>2, <1>8 DEF FlushDone, Fsync, Store, subVars
  <2>2. pending = <<>> /\ Len(file) = Len(events) /\ ScanComplete(file)
    <3>1. <<Piece(ret[writer], "whole")>> # <<>> /\ <<Piece(ret[writer], "rest")>> # <<>>
      OBVIOUS
    <3> QED
      BY <1>1, <2>1, <3>1 DEF InStep
  <2>3. InStep'
    BY <1>3, <2>1, <2>2 DEF InStep
  <2> QED
    BY <1>5, <2>1, <2>3
<1>9. CASE (FlushFails(writer) \/ FsyncFails(writer)) /\ Store(writer)
  BY <1>1, <1>2, <1>9 DEF FlushFails, FsyncFails, Store
<1>10. CASE GoOn(writer)
  <2>1. /\ UNCHANGED <<file, pending>> /\ wpc'[writer] = "idle" /\ pc'[writer] = "idle"
        /\ wpc[writer] \in {"done", "failed"}
    BY <1>1, <1>2, <1>10 DEF GoOn, WriteEnd, Return
  <2>2. pending = <<>> /\ Len(file) = Len(events) /\ ScanComplete(file)
    BY <1>1, <2>1 DEF InStep
  <2>3. InStep' /\ LastReturned'
    BY <1>3, <2>1, <2>2 DEF InStep, LastReturned
  <2> QED
    BY <1>1, <1>3, <1>4, <2>1, <2>3 DEF AloneInv, alone
<1> QED
  BY <1>6, <1>7, <1>8, <1>9, <1>10 DEF Store, WriteStep

\* The file of a process that died is complete, or nobody starts from it; the
\* next process is in step with the file it has read.
LEMMA AloneRestart == ASSUME LogInv, StoreInv, AloneInv, alone, Restart PROVE AloneInv'
<1>1. /\ up = "down" /\ UNCHANGED <<pc, ret, file, pending, wpc, writer>> /\ writer \in Threads
      /\ \A t \in Threads : pc[t] = "idle" /\ wpc[t] = "idle"
  BY DEF Restart, storeVars, StoreInv, StoreTyped, NothingRuns, alone
<1>2. FileShape(file) /\ pending = <<>> /\ file \in Seq(LineType)
  BY <1>1 DEF AloneInv, StoreInv, StoreTyped, NothingRuns
<1>3. ASSUME up' = "up" PROVE PrefixOf(file, events') /\ InStep' /\ LastReturned'
  <2>1. events' = ScanEvents(file) /\ ScanComplete(file)
    BY <1>3 DEF Restart
  <2>2. Len(events') = Len(file) /\ \A i \in 1..Len(file) : events'[i] = file[i].ev
    BY <1>2, <2>1, CompleteScan
  <2>3. PrefixOf(file, events')
    BY <1>2, <2>2 DEF PrefixOf
  <2> QED
    BY <1>1, <1>2, <2>1, <2>2, <2>3 DEF InStep, LastReturned
<1> QED
  BY <1>1, <1>2, <1>3 DEF AloneInv, alone, PrefixOf

LEMMA AloneDies ==
    ASSUME StoreInv, AloneInv, alone, LoseMemory, Crash \/ PowerLoss, up' = "down", UNCHANGED writer
    PROVE  AloneInv' /\ \A chain : PrefixOf(file, chain) /\ Len(chain) \in Nat => PrefixOf(file', chain)
<1>1. FileShape(file) /\ file \in Seq(LineType) /\ synced \in 0..Len(file) /\ Writers = Threads
  BY DurableLogAssumption DEF AloneInv, StoreInv, StoreTyped
<1>2. FileShape(file') /\ \A chain : PrefixOf(file, chain) /\ Len(chain) \in Nat => PrefixOf(file', chain)
  <2>1. CASE Crash
    BY <1>1, <2>1 DEF Crash
  <2>2. CASE PowerLoss
    BY <1>1, <2>2, CutShape DEF PowerLoss
  <2> QED
    BY <2>1, <2>2
<1>3. pc' = [t \in Threads |-> "idle"] /\ wpc' = [t \in Threads |-> "idle"]
  BY <1>1 DEF LoseMemory, LoseProcess
<1> QED
  BY <1>1, <1>2, <1>3 DEF AloneInv, alone, FileShape

LEMMA AloneStep ==
    ASSUME Durable, LogInv, StoreInv, AloneInv, [Next]_vars
    PROVE  AloneInv'
<1>1. UNCHANGED writer
  BY DEF Next, Running, Fault, Restart, vars
<1> SUFFICES ASSUME alone PROVE AloneInv'
  BY <1>1 DEF AloneInv, alone
<1>2. /\ writer \in Threads /\ OneStores /\ Nobody \notin Threads
      /\ \A t \in Threads \ {writer} : pc[t] = "idle" /\ wpc[t] = "idle"
  BY DurableLogAssumption, JsonlAssumption DEF AloneInv, StoreInv, StoreTyped, alone
<1>3. CASE Running
  <2>1. up = "up" /\ UNCHANGED <<up, writer>>
    BY <1>3 DEF Running
  <2>2. ~CloseStorage
    BY <1>2, <2>1 DEF CloseStorage, Close, AloneInv, InStep, OneStores
  <2>3. Log(writer) \/ StoreBegin(writer) \/ Store(writer) \/ GoOn(writer)
    BY <1>3, <2>2 DEF Running
  <2> QED
    BY <2>1, <2>3, AloneLog, AloneStore
<1>4. CASE Fault
  <2>1. up = "up"
    BY <1>4 DEF Fault
  <2>2. ~ \E t \in Threads : Retry(t)
    BY <1>2, <2>1 DEF Retry, AloneInv, InStep
  <2> QED
    BY <1>1, <1>4, <2>2, AloneDies DEF Fault, Crash, PowerLoss
<1>5. CASE UNCHANGED vars
  BY <1>1, <1>5
     DEF vars, storeVars, subVars, AloneInv, alone, InStep, LastReturned, FileShape, PrefixOf, ScanComplete
<1> QED
  BY <1>3, <1>4, <1>5, AloneRestart DEF Next

-----------------------------------------------------------------------------
(***************************************************************************)
(* AuditLog.  What it calls durable is the length of the chain up to the   *)
(* newest acknowledged event.                                              *)
(***************************************************************************)
Newest(e) == e \in acked /\ \A d \in acked : d.seq <= e.seq

NewestInv == acked = {} \/ \E e \in acked : Newest(e)

theLog == IF ~alone THEN <<>> ELSE IF up = "up" THEN events ELSE ScanEvents(file)
theDurable == IF alone THEN AckedLength ELSE 0

EndOf(A) == LET ends == {e.seq + 1 : e \in A} IN IF ends = {} THEN 0 ELSE Max(ends)

LEMMA EndIsNewest ==
    ASSUME NEW A, NEW e \in A, \A d \in A : d.seq \in Nat /\ d.seq <= e.seq
    PROVE  EndOf(A) = e.seq + 1
<1> DEFINE ends == {d.seq + 1 : d \in A}
<1>1. e.seq + 1 \in ends
  OBVIOUS
<1>2. \A x \in ends : x \in Int /\ x <= e.seq + 1
  OBVIOUS
<1>3. EndOf(A) = Max(ends)
  BY <1>1 DEF EndOf
<1> HIDE DEF ends
<1>4. Max(ends) \in ends /\ \A y \in ends : Max(ends) >= y
  BY <1>1, <1>2 DEF Max
<1>5. e.seq + 1 \in Int
  BY <1>1, <1>2
<1> QED
  BY <1>1, <1>2, <1>3, <1>4, <1>5

LEMMA AckedLengthIs ==
    ASSUME acked \subseteq ChainedEvent
    PROVE  /\ acked = {} => AckedLength = 0
           /\ \A e : Newest(e) => AckedLength = e.seq + 1
<1>1. AckedLength = EndOf(acked) /\ \A d \in acked : d.seq \in Nat
  BY DEF AckedLength, EndOf, ChainedEvent
<1>2. EndOf({}) = 0
  BY DEF EndOf
<1> QED
  BY <1>1, <1>2, EndIsNewest DEF Newest

LEMMA NextNewest ==
    ASSUME StoreInv, StoreInv', NewestInv, [Next]_vars
    PROVE  NewestInv'
<1>1. acked \subseteq ChainedEvent /\ acked' \subseteq ChainedEvent
  BY DEF StoreInv, StoreTyped
<1>2. ASSUME UNCHANGED acked PROVE NewestInv'
  BY <1>2 DEF NewestInv, Newest
<1>3. ASSUME NEW e, acked' = acked \cup {e} PROVE NewestInv'
  <2>1. e \in ChainedEvent /\ \A d \in acked' : d.seq \in Nat
    BY <1>1, <1>3 DEF ChainedEvent
  <2>2. CASE acked = {}
    BY <1>3, <2>1, <2>2 DEF NewestInv, Newest
  <2>3. ASSUME NEW n \in acked, Newest(n) PROVE NewestInv'
    <3>1. CASE e.seq <= n.seq
      BY <1>3, <2>1, <2>3, <3>1 DEF NewestInv, Newest
    <3>2. CASE n.seq <= e.seq
      BY <1>3, <2>1, <2>3, <3>2 DEF NewestInv, Newest
    <3>3. n.seq \in Nat /\ e.seq \in Nat
      BY <1>3, <2>1
    <3> QED
      BY <3>1, <3>2, <3>3
  <2> QED
    BY <2>2, <2>3 DEF NewestInv
<1>4. UNCHANGED acked \/ \E t \in Threads : acked' = acked \cup {arg[t]}
  <2>1. CASE Running
    <3>1. CASE CloseStorage
      BY <3>1 DEF CloseStorage
    <3>2. ASSUME NEW t \in Threads, Log(t) \/ StoreBegin(t) \/ Store(t) \/ GoOn(t)
          PROVE  UNCHANGED acked \/ acked' = acked \cup {arg[t]}
      BY <3>2 DEF Log, StoreBegin, Store, GoOn
    <3> QED
      BY <2>1, <3>1, <3>2 DEF Running, alone, StoreInv, StoreTyped
  <2>2. CASE ~Running
    BY <2>2 DEF Next, Fault, Crash, PowerLoss, LoseMemory, Retry, Restart, vars
  <2> QED
    BY <2>1, <2>2
<1> QED
  BY <1>2, <1>3, <1>4

\* What a scan reads of such a file: a prefix of the chain, with all whole lines.
LEMMA ScanIsPrefix ==
    ASSUME NEW f \in Seq(LineType), FileShape(f), NEW chain \in Seq(ChainedEvent), PrefixOf(f, chain)
    PROVE  \E n \in 0..Len(chain) : /\ ScanEvents(f) = SubSeq(chain, 1, n)
                                    /\ \A i \in 1..Len(f) : f[i].form = "whole" => i <= n
<1>1. Len(f) \in Nat /\ Len(chain) \in Nat
  OBVIOUS
<1>2. PICK n \in 0..Len(f) : /\ \A i \in 1..n : f[i].form = "whole"
                             /\ n = Len(f) \/ f[n + 1].form # "whole"
                             /\ \A i \in 1..Len(f) : f[i].form = "whole" => i <= n
  <2>1. CASE ScanComplete(f)
    <3>1. Len(f) \in 0..Len(f)
      BY <1>1
    <3> QED
      BY <1>1, <2>1, <3>1 DEF ScanComplete
  <2>2. CASE ~ScanComplete(f)
    <3>1. f[Len(f)].form = "partial" /\ Len(f) \in 1..Len(f)
      BY <1>1, <2>2 DEF ScanComplete, FileShape
    <3>2. \A m \in Nat : m \in 1..m =>
             m - 1 \in 0..m /\ (m - 1) + 1 = m /\ \A i \in 1..m : i = m \/ (i \in 1..(m - 1) /\ i <= m - 1)
      OBVIOUS
    <3>3. Len(f) - 1 \in 0..Len(f) /\ (Len(f) - 1) + 1 = Len(f)
      BY <1>1, <3>1, <3>2
    <3>4. \A i \in 1..Len(f) : i = Len(f) \/ (i \in 1..(Len(f) - 1) /\ i <= Len(f) - 1)
      BY <1>1, <3>1, <3>2
    <3>5. \A i \in 1..(Len(f) - 1) : i \in 1..Len(f) /\ i # Len(f)
      BY <1>1
    <3>6. \A i \in 1..(Len(f) - 1) : f[i].form = "whole"
      BY <3>5 DEF FileShape
    <3> QED
      BY <3>1, <3>3, <3>4, <3>6
  <2> QED
    BY <2>1, <2>2
<1>3. ScanEvents(f) = [k \in 1..n |-> f[k].ev]
  BY <1>2, GoodLinesAre
<1>4. n \in 0..Len(chain) /\ \A k \in 1..n : f[k].ev = chain[k]
  BY <1>1, <1>2 DEF PrefixOf
<1>5. SubSeq(chain, 1, n) = [k \in 1..n |-> chain[k]]
  BY <1>4
<1>6. ScanEvents(f) = SubSeq(chain, 1, n)
  BY <1>3, <1>4, <1>5
<1> QED
  BY <1>2, <1>4, <1>6

RefineInv == LogInv /\ StoreInv /\ DurableInv /\ AloneInv /\ NewestInv

\* What has been acknowledged is in the chain of a running process.
LEMMA AckedLengthFits ==
    ASSUME RefineInv, up = "up"
    PROVE  AckedLength \in 0..Len(events)
<1>1. acked \subseteq ChainedEvent /\ Len(events) \in Nat
  BY DEF RefineInv, StoreInv, StoreTyped, LogInv, IInv, SubTypeOK
<1>2. \A e \in acked : e.seq + 1 \in 1..Len(events)
  BY DEF RefineInv, DurableInv, AckedNeverLost
<1>3. acked = {} => AckedLength = 0
  BY <1>1, AckedLengthIs
<1>4. \A e : Newest(e) => AckedLength = e.seq + 1
  BY <1>1, AckedLengthIs
<1> QED
  BY <1>1, <1>2, <1>3, <1>4 DEF RefineInv, NewestInv, Newest

LEMMA FsyncAcknowledges ==
    ASSUME Durable, RefineInv, RefineInv', alone, up = "up", Store(writer), UNCHANGED <<up, writer>>
    PROVE  Abstract!Acknowledge \/ UNCHANGED <<theLog, theDurable>>
<1>1. /\ UNCHANGED <<events, ret>> /\ writer \in Threads /\ acked' \subseteq ChainedEvent
      /\ (wpc[writer] # "idle" => pc[writer] = "returned" /\ arg[writer] = ret[writer])
  BY DEF Store, subVars, RefineInv, StoreInv, StoreTyped, StoresReturned, alone
<1>2. AckedLength \in 0..Len(events) /\ Len(events) \in Nat
  BY AckedLengthFits DEF RefineInv, LogInv, IInv, SubTypeOK
<1>3. CASE acked' = acked
  BY <1>1, <1>3 DEF theLog, theDurable, alone, AckedLength
<1>4. CASE acked' = acked \cup {arg[writer]}
  <2>1. wpc[writer] # "idle"
    BY DEF Store, WriteStep, RawWrite, FlushDone, FlushFails, Fsync, FsyncFails
  <2>2. arg[writer] = events[Len(events)] /\ events # <<>>
    BY <1>1, <2>1 DEF RefineInv, AloneInv, LastReturned
  <2>3. arg[writer].seq + 1 = Len(events)
    <3>1. Len(events) \in 1..Len(events)
      BY <2>2, <1>2, NothingLeft DEF RefineInv, LogInv, IInv, SubTypeOK
    <3> QED
      BY <1>2, <2>2, <3>1 DEF RefineInv, LogInv, IInv, SeqIsPosition
  <2>4. \A d \in acked' : d.seq + 1 \in 1..Len(events) /\ d.seq \in Nat
    BY <1>1 DEF RefineInv, DurableInv, AckedNeverLost, ChainedEvent
  <2>5. \A d \in acked' : d.seq <= arg[writer].seq
    <3> SUFFICES ASSUME NEW d \in acked' PROVE d.seq <= arg[writer].seq
      OBVIOUS
    <3>1. arg[writer] \in acked'
      BY <1>4
    <3> QED
      BY <1>2, <2>3, <2>4, <3>1
  <2>6. AckedLength' = Len(events)
    <3>1. EndOf(acked') = arg[writer].seq + 1
      BY <1>4, <2>4, <2>5, EndIsNewest
    <3> QED
      BY <2>3, <3>1 DEF AckedLength, EndOf
  <2> QED
    BY <1>1, <1>2, <2>6 DEF theLog, theDurable, alone, Abstract!Acknowledge
<1> QED
  BY <1>3, <1>4 DEF Store

\* A process that dies loses a tail of its chain, and nothing acknowledged.
LEMMA DeathLosesTail ==
    ASSUME RefineInv, alone, up = "up", LoseMemory, Crash \/ PowerLoss, up' = "down", UNCHANGED writer
    PROVE  Abstract!LoseTail
<1>1. /\ file \in Seq(LineType) /\ synced \in 0..Len(file) /\ events \in Seq(ChainedEvent) /\ Len(events) \in Nat
      /\ FileShape(file) /\ PrefixOf(file, events) /\ acked \subseteq ChainedEvent /\ StoreTyped
  BY DEF RefineInv, StoreInv, StoreTyped, LogInv, IInv, SubTypeOK, AloneInv
<1>2. /\ file' \in Seq(LineType) /\ synced <= Len(file') /\ \A i \in 1..synced : file'[i] = file[i]
  BY <1>1, PowerLossKeeps DEF Crash
<1>3. FileShape(file') /\ PrefixOf(file', events)
  BY <1>1, AloneDies DEF RefineInv, AloneInv, alone, FileShape
<1>4. PICK n \in 0..Len(events) : /\ ScanEvents(file') = SubSeq(events, 1, n)
                                  /\ \A i \in 1..Len(file') : file'[i].form = "whole" => i <= n
  BY <1>1, <1>2, <1>3, ScanIsPrefix
<1>5. ASSUME NEW e \in acked PROVE e.seq + 1 <= n
  <2>1. PICK i \in 1..synced : file[i] = Line(e, "whole") \/ file[i].form = "spoiled"
    BY DEF RefineInv, DurableInv, AckedCovered, Covered
  <2>2. i \in 1..Len(file) /\ i \in 1..Len(file') /\ file'[i] = file[i] /\ Len(file') \in Nat
    BY <1>1, <1>2, <2>1
  <2>3. file[i] = Line(e, "whole")
    BY <1>1, <2>1, <2>2 DEF FileShape
  <2>4. i <= n
    BY <1>4, <2>2, <2>3 DEF Line
  <2>5. i \in 1..Len(events) /\ events[i] = e
    BY <1>1, <2>2, <2>3 DEF PrefixOf, Line
  <2>6. e.seq = i - 1
    BY <2>5 DEF RefineInv, LogInv, IInv, SeqIsPosition
  <2> QED
    BY <2>4, <2>5, <2>6
<1>6. AckedLength \in Nat /\ AckedLength <= n
  BY <1>1, <1>4, <1>5, AckedLengthFits, AckedLengthIs DEF RefineInv, NewestInv, Newest
<1>7. n \in AckedLength..Len(events)
  BY <1>1, <1>4, <1>6
<1>8. theLog = events /\ theLog' = SubSeq(events, 1, n) /\ theDurable = AckedLength /\ theDurable' = theDurable
  BY <1>4 DEF theLog, theDurable, alone, AckedLength, LoseMemory
<1> QED
  BY <1>7, <1>8 DEF Abstract!LoseTail, theLog, theDurable

LEMMA LogExtends ==
    ASSUME RefineInv, alone, up = "up", Log(writer), UNCHANGED <<up, writer>>
    PROVE  Abstract!Extend \/ UNCHANGED <<theLog, theDurable>>
<1>1. IInv /\ writer \in Threads /\ events \in Seq(ChainedEvent) /\ UNCHANGED acked
  BY DEF RefineInv, LogInv, IInv, SubTypeOK, StoreInv, StoreTyped, alone, Log
<1>2. CASE Extend(writer)
  <2>1. IInv'
    BY <1>1, <1>2, ExtendInvariant
  <2>2. events' \in Seq(ChainedEvent) /\ Len(events') = Len(events) + 1 /\ \A i \in 1..Len(events) : events'[i] = events[i]
    BY <1>1, <1>2, <2>1, ExtendKeepsEvents DEF IInv, SubTypeOK
  <2>3. SubSeq(events', 1, Len(events)) = events
    <3>1. SubSeq(events', 1, Len(events)) \in Seq(ChainedEvent) /\ Len(SubSeq(events', 1, Len(events))) = Len(events)
      BY <1>1, <2>2
    <3>2. \A i \in 1..Len(events) : SubSeq(events', 1, Len(events))[i] = events[i]
      BY <1>1, <2>2
    <3> QED
      BY <1>1, <3>1, <3>2, SameSequence
  <2>4. events'[Len(events')] \in ChainedEvent
    BY <1>1, <2>2
  <2> QED
    BY <1>1, <2>2, <2>3, <2>4 DEF theLog, theDurable, alone, AckedLength, Abstract!Extend
<1>3. CASE UNCHANGED events
  BY <1>1, <1>3 DEF theLog, theDurable, alone, AckedLength
<1> QED
  BY <1>2, <1>3 DEF Log, AppendStep, Acquire, Reject, SetTip

LEMMA StepsAudit ==
    ASSUME Durable, RefineInv, RefineInv', [Next]_vars
    PROVE  [Abstract!Next]_<<theLog, theDurable>>
<1>1. UNCHANGED writer
  BY DEF Next, Running, Fault, Restart, vars
<1>2. CASE ~alone
  BY <1>1, <1>2 DEF theLog, theDurable, alone
<1>3. ASSUME UNCHANGED <<events, acked, up, file>> PROVE UNCHANGED <<theLog, theDurable>>
  BY <1>1, <1>3 DEF theLog, theDurable, alone, AckedLength, ScanEvents, GoodLines
<1>4. CASE alone /\ Running
  <2>1. up = "up" /\ UNCHANGED <<up, writer>>
    BY <1>4 DEF Running
  <2>2. CASE Log(writer)
    BY <1>4, <2>1, <2>2, LogExtends DEF Abstract!Next
  <2>3. CASE Store(writer)
    BY <1>4, <2>1, <2>3, FsyncAcknowledges DEF Abstract!Next
  <2>4. CASE StoreBegin(writer) \/ GoOn(writer) \/ CloseStorage
    <3>1. UNCHANGED <<events, acked>>
      BY <2>4 DEF StoreBegin, GoOn, CloseStorage, Return, subVars
    <3> QED
      BY <1>1, <2>1, <3>1 DEF theLog, theDurable, alone, AckedLength
  <2> QED
    BY <1>4, <2>2, <2>3, <2>4 DEF Running
<1>5. CASE alone /\ Fault
  <2>1. CASE (Crash \/ PowerLoss) /\ up' = "down"
    BY <1>1, <1>5, <2>1, DeathLosesTail DEF Fault, Crash, PowerLoss, Abstract!Next
  <2>2. CASE \E t \in Threads : Retry(t) /\ UNCHANGED up
    BY <1>1, <1>5, <2>2 DEF Fault, Retry, subVars, theLog, theDurable, alone, AckedLength
  <2> QED
    BY <1>5, <2>1, <2>2 DEF Fault
<1>6. CASE alone /\ Restart
  <2>1. UNCHANGED <<acked, file>> /\ up = "down" /\ up' \in {"up", "refused"}
        /\ (up' = "up" => events' = ScanEvents(file))
    BY <1>6 DEF Restart, storeVars
  <2>2. ScanEvents(file)' = ScanEvents(file)
    BY <2>1 DEF ScanEvents, GoodLines
  <2> QED
    BY <1>1, <1>6, <2>1, <2>2 DEF theLog, theDurable, alone, AckedLength
<1>7. CASE UNCHANGED vars
  BY <1>3, <1>7 DEF vars, subVars, storeVars
<1> QED
  BY <1>2, <1>4, <1>5, <1>6, <1>7 DEF Next

\* docs/quickstart.md's loop with one writer: whatever crashes and power losses,
\* the log is the append-only AuditLog, whose acknowledged prefix is never lost.
THEOREM ImplementsAuditLog == ASSUME Durable PROVE Spec => AppendOnlyLog
<1>1. Init => RefineInv
  <2>1. Init => DurableInv
    BY DurableLogAssumption DEF Init, StoreInit, DurableInv, OnItsWay, AckedCovered, AckedNeverLost
  <2>2. Init => AloneInv /\ NewestInv
    BY DurableLogAssumption, SubstrateAssumption
       DEF Init, SubInit, StoreInit, AloneInv, alone, FileShape, PrefixOf, InStep, LastReturned, ScanComplete, NewestInv
  <2> QED
    BY <2>1, <2>2, InitLog DEF RefineInv
<1>2. RefineInv /\ [Next]_vars => RefineInv'
  BY NextLog, NextStore, NextDurable, AloneStep, NextNewest DEF RefineInv
<1>3. Init => Abstract!Init
  BY AckedLengthIs DEF Init, SubInit, StoreInit, alone, Abstract!Init
<1>4. RefineInv /\ RefineInv' /\ [Next]_vars => [Abstract!Next]_<<theLog, theDurable>>
  BY StepsAudit
<1> QED
  BY <1>1, <1>2, <1>3, <1>4, PTL DEF Spec, AppendOnlyLog, Abstract!Spec, theLog, theDurable

=============================================================================
