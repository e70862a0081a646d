----------------------------- MODULE MergeProofs -----------------------------
(***************************************************************************)
(* Proofs about merge_pr for any number of workflows, attempts and crashes,*)
(* whether or not a retry overlaps the attempts before it.                 *)
(*                                                                         *)
(* Owned: the row of a workflow whose awaited attempt is in the lock is of *)
(* this process and no older than that attempt.  Since Budget < TTL and    *)
(* the holder lives, no other workflow may take that row; only an attempt  *)
(* of the same workflow may still delete it.                               *)
(***************************************************************************)
EXTENDS MergePr, TLAPS

Gone == {"none", "ended"}

PlacesTyped ==
    /\ LockTypeOK
    /\ pc \in [Attempts -> Places]
    /\ attempt \in [Workflows -> 0..MaxAttempts]
    /\ awaited \in [Workflows -> BOOLEAN]
    /\ age \in [Workflows -> 0..Budget]

\* Only an attempt that was started is anywhere.
Started ==
    \A w \in Workflows, k \in 1..MaxAttempts : pc[<<w, k>>] # "none" => k <= attempt[w]

AwaitedIsStarted == \A w \in Workflows : awaited[w] => attempt[w] > 0

PInv == PlacesTyped /\ Started /\ AwaitedIsStarted

InLock(w) == awaited[w] /\ pc[<<w, attempt[w]>>] \in Inside

Owns(w) == row # None /\ row.wf = w /\ row.pid = pid /\ row.host = host /\ row.age <= age[w]

Owned == \A w \in Workflows : InLock(w) /\ verify_merge_lock(w) => Owns(w)

HInv == PInv /\ Owned

-----------------------------------------------------------------------------
\* What most steps of an attempt do: it goes from one place to another.
Moves(a, place) ==
    /\ pc[a] \notin Gone
    /\ place \in Places \ {"none"}
    /\ GoTo(a, place)
    /\ UNCHANGED attempt

LEMMA PlacesOf == Inside \subseteq Places /\ Gone \subseteq Places /\ Inside \cap Gone = {}
BY DEF Inside, Rebasing, Places, Gone

LEMMA AttemptIsPair ==
    ASSUME NEW a \in Attempts
    PROVE  a[1] \in Workflows /\ a[2] \in 1..MaxAttempts /\ a = <<a[1], a[2]>>
BY DEF Attempts

LEMMA MovesKeepsPlaces ==
    ASSUME PInv, NEW a \in Attempts, NEW place, Moves(a, place), LockTypeOK', UNCHANGED <<awaited, age>>
    PROVE  PInv'
<1>1. PlacesTyped'
  BY DEF PInv, PlacesTyped, Moves, GoTo
<1>2. \A w \in Workflows, k \in 1..MaxAttempts :
          /\ <<w, k>> \in Attempts
          /\ pc'[<<w, k>>] # "none" => pc[<<w, k>>] # "none"
  BY DEF Attempts, PInv, PlacesTyped, Moves, GoTo, Gone
<1>3. Started'
  BY <1>2 DEF PInv, Started, Moves
<1>4. AwaitedIsStarted'
  BY DEF PInv, AwaitedIsStarted, Moves
<1> QED
  BY <1>1, <1>3, <1>4 DEF PInv

\* The steps of an attempt that leave the row and Temporal alone.
Quiet(a) ==
    \E place \in Places :
        /\ Moves(a, place)
        /\ place \in Inside => pc[a] \in Inside
        /\ UNCHANGED <<lockVars, awaited, age>>

LEMMA QuietSteps ==
    ASSUME NEW a \in Attempts, AttemptStep(a),
           ~AcquireLock(a), ~ReleaseLock(a), ~Finish(a), ~ThreadStep(a), ~Cancel(a)
    PROVE  Quiet(a)
<1> USE DEF Quiet, Moves, Places, Rebasing, Gone, Inside, GoTo, Return, temporalVars
<1>1. CASE Raise(a)
  BY <1>1 DEF Raise
<1>2. CASE CheckState(a)
  BY <1>2 DEF CheckState
<1>3. CASE WaitCI(a)
  BY <1>3 DEF WaitCI
<1>4. CASE CheckLocked(a)
  BY <1>4 DEF CheckLocked
<1>5. CASE MergeBase(a)
  BY <1>5 DEF MergeBase
<1>6. CASE Fetch(a)
  BY <1>6 DEF Fetch
<1>7. CASE Push(a)
  <2>1. pc[a] \in {"push", "push_again"} /\ \E place \in {"post_ci", "fetch_again", "conflict"} : GoTo(a, place)
    BY <1>7 DEF Push, AfterFailure
  <2> QED
    BY <1>7, <2>1 DEF Push
<1>8. CASE Conflict(a)
  BY <1>8 DEF Conflict
<1>9. CASE PostClean(a)
  BY <1>9 DEF PostClean
<1>10. CASE PostBlocked(a)
  BY <1>10 DEF PostBlocked
<1>11. CASE PostTimeout(a)
  BY <1>11 DEF PostTimeout
<1>12. CASE VerifyLock(a)
  BY <1>12 DEF VerifyLock
<1>13. CASE Merge(a)
  <2>1. pc[a] = "merge" /\ GoTo(a, "release") /\ UNCHANGED <<lockVars, temporalVars>>
    BY <1>13 DEF Merge
  <2> QED
    BY <2>1
<1>14. CASE CloseFailed(a)
  BY <1>14 DEF CloseFailed
<1>15. CASE RebaseFails(a)
  BY <1>15 DEF RebaseFails, AfterFailure
<1> QED
  BY <1>1, <1>2, <1>3, <1>4, <1>5, <1>6, <1>7, <1>8, <1>9, <1>10, <1>11, <1>12, <1>13, <1>14, <1>15
     DEF AttemptStep

\* A cancelled attempt lets go of the lock or ends.
LEMMA CancelIsQuiet == ASSUME NEW a \in Attempts, Cancel(a) PROVE Quiet(a)
BY DEF Cancel, Quiet, Moves, Places, Rebasing, Gone, Inside, GoTo, Return, temporalVars

\* A call in a thread takes the row for its workflow or leaves it.
LEMMA ThreadSteps ==
    ASSUME NEW a \in Attempts, ThreadStep(a)
    PROVE  UNCHANGED <<pc, attempt, awaited, age, ret, stage, result>> /\ (TakeRow(a) \/ UNCHANGED lockVars)
BY DEF ThreadStep, temporalVars

-----------------------------------------------------------------------------
LEMMA InitPlaces == Init => PInv
<1> SUFFICES ASSUME Init PROVE PInv
  OBVIOUS
<1>1. PlacesTyped
  BY MergeLockAssumption, MergePrAssumption
     DEF Init, LockInit, LockTypeOK, PlacesTyped, Places
<1>2. Started
  BY DEF Init, Started, Attempts
<1>3. AwaitedIsStarted
  BY DEF Init, AwaitedIsStarted
<1> QED
  BY <1>1, <1>2, <1>3 DEF PInv

\* Every way to write the row leaves a row.
LEMMA RowTyped ==
    ASSUME LockTypeOK, NEW w \in Workflows
    PROVE  NewRow(w) \in Row /\ released_row(w) \in Row \cup {None}
BY MergeLockAssumption DEF LockTypeOK, NewRow, released_row, Row

LEMMA TakenRow ==
    ASSUME LockTypeOK, NEW a \in Attempts, TakeRow(a)
    PROVE  LockTypeOK'
BY RowTyped, AttemptIsPair DEF TakeRow, LockTypeOK

LEMMA AgedRow ==
    ASSUME LockTypeOK, AgeRow
    PROVE  /\ row' \in Row \cup {None}
           /\ row' = None <=> row = None
           /\ row # None => /\ row'.wf = row.wf /\ row'.pid = row.pid /\ row'.host = row.host
                            /\ row'.age <= row.age + 1
<1>1. CASE row # None /\ row.age < TTL
  <2>1. row \in Row /\ row' = [row EXCEPT !.age = row.age + 1]
    BY <1>1 DEF AgeRow, LockTypeOK
  <2>2. row.age \in 0..TTL /\ row.age + 1 \in 0..TTL
    BY <1>1, <2>1, MergeLockAssumption DEF Row
  <2>3. row' \in Row /\ row'.wf = row.wf /\ row'.pid = row.pid /\ row'.host = row.host
        /\ row'.age = row.age + 1
    BY <2>1, <2>2 DEF Row
  <2> QED
    BY <1>1, <2>2, <2>3, MergeLockAssumption
<1>2. CASE ~(row # None /\ row.age < TTL)
  BY <1>2 DEF AgeRow, LockTypeOK, Row
<1> QED
  BY <1>1, <1>2

LEMMA StepPlaces == PInv /\ [Next]_vars => PInv'
<1> SUFFICES ASSUME PInv, [Next]_vars PROVE PInv'
  OBVIOUS
<1>0. LockTypeOK
  BY DEF PInv, PlacesTyped
<1>Q. ASSUME NEW a \in Attempts, Quiet(a) PROVE PInv'
  <2>1. PICK place \in Places : Moves(a, place) /\ UNCHANGED <<lockVars, awaited, age>>
    BY <1>Q DEF Quiet
  <2>2. LockTypeOK'
    BY <1>0, <2>1 DEF LockTypeOK, lockVars
  <2> QED
    BY <2>1, <2>2, MovesKeepsPlaces
<1>1. ASSUME NEW a \in Attempts, AttemptStep(a) PROVE PInv'
  <2>1. CASE AcquireLock(a)
    <3>1. Moves(a, "locked")
      BY <2>1 DEF AcquireLock, Moves, Gone, Places, Inside, temporalVars
    <3> QED
      BY <1>0, <2>1, <3>1, TakenRow, MovesKeepsPlaces DEF AcquireLock, temporalVars
  <2>2. CASE ReleaseLock(a)
    <3>1. LockTypeOK'
      BY <1>0, <2>2, RowTyped, AttemptIsPair DEF ReleaseLock, LockTypeOK
    <3>2. Moves(a, "finish")
      BY <2>2 DEF ReleaseLock, Moves, Gone, Places, Inside, temporalVars
    <3> QED
      BY <2>2, <3>1, <3>2, MovesKeepsPlaces DEF ReleaseLock, temporalVars
  <2>3. CASE Finish(a)
    <3>1. /\ pc[a] = "finish"
          /\ pc' = [pc EXCEPT ![a] = "ended"]
          /\ UNCHANGED <<lockVars, attempt>>
          /\ \/ UNCHANGED <<awaited, age>>
             \/ /\ awaited' = [awaited EXCEPT ![a[1]] = FALSE]
                /\ age' = [age EXCEPT ![a[1]] = 0]
      BY <2>3 DEF Finish, GoTo
    <3>a. awaited' \in [Workflows -> BOOLEAN] /\ age' \in [Workflows -> 0..Budget]
      <4>1. 0 \in 0..Budget /\ awaited \in [Workflows -> BOOLEAN] /\ age \in [Workflows -> 0..Budget]
        BY MergePrAssumption DEF PInv, PlacesTyped
      <4>2. CASE UNCHANGED <<awaited, age>>
        BY <4>1, <4>2
      <4>3. CASE awaited' = [awaited EXCEPT ![a[1]] = FALSE] /\ age' = [age EXCEPT ![a[1]] = 0]
        BY <4>1, <4>3
      <4> QED
        BY <3>1, <4>2, <4>3
    <3>b. LockTypeOK'
      BY <1>0, <3>1 DEF LockTypeOK, lockVars
    <3>2. PlacesTyped'
      BY <3>1, <3>a, <3>b, PlacesOf DEF PInv, PlacesTyped, Gone
    <3>3. Started'
      BY <3>1 DEF PInv, PlacesTyped, Started, Attempts
    <3>4. AwaitedIsStarted'
      BY <3>1 DEF PInv, PlacesTyped, AwaitedIsStarted
    <3> QED
      BY <3>2, <3>3, <3>4 DEF PInv
  <2>4. CASE ThreadStep(a)
    <3>1. LockTypeOK'
      BY <1>0, <2>4, ThreadSteps, TakenRow DEF LockTypeOK, lockVars
    <3> QED
      BY <2>4, <3>1, ThreadSteps DEF PInv, PlacesTyped, Started, AwaitedIsStarted
  <2>5. CASE Cancel(a)
    BY <1>Q, <2>5, CancelIsQuiet
  <2>6. CASE ~AcquireLock(a) /\ ~ReleaseLock(a) /\ ~Finish(a) /\ ~ThreadStep(a) /\ ~Cancel(a)
    BY <1>1, <1>Q, <2>6, QuietSteps
  <2> QED
    BY <2>1, <2>2, <2>3, <2>4, <2>5, <2>6
<1>2. ASSUME NEW w \in Workflows, StartAttempt(w) PROVE PInv'
  <2> DEFINE k0 == attempt[w] + 1
  <2>1. /\ ~awaited[w] /\ k0 \in 1..MaxAttempts /\ <<w, k0>> \in Attempts /\ k0 > attempt[w]
        /\ attempt' = [attempt EXCEPT ![w] = k0]
        /\ awaited' = [awaited EXCEPT ![w] = TRUE]
        /\ age' = [age EXCEPT ![w] = 0]
        /\ pc' = [pc EXCEPT ![<<w, k0>>] = "check"]
        /\ UNCHANGED lockVars
    BY <1>2, MergePrAssumption DEF StartAttempt, GoTo, PInv, PlacesTyped, Attempts
  <2> HIDE DEF k0
  <2>2. PlacesTyped'
    BY <2>1, MergePrAssumption DEF PInv, PlacesTyped, LockTypeOK, lockVars, Places
  <2>3. ASSUME NEW v \in Workflows, NEW k \in 1..MaxAttempts, pc'[<<v, k>>] # "none"
        PROVE  k <= attempt'[v]
    <3>1. CASE v = w /\ k = k0
      BY <2>1, <3>1 DEF PInv, PlacesTyped
    <3>2. CASE ~(v = w /\ k = k0)
      <4>1. pc[<<v, k>>] # "none"
        BY <2>1, <2>3, <3>2 DEF PInv, PlacesTyped, Attempts
      <4>2. k <= attempt[v] /\ attempt[v] \in 0..MaxAttempts
        BY <4>1 DEF PInv, PlacesTyped, Started
      <4>3. attempt'[v] = attempt[v] \/ (v = w /\ attempt'[v] = k0)
        BY <2>1 DEF PInv, PlacesTyped
      <4> QED
        BY <2>1, <4>2, <4>3
    <3> QED
      BY <3>1, <3>2
  <2>4. AwaitedIsStarted'
    BY <2>1 DEF PInv, PlacesTyped, AwaitedIsStarted
  <2> QED
    BY <2>2, <2>3, <2>4 DEF PInv, Started
<1>3. ASSUME NEW w \in Workflows, TimeOut(w) PROVE PInv'
  <2>1. /\ awaited' = [awaited EXCEPT ![w] = FALSE]
        /\ age' = [age EXCEPT ![w] = 0]
        /\ UNCHANGED <<lockVars, pc, attempt>>
    BY <1>3 DEF TimeOut, attemptVars
  <2> QED
    BY <1>0, <2>1, MergePrAssumption DEF PInv, PlacesTyped, LockTypeOK, lockVars, Started, AwaitedIsStarted
<1>4. CASE Tick
  <2>1. LockTypeOK'
    BY <1>4, AgedRow DEF Tick, PInv, PlacesTyped, LockTypeOK
  <2>2. age' \in [Workflows -> 0..Budget]
    BY <1>4, MergePrAssumption DEF Tick, PInv, PlacesTyped
  <2> QED
    BY <1>4, <2>1, <2>2 DEF Tick, PInv, PlacesTyped, Started, AwaitedIsStarted, attemptVars
<1>5. CASE Crash
  <2>1. LockTypeOK'
    BY <1>5, MergeLockAssumption DEF Crash, NewProcess, PInv, PlacesTyped, LockTypeOK
  <2>2. pc' = [a \in Attempts |-> IF pc[a] = "none" THEN "none" ELSE "ended"] /\ UNCHANGED temporalVars
    BY <1>5 DEF Crash
  <2>3. PlacesTyped'
    BY <2>1, <2>2 DEF temporalVars, PInv, PlacesTyped, Places
  <2>4. Started' /\ AwaitedIsStarted'
    BY <2>2 DEF temporalVars, PInv, Started, AwaitedIsStarted, Attempts
  <2> QED
    BY <2>3, <2>4 DEF PInv
<1>6. CASE UNCHANGED <<lockVars, pc, attempt, awaited, age>>
  BY <1>6 DEF PInv, PlacesTyped, LockTypeOK, Started, AwaitedIsStarted, lockVars
<1> QED
  BY <1>1, <1>2, <1>3, <1>4, <1>5, <1>6
     DEF Next, CIStep, CatchUp, OtherPush, OtherFetch, vars, attemptVars, temporalVars

-----------------------------------------------------------------------------
\* Who is in the lock with a row of its own keeps every other workflow out.
LEMMA OwnerExcludes ==
    ASSUME PInv, NEW v \in Workflows, NEW w \in Workflows, Owns(v), takes_lock(w)
    PROVE  w = v
<1>1. row \in Row /\ age[v] \in 0..Budget
  BY DEF Owns, PInv, PlacesTyped, LockTypeOK
<1>2. row.age \in Int /\ age[v] \in Int /\ age[v] <= Budget /\ Budget < TTL /\ Budget \in Int /\ TTL \in Int
  BY <1>1, MergePrAssumption, MergeLockAssumption DEF Row
<1>3. ~(row.age >= TTL)
  BY <1>2 DEF Owns
<1> QED
  BY <1>3 DEF Owns, takes_lock, holder_alive

\* A row just taken is of this process and of age 0.
LEMMA NewRowIsOwn ==
    ASSUME PInv, PInv', NEW a \in Attempts, TakeRow(a), NEW v \in Workflows, verify_merge_lock(v)'
    PROVE  v = a[1] /\ Owns(v)'
<1>1. row' = NewRow(a[1]) /\ UNCHANGED <<pid, host>>
  BY DEF TakeRow
<1>2. row' # None /\ row'.wf = v
  BY DEF verify_merge_lock
<1>3. age'[v] \in 0..Budget
  BY DEF PInv, PlacesTyped
<1> QED
  BY <1>1, <1>2, <1>3 DEF NewRow, Owns

\* What keeps the row, and the age of who was and is in the lock, keeps Owned.
LEMMA OwnedKept ==
    ASSUME Owned, NEW v \in Workflows, InLock(v), verify_merge_lock(v)', UNCHANGED <<row, pid, host>>,
           age'[v] = age[v]
    PROVE  Owns(v)'
BY DEF Owned, Owns, verify_merge_lock

LEMMA StepOwned == ASSUME PInv, Owned, [Next]_vars PROVE Owned'
<1>P. PInv'
  BY StepPlaces
<1> SUFFICES ASSUME NEW v \in Workflows, InLock(v)', verify_merge_lock(v)' PROVE Owns(v)'
  BY DEF Owned
<1>0. \A w \in Workflows : attempt[w] \in 0..MaxAttempts
  BY DEF PInv, PlacesTyped
<1>Q. ASSUME NEW a \in Attempts, Quiet(a) PROVE Owns(v)'
  <2>1. PICK place \in Places :
            /\ Moves(a, place)
            /\ place \in Inside => pc[a] \in Inside
            /\ UNCHANGED <<lockVars, awaited, age>>
    BY <1>Q DEF Quiet
  <2>2. <<v, attempt[v]>> \in Attempts
    BY <1>0, <2>1 DEF Moves, InLock, PInv, AwaitedIsStarted, Attempts
  <2>3. InLock(v)
    BY <2>1, <2>2 DEF Moves, GoTo, InLock, PInv, PlacesTyped
  <2> QED
    BY <2>1, <2>3, OwnedKept DEF lockVars
<1>1. ASSUME NEW a \in Attempts, AttemptStep(a) PROVE Owns(v)'
  <2>1. CASE AcquireLock(a)
    BY <1>P, <2>1, NewRowIsOwn DEF AcquireLock
  <2>2. CASE ReleaseLock(a)
    <3>1. /\ pc' = [pc EXCEPT ![a] = "finish"] /\ row' = released_row(a[1])
          /\ UNCHANGED <<pid, host, attempt, awaited, age>>
      BY <2>2 DEF ReleaseLock, GoTo, temporalVars
    <3>2. <<v, attempt[v]>> \in Attempts
      BY <1>0, <3>1 DEF InLock, PInv, AwaitedIsStarted, Attempts
    <3>3. InLock(v)
      BY <3>1, <3>2 DEF InLock, Inside, Rebasing, PInv, PlacesTyped
    <3>4. row' = row
      BY <3>1 DEF released_row, verify_merge_lock
    <3> QED
      BY <3>1, <3>3, <3>4, OwnedKept
  <2>3. CASE Finish(a)
    <3>1. /\ pc' = [pc EXCEPT ![a] = "ended"] /\ UNCHANGED <<lockVars, attempt>>
          /\ \/ UNCHANGED <<awaited, age>>
             \/ /\ awaited' = [awaited EXCEPT ![a[1]] = FALSE]
                /\ age' = [age EXCEPT ![a[1]] = 0]
      BY <2>3 DEF Finish, GoTo
    <3>2. awaited[v] /\ age'[v] = age[v]
      BY <3>1 DEF InLock, PInv, PlacesTyped
    <3>3. <<v, attempt[v]>> \in Attempts
      BY <1>0, <3>2 DEF PInv, AwaitedIsStarted, Attempts
    <3>4. InLock(v)
      BY <3>1, <3>2, <3>3 DEF InLock, Inside, Rebasing, PInv, PlacesTyped
    <3> QED
      BY <3>1, <3>2, <3>4, OwnedKept DEF lockVars
  <2>4. CASE ThreadStep(a)
    <3>1. UNCHANGED <<pc, attempt, awaited, age>> /\ (TakeRow(a) \/ UNCHANGED lockVars)
      BY <2>4, ThreadSteps
    <3>2. CASE TakeRow(a)
      BY <1>P, <3>2, NewRowIsOwn
    <3>3. CASE UNCHANGED lockVars
      BY <3>1, <3>3, OwnedKept DEF InLock, lockVars
    <3> QED
      BY <3>1, <3>2, <3>3
  <2>5. CASE Cancel(a)
    BY <1>Q, <2>5, CancelIsQuiet
  <2>6. CASE ~AcquireLock(a) /\ ~ReleaseLock(a) /\ ~Finish(a) /\ ~ThreadStep(a) /\ ~Cancel(a)
    BY <1>1, <1>Q, <2>6, QuietSteps
  <2> QED
    BY <2>1, <2>2, <2>3, <2>4, <2>5, <2>6
<1>2. ASSUME NEW w \in Workflows, StartAttempt(w) PROVE Owns(v)'
  <2>1. <<w, attempt[w] + 1>> \in Attempts
    BY <1>2, <1>0, MergePrAssumption DEF StartAttempt, Attempts
  <2>2. v # w
    BY <1>2, <2>1 DEF StartAttempt, GoTo, InLock, Inside, Rebasing, PInv, PlacesTyped
  <2>3. InLock(v) /\ age'[v] = age[v]
    BY <1>2, <2>2 DEF StartAttempt, GoTo, InLock, PInv, PlacesTyped
  <2> QED
    BY <1>2, <2>3, OwnedKept DEF StartAttempt, lockVars
<1>3. ASSUME NEW w \in Workflows, TimeOut(w) PROVE Owns(v)'
  <2>1. v # w
    BY <1>3 DEF TimeOut, InLock, PInv, PlacesTyped
  <2>2. InLock(v) /\ age'[v] = age[v]
    BY <1>3, <2>1 DEF TimeOut, attemptVars, InLock, PInv, PlacesTyped
  <2> QED
    BY <1>3, <2>2, OwnedKept DEF TimeOut, lockVars
<1>4. CASE Tick
  <2>1. InLock(v) /\ UNCHANGED <<pid, host>>
    BY <1>4 DEF Tick, InLock, attemptVars
  <2>2. age'[v] = age[v] + 1 /\ age[v] \in Nat
    BY <1>4, <2>1 DEF Tick, InLock, PInv, PlacesTyped
  <2>3. LockTypeOK /\ AgeRow
    BY <1>4 DEF Tick, PInv, PlacesTyped
  <2>4. verify_merge_lock(v)
    BY <2>3, AgedRow DEF verify_merge_lock
  <2>5. row # None /\ row.wf = v /\ row.pid = pid /\ row.host = host /\ row.age <= age[v]
    BY <2>1, <2>4 DEF Owned, Owns
  <2>6. /\ row' # None /\ row'.wf = v /\ row'.pid = pid /\ row'.host = host
        /\ row'.age <= row.age + 1
    BY <2>3, <2>5, AgedRow
  <2>7. row.age \in Int /\ row'.age \in Int
    BY <2>3, <2>5, <2>6, AgedRow DEF LockTypeOK, Row
  <2>8. row'.age <= age'[v]
    BY <2>2, <2>5, <2>6, <2>7
  <2> QED
    BY <2>1, <2>6, <2>8 DEF Owns
<1>5. CASE Crash
  <2>1. <<v, attempt[v]>> \in Attempts
    BY <1>0, <1>5 DEF Crash, temporalVars, InLock, PInv, AwaitedIsStarted, Attempts
  <2> QED
    BY <1>5, <2>1 DEF Crash, temporalVars, InLock, Inside, Rebasing
<1>6. CASE UNCHANGED <<lockVars, pc, attempt, awaited, age>>
  BY <1>6, OwnedKept DEF InLock, lockVars
<1> QED
  BY <1>1, <1>2, <1>3, <1>4, <1>5, <1>6
     DEF Next, CIStep, CatchUp, OtherPush, OtherFetch, vars, attemptVars, temporalVars

\* db.py:22-23: the awaited attempt of a workflow that has the lock loses it only
\* to the finally clause of an earlier attempt of the same workflow, for any
\* number of workflows, attempts and crashes and any TTL above the budget.
THEOREM OnlyItselfTakesIt == Spec => LosesRowOnlyToItself
<1>1. Init => HInv
  BY InitPlaces DEF Init, HInv, Owned, InLock
<1>2. HInv /\ [Next]_vars => HInv'
  BY StepPlaces, StepOwned DEF HInv
<1>3. HInv /\ [Next]_vars =>
          [\A w \in Workflows :
              (/\ awaited[w] /\ pc[<<w, attempt[w]>>] \in Inside /\ verify_merge_lock(w)
               /\ UNCHANGED pc[<<w, attempt[w]>>] /\ ~verify_merge_lock(w)')
                  => \E k \in 1..(attempt[w] - 1) :
                         pc[<<w, k>>] = "release" /\ pc'[<<w, k>>] = "finish"]_vars
  <2> SUFFICES ASSUME HInv, [Next]_vars, NEW w \in Workflows,
                      InLock(w), verify_merge_lock(w), ~verify_merge_lock(w)'
               PROVE  \E k \in 1..(attempt[w] - 1) : pc[<<w, k>>] = "release" /\ pc'[<<w, k>>] = "finish"
    BY DEF InLock
  <2>0. PInv /\ Owns(w)
    BY DEF HInv, Owned
  <2>1. ASSUME NEW a \in Attempts, TakeRow(a) PROVE FALSE
    <3>1. a[1] = w
      BY <2>0, <2>1, OwnerExcludes, AttemptIsPair DEF TakeRow
    <3>2. row' = NewRow(w) /\ LockTypeOK
      BY <2>1, <3>1 DEF TakeRow, HInv, PInv, PlacesTyped
    <3> QED
      BY <3>2, RowTyped, MergeLockAssumption DEF verify_merge_lock, NewRow
  <2>2. ASSUME NEW a \in Attempts, ReleaseLock(a)
        PROVE  \E k \in 1..(attempt[w] - 1) : pc[<<w, k>>] = "release" /\ pc'[<<w, k>>] = "finish"
    <3>1. pc[a] = "release" /\ pc' = [pc EXCEPT ![a] = "finish"] /\ row' = released_row(a[1])
      BY <2>2 DEF ReleaseLock, GoTo
    <3>2. verify_merge_lock(a[1])
      BY <3>1 DEF released_row, verify_merge_lock
    <3>3. a[1] = w
      BY <3>2 DEF verify_merge_lock
    <3>4. a = <<w, a[2]>> /\ a[2] \in 1..MaxAttempts
      BY <3>3, AttemptIsPair
    <3>5. a[2] <= attempt[w]
      BY <2>0, <3>1, <3>4 DEF PInv, Started
    <3>6. a[2] # attempt[w]
      BY <3>1, <3>4 DEF InLock, Inside, Rebasing
    <3>7. attempt[w] \in 0..MaxAttempts /\ MaxAttempts \in Nat /\ pc \in [Attempts -> Places]
      BY <2>0, MergePrAssumption DEF PInv, PlacesTyped
    <3>8. a[2] \in 1..(attempt[w] - 1)
      BY <3>4, <3>5, <3>6, <3>7
    <3>9. pc[<<w, a[2]>>] = "release" /\ pc'[<<w, a[2]>>] = "finish"
      BY <3>1, <3>4, <3>7
    <3> QED
      BY <3>8, <3>9
  <2>3. CASE UNCHANGED row
    BY <2>3 DEF verify_merge_lock
  <2>4. CASE Tick
    BY <2>0, <2>4, AgedRow DEF Tick, PInv, PlacesTyped, verify_merge_lock
  <2>5. ASSUME NEW a \in Attempts, AttemptStep(a)
        PROVE  TakeRow(a) \/ ReleaseLock(a) \/ UNCHANGED row
    BY <2>5, QuietSteps, CancelIsQuiet, ThreadSteps DEF AcquireLock, Finish, Quiet, lockVars
  <2> QED
    BY <2>1, <2>2, <2>3, <2>4, <2>5
       DEF Next, StartAttempt, TimeOut, CIStep, CatchUp, OtherPush, OtherFetch, Crash, NewProcess, vars, lockVars
<1> QED
  BY <1>1, <1>2, <1>3, PTL DEF Spec, LosesRowOnlyToItself

-----------------------------------------------------------------------------
RecordsTyped ==
    /\ pr \in [Workflows -> {"OPEN", "CLOSED", "MERGED"}]
    /\ ret \in [Attempts -> Returns]
    /\ stage \in [Workflows -> {"approved", "merged", "failed", "merge_conflict"}]
    /\ result \in [Workflows -> Returns \cup {"none"}]

\* What an attempt is about to say of a merge is so.
ReturnsAreReal == \A a \in Attempts : ret[a] \in {"merged", "skipped"} => pr[a[1]] = "MERGED"

RInv == RecordsTyped /\ ReturnsAreReal /\ RecordedMergeIsReal

\* A step that changes the state of one pull request leaves a merged one merged.
MergedStays ==
    /\ pr' \in [Workflows -> {"OPEN", "CLOSED", "MERGED"}]
    /\ \A w \in Workflows : pr[w] = "MERGED" => pr'[w] = "MERGED"

\* The steps of one attempt, by what they return and record.
LEMMA Records ==
    ASSUME RInv, NEW a \in Attempts, NEW r \in Returns, NEW s \in {"approved", "merged", "failed", "merge_conflict"},
           ret' = [ret EXCEPT ![a] = r] \/ ret' = ret,
           stage' = [stage EXCEPT ![a[1]] = s] \/ stage' = stage,
           MergedStays,
           r \in {"merged", "skipped"} \/ s = "merged" => pr'[a[1]] = "MERGED",
           UNCHANGED result
    PROVE  RInv'
<1>1. a[1] \in Workflows
  BY AttemptIsPair
<1>2. RecordsTyped'
  BY <1>1 DEF RInv, RecordsTyped, MergedStays
<1>3. ReturnsAreReal'
  BY <1>1, AttemptIsPair DEF RInv, RecordsTyped, ReturnsAreReal, MergedStays
<1>4. RecordedMergeIsReal'
  BY <1>1 DEF RInv, RecordsTyped, RecordedMergeIsReal, MergedStays
<1> QED
  BY <1>2, <1>3, <1>4 DEF RInv

\* Neither gh pr close nor gh pr merge takes a merge back.
LEMMA CallsKeepMerges ==
    ASSUME RecordsTyped, NEW a \in Attempts, ClosePr(a) \/ Squash(a) \/ UNCHANGED pr
    PROVE  MergedStays
<1>1. a[1] \in Workflows
  BY AttemptIsPair
<1>2. CASE ClosePr(a)
  BY <1>1, <1>2 DEF ClosePr, MergedStays, RecordsTyped
<1>3. CASE Squash(a)
  BY <1>1, <1>3 DEF Squash, MergedStays, RecordsTyped
<1>4. CASE UNCHANGED pr
  BY <1>4 DEF MergedStays, RecordsTyped
<1> QED
  BY <1>2, <1>3, <1>4

LEMMA StepRecords == RInv /\ [Next]_vars => RInv'
<1> SUFFICES ASSUME RInv, [Next]_vars PROVE RInv'
  OBVIOUS
<1> USE DEF temporalVars, gitVars, attemptVars
<1>0. RecordsTyped /\ ReturnsAreReal
  BY DEF RInv
<1>1. ASSUME NEW a \in Attempts, AttemptStep(a) PROVE RInv'
  <2>0. a[1] \in Workflows /\ ret[a] \in Returns /\ pr[a[1]] \in {"OPEN", "CLOSED", "MERGED"}
    BY AttemptIsPair DEF RInv, RecordsTyped
  <2>1. ASSUME UNCHANGED <<ret, stage, result>>, MergedStays PROVE RInv'
    BY <2>1 DEF RInv, RecordsTyped, ReturnsAreReal, RecordedMergeIsReal, MergedStays, Attempts
  <2>2. UNCHANGED pr => MergedStays
    BY <1>0, CallsKeepMerges
  <2>3. ClosePr(a) => MergedStays
    BY <1>0, CallsKeepMerges
  <2>4. {"raise", "merged", "skipped", "not_merged"} \subseteq Returns
    BY DEF Returns
  <2>5. CASE Raise(a)
    BY <2>2, <2>4, <2>5, Records DEF Raise, Return
  <2>6. CASE CheckState(a)
    <3>1. CASE UNCHANGED <<stage, ret>>
      BY <2>1, <2>2, <2>6, <3>1 DEF CheckState
    <3>2. CASE pr[a[1]] = "MERGED" /\ SetStage(a, "merged") /\ Return(a, "finish", "skipped")
      BY <2>2, <2>4, <2>6, <3>2, Records DEF CheckState, SetStage, Return
    <3> QED
      BY <2>6, <3>1, <3>2 DEF CheckState
  <2>7. CASE WaitCI(a)
    <3>1. CASE UNCHANGED ret
      BY <2>1, <2>2, <2>7, <3>1 DEF WaitCI
    <3>2. CASE Return(a, "close", "not_merged")
      BY <2>2, <2>4, <2>7, <3>2, Records DEF WaitCI, Return
    <3> QED
      BY <2>7, <3>1, <3>2 DEF WaitCI
  <2>8. CASE CloseFailed(a)
    BY <2>3, <2>4, <2>8, Records DEF CloseFailed, SetStage
  <2>9. CASE CheckLocked(a)
    <3>1. CASE UNCHANGED <<stage, ret>>
      BY <2>1, <2>2, <2>9, <3>1 DEF CheckLocked
    <3>2. CASE pr[a[1]] = "MERGED" /\ SetStage(a, "merged") /\ Return(a, "release", "skipped")
      BY <2>2, <2>4, <2>9, <3>2, Records DEF CheckLocked, SetStage, Return
    <3> QED
      BY <2>9, <3>1, <3>2 DEF CheckLocked
  <2>10. CASE AcquireLock(a) \/ MergeBase(a) \/ Fetch(a) \/ Push(a) \/ RebaseFails(a) \/ PostClean(a) \/ ReleaseLock(a)
    BY <2>1, <2>2, <2>10
       DEF AcquireLock, MergeBase, Fetch, FetchBranch, Push, PushRebased, RebaseFails, PostClean, ReleaseLock
  <2>11. CASE Conflict(a)
    BY <2>3, <2>4, <2>11, Records DEF Conflict, SetStage, Return
  <2>12. CASE PostBlocked(a)
    BY <2>2, <2>4, <2>12, Records DEF PostBlocked, SetStage, Return
  <2>13. CASE PostTimeout(a)
    BY <2>2, <2>4, <2>13, Records DEF PostTimeout, Return
  <2>14. CASE VerifyLock(a)
    <3>1. CASE UNCHANGED ret
      BY <2>1, <2>2, <2>14, <3>1 DEF VerifyLock
    <3>2. CASE Return(a, "release", "not_merged")
      BY <2>2, <2>4, <2>14, <3>2, Records DEF VerifyLock, Return
    <3> QED
      BY <2>14, <3>1, <3>2 DEF VerifyLock
  <2>15. CASE Merge(a)
    <3>1. Squash(a) /\ stage' = stage /\ result' = result
      BY <2>15 DEF Merge
    <3>2. MergedStays /\ pr'[a[1]] = "MERGED"
      BY <1>0, <2>0, <3>1, CallsKeepMerges DEF Squash, RecordsTyped
    <3>3. PICK r \in {"merged", "raise"} : ret' = [ret EXCEPT ![a] = r]
      BY <2>15 DEF Merge, Return
    <3> QED
      BY <2>4, <3>1, <3>2, <3>3, Records
  <2>16. CASE Cancel(a)
    BY <2>2, <2>4, <2>16, Records DEF Cancel, Return
  <2>17. CASE Finish(a)
    <3>1. /\ ret' = ret /\ pr' = pr
          /\ IF ret[a] = "merged" THEN stage' = [stage EXCEPT ![a[1]] = "merged"] ELSE stage' = stage
          /\ \/ result' = result
             \/ result' = [result EXCEPT ![a[1]] = IF ret[a] = "raise" THEN @ ELSE ret[a]]
      BY <2>17 DEF Finish, SetStage
    <3>2. RecordsTyped'
      BY <2>0, <3>1 DEF RInv, RecordsTyped
    <3>3. ReturnsAreReal'
      BY <3>1 DEF RInv, ReturnsAreReal
    <3>4. RecordedMergeIsReal'
      BY <2>0, <3>1 DEF RInv, RecordsTyped, ReturnsAreReal, RecordedMergeIsReal
    <3> QED
      BY <3>2, <3>3, <3>4 DEF RInv
  <2>18. CASE ThreadStep(a)
    <3>1. ClosePr(a) \/ Squash(a) \/ UNCHANGED pr
      BY <2>18 DEF ThreadStep, FetchBranch, PushRebased
    <3> QED
      BY <1>0, <2>1, <2>18, <3>1, CallsKeepMerges, ThreadSteps
  <2> QED
    BY <1>1, <2>5, <2>6, <2>7, <2>8, <2>9, <2>10, <2>11, <2>12, <2>13, <2>14, <2>15, <2>16, <2>17, <2>18
       DEF AttemptStep
<1>2. CASE UNCHANGED <<ret, stage, pr, result>>
  BY <1>2 DEF RInv, RecordsTyped, ReturnsAreReal, RecordedMergeIsReal
<1> QED
  BY <1>1, <1>2 DEF Next, StartAttempt, TimeOut, CIStep, CatchUp, OtherPush, OtherFetch, Tick, Crash, vars

\* merge.py and db.py: a run recorded or reported as merged is merged, with
\* overlapping attempts and calls that go on in their threads.
THEOREM RecordsAreReal == Spec => []RecordedMergeIsReal
<1>1. Init => RInv
  BY DEF Init, RInv, RecordsTyped, ReturnsAreReal, RecordedMergeIsReal, Returns
<1>2. RInv => RecordedMergeIsReal
  BY DEF RInv
<1> QED
  BY <1>1, <1>2, StepRecords, PTL DEF Spec

-----------------------------------------------------------------------------
Calls == {"none", "lock", "fetch", "push", "merge", "close"}
AtMerge(a) == pc[a] \in {"verify", "merge"} \/ thread[a] = "merge"

HeadsTyped ==
    /\ pc \in [Attempts -> Places]
    /\ thread \in [Attempts -> Calls]
    /\ current \in [Attempts -> BOOLEAN]
    /\ ci \in [Workflows -> CIStates]

\* Only a cancelled attempt has left a call behind.
ThreadsAreLeft == \A a \in Attempts : thread[a] # "none" => pc[a] \in {"release", "finish", "ended"}

\* The head an attempt has seen the checks of, and that is still the head, passed.
SeenPassed == \A a \in Attempts : current[a] /\ AtMerge(a) => ci[a[1]] = "passed"

CInv == HeadsTyped /\ ThreadsAreLeft /\ SeenPassed

\* What GitHub shows of the head itself is CLEAN only when CI passed it.
LEMMA CleanIsPassed ==
    ASSUME NEW w \in Workflows, ci[w] \in CIStates, "CLEAN" \in View(w), stale[w] = "none"
    PROVE  ci[w] = "passed"
BY DEF View, Shown, CIStates

LEMMA CallIsCall ==
    ASSUME HeadsTyped, NEW a \in Attempts
    PROVE  /\ Call(a) \in Calls
           /\ Call(a) = "merge" => thread[a] = "merge" \/ pc[a] = "merge"
BY DEF HeadsTyped, Call, Calls

\* A step of one attempt that moves no branch and brings nobody to the merge.
LEMMA Aside ==
    ASSUME CInv, NEW a \in Attempts, NEW place \in Places, NEW call \in Calls, NEW seen \in BOOLEAN,
           pc' = [pc EXCEPT ![a] = place], thread' = [thread EXCEPT ![a] = call],
           current' = [current EXCEPT ![a] = seen], UNCHANGED ci,
           call # "none" => place \in {"release", "finish", "ended"},
           seen /\ (place \in {"verify", "merge"} \/ call = "merge") => ci[a[1]] = "passed"
    PROVE  CInv'
<1>1. HeadsTyped'
  BY DEF CInv, HeadsTyped
<1>2. ThreadsAreLeft'
  BY DEF CInv, HeadsTyped, ThreadsAreLeft
<1>3. SeenPassed'
  BY DEF CInv, HeadsTyped, SeenPassed, AtMerge
<1> QED
  BY <1>1, <1>2, <1>3 DEF CInv

\* A new head is one that no attempt has seen.
LEMMA NewHeadUnseen ==
    ASSUME CInv, NEW w \in Workflows, NewHead(w), NEW a \in Attempts, a[1] = w,
           NEW place \in Places, NEW call \in Calls,
           pc' = [pc EXCEPT ![a] = place] \/ pc' = pc,
           thread' = [thread EXCEPT ![a] = call] \/ thread' = thread,
           pc' = pc \/ pc[a] \in {"push", "push_again"},
           thread' = thread \/ call = "none"
    PROVE  CInv'
<1>1. HeadsTyped'
  BY DEF CInv, HeadsTyped, NewHead, CIStates
<1>2. ThreadsAreLeft'
  <2>1. pc' = pc \/ thread[a] = "none"
    BY DEF CInv, ThreadsAreLeft
  <2> QED
    BY <2>1 DEF CInv, HeadsTyped, ThreadsAreLeft
<1>3. ASSUME NEW b \in Attempts, current'[b], AtMerge(b)' PROVE ci'[b[1]] = "passed"
  <2>1. b[1] # w /\ current[b]
    BY <1>3 DEF NewHead, CInv, HeadsTyped
  <2>2. AtMerge(b) /\ b[1] \in Workflows
    BY <1>3, <2>1, AttemptIsPair DEF AtMerge, CInv, HeadsTyped
  <2> QED
    BY <2>1, <2>2 DEF NewHead, CInv, SeenPassed, HeadsTyped
<1> QED
  BY <1>1, <1>2, <1>3 DEF CInv, SeenPassed

LEMMA StepSeen == PInv /\ CInv /\ [Next]_vars => CInv'
<1> SUFFICES ASSUME PInv, CInv, [Next]_vars PROVE CInv'
  OBVIOUS
<1>T. HeadsTyped /\ ThreadsAreLeft /\ SeenPassed
  BY DEF CInv
<1> USE DEF temporalVars, gitVars, attemptVars
<1>K. ASSUME NEW a \in Attempts
      PROVE  /\ thread[a] \in Calls /\ thread = [thread EXCEPT ![a] = thread[a]]
             /\ current[a] \in BOOLEAN /\ current = [current EXCEPT ![a] = current[a]]
  BY <1>T DEF HeadsTyped
\* From one place to another, with the branch and the threads as they are.
<1>1. ASSUME NEW a \in Attempts, NEW place \in Places, pc' = [pc EXCEPT ![a] = place],
             UNCHANGED <<thread, current, ci>>,
             place \in {"release", "finish", "ended"} \/ pc[a] \notin {"release", "finish", "ended"},
             place \in {"verify", "merge"} => pc[a] \in {"verify", "merge"}
      PROVE  CInv'
  <2>1. thread[a] # "none" => place \in {"release", "finish", "ended"}
    BY <1>1, <1>T DEF ThreadsAreLeft
  <2>2. current[a] /\ (place \in {"verify", "merge"} \/ thread[a] = "merge") => ci[a[1]] = "passed"
    BY <1>1, <1>T DEF SeenPassed, AtMerge
  <2> QED
    BY <1>1, <1>K, <2>1, <2>2, Aside
<1>2. ASSUME NEW a \in Attempts, AttemptStep(a) PROVE CInv'
  <2> USE DEF Return, GoTo, Places, Inside, Rebasing
  <2>1. CASE Raise(a) \/ CheckState(a) \/ WaitCI(a) \/ AcquireLock(a) \/ CheckLocked(a) \/ MergeBase(a)
    BY <1>1, <2>1 DEF Raise, CheckState, WaitCI, AcquireLock, CheckLocked, MergeBase
  <2>2. CASE CloseFailed(a) \/ Conflict(a)
    BY <1>1, <2>2 DEF CloseFailed, Conflict, ClosePr
  <2>3. CASE PostBlocked(a) \/ PostTimeout(a) \/ VerifyLock(a) \/ ReleaseLock(a) \/ Finish(a)
    BY <1>1, <2>3 DEF PostBlocked, PostTimeout, VerifyLock, ReleaseLock, Finish
  <2>4. CASE Merge(a)
    BY <1>1, <2>4 DEF Merge, Squash
  <2>5. CASE RebaseFails(a)
    <3>1. PICK place \in {"fetch_again", "conflict"} : pc' = [pc EXCEPT ![a] = place]
      BY <2>5 DEF RebaseFails, AfterFailure
    <3> QED
      BY <1>1, <2>5, <3>1 DEF RebaseFails
  <2>6. CASE Fetch(a)
    <3>1. PICK place \in {"push", "push_again"} : pc' = [pc EXCEPT ![a] = place]
      BY <2>6 DEF Fetch
    <3>2. current' = [current EXCEPT ![a] = TRUE] /\ UNCHANGED <<ci, thread>>
      BY <2>6 DEF Fetch, FetchBranch
    <3>3. thread[a] = "none"
      BY <1>T, <2>6 DEF Fetch, ThreadsAreLeft
    <3> QED
      BY <1>K, <3>1, <3>2, <3>3, Aside
  <2>7. CASE Push(a)
    <3>1. PICK place \in {"post_ci", "fetch_again", "conflict"} : pc' = [pc EXCEPT ![a] = place]
      BY <2>7 DEF Push, AfterFailure
    <3>2. pc[a] \in {"push", "push_again"} /\ thread' = thread /\ (UNCHANGED <<ci, current>> \/ NewHead(a[1]))
      BY <2>7 DEF Push, PushRebased
    <3>3. CASE UNCHANGED <<ci, current>>
      BY <1>1, <3>1, <3>2, <3>3
    <3>4. CASE NewHead(a[1])
      BY <3>1, <3>2, <3>4, NewHeadUnseen, AttemptIsPair DEF Calls
    <3> QED
      BY <3>2, <3>3, <3>4
  <2>8. CASE PostClean(a)
    <3>1. /\ pc[a] = "post_ci" /\ pc' = [pc EXCEPT ![a] = "verify"] /\ UNCHANGED <<ci, thread>>
          /\ current' = [current EXCEPT ![a] = stale[a[1]] = "none"]
      BY <2>8 DEF PostClean
    <3>2. thread[a] = "none"
      BY <1>T, <3>1 DEF ThreadsAreLeft
    <3>3. stale[a[1]] = "none" => ci[a[1]] = "passed"
      BY <1>T, <2>8, CleanIsPassed, AttemptIsPair DEF PostClean, HeadsTyped
    <3> DEFINE seen == stale[a[1]] = "none"
    <3>4. seen \in BOOLEAN /\ current' = [current EXCEPT ![a] = seen]
      BY <3>1
    <3>5. seen => ci[a[1]] = "passed"
      BY <3>3
    <3> HIDE DEF seen
    <3>6. pc' = [pc EXCEPT ![a] = "verify"] /\ thread' = [thread EXCEPT ![a] = "none"] /\ UNCHANGED ci
      BY <1>K, <3>1, <3>2
    <3>7. "verify" \in Places /\ "none" \in Calls
      BY DEF Calls
    <3> QED
      BY <3>4, <3>5, <3>6, <3>7, Aside
  <2>9. CASE Cancel(a)
    <3>1. PICK place \in {"release", "ended"} : pc' = [pc EXCEPT ![a] = place]
      BY <2>9 DEF Cancel
    <3>2. thread' = [thread EXCEPT ![a] = Call(a)] /\ UNCHANGED <<ci, current>>
      BY <2>9 DEF Cancel
    <3>3. current[a] /\ Call(a) = "merge" => ci[a[1]] = "passed"
      BY <1>T, CallIsCall DEF SeenPassed, AtMerge
    <3> QED
      BY <1>T, <1>K, <3>1, <3>2, <3>3, CallIsCall, Aside
  <2>10. CASE ThreadStep(a)
    <3>1. thread[a] # "none" /\ pc' = pc
      BY <2>10 DEF ThreadStep
    <3>2. pc[a] \in {"release", "finish", "ended"} /\ pc' = [pc EXCEPT ![a] = pc[a]] /\ pc[a] \in Places
      BY <1>T, <3>1 DEF ThreadsAreLeft, HeadsTyped
    <3>3. CASE thread[a] = "fetch" /\ FetchBranch(a) /\ ThreadIs(a, "push")
      <4>1. current' = [current EXCEPT ![a] = TRUE] /\ UNCHANGED ci /\ thread' = [thread EXCEPT ![a] = "push"]
        BY <3>3 DEF FetchBranch, ThreadIs
      <4> QED
        BY <3>2, <4>1, Aside DEF Calls
    <3>4. CASE thread[a] = "push" /\ PushRebased(a) /\ ThreadIs(a, "none")
      <4>1. thread' = [thread EXCEPT ![a] = "none"] /\ (UNCHANGED <<ci, current>> \/ NewHead(a[1]))
        BY <3>4 DEF PushRebased, ThreadIs
      <4>2. CASE UNCHANGED <<ci, current>>
        BY <1>K, <3>2, <4>1, <4>2, Aside DEF Calls
      <4>3. CASE NewHead(a[1])
        BY <3>1, <3>2, <4>1, <4>3, NewHeadUnseen, AttemptIsPair DEF Calls
      <4> QED
        BY <4>1, <4>2, <4>3
    <3>5. CASE ThreadIs(a, "none") /\ UNCHANGED <<ci, current>>
      BY <1>K, <3>2, <3>5, Aside DEF Calls, ThreadIs
    <3> QED
      BY <2>10, <3>3, <3>4, <3>5 DEF ThreadStep, Squash, ClosePr
  <2> QED
    BY <1>2, <2>1, <2>2, <2>3, <2>4, <2>5, <2>6, <2>7, <2>8, <2>9, <2>10 DEF AttemptStep
<1>3. ASSUME NEW w \in Workflows, CIStep(w) PROVE CInv'
  <2>1. /\ ci[w] # "passed" /\ UNCHANGED <<pc, thread, current>>
        /\ \E c \in CIStates : ci' = [ci EXCEPT ![w] = c]
    BY <1>3 DEF CIStep, CIStates
  <2> QED
    BY <1>T, <2>1 DEF CInv, HeadsTyped, ThreadsAreLeft, SeenPassed, AtMerge
<1>4. ASSUME NEW w \in Workflows, OtherPush(w) PROVE CInv'
  <2>1. NewHead(w) /\ UNCHANGED <<pc, thread>>
    BY <1>4 DEF OtherPush
  <2>2. HeadsTyped'
    BY <1>T, <2>1 DEF HeadsTyped, NewHead, CIStates
  <2>3. SeenPassed'
    BY <1>T, <2>1, AttemptIsPair DEF HeadsTyped, SeenPassed, AtMerge, NewHead
  <2> QED
    BY <1>T, <2>1, <2>2, <2>3 DEF CInv, ThreadsAreLeft
<1>5. ASSUME NEW w \in Workflows, StartAttempt(w) PROVE CInv'
  <2> DEFINE a == <<w, attempt[w] + 1>>
  <2>1. pc' = [pc EXCEPT ![a] = "check"] /\ UNCHANGED <<thread, current, ci>>
    BY <1>5 DEF StartAttempt, GoTo
  <2>a. attempt[w] \in Nat /\ attempt[w] + 1 \in 1..MaxAttempts /\ a \in Attempts
    BY <1>5, MergePrAssumption DEF StartAttempt, PInv, PlacesTyped, Attempts
  <2>b. pc[a] = "none"
    BY <2>a DEF PInv, Started
  <2> HIDE DEF a
  <2>2. HeadsTyped'
    BY <1>T, <2>1 DEF HeadsTyped, Places
  <2>3. ThreadsAreLeft'
    BY <1>T, <2>a, <2>b, <2>1 DEF HeadsTyped, ThreadsAreLeft
  <2>4. \A b \in Attempts : AtMerge(b)' => AtMerge(b)
    BY <1>T, <2>1, <2>a DEF HeadsTyped, AtMerge
  <2>5. SeenPassed'
    BY <1>T, <2>1, <2>4 DEF SeenPassed
  <2> QED
    BY <2>2, <2>3, <2>5 DEF CInv
<1>6. CASE Crash
  <2>1. /\ pc' = [a \in Attempts |-> IF pc[a] = "none" THEN "none" ELSE "ended"]
        /\ thread' = [a \in Attempts |-> IF Call(a) \in {"push", "merge", "close"} THEN Call(a) ELSE "none"]
        /\ UNCHANGED <<ci, current>>
    BY <1>6 DEF Crash
  <2>2. HeadsTyped'
    BY <1>T, <2>1 DEF HeadsTyped, Places, Calls
  <2>3. ThreadsAreLeft'
    <3>1. \A a \in Attempts : thread'[a] # "none" => pc[a] # "none"
      BY <1>T, <2>1 DEF Call, ThreadsAreLeft
    <3> QED
      BY <2>1, <3>1 DEF ThreadsAreLeft
  <2>4. SeenPassed'
    <3>1. \A a \in Attempts : AtMerge(a)' => AtMerge(a)
      BY <1>T, <2>1, CallIsCall DEF AtMerge
    <3> QED
      BY <1>T, <2>1, <3>1 DEF SeenPassed
  <2> QED
    BY <2>2, <2>3, <2>4 DEF CInv
<1>7. CASE UNCHANGED <<pc, thread, current, ci>>
  BY <1>7, <1>T DEF CInv, HeadsTyped, ThreadsAreLeft, SeenPassed, AtMerge
<1> QED
  BY <1>2, <1>3, <1>4, <1>5, <1>6, <1>7 DEF Next, CatchUp, OtherFetch, TimeOut, Tick, vars

\* merge.py:381-426: an attempt, or the call it left behind, merges a head that
\* CI did not pass only when the branch has moved since it saw CLEAN or GitHub
\* showed the former head, however attempts overlap and crash.
THEOREM SeenHeadsOnly == Spec => SeenHeadsPassed
<1>1. Init => CInv
  <2> SUFFICES ASSUME Init PROVE CInv
    OBVIOUS
  <2>1. HeadsTyped
    BY DEF Init, HeadsTyped, Places, Calls, CIStates
  <2>2. ThreadsAreLeft /\ SeenPassed
    BY DEF Init, ThreadsAreLeft, SeenPassed
  <2> QED
    BY <2>1, <2>2 DEF CInv
<1>2. CInv /\ [Next]_vars =>
          [\A a \in Attempts :
              (pr[a[1]] # "MERGED" /\ pr'[a[1]] = "MERGED" /\ Merges(a) /\ current[a])
                  => ci[a[1]] = "passed"]_vars
  BY DEF CInv, SeenPassed, AtMerge, Merges
<1> QED
  BY <1>1, <1>2, InitPlaces, StepPlaces, StepSeen, PTL DEF Spec, SeenHeadsPassed

=============================================================================
