------------------------------- MODULE MergePr -------------------------------
(***************************************************************************)
(* merge_pr_activity (scripts/autodev/temporal/activities/merge.py) as the *)
(* AutodevPipeline workflow runs it: Temporal starts an attempt, gives it  *)
(* up after start_to_close_timeout, and starts the next one under the same *)
(* workflow and run id, whether or not the old one has stopped.            *)
(*                                                                         *)
(* Every `await` is a boundary between actions.  What an await waits for   *)
(* runs in a thread (asyncio.to_thread), which a cancelled attempt leaves  *)
(* behind.  The deadlines of the two CI loops and of the lock wait may     *)
(* pass at any poll.  A branch is the version of main it is based on; main *)
(* is the number of merges into it.  The clone of the worker keeps its own *)
(* origin/main, moved by git fetch.  The checks of a head register         *)
(* together.                                                               *)
(***************************************************************************)
EXTENDS MergeLock

CONSTANTS
    MaxAttempts,  \* _retry_5.maximum_attempts
    Budget,       \* start_to_close_timeout, in ticks
    Behind,       \* merges into main since the branches were cut, at most
    Shared        \* pull requests whose branch somebody else pushes to as well

ASSUME MergePrAssumption ==
    /\ MaxAttempts \in Nat \ {0}
    /\ Budget \in Nat \ {0}
    /\ Budget < TTL
    /\ Behind \in Nat
    /\ Shared \subseteq Workflows

VARIABLES
    pc,         \* where each attempt is
    ret,        \* what it is about to return, or "raise"
    thread,     \* the call a cancelled attempt has left in its thread
    current,    \* the branch is still at the head it fetched or saw the checks of
    attempt,    \* the attempt Temporal started last
    awaited,    \* Temporal waits for that attempt
    age,        \* ticks since it started, while it is awaited
    result,     \* what the workflow got from the activity
    stage,      \* pipeline_runs.stage
    pr,         \* state of the pull request
    ci,         \* CI of the head of its branch
    stale,      \* CI of the former head, while GitHub still shows that one
    base,       \* version of main the branch is based on
    mainTip,    \* main on GitHub
    localMain   \* origin/main in the clone

attemptVars == <<pc, ret, thread>>
temporalVars == <<attempt, awaited, age, result>>
gitVars == <<pr, ci, stale, current, base, mainTip, localMain>>
vars == <<lockVars, attemptVars, temporalVars, stage, gitVars>>

Attempts == Workflows \X (1..MaxAttempts)
Returns == {"merged", "skipped", "not_merged", "raise"}   \* not_merged: whatever the reason
Rebasing == {"fetch", "push", "fetch_again", "push_again"}
Inside == Rebasing \cup {"locked", "merge_base", "conflict", "post_ci", "verify", "merge"}
Places == Inside \cup {"none", "check", "wait_ci", "close", "lock", "release", "finish", "ended"}
CIStates == {"unregistered", "running", "passed", "cosmetic", "failed"}

Init ==
    /\ LockInit
    /\ pc = [a \in Attempts |-> "none"]
    /\ ret = [a \in Attempts |-> "raise"]
    /\ thread = [a \in Attempts |-> "none"]
    /\ current = [a \in Attempts |-> FALSE]
    /\ attempt = [w \in Workflows |-> 0]
    /\ awaited = [w \in Workflows |-> FALSE]
    /\ age = [w \in Workflows |-> 0]
    /\ result = [w \in Workflows |-> "none"]
    /\ stage = [w \in Workflows |-> "approved"]
    /\ pr = [w \in Workflows |-> "OPEN"]
    /\ ci = [w \in Workflows |-> "running"]
    /\ stale = [w \in Workflows |-> "none"]
    /\ base = [w \in Workflows |-> 0]
    /\ mainTip \in 0..Behind
    /\ localMain \in 0..mainTip

GoTo(a, place) == pc' = [pc EXCEPT ![a] = place]
Return(a, place, r) == GoTo(a, place) /\ ret' = [ret EXCEPT ![a] = r]
SetStage(a, s) == stage' = [stage EXCEPT ![a[1]] = s]

-----------------------------------------------------------------------------
(***************************************************************************)
(* What `gh pr view` shows.  CI of a new head is not registered at first,  *)
(* then runs, then ends; "cosmetic" is a failure no critical check has.    *)
(* Just after a push, and no longer than until the checks of the new head  *)
(* register, GitHub may still show those of the former one.                *)
(***************************************************************************)
Shown(w) == IF stale[w] = "none" THEN ci[w] ELSE stale[w]

View(w) ==
    {"UNKNOWN"} \cup
    CASE Shown(w) = "unregistered" -> {"CLEAN_NO_CHECKS", "BLOCKED"}
      [] Shown(w) = "running" -> {"BLOCKED", "UNSTABLE"}
      [] Shown(w) = "passed" -> {"CLEAN"}
      [] Shown(w) = "cosmetic" -> {"UNSTABLE"}
      [] Shown(w) = "failed" -> {"BLOCKED", "UNSTABLE"}

\* The branch gets a new head, which nobody has fetched or seen the checks of.
NewHead(w) ==
    /\ ci' = [ci EXCEPT ![w] = "unregistered"]
    /\ \E shown \in {"none", Shown(w)} : stale' = [stale EXCEPT ![w] = shown]
    /\ current' = [a \in Attempts |-> current[a] /\ a[1] # w]

CIStep(w) ==
    /\ \/ ci[w] = "unregistered" /\ ci' = [ci EXCEPT ![w] = "running"]
       \/ ci[w] = "running" /\ \E c \in {"passed", "cosmetic", "failed"} : ci' = [ci EXCEPT ![w] = c]
    /\ stale' = [stale EXCEPT ![w] = "none"]
    /\ UNCHANGED <<lockVars, attemptVars, temporalVars, stage, pr, current, base, mainTip, localMain>>

\* GitHub shows the new head.
CatchUp(w) ==
    /\ stale[w] # "none"
    /\ stale' = [stale EXCEPT ![w] = "none"]
    /\ UNCHANGED <<lockVars, attemptVars, temporalVars, stage, pr, ci, current, base, mainTip, localMain>>

\* Somebody else pushes a commit on top of the branch.
OtherPush(w) ==
    /\ w \in Shared /\ pr[w] = "OPEN"
    /\ NewHead(w)
    /\ UNCHANGED <<lockVars, attemptVars, temporalVars, stage, pr, base, mainTip, localMain>>

\* Any other activity on the same clone runs git fetch.
OtherFetch ==
    /\ localMain # mainTip
    /\ localMain' = mainTip
    /\ UNCHANGED <<lockVars, attemptVars, temporalVars, stage, pr, ci, stale, current, base, mainTip>>

-----------------------------------------------------------------------------
(***************************************************************************)
(* What the calls do that run in a thread.  gh pr close may fail, and its  *)
(* failure is ignored.                                                     *)
(***************************************************************************)
TakeRow(a) ==
    /\ takes_lock(a[1])
    /\ row' = NewRow(a[1])
    /\ UNCHANGED <<pid, host>>

ClosePr(a) ==
    /\ pr' \in {pr, [pr EXCEPT ![a[1]] = IF @ = "OPEN" THEN "CLOSED" ELSE @]}
    /\ UNCHANGED <<ci, stale, current, base, mainTip, localMain>>

\* _do_rebase(): git fetch of main and the branch, whose head is the lease of the push.
FetchBranch(a) ==
    /\ pr[a[1]] # "MERGED"   \* its branch is deleted
    /\ localMain' = mainTip
    /\ current' = [current EXCEPT ![a] = TRUE]
    /\ UNCHANGED <<pr, ci, stale, base, mainTip>>

\* _do_rebase(): git rebase and git push --force-with-lease.
PushRebased(a) ==
    /\ current[a] /\ pr[a[1]] # "MERGED"
    /\ base' = [base EXCEPT ![a[1]] = localMain]
    /\ IF base[a[1]] = localMain THEN UNCHANGED <<ci, stale, current>> ELSE NewHead(a[1])
    /\ UNCHANGED <<pr, mainTip, localMain>>

\* gh pr merge --squash, of whatever the head is by then.
Squash(a) ==
    /\ pr[a[1]] # "CLOSED"
    /\ pr' = [pr EXCEPT ![a[1]] = "MERGED"]
    /\ mainTip' = IF pr[a[1]] = "OPEN" THEN mainTip + 1 ELSE mainTip
    /\ UNCHANGED <<ci, stale, current, base, localMain>>

-----------------------------------------------------------------------------
\* A gh or git call raises: what holds the lock releases it on the way out.
Raise(a) ==
    /\ pc[a] \in Inside \cup {"wait_ci", "lock"}
    /\ Return(a, IF pc[a] \in Inside THEN "release" ELSE "finish", "raise")
    /\ UNCHANGED <<lockVars, thread, temporalVars, stage, gitVars>>

\* Idempotency guard before the CI wait; a failed gh call falls through.
CheckState(a) ==
    /\ pc[a] = "check"
    /\ \/ /\ pr[a[1]] = "MERGED"
          /\ SetStage(a, "merged")
          /\ Return(a, "finish", "skipped")
       \/ GoTo(a, "wait_ci") /\ UNCHANGED <<stage, ret>>
    /\ UNCHANGED <<lockVars, thread, temporalVars, gitVars>>

\* One poll of the first CI loop that leaves it.  UNSTABLE without a critical
\* failure goes on to the lock, and so does a conflict or a deadline in any
\* state other than BLOCKED, which is polled for ever, and UNKNOWN.
WaitCI(a) ==
    /\ pc[a] = "wait_ci"
    /\ \/ /\ \/ "CLEAN" \in View(a[1])
             \/ "UNSTABLE" \in View(a[1]) /\ Shown(a[1]) # "failed"
             \/ base[a[1]] # mainTip   \* CONFLICTING, or the deadline in BEHIND or DIRTY
          /\ GoTo(a, "lock")
          /\ UNCHANGED ret
       \/ Return(a, "close", "not_merged")   \* critical checks failed, or UNKNOWN until the deadline
    /\ UNCHANGED <<lockVars, thread, temporalVars, stage, gitVars>>

\* gh pr close, and the run is recorded as failed.
CloseFailed(a) ==
    /\ pc[a] = "close"
    /\ ClosePr(a)
    /\ SetStage(a, "failed")
    /\ GoTo(a, "finish")
    /\ UNCHANGED <<lockVars, ret, thread, temporalVars>>

\* _merge_lock_async(): acquire_merge_lock() returns True.
AcquireLock(a) ==
    /\ pc[a] = "lock"
    /\ TakeRow(a)
    /\ GoTo(a, "locked")
    /\ UNCHANGED <<ret, thread, temporalVars, stage, gitVars>>

\* The pull request is looked at again inside the lock.
CheckLocked(a) ==
    /\ pc[a] = "locked"
    /\ \/ /\ pr[a[1]] = "MERGED"
          /\ SetStage(a, "merged")
          /\ Return(a, "release", "skipped")
       \/ GoTo(a, "merge_base") /\ UNCHANGED <<stage, ret>>
    /\ UNCHANGED <<lockVars, thread, temporalVars, gitVars>>

\* git merge-base of the clone's origin/<branch> and origin/main: no fetch.
\* A failure of git goes on to the rebase.
MergeBase(a) ==
    /\ pc[a] = "merge_base"
    /\ \/ base[a[1]] = localMain /\ GoTo(a, "post_ci")
       \/ GoTo(a, "fetch")
    /\ UNCHANGED <<lockVars, ret, thread, temporalVars, stage, gitVars>>

Fetch(a) ==
    /\ \/ pc[a] = "fetch" /\ GoTo(a, "push")
       \/ pc[a] = "fetch_again" /\ GoTo(a, "push_again")
    /\ FetchBranch(a)
    /\ UNCHANGED <<lockVars, ret, thread, temporalVars, stage>>

\* A rebase is tried twice; an error of either is followed by rebase --abort.
AfterFailure(a) == IF pc[a] \in {"fetch", "push"} THEN "fetch_again" ELSE "conflict"

\* The push is done; its answer may be lost.
Push(a) ==
    /\ pc[a] \in {"push", "push_again"}
    /\ PushRebased(a)
    /\ \E place \in {"post_ci", AfterFailure(a)} : GoTo(a, place)
    /\ UNCHANGED <<lockVars, ret, thread, temporalVars, stage>>

\* A conflict, a rejected lease or any other failure of git.
RebaseFails(a) ==
    /\ pc[a] \in Rebasing
    /\ GoTo(a, AfterFailure(a))
    /\ UNCHANGED <<lockVars, ret, thread, temporalVars, stage, gitVars>>

\* Both attempts to rebase failed.
Conflict(a) ==
    /\ pc[a] = "conflict"
    /\ ClosePr(a)
    /\ SetStage(a, "merge_conflict")
    /\ Return(a, "release", "not_merged")
    /\ UNCHANGED <<lockVars, thread, temporalVars>>

\* Mutant: any CLEAN state goes on, checks or not.
PostCleanAny(a) ==
    /\ pc[a] = "post_ci"
    /\ View(a[1]) \cap {"CLEAN", "CLEAN_NO_CHECKS"} # {}
    /\ GoTo(a, "verify")
    /\ current' = [current EXCEPT ![a] = stale[a[1]] = "none"]
    /\ UNCHANGED <<lockVars, ret, thread, temporalVars, stage, pr, ci, stale, base, mainTip, localMain>>

\* The second CI loop: CLEAN with checks, of the head GitHub shows.
PostClean(a) ==
    /\ pc[a] = "post_ci"
    /\ "CLEAN" \in View(a[1])
    /\ GoTo(a, "verify")
    /\ current' = [current EXCEPT ![a] = stale[a[1]] = "none"]
    /\ UNCHANGED <<lockVars, ret, thread, temporalVars, stage, pr, ci, stale, base, mainTip, localMain>>

\* The second CI loop: BLOCKED ends it, with no look at the checks.
PostBlocked(a) ==
    /\ pc[a] = "post_ci"
    /\ "BLOCKED" \in View(a[1])
    /\ SetStage(a, "failed")
    /\ Return(a, "release", "not_merged")
    /\ UNCHANGED <<lockVars, thread, temporalVars, gitVars>>

\* The second CI loop: the deadline passed and the state is another one.
PostTimeout(a) ==
    /\ pc[a] = "post_ci"
    /\ View(a[1]) \cap {"UNKNOWN", "UNSTABLE"} # {}
    /\ Return(a, "release", "not_merged")
    /\ UNCHANGED <<lockVars, thread, temporalVars, stage, gitVars>>

VerifyLock(a) ==
    /\ pc[a] = "verify"
    /\ IF verify_merge_lock(a[1])
       THEN GoTo(a, "merge") /\ UNCHANGED ret
       ELSE Return(a, "release", "not_merged")
    /\ UNCHANGED <<lockVars, thread, temporalVars, stage, gitVars>>

\* Mutant: gh failed, and the merge is reported all the same.
MergeUnchecked(a) ==
    /\ pc[a] = "merge"
    /\ Return(a, "release", "merged")
    /\ UNCHANGED <<lockVars, thread, temporalVars, stage, gitVars>>

\* gh pr merge; a pull request merged meanwhile counts as a success.  The
\* answer may be lost: gh raises, and so does the look at the state after it.
Merge(a) ==
    /\ pc[a] = "merge"
    /\ Squash(a)
    /\ \E r \in {"merged", "raise"} : Return(a, "release", r)
    /\ UNCHANGED <<lockVars, thread, temporalVars, stage>>

\* _merge_lock_async(): the finally clause.
ReleaseLock(a) ==
    /\ pc[a] = "release"
    /\ row' = released_row(a[1])
    /\ GoTo(a, "finish")
    /\ UNCHANGED <<pid, host, ret, thread, temporalVars, stage, gitVars>>

\* The attempt ends; Temporal hears of it when it still waits for it.
Finish(a) ==
    /\ pc[a] = "finish"
    /\ GoTo(a, "ended")
    /\ IF ret[a] = "merged" THEN SetStage(a, "merged") ELSE UNCHANGED stage
    /\ IF awaited[a[1]] /\ attempt[a[1]] = a[2]
       THEN /\ awaited' = [awaited EXCEPT ![a[1]] = FALSE]
            /\ age' = [age EXCEPT ![a[1]] = 0]
            /\ result' = [result EXCEPT ![a[1]] = IF ret[a] = "raise" THEN @ ELSE ret[a]]
       ELSE UNCHANGED <<awaited, age, result>>
    /\ UNCHANGED <<lockVars, ret, thread, attempt, gitVars>>

-----------------------------------------------------------------------------
(***************************************************************************)
(* An attempt Temporal no longer waits for learns of it at an await.  One  *)
(* in the lock still has its finally clause to run.  The call it waited    *)
(* for goes on in its thread, to its end or to an error.                   *)
(***************************************************************************)
Call(a) ==
    CASE thread[a] # "none" -> thread[a]
      [] pc[a] = "lock" -> "lock"
      [] pc[a] \in {"fetch", "fetch_again"} -> "fetch"
      [] pc[a] \in {"push", "push_again"} -> "push"
      [] pc[a] = "merge" -> "merge"
      [] pc[a] \in {"close", "conflict"} -> "close"
      [] OTHER -> "none"

Cancel(a) ==
    /\ ~(awaited[a[1]] /\ attempt[a[1]] = a[2])
    /\ pc[a] \notin {"none", "ended", "finish"}
    /\ Return(a, IF pc[a] \in Inside \cup {"release"} THEN "release" ELSE "ended", "raise")
    /\ thread' = [thread EXCEPT ![a] = Call(a)]
    /\ UNCHANGED <<lockVars, temporalVars, stage, gitVars>>

ThreadIs(a, next) == thread' = [thread EXCEPT ![a] = next]

ThreadStep(a) ==
    /\ \/ thread[a] = "lock" /\ TakeRow(a) /\ ThreadIs(a, "none") /\ UNCHANGED gitVars
       \/ thread[a] = "fetch" /\ FetchBranch(a) /\ ThreadIs(a, "push") /\ UNCHANGED lockVars
       \/ thread[a] = "push" /\ PushRebased(a) /\ ThreadIs(a, "none") /\ UNCHANGED lockVars
       \/ thread[a] = "merge" /\ Squash(a) /\ ThreadIs(a, "none") /\ UNCHANGED lockVars
       \/ thread[a] = "close" /\ ClosePr(a) /\ ThreadIs(a, "none") /\ UNCHANGED lockVars
       \/ thread[a] # "none" /\ ThreadIs(a, "none") /\ UNCHANGED <<lockVars, gitVars>>
    /\ UNCHANGED <<pc, ret, temporalVars, stage>>

\* Temporal starts the first attempt, or the next one after a failure.
StartAttempt(w) ==
    /\ ~awaited[w]
    /\ result[w] = "none"
    /\ attempt[w] < MaxAttempts
    /\ attempt' = [attempt EXCEPT ![w] = @ + 1]
    /\ awaited' = [awaited EXCEPT ![w] = TRUE]
    /\ age' = [age EXCEPT ![w] = 0]
    /\ GoTo(<<w, attempt[w] + 1>>, "check")
    /\ UNCHANGED <<lockVars, ret, thread, result, stage, gitVars>>

\* start_to_close_timeout: Temporal gives the attempt up.
TimeOut(w) ==
    /\ awaited[w]
    /\ age[w] = Budget
    /\ awaited' = [awaited EXCEPT ![w] = FALSE]
    /\ age' = [age EXCEPT ![w] = 0]
    /\ UNCHANGED <<lockVars, attemptVars, attempt, result, stage, gitVars>>

\* A tick passes; an attempt whose time is up is given up before the next one.
Tick ==
    /\ \A w \in Workflows : awaited[w] => age[w] < Budget
    /\ row # None \/ \E w \in Workflows : awaited[w]
    /\ AgeRow
    /\ age' = [w \in Workflows |-> IF awaited[w] THEN age[w] + 1 ELSE age[w]]
    /\ UNCHANGED <<pid, host, attemptVars, attempt, awaited, result, stage, gitVars>>

\* The worker process dies; a git or gh child it has started may go on.
Crash ==
    /\ NewProcess
    /\ pc' = [a \in Attempts |-> IF pc[a] = "none" THEN "none" ELSE "ended"]
    /\ thread' = [a \in Attempts |-> IF Call(a) \in {"push", "merge", "close"} THEN Call(a) ELSE "none"]
    /\ UNCHANGED <<ret, temporalVars, stage, gitVars>>

AttemptStep(a) ==
    \/ Raise(a) \/ CheckState(a) \/ WaitCI(a) \/ CloseFailed(a) \/ AcquireLock(a)
    \/ CheckLocked(a) \/ MergeBase(a) \/ Fetch(a) \/ Push(a) \/ RebaseFails(a) \/ Conflict(a)
    \/ PostClean(a) \/ PostBlocked(a) \/ PostTimeout(a)
    \/ VerifyLock(a) \/ Merge(a) \/ ReleaseLock(a) \/ Finish(a)
    \/ Cancel(a) \/ ThreadStep(a)

Next ==
    \/ \E a \in Attempts : AttemptStep(a)
    \/ \E w \in Workflows :
          StartAttempt(w) \/ TimeOut(w) \/ CIStep(w) \/ CatchUp(w) \/ OtherPush(w)
    \/ OtherFetch \/ Tick \/ Crash

Spec == Init /\ [][Next]_vars

-----------------------------------------------------------------------------

\* db.py:22-23: an attempt that Temporal waits for and that has the lock loses it
\* to nobody but an earlier attempt of its own workflow that runs its finally
\* clause: not to age, since its budget is shorter than the TTL, to a crash, to
\* another workflow, or to a call some cancelled attempt has left in a thread.
LosesRowOnlyToItself ==
    [][\A w \in Workflows :
          (/\ awaited[w] /\ pc[<<w, attempt[w]>>] \in Inside /\ verify_merge_lock(w)
           /\ UNCHANGED pc[<<w, attempt[w]>>] /\ ~verify_merge_lock(w)')
              => \E k \in 1..(attempt[w] - 1) :
                     pc[<<w, k>>] = "release" /\ pc'[<<w, k>>] = "finish"]_vars

\* db.py:206: "The lock row carries workflow_id + run_id so release() is safe on
\* retry".  What any other actor does leaves the row of an attempt in the lock.
ReleaseSafeOnRetry ==
    [][\A w \in Workflows :
          LET a == <<w, attempt[w]>> IN
          (awaited[w] /\ pc[a] \in Inside /\ pc'[a] = pc[a] /\ verify_merge_lock(w))
              => verify_merge_lock(w)']_vars

Merges(a) ==
    \/ pc[a] = "merge" /\ pc'[a] = "release"
    \/ thread[a] = "merge" /\ thread'[a] = "none"

\* merge.py:381-426: an attempt, or the call it left in its thread, merges a head
\* that CI did not pass only when the branch has moved since it saw CLEAN, or
\* GitHub showed it the former head: with no push and no stale view in between,
\* what other attempts, a retry or a crash do in the meantime does no harm.
SeenHeadsPassed ==
    [][\A a \in Attempts :
          (pr[a[1]] # "MERGED" /\ pr'[a[1]] = "MERGED" /\ Merges(a) /\ current[a])
              => ci[a[1]] = "passed"]_vars

\* merge.py and db.py: a run recorded or reported as merged is merged, in every
\* interleaving of attempts, timeouts and crashes.
RecordedMergeIsReal ==
    \A w \in Workflows :
        /\ stage[w] = "merged" => pr[w] = "MERGED"
        /\ result[w] \in {"merged", "skipped"} => pr[w] = "MERGED"

=============================================================================
