------------------------------- MODULE Pipeline -------------------------------
(***************************************************************************)
(* AutodevPipeline (scripts/autodev/temporal/workflow.py) for one issue:   *)
(* implement, create_pr, fix_ci, review_pr, post_review, merge_pr, each an *)
(* activity that Temporal tries MaxAttempts times, in workflow runs that   *)
(* can be started again under the same id, with the worker process that    *)
(* cleans up orphaned rows when it starts (worker.py).                     *)
(*                                                                         *)
(* A place of an attempt is an `await`; the calls of db.py between two     *)
(* awaits are synchronous, so they are one step with the code around them. *)
(* merge_pr is its rebase and its merge here: MergePr has its detail.  A   *)
(* commit is a number; the branch, its remote-tracking ref in the clone    *)
(* and the pull requests opened from it are what git and GitHub keep.      *)
(***************************************************************************)
EXTENDS Integers, Sequences, FiniteSets

CONSTANTS
    MaxAttempts,  \* maximum_attempts of the retry policies
    MaxRuns,      \* bound: workflow runs started for the issue
    MaxFaults,    \* bound: calls that fail, timeouts and crashes in one run
    MaxForeign,   \* bound: pushes to the branch by somebody else
    None

ASSUME PipelineAssumption ==
    /\ MaxAttempts \in Nat \ {0, 1}
    /\ MaxRuns \in Nat
    /\ MaxFaults \in Nat
    /\ MaxForeign \in Nat
    /\ None \notin Nat

VARIABLES
    row,        \* the pipeline_runs row: stage, pr_number, impl_commit_sha, review_decision
    marker,     \* "dispatched" when stage_events has (post_review, auto_loop_dispatched)
    wf,         \* the workflow run: status, step, attempt and what it has of its activities
    at,         \* place of the attempt that runs, "idle" when none does
    worker,     \* "up", "down", or the phase of the cleanup at start
    orphaned,   \* phase 2 found the workflow of the issue in a terminal status
    head,       \* the branch on GitHub, None when it does not exist
    tracked,    \* origin/<branch> in the clone of the worker
    source,     \* history: what the head was before merge_pr of this run rebased it
    foreign,    \* commits somebody else pushed
    last,       \* number of commits made
    prs,        \* states of the pull requests of the branch
    diffed,     \* the commit whose diff the reviewer reads
    approved,   \* history: commits whose last review said APPROVE
    dispatches, \* history: times auto-loop.yml was dispatched
    runs, faults, resumed  \* history: runs started; faults and first stage of this one

dbVars == <<row, marker>>
gitVars == <<head, tracked, source, foreign, last, prs>>
workerVars == <<worker, orphaned>>
history == <<approved, dispatches, runs, resumed>>
vars == <<dbVars, wf, at, workerVars, gitVars, diffed, history, faults>>

Steps == <<"implement", "create_pr", "fix_ci", "review", "post_review", "merge">>
Skippable == {"implemented", "pr_created", "reviewing", "approved", "merged"}
Stages == Skippable \cup {"none", "pending", "implementing", "no_changes", "failed", "merge_conflict"}
Places == {Steps[k] : k \in 1..6} \cup
          {"idle", "clear", "decide", "start", "llm", "record", "find", "create", "view",
           "fix", "fix_push", "diff", "verdict", "post", "close", "fail_row", "dispatch", "merging"}

OpenPrs == {k \in DOMAIN prs : prs[k] = "OPEN"}
NextCommit == last + 1

Init ==
    /\ row = [stage |-> "none", pr |-> None, sha |-> None, decision |-> None]
    /\ marker = "none"
    /\ wf = [status |-> "none", step |-> 1, attempt |-> 0, pr |-> None, decision |-> None]
    /\ at = "idle"
    /\ worker = "up" /\ orphaned = FALSE
    /\ head = None /\ tracked = None /\ source = None /\ foreign = {} /\ last = 0 /\ prs = <<>>
    /\ diffed = None
    /\ approved = {} /\ dispatches = 0
    /\ runs = 0 /\ faults = 0 /\ resumed = "none"

-----------------------------------------------------------------------------
(* db.py: the row.                                                         *)
Stage(s) == [row EXCEPT !.stage = s]

\* clear_run_for_retry() and the upsert of stage "pending" after it.
clear_run_for_retry == [row EXCEPT !.pr = None, !.sha = None, !.stage = "pending"]

GoTo(place) == at' = place /\ UNCHANGED <<wf, faults>>

\* A call of gh, git or a model fails.
Fault == faults < MaxFaults /\ faults' = faults + 1

\* The activity returns: the workflow goes on to the next one, or is over.
Return(w) ==
    /\ at' = "idle"
    /\ wf' = IF w.step = 6 THEN [w EXCEPT !.status = "COMPLETED"]
             ELSE [w EXCEPT !.step = @ + 1, !.attempt = 0]
    /\ UNCHANGED faults
ReturnLast == Return([wf EXCEPT !.step = 6])

\* The activity raises: Temporal sees a failed attempt.
Raise == at' = "idle" /\ UNCHANGED wf

-----------------------------------------------------------------------------
(* Temporal.                                                               *)
StartRun ==
    /\ wf.status # "RUNNING"
    /\ runs < MaxRuns
    /\ wf' = [status |-> "RUNNING", step |-> 1, attempt |-> 0, pr |-> None, decision |-> None]
    /\ runs' = runs + 1
    /\ resumed' = row.stage
    /\ faults' = 0
    /\ source' = head
    /\ UNCHANGED <<dbVars, at, workerVars, head, tracked, foreign, last, prs, diffed,
                   approved, dispatches>>

\* Mutant: attempts are not counted.
RetriesForEver == wf

NextAttempt == [wf EXCEPT !.attempt = @ + 1]

\* Mutant: the workers take activities while the cleanup still runs.
AnyTime == worker # "down"

\* _main(): the workers start after the cleanup.
WorkersRun == worker = "up"

StartAttempt ==
    /\ wf.status = "RUNNING" /\ at = "idle" /\ WorkersRun
    /\ wf.attempt < MaxAttempts
    /\ wf' = NextAttempt
    /\ at' = Steps[wf.step]
    /\ UNCHANGED <<dbVars, workerVars, gitVars, diffed, history, faults>>

AttemptsExhausted ==
    /\ wf.status = "RUNNING" /\ at = "idle"
    /\ wf.attempt = MaxAttempts
    /\ wf' = [wf EXCEPT !.status = "FAILED"]
    /\ UNCHANGED <<dbVars, at, workerVars, gitVars, diffed, history, faults>>

\* start_to_close_timeout: CancelledError is no Exception, the row stays as it is.
TimeOut ==
    /\ at # "idle" /\ Fault /\ Raise
    /\ UNCHANGED <<dbVars, workerVars, gitVars, diffed, history>>

Crash ==
    /\ worker = "up"
    /\ Fault
    /\ worker' = "down"
    /\ at' = "idle"
    /\ UNCHANGED <<dbVars, wf, orphaned, gitVars, diffed, history>>

\* _cleanup_orphaned_runs(): the rows are read, the workflows described, the
\* rows written, with awaits in between.
Cleanup ==
    /\ worker \in {"down", "read", "described"}
    /\ worker' = CASE worker = "down" ->
                        IF row.stage \in {"none", "merged", "failed", "merge_conflict", "no_changes"}
                        THEN "up" ELSE "read"
                   [] worker = "read" -> "described"
                   [] worker = "described" -> "up"
    /\ orphaned' = IF worker = "read" THEN wf.status = "FAILED" ELSE orphaned
    /\ row' = IF worker = "described" /\ orphaned THEN Stage("failed") ELSE row
    /\ UNCHANGED <<marker, wf, at, gitVars, diffed, history, faults>>

-----------------------------------------------------------------------------
(* implement_activity.                                                     *)
SkipImplemented ==
    /\ at = "implement"
    /\ \/ row.stage = "no_changes" /\ ReturnLast
       \/ row.stage \in Skippable /\ Return(wf)
    /\ UNCHANGED <<dbVars, workerVars, gitVars, diffed, history>>

\* Deleting the branch closes the pull requests opened from it.
DeleteBranch ==
    /\ head' = None /\ source' = None
    /\ tracked' = IF head = None THEN tracked ELSE None
    /\ prs' = [k \in DOMAIN prs |-> IF prs[k] = "OPEN" THEN "CLOSED" ELSE prs[k]]

\* The row of an earlier run: its branch is deleted unless the run failed and
\* the branch has an open pull request.  A call that fails is passed over: the
\* guard then lets the deletion go on, and the deletion leaves the branch.
Purge ==
    /\ at = "implement"
    /\ row.stage \in {"failed", "merge_conflict"}
    /\ \/ /\ row.stage = "merge_conflict" \/ head = None \/ OpenPrs = {}
          /\ DeleteBranch /\ GoTo("clear")
       \/ /\ row.stage = "failed" /\ head # None /\ OpenPrs # {}
          /\ \/ UNCHANGED <<head, tracked, source, prs>> /\ GoTo("decide")
             \/ DeleteBranch /\ Fault /\ at' = "clear" /\ UNCHANGED wf
       \/ UNCHANGED <<head, tracked, source, prs>> /\ Fault /\ at' = "clear" /\ UNCHANGED wf
    /\ UNCHANGED <<dbVars, workerVars, foreign, last, diffed, history>>

ClearRun ==
    /\ at = "clear"
    /\ row' = clear_run_for_retry
    /\ GoTo("decide")
    /\ UNCHANGED <<marker, workerVars, gitVars, diffed, history>>

FreshRow ==
    /\ at = "implement"
    /\ row.stage \in {"none", "pending", "implementing"}
    /\ GoTo("decide")
    /\ UNCHANGED <<dbVars, workerVars, gitVars, diffed, history>>

\* A retry takes the branch over when its head is the recorded commit or, with
\* no commit recorded, when `git log origin/<branch>` - the ref of the clone,
\* which nothing has fetched - names the bot as its author.
BranchAccepted ==
    /\ wf.attempt > 1 /\ head # None
    /\ \/ row.sha = head
       \/ row.sha = None /\ tracked \notin foreign \cup {None}

SkipRetry ==
    /\ at = "decide"
    /\ BranchAccepted
    /\ Return(wf)
    /\ UNCHANGED <<dbVars, workerVars, gitVars, diffed, history>>

\* The branch is not accepted, is behind main, or could not be looked up.
Reimplement ==
    /\ at = "decide"
    /\ \/ ~(BranchAccepted /\ row.sha = head) /\ GoTo("start")
       \/ BranchAccepted /\ Fault /\ at' = "start" /\ UNCHANGED wf
    /\ UNCHANGED <<dbVars, workerVars, gitVars, diffed, history>>

BeginImplement ==
    /\ at = "start"
    /\ row' = Stage("implementing")
    /\ GoTo("llm")
    /\ UNCHANGED <<marker, workerVars, gitVars, diffed, history>>

\* git push --force-with-lease: the remote branch is what the clone last saw.
Lease == head = tracked
PushCommit ==
    /\ head' = NextCommit /\ tracked' = NextCommit /\ last' = NextCommit
    /\ source' = NextCommit

\* The model has changed nothing, or its changes are committed and pushed; a
\* push that is rejected raises, and the row of an attempt that raises is failed.
RunModel ==
    /\ at = "llm"
    /\ \/ /\ row' = [row EXCEPT !.stage = "no_changes", !.sha = None]
          /\ ReturnLast
          /\ UNCHANGED <<head, tracked, source, last>>
       \/ Lease /\ PushCommit /\ GoTo("record") /\ UNCHANGED row
       \/ /\ ~Lease
          /\ row' = Stage("failed") /\ Raise
          /\ UNCHANGED <<head, tracked, source, last, faults>>
    /\ UNCHANGED <<marker, workerVars, foreign, prs, diffed, history>>

ImplementFails ==
    /\ at \in {"llm", "record"}
    /\ Fault /\ Raise
    /\ row' = Stage("failed")
    /\ UNCHANGED <<marker, workerVars, gitVars, diffed, history>>

RecordCommit ==
    /\ at = "record"
    /\ row' = [row EXCEPT !.stage = "implemented", !.sha = tracked]
    /\ Return(wf)
    /\ UNCHANGED <<marker, workerVars, gitVars, diffed, history>>

-----------------------------------------------------------------------------
(* create_pr_activity.                                                     *)
PrRecorded == row.pr # None /\ row.stage \in {"pr_created", "reviewing", "approved", "merged"}

ReturnPr(p) == Return([wf EXCEPT !.pr = p])

SkipCreated ==
    /\ at = "create_pr"
    /\ IF PrRecorded THEN ReturnPr(row.pr) ELSE GoTo("find")
    /\ UNCHANGED <<dbVars, workerVars, gitVars, diffed, history>>

RecordPr(p) == row' = [row EXCEPT !.stage = "pr_created", !.pr = p] /\ ReturnPr(p)

\* Mutant: no look for a pull request an earlier attempt has opened.
NoLookup ==
    /\ at = "find"
    /\ GoTo("create")
    /\ UNCHANGED <<dbVars, workerVars, gitVars, diffed, history>>

\* Crash recovery: the open pull request of the branch; a look that fails is passed over.
FindPr ==
    /\ at = "find"
    /\ \/ \E p \in OpenPrs : RecordPr(p)
       \/ OpenPrs = {} /\ GoTo("create") /\ UNCHANGED row
       \/ Fault /\ at' = "create" /\ UNCHANGED <<wf, row>>
    /\ UNCHANGED <<marker, workerVars, gitVars, diffed, history>>

\* gh pr create: GitHub rejects a second pull request of one branch.
CreatePr ==
    /\ at = "create"
    /\ IF head # None /\ OpenPrs = {}
       THEN prs' = Append(prs, "OPEN") /\ GoTo("view")
       ELSE Raise /\ UNCHANGED <<prs, faults>>
    /\ UNCHANGED <<dbVars, workerVars, head, tracked, source, foreign, last, diffed, history>>

\* gh pr view of the new pull request, labels, and the row.
ViewPr ==
    /\ at = "view"
    /\ RecordPr(Len(prs))
    /\ UNCHANGED <<marker, workerVars, gitVars, diffed, history>>

-----------------------------------------------------------------------------
(* fix_ci_activity.  Every ending lets the workflow go on.                 *)
\* A retry only polls; the first attempt leaves when CI passed, did not end,
\* or failed with nothing to work from.
PollCI ==
    /\ at = "fix_ci"
    /\ \/ Return(wf)
       \/ wf.attempt = 1 /\ GoTo("fix")
    /\ UNCHANGED <<dbVars, workerVars, gitVars, diffed, history>>

FetchBranch ==
    /\ at = "fix"
    /\ IF head = None
       THEN Raise /\ UNCHANGED <<tracked, faults>>
       ELSE tracked' = head /\ GoTo("fix_push")
    /\ UNCHANGED <<dbVars, workerVars, head, source, foreign, last, prs, diffed, history>>

\* The model has fixed something or not; a rejected push raises.
PushFix ==
    /\ at = "fix_push"
    /\ \/ Return(wf) /\ UNCHANGED <<head, tracked, source, last>>
       \/ Lease /\ PushCommit /\ Return(wf)
       \/ ~Lease /\ Raise /\ UNCHANGED <<head, tracked, source, last, faults>>
    /\ UNCHANGED <<dbVars, workerVars, foreign, prs, diffed, history>>

-----------------------------------------------------------------------------
(* review_pr_activity and post_review_activity.                            *)
\* Mutant: a decision in the row is taken, whatever the stage.
AnyDecision == row.decision # None

StoredDecision == row.decision # None /\ row.stage \in {"approved", "merged"}

ReturnDecision(d) == Return([wf EXCEPT !.decision = d])

BeginReview ==
    /\ at = "review"
    /\ IF StoredDecision THEN ReturnDecision(row.decision) ELSE GoTo("diff")
    /\ UNCHANGED <<dbVars, workerVars, gitVars, diffed, history>>

ReadDiff ==
    /\ at = "diff"
    /\ diffed' = head
    /\ GoTo("verdict")
    /\ UNCHANGED <<dbVars, workerVars, gitVars, history>>

\* The answer of the model; one that names no decision is REQUEST_CHANGES.
Verdict ==
    /\ at = "verdict"
    /\ \E d \in {"APPROVE", "REQUEST_CHANGES"} :
          /\ row' = [row EXCEPT !.stage = "reviewing", !.decision = d]
          /\ approved' = IF d = "APPROVE" THEN approved \cup {diffed} ELSE approved \ {diffed}
          /\ ReturnDecision(d)
    /\ UNCHANGED <<marker, workerVars, gitVars, diffed, dispatches, runs, resumed>>

\* The comment of this pull request, unless it is there already.
PostComment ==
    /\ at = "post_review"
    /\ GoTo(IF wf.decision = "APPROVE" THEN "post" ELSE "close")
    /\ UNCHANGED <<dbVars, workerVars, gitVars, diffed, history>>

Approve ==
    /\ at = "post"
    /\ row' = Stage("approved")
    /\ Return(wf)
    /\ UNCHANGED <<marker, workerVars, gitVars, diffed, history>>

\* A gh pr close that fails is passed over.
ClosePr ==
    /\ at = "close"
    /\ \/ prs' = [prs EXCEPT ![wf.pr] = IF @ = "OPEN" THEN "CLOSED" ELSE @] /\ GoTo("fail_row")
       \/ UNCHANGED <<prs, wf>> /\ Fault /\ at' = "fail_row"
    /\ UNCHANGED <<dbVars, workerVars, head, tracked, source, foreign, last, diffed, history>>

\* Mutant: the marker is written after the dispatch.
MarkAfter == marker' = marker

MarkBefore == marker' = "dispatched"

\* The row, and the marker before the dispatch it stands for.
FailRow ==
    /\ at = "fail_row"
    /\ row' = Stage("failed")
    /\ IF marker = "dispatched" THEN ReturnLast /\ UNCHANGED marker ELSE MarkBefore /\ GoTo("dispatch")
    /\ UNCHANGED <<workerVars, gitVars, diffed, history>>

\* gh workflow run auto-loop.yml; a failure is logged.  Its answer may be lost.
DispatchAutoLoop ==
    /\ at = "dispatch"
    /\ dispatches' = dispatches + 1
    /\ \/ ReturnLast /\ marker' = "dispatched"
       \/ Fault /\ Raise /\ UNCHANGED marker
    /\ UNCHANGED <<row, workerVars, gitVars, diffed, approved, runs, resumed>>

-----------------------------------------------------------------------------
(* merge_pr_activity (MergePr), as the other activities see it.            *)
SetPr(status) == prs' = [prs EXCEPT ![wf.pr] = status]

\* A red CI, or a rebase that fails twice: a gh pr close that fails is passed over.
CloseFailed(stage) ==
    /\ row' = Stage(stage)
    /\ SetPr("CLOSED") \/ UNCHANGED prs
    /\ ReturnLast

\* _do_rebase(): the branch that was just fetched is rebased onto main and
\* pushed over the head the reviewer has read, whatever the rebase made of it.
PushRebased == head' = NextCommit /\ tracked' = NextCommit /\ last' = NextCommit

\* The wait for CI and the rebase, which is left out when the refs of the clone
\* say that the branch is at the tip of main.
RebaseOntoMain ==
    /\ at = "merge"
    /\ \/ /\ prs[wf.pr] = "MERGED"
          /\ row' = Stage("merged") /\ ReturnLast /\ UNCHANGED <<head, tracked, last, prs>>
       \/ /\ prs[wf.pr] # "MERGED"
          /\ \/ GoTo("merging") /\ head # None /\ PushRebased /\ UNCHANGED <<row, prs>>
             \/ GoTo("merging") /\ UNCHANGED <<row, head, tracked, last, prs>>
             \/ CloseFailed("failed") /\ UNCHANGED <<head, tracked, last>>
             \/ CloseFailed("merge_conflict") /\ tracked' \in {tracked, head} /\ UNCHANGED <<head, last>>
    /\ UNCHANGED <<marker, workerVars, source, foreign, diffed, history>>

\* gh pr merge --squash --delete-branch, of whatever the head is by then.
SquashMerge == prs[wf.pr] = "OPEN" /\ SetPr("MERGED") /\ head' \in {head, None}

\* The wait for CI after the rebase, and the merge.
MergePullRequest ==
    /\ at = "merging"
    /\ \/ SquashMerge /\ row' = Stage("merged") /\ ReturnLast
       \/ SquashMerge /\ Fault /\ Raise /\ UNCHANGED row
       \/ row' = Stage("failed") /\ ReturnLast /\ UNCHANGED <<head, prs>>   \* CI blocked
       \/ ReturnLast /\ UNCHANGED <<row, head, prs>>     \* CI too late, or the lock is lost
       \/ prs[wf.pr] = "CLOSED" /\ Raise /\ UNCHANGED <<row, head, prs, faults>>
    /\ UNCHANGED <<marker, workerVars, tracked, source, foreign, last, diffed, history>>

\* A call that nothing catches, outside implement's try block.
CallFails ==
    /\ at \in {"view", "fix", "fix_push", "diff", "verdict", "post_review", "post", "merge", "merging"}
    /\ Fault /\ Raise
    /\ UNCHANGED <<dbVars, workerVars, gitVars, diffed, history>>

\* Somebody else pushes to the branch.
ForeignPush ==
    /\ head # None
    /\ Cardinality(foreign) < MaxForeign
    /\ head' = NextCommit /\ last' = NextCommit /\ source' = NextCommit
    /\ foreign' = foreign \cup {NextCommit}
    /\ UNCHANGED <<dbVars, wf, at, workerVars, tracked, prs, diffed, history, faults>>

Implement ==
    \/ SkipImplemented \/ Purge \/ ClearRun \/ FreshRow \/ SkipRetry \/ Reimplement
    \/ BeginImplement \/ RunModel \/ ImplementFails \/ RecordCommit
CreatePullRequest == SkipCreated \/ FindPr \/ CreatePr \/ ViewPr
FixCI == PollCI \/ FetchBranch \/ PushFix
Review ==
    \/ BeginReview \/ ReadDiff \/ Verdict
    \/ PostComment \/ Approve \/ ClosePr \/ FailRow \/ DispatchAutoLoop
Merge == RebaseOntoMain \/ MergePullRequest
Activity == Implement \/ CreatePullRequest \/ FixCI \/ Review \/ Merge
Temporal == StartAttempt \/ AttemptsExhausted

Next ==
    \/ Activity \/ CallFails \/ TimeOut
    \/ StartRun \/ Temporal
    \/ Crash \/ Cleanup \/ ForeignPush

\* Temporal hands out every attempt and times out one that does not end; the
\* worker process is restarted by its service manager.
Spec == Init /\ [][Next]_vars /\ WF_vars(Activity) /\ WF_vars(Temporal) /\ WF_vars(Cleanup)

-----------------------------------------------------------------------------
Commits == Nat \cup {None}
Decisions == {"APPROVE", "REQUEST_CHANGES", None}
Rows == [stage : Stages, pr : Nat \cup {None}, sha : Commits, decision : Decisions]
Workflows == [status : {"none", "RUNNING", "COMPLETED", "FAILED"}, step : 1..6,
              attempt : 0..MaxAttempts, pr : Nat \cup {None}, decision : Decisions]

PipelineTypeOK ==
    /\ row \in Rows /\ marker \in {"none", "dispatched"}
    /\ wf \in Workflows /\ at \in Places
    /\ worker \in {"up", "down", "read", "described"} /\ orphaned \in BOOLEAN
    /\ head \in Commits /\ tracked \in Commits /\ source \in Commits /\ foreign \subseteq Nat /\ last \in Nat
    /\ prs \in Seq({"OPEN", "CLOSED", "MERGED"})
    /\ diffed \in Commits /\ approved \subseteq Commits
    /\ dispatches \in Nat /\ runs \in 0..MaxRuns /\ faults \in 0..MaxFaults /\ resumed \in Stages

\* review.py:230-235: auto-loop.yml is dispatched once for the issue, whatever
\* attempt or run of post_review crashes, times out or is tried again.
AtMostOneDispatch == dispatches <= 1

\* create_pr's crash recovery and implement's retry logic: no attempt is lost to
\* what an earlier attempt of the same run left behind.  A first run fails only
\* when as many calls failed as it has attempts, or somebody else pushed.
FailsOnlyWhenExhausted ==
    runs = 1 /\ wf.status = "FAILED" => faults >= MaxAttempts \/ foreign # {}

\* worker.py:65-66: the cleanup never turns a recorded merge into a failure,
\* though it writes what it has read two awaits earlier.
CleanupKeepsMerged ==
    [][worker = "described" /\ worker' = "up" /\ row.stage = "merged" => row' = row]_vars

\* implement.py:376, "autodev-train will merge after review passes": unless the
\* run resumed an issue approved before, what it merges is a commit approved in
\* its last review or pushed by somebody else, or what merge_pr of this run has
\* made of that one by rebasing it, which nobody reviews (merge.py:77-81).
MergedWasApproved ==
    [][(\E p \in OpenPrs : prs'[p] = "MERGED") /\ resumed \notin {"approved", "merged"}
          => source \in approved \cup foreign]_vars

\* workflow.py: a run ends, whatever fails and however often the worker dies.
RunEnds == wf.status = "RUNNING" ~> wf.status # "RUNNING"

=============================================================================
