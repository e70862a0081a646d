---------------------------- MODULE PipelineProofs ----------------------------
(***************************************************************************)
(* One issue's pipeline, for any number of attempts, workflow runs, faults *)
(* and pushes by others.                                                   *)
(***************************************************************************)
EXTENDS Pipeline, TLAPS

(* Every place belongs to one activity of the workflow.                    *)
PlaceIsOfStep ==
    /\ at \in {"implement", "clear", "decide", "start", "llm", "record"} => wf.step = 1
    /\ at \in {"create_pr", "find", "create", "view"} => wf.step = 2
    /\ at \in {"fix_ci", "fix", "fix_push"} => wf.step = 3
    /\ at \in {"review", "diff", "verdict"} => wf.step = 4
    /\ at \in {"post_review", "post", "close", "fail_row", "dispatch"} => wf.step = 5
    /\ at \in {"merge", "merging"} => wf.step = 6
    /\ at # "idle" => wf.status = "RUNNING"

(* The marker is there before auto-loop.yml is dispatched.                 *)
MarkerFirst ==
    /\ marker = "none" => dispatches = 0
    /\ at = "dispatch" => marker = "dispatched" /\ dispatches = 0
    /\ dispatches \in {0, 1}

(* While the cleanup runs there is no attempt to change the row it read.   *)
CleanupAlone ==
    /\ worker # "up" => at = "idle"
    /\ worker \in {"read", "described"} => row.stage # "merged"

(* From the verdict on the branch is what was approved, or a foreign push,  *)
(* until merge_pr makes its rebase of that.                                *)
HeadReviewed ==
    /\ wf.status = "RUNNING" /\ wf.step < 6 => source = head
    /\ at = "verdict" => diffed = source \/ source \in foreign
    /\ resumed \notin {"approved", "merged"} /\ wf.status = "RUNNING" =>
          /\ wf.step < 5 => row.stage \notin {"approved", "merged"}
          /\ wf.step >= 5 /\ wf.decision = "APPROVE" => source \in approved \cup foreign
          /\ wf.step = 6 \/ at = "post" => wf.decision = "APPROVE"

IInv == PipelineTypeOK /\ PlaceIsOfStep /\ MarkerFirst /\ CleanupAlone /\ HeadReviewed

-----------------------------------------------------------------------------
(* Rows and workflow records that the steps build.                         *)
LEMMA RowsBuilt ==
  ASSUME row \in Rows
  PROVE  /\ \A s \in Stages : Stage(s) \in Rows /\ Stage(s).stage = s
         /\ \A s \in Stages, c \in Commits :
               [row EXCEPT !.stage = s, !.sha = c] \in Rows /\ [row EXCEPT !.stage = s, !.sha = c].stage = s
         /\ \A p \in Nat : /\ [row EXCEPT !.stage = "pr_created", !.pr = p] \in Rows
                           /\ [row EXCEPT !.stage = "pr_created", !.pr = p].stage = "pr_created"
         /\ \A d \in Decisions : /\ [row EXCEPT !.stage = "reviewing", !.decision = d] \in Rows
                                 /\ [row EXCEPT !.stage = "reviewing", !.decision = d].stage = "reviewing"
         /\ clear_run_for_retry \in Rows /\ clear_run_for_retry.stage = "pending"
<1>1. \A s \in Stages : Stage(s) \in Rows /\ Stage(s).stage = s
  BY DEF Stage, Rows
<1>2. \A s \in Stages, c \in Commits :
         [row EXCEPT !.stage = s, !.sha = c] \in Rows /\ [row EXCEPT !.stage = s, !.sha = c].stage = s
  BY DEF Rows
<1>3. \A p \in Nat : /\ [row EXCEPT !.stage = "pr_created", !.pr = p] \in Rows
                     /\ [row EXCEPT !.stage = "pr_created", !.pr = p].stage = "pr_created"
  BY DEF Rows, Stages, Skippable
<1>4. \A d \in Decisions : /\ [row EXCEPT !.stage = "reviewing", !.decision = d] \in Rows
                           /\ [row EXCEPT !.stage = "reviewing", !.decision = d].stage = "reviewing"
  BY DEF Rows, Stages, Skippable
<1>5. clear_run_for_retry \in Rows /\ clear_run_for_retry.stage = "pending"
  BY DEF clear_run_for_retry, Rows, Commits, Stages
<1> QED
  BY <1>1, <1>2, <1>3, <1>4, <1>5

LEMMA PlacesAre ==
  {"implement", "create_pr", "fix_ci", "review", "post_review", "merge", "idle",
   "clear", "decide", "start", "llm", "record", "find", "create", "view", "fix", "fix_push",
   "diff", "verdict", "post", "close", "fail_row", "dispatch", "merging"} \subseteq Places
<1>1. \A k \in 1..6 : Steps[k] \in Places
  BY DEF Places
<1>2. {Steps[1], Steps[2], Steps[3], Steps[4], Steps[5], Steps[6]} \subseteq Places
  BY <1>1
<1>3. {"idle", "clear", "decide", "start", "llm", "record", "find", "create", "view", "fix", "fix_push",
       "diff", "verdict", "post", "close", "fail_row", "dispatch", "merging"} \subseteq Places
  BY DEF Places
<1> QED
  BY <1>2, <1>3 DEF Steps

(* An activity that returns lets the workflow go on, or ends it.           *)
LEMMA ReturnGoesOn ==
  ASSUME NEW w \in Workflows, w.status = "RUNNING", Return(w)
  PROVE  /\ wf' \in Workflows /\ at' = "idle" /\ faults' = faults
         /\ wf'.pr = w.pr /\ wf'.decision = w.decision
         /\ w.step = 6 => wf'.status = "COMPLETED" /\ wf'.step = 6
         /\ w.step < 6 => wf'.status = "RUNNING" /\ wf'.step = w.step + 1
<1>1. CASE w.step = 6
  BY <1>1 DEF Return, Workflows
<1>2. CASE w.step # 6
  <2>1. wf' = [w EXCEPT !.step = w.step + 1, !.attempt = 0] /\ at' = "idle" /\ faults' = faults
    BY <1>2 DEF Return
  <2>2. w.step \in 1..5 /\ w.step + 1 \in 1..6 /\ 0 \in 0..MaxAttempts
    BY <1>2, PipelineAssumption DEF Workflows
  <2> QED
    BY <2>1, <2>2, <1>2 DEF Workflows
<1> QED
  BY <1>1, <1>2

LEMMA LastReturned ==
  ASSUME wf \in Workflows, wf.status = "RUNNING", ReturnLast
  PROVE  wf' \in Workflows /\ at' = "idle" /\ faults' = faults /\ wf'.status = "COMPLETED" /\ wf'.step = 6
<1> DEFINE w == [wf EXCEPT !.step = 6]
<1>1. w \in Workflows /\ w.status = "RUNNING" /\ w.step = 6 /\ Return(w)
  BY DEF Workflows, ReturnLast
<1> HIDE DEF w
<1> QED
  BY <1>1, ReturnGoesOn

LEMMA DecisionReturned ==
  ASSUME wf \in Workflows, wf.status = "RUNNING", wf.step < 6, NEW d \in Decisions, ReturnDecision(d)
  PROVE  /\ wf' \in Workflows /\ at' = "idle" /\ faults' = faults
         /\ wf'.status = "RUNNING" /\ wf'.step = wf.step + 1 /\ wf'.decision = d
<1> DEFINE w == [wf EXCEPT !.decision = d]
<1>1. /\ w \in Workflows /\ w.status = "RUNNING" /\ w.step = wf.step /\ w.decision = d
      /\ Return(w)
  BY DEF Workflows, ReturnDecision
<1> HIDE DEF w
<1> QED
  BY <1>1, ReturnGoesOn

-----------------------------------------------------------------------------
(* The step of every place is one of the workflow's, which has six.        *)
LEMMA NextAttemptTyped ==
  ASSUME wf \in Workflows, wf.status = "RUNNING", wf.attempt < MaxAttempts, wf' = NextAttempt
  PROVE  /\ wf' \in Workflows /\ wf'.step = wf.step /\ wf'.status = "RUNNING"
         /\ wf'.decision = wf.decision
<1>1. wf.attempt \in 0..MaxAttempts /\ wf.attempt + 1 \in 0..MaxAttempts
  BY PipelineAssumption DEF Workflows
<1> QED
  BY <1>1 DEF Workflows, NextAttempt

LEMMA StartAttemptKeeps == ASSUME IInv, StartAttempt PROVE IInv'
<1> USE DEF IInv, StartAttempt, WorkersRun, NextAttempt, dbVars, workerVars, gitVars, history
<1>1. /\ wf' \in Workflows /\ wf'.step = wf.step /\ wf'.status = "RUNNING" /\ wf'.decision = wf.decision
  BY NextAttemptTyped DEF PipelineTypeOK
<1>2. wf.step \in 1..6
  BY DEF PipelineTypeOK, Workflows
<1>3. /\ wf.step = 1 => at' = "implement"
      /\ wf.step = 2 => at' = "create_pr"
      /\ wf.step = 3 => at' = "fix_ci"
      /\ wf.step = 4 => at' = "review"
      /\ wf.step = 5 => at' = "post_review"
      /\ wf.step = 6 => at' = "merge"
  BY <1>2 DEF Steps
<1>4. PipelineTypeOK'
  <2>1. at' \in Places
    BY <1>2, <1>3, PlacesAre
  <2> QED
    BY <1>1, <2>1 DEF PipelineTypeOK
<1>5. PlaceIsOfStep'
  BY <1>1, <1>2, <1>3 DEF PlaceIsOfStep
<1>6. MarkerFirst' /\ CleanupAlone' /\ HeadReviewed'
  BY <1>1, <1>2, <1>3 DEF MarkerFirst, CleanupAlone, HeadReviewed
<1> QED
  BY <1>4, <1>5, <1>6

(* create_pr returns a number: of the row, of GitHub, or of the new one.   *)
LEMMA PrReturnKeeps ==
  ASSUME IInv, at # "idle", wf.step = 2, NEW p \in Nat, ReturnPr(p),
         row' \in Rows, row' = row \/ row'.stage = "pr_created",
         UNCHANGED <<marker, workerVars, gitVars, diffed, history>>
  PROVE  IInv'
<1> USE DEF IInv, workerVars, gitVars, history
<1> DEFINE w == [wf EXCEPT !.pr = p]
<1>1. /\ w \in Workflows /\ w.status = "RUNNING" /\ w.step = 2 /\ w.decision = wf.decision
      /\ Return(w)
  BY DEF PipelineTypeOK, Workflows, ReturnPr, PlaceIsOfStep
<1> HIDE DEF w
<1>2. /\ wf' \in Workflows /\ at' = "idle" /\ faults' = faults
      /\ wf'.status = "RUNNING" /\ wf'.step = 3
  BY <1>1, ReturnGoesOn
<1>3. PipelineTypeOK' /\ PlaceIsOfStep'
  BY <1>2, PlacesAre DEF PipelineTypeOK, PlaceIsOfStep
<1>4. MarkerFirst' /\ CleanupAlone' /\ HeadReviewed'
  BY <1>2 DEF MarkerFirst, CleanupAlone, HeadReviewed, PlaceIsOfStep
<1> QED
  BY <1>3, <1>4

LEMMA CreatePullRequestKeeps == ASSUME IInv, CreatePullRequest PROVE IInv'
<1> USE DEF IInv, dbVars
<1>1. row \in Rows /\ \A p \in DOMAIN prs : p \in Nat
  BY DEF PipelineTypeOK
<1>2. /\ row.pr \in Nat \cup {None} /\ Len(prs) \in Nat
      /\ \A p \in Nat : /\ [row EXCEPT !.stage = "pr_created", !.pr = p] \in Rows
                        /\ [row EXCEPT !.stage = "pr_created", !.pr = p].stage = "pr_created"
  <2>1. row.pr \in Nat \cup {None} /\ Len(prs) \in Nat
    BY <1>1 DEF PipelineTypeOK, Rows
  <2> QED
    BY <1>1, <2>1, RowsBuilt
<1>3. \A p \in Nat : RecordPr(p) => ReturnPr(p) /\ row' \in Rows /\ row'.stage = "pr_created"
  BY <1>2 DEF RecordPr
<1>4. \A place \in {"find", "create", "view"} :
         /\ at \in {"create_pr", "find", "create"} /\ at' = place /\ wf' = wf /\ row' = row
         /\ faults' \in 0..MaxFaults /\ prs' \in Seq({"OPEN", "CLOSED", "MERGED"})
         /\ UNCHANGED <<marker, workerVars, head, tracked, source, foreign, last, diffed, history>>
         => IInv'
  BY PlacesAre DEF PipelineTypeOK, PlaceIsOfStep, MarkerFirst, CleanupAlone, HeadReviewed, workerVars, history
<1>5. CASE SkipCreated
  <2>1. CASE PrRecorded
    BY <1>2, <1>5, <2>1, PrReturnKeeps DEF SkipCreated, PrRecorded, PlaceIsOfStep, PipelineTypeOK
  <2>2. CASE ~PrRecorded
    BY <1>4, <1>5, <2>2 DEF SkipCreated, GoTo, gitVars, PipelineTypeOK
  <2> QED
    BY <2>1, <2>2
<1>6. CASE FindPr
  <2>1. CASE \E p \in OpenPrs : RecordPr(p)
    BY <1>1, <1>3, <1>6, <2>1, PrReturnKeeps DEF FindPr, OpenPrs, PlaceIsOfStep
  <2>2. CASE ~\E p \in OpenPrs : RecordPr(p)
    BY <1>4, <1>6, <2>2, PipelineAssumption DEF FindPr, GoTo, Fault, gitVars, PipelineTypeOK
  <2> QED
    BY <2>1, <2>2
<1>7. CASE CreatePr
  <2>1. prs' \in Seq({"OPEN", "CLOSED", "MERGED"})
    BY <1>7 DEF CreatePr, PipelineTypeOK
  <2>2. CASE head # None /\ OpenPrs = {}
    BY <1>4, <1>7, <2>1, <2>2 DEF CreatePr, GoTo, PipelineTypeOK
  <2>3. CASE ~(head # None /\ OpenPrs = {})
    BY <1>7, <2>3, PlacesAre DEF CreatePr, Raise, PipelineTypeOK, PlaceIsOfStep, MarkerFirst,
       CleanupAlone, HeadReviewed, workerVars, history
  <2> QED
    BY <2>2, <2>3
<1>8. CASE ViewPr
  BY <1>2, <1>3, <1>8, PrReturnKeeps DEF ViewPr, PlaceIsOfStep
<1> QED
  BY <1>5, <1>6, <1>7, <1>8 DEF CreatePullRequest

(* A decision in an approved row is of an earlier run that was approved.   *)
LEMMA BeginReviewKeeps == ASSUME IInv, BeginReview PROVE IInv'
<1> USE DEF IInv, BeginReview, dbVars, workerVars, gitVars, history
<1>1. wf.step = 4 /\ wf.status = "RUNNING" /\ wf \in Workflows /\ row.decision \in Decisions
  BY DEF PlaceIsOfStep, PipelineTypeOK, Rows
<1>2. CASE StoredDecision
  <2>1. /\ wf' \in Workflows /\ at' = "idle" /\ faults' = faults
        /\ wf'.status = "RUNNING" /\ wf'.step = 5
    BY <1>1, <1>2, DecisionReturned
  <2>2. resumed \in {"approved", "merged"}
    BY <1>1, <1>2 DEF StoredDecision, HeadReviewed
  <2>3. PipelineTypeOK' /\ PlaceIsOfStep'
    BY <2>1, PlacesAre DEF PipelineTypeOK, PlaceIsOfStep
  <2>4. MarkerFirst' /\ CleanupAlone' /\ HeadReviewed'
    BY <1>1, <2>1, <2>2 DEF MarkerFirst, CleanupAlone, HeadReviewed
  <2> QED
    BY <2>3, <2>4
<1>3. CASE ~StoredDecision
  BY <1>1, <1>3, PlacesAre DEF GoTo, PipelineTypeOK, PlaceIsOfStep, MarkerFirst, CleanupAlone, HeadReviewed
<1> QED
  BY <1>2, <1>3

(* The verdict is about the diff that was read, and the branch is still     *)
(* that commit or a push of somebody else.                                 *)
LEMMA VerdictKeeps == ASSUME IInv, Verdict PROVE IInv'
<1> USE DEF IInv, workerVars, gitVars, history
<1>1. /\ wf.step = 4 /\ wf.status = "RUNNING" /\ wf \in Workflows /\ row \in Rows
      /\ diffed = source \/ source \in foreign
  BY DEF Verdict, PlaceIsOfStep, PipelineTypeOK, HeadReviewed
<1>2. PICK d \in {"APPROVE", "REQUEST_CHANGES"} :
         /\ row' = [row EXCEPT !.stage = "reviewing", !.decision = d]
         /\ approved' = IF d = "APPROVE" THEN approved \cup {diffed} ELSE approved \ {diffed}
         /\ ReturnDecision(d)
  BY DEF Verdict
<1>3. d \in Decisions
  BY DEF Decisions
<1>4. row' \in Rows /\ row'.stage = "reviewing"
  BY <1>1, <1>2, <1>3, RowsBuilt
<1>5. /\ wf' \in Workflows /\ at' = "idle" /\ faults' = faults
      /\ wf'.status = "RUNNING" /\ wf'.step = 5 /\ wf'.decision = d
  BY <1>1, <1>2, <1>3, DecisionReturned
<1>6. PipelineTypeOK' /\ PlaceIsOfStep'
  BY <1>2, <1>4, <1>5, PlacesAre DEF Verdict, PipelineTypeOK, PlaceIsOfStep
<1>7. MarkerFirst' /\ CleanupAlone'
  BY <1>4, <1>5 DEF Verdict, MarkerFirst, CleanupAlone
<1>8. HeadReviewed'
  BY <1>1, <1>2, <1>4, <1>5 DEF Verdict, HeadReviewed
<1> QED
  BY <1>6, <1>7, <1>8

(* The steps of implement come before any review of this run.              *)
LEMMA PurgeKeeps == ASSUME IInv, Purge PROVE IInv'
<1> USE DEF IInv, dbVars, workerVars, history
<1>1. /\ prs' \in Seq({"OPEN", "CLOSED", "MERGED"})
      /\ head' \in Commits /\ tracked' \in Commits /\ source' \in Commits
      /\ (source = head => source' = head') /\ faults' \in 0..MaxFaults
      /\ at' \in {"clear", "decide"} /\ wf' = wf
  <2>1. DeleteBranch => /\ prs' \in Seq({"OPEN", "CLOSED", "MERGED"})
                      /\ head' \in Commits /\ tracked' \in Commits /\ source' = head'
    BY DEF DeleteBranch, PipelineTypeOK, Commits
  <2>2. (prs' = prs /\ head' = head /\ tracked' = tracked /\ source' = source) \/ DeleteBranch
    BY DEF Purge
  <2>3. faults' \in 0..MaxFaults /\ at' \in {"clear", "decide"} /\ wf' = wf
    BY PipelineAssumption DEF Purge, GoTo, Fault, PipelineTypeOK
  <2> QED
    BY <2>1, <2>2, <2>3 DEF PipelineTypeOK
<1>2. PipelineTypeOK'
  BY <1>1, PlacesAre DEF Purge, PipelineTypeOK
<1>3. PlaceIsOfStep' /\ MarkerFirst' /\ CleanupAlone'
  BY <1>1 DEF Purge, PlaceIsOfStep, MarkerFirst, CleanupAlone
<1>4. HeadReviewed'
  BY <1>1 DEF Purge, PlaceIsOfStep, HeadReviewed
<1> QED
  BY <1>2, <1>3, <1>4

LEMMA RunModelKeeps == ASSUME IInv, RunModel PROVE IInv'
<1> USE DEF IInv, workerVars, history
<1>1. wf.step = 1 /\ wf.status = "RUNNING" /\ wf \in Workflows /\ row \in Rows
  BY DEF RunModel, PlaceIsOfStep, PipelineTypeOK
<1>2. /\ row' \in Rows /\ (row' = row \/ row'.stage \in {"no_changes", "failed"})
      /\ wf' \in Workflows /\ (wf' = wf \/ wf'.status = "COMPLETED")
      /\ at' \in {"idle", "record"} /\ faults' = faults
      /\ at' = "record" => wf' = wf
  <2>1. CASE row' = [row EXCEPT !.stage = "no_changes", !.sha = None] /\ ReturnLast
    <3>1. "no_changes" \in Stages /\ None \in Commits
      BY DEF Stages, Commits
    <3> QED
      BY <1>1, <2>1, <3>1, RowsBuilt, LastReturned
  <2>2. CASE GoTo("record") /\ row' = row
    BY <1>1, <2>2 DEF GoTo
  <2>3. CASE row' = Stage("failed") /\ Raise /\ faults' = faults
    <3>1. "failed" \in Stages
      BY DEF Stages
    <3> QED
      BY <1>1, <2>3, <3>1, RowsBuilt DEF Raise
  <2> QED
    BY <2>1, <2>2, <2>3 DEF RunModel
<1>3. head' \in Commits /\ tracked' \in Commits /\ source' \in Commits /\ last' \in Nat
  BY DEF RunModel, PushCommit, NextCommit, PipelineTypeOK, Commits
<1>4. PipelineTypeOK'
  BY <1>2, <1>3, PlacesAre DEF RunModel, PipelineTypeOK
<1>5. PlaceIsOfStep' /\ MarkerFirst' /\ CleanupAlone'
  BY <1>1, <1>2 DEF RunModel, PlaceIsOfStep, MarkerFirst, CleanupAlone
<1>6. HeadReviewed'
  <2>1. resumed' = resumed /\ (source = head => source' = head')
    BY DEF RunModel, PushCommit
  <2> QED
    BY <1>1, <1>2, <2>1 DEF HeadReviewed
<1> QED
  BY <1>4, <1>5, <1>6

LEMMA RecordCommitKeeps == ASSUME IInv, RecordCommit PROVE IInv'
<1> USE DEF IInv, RecordCommit, workerVars, gitVars, history
<1>1. /\ wf.step = 1 /\ wf.status = "RUNNING" /\ wf \in Workflows /\ row \in Rows
      /\ tracked \in Commits /\ "implemented" \in Stages
  BY DEF PlaceIsOfStep, PipelineTypeOK, Stages, Skippable
<1>2. row' \in Rows /\ row'.stage = "implemented"
  BY <1>1, RowsBuilt
<1>3. wf' \in Workflows /\ at' = "idle" /\ faults' = faults /\ wf'.status = "RUNNING" /\ wf'.step = 2
  BY <1>1, ReturnGoesOn
<1>4. PipelineTypeOK' /\ PlaceIsOfStep'
  BY <1>2, <1>3, PlacesAre DEF PipelineTypeOK, PlaceIsOfStep
<1>5. MarkerFirst' /\ CleanupAlone' /\ HeadReviewed'
  BY <1>1, <1>2, <1>3 DEF MarkerFirst, CleanupAlone, HeadReviewed
<1> QED
  BY <1>4, <1>5

-----------------------------------------------------------------------------
LEMMA InitInvariant == Init => IInv
<1> SUFFICES ASSUME Init PROVE IInv
  OBVIOUS
<1>1. PipelineTypeOK
  <2>1. row \in Rows /\ wf \in Workflows
    BY PipelineAssumption DEF Init, Rows, Workflows, Stages, Commits, Decisions
  <2>2. prs \in Seq({"OPEN", "CLOSED", "MERGED"})
    BY DEF Init
  <2>3. orphaned \in BOOLEAN
    BY DEF Init
  <2> QED
    BY <2>1, <2>2, <2>3, PlacesAre, PipelineAssumption DEF Init, PipelineTypeOK, Commits, Stages
<1>2. PlaceIsOfStep /\ MarkerFirst /\ CleanupAlone /\ HeadReviewed
  BY DEF Init, PlaceIsOfStep, MarkerFirst, CleanupAlone, HeadReviewed
<1> QED
  BY <1>1, <1>2 DEF IInv

(* A new run starts at the first step, whatever the row is.                *)
LEMMA StartRunKeeps == ASSUME IInv, StartRun PROVE IInv'
<1> USE DEF IInv, StartRun, dbVars, workerVars, gitVars
<1>1. wf' \in Workflows /\ row.stage \in Stages
  BY PipelineAssumption DEF PipelineTypeOK, Workflows, Rows, Decisions
<1>2. PipelineTypeOK'
  BY <1>1, PipelineAssumption DEF PipelineTypeOK
<1>3. PlaceIsOfStep' /\ MarkerFirst' /\ CleanupAlone' /\ HeadReviewed'
  BY DEF PlaceIsOfStep, MarkerFirst, CleanupAlone, HeadReviewed
<1> QED
  BY <1>2, <1>3

LEMMA CleanupKeeps == ASSUME IInv, Cleanup PROVE IInv'
<1> USE DEF IInv, Cleanup, gitVars, history
<1>1. row' = row \/ row' = Stage("failed")
  OBVIOUS
<1>2. row' \in Rows /\ (row'.stage = row.stage \/ row'.stage = "failed")
  <2>1. row \in Rows /\ "failed" \in Stages
    BY DEF PipelineTypeOK, Stages
  <2> QED
    BY <1>1, <2>1, RowsBuilt
<1>3. orphaned' \in BOOLEAN
  BY Zenon DEF PipelineTypeOK
<1>4. worker' \in {"up", "read", "described"} /\ (worker' \in {"read", "described"} => row' = row /\ row.stage # "merged")
  BY DEF CleanupAlone
<1>5. PipelineTypeOK'
  BY <1>2, <1>3, <1>4 DEF PipelineTypeOK
<1>6. PlaceIsOfStep' /\ MarkerFirst' /\ HeadReviewed'
  BY <1>2 DEF PlaceIsOfStep, MarkerFirst, HeadReviewed
<1>7. CleanupAlone'
  BY <1>4 DEF CleanupAlone
<1> QED
  BY <1>5, <1>6, <1>7

LEMMA ImplementKeeps == ASSUME IInv, Implement PROVE IInv'
<1> USE DEF IInv, dbVars, workerVars, gitVars, history
<1>1. CASE SkipImplemented \/ SkipRetry
  <2>1. wf.step = 1 /\ wf.status = "RUNNING" /\ wf \in Workflows
    BY <1>1 DEF SkipImplemented, SkipRetry, PlaceIsOfStep, PipelineTypeOK
  <2>2. /\ wf' \in Workflows /\ at' = "idle" /\ faults' = faults
        /\ wf'.status = "COMPLETED" \/ (wf'.status = "RUNNING" /\ wf'.step = 2)
    <3>1. CASE Return(wf)
      BY <2>1, <3>1, ReturnGoesOn
    <3>2. CASE ReturnLast
      BY <2>1, <3>2, LastReturned
    <3> QED
      BY <1>1, <3>1, <3>2 DEF SkipImplemented, SkipRetry
  <2>3. PipelineTypeOK' /\ PlaceIsOfStep'
    BY <1>1, <2>2, PlacesAre DEF SkipImplemented, SkipRetry, PipelineTypeOK, PlaceIsOfStep
  <2>4. MarkerFirst' /\ CleanupAlone' /\ HeadReviewed'
    BY <1>1, <2>1, <2>2 DEF SkipImplemented, SkipRetry, MarkerFirst, CleanupAlone, HeadReviewed
  <2> QED
    BY <2>3, <2>4
<1>2. CASE ClearRun \/ BeginImplement \/ ImplementFails
  <2>1. wf.step = 1 /\ wf.status = "RUNNING" /\ row \in Rows /\ {"failed", "implementing"} \subseteq Stages
    BY <1>2 DEF ClearRun, BeginImplement, ImplementFails, PlaceIsOfStep, PipelineTypeOK, Stages
  <2>2. row' \in Rows /\ row'.stage \in {"pending", "implementing", "failed"}
    <3>1. row' = clear_run_for_retry \/ row' = Stage("implementing") \/ row' = Stage("failed")
      BY <1>2 DEF ClearRun, BeginImplement, ImplementFails
    <3>2. /\ Stage("implementing") \in Rows /\ Stage("implementing").stage = "implementing"
          /\ Stage("failed") \in Rows /\ Stage("failed").stage = "failed"
      BY <2>1, RowsBuilt
    <3>3. clear_run_for_retry \in Rows /\ clear_run_for_retry.stage = "pending"
      BY <2>1, RowsBuilt
    <3> QED
      BY <3>1, <3>2, <3>3
  <2>3. wf' = wf /\ at' \in {"decide", "llm", "idle"} /\ faults' \in 0..MaxFaults
    BY <1>2, PipelineAssumption DEF ClearRun, BeginImplement, ImplementFails, GoTo, Raise, Fault, PipelineTypeOK
  <2>4. UNCHANGED <<marker, workerVars, gitVars, diffed, history>>
    BY <1>2 DEF ClearRun, BeginImplement, ImplementFails
  <2>5. PipelineTypeOK' /\ PlaceIsOfStep'
    BY <2>1, <2>2, <2>3, <2>4, PlacesAre DEF PipelineTypeOK, PlaceIsOfStep
  <2>6. MarkerFirst' /\ CleanupAlone' /\ HeadReviewed'
    BY <1>2, <2>1, <2>2, <2>3, <2>4 DEF ClearRun, BeginImplement, ImplementFails, MarkerFirst, CleanupAlone, HeadReviewed
  <2> QED
    BY <2>5, <2>6
<1>3. CASE FreshRow \/ Reimplement
  <2>1. /\ wf' = wf /\ at' \in {"decide", "start"} /\ faults' \in 0..MaxFaults
        /\ at \in {"implement", "decide"}
        /\ UNCHANGED <<row, marker, workerVars, gitVars, diffed, history>>
    BY <1>3, PipelineAssumption DEF FreshRow, Reimplement, GoTo, Fault, PipelineTypeOK
  <2>2. PipelineTypeOK' /\ PlaceIsOfStep'
    BY <2>1, PlacesAre DEF PipelineTypeOK, PlaceIsOfStep
  <2>3. MarkerFirst' /\ CleanupAlone' /\ HeadReviewed'
    BY <2>1 DEF MarkerFirst, CleanupAlone, HeadReviewed
  <2> QED
    BY <2>2, <2>3
<1> QED
  BY <1>1, <1>2, <1>3, PurgeKeeps, RunModelKeeps, RecordCommitKeeps DEF Implement

LEMMA FixCIKeeps == ASSUME IInv, FixCI PROVE IInv'
<1> USE DEF IInv, dbVars, workerVars, history
<1>1. wf.step = 3 /\ wf.status = "RUNNING" /\ wf \in Workflows
  BY DEF FixCI, PollCI, FetchBranch, PushFix, PlaceIsOfStep, PipelineTypeOK
<1>2. /\ wf' \in Workflows /\ faults' = faults /\ wf'.status = "RUNNING"
      /\ (at' = "idle" /\ wf'.step = 4) \/ (at' \in {"idle", "fix", "fix_push"} /\ wf' = wf)
  <2>1. CASE Return(wf)
    BY <1>1, <2>1, ReturnGoesOn
  <2>2. CASE faults' = faults /\ wf' = wf /\ at' \in {"idle", "fix", "fix_push"}
    BY <1>1, <2>2
  <2> QED
    BY <2>1, <2>2 DEF FixCI, PollCI, FetchBranch, PushFix, GoTo, Raise
<1>3. /\ head' \in Commits /\ tracked' \in Commits /\ source' \in Commits /\ last' \in Nat
      /\ source = head => source' = head'
      /\ UNCHANGED <<row, marker, workerVars, foreign, prs, diffed, history>>
  BY DEF FixCI, PollCI, FetchBranch, PushFix, PushCommit, NextCommit, gitVars, PipelineTypeOK, Commits
<1>4. at # "idle"
  BY DEF FixCI, PollCI, FetchBranch, PushFix
<1>5. PipelineTypeOK' /\ PlaceIsOfStep'
  BY <1>1, <1>2, <1>3, PlacesAre DEF PipelineTypeOK, PlaceIsOfStep
<1>6. MarkerFirst' /\ CleanupAlone' /\ HeadReviewed'
  BY <1>1, <1>2, <1>3, <1>4 DEF MarkerFirst, CleanupAlone, HeadReviewed
<1> QED
  BY <1>5, <1>6

LEMMA ReviewKeeps == ASSUME IInv, Review PROVE IInv'
<1> USE DEF IInv, dbVars, workerVars, gitVars, history
<1>1. CASE ReadDiff
  BY <1>1, PlacesAre DEF ReadDiff, GoTo, PipelineTypeOK, PlaceIsOfStep, MarkerFirst, CleanupAlone, HeadReviewed
<1>2. CASE PostComment
  BY <1>2, PlacesAre DEF PostComment, GoTo, PipelineTypeOK, PlaceIsOfStep, MarkerFirst, CleanupAlone, HeadReviewed
<1>3. CASE Approve
  <2>1. /\ wf.step = 5 /\ wf.status = "RUNNING" /\ wf \in Workflows /\ row \in Rows /\ "approved" \in Stages
    BY <1>3 DEF Approve, PlaceIsOfStep, PipelineTypeOK, Stages, Skippable
  <2>2. row' \in Rows /\ row'.stage = "approved"
    BY <1>3, <2>1, RowsBuilt DEF Approve
  <2>3. /\ wf' \in Workflows /\ at' = "idle" /\ faults' = faults
        /\ wf'.status = "RUNNING" /\ wf'.step = 6 /\ wf'.decision = wf.decision
    BY <1>3, <2>1, ReturnGoesOn DEF Approve
  <2>4. PipelineTypeOK' /\ PlaceIsOfStep'
    BY <1>3, <2>2, <2>3, PlacesAre DEF Approve, PipelineTypeOK, PlaceIsOfStep
  <2>5. MarkerFirst' /\ CleanupAlone' /\ HeadReviewed'
    BY <1>3, <2>1, <2>3 DEF Approve, MarkerFirst, CleanupAlone, HeadReviewed
  <2> QED
    BY <2>4, <2>5
<1>4. CASE ClosePr
  <2>1. /\ wf' = wf /\ at' = "fail_row" /\ faults' \in 0..MaxFaults
        /\ prs' \in Seq({"OPEN", "CLOSED", "MERGED"})
    BY <1>4, PipelineAssumption DEF ClosePr, GoTo, Fault, PipelineTypeOK
  <2>2. PipelineTypeOK' /\ PlaceIsOfStep'
    BY <1>4, <2>1, PlacesAre DEF ClosePr, PipelineTypeOK, PlaceIsOfStep
  <2>3. MarkerFirst' /\ CleanupAlone' /\ HeadReviewed'
    BY <1>4, <2>1 DEF ClosePr, MarkerFirst, CleanupAlone, HeadReviewed
  <2> QED
    BY <2>2, <2>3
<1>5. CASE FailRow
  <2>1. /\ wf.step = 5 /\ wf.status = "RUNNING" /\ wf \in Workflows /\ row \in Rows /\ "failed" \in Stages
    BY <1>5 DEF FailRow, PlaceIsOfStep, PipelineTypeOK, Stages
  <2>2. row' \in Rows /\ row'.stage = "failed"
    BY <1>5, <2>1, RowsBuilt DEF FailRow
  <2>3. /\ wf' \in Workflows /\ faults' = faults /\ marker' = "dispatched"
        /\ \/ wf' = wf /\ at' = "dispatch" /\ marker = "none"
           \/ wf'.status = "COMPLETED" /\ at' = "idle"
    <3>1. CASE ReturnLast /\ marker' = marker /\ marker = "dispatched"
      BY <2>1, <3>1, LastReturned
    <3>2. CASE MarkBefore /\ GoTo("dispatch") /\ marker # "dispatched"
      BY <2>1, <3>2 DEF MarkBefore, GoTo, PipelineTypeOK
    <3> QED
      BY <1>5, <3>1, <3>2 DEF FailRow
  <2>4. PipelineTypeOK' /\ PlaceIsOfStep'
    BY <1>5, <2>1, <2>2, <2>3, PlacesAre DEF FailRow, PipelineTypeOK, PlaceIsOfStep
  <2>5. MarkerFirst' /\ CleanupAlone' /\ HeadReviewed'
    BY <1>5, <2>1, <2>2, <2>3 DEF FailRow, MarkerFirst, CleanupAlone, HeadReviewed
  <2> QED
    BY <2>4, <2>5
<1>6. CASE DispatchAutoLoop
  <2>1. /\ wf.step = 5 /\ wf.status = "RUNNING" /\ wf \in Workflows
        /\ marker = "dispatched" /\ dispatches' = 1
    BY <1>6 DEF DispatchAutoLoop, PlaceIsOfStep, PipelineTypeOK, MarkerFirst
  <2>2. /\ wf' \in Workflows /\ at' = "idle" /\ marker' = "dispatched" /\ faults' \in 0..MaxFaults
        /\ wf' = wf \/ wf'.status = "COMPLETED"
    <3>1. CASE ReturnLast /\ marker' = "dispatched"
      BY <2>1, <3>1, LastReturned DEF PipelineTypeOK
    <3>2. CASE Fault /\ Raise /\ marker' = marker
      BY <2>1, <3>2, PipelineAssumption DEF Fault, Raise, PipelineTypeOK
    <3> QED
      BY <1>6, <3>1, <3>2 DEF DispatchAutoLoop
  <2>3. PipelineTypeOK' /\ PlaceIsOfStep'
    BY <1>6, <2>1, <2>2, PlacesAre DEF DispatchAutoLoop, PipelineTypeOK, PlaceIsOfStep
  <2>4. MarkerFirst' /\ CleanupAlone' /\ HeadReviewed'
    BY <1>6, <2>1, <2>2 DEF DispatchAutoLoop, MarkerFirst, CleanupAlone, HeadReviewed
  <2> QED
    BY <2>3, <2>4
<1> QED
  BY <1>1, <1>2, <1>3, <1>4, <1>5, <1>6, BeginReviewKeeps, VerdictKeeps DEF Review

LEMMA MergeKeeps == ASSUME IInv, Merge PROVE IInv'
<1> USE DEF IInv, Merge, workerVars, history
<1>1. /\ wf.step = 6 /\ wf.status = "RUNNING" /\ wf \in Workflows /\ row \in Rows
      /\ {"merged", "failed", "merge_conflict"} \subseteq Stages
  BY DEF RebaseOntoMain, MergePullRequest, PlaceIsOfStep, PipelineTypeOK, Stages, Skippable
<1>2. row' \in Rows /\ prs' \in Seq({"OPEN", "CLOSED", "MERGED"})
  <2>1. row' = row \/ row' = Stage("merged") \/ row' = Stage("failed") \/ row' = Stage("merge_conflict")
    BY DEF RebaseOntoMain, MergePullRequest, CloseFailed
  <2>2. row' \in Rows
    <3>1. \A s \in {"merged", "failed", "merge_conflict"} : Stage(s) \in Rows
      BY <1>1, RowsBuilt
    <3> QED
      BY <1>1, <2>1, <3>1
  <2>3. prs' = prs \/ SetPr("CLOSED") \/ SetPr("MERGED")
    BY DEF RebaseOntoMain, MergePullRequest, CloseFailed, SquashMerge
  <2>4. prs' \in Seq({"OPEN", "CLOSED", "MERGED"})
    BY <2>3 DEF PipelineTypeOK, SetPr
  <2> QED
    BY <2>2, <2>4
<1>3. /\ wf' \in Workflows /\ at' \in {"idle", "merging"} /\ faults' \in 0..MaxFaults
      /\ wf' = wf \/ (wf'.status = "COMPLETED" /\ at' = "idle")
  <2>1. CASE ReturnLast
    BY <1>1, <2>1, LastReturned DEF PipelineTypeOK
  <2>2. CASE (Raise /\ (Fault \/ faults' = faults)) \/ GoTo("merging")
    BY <1>1, <2>2, PipelineAssumption DEF Raise, Fault, GoTo, PipelineTypeOK
  <2> QED
    BY <2>1, <2>2 DEF RebaseOntoMain, MergePullRequest, CloseFailed
<1>4. /\ head' \in Commits /\ tracked' \in Commits /\ last' \in Nat
      /\ UNCHANGED <<marker, workerVars, source, foreign, diffed, history>>
  BY DEF RebaseOntoMain, MergePullRequest, SquashMerge, PushRebased, NextCommit, PipelineTypeOK, Commits
<1>5. at # "idle"
  BY DEF RebaseOntoMain, MergePullRequest
<1>6. PipelineTypeOK' /\ PlaceIsOfStep'
  BY <1>1, <1>2, <1>3, <1>4, PlacesAre DEF PipelineTypeOK, PlaceIsOfStep
<1>7. MarkerFirst' /\ CleanupAlone' /\ HeadReviewed'
  BY <1>1, <1>3, <1>4, <1>5 DEF MarkerFirst, CleanupAlone, HeadReviewed
<1> QED
  BY <1>6, <1>7

LEMMA NextInvariant == IInv /\ [Next]_vars => IInv'
<1> SUFFICES ASSUME IInv, [Next]_vars PROVE IInv'
  OBVIOUS
<1> USE DEF dbVars, workerVars, gitVars, history
<1>1. CASE Activity
  BY <1>1, ImplementKeeps, CreatePullRequestKeeps, FixCIKeeps, ReviewKeeps, MergeKeeps DEF Activity
<1>2. CASE CallFails \/ TimeOut
  <2>1. /\ wf' = wf /\ at' = "idle" /\ faults' \in 0..MaxFaults
        /\ UNCHANGED <<dbVars, workerVars, gitVars, diffed, history>>
    BY <1>2, PipelineAssumption DEF CallFails, TimeOut, Fault, Raise, IInv, PipelineTypeOK
  <2> QED
    BY <2>1, PlacesAre DEF IInv, PipelineTypeOK, PlaceIsOfStep, MarkerFirst, CleanupAlone, HeadReviewed
<1>3. CASE StartRun
  BY <1>3, StartRunKeeps
<1>4. CASE Temporal
  <2>1. CASE AttemptsExhausted
    BY <2>1 DEF AttemptsExhausted, IInv, PipelineTypeOK, Workflows, PlaceIsOfStep, MarkerFirst, CleanupAlone, HeadReviewed
  <2> QED
    BY <1>4, <2>1, StartAttemptKeeps DEF Temporal
<1>5. CASE Crash
  BY <1>5, PipelineAssumption, PlacesAre DEF Crash, Fault, IInv, PipelineTypeOK,
     PlaceIsOfStep, MarkerFirst, CleanupAlone, HeadReviewed
<1>6. CASE Cleanup
  BY <1>6, CleanupKeeps
<1>7. CASE ForeignPush
  BY <1>7 DEF ForeignPush, NextCommit, IInv, PipelineTypeOK, Commits, PlaceIsOfStep, MarkerFirst, CleanupAlone, HeadReviewed
<1>8. CASE UNCHANGED vars
  BY <1>8 DEF vars, IInv, PipelineTypeOK, PlaceIsOfStep, MarkerFirst, CleanupAlone, HeadReviewed
<1> QED
  BY <1>1, <1>2, <1>3, <1>4, <1>5, <1>6, <1>7, <1>8 DEF Next

LEMMA Invariant == Spec => []IInv
  BY InitInvariant, NextInvariant, PTL DEF Spec

(* The type invariant, for any number of attempts, runs and faults.        *)
THEOREM PipelineTyped == Spec => []PipelineTypeOK
  BY Invariant, PTL DEF IInv

(* review.py: auto-loop.yml is dispatched at most once, whatever crashes or *)
(* is tried again between the marker and the dispatch.                     *)
THEOREM DispatchedOnce == Spec => []AtMostOneDispatch
<1>1. IInv => AtMostOneDispatch
  BY DEF IInv, MarkerFirst, AtMostOneDispatch
<1> QED
  BY <1>1, Invariant, PTL

(* worker.py: the cleanup does not turn a recorded merge into a failure.   *)
THEOREM MergedSurvivesCleanup == Spec => CleanupKeepsMerged
<1>1. IInv => [worker = "described" /\ worker' = "up" /\ row.stage = "merged" => row' = row]_vars
  BY DEF IInv, CleanupAlone
<1> QED
  BY <1>1, Invariant, PTL DEF CleanupKeepsMerged

(* workflow.py, merge.py: what a run merges was approved in its last       *)
(* review, or was pushed by somebody else, or is what merge_pr has made of *)
(* that commit by rebasing it.                                             *)
THEOREM MergesAreReviewed == Spec => MergedWasApproved
<1>1. IInv /\ [Next]_vars =>
        [(\E p \in OpenPrs : prs'[p] = "MERGED") /\ resumed \notin {"approved", "merged"}
            => source \in approved \cup foreign]_vars
  <2> SUFFICES ASSUME IInv, Next, NEW p \in OpenPrs, prs'[p] = "MERGED", resumed \notin {"approved", "merged"}
               PROVE  source \in approved \cup foreign
    OBVIOUS
  <2>1. prs[p] = "OPEN" /\ p \in DOMAIN prs
    BY DEF OpenPrs
  <2>2. CASE Merge
    BY <2>2 DEF Merge, RebaseOntoMain, MergePullRequest, IInv, PlaceIsOfStep, HeadReviewed
  <2>3. CASE Purge
    BY <2>1, <2>3 DEF Purge, DeleteBranch
  <2>4. CASE CreatePr
    BY <2>1, <2>4 DEF CreatePr, IInv, PipelineTypeOK
  <2>5. CASE ClosePr
    BY <2>1, <2>5 DEF ClosePr
  <2>6. CASE UNCHANGED prs
    BY <2>1, <2>6
  <2> QED
    BY <2>2, <2>3, <2>4, <2>5, <2>6 DEF Next, Activity, Temporal, Implement, CreatePullRequest, FixCI, Review,
       SkipImplemented, ClearRun, FreshRow, SkipRetry, Reimplement, BeginImplement, RunModel, ImplementFails,
       RecordCommit, SkipCreated, FindPr, ViewPr, PollCI, FetchBranch, PushFix, BeginReview, ReadDiff, Verdict,
       PostComment, Approve, FailRow, DispatchAutoLoop, CallFails, TimeOut, StartRun, StartAttempt,
       AttemptsExhausted, Crash, Cleanup, ForeignPush, gitVars
<1> QED
  BY <1>1, Invariant, PTL DEF Spec, MergedWasApproved

-----------------------------------------------------------------------------
(***************************************************************************)
(* A first run on a branch nobody else pushes to.  Every attempt that ends *)
(* without a result costs a fault (Counted), because each raise that is no *)
(* fault has lost its cause: the lease holds (LeaseHolds), the branch is   *)
(* there from its push on and no stage of a later step is found            *)
(* (BranchThere), and the pull request the run goes on with is open until  *)
(* it merges (PrOpen).                                                     *)
(***************************************************************************)
FirstRun == runs = 1 /\ foreign = {} /\ wf.status = "RUNNING"

LeaseHolds == foreign = {} /\ runs <= 1 /\ wf.step < 6 => head = tracked

BeforeFirst ==
    /\ runs = 0 => wf.status = "none" /\ wf.step = 1 /\ row.stage = "none" /\ worker \in {"up", "down"}
    /\ runs = 1 => resumed = "none"

Counted ==
    /\ wf.attempt <= faults + (IF at = "idle" THEN 0 ELSE 1)
    /\ at = "create" /\ OpenPrs # {} => wf.attempt <= faults

BranchThere ==
    /\ wf.step = 1 => row.stage \notin Skippable
    /\ wf.step = 2 => row.stage \notin {"pr_created", "reviewing", "approved", "merged"}
    /\ wf.step \in 2..5 \/ at = "record" => head # None

PrOpen ==
    /\ at = "view" => prs # <<>> /\ prs[Len(prs)] = "OPEN"
    /\ at = "close" => wf.decision # "APPROVE"
    /\ wf.step \in {3, 4} \/ (wf.step = 5 /\ wf.decision = "APPROVE") => wf.pr \in OpenPrs
    /\ wf.step = 6 => wf.pr \in DOMAIN prs /\ prs[wf.pr] \in {"OPEN", "MERGED"}

FirstInv ==
    /\ LeaseHolds /\ BeforeFirst
    /\ FirstRun => Counted /\ BranchThere /\ PrOpen
    /\ FailsOnlyWhenExhausted

LEMMA InitFirst == Init => FirstInv
BY DEF Init, FirstInv, LeaseHolds, BeforeFirst, FirstRun, FailsOnlyWhenExhausted

\* What Return adds: the attempts of the next step start from none.
LEMMA ReturnResets ==
    ASSUME NEW w \in Workflows, w.step < 6, Return(w)
    PROVE  wf'.attempt = 0
BY DEF Return, Workflows

LEMMA Numbers ==
    ASSUME IInv
    PROVE  /\ faults \in Nat /\ wf \in Workflows /\ wf.attempt \in Nat /\ wf.attempt <= MaxAttempts
           /\ wf.step \in 1..6 /\ wf.status \in {"none", "RUNNING", "COMPLETED", "FAILED"}
           /\ prs \in Seq({"OPEN", "CLOSED", "MERGED"}) /\ last \in Nat /\ None \notin Nat
           /\ MaxAttempts \in Nat
BY PipelineAssumption DEF IInv, PipelineTypeOK, Workflows

-----------------------------------------------------------------------------
\* Inside an activity, from one await to the next.
LEMMA MovesOn ==
    ASSUME IInv, FirstInv, at # "idle", at' # "idle", at' \notin {"create", "view", "close", "record"},
           UNCHANGED <<wf, runs, resumed, head, foreign, prs>>,
           tracked' \in {tracked, head}, faults' \in {faults, faults + 1},
           row'.stage \in {row.stage, "pending", "implementing", "failed"}
    PROVE  FirstInv'
<1>1. wf.status = "RUNNING" /\ OpenPrs' = OpenPrs
  BY DEF IInv, PlaceIsOfStep, OpenPrs
<1>2. LeaseHolds' /\ FailsOnlyWhenExhausted'
  BY <1>1 DEF FirstInv, LeaseHolds, FailsOnlyWhenExhausted
<1>3. BeforeFirst'
  BY <1>1 DEF FirstInv, BeforeFirst
<1>4. ASSUME FirstRun' PROVE Counted' /\ BranchThere' /\ PrOpen'
  <2>1. FirstRun /\ Counted /\ BranchThere /\ PrOpen
    BY <1>4 DEF FirstRun, FirstInv
  <2>2. Counted'
    BY <2>1, Numbers DEF Counted
  <2>3. BranchThere'
    BY <2>1 DEF BranchThere, Skippable
  <2>4. PrOpen'
    BY <1>1, <2>1 DEF PrOpen
  <2> QED
    BY <2>2, <2>3, <2>4
<1> QED
  BY <1>2, <1>3, <1>4 DEF FirstInv

\* An attempt that fails by a fault, whatever it has done to the row and to
\* an open pull request it was merging.
LEMMA RaisesWithFault ==
    ASSUME IInv, FirstInv, Raise, Fault,
           UNCHANGED <<runs, resumed, foreign>>,
           row'.stage \in {row.stage, "failed"},
           UNCHANGED <<head, tracked, prs>> \/ (at = "merging" /\ SetPr("MERGED")),
           at # "idle"
    PROVE  FirstInv'
<1>1. /\ at' = "idle" /\ wf' = wf /\ faults' = faults + 1 /\ wf.status = "RUNNING"
      /\ at = "merging" => wf.step = 6
  BY DEF IInv, PlaceIsOfStep, Raise, Fault
<1>2. LeaseHolds' /\ FailsOnlyWhenExhausted' /\ BeforeFirst'
  BY <1>1 DEF FirstInv, LeaseHolds, FailsOnlyWhenExhausted, BeforeFirst
<1>3. ASSUME FirstRun' PROVE Counted' /\ BranchThere' /\ PrOpen'
  <2>1. FirstRun /\ Counted /\ BranchThere /\ PrOpen
    BY <1>1, <1>3 DEF FirstRun, FirstInv
  <2>2. Counted'
    BY <1>1, <2>1, Numbers DEF Counted
  <2>3. BranchThere'
    BY <1>1, <2>1 DEF BranchThere, Skippable
  <2>4. PrOpen'
    <3>1. CASE prs' = prs
      BY <1>1, <2>1, <3>1 DEF PrOpen, OpenPrs
    <3>2. CASE at = "merging" /\ SetPr("MERGED")
      BY <1>1, <2>1, <3>2, Numbers DEF PrOpen, SetPr, IInv, PlaceIsOfStep
    <3> QED
      BY <3>1, <3>2
  <2> QED
    BY <2>2, <2>3, <2>4
<1> QED
  BY <1>2, <1>3 DEF FirstInv

\* The run is over, or is not a first one, or somebody else has pushed.
LEMMA NotFirst ==
    ASSUME FirstInv, ~FirstRun', LeaseHolds', BeforeFirst', wf'.status # "FAILED"
    PROVE  FirstInv'
BY DEF FirstInv, FailsOnlyWhenExhausted

\* The activity is the workflow's last: the run is completed.
LEMMA Completes ==
    ASSUME IInv, FirstInv, at # "idle", ReturnLast, UNCHANGED <<runs, resumed, foreign>>
    PROVE  FirstInv'
<1>1. wf.status = "RUNNING" /\ wf'.status = "COMPLETED" /\ wf'.step = 6
  BY LastReturned DEF IInv, PipelineTypeOK, PlaceIsOfStep
<1>2. LeaseHolds' /\ BeforeFirst' /\ ~FirstRun'
  BY <1>1 DEF FirstInv, LeaseHolds, BeforeFirst, FirstRun
<1> QED
  BY <1>1, <1>2, NotFirst

\* The activity returns and the workflow goes on: what its step promises the
\* next one is left to prove.
LEMMA GoesOn ==
    ASSUME IInv, FirstInv, at # "idle", NEW w \in Workflows, w.status = "RUNNING", w.step < 6, Return(w),
           UNCHANGED <<runs, resumed, foreign>>, LeaseHolds',
           FirstRun => BranchThere' /\ PrOpen'
    PROVE  FirstInv'
<1>1. /\ at' = "idle" /\ faults' = faults /\ wf'.status = "RUNNING" /\ wf'.attempt = 0
      /\ wf.status = "RUNNING"
  BY ReturnGoesOn, ReturnResets DEF IInv, PlaceIsOfStep
<1>2. BeforeFirst' /\ FailsOnlyWhenExhausted'
  BY <1>1 DEF FirstInv, BeforeFirst, FailsOnlyWhenExhausted
<1>3. Counted'
  BY <1>1, Numbers DEF Counted
<1>4. FirstRun' => FirstRun
  BY <1>1 DEF FirstRun
<1> QED
  BY <1>2, <1>3, <1>4 DEF FirstInv

-----------------------------------------------------------------------------
LEMMA PurgeFirst == ASSUME IInv, FirstInv, Purge PROVE FirstInv'
<1>1. /\ at = "implement" /\ wf.step = 1 /\ wf.status = "RUNNING" /\ wf' = wf
      /\ at' \in {"clear", "decide"} /\ faults' \in {faults, faults + 1}
      /\ UNCHANGED <<row, runs, resumed, foreign>>
  BY DEF IInv, PlaceIsOfStep, Purge, GoTo, Fault, dbVars, history
<1>2. (prs' = prs /\ head' = head /\ tracked' = tracked) \/ DeleteBranch
  BY DEF Purge
<1>3. LeaseHolds'
  BY <1>1, <1>2 DEF FirstInv, LeaseHolds, DeleteBranch
<1>4. BeforeFirst' /\ FailsOnlyWhenExhausted'
  BY <1>1 DEF FirstInv, BeforeFirst, FailsOnlyWhenExhausted
<1>5. ASSUME FirstRun' PROVE Counted' /\ BranchThere' /\ PrOpen'
  <2>1. Counted /\ BranchThere
    BY <1>1, <1>5 DEF FirstRun, FirstInv
  <2>2. Counted'
    BY <1>1, <2>1, Numbers DEF Counted
  <2>3. BranchThere' /\ PrOpen'
    BY <1>1, <2>1 DEF BranchThere, PrOpen
  <2> QED
    BY <2>2, <2>3
<1> QED
  BY <1>3, <1>4, <1>5 DEF FirstInv

LEMMA RunModelFirst == ASSUME IInv, FirstInv, RunModel PROVE FirstInv'
<1>1. /\ at = "llm" /\ wf.step = 1 /\ wf.status = "RUNNING"
      /\ UNCHANGED <<runs, resumed, foreign, prs>>
  BY DEF RunModel, IInv, PlaceIsOfStep, history
<1>2. CASE ReturnLast /\ UNCHANGED <<head, tracked>>
  BY <1>1, <1>2, Completes
<1>3. CASE Lease /\ PushCommit /\ GoTo("record") /\ UNCHANGED row
  <2>1. LeaseHolds' /\ BeforeFirst' /\ FailsOnlyWhenExhausted'
    BY <1>1, <1>3 DEF FirstInv, LeaseHolds, BeforeFirst, FailsOnlyWhenExhausted, PushCommit, GoTo
  <2>2. head' # None
    BY <1>3, Numbers DEF PushCommit, NextCommit
  <2>3. ASSUME FirstRun' PROVE Counted' /\ BranchThere' /\ PrOpen'
    <3>1. Counted /\ BranchThere
      BY <1>1, <1>3, <2>3 DEF FirstRun, FirstInv, GoTo
    <3> QED
      BY <1>1, <1>3, <2>2, <3>1 DEF Counted, BranchThere, PrOpen, GoTo
  <2> QED
    BY <2>1, <2>3 DEF FirstInv
<1>4. CASE ~Lease /\ Raise /\ UNCHANGED <<head, tracked>> /\ row' = Stage("failed")
  <2>1. ~FirstRun
    BY <1>1, <1>4 DEF FirstRun, FirstInv, LeaseHolds, Lease
  <2> QED
    BY <1>1, <1>4, <2>1, NotFirst DEF Raise, FirstRun, LeaseHolds, FirstInv, BeforeFirst
<1> QED
  BY <1>2, <1>3, <1>4 DEF RunModel

LEMMA ImplementFirst == ASSUME IInv, FirstInv, Implement PROVE FirstInv'
<1> USE DEF dbVars, workerVars, gitVars, history
<1>1. row \in Rows /\ {"failed", "implementing"} \subseteq Stages
  BY DEF IInv, PipelineTypeOK, Stages
<1>2. CASE SkipImplemented
  <2>1. at = "implement" /\ wf.step = 1 /\ wf.status = "RUNNING" /\ UNCHANGED <<row, runs, resumed, foreign, head, tracked>>
    BY <1>2 DEF SkipImplemented, IInv, PlaceIsOfStep
  <2>2. CASE ReturnLast
    BY <2>1, <2>2, Completes
  <2>3. CASE row.stage \in Skippable /\ Return(wf)
    <3>1. ~FirstRun
      BY <2>1, <2>3 DEF FirstInv, BranchThere
    <3>2. LeaseHolds'
      BY <2>1 DEF FirstInv, LeaseHolds
    <3> QED
      BY <2>1, <2>3, <3>1, <3>2, GoesOn, Numbers
  <2> QED
    BY <1>2, <2>2, <2>3 DEF SkipImplemented
<1>3. CASE ClearRun \/ FreshRow \/ Reimplement \/ BeginImplement
  <2>1. clear_run_for_retry.stage = "pending" /\ Stage("implementing").stage = "implementing"
    BY <1>1, RowsBuilt
  <2>2. /\ at # "idle" /\ at' \in {"decide", "start", "llm"}
        /\ UNCHANGED <<wf, runs, resumed, head, foreign, prs, tracked>>
        /\ faults' \in {faults, faults + 1}
        /\ row'.stage \in {row.stage, "pending", "implementing"}
    BY <1>3, <2>1 DEF ClearRun, FreshRow, Reimplement, BeginImplement, GoTo, Fault
  <2> QED
    BY <2>2, MovesOn
<1>4. CASE SkipRetry
  <2>1. /\ at = "decide" /\ wf.step = 1 /\ wf.status = "RUNNING" /\ head # None /\ Return(wf)
        /\ UNCHANGED <<row, runs, resumed, foreign, head, tracked, prs>>
    BY <1>4 DEF SkipRetry, BranchAccepted, IInv, PlaceIsOfStep
  <2>2. wf'.step = 2 /\ at' = "idle"
    BY <2>1, ReturnGoesOn, Numbers
  <2>3. LeaseHolds'
    BY <2>1 DEF FirstInv, LeaseHolds
  <2>4. FirstRun => BranchThere' /\ PrOpen'
    BY <2>1, <2>2 DEF FirstInv, BranchThere, PrOpen, Skippable
  <2> QED
    BY <2>1, <2>3, <2>4, GoesOn, Numbers
<1>5. CASE ImplementFails
  <2>1. Stage("failed").stage = "failed"
    BY <1>1, RowsBuilt
  <2> QED
    BY <1>5, <2>1, RaisesWithFault DEF ImplementFails
<1>6. CASE RecordCommit
  <2>1. /\ at = "record" /\ wf.step = 1 /\ wf.status = "RUNNING" /\ Return(wf)
        /\ UNCHANGED <<runs, resumed, foreign, head, tracked, prs>>
    BY <1>6 DEF RecordCommit, IInv, PlaceIsOfStep
  <2>2. wf'.step = 2 /\ at' = "idle" /\ row'.stage = "implemented"
    <3>1. wf'.step = 2 /\ at' = "idle"
      BY <2>1, ReturnGoesOn, Numbers
    <3> QED
      BY <1>1, <1>6, <3>1 DEF RecordCommit, Rows
  <2>3. LeaseHolds'
    BY <2>1 DEF FirstInv, LeaseHolds
  <2>4. FirstRun => BranchThere' /\ PrOpen'
    BY <2>1, <2>2 DEF FirstInv, BranchThere, PrOpen
  <2> QED
    BY <2>1, <2>3, <2>4, GoesOn, Numbers
<1> QED
  BY <1>2, <1>3, <1>4, <1>5, <1>6, PurgeFirst, RunModelFirst DEF Implement

\* create_pr goes on with a pull request that is open.
LEMMA RecordPrFirst ==
    ASSUME IInv, FirstInv, at # "idle", wf.step = 2, NEW p \in Nat, RecordPr(p) \/ (row' = row /\ ReturnPr(p)),
           FirstRun => p \in OpenPrs,
           UNCHANGED <<runs, resumed, foreign, head, tracked, prs>>
    PROVE  FirstInv'
<1> DEFINE w == [wf EXCEPT !.pr = p]
<1>1. w \in Workflows /\ w.status = "RUNNING" /\ w.step = 2 /\ w.pr = p /\ Return(w)
  BY DEF IInv, PipelineTypeOK, Workflows, RecordPr, ReturnPr, PlaceIsOfStep
<1> HIDE DEF w
<1>2. wf'.step = 3 /\ wf'.pr = p /\ at' = "idle"
  BY <1>1, ReturnGoesOn
<1>3. LeaseHolds' /\ OpenPrs' = OpenPrs
  BY DEF FirstInv, LeaseHolds, OpenPrs
<1>4. FirstRun => BranchThere' /\ PrOpen'
  BY <1>2, <1>3 DEF FirstInv, BranchThere, PrOpen
<1> QED
  BY <1>1, <1>3, <1>4, GoesOn

LEMMA CreatePrFirst == ASSUME IInv, FirstInv, CreatePr PROVE FirstInv'
<1>1. /\ at = "create" /\ wf.step = 2 /\ wf.status = "RUNNING" /\ wf' = wf /\ faults' = faults
      /\ UNCHANGED <<row, runs, resumed, foreign, head, tracked>>
  BY DEF CreatePr, GoTo, Raise, IInv, PlaceIsOfStep, dbVars, history
<1>2. LeaseHolds' /\ BeforeFirst' /\ FailsOnlyWhenExhausted'
  BY <1>1 DEF FirstInv, LeaseHolds, BeforeFirst, FailsOnlyWhenExhausted
<1>3. ASSUME FirstRun' PROVE Counted' /\ BranchThere' /\ PrOpen'
  <2>1. FirstRun /\ Counted /\ BranchThere
    BY <1>1, <1>3 DEF FirstRun, FirstInv
  <2>2. BranchThere'
    BY <1>1, <2>1 DEF BranchThere
  <2>3. CASE OpenPrs = {}
    <3>1. prs' = Append(prs, "OPEN") /\ at' = "view"
      BY <1>1, <2>1, <2>3 DEF CreatePr, BranchThere, GoTo
    <3>2. prs' # <<>> /\ prs'[Len(prs')] = "OPEN"
      BY <3>1, Numbers
    <3> QED
      BY <1>1, <2>1, <2>2, <3>1, <3>2 DEF Counted, PrOpen
  <2>4. CASE OpenPrs # {}
    <3>1. at' = "idle" /\ prs' = prs /\ wf.attempt <= faults
      BY <1>1, <2>1, <2>4 DEF CreatePr, Counted, Raise
    <3> QED
      BY <1>1, <2>2, <3>1, Numbers DEF Counted, PrOpen
  <2> QED
    BY <2>3, <2>4
<1> QED
  BY <1>2, <1>3 DEF FirstInv

LEMMA CreatePullRequestFirst == ASSUME IInv, FirstInv, CreatePullRequest PROVE FirstInv'
<1> USE DEF dbVars, workerVars, gitVars, history
<1>1. CASE SkipCreated
  <2>1. /\ at = "create_pr" /\ wf.step = 2 /\ wf.status = "RUNNING"
        /\ UNCHANGED <<row, runs, resumed, foreign, head, tracked, prs>>
    BY <1>1 DEF SkipCreated, IInv, PlaceIsOfStep
  <2>2. CASE PrRecorded
    <3>1. row.pr \in Nat /\ ~FirstRun /\ ReturnPr(row.pr)
      BY <1>1, <2>1, <2>2 DEF SkipCreated, PrRecorded, IInv, PipelineTypeOK, Rows, FirstInv, BranchThere
    <3> QED
      BY <2>1, <3>1, RecordPrFirst
  <2>3. CASE ~PrRecorded
    BY <1>1, <2>1, <2>3, MovesOn DEF SkipCreated, GoTo
  <2> QED
    BY <2>2, <2>3
<1>2. CASE FindPr
  <2>1. /\ at = "find" /\ wf.step = 2 /\ wf.status = "RUNNING"
        /\ UNCHANGED <<runs, resumed, foreign, head, tracked, prs>>
    BY <1>2 DEF FindPr, IInv, PlaceIsOfStep
  <2>2. CASE \E p \in OpenPrs : RecordPr(p)
    <3>1. PICK p \in OpenPrs : RecordPr(p)
      BY <2>2
    <3>2. p \in Nat
      BY Numbers DEF OpenPrs
    <3> QED
      BY <2>1, <3>1, <3>2, RecordPrFirst
  <2>3. CASE at' = "create" /\ wf' = wf /\ row' = row
             /\ ((OpenPrs = {} /\ faults' = faults) \/ faults' = faults + 1)
    <3>1. LeaseHolds' /\ BeforeFirst' /\ FailsOnlyWhenExhausted' /\ OpenPrs' = OpenPrs
      BY <2>1, <2>3 DEF FirstInv, LeaseHolds, BeforeFirst, FailsOnlyWhenExhausted, OpenPrs
    <3>2. ASSUME FirstRun' PROVE Counted' /\ BranchThere' /\ PrOpen'
      <4>1. Counted /\ BranchThere
        BY <2>1, <2>3, <3>2 DEF FirstRun, FirstInv
      <4> QED
        BY <2>1, <2>3, <3>1, <4>1, Numbers DEF Counted, BranchThere, PrOpen
    <3> QED
      BY <3>1, <3>2 DEF FirstInv
  <2> QED
    BY <1>2, <2>2, <2>3 DEF FindPr, GoTo, Fault
<1>3. CASE ViewPr
  <2>1. /\ at = "view" /\ wf.step = 2 /\ wf.status = "RUNNING" /\ RecordPr(Len(prs))
        /\ UNCHANGED <<runs, resumed, foreign, head, tracked, prs>>
    BY <1>3 DEF ViewPr, IInv, PlaceIsOfStep
  <2>2. Len(prs) \in Nat /\ (FirstRun => Len(prs) \in OpenPrs)
    BY <2>1, Numbers DEF FirstInv, PrOpen, OpenPrs
  <2> QED
    BY <2>1, <2>2, RecordPrFirst
<1> QED
  BY <1>1, <1>2, <1>3, CreatePrFirst DEF CreatePullRequest

\* The fix is pushed with the lease held, or there is none; the branch exists.
LEMMA FixCIFirst == ASSUME IInv, FirstInv, FixCI PROVE FirstInv'
<1> USE DEF dbVars, workerVars, gitVars, history
<1>1. /\ at \in {"fix_ci", "fix", "fix_push"} /\ wf.step = 3 /\ wf.status = "RUNNING"
      /\ UNCHANGED <<row, runs, resumed, foreign, prs>>
  BY DEF FixCI, PollCI, FetchBranch, PushFix, IInv, PlaceIsOfStep
<1>2. CASE Return(wf) /\ ((UNCHANGED <<head, tracked>>) \/ PushCommit)
  <2>1. wf'.step = 4 /\ wf'.pr = wf.pr /\ at' = "idle"
    BY <1>1, <1>2, ReturnGoesOn, Numbers
  <2>2. LeaseHolds' /\ (head # None => head' # None)
    BY <1>1, <1>2, Numbers DEF FirstInv, LeaseHolds, PushCommit, NextCommit
  <2>3. FirstRun => BranchThere' /\ PrOpen'
    BY <1>1, <2>1, <2>2 DEF FirstInv, BranchThere, PrOpen, OpenPrs
  <2> QED
    BY <1>1, <1>2, <2>2, <2>3, GoesOn, Numbers
<1>3. CASE (PollCI \/ FetchBranch) /\ at' # "idle"
  <2>1. /\ wf' = wf /\ head' = head /\ tracked' \in {tracked, head} /\ faults' = faults
        /\ at' \in {"fix", "fix_push"}
    BY <1>3 DEF PollCI, FetchBranch, GoTo, Return, Raise
  <2> QED
    BY <1>1, <2>1, MovesOn
<1>4. CASE (FetchBranch /\ head = None) \/ (PushFix /\ ~Lease)
  <2>1. CASE Return(wf)
    BY <1>2, <1>4, <2>1 DEF FetchBranch, PushFix, Raise, Return
  <2>2. CASE ~Return(wf)
    <3>1. /\ ~FirstRun
      BY <1>1, <1>4 DEF FirstInv, BranchThere, LeaseHolds, Lease, FirstRun
    <3>2. wf' = wf /\ head' = head /\ tracked' = tracked
      BY <1>4, <2>2 DEF FetchBranch, PushFix, Raise
    <3> QED
      BY <1>1, <3>1, <3>2, NotFirst DEF FirstInv, FirstRun, LeaseHolds, BeforeFirst
  <2> QED
    BY <2>1, <2>2
<1> QED
  BY <1>2, <1>3, <1>4 DEF FixCI, PollCI, FetchBranch, PushFix, GoTo, Raise

\* A decision of the row is of an approved row, which a first run has not.
LEMMA DecisionFirst ==
    ASSUME IInv, FirstInv, at # "idle", wf.step = 4, NEW d \in Decisions, ReturnDecision(d),
           UNCHANGED <<runs, resumed, foreign, head, tracked, prs>>
    PROVE  FirstInv'
<1> DEFINE w == [wf EXCEPT !.decision = d]
<1>1. /\ w \in Workflows /\ w.status = "RUNNING" /\ w.step = 4 /\ w.pr = wf.pr /\ Return(w)
  BY DEF IInv, PipelineTypeOK, Workflows, ReturnDecision, PlaceIsOfStep
<1> HIDE DEF w
<1>2. wf'.step = 5 /\ wf'.pr = wf.pr /\ at' = "idle"
  BY <1>1, ReturnGoesOn
<1>3. LeaseHolds' /\ OpenPrs' = OpenPrs
  BY DEF FirstInv, LeaseHolds, OpenPrs
<1>4. FirstRun => BranchThere' /\ PrOpen'
  BY <1>2, <1>3 DEF FirstInv, BranchThere, PrOpen
<1> QED
  BY <1>1, <1>3, <1>4, GoesOn

LEMMA ClosePrFirst == ASSUME IInv, FirstInv, ClosePr PROVE FirstInv'
<1>1. /\ at = "close" /\ wf.step = 5 /\ wf.status = "RUNNING" /\ wf' = wf /\ at' = "fail_row"
      /\ faults' \in {faults, faults + 1}
      /\ UNCHANGED <<row, runs, resumed, foreign, head, tracked>>
  BY DEF ClosePr, GoTo, Fault, IInv, PlaceIsOfStep, dbVars, history
<1>2. LeaseHolds' /\ BeforeFirst' /\ FailsOnlyWhenExhausted'
  BY <1>1 DEF FirstInv, LeaseHolds, BeforeFirst, FailsOnlyWhenExhausted
<1>3. ASSUME FirstRun' PROVE Counted' /\ BranchThere' /\ PrOpen'
  <2>1. Counted /\ BranchThere /\ PrOpen
    BY <1>1, <1>3 DEF FirstRun, FirstInv
  <2>2. Counted'
    BY <1>1, <2>1, Numbers DEF Counted
  <2> QED
    BY <1>1, <2>1, <2>2 DEF BranchThere, PrOpen
<1> QED
  BY <1>2, <1>3 DEF FirstInv

LEMMA ReviewFirst == ASSUME IInv, FirstInv, Review PROVE FirstInv'
<1> USE DEF dbVars, workerVars, gitVars, history
<1>1. row \in Rows /\ {"failed", "approved"} \subseteq Stages
  BY DEF IInv, PipelineTypeOK, Stages, Skippable
<1>2. CASE BeginReview
  <2>1. /\ at = "review" /\ wf.step = 4 /\ row.decision \in Decisions
        /\ UNCHANGED <<row, runs, resumed, foreign, head, tracked, prs>>
    BY <1>1, <1>2 DEF BeginReview, IInv, PlaceIsOfStep, Rows
  <2> QED
    BY <1>2, <2>1, DecisionFirst, MovesOn DEF BeginReview, GoTo
<1>3. CASE Verdict
  <2>1. /\ at = "verdict" /\ wf.step = 4
        /\ UNCHANGED <<runs, resumed, foreign, head, tracked, prs>>
        /\ \E d \in Decisions : ReturnDecision(d)
    BY <1>3 DEF Verdict, IInv, PlaceIsOfStep, Decisions
  <2> QED
    BY <2>1, DecisionFirst
<1>4. CASE ReadDiff
  <2>1. /\ at = "diff" /\ at' = "verdict"
        /\ UNCHANGED <<wf, row, runs, resumed, foreign, head, tracked, prs, faults>>
    BY <1>4 DEF ReadDiff, GoTo
  <2> QED
    BY <2>1, MovesOn
<1>5. CASE PostComment
  <2>1. /\ at = "post_review" /\ at' \in {"post", "close"} /\ (at' = "close" => wf.decision # "APPROVE")
        /\ wf.status = "RUNNING"
        /\ UNCHANGED <<wf, row, runs, resumed, foreign, head, tracked, prs, faults>>
    BY <1>5 DEF PostComment, GoTo, IInv, PlaceIsOfStep
  <2>2. LeaseHolds' /\ BeforeFirst' /\ FailsOnlyWhenExhausted' /\ OpenPrs' = OpenPrs
    BY <2>1 DEF FirstInv, LeaseHolds, BeforeFirst, FailsOnlyWhenExhausted, OpenPrs
  <2>3. ASSUME FirstRun' PROVE Counted' /\ BranchThere' /\ PrOpen'
    <3>1. Counted /\ BranchThere /\ PrOpen
      BY <2>1, <2>3 DEF FirstRun, FirstInv
    <3> QED
      BY <2>1, <2>2, <3>1 DEF Counted, BranchThere, PrOpen
  <2> QED
    BY <2>2, <2>3 DEF FirstInv
<1>6. CASE Approve
  <2>1. /\ at = "post" /\ wf.step = 5 /\ wf.status = "RUNNING" /\ Return(wf)
        /\ UNCHANGED <<runs, resumed, foreign, head, tracked, prs>>
    BY <1>6 DEF Approve, IInv, PlaceIsOfStep
  <2>2. wf'.step = 6 /\ wf'.pr = wf.pr /\ at' = "idle"
    BY <2>1, ReturnGoesOn, Numbers
  <2>3. FirstRun => wf.decision = "APPROVE"
    BY <2>1 DEF FirstRun, FirstInv, BeforeFirst, IInv, HeadReviewed
  <2>4. LeaseHolds'
    BY <2>1 DEF FirstInv, LeaseHolds
  <2>5. FirstRun => BranchThere' /\ PrOpen'
    BY <2>1, <2>2, <2>3 DEF FirstInv, BranchThere, PrOpen, OpenPrs
  <2> QED
    BY <2>1, <2>4, <2>5, GoesOn, Numbers
<1>7. CASE FailRow
  <2>1. /\ at = "fail_row" /\ row'.stage = "failed"
        /\ UNCHANGED <<runs, resumed, foreign, head, tracked, prs>>
    BY <1>1, <1>7, RowsBuilt DEF FailRow
  <2> QED
    BY <1>7, <2>1, Completes, MovesOn DEF FailRow, GoTo
<1>8. CASE DispatchAutoLoop
  BY <1>8, Completes, RaisesWithFault DEF DispatchAutoLoop
<1> QED
  BY <1>2, <1>3, <1>4, <1>5, <1>6, <1>7, <1>8, ClosePrFirst DEF Review

LEMMA MergeFirst == ASSUME IInv, FirstInv, Merge PROVE FirstInv'
<1>1. /\ at \in {"merge", "merging"} /\ wf.step = 6 /\ wf.status = "RUNNING"
      /\ UNCHANGED <<runs, resumed, foreign>>
  BY DEF Merge, RebaseOntoMain, MergePullRequest, IInv, PlaceIsOfStep, history
<1>2. CASE ReturnLast
  BY <1>1, <1>2, Completes
<1>3. CASE at = "merging" /\ SquashMerge /\ Fault /\ Raise /\ UNCHANGED row
  BY <1>1, <1>3, RaisesWithFault DEF SquashMerge
<1>4. CASE at = "merging" /\ prs[wf.pr] = "CLOSED" /\ Raise
  <2>1. ~FirstRun
    BY <1>1, <1>4 DEF FirstInv, PrOpen
  <2> QED
    BY <1>1, <1>4, <2>1, NotFirst DEF Raise, FirstInv, FirstRun, LeaseHolds, BeforeFirst
<1>5. CASE at = "merge" /\ GoTo("merging") /\ UNCHANGED <<row, prs>>
  <2>1. wf' = wf /\ faults' = faults /\ at' = "merging" /\ OpenPrs' = OpenPrs
    BY <1>5 DEF GoTo, OpenPrs
  <2>2. LeaseHolds' /\ BeforeFirst' /\ FailsOnlyWhenExhausted'
    BY <1>1, <2>1 DEF FirstInv, LeaseHolds, BeforeFirst, FailsOnlyWhenExhausted
  <2>3. ASSUME FirstRun' PROVE Counted' /\ BranchThere' /\ PrOpen'
    <3>1. Counted /\ BranchThere /\ PrOpen
      BY <1>1, <2>1, <2>3 DEF FirstRun, FirstInv
    <3> QED
      BY <1>1, <1>5, <2>1, <3>1 DEF Counted, BranchThere, PrOpen
  <2> QED
    BY <2>2, <2>3 DEF FirstInv
<1> QED
  BY <1>2, <1>3, <1>4, <1>5 DEF Merge, RebaseOntoMain, MergePullRequest, CloseFailed

LEMMA TemporalFirst == ASSUME IInv, FirstInv, Temporal \/ StartRun PROVE FirstInv'
<1> USE DEF dbVars, workerVars, gitVars, history
<1>1. CASE StartAttempt
  <2>1. /\ at = "idle" /\ wf' = [wf EXCEPT !.attempt = wf.attempt + 1] /\ wf.status = "RUNNING"
        /\ UNCHANGED <<row, runs, resumed, foreign, head, tracked, prs, faults>>
    BY <1>1 DEF StartAttempt, NextAttempt
  <2>2. at' \in {"implement", "create_pr", "fix_ci", "review", "post_review", "merge"}
    BY <1>1, Numbers DEF StartAttempt, Steps
  <2>3. wf'.attempt = wf.attempt + 1 /\ wf'.step = wf.step /\ wf'.status = "RUNNING"
        /\ wf'.pr = wf.pr /\ wf'.decision = wf.decision
    BY <2>1, Numbers DEF Workflows
  <2>4. LeaseHolds' /\ BeforeFirst' /\ FailsOnlyWhenExhausted' /\ OpenPrs' = OpenPrs
    BY <2>1, <2>3 DEF FirstInv, LeaseHolds, BeforeFirst, FailsOnlyWhenExhausted, OpenPrs
  <2>5. ASSUME FirstRun' PROVE Counted' /\ BranchThere' /\ PrOpen'
    <3>1. Counted /\ BranchThere /\ PrOpen
      BY <2>1, <2>5 DEF FirstRun, FirstInv
    <3>2. Counted'
      BY <2>1, <2>2, <2>3, <3>1, Numbers DEF Counted
    <3> QED
      BY <2>1, <2>2, <2>3, <2>4, <3>1, <3>2 DEF BranchThere, PrOpen
  <2> QED
    BY <2>4, <2>5 DEF FirstInv
<1>2. CASE AttemptsExhausted
  <2>1. /\ at = "idle" /\ wf.attempt = MaxAttempts /\ wf.status = "RUNNING"
        /\ wf'.status = "FAILED" /\ wf'.step = wf.step
        /\ UNCHANGED <<row, runs, resumed, foreign, head, tracked, prs, faults>>
    BY <1>2, Numbers DEF AttemptsExhausted, Workflows
  <2>2. FailsOnlyWhenExhausted'
    BY <2>1, Numbers DEF FirstInv, FirstRun, Counted, FailsOnlyWhenExhausted
  <2> QED
    BY <2>1, <2>2 DEF FirstInv, LeaseHolds, BeforeFirst, FirstRun
<1>3. CASE StartRun
  <2>1. /\ wf'.status = "RUNNING" /\ wf'.step = 1 /\ wf'.attempt = 0 /\ faults' = 0
        /\ runs' = runs + 1 /\ resumed' = row.stage /\ at' = at /\ at = "idle"
        /\ UNCHANGED <<row, foreign, head, tracked, prs>>
    BY <1>3 DEF StartRun, IInv, PlaceIsOfStep
  <2>2. runs \in Nat
    BY PipelineAssumption DEF IInv, PipelineTypeOK
  <2>3. runs' = 1 => row.stage = "none"
    BY <2>1, <2>2 DEF FirstInv, BeforeFirst
  <2>4. LeaseHolds' /\ BeforeFirst' /\ FailsOnlyWhenExhausted'
    BY <2>1, <2>2, <2>3 DEF FirstInv, LeaseHolds, BeforeFirst, FailsOnlyWhenExhausted
  <2>5. ASSUME FirstRun' PROVE Counted' /\ BranchThere' /\ PrOpen'
    BY <2>1, <2>3, <2>5 DEF FirstRun, Counted, BranchThere, PrOpen, Skippable
  <2> QED
    BY <2>4, <2>5 DEF FirstInv
<1> QED
  BY <1>1, <1>2, <1>3 DEF Temporal

\* The worker dies, or cleans up when it starts: the row may become failed.
LEMMA WorkerFirst == ASSUME IInv, FirstInv, Crash \/ Cleanup PROVE FirstInv'
<1>1. /\ UNCHANGED <<wf, runs, resumed, foreign, head, tracked, prs>>
      /\ at' = "idle" /\ faults' \in {faults, faults + 1} /\ (at # "idle" => faults' = faults + 1)
  BY DEF Crash, Cleanup, Fault, IInv, CleanupAlone, gitVars, history
<1>2. row' = row \/ row'.stage = "failed"
  <2>1. Stage("failed").stage = "failed"
    BY RowsBuilt DEF IInv, PipelineTypeOK, Stages
  <2> QED
    BY <2>1 DEF Crash, Cleanup, dbVars
<1>3. runs = 0 => row' = row /\ worker' \in {"up", "down"}
  BY DEF FirstInv, BeforeFirst, Crash, Cleanup, dbVars
<1>4. LeaseHolds' /\ BeforeFirst' /\ FailsOnlyWhenExhausted'
  BY <1>1, <1>3, Numbers DEF FirstInv, LeaseHolds, BeforeFirst, FailsOnlyWhenExhausted
<1>5. ASSUME FirstRun' PROVE Counted' /\ BranchThere' /\ PrOpen'
  <2>1. FirstRun /\ Counted /\ BranchThere /\ PrOpen
    BY <1>1, <1>5 DEF FirstRun, FirstInv
  <2>2. Counted'
    BY <1>1, <2>1, Numbers DEF Counted
  <2>3. BranchThere' /\ PrOpen'
    BY <1>1, <1>2, <2>1 DEF BranchThere, PrOpen, Skippable, OpenPrs
  <2> QED
    BY <2>2, <2>3
<1> QED
  BY <1>4, <1>5 DEF FirstInv

LEMMA NextFirst == IInv /\ FirstInv /\ [Next]_vars => FirstInv'
<1> SUFFICES ASSUME IInv, FirstInv, [Next]_vars PROVE FirstInv'
  OBVIOUS
<1> USE DEF dbVars, workerVars, gitVars, history
<1>1. CASE CallFails
  BY <1>1, RaisesWithFault DEF CallFails
<1>2. CASE TimeOut
  BY <1>2, RaisesWithFault DEF TimeOut
<1>3. CASE ForeignPush
  <2>1. foreign' # {} /\ UNCHANGED <<wf, row, runs, resumed, worker>>
    BY <1>3 DEF ForeignPush
  <2> QED
    BY <2>1 DEF FirstInv, LeaseHolds, BeforeFirst, FirstRun, FailsOnlyWhenExhausted
<1>4. CASE UNCHANGED vars
  <2>1. OpenPrs' = OpenPrs
    BY <1>4 DEF vars, OpenPrs
  <2> QED
    BY <1>4, <2>1 DEF vars, FirstInv, LeaseHolds, BeforeFirst, FirstRun, Counted, BranchThere, PrOpen,
       FailsOnlyWhenExhausted
<1> QED
  BY <1>1, <1>2, <1>3, <1>4, ImplementFirst, CreatePullRequestFirst, FixCIFirst, ReviewFirst, MergeFirst,
     TemporalFirst, WorkerFirst DEF Next, Activity

\* create_pr's crash recovery and implement's retry logic: for any number of
\* attempts and faults, a first run fails only when as many calls failed as it
\* has attempts, or somebody else pushed to the branch.
THEOREM FailsExhausted == Spec => []FailsOnlyWhenExhausted
<1>1. FirstInv => FailsOnlyWhenExhausted
  BY DEF FirstInv
<1> QED
  BY Invariant, InitFirst, NextFirst, <1>1, PTL DEF Spec

=============================================================================
