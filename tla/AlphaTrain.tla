------------------------------ MODULE AlphaTrain ------------------------------
(***************************************************************************)
(* The alpha release train (scripts/release/alpha_release_train.py) in     *)
(* continuous mode, against GitHub, PyPI and npm.  Release n is the n-th   *)
(* candidate; the commit that prepares it has the same number, 0 is the    *)
(* commit the train starts from, and a version is that of the commit it is *)
(* built from.  Releases of the set Boundary (patch number 0) also go to   *)
(* the registries.                                                         *)
(*                                                                         *)
(* mode "queue" is --auto-promote-prepared: a maintainer prepares the      *)
(* candidates, the train writes them into queue.json.  mode "full_auto" is *)
(* --full-auto-alpha: the train prepares them, queue.json stays as it is.  *)
(***************************************************************************)
EXTENDS ReleaseTrain

CONSTANTS
    MaxRelease,     \* bound: releases
    Boundary        \* releases published to the registries

ASSUME AlphaAssumption ==
    MaxRelease \in Nat /\ MaxFaults \in Nat /\ Boundary \subseteq 1..MaxRelease

VARIABLES
    mode,
    cand,        \* the release it works on, 0 for none
    stop,        \* the STOP file exists
    head,        \* HEAD, the last prepared commit
    built,       \* the release whose artifacts are in dist/
    tree,        \* the working tree: "clean", or "dirty" with changes not committed
    queue,       \* releases in queue.json
    remoteMain,  \* origin's main
    ghReleases,  \* GitHub Releases
    registry,    \* versions each registry has
    status,      \* release_state
    done,        \* stages of each release recorded as done
    task         \* git_push_tasks: of main and of the tag, for each release

repo == <<head, built, tree, localTag>>
remote == <<remoteMain, remoteTag, ghReleases, registry>>
db == <<status, done, task>>
vars == <<mode, pc, cand, stop, queue, repo, remote, db, faults>>

Releases == 1..MaxRelease
Refs == {"main", "tag"}
Registries == {"pypi", "npm"}
Stages == {"gates", "main", "tag", "gh", "pypi", "npm", "verified"}

Init ==
    /\ mode \in {"queue", "full_auto"}
    /\ pc = "cycle" /\ cand = 0 /\ stop = FALSE
    /\ head = 0 /\ built = 0 /\ tree = "clean" /\ queue = {}
    /\ localTag = [r \in Releases |-> 0] /\ remoteTag = localTag
    /\ remoteMain = 0 /\ ghReleases = {}
    /\ registry = [g \in Registries |-> {0}]
    /\ status = [r \in Releases |-> "none"]
    /\ done = [r \in Releases |-> {}]
    /\ task = [r \in Releases |-> [f \in Refs |-> "none"]]
    /\ faults = 0

Mark(r, stages) == done' = [done EXCEPT ![r] = @ \cup stages]

\* upsert_release_state(): released stays released, and retired stays retired
\* when the release is prepared or processed again.
Upsert(r, new) ==
    status' = [status EXCEPT ![r] =
        IF @ = "released" \/ (@ = "retired" /\ new \in {"prepared", "processing"}) THEN @ ELSE new]


\* The candidate fails: mark_failed(), the STOP file, and the process ends.
FailClosed ==
    /\ Upsert(cand, "failed")
    /\ stop' = TRUE
    /\ pc' = "off"

-----------------------------------------------------------------------------
(* Candidates.                                                             *)
\* Mutant: it does not matter whose artifacts are in dist/.
any_files(r) == built # 0

\* verify_candidate_files(): each build empties dist/ first.
candidate_files(r) == built = r

alpha_release_exists(r) == localTag[r] # 0 \/ remoteTag[r] # 0

\* latest_alpha_release_from_notes(): a tree that is not clean has the next notes.
latest_notes == IF tree = "dirty" THEN head + 1 ELSE head

discovered == {r \in 1..latest_notes : ~alpha_release_exists(r) /\ built = r}

\* A failed release that is public in part is tried again, unless there is a newer one.
recoverable ==
    {r \in Releases : /\ status[r] = "failed" /\ r >= latest_notes /\ built = r
                      /\ done[r] \cap {"gh", "pypi"} # {}
                      /\ done[r] \cap {"npm", "verified"} = {}}

unprocessed == {r \in queue \cup discovered \cup recoverable : status[r] # "released"}

\* retire_obsolete_prepared_releases()
Obsolete(r) ==
    /\ status[r] \in {"prepared", "processing"}
    /\ r \notin queue \cup discovered \cup recoverable
    /\ IF alpha_release_exists(r)
       THEN "gh" \in done[r] /\ (r \in Boundary => {"pypi", "npm", "verified"} \subseteq done[r])
       ELSE r < latest_notes

Retired == [r \in Releases |-> IF Obsolete(r) THEN "retired" ELSE status[r]]

\* Mutant: what was found is kept in memory only.
in_memory == queue

\* merge_prepared_candidates(): written to queue.json, but not in full-auto mode.
promoted == IF mode = "queue" THEN queue \cup discovered ELSE queue

\* The cycle begins: the first candidate is taken (--max-count 1).
TakeCandidate ==
    /\ Step("cycle", "verify") /\ ~stop
    /\ queue' = promoted
    /\ \E first \in unprocessed :
          /\ \A r \in unprocessed : first <= r
          /\ cand' = first
          /\ status' = [Retired EXCEPT ![first] = IF @ = "retired" THEN @ ELSE "processing"]
    /\ UNCHANGED <<mode, stop, repo, remote, done, task, faults>>

NoCandidate ==
    /\ Step("cycle", "push") /\ ~stop
    /\ unprocessed = {}
    /\ mode = "queue" \/ head = MaxRelease
    /\ status' = Retired
    /\ UNCHANGED <<mode, cand, stop, queue, repo, remote, done, task, faults>>

\* next_alpha_release(): after the newest notes; the tree is clean here.
next_alpha_release == head + 1

NothingToRelease ==
    /\ pc = "cycle" /\ ~stop /\ mode = "full_auto"
    /\ unprocessed = {} /\ head < MaxRelease
    /\ status' = Retired

\* finalize_next_alpha(): the versions and the notes are written.
BeginFinalize ==
    /\ NothingToRelease
    /\ IF tree = "dirty" THEN pc' = "off" /\ stop' = TRUE /\ UNCHANGED tree
                         ELSE pc' = "build" /\ tree' = "dirty" /\ UNCHANGED stop
    /\ UNCHANGED <<mode, cand, queue, head, built, localTag, remote, done, task, faults>>

\* build_release_artifacts() and write_release_metadata()
BuildArtifacts ==
    /\ Step("build", "finalize")
    /\ built' = next_alpha_release
    /\ UNCHANGED <<mode, cand, stop, queue, head, tree, localTag, remote, db, faults>>

\* commit_release_prep(), mark_prepared() and mark_processing()
CommitPrep ==
    /\ Step("finalize", "verify")
    /\ head' = built
    /\ tree' = "clean"
    /\ cand' = built
    /\ status' = [status EXCEPT ![built] = "processing"]
    /\ UNCHANGED <<mode, stop, queue, built, localTag, remote, done, task, faults>>

\* A build or the release-prep gate fails: an error of the cycle, not of a candidate.
FinalizeFails ==
    /\ pc \in {"build", "finalize"} /\ pc' = "off"
    /\ Faulty
    /\ stop' = TRUE
    /\ UNCHANGED <<mode, cand, queue, repo, remote, db>>

\* The maintainer prepares the next candidate after the previous one is complete.
Prepare ==
    /\ mode = "queue" /\ head < MaxRelease /\ pc \in {"cycle", "off"} /\ tree = "clean"
    /\ \A r \in 1..head : status[r] \in {"released", "failed", "retired"}
    /\ head' = head + 1
    /\ built' = head + 1
    /\ UNCHANGED <<mode, pc, cand, stop, tree, queue, localTag, remote, db, faults>>

-----------------------------------------------------------------------------
(* run_candidate()                                                         *)
at_head(r) == localTag[r] = head /\ head # 0
TagIsOurs == at_head(cand) \/ "tag" \in done[cand]

\* preflight_public_release_surfaces(): what is public must be what an
\* interrupted run of this release left there.
Preflight ==
    /\ localTag[cand] # 0 => TagIsOurs \/ "gh" \in done[cand]
    /\ remoteTag[cand] # 0 => TagIsOurs
    /\ cand \in ghReleases => at_head(cand) \/ "gh" \in done[cand]

Observed ==
    (IF remoteTag[cand] # 0 THEN {"tag"} ELSE {}) \cup (IF cand \in ghReleases THEN {"gh"} ELSE {})

Verify ==
    /\ pc = "verify"
    /\ IF candidate_files(cand) /\ tree = "clean" /\ Preflight
       THEN pc' = "gates" /\ Mark(cand, Observed) /\ UNCHANGED <<status, stop>>
       ELSE FailClosed /\ UNCHANGED done
    /\ UNCHANGED <<mode, cand, queue, repo, remote, task, faults>>

Gates ==
    /\ Step("gates", "main")
    /\ Mark(cand, {"gates"})
    /\ UNCHANGED <<mode, cand, stop, queue, repo, remote, status, task, faults>>

\* A probe, a gate or the last check of the registries fails.
CandidateFails ==
    /\ \/ pc = "verify"
       \/ pc = "gates" /\ "gates" \notin done[cand]
       \/ pc = "registries" /\ cand \in Boundary /\ "verified" \notin done[cand]
    /\ Faulty
    /\ FailClosed
    /\ UNCHANGED <<mode, cand, queue, repo, remote, done, task>>

\* enqueue_git_push_task(): a task in cooldown keeps its time.
Enqueue(ref) == task' = [task EXCEPT ![cand][ref] = IF @ = "none" THEN "due" ELSE @]

QueueMain ==
    /\ Step("main", "tag")
    /\ IF "main" \in done[cand] THEN UNCHANGED task ELSE Enqueue("main")
    /\ UNCHANGED <<mode, cand, stop, queue, repo, remote, status, done, faults>>

\* create_tag_and_release(): the tag is made at HEAD and its push queued.
Tag ==
    /\ pc = "tag"
    /\ localTag' = IF TagIsOurs \/ "gh" \in done[cand] THEN localTag
                   ELSE [localTag EXCEPT ![cand] = head]
    /\ IF "tag" \in done[cand]
       THEN pc' = "release" /\ UNCHANGED task
       ELSE pc' = "push_tag" /\ Enqueue("tag")
    /\ UNCHANGED <<mode, cand, stop, queue, head, built, tree, remote, status, done, faults>>

-----------------------------------------------------------------------------
(* process_git_push_queue()                                                *)
Due(ref) == {r \in Releases : task[r][ref] = "due"}

SetTasks(ref, ok, later) ==
    [r \in Releases |-> [f \in Refs |->
        CASE f = ref /\ r \in ok -> "done"
          [] f = ref /\ r \in later -> "waiting"
          [] OTHER -> task[r][f]]]

\* Mutant: a push that times out counts as done.
recorded_done(ref, ok, later) ==
    [r \in Releases |-> IF r \in ok \cup later THEN done[r] \cup {ref} ELSE done[r]]

recorded(ref, ok, later) == [r \in Releases |-> IF r \in ok THEN done[r] \cup {ref} ELSE done[r]]

\* update_git_push_task() of the tasks that are done and of those that wait.
Record(ref, ok, later) ==
    /\ task' = SetTasks(ref, ok, later)
    /\ done' = recorded(ref, ok, later)

\* main first.  A push that converged, or that succeeds, is done.
PushMain ==
    /\ Due("main") # {}
    /\ remoteMain' = head
    /\ Record("main", Due("main"), {})
    /\ UNCHANGED <<remoteTag, faults, pc>>

\* A probe or push of main that fails or times out ends the pass, perhaps after
\* other tasks for main were done; it may have arrived.
PushMainFails(next) ==
    /\ Faulty
    /\ \E last \in Due("main") : \E before \in SUBSET (Due("main") \ {last}) :
          /\ remoteMain' \in IF before = {} THEN {remoteMain, head} ELSE {head}
          /\ Record("main", before, {last})
    /\ pc' = next
    /\ UNCHANGED remoteTag

\* Tags arrive on the remote; one that is there stays what it is.
Arrive(tags) ==
    remoteTag' = [r \in Releases |-> IF r \in tags /\ remoteTag[r] = 0 THEN localTag[r] ELSE remoteTag[r]]

\* The due tags go in one batch, and each is asked for before and afterwards: a
\* tag is recorded only when it is seen on the remote.
PushTags(next) ==
    /\ Due("main") = {}
    /\ \E arrived \in SUBSET Due("tag") : \E seen \in SUBSET arrived :
          /\ IF seen = Due("tag") THEN UNCHANGED faults ELSE Faulty
          /\ Arrive(arrived)
          /\ Record("tag", seen, Due("tag") \ seen)
    /\ pc' = next
    /\ UNCHANGED remoteMain

ProcessQueue ==
    /\ \/ pc = "push" /\ (PushMain \/ PushMainFails("cycle") \/ PushTags("cycle"))
       \/ pc = "push_tag" /\ (PushMain \/ PushMainFails("release") \/ PushTags("release"))
    /\ UNCHANGED <<mode, cand, stop, queue, repo, ghReleases, registry, status>>

\* next_attempt_at_epoch has come.
CooldownEnds(r, ref) ==
    /\ task[r][ref] = "waiting"
    /\ task' = [task EXCEPT ![r][ref] = "due"]
    /\ UNCHANGED <<mode, pc, cand, stop, queue, repo, remote, status, done, faults>>

-----------------------------------------------------------------------------

tag_pushed == "tag" \in done[cand]

\* QueueDependencyPending: the candidate stays as it is, and the cycle ends.
TagPending ==
    /\ Step("release", "push")
    /\ ~tag_pushed
    /\ UNCHANGED <<mode, cand, stop, queue, repo, remote, db, faults>>

CreateRelease ==
    /\ Step("release", "publish_pypi")
    /\ tag_pushed
    /\ ghReleases' = ghReleases \cup {cand}
    /\ Mark(cand, {"gh"})
    /\ UNCHANGED <<mode, cand, stop, queue, repo, remoteMain, remoteTag, registry, status, task, faults>>

\* gh release create raises, before or after the release is there.
CreateReleaseFails ==
    /\ pc = "release" /\ tag_pushed /\ cand \notin ghReleases
    /\ Faulty
    /\ ghReleases' \in {ghReleases, ghReleases \cup {cand}}
    /\ FailClosed
    /\ UNCHANGED <<mode, cand, queue, repo, remoteMain, remoteTag, registry, done, task>>

\* publish_platforms(): a release that is no boundary skips the registries.
SkipRegistries ==
    /\ Step("publish_pypi", "registries")
    /\ cand \notin Boundary
    /\ Mark(cand, {"pypi", "npm"})
    /\ UNCHANGED <<mode, cand, stop, queue, repo, remote, status, task, faults>>

Publishing(g) == IF g = "pypi" THEN "publish_pypi" ELSE "publish_npm"
After(g) == IF g = "pypi" THEN "publish_npm" ELSE "registries"

AlreadyPublished(g) ==
    /\ cand \in Boundary
    /\ g \in done[cand] \/ cand \in registry[g]
    /\ Mark(cand, {g})
    /\ pc' = After(g)
    /\ UNCHANGED <<stop, status, registry, faults>>

\* What is neither recorded nor there is built.
Dispatched(g) == cand \in Boundary /\ g \notin done[cand] /\ cand \notin registry[g]

\* The workflow builds origin's main, and a registry refuses a version it has.
\* When the watch fails, the version of the candidate is looked for, and the
\* workflow is dispatched once more.
Dispatch(g) ==
    /\ Dispatched(g)
    /\ \/ /\ remoteMain \notin registry[g]
          /\ registry' = [registry EXCEPT ![g] = @ \cup {remoteMain}]
          /\ \/ Mark(cand, {g}) /\ pc' = After(g) /\ UNCHANGED <<stop, status, faults>>
             \/ remoteMain # cand /\ Faulty /\ FailClosed /\ UNCHANGED done
       \/ /\ remoteMain \in registry[g] \/ faults < MaxFaults
          /\ faults' = faults + (IF remoteMain \in registry[g] THEN 0 ELSE 1)
          /\ FailClosed
          /\ UNCHANGED <<registry, done>>

Publish(g) ==
    /\ pc = Publishing(g)
    /\ AlreadyPublished(g) \/ Dispatch(g)
    /\ UNCHANGED <<mode, cand, queue, repo, remoteMain, remoteTag, ghReleases, task>>

\* Mutant: the workflow's answer is believed.
versions_recorded == {"pypi", "npm"} \subseteq done[cand]

versions_exist == \A g \in Registries : cand \in registry[g]

\* verify_registries()
VerifyRegistries ==
    /\ pc = "registries"
    /\ IF cand \in Boundary => versions_exist
       THEN pc' = "finish" /\ Mark(cand, {"verified"}) /\ UNCHANGED <<status, stop>>
       ELSE FailClosed /\ UNCHANGED done
    /\ UNCHANGED <<mode, cand, queue, repo, remote, task, faults>>

\* mark_processed()
Finish ==
    /\ Step("finish", "push")
    /\ Upsert(cand, "released")
    /\ UNCHANGED <<mode, cand, stop, queue, repo, remote, done, task, faults>>

-----------------------------------------------------------------------------
\* The process dies.
Crash ==
    /\ pc # "off"
    /\ Faulty
    /\ pc' = "off"
    /\ UNCHANGED <<mode, cand, stop, queue, repo, remote, db>>

\* Or it dies within a pass over the queue.  Pushes have arrived; update_git_push_task()
\* was done for some of them, and for the last only its first half: the task is
\* written before the stage.
DiesPushing(ref) ==
    /\ pc \in {"push", "push_tag"} /\ pc' = "off"
    /\ Faulty
    /\ ref = "tag" => Due("main") = {}
    /\ \E arrived \in SUBSET Due(ref) : \E written \in SUBSET arrived :
          /\ IF ref = "main"
             THEN remoteMain' = (IF arrived = {} THEN remoteMain ELSE head) /\ UNCHANGED remoteTag
             ELSE Arrive(arrived) /\ UNCHANGED remoteMain
          /\ \E half \in {{}} \cup {{r} : r \in written} :
                task' = SetTasks(ref, written, {}) /\ done' = recorded(ref, written \ half, {})
    /\ UNCHANGED <<mode, cand, stop, queue, repo, ghReleases, registry, status>>

\* Or between gh release create, or a workflow that published, and the record of it.
DiesUnrecorded ==
    /\ pc' = "off"
    /\ Faulty
    /\ \/ pc = "release" /\ tag_pushed
          /\ ghReleases' = ghReleases \cup {cand} /\ UNCHANGED registry
       \/ \E g \in Registries :
              /\ pc = Publishing(g) /\ Dispatched(g) /\ remoteMain \notin registry[g]
              /\ registry' = [registry EXCEPT ![g] = @ \cup {remoteMain}] /\ UNCHANGED ghReleases
    /\ UNCHANGED <<mode, cand, stop, queue, repo, remoteMain, remoteTag, db>>

\* The operator may clean the tree, removes the STOP file and starts the train again.
Restart ==
    /\ Step("off", "cycle")
    /\ stop' = FALSE
    /\ tree' \in {tree, "clean"}
    /\ UNCHANGED <<mode, cand, queue, head, built, localTag, remote, db, faults>>

TrainStep ==
    \/ TakeCandidate \/ NoCandidate \/ BeginFinalize \/ BuildArtifacts \/ CommitPrep
    \/ Verify \/ Gates \/ QueueMain \/ Tag \/ ProcessQueue \/ TagPending
    \/ CreateRelease \/ SkipRegistries \/ VerifyRegistries \/ Finish
    \/ \E g \in Registries : Publish(g)

Next ==
    \/ TrainStep
    \/ FinalizeFails \/ CandidateFails \/ CreateReleaseFails
    \/ Prepare \/ Crash \/ DiesUnrecorded \/ Restart
    \/ \E ref \in Refs : DiesPushing(ref)
    \/ \E r \in Releases, ref \in Refs : CooldownEnds(r, ref)

\* The train goes on, time passes, and the operator starts it again.
Spec ==
    /\ Init /\ [][Next]_vars
    /\ WF_vars(TrainStep) /\ WF_vars(Restart)
    /\ \A r \in Releases, ref \in Refs : WF_vars(CooldownEnds(r, ref))
-----------------------------------------------------------------------------

\* What the database calls released is public everywhere it should be: its tag
\* and GitHub Release exist, and a boundary release is in both registries,
\* whatever was interrupted and resumed on the way.
ReleasedIsPublic ==
    \A r \in Releases : status[r] = "released" =>
        /\ remoteTag[r] # 0 /\ r \in ghReleases
        /\ r \in Boundary => \A g \in Registries : r \in registry[g]

\* No GitHub Release without a tag on the remote: gh would make one at the
\* head of main, which is not the commit of the release.
ReleaseHasTag == \A r \in ghReleases : remoteTag[r] # 0

\* A tag, here or on the remote, names the commit that prepared its release:
\* a candidate taken again later is not tagged at the commit of another one.
TagsAreForTheirCommit ==
    \A r \in Releases : localTag[r] \in {0, r} /\ remoteTag[r] \in {0, r}

\* A stage recorded for main, the tag, the GitHub Release or the check of the
\* registries is true of the remote, since a resumed run skips what is recorded.
StagesAreTrue ==
    \A r \in Releases :
        /\ "main" \in done[r] => remoteMain >= r
        /\ "tag" \in done[r] => remoteTag[r] # 0
        /\ "gh" \in done[r] => r \in ghReleases
        /\ "verified" \in done[r] /\ r \in Boundary => \A g \in Registries : r \in registry[g]

\* A candidate that a maintainer prepared is finished, or given up, in spite of
\* pushes that wait and processes that die.
QueueModeCompletes ==
    \A r \in Releases :
        mode = "queue" /\ status[r] = "processing" ~> status[r] \in {"released", "failed", "retired"}

=============================================================================
