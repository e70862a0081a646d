------------------------------ MODULE StableTrain ------------------------------
(***************************************************************************)
(* The stable release train (scripts/release/stable_auto_train.py) in      *)
(* continuous mode, against GitHub and the registries.  A commit is the    *)
(* history of main up to it: a sequence of Work, for a commit of somebody  *)
(* else, and of versions, for the commit that prepares a version.  Version *)
(* 0 is the release the train starts from.                                 *)
(*                                                                         *)
(* Maintainers push to main at any time, repair a clone that has diverged, *)
(* clean a tree left dirty and list as abandoned a tag the train cannot    *)
(* publish.  The release gate and the product delta are not modelled here: *)
(* every commit of somebody else counts as a product change.               *)
(* Nor are the two ways round the cadence gate, FORCE_CADENCE and a git    *)
(* log that fails: both cut a version without work, and are meant to.      *)
(***************************************************************************)
EXTENDS ReleaseTrain, FiniteSetsExt, SequencesExt

CONSTANTS
    Work,
    MaxVersion,  \* bound: versions
    MaxWork,     \* bound: commits of somebody else
    Queue        \* queued versions of autodev-train-targets.json

Versions == 0..MaxVersion

ASSUME StableAssumption ==
    /\ MaxVersion \in Nat /\ MaxWork \in Nat /\ MaxFaults \in Nat
    /\ Queue \subseteq 1..MaxVersion /\ Work \notin Versions

VARIABLES
    target,
    local,      \* main of the clone
    dirty,      \* a preparation was left in the working tree
    tracking,   \* origin/main as the clone knows it
    origin,     \* main on GitHub
    passed, broken,     \* commits whose push CI passed, and failed
    cd,         \* the latest release-cd run of each version
    cdHead,     \* and the head of main when it was dispatched
    npm, latest_npm, pypi, gh, signed,
    abandoned   \* abandoned-stable-tags.json

clone == <<local, dirty, tracking, localTag>>
github == <<origin, remoteTag>>
ci == <<passed, broken>>
delivery == <<cd, cdHead>>
registries == <<npm, latest_npm, pypi, gh>>
svars == <<pc, target, clone, github, ci, delivery, registries, signed, abandoned, faults>>

Places == {"start", "reconcile", "select", "prepare", "commit", "tag", "push", "ci",
           "push_tag", "dispatch", "watch", "sign", "recover"}

StableInit ==
    /\ pc = "start" /\ target = 0
    /\ local = <<>> /\ dirty = FALSE /\ tracking = <<>> /\ origin = <<>>
    /\ localTag = [v \in {0} |-> <<>>] /\ remoteTag = localTag
    /\ passed = {<<>>} /\ broken = {}
    /\ cd = [v \in Versions |-> IF v = 0 THEN "done" ELSE "none"]
    /\ cdHead = [v \in Versions |-> <<>>]
    /\ npm = {0} /\ latest_npm = 0 /\ pypi = {0} /\ gh = {0} /\ signed = {0}
    /\ abandoned = {} /\ faults = 0

Maybe(fault) == IF fault THEN Faulty ELSE UNCHANGED faults

Tagged(tags) == DOMAIN tags
AddTag(tags, v, commit) == [u \in Tagged(tags) \cup {v} |-> IF u \in Tagged(tags) THEN tags[u] ELSE commit]
DropTags(tags, gone) == [u \in Tagged(tags) \ gone |-> tags[u]]

\* publication_status(): what makes a release complete.  A probe that times out
\* ends the cycle (CycleFails); npm view or gh release view that fails otherwise
\* answers that there is nothing, as a probe that is lost does here.
complete(v) == v \in pypi /\ v \in npm /\ latest_npm = v /\ v \in gh
seen_complete(v, lost) == complete(v) /\ ~lost

\* git ls-remote: a probe that fails three times answers that there is no tag.
remote_tag_exists(v, lost) == v \in Tagged(remoteTag) /\ ~lost

latest_stable == Max(Tagged(localTag))

latest_stable_before(v) == Max({u \in Tagged(localTag) \ abandoned : u < v})

-----------------------------------------------------------------------------
(* The cycle begins.                                                       *)
Diverged(a, b) == ~IsPrefix(a, b) /\ ~IsPrefix(b, a)

\* best_effort_fetch_tags() and sync_main_with_origin(): the clone keeps its own
\* tags, and a clone that has diverged ends the cycle.
Sync ==
    /\ pc = "start" /\ ~dirty
    /\ \E lost \in BOOLEAN :
          /\ Maybe(lost)
          /\ tracking' = IF lost THEN tracking ELSE origin
          /\ localTag' = IF lost THEN localTag
                         ELSE [v \in Tagged(localTag) \cup Tagged(remoteTag) |->
                                  IF v \in Tagged(localTag) THEN localTag[v] ELSE remoteTag[v]]
    /\ local' = IF IsPrefix(local, tracking') THEN tracking' ELSE local
    /\ pc' = IF Diverged(local, tracking') THEN "start" ELSE "reconcile"
    /\ UNCHANGED <<target, dirty, github, ci, delivery, registries, signed, abandoned>>

\* reconcile_unpublished_local_stable_tag(): the latest tag goes when main has
\* gone on without it.

Superseded(v, lost) ==
    /\ ~remote_tag_exists(v, "tag" \in lost)
    /\ localTag[v] # local /\ IsPrefix(localTag[v], local)
    /\ ~seen_complete(v, "status" \in lost)

Reconcile ==
    /\ Step("reconcile", "select")
    /\ \E lost \in SUBSET {"tag", "status"} :
          /\ Maybe(lost # {})
          /\ localTag' = DropTags(localTag, {v \in Tagged(localTag) : v = latest_stable /\ Superseded(v, lost)})
    /\ UNCHANGED <<target, local, dirty, tracking, github, ci, delivery, registries, signed, abandoned>>

\* Mutant: an abandoned tag is still to be recovered.
base_abandoned == latest_stable

\* select_target(): the latest tag until it is complete, then the queue, then
\* the next number that is free here.  Without a release to start from the cycle
\* fails, and the target stays what it was.
releases == Tagged(localTag) \ abandoned

base == Max(releases)

queued(lost) ==
    {v \in Queue : v \notin abandoned /\ v \notin Tagged(localTag) /\ ~remote_tag_exists(v, v \in lost)}

generated ==
    {v \in Versions : v \notin abandoned \cup Tagged(localTag) /\ \A u \in releases : v > u}

Targets(lost, unseen) ==
    IF releases = {} THEN {target}
    ELSE IF ~seen_complete(base, unseen) THEN {base}
    ELSE IF queued(lost) # {} THEN {Min(queued(lost))}
    ELSE IF generated # {} THEN {Min(generated)} ELSE {}

\* Mutant: a cycle releases whatever main has.
every_cycle(v) == TRUE

\* commits_since_tag_have_real_work()
real_work(v) ==
    LET since == localTag[latest_stable_before(v)]
    IN  \E i \in 1..Len(local) : local[i] = Work /\ i > Len(LongestCommonPrefix({since, local}))

\* latest_stable_before() raises when there is none.
has_previous(v) == \E u \in releases : u < v

\* Each probe may be lost on its own: of the tags in the queue, of the status of
\* the base, and of the tag and the status of the target.
Select ==
    /\ pc = "select"
    /\ \E hidden \in SUBSET Queue, lost \in SUBSET {"base", "tag", "status"} :
       \E v \in Targets(hidden, "base" \in lost) :
          /\ Maybe(hidden # {} \/ lost # {})
          /\ target' = v
          /\ pc' = IF ~has_previous(v) \/ (v \notin Tagged(localTag) /\ ~real_work(v)) THEN "start"
                   ELSE IF v \notin Tagged(localTag) /\ ~remote_tag_exists(v, "tag" \in lost) THEN "prepare"
                   ELSE IF ~seen_complete(v, "status" \in lost) /\ v \in Tagged(localTag) /\ localTag[v] = local THEN "push"
                   ELSE "recover"
    /\ UNCHANGED <<clone, github, ci, delivery, registries, signed, abandoned>>

-----------------------------------------------------------------------------
(* A release is prepared.                                                  *)
UpdateVersions ==
    /\ Step("prepare", "commit")
    /\ dirty' = TRUE
    /\ UNCHANGED <<target, local, tracking, localTag, github, ci, delivery, registries, signed,
                   abandoned, faults>>

Commit ==
    /\ Step("commit", "tag")
    /\ local' = Append(local, target)
    /\ dirty' = FALSE
    /\ UNCHANGED <<target, tracking, localTag, github, ci, delivery, registries, signed, abandoned,
                   faults>>

TagHead ==
    /\ Step("tag", "push")
    /\ localTag' = AddTag(localTag, target, local)
    /\ UNCHANGED <<target, local, dirty, tracking, github, ci, delivery, registries, signed,
                   abandoned, faults>>

-----------------------------------------------------------------------------
(* push_and_dispatch()                                                     *)
\* A push that is not a fast-forward is rejected.
PushToMain ==
    /\ pc = "push"
    /\ IF IsPrefix(origin, local)
       THEN /\ origin' = local /\ tracking' = local
            /\ \/ pc' = "ci" /\ UNCHANGED faults
               \/ pc' = "start" /\ Faulty
       ELSE pc' = "start" /\ UNCHANGED <<origin, tracking, faults>>
    /\ UNCHANGED <<target, local, dirty, localTag, remoteTag, ci, delivery, registries, signed,
                   abandoned>>

\* Mutant: a run that is missing is no failure.
not_failed(commit) == commit \notin broken

ci_passed(commit) == commit \in passed

\* GitHub ends the push CI of a commit, or cancels it when main has gone on.
CiEnds ==
    /\ \E c \in {c \in {origin, local} : IsPrefix(c, origin) /\ c \notin passed \cup broken} :
          \/ passed' = passed \cup {c} /\ UNCHANGED <<broken, faults>>
          \/ broken' = broken \cup {c} /\ Maybe(c = origin) /\ UNCHANGED passed
    /\ UNCHANGED <<pc, target, clone, github, delivery, registries, signed, abandoned>>

\* wait_for_push_ci(): until every workflow has passed, or one has failed.
WaitForCi ==
    /\ pc = "ci"
    /\ \/ ci_passed(local) /\ pc' = "push_tag"
       \/ local \in broken /\ pc' = "start"
    /\ UNCHANGED <<target, clone, github, ci, delivery, registries, signed, abandoned, faults>>

\* A tag that is on the remote is not pushed again.
PushTag ==
    /\ pc = "push_tag"
    /\ remoteTag' = AddTag(remoteTag, target, localTag[target])
    /\ \/ pc' = "dispatch" /\ UNCHANGED faults
       \/ pc' = "start" /\ Faulty
    /\ UNCHANGED <<target, clone, origin, ci, delivery, registries, signed, abandoned>>

DispatchCd ==
    /\ Step("dispatch", "watch")
    /\ cd' = [cd EXCEPT ![target] = "running"]
    /\ cdHead' = [cdHead EXCEPT ![target] = origin]
    /\ UNCHANGED <<target, clone, github, ci, registries, signed, abandoned, faults>>

\* publish-typescript fails when npm has the version and "latest" is another.
npm_refuses(v) == v \in npm /\ latest_npm # v

\* release-cd builds from the tag.
ReleaseCd(v) ==
    /\ cd[v] = "running" /\ v \in Tagged(remoteTag)
    /\ \/ /\ ~npm_refuses(v)
          /\ cd' = [cd EXCEPT ![v] = "done"]
          /\ npm' = npm \cup {v} /\ latest_npm' = v /\ pypi' = pypi \cup {v} /\ gh' = gh \cup {v}
          /\ UNCHANGED faults
       \/ /\ cd' = [cd EXCEPT ![v] = "failed"]
          /\ Maybe(~npm_refuses(v))
          /\ \/ ~npm_refuses(v) /\ npm' = npm \cup {v} /\ latest_npm' = v
             \/ UNCHANGED <<npm, latest_npm>>
          /\ pypi' \in {pypi, pypi \cup {v}}
          /\ UNCHANGED gh
    /\ UNCHANGED <<pc, target, clone, github, ci, cdHead, signed, abandoned>>

\* wait_for_release_cd(): the run is looked for by the head of the clone.
WatchCd ==
    /\ pc = "watch"
    /\ \/ cdHead[target] # local /\ pc' = "start"
       \/ /\ cdHead[target] = local /\ cd[target] \in {"done", "failed"}
          /\ pc' = IF cd[target] = "done" \/ complete(target) THEN "sign" ELSE "start"
    /\ UNCHANGED <<target, clone, github, ci, delivery, registries, signed, abandoned, faults>>

\* trigger_sign_release() and trigger_slsa_provenance(): a failure is logged.
Sign ==
    /\ Step("sign", "start")
    /\ \/ signed' = signed \cup {target} /\ UNCHANGED faults
       \/ UNCHANGED signed /\ Faulty
    /\ UNCHANGED <<target, clone, github, ci, delivery, registries, abandoned>>

\* recover_existing_release(): PyPI and the GitHub Release are made good, and
\* npm is not.

Recoverable == target \in npm /\ latest_npm = target /\ target \in Tagged(remoteTag)

Recover ==
    /\ pc = "recover"
    /\ IF complete(target) \/ ~Recoverable
       THEN pc' = "start" /\ UNCHANGED <<pypi, gh>>
       ELSE IF target \notin pypi
       THEN pypi' = pypi \cup {target} /\ UNCHANGED <<pc, gh>>
       ELSE gh' = gh \cup {target} /\ pc' = "start" /\ UNCHANGED pypi
    /\ UNCHANGED <<target, clone, github, ci, delivery, npm, latest_npm, signed, abandoned, faults>>

\* A call raises, or the process dies and is started again.
CycleFails ==
    /\ pc # "start" /\ pc' = "start"
    /\ Faulty
    /\ UNCHANGED <<target, clone, github, ci, delivery, registries, signed, abandoned>>

-----------------------------------------------------------------------------
(* The maintainers.                                                        *)
works(commit) == Cardinality({i \in 1..Len(commit) : commit[i] = Work})

PushWork ==
    /\ works(origin) < MaxWork
    /\ origin' = Append(origin, Work)
    /\ UNCHANGED <<pc, target, clone, remoteTag, ci, delivery, registries, signed, abandoned, faults>>

Clean ==
    /\ pc = "start" /\ dirty
    /\ dirty' = FALSE
    /\ UNCHANGED <<pc, target, local, tracking, localTag, github, ci, delivery, registries, signed,
                   abandoned, faults>>

\* A clone that has diverged goes back to GitHub's main, with GitHub's tags.
Repair ==
    /\ pc = "start" /\ ~dirty /\ Diverged(local, origin)
    /\ local' = origin /\ tracking' = origin
    /\ localTag' = remoteTag
    /\ UNCHANGED <<pc, target, dirty, github, ci, delivery, registries, signed, abandoned, faults>>

\* The latest tag is on GitHub, main has gone on, and npm does not have it.
Abandon ==
    /\ pc = "start" /\ releases # {} /\ base # 0
    /\ base \in Tagged(remoteTag) /\ localTag[base] # local
    /\ cd[base] # "running" /\ base \notin npm
    /\ abandoned' = abandoned \cup {base}
    /\ UNCHANGED <<pc, target, clone, github, ci, delivery, registries, signed, faults>>

StableStep ==
    \/ Sync \/ Reconcile \/ Select \/ UpdateVersions \/ Commit \/ TagHead
    \/ PushToMain \/ WaitForCi \/ PushTag \/ DispatchCd \/ WatchCd \/ Sign \/ Recover

StableNext ==
    \/ StableStep \/ CycleFails
    \/ CiEnds \/ \E v \in Versions : ReleaseCd(v)
    \/ PushWork \/ Clean \/ Repair \/ Abandon

\* The train goes on, workflows end, and the maintainers help when it is stuck.
StableSpec ==
    /\ StableInit /\ [][StableNext]_svars
    /\ WF_svars(StableStep) /\ WF_svars(CiEnds) /\ \A v \in Versions : WF_svars(ReleaseCd(v))
    /\ WF_svars(Clean) /\ SF_svars(Repair) /\ SF_svars(Abandon)

-----------------------------------------------------------------------------
Commits == Seq(Versions \cup {Work})

\* What the registries have was built from a commit whose push CI passed and
\* which is on main, whatever was cancelled, retried or repaired before.
PublishedPassedCi ==
    \A v \in npm \cup pypi : remoteTag[v] \in passed /\ IsPrefix(remoteTag[v], origin)

\* The higher version is the later commit, as long as no version that GitHub has was
\* missing in the clone when a lower one was cut.
InOrder == \A u, v \in Tagged(remoteTag) : u < v => IsPrefix(remoteTag[u], remoteTag[v])

\* A history in which a version is prepared once more when GitHub has its tag.
CutAgain(history) ==
    \E v \in Tagged(remoteTag) : \E i \in Len(remoteTag[v]) + 1..Len(history) : history[i] = v

\* A tag is cut for the work of somebody else: main has some that the tag
\* before, if it was not abandoned, had not (commits_since_tag_have_real_work).
\* This is so while versions are cut in order, of a commit in whose history no
\* version is cut again under a tag that GitHub has.
TagHasRealWork ==
    InOrder => \A v \in Tagged(remoteTag) \ {0} :
        LET before == Max({u \in Tagged(remoteTag) \ abandoned : u < v})
        IN  works(remoteTag[v]) > works(remoteTag[before]) \/ CutAgain(remoteTag[v])

\* The clone has a tag at another commit than GitHub: the reconciliation dropped a
\* tag GitHub had, and the version was cut once more.
Retagged == \E v \in Tagged(localTag) \cap Tagged(remoteTag) : localTag[v] # remoteTag[v]

\* The work on main is released in the end, through failed pushes, workflows and
\* cycles: the latest GitHub Release has it, or the push CI of main failed, or a
\* version was cut twice or after a higher one, or the model has no more versions.
WorkIsReleased ==
    \A n \in 1..MaxWork :
        works(origin) = n ~>
            \/ \E v \in gh : works(remoteTag[v]) >= n
            \/ origin \in broken \/ Retagged \/ ~InOrder
            \/ generated = {}

\* The reconciliation drops a tag of the clone only if GitHub does not have it.
DropsOnlyUnpublishedTags ==
    [][\A v \in Tagged(localTag) : v \notin Tagged(localTag') => v \notin Tagged(remoteTag)]_svars

=============================================================================
