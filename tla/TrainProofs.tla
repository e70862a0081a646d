------------------------------ MODULE TrainProofs ------------------------------
(***************************************************************************)
(* What the alpha release train records and publishes, for any number of   *)
(* releases, any set of boundary releases and any number of faults; and    *)
(* that what the stable train publishes passed the push CI and is on main, *)
(* and that its tags carry work of somebody else, for any number of        *)
(* versions, commits and faults and any queue.                             *)
(***************************************************************************)
EXTENDS AlphaTrain, StableTrain, FiniteSetTheorems, SequenceTheorems, WellFoundedInduction, TLAPS

-----------------------------------------------------------------------------
(* The alpha train.                                                        *)

(* The places of a candidate whose files were verified.                    *)
Working == {"gates", "main", "tag", "push_tag", "release",
            "publish_pypi", "publish_npm", "registries", "finish"}
Published == {"publish_pypi", "publish_npm", "registries", "finish"}

(* The working tree: what is built is HEAD or the commit after it, and a    *)
(* tree a maintainer prepares is clean.                                    *)
TreeTyped ==
    /\ mode \in {"queue", "full_auto"}
    /\ tree \in {"clean", "dirty"}
    /\ head \in 0..MaxRelease
    /\ built \in {head, head + 1}
    /\ mode = "queue" => tree = "clean" /\ built = head
    /\ tree = "dirty" => head < MaxRelease
    /\ pc \in {"build", "finalize"} => tree = "dirty"
    /\ pc = "finalize" => built = head + 1

(* Nothing is queued, recorded or waiting for a commit that is not made.   *)
RecordsTyped ==
    /\ queue \subseteq 1..head
    /\ mode = "full_auto" => queue = {}
    /\ done \in [Releases -> SUBSET Stages]
    /\ task \in [Releases -> [Refs -> {"none", "due", "waiting", "done"}]]
    /\ status \in [Releases -> {"none", "processing", "released", "failed", "retired"}]
    /\ \A r \in Releases : done[r] # {} => r <= head
    /\ \A r \in Releases, f \in Refs : task[r][f] # "none" => r <= head

RemotesTyped ==
    /\ localTag \in [Releases -> 0..MaxRelease]
    /\ remoteTag \in [Releases -> 0..MaxRelease]
    /\ remoteMain \in 0..head
    /\ ghReleases \subseteq Releases
    /\ registry \in [Registries -> SUBSET (0..MaxRelease)]

(* A candidate is HEAD once its files and a clean tree were seen; until     *)
(* then a dirty tree may pass for the next release.                        *)
CandidateIsHead ==
    /\ pc = "verify" => cand \in 1..(head + 1) /\ (cand <= head \/ tree = "dirty")
    /\ pc \in Working => cand = head /\ head # 0

(* A tag that waits to be pushed is there to push.                         *)
QueuedTagExists ==
    \A r \in Releases : task[r]["tag"] # "none" => localTag[r] # 0 \/ remoteTag[r] # 0

(* How far the candidate has come.                                         *)
CandidateStages ==
    /\ pc \in Published => "gh" \in done[cand]
    /\ pc = "finish" => "verified" \in done[cand]

IInv ==
    /\ TreeTyped /\ RecordsTyped /\ RemotesTyped
    /\ CandidateIsHead /\ QueuedTagExists /\ CandidateStages
    /\ ReleaseHasTag /\ StagesAreTrue /\ ReleasedIsPublic /\ TagsAreForTheirCommit

LEMMA InitInvariant == Init => IInv
<1> SUFFICES ASSUME Init PROVE IInv
  OBVIOUS
<1>1. TreeTyped /\ RecordsTyped
  <2>1. TreeTyped
    BY AlphaAssumption DEF Init, TreeTyped
  <2>2. \A r \in Releases : done[r] = {} /\ \A f \in Refs : task[r][f] = "none"
    BY DEF Init, Refs
  <2>3. /\ done \in [Releases -> SUBSET Stages]
        /\ task \in [Releases -> [Refs -> {"none", "due", "waiting", "done"}]]
        /\ status \in [Releases -> {"none", "processing", "released", "failed", "retired"}]
    BY DEF Init
  <2> QED
    BY <2>1, <2>2, <2>3 DEF Init, RecordsTyped
<1>2. RemotesTyped /\ CandidateIsHead /\ CandidateStages
  BY AlphaAssumption DEF Init, RemotesTyped, CandidateIsHead, CandidateStages, Working, Published
<1>3. QueuedTagExists
  BY DEF Init, QueuedTagExists, Refs
<1>4. ReleaseHasTag /\ StagesAreTrue /\ ReleasedIsPublic /\ TagsAreForTheirCommit
  BY DEF Init, ReleaseHasTag, StagesAreTrue, ReleasedIsPublic, TagsAreForTheirCommit
<1> QED
  BY <1>1, <1>2, <1>3, <1>4 DEF IInv

-----------------------------------------------------------------------------
(* The steps that need more than their definition.  Parts of IInv whose     *)
(* variables a step leaves alone, or only lets grow, come in one leaf each. *)

USE DEF Releases, Refs, Registries, Stages

(* A candidate is a commit of the train or, when the tree is dirty, the     *)
(* release whose notes lie in it.                                          *)
LEMMA TakeCandidateKeeps == ASSUME IInv, TakeCandidate PROVE IInv'
<1> USE DEF IInv, TreeTyped, RecordsTyped
<1>1. PICK first \in unprocessed :
         /\ cand' = first
         /\ status' = [Retired EXCEPT ![first] = IF @ = "retired" THEN @ ELSE "processing"]
  BY DEF TakeCandidate
<1>2. /\ first \in 1..(head + 1) /\ (first <= head \/ tree = "dirty")
      /\ status[first] # "released" /\ first \in Releases
  BY AlphaAssumption DEF unprocessed, discovered, recoverable, latest_notes
<1>3. queue' \subseteq 1..head /\ (mode = "full_auto" => queue' = {})
  BY DEF TakeCandidate, promoted, discovered, latest_notes
<1>4. /\ status' \in [Releases -> {"none", "processing", "released", "failed", "retired"}]
      /\ \A r \in Releases : status'[r] = "released" => status[r] = "released"
  BY <1>1, <1>2 DEF Retired
<1>5. TreeTyped' /\ RecordsTyped' /\ RemotesTyped'
  BY <1>3, <1>4 DEF TakeCandidate, Step, repo, remote, RemotesTyped
<1>6. CandidateIsHead' /\ CandidateStages' /\ QueuedTagExists'
  BY <1>1, <1>2, <1>5 DEF TakeCandidate, Step, repo, remote, Working, Published,
     CandidateIsHead, CandidateStages, QueuedTagExists
<1>7. ReleaseHasTag' /\ StagesAreTrue' /\ ReleasedIsPublic' /\ TagsAreForTheirCommit'
  BY <1>4 DEF TakeCandidate, repo, remote,
     ReleaseHasTag, StagesAreTrue, ReleasedIsPublic, TagsAreForTheirCommit
<1> QED
  BY <1>5, <1>6, <1>7

(* A dirty tree ends the cycle; a clean one has room for a release.        *)
LEMMA BeginFinalizeKeeps == ASSUME IInv, BeginFinalize PROVE IInv'
<1> USE DEF IInv, TreeTyped, RecordsTyped, BeginFinalize, NothingToRelease, remote
<1>1. TreeTyped'
  BY AlphaAssumption
<1>2. /\ status' \in [Releases -> {"none", "processing", "released", "failed", "retired"}]
      /\ \A r \in Releases : status'[r] = "released" => status[r] = "released"
  BY DEF Retired
<1>3. RecordsTyped' /\ RemotesTyped'
  BY <1>2 DEF RemotesTyped
<1>4. CandidateIsHead' /\ CandidateStages' /\ QueuedTagExists'
  BY DEF Working, Published, CandidateIsHead, CandidateStages, QueuedTagExists
<1>5. ReleaseHasTag' /\ StagesAreTrue' /\ ReleasedIsPublic' /\ TagsAreForTheirCommit'
  BY <1>2 DEF ReleaseHasTag, StagesAreTrue, ReleasedIsPublic, TagsAreForTheirCommit
<1> QED
  BY <1>1, <1>3, <1>4, <1>5

(* Only full-auto mode builds, and it builds the commit after HEAD.        *)
LEMMA BuildArtifactsKeeps == ASSUME IInv, BuildArtifacts PROVE IInv'
<1> USE DEF IInv, TreeTyped, BuildArtifacts, Step, remote, db
<1>1. mode' = mode /\ tree' = tree /\ head' = head /\ built' = head + 1
  BY DEF next_alpha_release
<1>2. TreeTyped'
  BY <1>1
<1>3. RecordsTyped' /\ RemotesTyped' /\ QueuedTagExists'
  BY DEF RecordsTyped, RemotesTyped, QueuedTagExists
<1>4. CandidateIsHead' /\ CandidateStages'
  BY DEF Working, Published, CandidateIsHead, CandidateStages
<1>5. ReleaseHasTag' /\ StagesAreTrue' /\ ReleasedIsPublic' /\ TagsAreForTheirCommit'
  BY DEF ReleaseHasTag, StagesAreTrue, ReleasedIsPublic, TagsAreForTheirCommit
<1> QED
  BY <1>2, <1>3, <1>4, <1>5

(* What is marked at the start of a candidate was observed on the remote.  *)
LEMMA VerifyKeeps == ASSUME IInv, Verify PROVE IInv'
<1> USE DEF IInv, TreeTyped, RecordsTyped, RemotesTyped, Verify, repo, remote
<1>1. CASE pc' = "gates"
  <2>1. /\ done' = [done EXCEPT ![cand] = @ \cup Observed]
        /\ cand' = cand /\ cand = head /\ head # 0 /\ cand \in Releases
        /\ status' = status
    BY <1>1, AlphaAssumption DEF FailClosed, Mark, candidate_files, CandidateIsHead
  <2>2. /\ Observed \subseteq {"tag", "gh"}
        /\ "tag" \in Observed => remoteTag[cand] # 0
        /\ "gh" \in Observed => cand \in ghReleases
    BY DEF Observed
  <2>3. /\ done' \in [Releases -> SUBSET Stages]
        /\ \A r \in Releases : r # cand => done'[r] = done[r]
        /\ done'[cand] = done[cand] \cup Observed
    BY <2>1, <2>2
  <2>4. TreeTyped' /\ RemotesTyped' /\ CandidateIsHead' /\ QueuedTagExists' /\ CandidateStages'
    BY <1>1, <2>1 DEF CandidateIsHead, QueuedTagExists, CandidateStages, Working, Published
  <2>5. RecordsTyped'
    BY <2>1, <2>3
  <2>6. StagesAreTrue'
    <3> SUFFICES ASSUME NEW r \in Releases
                 PROVE /\ "main" \in done'[r] => remoteMain >= r
                       /\ "tag" \in done'[r] => remoteTag[r] # 0
                       /\ "gh" \in done'[r] => r \in ghReleases
                       /\ "verified" \in done'[r] /\ r \in Boundary => \A g \in Registries : r \in registry[g]
      BY DEF StagesAreTrue
    <3> QED
      BY <2>2, <2>3 DEF StagesAreTrue
  <2>7. ReleaseHasTag' /\ ReleasedIsPublic' /\ TagsAreForTheirCommit'
    BY <2>1 DEF ReleaseHasTag, ReleasedIsPublic, TagsAreForTheirCommit
  <2> QED
    BY <2>4, <2>5, <2>6, <2>7
<1>2. CASE pc' # "gates"
  <2>1. pc' = "off" /\ status' = [status EXCEPT ![cand] = IF @ = "released" THEN @ ELSE "failed"]
    BY <1>2 DEF FailClosed, Upsert
  <2>2. done' = done
    BY <1>2
  <2>3. /\ status' \in [Releases -> {"none", "processing", "released", "failed", "retired"}]
        /\ \A r \in Releases : status'[r] = "released" => status[r] = "released"
    BY <2>1
  <2>4. TreeTyped' /\ RecordsTyped' /\ RemotesTyped' /\ QueuedTagExists'
    BY <2>1, <2>2, <2>3 DEF QueuedTagExists
  <2>5. CandidateIsHead' /\ CandidateStages'
    BY <2>1 DEF CandidateIsHead, CandidateStages, Working, Published
  <2>6. ReleaseHasTag' /\ StagesAreTrue' /\ ReleasedIsPublic' /\ TagsAreForTheirCommit'
    BY <2>2, <2>3 DEF ReleaseHasTag, StagesAreTrue, ReleasedIsPublic, TagsAreForTheirCommit
  <2> QED
    BY <2>4, <2>5, <2>6
<1> QED
  BY <1>1, <1>2

(* A task is queued for the candidate only, which is HEAD.                 *)
LEMMA EnqueueTyped ==
  ASSUME IInv, cand \in 1..head, NEW ref \in Refs, Enqueue(ref)
  PROVE  /\ task' \in [Releases -> [Refs -> {"none", "due", "waiting", "done"}]]
         /\ \A r \in Releases, f \in Refs : task'[r][f] # "none" => r <= head
         /\ \A r \in Releases, f \in Refs : r # cand \/ f # ref => task'[r][f] = task[r][f]
<1> USE DEF IInv, RecordsTyped, TreeTyped
<1>1. cand \in Releases
  BY AlphaAssumption
<1> DEFINE row == [task[cand] EXCEPT ![ref] = IF @ = "none" THEN "due" ELSE @]
<1>2. task' = [task EXCEPT ![cand] = row]
  BY DEF Enqueue
<1>3. row \in [Refs -> {"none", "due", "waiting", "done"}] /\ \A f \in Refs : f # ref => row[f] = task[cand][f]
  BY <1>1
<1>4. \A r \in Releases : task'[r] = IF r = cand THEN row ELSE task[r]
  BY <1>2
<1> HIDE DEF row
<1> QED
  BY <1>1, <1>2, <1>3, <1>4

LEMMA QueueMainKeeps == ASSUME IInv, QueueMain PROVE IInv'
<1> USE DEF IInv, QueueMain, Step, repo, remote
<1>1. cand \in 1..head
  BY DEF CandidateIsHead, Working, TreeTyped
<1>2. /\ task' \in [Releases -> [Refs -> {"none", "due", "waiting", "done"}]]
      /\ \A r \in Releases, f \in Refs : task'[r][f] # "none" => r <= head
      /\ \A r \in Releases : task'[r]["tag"] = task[r]["tag"]
  <2>1. CASE "main" \in done[cand]
    BY <2>1 DEF RecordsTyped
  <2>2. CASE "main" \notin done[cand]
    BY <2>2, <1>1, EnqueueTyped
  <2> QED
    BY <2>1, <2>2
<1>3. TreeTyped' /\ RecordsTyped' /\ RemotesTyped'
  BY <1>2 DEF TreeTyped, RecordsTyped, RemotesTyped
<1>4. CandidateIsHead' /\ QueuedTagExists' /\ CandidateStages'
  BY <1>2 DEF CandidateIsHead, QueuedTagExists, CandidateStages, Working, Published
<1>5. ReleaseHasTag' /\ StagesAreTrue' /\ ReleasedIsPublic' /\ TagsAreForTheirCommit'
  BY DEF ReleaseHasTag, StagesAreTrue, ReleasedIsPublic, TagsAreForTheirCommit
<1> QED
  BY <1>3, <1>4, <1>5

(* The candidate is HEAD, so the tag made at HEAD is for its commit; a task *)
(* is queued only with a tag in place.                                     *)
LEMMA TagKeeps == ASSUME IInv, Tag PROVE IInv'
<1> USE DEF IInv, Tag, remote
<1>1. cand = head /\ cand \in 1..head /\ cand \in Releases
  BY AlphaAssumption DEF CandidateIsHead, Working, TreeTyped
<1>2. /\ localTag' \in [Releases -> 0..MaxRelease]
      /\ \A r \in Releases : localTag'[r] \in {0, r}
      /\ \A r \in Releases : localTag[r] # 0 => localTag'[r] # 0
  BY <1>1, AlphaAssumption DEF RemotesTyped, TreeTyped, TagsAreForTheirCommit
<1>3. "tag" \notin done[cand] => localTag'[cand] # 0 \/ remoteTag[cand] # 0
  BY <1>1 DEF TagIsOurs, at_head, RemotesTyped, ReleaseHasTag, StagesAreTrue
<1>4. /\ task' \in [Releases -> [Refs -> {"none", "due", "waiting", "done"}]]
      /\ \A r \in Releases, f \in Refs : task'[r][f] # "none" => r <= head
      /\ \A r \in Releases : r # cand \/ "tag" \in done[cand] => task'[r]["tag"] = task[r]["tag"]
  <2>1. CASE "tag" \in done[cand]
    BY <2>1 DEF RecordsTyped
  <2>2. CASE "tag" \notin done[cand]
    BY <2>2, <1>1, EnqueueTyped
  <2> QED
    BY <2>1, <2>2
<1>5. TreeTyped' /\ RecordsTyped' /\ RemotesTyped'
  BY <1>2, <1>4 DEF TreeTyped, RecordsTyped, RemotesTyped
<1>6. QueuedTagExists'
  BY <1>1, <1>2, <1>3, <1>4 DEF QueuedTagExists
<1>7. CandidateIsHead' /\ CandidateStages'
  BY <1>1 DEF CandidateIsHead, CandidateStages, Working, Published
<1>8. ReleaseHasTag' /\ StagesAreTrue' /\ ReleasedIsPublic' /\ TagsAreForTheirCommit'
  BY <1>2 DEF ReleaseHasTag, StagesAreTrue, ReleasedIsPublic, TagsAreForTheirCommit
<1> QED
  BY <1>5, <1>6, <1>7, <1>8

(* The push queue records what is due, and nothing else.                   *)
LEMMA RecordTyped ==
  ASSUME IInv, NEW ref \in Refs, NEW ok \in SUBSET Due(ref), NEW marked \in SUBSET ok, NEW later, NEW rest,
         task' = SetTasks(ref, ok, later), done' = recorded(ref, marked, rest)
  PROVE  /\ task' \in [Releases -> [Refs -> {"none", "due", "waiting", "done"}]]
         /\ later \subseteq Due(ref) =>
               \A r \in Releases, f \in Refs : task'[r][f] # "none" => task[r][f] # "none"
         /\ done' \in [Releases -> SUBSET Stages]
         /\ \A r \in Releases : done'[r] = IF r \in marked THEN done[r] \cup {ref} ELSE done[r]
<1> USE DEF IInv, RecordsTyped
<1>2. done' \in [Releases -> SUBSET Stages] /\ \A r \in Releases : done'[r] = IF r \in marked THEN done[r] \cup {ref} ELSE done[r]
  BY DEF recorded
<1>3. \A r \in Releases, f \in Refs :
         /\ task'[r][f] \in {"none", "due", "waiting", "done"}
         /\ later \subseteq Due(ref) => (task'[r][f] # "none" => task[r][f] # "none")
  BY DEF SetTasks, Due
<1>4. task' \in [Releases -> [Refs -> {"none", "due", "waiting", "done"}]]
  BY <1>3 DEF SetTasks
<1> QED
  BY <1>2, <1>3, <1>4

(* A push of main brings HEAD to the remote, and every task is for a commit *)
(* up to HEAD.                                                             *)
LEMMA MainRecorded ==
  ASSUME IInv, pc \in {"push", "push_tag"}, pc' \in {"push", "push_tag", "cycle", "release", "off"},
         NEW ok \in SUBSET Due("main"), NEW marked \in SUBSET ok, NEW later \in SUBSET Due("main"), NEW rest,
         task' = SetTasks("main", ok, later), done' = recorded("main", marked, rest),
         remoteMain' \in {remoteMain, head}, marked # {} => remoteMain' = head,
         remoteTag' = remoteTag,
         UNCHANGED <<mode, cand, stop, queue, repo, ghReleases, registry, status>>,
         pc' \in Working => pc \in Working
  PROVE  IInv'
<1> USE DEF IInv, repo
<1>2. /\ task' \in [Releases -> [Refs -> {"none", "due", "waiting", "done"}]]
      /\ \A r \in Releases, f \in Refs : task'[r][f] # "none" => task[r][f] # "none"
      /\ done' \in [Releases -> SUBSET Stages]
      /\ \A r \in Releases : done'[r] = IF r \in marked THEN done[r] \cup {"main"} ELSE done[r]
  <2>1. "main" \in Refs
    OBVIOUS
  <2>2. /\ task' \in [Releases -> [Refs -> {"none", "due", "waiting", "done"}]]
        /\ later \subseteq Due("main") =>
              \A r \in Releases, f \in Refs : task'[r][f] # "none" => task[r][f] # "none"
        /\ done' \in [Releases -> SUBSET Stages]
        /\ \A r \in Releases : done'[r] = IF r \in marked THEN done[r] \cup {"main"} ELSE done[r]
    BY <2>1, RecordTyped, Zenon
  <2> QED
    BY <2>2
<1>3. \A r \in marked : r <= head
  BY DEF Due, RecordsTyped
<1>4. TreeTyped' /\ RecordsTyped' /\ RemotesTyped'
  <2>1. TreeTyped' /\ RemotesTyped'
    BY DEF TreeTyped, RemotesTyped
  <2>2. \A r \in Releases : done'[r] # {} => r <= head
    BY <1>2, <1>3 DEF RecordsTyped
  <2> QED
    BY <1>2, <2>1, <2>2 DEF RecordsTyped
<1>5. CandidateIsHead' /\ QueuedTagExists' /\ CandidateStages'
  BY <1>2 DEF CandidateIsHead, QueuedTagExists, CandidateStages, Working, Published
<1>6. StagesAreTrue'
  <2>1. \A r \in Releases : "main" \in done'[r] => remoteMain' >= r
    <3>1. ASSUME NEW r \in Releases, "main" \in done'[r] PROVE remoteMain' >= r
      <4>1. r <= head
        BY <1>2, <1>3, <3>1 DEF RecordsTyped
      <4>2. CASE r \in marked
        BY <4>1, <4>2 DEF TreeTyped
      <4>3. CASE r \notin marked
        <5>1. "main" \in done[r]
          BY <1>2, <3>1, <4>3
        <5> QED
          BY <4>1, <5>1, AlphaAssumption DEF StagesAreTrue, TreeTyped, RemotesTyped
      <4> QED
        BY <4>2, <4>3
    <3> QED
      BY <3>1
  <2>2. \A r \in Releases : \A s \in {"tag", "gh", "verified"} : s \in done'[r] => s \in done[r]
    BY <1>2
  <2> QED
    BY <2>1, <2>2 DEF StagesAreTrue
<1>7. ReleaseHasTag' /\ ReleasedIsPublic' /\ TagsAreForTheirCommit'
  BY DEF ReleaseHasTag, ReleasedIsPublic, TagsAreForTheirCommit
<1> QED
  BY <1>4, <1>5, <1>6, <1>7

(* A batch of tags records some of those that have arrived.                *)
LEMMA TagsRecorded ==
  ASSUME IInv, pc \in {"push", "push_tag"}, pc' \in {"push", "push_tag", "cycle", "release", "off"},
         NEW ok \in SUBSET Due("tag"), NEW marked \in SUBSET ok, NEW later \in SUBSET Due("tag"), NEW rest,
         task' = SetTasks("tag", ok, later), done' = recorded("tag", marked, rest),
         NEW arrived \in SUBSET Due("tag"), marked \subseteq arrived, Arrive(arrived),
         remoteMain' = remoteMain,
         UNCHANGED <<mode, cand, stop, queue, repo, ghReleases, registry, status>>,
         pc' \in Working => pc \in Working
  PROVE  IInv'
<1> USE DEF IInv, repo
<1>2. /\ task' \in [Releases -> [Refs -> {"none", "due", "waiting", "done"}]]
      /\ \A r \in Releases, f \in Refs : task'[r][f] # "none" => task[r][f] # "none"
      /\ done' \in [Releases -> SUBSET Stages]
      /\ \A r \in Releases : done'[r] = IF r \in marked THEN done[r] \cup {"tag"} ELSE done[r]
  <2>1. "tag" \in Refs
    OBVIOUS
  <2>2. /\ task' \in [Releases -> [Refs -> {"none", "due", "waiting", "done"}]]
        /\ later \subseteq Due("tag") =>
              \A r \in Releases, f \in Refs : task'[r][f] # "none" => task[r][f] # "none"
        /\ done' \in [Releases -> SUBSET Stages]
        /\ \A r \in Releases : done'[r] = IF r \in marked THEN done[r] \cup {"tag"} ELSE done[r]
    BY <2>1, RecordTyped, Zenon
  <2> QED
    BY <2>2
<1>3. \A r \in arrived : r \in Releases /\ r <= head /\ (localTag[r] # 0 \/ remoteTag[r] # 0)
  BY DEF Due, RecordsTyped, QueuedTagExists
<1>4. /\ remoteTag' \in [Releases -> 0..MaxRelease]
      /\ \A r \in Releases : remoteTag'[r] \in {0, r}
      /\ \A r \in Releases : remoteTag[r] # 0 => remoteTag'[r] # 0
      /\ \A r \in marked : remoteTag'[r] # 0
  BY <1>3 DEF Arrive, RemotesTyped, TagsAreForTheirCommit
<1>5. TreeTyped' /\ RecordsTyped' /\ RemotesTyped'
  <2>1. TreeTyped' /\ RemotesTyped'
    BY <1>4 DEF TreeTyped, RemotesTyped
  <2>2. \A r \in Releases : done'[r] # {} => r <= head
    BY <1>2, <1>3 DEF RecordsTyped
  <2> QED
    BY <1>2, <2>1, <2>2 DEF RecordsTyped
<1>6. CandidateIsHead' /\ QueuedTagExists' /\ CandidateStages'
  BY <1>2, <1>4 DEF CandidateIsHead, QueuedTagExists, CandidateStages, Working, Published
<1>7. StagesAreTrue'
  <2>1. \A r \in Releases : "tag" \in done'[r] => remoteTag'[r] # 0
    BY <1>2, <1>4 DEF StagesAreTrue
  <2>2. \A r \in Releases : \A s \in {"main", "gh", "verified"} : s \in done'[r] => s \in done[r]
    BY <1>2
  <2> QED
    BY <2>1, <2>2 DEF StagesAreTrue
<1>8. ReleaseHasTag' /\ ReleasedIsPublic' /\ TagsAreForTheirCommit'
  BY <1>4 DEF RemotesTyped, ReleaseHasTag, ReleasedIsPublic, TagsAreForTheirCommit
<1> QED
  BY <1>5, <1>6, <1>7, <1>8

LEMMA PushMainKeeps ==
  ASSUME IInv, NEW next \in {"cycle", "release"}, pc \in {"push", "push_tag"},
         pc = "push" => next = "cycle",
         PushMain \/ PushMainFails(next),
         UNCHANGED <<mode, cand, stop, queue, repo, ghReleases, registry, status>>
  PROVE  IInv'
<1>1. PICK ok \in SUBSET Due("main"), later \in SUBSET Due("main") :
         /\ Record("main", ok, later)
         /\ remoteMain' \in {remoteMain, head} /\ (ok # {} => remoteMain' = head)
         /\ remoteTag' = remoteTag /\ pc' \in {pc, next}
  <2>1. CASE PushMain
    BY <2>1 DEF PushMain
  <2>2. CASE PushMainFails(next)
    <3>1. PICK last \in Due("main"), before \in SUBSET Due("main") :
             /\ Record("main", before, {last})
             /\ remoteMain' \in IF before = {} THEN {remoteMain, head} ELSE {head}
      BY <2>2, Zenon DEF PushMainFails
    <3>2. {last} \in SUBSET Due("main") /\ before \in SUBSET Due("main")
      OBVIOUS
    <3> QED
      BY <2>2, <3>1, <3>2 DEF PushMainFails
  <2> QED
    BY <2>1, <2>2
<1>2. task' = SetTasks("main", ok, later) /\ done' = recorded("main", ok, later)
  BY <1>1 DEF Record
<1> QED
  BY <1>1, <1>2, MainRecorded DEF Working

LEMMA PushTagsKeeps ==
  ASSUME IInv, NEW next \in {"cycle", "release"}, pc \in {"push", "push_tag"},
         pc = "push" => next = "cycle",
         PushTags(next),
         UNCHANGED <<mode, cand, stop, queue, repo, ghReleases, registry, status>>
  PROVE  IInv'
<1>1. PICK arrived \in SUBSET Due("tag") :
         \E seen \in SUBSET arrived : Arrive(arrived) /\ Record("tag", seen, Due("tag") \ seen)
  BY Zenon DEF PushTags
<1>4. PICK seen \in SUBSET arrived : Arrive(arrived) /\ Record("tag", seen, Due("tag") \ seen)
  BY <1>1
<1>2. /\ task' = SetTasks("tag", seen, Due("tag") \ seen)
      /\ done' = recorded("tag", seen, Due("tag") \ seen)
      /\ pc' = next /\ remoteMain' = remoteMain
  BY <1>4 DEF Record, PushTags
<1>3. seen \in SUBSET Due("tag") /\ Due("tag") \ seen \in SUBSET Due("tag")
  OBVIOUS
<1>5. pc' \in Working => pc \in Working
  BY <1>2 DEF Working
<1> QED
  BY <1>2, <1>3, <1>4, <1>5, TagsRecorded

(* What is recorded before the process dies has arrived.                   *)
LEMMA DiesPushingKeeps == ASSUME IInv, NEW ref \in Refs, DiesPushing(ref) PROVE IInv'
<1> DEFINE Kept(arrived, written) ==
      /\ IF ref = "main"
         THEN remoteMain' = (IF arrived = {} THEN remoteMain ELSE head) /\ UNCHANGED remoteTag
         ELSE Arrive(arrived) /\ UNCHANGED remoteMain
      /\ \E half \in {{}} \cup {{r} : r \in written} :
            task' = SetTasks(ref, written, {}) /\ done' = recorded(ref, written \ half, {})
<1>6. PICK arrived \in SUBSET Due(ref) : \E written \in SUBSET arrived : Kept(arrived, written)
  BY Zenon DEF DiesPushing
<1>7. PICK written \in SUBSET arrived : Kept(arrived, written)
  BY <1>6
<1>1. PICK half \in {{}} \cup {{r} : r \in written} :
         /\ IF ref = "main"
            THEN remoteMain' = (IF arrived = {} THEN remoteMain ELSE head) /\ UNCHANGED remoteTag
            ELSE Arrive(arrived) /\ UNCHANGED remoteMain
         /\ task' = SetTasks(ref, written, {}) /\ done' = recorded(ref, written \ half, {})
  BY <1>7
<1> HIDE DEF Kept
<1>2. /\ pc \in {"push", "push_tag"} /\ pc' = "off"
      /\ UNCHANGED <<mode, cand, stop, queue, repo, ghReleases, registry, status>>
  BY DEF DiesPushing
<1>3. written \in SUBSET Due(ref) /\ written \ half \in SUBSET written /\ {} \in SUBSET Due(ref)
  OBVIOUS
<1>4. CASE ref = "main"
  BY <1>1, <1>2, <1>3, <1>4, MainRecorded DEF Working
<1>5. CASE ref = "tag"
  BY <1>1, <1>2, <1>3, <1>5, TagsRecorded DEF Working
<1> QED
  BY <1>4, <1>5

(* What arrives unrecorded only adds to the remote, and a release has its tag. *)
LEMMA DiesUnrecordedKeeps == ASSUME IInv, DiesUnrecorded PROVE IInv'
<1> USE DEF IInv, repo, db
<1>1. /\ pc' = "off"
      /\ UNCHANGED <<mode, cand, stop, queue, repo, remoteMain, remoteTag, db>>
  BY DEF DiesUnrecorded
<1>2. /\ \/ ghReleases' = ghReleases
         \/ pc = "release" /\ tag_pushed /\ ghReleases' = ghReleases \cup {cand}
      /\ \/ registry' = registry
         \/ \E g \in Registries : registry' = [registry EXCEPT ![g] = @ \cup {remoteMain}]
  BY DEF DiesUnrecorded
<1>3. /\ registry' \in [Registries -> SUBSET (0..MaxRelease)]
      /\ \A g \in Registries : registry[g] \subseteq registry'[g]
  <2>1. remoteMain \in 0..MaxRelease
    BY AlphaAssumption DEF RemotesTyped, TreeTyped
  <2> QED
    BY <1>2, <2>1 DEF RemotesTyped
<1>4. /\ ghReleases \subseteq ghReleases' /\ ghReleases' \subseteq Releases
      /\ \A r \in ghReleases' : remoteTag[r] # 0
  <2>1. pc = "release" => cand \in Releases
    BY AlphaAssumption DEF CandidateIsHead, Working, TreeTyped
  <2>2. pc = "release" /\ tag_pushed => remoteTag[cand] # 0
    BY <2>1 DEF tag_pushed, StagesAreTrue
  <2> QED
    BY <1>2, <2>1, <2>2 DEF RemotesTyped, ReleaseHasTag
<1>5. TreeTyped' /\ RecordsTyped' /\ RemotesTyped'
  BY <1>1, <1>3, <1>4 DEF TreeTyped, RecordsTyped, RemotesTyped
<1>6. CandidateIsHead' /\ QueuedTagExists' /\ CandidateStages'
  BY <1>1 DEF CandidateIsHead, QueuedTagExists, CandidateStages, Working, Published
<1>7. ReleaseHasTag' /\ StagesAreTrue' /\ ReleasedIsPublic' /\ TagsAreForTheirCommit'
  BY <1>1, <1>3, <1>4 DEF ReleaseHasTag, StagesAreTrue, ReleasedIsPublic, TagsAreForTheirCommit
<1> QED
  BY <1>5, <1>6, <1>7

LEMMA ProcessQueueKeeps == ASSUME IInv, ProcessQueue PROVE IInv'
<1>1. CASE pc = "push"
  BY <1>1, PushMainKeeps, PushTagsKeeps DEF ProcessQueue
<1>2. CASE pc = "push_tag"
  BY <1>2, PushMainKeeps, PushTagsKeeps DEF ProcessQueue
<1> QED
  BY <1>1, <1>2 DEF ProcessQueue

(* A stage marked for the candidate, which is HEAD.                        *)
LEMMA MarkTyped ==
  ASSUME IInv, pc \in Working, NEW stages \in SUBSET Stages, Mark(cand, stages)
  PROVE  /\ cand \in Releases /\ cand = head
         /\ done' \in [Releases -> SUBSET Stages]
         /\ \A r \in Releases : done'[r] # {} => r <= head
         /\ \A r \in Releases : done'[r] = IF r = cand THEN done[r] \cup stages ELSE done[r]
<1>1. cand \in Releases /\ cand = head
  BY AlphaAssumption DEF IInv, CandidateIsHead, TreeTyped
<1>2. done' = [done EXCEPT ![cand] = @ \cup stages] /\ done \in [Releases -> SUBSET Stages]
  BY DEF Mark, IInv, RecordsTyped
<1>3. \A r \in Releases : done'[r] = IF r = cand THEN done[r] \cup stages ELSE done[r]
  BY <1>2
<1>4. head <= head
  BY AlphaAssumption DEF IInv, TreeTyped
<1>5. \A r \in Releases : done'[r] # {} => r <= head
  BY <1>1, <1>3, <1>4, Zenon DEF IInv, RecordsTyped
<1> QED
  BY <1>1, <1>2, <1>3, <1>5

(* A candidate that fails leaves everything but its status as it was.      *)
LEMMA FailClosedKeeps ==
  ASSUME IInv, FailClosed, UNCHANGED <<mode, cand, queue, repo, remote, done, task>>
  PROVE  IInv'
<1> USE DEF IInv, FailClosed, repo, remote
<1>1. /\ status' \in [Releases -> {"none", "processing", "released", "failed", "retired"}]
      /\ \A r \in Releases : status'[r] = "released" => status[r] = "released"
  BY DEF RecordsTyped, Upsert
<1>2. TreeTyped' /\ RecordsTyped' /\ RemotesTyped'
  BY <1>1 DEF TreeTyped, RecordsTyped, RemotesTyped
<1>3. CandidateIsHead' /\ QueuedTagExists' /\ CandidateStages'
  BY DEF CandidateIsHead, QueuedTagExists, CandidateStages, Working, Published
<1>4. ReleaseHasTag' /\ StagesAreTrue' /\ ReleasedIsPublic' /\ TagsAreForTheirCommit'
  BY <1>1 DEF ReleaseHasTag, StagesAreTrue, ReleasedIsPublic, TagsAreForTheirCommit
<1> QED
  BY <1>2, <1>3, <1>4

(* The last check marks "verified" when both registries have the version.  *)
LEMMA VerifyRegistriesKeeps == ASSUME IInv, VerifyRegistries PROVE IInv'
<1> USE DEF VerifyRegistries
<1>1. CASE cand \in Boundary => versions_exist
  <2> USE DEF IInv, repo, remote
  <2>1. /\ cand \in Releases /\ cand = head
        /\ done' \in [Releases -> SUBSET Stages]
        /\ \A r \in Releases : done'[r] # {} => r <= head
        /\ \A r \in Releases : done'[r] = IF r = cand THEN done[r] \cup {"verified"} ELSE done[r]
    <3>1. pc \in Working /\ {"verified"} \in SUBSET Stages
      BY DEF Working
    <3> QED
      BY <1>1, <3>1, MarkTyped
  <2>2. TreeTyped' /\ RecordsTyped' /\ RemotesTyped'
    BY <1>1, <2>1 DEF TreeTyped, RecordsTyped, RemotesTyped
  <2>3. CandidateIsHead' /\ QueuedTagExists' /\ CandidateStages'
    BY <1>1, <2>1 DEF CandidateIsHead, QueuedTagExists, CandidateStages, Working, Published
  <2>4. StagesAreTrue'
    <3>1. \A r \in Releases : r \in Boundary /\ "verified" \in done'[r] => \A g \in Registries : r \in registry[g]
      BY <1>1, <2>1 DEF versions_exist, StagesAreTrue
    <3>2. \A r \in Releases : \A s \in {"main", "tag", "gh"} : s \in done'[r] => s \in done[r]
      BY <2>1
    <3> QED
      BY <3>1, <3>2 DEF StagesAreTrue
  <2>5. ReleaseHasTag' /\ ReleasedIsPublic' /\ TagsAreForTheirCommit'
    BY <1>1 DEF ReleaseHasTag, ReleasedIsPublic, TagsAreForTheirCommit
  <2> QED
    BY <2>2, <2>3, <2>4, <2>5
<1>2. CASE ~(cand \in Boundary => versions_exist)
  BY <1>2, FailClosedKeeps
<1> QED
  BY <1>1, <1>2

(* A GitHub Release is made after the tag is on the remote.                *)
LEMMA CreateReleaseKeeps == ASSUME IInv, CreateRelease PROVE IInv'
<1> USE DEF IInv, CreateRelease, Step, repo
<1>1. /\ cand \in Releases /\ cand = head
      /\ done' \in [Releases -> SUBSET Stages]
      /\ \A r \in Releases : done'[r] # {} => r <= head
      /\ \A r \in Releases : done'[r] = IF r = cand THEN done[r] \cup {"gh"} ELSE done[r]
  <2>1. pc \in Working /\ {"gh"} \in SUBSET Stages
    BY DEF Working
  <2> QED
    BY <2>1, MarkTyped
<1>2. remoteTag[cand] # 0
  BY <1>1 DEF tag_pushed, StagesAreTrue
<1>3. TreeTyped' /\ RecordsTyped'
  BY <1>1 DEF TreeTyped, RecordsTyped
<1>4. RemotesTyped'
  <2>1. ghReleases' \subseteq Releases
    BY <1>1 DEF RemotesTyped
  <2> QED
    BY <2>1 DEF RemotesTyped
<1>5. CandidateIsHead' /\ QueuedTagExists' /\ CandidateStages'
  BY <1>1 DEF CandidateIsHead, QueuedTagExists, CandidateStages, Working, Published
<1>6. ReleaseHasTag' /\ StagesAreTrue' /\ ReleasedIsPublic' /\ TagsAreForTheirCommit'
  BY <1>1, <1>2 DEF ReleaseHasTag, StagesAreTrue, ReleasedIsPublic, TagsAreForTheirCommit
<1> QED
  BY <1>3, <1>4, <1>5, <1>6

(* What a registry has it keeps, and a workflow that is done marks "pypi"   *)
(* or "npm", which StagesAreTrue does not rely on: the workflow may have    *)
(* built another version.                                                  *)
LEMMA PublishKeeps == ASSUME IInv, NEW g \in Registries, Publish(g) PROVE IInv'
<1> USE DEF IInv, Publish
<1>1. /\ pc \in {"publish_pypi", "publish_npm"}
      /\ pc' \in {"publish_npm", "registries", "off"}
  BY DEF Publishing, AlreadyPublished, Dispatch, After, FailClosed
<1>2. /\ registry' \in [Registries -> SUBSET (0..MaxRelease)]
      /\ \A h \in Registries : registry[h] \subseteq registry'[h]
  <2>1. remoteMain \in 0..MaxRelease
    BY AlphaAssumption DEF RemotesTyped, TreeTyped
  <2>2. registry' = registry \/ registry' = [registry EXCEPT ![g] = @ \cup {remoteMain}]
    BY DEF AlreadyPublished, Dispatch
  <2> QED
    BY <2>1, <2>2 DEF RemotesTyped
<1>3. done' = done \/ Mark(cand, {g})
  BY DEF AlreadyPublished, Dispatch
<1>4. /\ done' \in [Releases -> SUBSET Stages]
      /\ \A r \in Releases : done'[r] # {} => r <= head
      /\ \A r \in Releases : done[r] \subseteq done'[r] /\ done'[r] \subseteq done[r] \cup {"pypi", "npm"}
  <2>1. CASE done' = done
    BY <2>1 DEF RecordsTyped
  <2>2. CASE Mark(cand, {g})
    <3>1. pc \in Working /\ {g} \in SUBSET Stages
      BY <1>1 DEF Working
    <3> QED
      BY <2>2, <3>1, MarkTyped
  <2> QED
    BY <1>3, <2>1, <2>2
<1>5. status' = status \/ Upsert(cand, "failed")
  BY DEF AlreadyPublished, Dispatch, FailClosed
<1>6. /\ status' \in [Releases -> {"none", "processing", "released", "failed", "retired"}]
      /\ \A r \in Releases : status'[r] = "released" => status[r] = "released"
  BY <1>5 DEF RecordsTyped, Upsert
<1>7. TreeTyped' /\ RecordsTyped' /\ RemotesTyped'
  BY <1>1, <1>2, <1>4, <1>6 DEF TreeTyped, RecordsTyped, RemotesTyped, repo
<1>8. CandidateIsHead' /\ QueuedTagExists'
  BY <1>1 DEF CandidateIsHead, QueuedTagExists, Working, repo
<1>9. CandidateStages'
  <2>1. cand \in Releases /\ "gh" \in done[cand]
    BY <1>1, AlphaAssumption DEF CandidateIsHead, CandidateStages, Working, Published, TreeTyped
  <2> QED
    BY <1>1, <1>4, <2>1 DEF CandidateStages, Published
<1>10. StagesAreTrue'
  <2>1. \A r \in Releases : \A s \in {"main", "tag", "gh", "verified"} : s \in done'[r] => s \in done[r]
    BY <1>4
  <2> QED
    BY <1>2, <2>1 DEF StagesAreTrue
<1>11. ReleaseHasTag' /\ ReleasedIsPublic' /\ TagsAreForTheirCommit'
  BY <1>2, <1>6 DEF ReleaseHasTag, ReleasedIsPublic, TagsAreForTheirCommit, repo
<1> QED
  BY <1>7, <1>8, <1>9, <1>10, <1>11

(* A release is called released with its stages recorded, which are true.  *)
LEMMA FinishKeeps == ASSUME IInv, Finish PROVE IInv'
<1> USE DEF IInv, Finish, Step, repo, remote
<1>1. /\ cand \in Releases /\ "gh" \in done[cand] /\ "verified" \in done[cand]
  BY AlphaAssumption DEF CandidateIsHead, CandidateStages, Working, Published, TreeTyped
<1>2. /\ status' \in [Releases -> {"none", "processing", "released", "failed", "retired"}]
      /\ \A r \in Releases : status'[r] = "released" => status[r] = "released" \/ r = cand
  BY <1>1 DEF RecordsTyped, Upsert
<1>3. TreeTyped' /\ RecordsTyped' /\ RemotesTyped'
  BY <1>2 DEF TreeTyped, RecordsTyped, RemotesTyped
<1>4. CandidateIsHead' /\ QueuedTagExists' /\ CandidateStages'
  BY DEF CandidateIsHead, QueuedTagExists, CandidateStages, Working, Published
<1>5. ReleasedIsPublic'
  BY <1>1, <1>2 DEF ReleasedIsPublic, StagesAreTrue, ReleaseHasTag
<1>6. ReleaseHasTag' /\ StagesAreTrue' /\ TagsAreForTheirCommit'
  BY DEF ReleaseHasTag, StagesAreTrue, TagsAreForTheirCommit
<1> QED
  BY <1>3, <1>4, <1>5, <1>6

-----------------------------------------------------------------------------
LEMMA NextInvariant == IInv /\ [Next]_vars => IInv'
<1> SUFFICES ASSUME IInv, [Next]_vars PROVE IInv'
  OBVIOUS
<1> USE DEF IInv, TreeTyped, RecordsTyped, RemotesTyped, CandidateIsHead, QueuedTagExists,
            CandidateStages, ReleaseHasTag, StagesAreTrue, ReleasedIsPublic,
            TagsAreForTheirCommit, Working, Published, repo, remote, db
<1>1. CASE TakeCandidate
  BY <1>1, TakeCandidateKeeps
<1>2. CASE NoCandidate
  BY <1>2, SMTT(20) DEF NoCandidate, Step, Retired
<1>3. CASE BeginFinalize
  BY <1>3, BeginFinalizeKeeps
<1>4. CASE BuildArtifacts
  BY <1>4, BuildArtifactsKeeps
<1>5. CASE CommitPrep
  BY <1>5, AlphaAssumption, SMTT(20) DEF CommitPrep, Step
<1>6. CASE FinalizeFails
  BY <1>6, SMTT(20) DEF FinalizeFails
<1>7. CASE Prepare
  BY <1>7, AlphaAssumption, SMTT(20) DEF Prepare
<1>8. CASE Verify
  BY <1>8, VerifyKeeps
<1>9. CASE Gates
  BY <1>9, AlphaAssumption, SMTT(20) DEF Gates, Step, Mark
<1>10. CASE CandidateFails
  BY <1>10, FailClosedKeeps DEF CandidateFails
<1>11. CASE QueueMain
  BY <1>11, QueueMainKeeps
<1>12. CASE Tag
  BY <1>12, TagKeeps
<1>13. CASE ProcessQueue
  BY <1>13, ProcessQueueKeeps
<1>14. CASE TagPending
  BY <1>14, SMTT(20) DEF TagPending, Step
<1>15. CASE CreateRelease
  BY <1>15, CreateReleaseKeeps
<1>16. CASE CreateReleaseFails
  BY <1>16, AlphaAssumption, SMTT(20) DEF CreateReleaseFails, tag_pushed, FailClosed, Upsert
<1>17. CASE SkipRegistries
  BY <1>17, AlphaAssumption, SMTT(20) DEF SkipRegistries, Step, Mark
<1>18. CASE \E g \in Registries : Publish(g)
  BY <1>18, PublishKeeps
<1>19. CASE VerifyRegistries
  BY <1>19, VerifyRegistriesKeeps
<1>20. CASE Finish
  BY <1>20, FinishKeeps
<1>21. CASE Crash
  BY <1>21, SMTT(20) DEF Crash
<1>22. CASE Restart
  BY <1>22, SMTT(20) DEF Restart, Step
<1>23. CASE \E r \in Releases, ref \in Refs : CooldownEnds(r, ref)
  BY <1>23, SMTT(20) DEF CooldownEnds
<1>24. CASE UNCHANGED vars
  BY <1>24, SMTT(20) DEF vars
<1>25. CASE DiesUnrecorded
  BY <1>25, DiesUnrecordedKeeps
<1>26. CASE \E ref \in Refs : DiesPushing(ref)
  BY <1>26, DiesPushingKeeps
<1> HIDE DEF IInv
<1> QED
  BY <1>1, <1>2, <1>3, <1>4, <1>5, <1>6, <1>7, <1>8, <1>9, <1>10, <1>11, <1>12, <1>13, <1>14,
     <1>15, <1>16, <1>17, <1>18, <1>19, <1>20, <1>21, <1>22, <1>23, <1>24,
     <1>25, <1>26
  DEF Next, TrainStep

LEMMA Invariant == Spec => []IInv
<1> QED
  BY InitInvariant, NextInvariant, PTL DEF Spec

(* run_candidate(): what the database calls released is tagged, has its     *)
(* GitHub Release and, for a boundary release, is in both registries.       *)
THEOREM ReleasedStaysPublic == Spec => []ReleasedIsPublic
  BY Invariant, PTL DEF IInv

(* create_tag_and_release(): a tag names the commit that prepared its       *)
(* release, here and on the remote.                                        *)
THEOREM TagsNameTheirCommit == Spec => []TagsAreForTheirCommit
  BY Invariant, PTL DEF IInv

(* mark_stage() and update_git_push_task(): a recorded stage is true of the *)
(* remote, so a run that resumes may skip it.                              *)
THEOREM RecordedStagesAreTrue == Spec => []StagesAreTrue
  BY Invariant, PTL DEF IInv

-----------------------------------------------------------------------------
(* The stable train.                                                       *)

(* The least and the greatest of a set of versions.                        *)

\* Every set of naturals that is not empty has a least member.
LEMMA Least ==
    ASSUME NEW T, T \subseteq Nat, T # {}
    PROVE  \E x \in T : \A y \in T : x <= y
<1> DEFINE R == OpToRel(<, Nat)
<1>1. IsWellFoundedOn(R, Nat)
  BY NatLessThanWellFounded
<1>2. \A x, y \in Nat : <<x, y>> \in R <=> x < y
  BY DEF OpToRel
<1> HIDE DEF R
<1>3. PICK x \in T : \A y \in T : ~ (<<y, x>> \in R)
  BY <1>1, WFMin
<1>4. \A y \in T : x <= y
  <2> TAKE y \in T
  <2>1. x \in Nat /\ y \in Nat
    OBVIOUS
  <2>2. ~(y < x)
    BY <1>2, <1>3, <2>1
  <2>3. QED
    BY <2>1, <2>2
<1>5. QED
  BY <1>4

\* And with a bound it has a greatest: the bound less the least distance to it.
LEMMA Greatest ==
    ASSUME NEW M \in Nat, NEW T, T \subseteq 0..M, T # {}
    PROVE  \E x \in T : \A y \in T : x >= y
<1> DEFINE U == {n \in Nat : M - n \in T}
<1>1. U \subseteq Nat /\ U # {}
  <2>1. PICK t \in T : TRUE
    OBVIOUS
  <2>2. M - t \in Nat /\ M - (M - t) = t
    BY <2>1
  <2>3. QED
    BY <2>2
<1>2. PICK n \in U : \A k \in U : n <= k
  BY <1>1, Least
<1>3. M - n \in T
  OBVIOUS
<1>4. \A y \in T : M - y \in U /\ y \in 0..M
  OBVIOUS
<1>5. \A y \in T : M - n >= y
  <2> TAKE y \in T
  <2>1. y \in 0..M /\ n <= M - y /\ n \in Nat
    BY <1>2, <1>4
  <2>2. QED
    BY <2>1
<1>6. QED
  BY <1>3, <1>5

\* Max and Min choose a member.
LEMMA MaxMinIn ==
    ASSUME NEW M \in Nat, NEW T, T \subseteq 0..M, T # {}
    PROVE  Max(T) \in T /\ Min(T) \in T
<1>1. \E x \in T : \A y \in T : x >= y
  BY Greatest
<1>2. \E x \in T : \A y \in T : x <= y
  <2>1. T \subseteq Nat
    OBVIOUS
  <2>2. QED
    BY <2>1, Least
<1>3. QED
  BY <1>1, <1>2 DEF Max, Min

-----------------------------------------------------------------------------
(* Prefixes, element by element.                                           *)

LEMMA PrefixElements ==
    ASSUME NEW S, NEW s \in Seq(S), NEW t \in Seq(S)
    PROVE  IsPrefix(s, t) <=> Len(s) <= Len(t) /\ \A i \in 1..Len(s) : s[i] = t[i]
<1>1. ASSUME Len(s) <= Len(t)
      PROVE  (s = SubSeq(t, 1, Len(s))) <=> \A i \in 1..Len(s) : s[i] = t[i]
  <2> DEFINE u == SubSeq(t, 1, Len(s))
  <2>1. Len(s) \in Nat /\ Len(t) \in Nat
    OBVIOUS
  <2>2. \A i \in 1..Len(s) : t[i] \in S
    BY <1>1, <2>1
  <2>3. u \in Seq(S) /\ Len(u) = Len(s) /\ \A i \in 1..Len(s) : u[i] = t[i]
    BY <1>1, <2>1, <2>2
  <2> HIDE DEF u
  <2>4. u = s <=> \A i \in 1..Len(s) : u[i] = s[i]
    BY <2>3, SeqEqual
  <2>5. QED
    BY <2>3, <2>4 DEF u
<1>2. SubSeq(s, 1, Len(s)) = s
  BY SubSeqFull
<1>3. QED
  BY <1>1, <1>2 DEF IsPrefix

LEMMA PrefixFacts ==
    ASSUME NEW S, NEW r \in Seq(S), NEW s \in Seq(S), NEW t \in Seq(S), NEW e \in S
    PROVE  /\ IsPrefix(s, s)
           /\ IsPrefix(r, s) /\ IsPrefix(s, t) => IsPrefix(r, t)
           /\ IsPrefix(s, Append(s, e))
           /\ Append(s, e) \in Seq(S)
<1>1. IsPrefix(s, s)
  BY PrefixElements
<1>2. ASSUME IsPrefix(r, s), IsPrefix(s, t) PROVE IsPrefix(r, t)
  <2>1. Len(r) <= Len(s) /\ \A i \in 1..Len(r) : r[i] = s[i]
    BY <1>2, PrefixElements
  <2>2. Len(s) <= Len(t) /\ \A i \in 1..Len(s) : s[i] = t[i]
    BY <1>2, PrefixElements
  <2>3. Len(r) \in Nat /\ Len(s) \in Nat /\ Len(t) \in Nat
    OBVIOUS
  <2>4. Len(r) <= Len(t) /\ \A i \in 1..Len(r) : r[i] = t[i]
    BY <2>1, <2>2, <2>3
  <2>5. QED
    BY <2>4, PrefixElements
<1>3. IsPrefix(s, Append(s, e)) /\ Append(s, e) \in Seq(S)
  <2> DEFINE a == Append(s, e)
  <2>1. a \in Seq(S) /\ Len(a) = Len(s) + 1 /\ \A i \in 1..Len(s) : a[i] = s[i]
    OBVIOUS
  <2>2. Len(s) <= Len(a)
    BY <2>1
  <2> HIDE DEF a
  <2>3. IsPrefix(s, a)
    BY <2>1, <2>2, PrefixElements
  <2>4. QED
    BY <2>1, <2>3 DEF a
<1>4. QED
  BY <1>1, <1>2, <1>3

LEMMA HistoryOrder ==
    /\ \A s \in Commits : IsPrefix(s, s)
    /\ \A r, s, t \in Commits : IsPrefix(r, s) /\ IsPrefix(s, t) => IsPrefix(r, t)
    /\ \A s \in Commits : \A e \in Versions \cup {Work} :
          Append(s, e) \in Commits /\ IsPrefix(s, Append(s, e))
<1> DEFINE S == Versions \cup {Work}
<1>1. Work \in S /\ Commits = Seq(S)
  BY DEF Commits
<1> HIDE DEF S
<1>2. \A r, s, t \in Seq(S) : \A e \in S :
         /\ IsPrefix(s, s)
         /\ IsPrefix(r, s) /\ IsPrefix(s, t) => IsPrefix(r, t)
         /\ IsPrefix(s, Append(s, e)) /\ Append(s, e) \in Seq(S)
  BY PrefixFacts
<1>3. QED
  BY <1>1, <1>2 DEF S

-----------------------------------------------------------------------------
(* The inductive invariant.                                                *)

Tags(tags) == Tagged(tags) \subseteq Versions /\ \A v \in Tagged(tags) : tags[v] \in Commits

Typed ==
    /\ target \in Versions
    /\ local \in Commits /\ tracking \in Commits /\ origin \in Commits
    /\ Tags(localTag) /\ Tags(remoteTag)

\* A tag of GitHub is a commit of main whose push CI passed, and nothing is
\* published without a tag.
TagsPassed ==
    \A v \in Tagged(remoteTag) : remoteTag[v] \in passed /\ IsPrefix(remoteTag[v], origin)

PublishedTagged == npm \cup pypi \subseteq Tagged(remoteTag)

\* A version that is being prepared has no tag yet; from the push on its tag is
\* the head of the clone, which is on main once it is pushed, and has passed
\* the push CI when the tag goes out.
InHand ==
    /\ pc \in {"prepare", "commit", "tag"} => target \notin Tagged(localTag)
    /\ pc \in {"push", "ci", "push_tag"} => target \in Tagged(localTag) /\ localTag[target] = local
    /\ pc \in {"ci", "push_tag"} => IsPrefix(local, origin)
    /\ pc = "push_tag" => local \in passed

ReleaseInv == Typed /\ TagsPassed /\ PublishedTagged /\ InHand

\* The tags and the histories of an addition and of a removal.
LEMMA TagFacts ==
    ASSUME NEW tags, Tags(tags), NEW v \in Versions, NEW c \in Commits, NEW gone
    PROVE  /\ Tags(AddTag(tags, v, c)) /\ Tagged(AddTag(tags, v, c)) = Tagged(tags) \cup {v}
           /\ \A u \in Tagged(tags) : AddTag(tags, v, c)[u] = tags[u]
           /\ v \notin Tagged(tags) => AddTag(tags, v, c)[v] = c
           /\ Tags(DropTags(tags, gone))
  BY DEF Tags, AddTag, DropTags, Tagged

LEMMA ReleaseInit == StableInit => ReleaseInv
<1> SUFFICES ASSUME StableInit PROVE ReleaseInv
  OBVIOUS
<1>1. 0 \in Versions /\ <<>> \in Commits
  BY StableAssumption DEF Versions, Commits
<1>2. IsPrefix(<<>>, <<>>)
  BY <1>1, HistoryOrder
<1>3. QED
  BY <1>1, <1>2 DEF StableInit, ReleaseInv, Typed, Tags, Tagged, TagsPassed, PublishedTagged, InHand

\* What select_target() returns is a version.
LEMMA TargetIsVersion ==
    ASSUME Typed, NEW lost, NEW unseen \in BOOLEAN, NEW v \in Targets(lost, unseen)
    PROVE  v \in Versions
<1>1. MaxVersion \in Nat /\ Versions = 0..MaxVersion /\ Queue \subseteq Versions
  BY StableAssumption DEF Versions
<1>2. releases \subseteq 0..MaxVersion
  BY <1>1 DEF releases, Typed, Tags
<1>3. releases # {} => base \in Versions
  BY <1>1, <1>2, MaxMinIn DEF base
<1>4. queued(lost) # {} => Min(queued(lost)) \in Versions
  <2>1. queued(lost) \subseteq 0..MaxVersion
    BY <1>1 DEF queued
  <2>2. QED
    BY <1>1, <2>1, MaxMinIn
<1>5. generated # {} => Min(generated) \in Versions
  <2>1. generated \subseteq 0..MaxVersion
    BY <1>1 DEF generated
  <2>2. QED
    BY <1>1, <2>1, MaxMinIn
<1>6. QED
  BY <1>3, <1>4, <1>5 DEF Targets, Typed

LEMMA ReleaseStep == ReleaseInv /\ [StableNext]_svars => ReleaseInv'
<1> SUFFICES ASSUME ReleaseInv, [StableNext]_svars PROVE ReleaseInv'
  OBVIOUS
<1> USE DEF ReleaseInv
<1>a. Typed /\ TagsPassed /\ PublishedTagged /\ InHand
  OBVIOUS
<1>1. CASE Sync
  <2>1. /\ pc = "start" /\ pc' \in {"start", "reconcile"}
        /\ tracking' \in {tracking, origin} /\ local' \in {local, tracking'}
        /\ UNCHANGED <<target, origin, remoteTag, passed, npm, pypi>>
    BY <1>1 DEF Sync, github, ci, registries
  <2>2. Tags(localTag')
    BY <1>1, <1>a DEF Sync, Typed, Tags, Tagged
  <2>3. QED
    BY <1>a, <2>1, <2>2 DEF Typed, TagsPassed, PublishedTagged, InHand
<1>2. CASE Reconcile
  <2>1. PICK gone : localTag' = DropTags(localTag, gone)
    BY <1>2 DEF Reconcile
  <2>2. Tags(localTag')
    BY <1>a, <2>1, TagFacts DEF Typed
  <2>3. QED
    BY <1>2, <1>a, <2>2 DEF Reconcile, Step, github, ci, registries, Typed, TagsPassed,
       PublishedTagged, InHand
<1>3. CASE Select
  <2>0. PICK hidden \in SUBSET Queue, lost \in SUBSET {"base", "tag", "status"} :
           \E v \in Targets(hidden, "base" \in lost) :
              /\ target' = v
              /\ pc' = IF ~has_previous(v) \/ (v \notin Tagged(localTag) /\ ~real_work(v)) THEN "start"
                       ELSE IF v \notin Tagged(localTag) /\ ~remote_tag_exists(v, "tag" \in lost) THEN "prepare"
                       ELSE IF ~seen_complete(v, "status" \in lost) /\ v \in Tagged(localTag) /\ localTag[v] = local
                            THEN "push"
                       ELSE "recover"
    BY <1>3, Zenon DEF Select
  <2>1. PICK v \in Targets(hidden, "base" \in lost) :
           /\ target' = v
           /\ pc' = IF ~has_previous(v) \/ (v \notin Tagged(localTag) /\ ~real_work(v)) THEN "start"
                    ELSE IF v \notin Tagged(localTag) /\ ~remote_tag_exists(v, "tag" \in lost) THEN "prepare"
                    ELSE IF ~seen_complete(v, "status" \in lost) /\ v \in Tagged(localTag) /\ localTag[v] = local
                         THEN "push"
                    ELSE "recover"
    BY <2>0
  <2>2. target' \in Versions
    <3>1. ("base" \in lost) \in BOOLEAN
      OBVIOUS
    <3>2. v \in Versions
      BY <1>a, <3>1, TargetIsVersion, Zenon
    <3>3. QED
      BY <2>1, <3>2
  <2>3. /\ pc' = "prepare" => target' \notin Tagged(localTag)
        /\ pc' = "push" => target' \in Tagged(localTag) /\ localTag[target'] = local
        /\ pc' \in {"start", "prepare", "push", "recover"}
    BY <2>1
  <2>4. UNCHANGED <<local, tracking, localTag, origin, remoteTag, passed, npm, pypi>>
    BY <1>3 DEF Select, clone, github, ci, registries
  <2>5. QED
    BY <1>a, <2>2, <2>3, <2>4 DEF Typed, TagsPassed, PublishedTagged, InHand
<1>4. CASE UpdateVersions
  BY <1>4, <1>a DEF UpdateVersions, Step, clone, github, ci, delivery, registries, Typed, TagsPassed,
     PublishedTagged, InHand
<1>5. CASE Commit
  <2>1. local' \in Commits
    BY <1>5, <1>a, HistoryOrder DEF Commit, Step, Typed
  <2>2. QED
    BY <1>5, <1>a, <2>1 DEF Commit, Step, github, ci, registries, Typed, TagsPassed,
       PublishedTagged, InHand
<1>6. CASE TagHead
  <2>1. /\ Tags(localTag') /\ target \in Tagged(localTag') /\ localTag'[target] = local
    BY <1>6, <1>a, TagFacts DEF TagHead, Step, Typed, InHand
  <2>2. QED
    BY <1>6, <1>a, <2>1 DEF TagHead, Step, github, ci, registries, Typed, TagsPassed,
       PublishedTagged, InHand
<1>7. CASE PushToMain
  <2>1. CASE IsPrefix(origin, local)
    <3>1. \A v \in Tagged(remoteTag) : IsPrefix(remoteTag[v], local)
      BY <1>a, <2>1, HistoryOrder DEF Typed, Tags, TagsPassed
    <3>2. IsPrefix(local, local)
      BY <1>a, HistoryOrder DEF Typed
    <3>3. QED
      BY <1>7, <1>a, <2>1, <3>1, <3>2 DEF PushToMain, ci, registries, Typed, TagsPassed,
         PublishedTagged, InHand
  <2>2. CASE ~IsPrefix(origin, local)
    BY <1>7, <1>a, <2>2 DEF PushToMain, ci, registries, Typed, TagsPassed, PublishedTagged, InHand
  <2>3. QED
    BY <2>1, <2>2
<1>8. CASE WaitForCi
  BY <1>8, <1>a DEF WaitForCi, ci_passed, clone, github, ci, delivery, registries, Typed, TagsPassed,
     PublishedTagged, InHand
<1>9. CASE PushTag
  <2>1. /\ target \in Tagged(localTag) /\ localTag[target] = local
        /\ local \in passed /\ IsPrefix(local, origin)
    BY <1>9, <1>a DEF PushTag, InHand
  <2>2. /\ Tags(remoteTag') /\ Tagged(remoteTag') = Tagged(remoteTag) \cup {target}
        /\ \A u \in Tagged(remoteTag) : remoteTag'[u] = remoteTag[u]
        /\ target \notin Tagged(remoteTag) => remoteTag'[target] = local
    BY <1>9, <1>a, <2>1, TagFacts DEF PushTag, Typed
  <2>3. pc' \in {"dispatch", "start"}
    BY <1>9 DEF PushTag
  <2>4. UNCHANGED <<target, local, tracking, localTag, origin, passed, npm, pypi>>
    BY <1>9 DEF PushTag, clone, ci, registries
  <2>5. TagsPassed'
    BY <1>a, <2>1, <2>2, <2>4 DEF TagsPassed
  <2>6. QED
    BY <1>a, <2>2, <2>3, <2>4, <2>5 DEF Typed, PublishedTagged, InHand
<1>10. CASE DispatchCd
  BY <1>10, <1>a DEF DispatchCd, Step, clone, github, ci, delivery, registries, Typed, TagsPassed,
     PublishedTagged, InHand
<1>11. CASE WatchCd
  BY <1>11, <1>a DEF WatchCd, clone, github, ci, delivery, registries, Typed, TagsPassed,
     PublishedTagged, InHand
<1>12. CASE Sign
  BY <1>12, <1>a DEF Sign, Step, clone, github, ci, delivery, registries, Typed, TagsPassed,
     PublishedTagged, InHand
<1>13. CASE Recover
  BY <1>13, <1>a DEF Recover, Recoverable, clone, github, ci, delivery, registries, Typed, TagsPassed,
     PublishedTagged, InHand
<1>14. CASE CycleFails
  BY <1>14, <1>a DEF CycleFails, clone, github, ci, delivery, registries, Typed, TagsPassed,
     PublishedTagged, InHand
<1>15. CASE CiEnds
  BY <1>15, <1>a DEF CiEnds, clone, github, ci, delivery, registries, Typed, TagsPassed,
     PublishedTagged, InHand
<1>16. ASSUME NEW v \in Versions, ReleaseCd(v) PROVE ReleaseInv'
  <2>1. npm' \cup pypi' \subseteq npm \cup pypi \cup {v} /\ v \in Tagged(remoteTag)
    BY <1>16 DEF ReleaseCd
  <2>2. UNCHANGED <<pc, target, clone, github, ci>>
    BY <1>16 DEF ReleaseCd
  <2>3. QED
    BY <1>a, <2>1, <2>2 DEF clone, github, ci, Typed, TagsPassed, PublishedTagged, InHand
<1>17. CASE PushWork
  <2>1. origin' \in Commits /\ IsPrefix(origin, origin')
    BY <1>17, <1>a, HistoryOrder DEF PushWork, Typed
  <2>2. /\ \A v \in Tagged(remoteTag) : IsPrefix(remoteTag[v], origin')
        /\ IsPrefix(local, origin) => IsPrefix(local, origin')
    BY <1>a, <2>1, HistoryOrder DEF Typed, Tags, TagsPassed
  <2>3. QED
    BY <1>17, <1>a, <2>1, <2>2 DEF PushWork, clone, ci, registries, Typed, TagsPassed,
       PublishedTagged, InHand
<1>18. CASE Clean
  BY <1>18, <1>a DEF Clean, clone, github, ci, delivery, registries, Typed, TagsPassed,
     PublishedTagged, InHand
<1>19. CASE Repair
  BY <1>19, <1>a DEF Repair, github, ci, registries, Typed, TagsPassed, PublishedTagged, InHand
<1>20. CASE Abandon
  BY <1>20, <1>a DEF Abandon, clone, github, ci, delivery, registries, Typed, TagsPassed,
     PublishedTagged, InHand
<1>21. CASE UNCHANGED svars
  BY <1>21, <1>a DEF svars, clone, github, ci, delivery, registries, Typed, TagsPassed,
     PublishedTagged, InHand
<1>22. QED
  BY <1>1, <1>2, <1>3, <1>4, <1>5, <1>6, <1>7, <1>8, <1>9, <1>10, <1>11, <1>12, <1>13, <1>14,
     <1>15, <1>16, <1>17, <1>18, <1>19, <1>20, <1>21 DEF StableNext, StableStep

LEMMA ReleaseImplies == ReleaseInv => PublishedPassedCi
  BY DEF ReleaseInv, PublishedTagged, TagsPassed, PublishedPassedCi

\* What the registries have was built from a commit of main whose push CI passed.
THEOREM PublishedFromPassed == StableSpec => []PublishedPassedCi
<1>1. StableInit => ReleaseInv
  BY ReleaseInit
<1>2. ReleaseInv /\ [StableNext]_svars => ReleaseInv'
  BY ReleaseStep
<1>3. ReleaseInv => PublishedPassedCi
  BY ReleaseImplies
<1>4. QED
  BY <1>1, <1>2, <1>3, PTL DEF StableSpec

-----------------------------------------------------------------------------
(* Commits, element by element, and the work they carry.                   *)

\* IsPrefix on commits.
LEMMA Prefix ==
    /\ \A s, t \in Commits :
          /\ Len(s) \in Nat /\ Len(t) \in Nat
          /\ IsPrefix(s, t) <=> Len(s) <= Len(t) /\ \A i \in 1..Len(s) : s[i] = t[i]
          /\ IsPrefix(s, t) /\ Len(s) = Len(t) => s = t
    /\ \A s \in Commits : \A i \in 1..Len(s) : s[i] \in Versions \cup {Work}
    /\ \A s \in Commits : \A e \in Versions \cup {Work} :
          /\ Append(s, e) \in Commits /\ Len(Append(s, e)) = Len(s) + 1
          /\ Append(s, e)[Len(s) + 1] = e /\ \A i \in 1..Len(s) : Append(s, e)[i] = s[i]
<1> DEFINE S == Versions \cup {Work}
<1>1. Commits = Seq(S)
  BY DEF Commits
<1> HIDE DEF S
<1>2. \A s, t \in Seq(S) : IsPrefix(s, t) <=> Len(s) <= Len(t) /\ \A i \in 1..Len(s) : s[i] = t[i]
  BY PrefixElements
<1>3. ASSUME NEW s \in Seq(S), NEW t \in Seq(S), IsPrefix(s, t), Len(s) = Len(t) PROVE s = t
  BY <1>2, <1>3, SeqEqual
<1>4. \A s \in Seq(S) : Len(s) \in Nat /\ \A i \in 1..Len(s) : s[i] \in S
  OBVIOUS
<1>5. \A s \in Seq(S) : \A e \in S :
         /\ Append(s, e) \in Seq(S) /\ Len(Append(s, e)) = Len(s) + 1
         /\ Append(s, e)[Len(s) + 1] = e /\ \A i \in 1..Len(s) : Append(s, e)[i] = s[i]
  OBVIOUS
<1>6. QED
  BY <1>1, <1>2, <1>3, <1>4, <1>5 DEF S

\* A longer history has at least as much work, and more if it goes on with some.
LEMMA WorkCounts ==
    ASSUME NEW s \in Commits, NEW t \in Commits, IsPrefix(s, t)
    PROVE  /\ works(s) \in Nat /\ works(t) \in Nat /\ works(s) <= works(t)
           /\ (\E i \in Len(s) + 1..Len(t) : t[i] = Work) => works(s) < works(t)
<1> DEFINE A == {i \in 1..Len(s) : s[i] = Work}
           B == {i \in 1..Len(t) : t[i] = Work}
<1>1. Len(s) \in Nat /\ Len(t) \in Nat /\ Len(s) <= Len(t) /\ \A i \in 1..Len(s) : s[i] = t[i]
  BY Prefix
<1>2. A \subseteq B /\ B \subseteq 1..Len(t)
  BY <1>1
<1>3. IsFiniteSet(B)
  <2>1. IsFiniteSet(1..Len(t))
    BY <1>1, FS_Interval
  <2>2. QED
    BY <1>2, <2>1, FS_Subset
<1>4. IsFiniteSet(A) /\ Cardinality(A) <= Cardinality(B) /\ (Cardinality(A) = Cardinality(B) => A = B)
  BY <1>2, <1>3, FS_Subset
<1>5. Cardinality(A) \in Nat /\ Cardinality(B) \in Nat
  BY <1>3, <1>4, FS_CardinalityType
<1>6. works(s) = Cardinality(A) /\ works(t) = Cardinality(B)
  BY DEF works
<1>7. ASSUME NEW i \in Len(s) + 1..Len(t), t[i] = Work PROVE A # B
  <2>1. i \in B /\ i \notin A
    BY <1>1, <1>7
  <2>2. QED
    BY <2>1
<1> HIDE DEF A, B
<1>8. QED
  BY <1>4, <1>5, <1>6, <1>7

\* The longest common prefix of a history and an earlier one is the earlier one.
LEMMA CommonPrefix ==
    ASSUME NEW s \in Commits, NEW t \in Commits, IsPrefix(s, t)
    PROVE  Len(LongestCommonPrefix({s, t})) = Len(s)
<1> DEFINE P == CommonPrefixes({s, t})
<1>1. Len(s) \in Nat /\ SubSeq(s, 1, Len(s)) = s
  <2>1. s \in Seq(Versions \cup {Work})
    BY DEF Commits
  <2>2. QED
    BY <2>1, SubSeqFull
<1>2. s \in P
  <2>1. s \in Prefixes(s)
    <3>1. Len(s) \in 0..Len(s)
      BY <1>1
    <3>2. QED
      BY <1>1, <3>1, Zenon DEF Prefixes
  <2>2. IsPrefix(s, s)
    BY HistoryOrder
  <2>3. QED
    BY <2>1, <2>2 DEF CommonPrefixes
<1>3. \A p \in P : Len(p) <= Len(s)
  BY DEF CommonPrefixes, IsPrefix
<1>4. LongestCommonPrefix({s, t}) = CHOOSE p \in P : \A q \in P : Len(q) <= Len(p)
  BY DEF LongestCommonPrefix
<1> HIDE DEF P
<1>5. /\ LongestCommonPrefix({s, t}) \in P
      /\ \A q \in P : Len(q) <= Len(LongestCommonPrefix({s, t}))
  BY <1>2, <1>3, <1>4
<1> DEFINE l == LongestCommonPrefix({s, t})
<1>6. Len(l) \in Nat
  <2>1. PICK seq \in {s, t} : l \in Prefixes(seq)
    BY <1>5 DEF P, CommonPrefixes
  <2>2. seq \in Seq(Versions \cup {Work})
    BY DEF Commits
  <2>3. PICK n \in 0..Len(seq) : l = SubSeq(seq, 1, n)
    BY <2>1 DEF Prefixes
  <2> HIDE DEF l
  <2>4. Len(SubSeq(seq, 1, n)) = n
    BY <2>2, <2>3
  <2>5. QED
    BY <2>3, <2>4
<1> HIDE DEF l
<1>7. Len(l) <= Len(s) /\ Len(s) <= Len(l)
  BY <1>2, <1>3, <1>5 DEF l
<1>8. QED
  BY <1>1, <1>6, <1>7 DEF l

\* Max and Min are bounds.
LEMMA MaxMinBound ==
    ASSUME NEW M \in Nat, NEW T, T \subseteq 0..M, NEW y \in T
    PROVE  Min(T) <= y /\ y <= Max(T) /\ Min(T) \in T /\ Max(T) \in T
<1>1. \E x \in T : \A z \in T : x >= z
  BY Greatest
<1>2. \E x \in T : \A z \in T : x <= z
  <2>1. T \subseteq Nat
    OBVIOUS
  <2>2. QED
    BY <2>1, Least
<1>3. /\ Max(T) \in T /\ \A z \in T : Max(T) >= z
      /\ Min(T) \in T /\ \A z \in T : Min(T) <= z
  BY <1>1, <1>2 DEF Max, Min
<1>4. QED
  BY <1>3

-----------------------------------------------------------------------------
(* What the steps of the stable train do to commits and tags.              *)

Preparing == {"prepare", "commit", "tag"}
Pushing == {"push", "ci", "push_tag"}

\* The tags of a clone that fetches those of GitHub.
LEMMA SyncStep ==
    ASSUME Sync
    PROVE  /\ pc' \in {"start", "reconcile"}
           /\ UNCHANGED <<target, origin, remoteTag, abandoned>>
           /\ tracking' \in {tracking, origin}
           /\ local' = local \/ (IsPrefix(local, tracking') /\ local' = tracking')
           /\ Tagged(localTag) \subseteq Tagged(localTag')
           /\ Tagged(localTag') \subseteq Tagged(localTag) \cup Tagged(remoteTag)
           /\ \A v \in Tagged(localTag) : localTag'[v] = localTag[v]
           /\ \A v \in Tagged(localTag') \ Tagged(localTag) : localTag'[v] = remoteTag[v]
<1>1. /\ pc' \in {"start", "reconcile"}
      /\ UNCHANGED <<target, origin, remoteTag, abandoned>>
      /\ tracking' \in {tracking, origin}
      /\ local' = IF IsPrefix(local, tracking') THEN tracking' ELSE local
  BY DEF Sync, github
<1>2. \/ localTag' = localTag
      \/ localTag' = [v \in Tagged(localTag) \cup Tagged(remoteTag) |->
                         IF v \in Tagged(localTag) THEN localTag[v] ELSE remoteTag[v]]
  BY DEF Sync
<1>3. QED
  BY <1>1, <1>2 DEF Tagged

\* A tag that is dropped is that of an earlier commit.
LEMMA ReconcileStep ==
    ASSUME Reconcile
    PROVE  /\ pc' = "select"
           /\ UNCHANGED <<target, local, tracking, origin, remoteTag, abandoned>>
           /\ Tagged(localTag') \subseteq Tagged(localTag)
           /\ \A v \in Tagged(localTag') : localTag'[v] = localTag[v]
           /\ \A v \in Tagged(localTag) \ Tagged(localTag') : localTag[v] # local
<1>1. /\ pc' = "select"
      /\ UNCHANGED <<target, local, tracking, origin, remoteTag, abandoned>>
  BY DEF Reconcile, Step, github
<1>2. PICK lost \in SUBSET {"tag", "status"} :
         localTag' = DropTags(localTag, {v \in Tagged(localTag) : v = latest_stable /\ Superseded(v, lost)})
  BY DEF Reconcile
<1>3. \A v : Superseded(v, lost) => localTag[v] # local
  BY DEF Superseded
<1> DEFINE gone == {v \in Tagged(localTag) : v = latest_stable /\ Superseded(v, lost)}
<1>4. \A v \in gone : localTag[v] # local
  BY <1>3
<1> HIDE DEF gone
<1>5. localTag' = [u \in Tagged(localTag) \ gone |-> localTag[u]]
  BY <1>2 DEF DropTags, gone
<1>6. QED
  BY <1>1, <1>4, <1>5 DEF Tagged

\* The version taken up.
LEMMA SelectStep ==
    ASSUME Select
    PROVE  /\ UNCHANGED <<local, tracking, localTag, origin, remoteTag, abandoned>>
           /\ pc' \notin Preparing \cup Pushing \/ pc' \in {"prepare", "push"}
           /\ pc' \in {"prepare", "push"} =>
                  \E lost \in SUBSET Queue, unseen \in BOOLEAN :
               target' \in Targets(lost, unseen) /\ has_previous(target')
           /\ pc' = "prepare" => target' \notin Tagged(localTag) /\ real_work(target')
<1>1. UNCHANGED <<local, tracking, localTag, origin, remoteTag, abandoned>>
  BY DEF Select, clone, github
<1>0. PICK hidden \in SUBSET Queue, lost \in SUBSET {"base", "tag", "status"} :
         \E v \in Targets(hidden, "base" \in lost) :
            /\ target' = v
            /\ pc' = IF ~has_previous(v) \/ (v \notin Tagged(localTag) /\ ~real_work(v)) THEN "start"
                     ELSE IF v \notin Tagged(localTag) /\ ~remote_tag_exists(v, "tag" \in lost) THEN "prepare"
                     ELSE IF ~seen_complete(v, "status" \in lost) /\ v \in Tagged(localTag) /\ localTag[v] = local
                          THEN "push"
                     ELSE "recover"
  BY Zenon DEF Select
<1>2. PICK v \in Targets(hidden, "base" \in lost) :
         /\ target' = v
         /\ pc' = IF ~has_previous(v) \/ (v \notin Tagged(localTag) /\ ~real_work(v)) THEN "start"
                  ELSE IF v \notin Tagged(localTag) /\ ~remote_tag_exists(v, "tag" \in lost) THEN "prepare"
                  ELSE IF ~seen_complete(v, "status" \in lost) /\ v \in Tagged(localTag) /\ localTag[v] = local
                       THEN "push"
                  ELSE "recover"
  BY <1>0
<1>3. /\ pc' \in {"start", "prepare", "push", "recover"}
      /\ pc' \in {"prepare", "push"} => has_previous(v)
      /\ pc' = "prepare" => v \notin Tagged(localTag) /\ real_work(v)
  BY <1>2
<1>4. \E l \in SUBSET Queue, b \in BOOLEAN : v \in Targets(l, b)
  <2>1. ("base" \in lost) \in BOOLEAN
    OBVIOUS
  <2>2. QED
    BY <2>1, Zenon
<1>6. pc' \in {"prepare", "push"} =>
         \E l \in SUBSET Queue, b \in BOOLEAN : target' \in Targets(l, b) /\ has_previous(target')
  BY <1>2, <1>3, <1>4
<1>7. QED
  BY <1>1, <1>2, <1>3, <1>6 DEF Preparing, Pushing

\* A step that leaves histories, tags and the version in hand alone.
Quiet ==
    /\ UNCHANGED <<local, tracking, origin, localTag, remoteTag, abandoned>>
    /\ \/ pc' \notin Preparing \cup Pushing
       \/ pc' = pc /\ target' = target
       \/ pc = "prepare" /\ pc' = "commit" /\ target' = target
       \/ pc = "ci" /\ pc' = "push_tag" /\ target' = target

\* The steps that are not.
LEMMA StepKinds ==
    ASSUME [StableNext]_svars
    PROVE  \/ Sync \/ Reconcile \/ Select \/ Commit \/ TagHead \/ PushToMain \/ PushTag
           \/ PushWork \/ Repair \/ Abandon \/ Quiet
<1> USE DEF Preparing, Pushing, Quiet
<1>1. UpdateVersions => Quiet
  BY DEF UpdateVersions, Step, github
<1>2. WaitForCi => Quiet
  BY DEF WaitForCi, clone, github
<1>3. DispatchCd => Quiet
  BY DEF DispatchCd, Step, clone, github
<1>4. WatchCd => Quiet
  BY DEF WatchCd, clone, github
<1>5. Sign => Quiet
  BY DEF Sign, Step, clone, github
<1>6. Recover => Quiet
  BY DEF Recover, clone, github
<1>7. CycleFails => Quiet
  BY DEF CycleFails, clone, github
<1>8. CiEnds => Quiet
  BY DEF CiEnds, clone, github
<1>9. ASSUME NEW v, ReleaseCd(v) PROVE Quiet
  BY <1>9 DEF ReleaseCd, clone, github
<1>10. Clean => Quiet
  BY DEF Clean, github
<1>11. UNCHANGED svars => Quiet
  BY DEF svars, clone, github
<1>12. QED
  BY <1>1, <1>2, <1>3, <1>4, <1>5, <1>6, <1>7, <1>8, <1>9, <1>10, <1>11 DEF StableNext, StableStep

\* What each of the others changes.
LEMMA OtherSteps ==
    ASSUME Typed, InHand
    PROVE  /\ Commit => /\ pc = "commit" /\ pc' = "tag" /\ local' = Append(local, target)
                        /\ UNCHANGED <<target, tracking, localTag, origin, remoteTag, abandoned>>
           /\ TagHead => /\ pc = "tag" /\ pc' = "push" /\ target \notin Tagged(localTag)
                         /\ Tagged(localTag') = Tagged(localTag) \cup {target}
                         /\ \A v \in Tagged(localTag) : localTag'[v] = localTag[v]
                         /\ localTag'[target] = local
                         /\ UNCHANGED <<target, local, tracking, origin, remoteTag, abandoned>>
           /\ PushToMain => /\ pc = "push" /\ pc' \in {"ci", "start"}
                            /\ \/ origin' = local /\ tracking' = local /\ IsPrefix(origin, local)
                               \/ UNCHANGED <<origin, tracking>>
                            /\ UNCHANGED <<target, local, localTag, remoteTag, abandoned>>
           /\ PushTag => /\ pc = "push_tag" /\ pc' \in {"dispatch", "start"}
                         /\ target \in Tagged(localTag) /\ localTag[target] = local
                         /\ IsPrefix(local, origin)
                         /\ Tagged(remoteTag') = Tagged(remoteTag) \cup {target}
                         /\ \A v \in Tagged(remoteTag) : remoteTag'[v] = remoteTag[v]
                         /\ target \notin Tagged(remoteTag) => remoteTag'[target] = local
                         /\ UNCHANGED <<target, local, tracking, localTag, origin, abandoned>>
           /\ PushWork => /\ origin' = Append(origin, Work)
                          /\ UNCHANGED <<pc, target, local, tracking, localTag, remoteTag, abandoned>>
           /\ Repair => /\ pc = "start" /\ pc' = "start"
                        /\ local' = origin /\ tracking' = origin /\ localTag' = remoteTag
                        /\ UNCHANGED <<target, origin, remoteTag, abandoned>>
           /\ Abandon => /\ pc = "start" /\ pc' = "start"
                         /\ base \in Tagged(remoteTag) /\ base # 0
                         /\ abandoned' = abandoned \cup {base}
                         /\ UNCHANGED <<target, local, tracking, localTag, origin, remoteTag>>
<1>1. ASSUME Commit
      PROVE  /\ pc = "commit" /\ pc' = "tag" /\ local' = Append(local, target)
             /\ UNCHANGED <<target, tracking, localTag, origin, remoteTag, abandoned>>
  BY <1>1 DEF Commit, Step, github
<1>2. ASSUME TagHead
      PROVE  /\ pc = "tag" /\ pc' = "push" /\ target \notin Tagged(localTag)
             /\ Tagged(localTag') = Tagged(localTag) \cup {target}
             /\ \A v \in Tagged(localTag) : localTag'[v] = localTag[v]
             /\ localTag'[target] = local
             /\ UNCHANGED <<target, local, tracking, origin, remoteTag, abandoned>>
  BY <1>2, TagFacts DEF TagHead, Step, github, Typed, InHand
<1>3. ASSUME PushToMain
      PROVE  /\ pc = "push" /\ pc' \in {"ci", "start"}
             /\ \/ origin' = local /\ tracking' = local /\ IsPrefix(origin, local)
                \/ UNCHANGED <<origin, tracking>>
             /\ UNCHANGED <<target, local, localTag, remoteTag, abandoned>>
  BY <1>3 DEF PushToMain
<1>4. ASSUME PushTag
      PROVE  /\ pc = "push_tag" /\ pc' \in {"dispatch", "start"}
             /\ target \in Tagged(localTag) /\ localTag[target] = local
             /\ IsPrefix(local, origin)
             /\ Tagged(remoteTag') = Tagged(remoteTag) \cup {target}
             /\ \A v \in Tagged(remoteTag) : remoteTag'[v] = remoteTag[v]
             /\ target \notin Tagged(remoteTag) => remoteTag'[target] = local
             /\ UNCHANGED <<target, local, tracking, localTag, origin, abandoned>>
  BY <1>4, TagFacts DEF PushTag, clone, InHand, Typed
<1>5. ASSUME PushWork
      PROVE  /\ origin' = Append(origin, Work)
             /\ UNCHANGED <<pc, target, local, tracking, localTag, remoteTag, abandoned>>
  BY <1>5 DEF PushWork, clone
<1>6. ASSUME Repair
      PROVE  /\ pc = "start" /\ pc' = "start"
             /\ local' = origin /\ tracking' = origin /\ localTag' = remoteTag
             /\ UNCHANGED <<target, origin, remoteTag, abandoned>>
  BY <1>6 DEF Repair, github
<1>7. ASSUME Abandon
      PROVE  /\ pc = "start" /\ pc' = "start"
             /\ base \in Tagged(remoteTag) /\ base # 0
             /\ abandoned' = abandoned \cup {base}
             /\ UNCHANGED <<target, local, tracking, localTag, origin, remoteTag>>
  BY <1>7 DEF Abandon, clone, github
<1>8. QED
  BY <1>1, <1>2, <1>3, <1>4, <1>5, <1>6, <1>7

-----------------------------------------------------------------------------
(* The invariant behind TagHasRealWork.                                    *)

\* The clone is never behind a tag, and only a tag that main has left behind can
\* be missing in it.
ClonePassesTags ==
    /\ \A v \in Tagged(remoteTag) : IsPrefix(remoteTag[v], local)
    /\ \A v \in Tagged(localTag) : IsPrefix(localTag[v], local)
    /\ \A v \in Tagged(localTag) \cap Tagged(remoteTag) : IsPrefix(remoteTag[v], localTag[v])
    /\ \A v \in Tagged(remoteTag) \ Tagged(localTag) : Len(remoteTag[v]) < Len(local)

\* A tag is on the commit that prepares its version.
PreparesItsVersion(tags) ==
    \A v \in Tagged(tags) \ {0} : Len(tags[v]) > 0 /\ tags[v][Len(tags[v])] = v

TagsPrepared ==
    /\ PreparesItsVersion(localTag) /\ PreparesItsVersion(remoteTag)
    /\ pc = "tag" => Len(local) > 0 /\ local[Len(local)] = target
    /\ 0 \in Tagged(remoteTag) /\ 0 \notin abandoned /\ abandoned \subseteq Tagged(remoteTag)

\* A version is not taken up under a higher one that GitHub does not have.
TargetOnTop ==
    pc \in Preparing \cup Pushing =>
        /\ target # 0
        /\ \A w \in Tagged(localTag) : w > target => \E b \in Tagged(remoteTag) : b > target

\* The queue is worked off from its lowest version on.
QueueInTurn ==
    \A y \in Queue :
        /\ \A w \in Tagged(localTag) \cup Tagged(remoteTag) :
               w > y => y \in Tagged(remoteTag) \cup abandoned
        /\ pc \in Preparing /\ target > y => y \in Tagged(remoteTag) \cup abandoned

\* Where main and the clone part, others have gone on with work there, and the
\* train with a version here.
PartWithWork ==
    /\ IsPrefix(tracking, origin)
    /\ IsPrefix(local, origin) => \A i \in Len(local) + 1..Len(origin) : origin[i] = Work
    /\ IsPrefix(origin, local) /\ Len(origin) < Len(local) => local[Len(origin) + 1] # Work

\* The tags of the clone are in order with those of GitHub.
CloneInOrder ==
    InOrder => \A u \in Tagged(remoteTag), w \in Tagged(localTag) :
                   u <= w => IsPrefix(remoteTag[u], localTag[w])

\* A history goes on after the tag of u with work, or a version was cut again in it.
GoesOn(history, u) ==
    Len(history) > Len(remoteTag[u]) =>
        history[Len(remoteTag[u]) + 1] = Work \/ CutAgain(history)

WorkFollows ==
    InOrder =>
        /\ \A u \in Tagged(remoteTag) \ abandoned : GoesOn(local, u) /\ GoesOn(origin, u)
        /\ pc \in {"prepare", "commit"} =>
               \A u \in Tagged(remoteTag) \ abandoned :
                   local = remoteTag[u] => target \in Tagged(remoteTag) \/ CutAgain(local)

\* A history has more work than the tag of u, or a version was cut again in it.
HasWork(history, u) == works(remoteTag[u]) < works(history) \/ CutAgain(history)

Below(v) == {u \in Tagged(remoteTag) \ abandoned : u < v}

TagsHaveWork ==
    InOrder =>
        /\ pc \in Preparing /\ target \notin Tagged(remoteTag) =>
               \A u \in Below(target) : HasWork(local, u)
        /\ \A x \in Tagged(localTag) \ Tagged(remoteTag) : \A u \in Below(x) : HasWork(localTag[x], u)
        /\ \A x \in Tagged(remoteTag) : \A u \in Below(x) : HasWork(remoteTag[x], u)

TagInv ==
    /\ ReleaseInv
    /\ ClonePassesTags /\ TagsPrepared /\ TargetOnTop /\ QueueInTurn
    /\ PartWithWork /\ CloneInOrder /\ WorkFollows /\ TagsHaveWork

\* The train starts from version 0, tagged on the empty history everywhere.
LEMMA TagInit == StableInit => TagInv
<1> SUFFICES ASSUME StableInit PROVE TagInv
  OBVIOUS
<1>1. ReleaseInv
  BY ReleaseInit
<1>2. /\ pc = "start" /\ local = <<>> /\ tracking = <<>> /\ origin = <<>> /\ abandoned = {}
      /\ Tagged(localTag) = {0} /\ localTag[0] = <<>>
      /\ Tagged(remoteTag) = {0} /\ remoteTag[0] = <<>>
  BY DEF StableInit, Tagged
<1>3. <<>> \in Commits /\ IsPrefix(<<>>, <<>>) /\ Len(<<>>) = 0
  <2>1. <<>> \in Commits
    BY DEF Commits
  <2>2. QED
    BY <2>1, HistoryOrder
<1>4. Queue \subseteq Nat \ {0}
  BY StableAssumption
<1>5. ClonePassesTags /\ TagsPrepared /\ TargetOnTop /\ PartWithWork /\ CloneInOrder
  BY <1>2, <1>3 DEF ClonePassesTags, TagsPrepared, PreparesItsVersion, TargetOnTop, Preparing, Pushing,
     PartWithWork, CloneInOrder
<1>6. QueueInTurn
  BY <1>2, <1>4 DEF QueueInTurn, Preparing
<1>7. WorkFollows /\ TagsHaveWork
  BY <1>2, <1>3 DEF WorkFollows, GoesOn, TagsHaveWork, Below, Preparing
<1>8. QED
  BY <1>1, <1>5, <1>6, <1>7 DEF TagInv

\* The commits and versions at hand.
LEMMA TypedFacts ==
    ASSUME Typed
    PROVE  /\ target \in Versions /\ local \in Commits /\ tracking \in Commits /\ origin \in Commits
           /\ \A v \in Tagged(localTag) : v \in Versions /\ localTag[v] \in Commits
           /\ \A v \in Tagged(remoteTag) : v \in Versions /\ remoteTag[v] \in Commits
           /\ Versions \subseteq Nat /\ Work \notin Versions /\ Queue \subseteq Nat \ {0}
BY StableAssumption DEF Typed, Tags, Versions

\* The clone only grows, or goes back to GitHub's main, which has every tag.
LEMMA ClonePassesTagsKept == TagInv /\ [StableNext]_svars => ClonePassesTags'
<1> SUFFICES ASSUME TagInv, [StableNext]_svars PROVE ClonePassesTags'
  OBVIOUS
<1>a. Typed /\ InHand /\ TagsPassed /\ ClonePassesTags
  BY DEF TagInv, ReleaseInv
<1>b. Typed'
  BY ReleaseStep DEF TagInv, ReleaseInv
<1>t. /\ local \in Commits /\ origin \in Commits /\ target \in Versions
      /\ \A v \in Tagged(localTag) : localTag[v] \in Commits
      /\ \A v \in Tagged(remoteTag) : remoteTag[v] \in Commits
  BY <1>a, TypedFacts
<1>u. /\ local' \in Commits /\ tracking' \in Commits
      /\ \A v \in Tagged(localTag') : localTag'[v] \in Commits
  BY <1>b DEF Typed, Tags
<1>o. /\ \A s \in Commits : IsPrefix(s, s)
      /\ \A r, s, t \in Commits : IsPrefix(r, s) /\ IsPrefix(s, t) => IsPrefix(r, t)
      /\ \A s, t \in Commits : IsPrefix(s, t) =>
            Len(s) \in Nat /\ Len(t) \in Nat /\ Len(s) <= Len(t) /\ (Len(s) = Len(t) => s = t)
  BY HistoryOrder, Prefix
<1>1. ASSUME IsPrefix(local, local'), UNCHANGED <<localTag, remoteTag>> PROVE ClonePassesTags'
  BY <1>1, <1>a, <1>t, <1>u, <1>o DEF ClonePassesTags
<1>2. CASE Sync
  <2>1. IsPrefix(local, local')
    BY <1>2, <1>t, <1>o, SyncStep
  <2>2. QED
    BY <1>2, <1>a, <1>t, <1>u, <1>o, <2>1, SyncStep DEF ClonePassesTags
<1>3. CASE Reconcile
  BY <1>3, <1>a, <1>t, <1>o, ReconcileStep DEF ClonePassesTags
<1>4. CASE Commit
  <2>1. IsPrefix(local, local') /\ UNCHANGED <<localTag, remoteTag>>
    BY <1>4, <1>a, <1>t, OtherSteps, HistoryOrder
  <2>2. QED
    BY <1>1, <2>1
<1>5. CASE TagHead
  <2>1. /\ Tagged(localTag') = Tagged(localTag) \cup {target} /\ target \notin Tagged(localTag)
        /\ \A v \in Tagged(localTag) : localTag'[v] = localTag[v]
        /\ localTag'[target] = local
        /\ UNCHANGED <<local, remoteTag>>
    BY <1>5, <1>a, OtherSteps
  <2>2. QED
    BY <2>1, <1>a, <1>t, <1>o DEF ClonePassesTags
<1>6. CASE PushTag
  <2>1. /\ target \in Tagged(localTag) /\ localTag[target] = local
        /\ Tagged(remoteTag') = Tagged(remoteTag) \cup {target}
        /\ \A v \in Tagged(remoteTag) : remoteTag'[v] = remoteTag[v]
        /\ target \notin Tagged(remoteTag) => remoteTag'[target] = local
        /\ UNCHANGED <<local, localTag>>
    BY <1>6, <1>a, OtherSteps
  <2>2. QED
    BY <2>1, <1>a, <1>t, <1>o DEF ClonePassesTags
<1>7. CASE Repair
  BY <1>7, <1>a, <1>t, <1>o, OtherSteps DEF ClonePassesTags, TagsPassed
<1>8. CASE Select \/ PushToMain \/ PushWork \/ Abandon \/ Quiet
  <2>1. UNCHANGED <<local, localTag, remoteTag>>
    BY <1>8, <1>a, OtherSteps, SelectStep DEF Quiet
  <2>2. QED
    BY <2>1, <1>1, <1>t, <1>o
<1>9. QED
  BY <1>2, <1>3, <1>4, <1>5, <1>6, <1>7, <1>8, StepKinds

\* GitHub gets a tag above all of the clone and its own, unless versions are out of order.
LEMMA PushedOnTop ==
    ASSUME TagInv, PushTag, target \notin Tagged(remoteTag), InOrder'
    PROVE  /\ \A b \in Tagged(remoteTag) : b < target
           /\ \A w \in Tagged(localTag) : w <= target
<1>a. Typed /\ InHand /\ ClonePassesTags /\ TagsPrepared /\ TargetOnTop
  BY DEF TagInv, ReleaseInv
<1>1. /\ pc = "push_tag" /\ target \in Tagged(localTag) /\ localTag[target] = local
      /\ Tagged(remoteTag') = Tagged(remoteTag) \cup {target}
      /\ \A v \in Tagged(remoteTag) : remoteTag'[v] = remoteTag[v]
      /\ remoteTag'[target] = local
  BY <1>a, OtherSteps
<1>2. /\ target \in Nat /\ local \in Commits
      /\ \A v \in Tagged(localTag) : v \in Nat
      /\ \A v \in Tagged(remoteTag) : v \in Nat /\ remoteTag[v] \in Commits
  BY <1>a, TypedFacts
<1>3. target # 0 /\ Len(local) > 0 /\ local[Len(local)] = target
  BY <1>1, <1>a DEF TargetOnTop, Pushing, TagsPrepared, PreparesItsVersion
<1>4. ASSUME NEW b \in Tagged(remoteTag), b > target PROVE FALSE
  <2>1. IsPrefix(local, remoteTag[b]) /\ IsPrefix(remoteTag[b], local)
    BY <1>1, <1>4, <1>a DEF InOrder, ClonePassesTags
  <2>2. local = remoteTag[b]
    <3>1. /\ Len(local) \in Nat /\ Len(remoteTag[b]) \in Nat
          /\ Len(local) <= Len(remoteTag[b]) /\ Len(remoteTag[b]) <= Len(local)
      BY <1>2, <2>1, Prefix
    <3>2. QED
      BY <1>2, <2>1, <3>1, Prefix
  <2>3. b # 0 /\ remoteTag[b][Len(remoteTag[b])] = b
    BY <1>2, <1>4, <1>a DEF TagsPrepared, PreparesItsVersion
  <2>4. QED
    BY <1>2, <1>3, <1>4, <2>2, <2>3
<1>5. \A b \in Tagged(remoteTag) : b < target
  BY <1>2, <1>4
<1>6. ASSUME NEW w \in Tagged(localTag), w > target PROVE FALSE
  BY <1>1, <1>4, <1>6, <1>a DEF TargetOnTop, Pushing
<1>7. QED
  BY <1>2, <1>5, <1>6

\* The tag step follows the commit step, and others leave tags where they are.
LEMMA TagsPreparedKept == TagInv /\ [StableNext]_svars => TagsPrepared'
<1> SUFFICES ASSUME TagInv, [StableNext]_svars PROVE TagsPrepared'
  OBVIOUS
<1>a. Typed /\ InHand /\ TagsPrepared /\ TargetOnTop
  BY DEF TagInv, ReleaseInv
<1>t. /\ local \in Commits /\ target \in Versions
      /\ Preparing = {"prepare", "commit", "tag"} /\ Pushing = {"push", "ci", "push_tag"}
  BY <1>a, TypedFacts DEF Preparing, Pushing
<1>1. CASE Sync
  BY <1>1, <1>a, SyncStep DEF TagsPrepared, PreparesItsVersion
<1>2. CASE Reconcile
  BY <1>2, <1>a, ReconcileStep DEF TagsPrepared, PreparesItsVersion
<1>3. CASE Commit
  <2>1. Len(local') > 0 /\ local'[Len(local')] = target
    <3>1. /\ Len(local) \in Nat /\ Len(Append(local, target)) = Len(local) + 1
          /\ Append(local, target)[Len(local) + 1] = target
      BY <1>t, Prefix
    <3>2. local' = Append(local, target)
      BY <1>3, <1>a, OtherSteps
    <3>3. QED
      BY <3>1, <3>2
  <2>2. UNCHANGED <<target, localTag, remoteTag, abandoned>>
    BY <1>3, <1>a, OtherSteps
  <2>3. QED
    BY <2>1, <2>2, <1>a DEF TagsPrepared, PreparesItsVersion
<1>4. CASE TagHead
  <2>1. Len(local) > 0 /\ local[Len(local)] = target
    BY <1>4, <1>a, OtherSteps DEF TagsPrepared
  <2>2. QED
    BY <1>4, <1>a, <2>1, OtherSteps DEF TagsPrepared, PreparesItsVersion
<1>5. CASE PushTag
  <2>1. target # 0
    BY <1>5, <1>a, <1>t, OtherSteps DEF TargetOnTop
  <2>2. Len(local) > 0 /\ local[Len(local)] = target
    BY <1>5, <1>a, <2>1, OtherSteps DEF TagsPrepared, PreparesItsVersion
  <2>3. QED
    BY <1>5, <1>a, <2>2, OtherSteps DEF TagsPrepared, PreparesItsVersion
<1>6. CASE Repair
  BY <1>6, <1>a, OtherSteps DEF TagsPrepared, PreparesItsVersion
<1>7. CASE Abandon
  BY <1>7, <1>a, OtherSteps DEF TagsPrepared, PreparesItsVersion
<1>8. CASE Select
  BY <1>8, <1>a, <1>t, SelectStep DEF TagsPrepared, PreparesItsVersion
<1>9. CASE PushToMain \/ PushWork
  BY <1>9, <1>a, OtherSteps DEF TagsPrepared, PreparesItsVersion
<1>10. CASE Quiet
  BY <1>10, <1>a, <1>t DEF Quiet, TagsPrepared, PreparesItsVersion
<1>11. QED
  BY <1>1, <1>2, <1>3, <1>4, <1>5, <1>6, <1>7, <1>8, <1>9, <1>10, StepKinds

\* What select_target() returns is the highest release, to be completed, or a
\* version without a tag, which comes first in the queue or after all releases.
LEMMA TargetFacts ==
    ASSUME Typed, PublishedTagged, NEW lost, NEW unseen \in BOOLEAN, NEW v \in Targets(lost, unseen), has_previous(v)
    PROVE  /\ v \in Versions /\ v # 0 /\ releases # {}
           /\ \A u \in releases : u <= base
           /\ base \in releases
           /\ \/ v = base
              \/ /\ base \in Tagged(remoteTag)
                 /\ v \notin Tagged(localTag) /\ v \notin abandoned
                 /\ v \in Queue \/ \A u \in releases : v > u
                 /\ \A y \in Queue \ abandoned : v > y =>
                        y \in Tagged(localTag) \cup Tagged(remoteTag)
<1>1. /\ MaxVersion \in Nat /\ Versions = 0..MaxVersion /\ Queue \subseteq 0..MaxVersion
      /\ v \in Versions
  BY TargetIsVersion, StableAssumption DEF Versions
<1>2. releases \subseteq 0..MaxVersion
  BY <1>1 DEF releases, Typed, Tags
<1>3. releases # {} /\ v # 0
  BY <1>1, <1>2 DEF has_previous
<1>4. base \in releases /\ \A u \in releases : u <= base
  BY <1>1, <1>2, <1>3, MaxMinBound DEF base
<1>5. CASE ~seen_complete(base, unseen)
  BY <1>1, <1>3, <1>4, <1>5 DEF Targets
<1>6. CASE seen_complete(base, unseen)
  <2>1. base \in Tagged(remoteTag)
    BY <1>6 DEF seen_complete, complete, PublishedTagged
  <2>2. queued(lost) \subseteq 0..MaxVersion /\ generated \subseteq 0..MaxVersion
    BY <1>1 DEF queued, generated
  <2>3. CASE queued(lost) # {}
    <3>1. v = Min(queued(lost))
      BY <1>3, <1>6, <2>3 DEF Targets
    <3>2. v \in queued(lost) /\ \A y \in queued(lost) : v <= y
      BY <1>1, <2>2, <2>3, <3>1, MaxMinBound
    <3>3. \A y \in Queue \ abandoned :
             y \in queued(lost) \/ y \in Tagged(localTag) \cup Tagged(remoteTag)
      BY DEF queued, remote_tag_exists
    <3>4. \A y \in Queue : y \in Nat
      BY <1>1
    <3>5. QED
      BY <1>1, <1>3, <1>4, <2>1, <3>2, <3>3, <3>4 DEF queued
  <2>4. CASE queued(lost) = {}
    <3>1. generated # {} /\ v = Min(generated)
      BY <1>3, <1>6, <2>4 DEF Targets
    <3>2. v \in generated
      BY <1>1, <2>2, <3>1, MaxMinIn
    <3>3. \A y \in Queue \ abandoned : y \in Tagged(localTag) \cup Tagged(remoteTag)
      BY <2>4 DEF queued, remote_tag_exists
    <3>4. QED
      BY <1>1, <1>3, <1>4, <2>1, <3>2, <3>3 DEF generated
  <2>5. QED
    BY <2>3, <2>4
<1>7. QED
  BY <1>5, <1>6

\* A version is taken up after all releases, or from the queue under one that GitHub has.
LEMMA TargetOnTopKept == TagInv /\ [StableNext]_svars => TargetOnTop'
<1> SUFFICES ASSUME TagInv, [StableNext]_svars PROVE TargetOnTop'
  OBVIOUS
<1>a. Typed /\ InHand /\ PublishedTagged /\ TagsPrepared /\ TargetOnTop
  BY DEF TagInv, ReleaseInv
<1>t. /\ Preparing = {"prepare", "commit", "tag"} /\ Pushing = {"push", "ci", "push_tag"}
      /\ target \in Nat /\ \A v \in Tagged(localTag) : v \in Nat
      /\ Versions \subseteq Nat
  BY <1>a, TypedFacts DEF Preparing, Pushing
<1>1. CASE Sync
  BY <1>1, <1>t, SyncStep DEF TargetOnTop
<1>2. CASE Reconcile
  BY <1>2, <1>t, ReconcileStep DEF TargetOnTop
<1>3. CASE Select
  <2>1. CASE pc' \in {"prepare", "push"}
    <3>1. PICK lost \in SUBSET Queue, unseen \in BOOLEAN :
             target' \in Targets(lost, unseen) /\ has_previous(target')
      BY <1>3, <2>1, SelectStep
    <3>2. /\ target' \in Nat /\ target' # 0
          /\ base \in releases /\ \A u \in releases : u <= base
          /\ target' = base \/ base \in Tagged(remoteTag)
      BY <3>1, <1>a, <1>t, TargetFacts
    <3>3. \A w \in Tagged(localTag) : w > target' => \E b \in Tagged(remoteTag) : b > target'
      <4> SUFFICES ASSUME NEW w \in Tagged(localTag), w > target'
                   PROVE  \E b \in Tagged(remoteTag) : b > target'
        OBVIOUS
      <4>1. CASE w \in abandoned
        BY <4>1, <1>a DEF TagsPrepared
      <4>2. CASE w \notin abandoned
        <5>1. w \in releases /\ w <= base /\ base \in Nat
          BY <4>2, <3>2, <1>t DEF releases
        <5>2. QED
          BY <5>1, <3>2, <1>t
      <4>3. QED
        BY <4>1, <4>2
    <3>4. UNCHANGED <<localTag, remoteTag>>
      BY <1>3, SelectStep
    <3>5. QED
      BY <3>2, <3>3, <3>4 DEF TargetOnTop
  <2>2. CASE pc' \notin {"prepare", "push"}
    BY <1>3, <2>2, SelectStep DEF TargetOnTop
  <2>3. QED
    BY <2>1, <2>2
<1>4. CASE TagHead
  <2>1. /\ pc = "tag" /\ Tagged(localTag') = Tagged(localTag) \cup {target}
        /\ UNCHANGED <<target, remoteTag>>
    BY <1>4, <1>a, OtherSteps
  <2>2. QED
    BY <2>1, <1>a, <1>t DEF TargetOnTop
<1>5. CASE Commit \/ PushToMain \/ PushTag \/ PushWork \/ Repair \/ Abandon
  BY <1>5, <1>a, <1>t, OtherSteps DEF TargetOnTop
<1>6. CASE Quiet
  BY <1>6, <1>a, <1>t DEF Quiet, TargetOnTop
<1>7. QED
  BY <1>1, <1>2, <1>3, <1>4, <1>5, <1>6, StepKinds

\* A version is taken up above a queued one when GitHub has that, or it is abandoned.
LEMMA QueueInTurnKept == TagInv /\ [StableNext]_svars => QueueInTurn'
<1> SUFFICES ASSUME TagInv, [StableNext]_svars PROVE QueueInTurn'
  OBVIOUS
<1>a. Typed /\ InHand /\ PublishedTagged /\ QueueInTurn
  BY DEF TagInv, ReleaseInv
<1>t. /\ Preparing = {"prepare", "commit", "tag"}
      /\ target \in Nat /\ \A v \in Tagged(localTag) : v \in Nat
      /\ Versions \subseteq Nat /\ Queue \subseteq Nat \ {0}
  BY <1>a, TypedFacts DEF Preparing
<1>1. CASE Sync
  BY <1>1, <1>a, <1>t, SyncStep DEF QueueInTurn
<1>2. CASE Reconcile
  BY <1>2, <1>a, <1>t, ReconcileStep DEF QueueInTurn
<1>3. CASE Select
  <2>1. CASE pc' = "prepare"
    <3>1. PICK lost \in SUBSET Queue, unseen \in BOOLEAN :
             target' \in Targets(lost, unseen) /\ has_previous(target')
      BY <1>3, <2>1, SelectStep
    <3>2. target' \notin Tagged(localTag)
      BY <1>3, <2>1, SelectStep
    <3>3. /\ target' \in Nat
          /\ base \in releases /\ \A u \in releases : u <= base
          /\ base \in Tagged(remoteTag)
          /\ \A y \in Queue \ abandoned : target' > y =>
                 y \in Tagged(localTag) \cup Tagged(remoteTag)
      BY <3>1, <3>2, <1>a, <1>t, TargetFacts DEF releases
    <3>4. ASSUME NEW y \in Queue, target' > y PROVE y \in Tagged(remoteTag) \cup abandoned
      <4>1. CASE y \in releases
        <5>1. y <= base /\ y \in Nat /\ base \in Nat
          BY <4>1, <3>3, <1>t DEF releases
        <5>2. CASE y = base
          BY <5>2, <3>3
        <5>3. CASE y # base
          BY <5>1, <5>3, <3>3, <1>a DEF QueueInTurn
        <5>4. QED
          BY <5>2, <5>3
      <4>2. CASE y \notin releases
        BY <4>2, <3>3, <3>4 DEF releases
      <4>3. QED
        BY <4>1, <4>2
    <3>5. UNCHANGED <<localTag, remoteTag, abandoned>>
      BY <1>3, SelectStep
    <3>6. QED
      BY <3>4, <3>5, <1>a DEF QueueInTurn
  <2>2. CASE pc' # "prepare"
    <3>1. UNCHANGED <<localTag, remoteTag, abandoned>> /\ pc' \notin Preparing
      BY <1>3, <2>2, <1>t, SelectStep
    <3>2. QED
      BY <3>1, <1>a DEF QueueInTurn
  <2>3. QED
    BY <2>1, <2>2
<1>4. CASE TagHead
  <2>1. /\ pc = "tag" /\ pc' = "push" /\ Tagged(localTag') = Tagged(localTag) \cup {target}
        /\ UNCHANGED <<target, remoteTag, abandoned>>
    BY <1>4, <1>a, OtherSteps
  <2>2. QED
    BY <2>1, <1>a, <1>t DEF QueueInTurn
<1>5. CASE PushTag
  <2>1. /\ pc' \notin Preparing /\ target \in Tagged(localTag)
        /\ Tagged(remoteTag') = Tagged(remoteTag) \cup {target}
        /\ UNCHANGED <<target, localTag, abandoned>>
    BY <1>5, <1>a, <1>t, OtherSteps
  <2>2. QED
    BY <2>1, <1>a, <1>t DEF QueueInTurn
<1>6. CASE Commit \/ PushToMain \/ PushWork \/ Repair \/ Abandon
  <2>1. /\ Tagged(localTag') \subseteq Tagged(localTag) \cup Tagged(remoteTag)
        /\ UNCHANGED <<target, remoteTag>> /\ abandoned \subseteq abandoned'
        /\ pc' \in Preparing => pc \in Preparing
    BY <1>6, <1>a, <1>t, OtherSteps
  <2>2. QED
    BY <2>1, <1>a DEF QueueInTurn
<1>7. CASE Quiet
  BY <1>7, <1>a, <1>t DEF Quiet, QueueInTurn
<1>8. QED
  BY <1>1, <1>2, <1>3, <1>4, <1>5, <1>6, <1>7, StepKinds

\* Only maintainers commit on GitHub, and only the train in the clone.
LEMMA PartWithWorkKept == TagInv /\ [StableNext]_svars => PartWithWork'
<1> SUFFICES ASSUME TagInv, [StableNext]_svars PROVE PartWithWork'
  OBVIOUS
<1>a. Typed /\ InHand /\ PartWithWork
  BY DEF TagInv, ReleaseInv
<1>t. /\ local \in Commits /\ origin \in Commits /\ tracking \in Commits
      /\ target \in Versions /\ Work \notin Versions
  BY <1>a, TypedFacts
<1>o. /\ \A s \in Commits : IsPrefix(s, s)
      /\ \A r, s, t \in Commits : IsPrefix(r, s) /\ IsPrefix(s, t) => IsPrefix(r, t)
      /\ \A s, t \in Commits :
            /\ Len(s) \in Nat /\ Len(t) \in Nat
            /\ IsPrefix(s, t) <=> Len(s) <= Len(t) /\ \A i \in 1..Len(s) : s[i] = t[i]
  BY HistoryOrder, Prefix
<1>1. ASSUME UNCHANGED <<local, tracking, origin>> PROVE PartWithWork'
  BY <1>1, <1>a DEF PartWithWork
<1>2. CASE Sync
  <2>1. /\ origin' = origin /\ IsPrefix(tracking', origin) /\ tracking' \in Commits
        /\ local' = local \/ (IsPrefix(local, tracking') /\ local' = tracking')
    BY <1>2, <1>a, <1>t, <1>o, SyncStep DEF PartWithWork
  <2>2. CASE local' = local
    BY <2>1, <2>2, <1>a DEF PartWithWork
  <2>3. CASE IsPrefix(local, tracking') /\ local' = tracking'
    <3>1. IsPrefix(local', origin) /\ IsPrefix(local, origin) /\ IsPrefix(local, local')
      BY <2>1, <2>3, <1>t, <1>o
    <3>2. Len(local) <= Len(local') /\ Len(local') <= Len(origin) /\ Len(local) \in Nat
          /\ Len(local') \in Nat /\ Len(origin) \in Nat
      BY <2>1, <2>3, <3>1, <1>t, <1>o
    <3>3. \A i \in Len(local') + 1..Len(origin) : origin[i] = Work
      BY <3>1, <3>2, <1>a DEF PartWithWork
    <3>4. QED
      BY <2>1, <3>1, <3>2, <3>3 DEF PartWithWork
  <2>4. QED
    BY <2>1, <2>2, <2>3
<1>3. CASE Commit
  <2> DEFINE h == Append(local, target)
  <2>1. local' = h /\ UNCHANGED <<tracking, origin>>
    BY <1>3, <1>a, OtherSteps
  <2>2. /\ h \in Commits /\ Len(h) = Len(local) + 1 /\ h[Len(local) + 1] = target
        /\ \A i \in 1..Len(local) : h[i] = local[i]
    BY <1>t, Prefix
  <2> HIDE DEF h
  <2>3. ~IsPrefix(h, origin)
    <3> SUFFICES ASSUME IsPrefix(h, origin) PROVE FALSE
      OBVIOUS
    <3>1. Len(h) <= Len(origin) /\ \A i \in 1..Len(h) : h[i] = origin[i]
      BY <2>2, <1>t, <1>o
    <3>2. Len(local) \in Nat /\ Len(origin) \in Nat
      BY <1>t, <1>o
    <3>3. IsPrefix(local, origin)
      BY <2>2, <3>1, <3>2, <1>t, <1>o
    <3>4. origin[Len(local) + 1] = Work
      BY <2>2, <3>1, <3>2, <3>3, <1>a DEF PartWithWork
    <3>5. origin[Len(local) + 1] = target
      BY <2>2, <3>1, <3>2
    <3>6. QED
      BY <3>4, <3>5, <1>t
  <2>4. ASSUME IsPrefix(origin, h), Len(origin) < Len(h) PROVE h[Len(origin) + 1] # Work
    <3>1. Len(origin) <= Len(local) /\ Len(origin) \in Nat /\ Len(local) \in Nat
      BY <2>2, <2>4, <1>t, <1>o
    <3>2. IsPrefix(origin, local)
      BY <2>2, <2>4, <3>1, <1>t, <1>o
    <3>3. CASE Len(origin) < Len(local)
      <4>1. local[Len(origin) + 1] # Work
        BY <3>2, <3>3, <1>a DEF PartWithWork
      <4>2. Len(origin) + 1 \in 1..Len(local)
        BY <3>1, <3>3
      <4>3. QED
        BY <4>1, <4>2, <2>2
    <3>4. CASE Len(origin) = Len(local)
      BY <2>2, <3>4, <1>t
    <3>5. QED
      BY <3>1, <3>3, <3>4
  <2>5. QED
    BY <2>1, <2>3, <2>4, <1>a DEF PartWithWork
<1>4. CASE PushToMain
  <2>1. CASE origin' = local /\ tracking' = local
    <3>1. local' = local
      BY <1>4, <1>a, OtherSteps
    <3>2. IsPrefix(local, local) /\ Len(local) \in Nat
      BY <1>t, <1>o
    <3>3. QED
      BY <2>1, <3>1, <3>2 DEF PartWithWork
  <2>2. CASE UNCHANGED <<origin, tracking>>
    BY <1>1, <1>4, <1>a, <2>2, OtherSteps
  <2>3. QED
    BY <1>4, <1>a, <2>1, <2>2, OtherSteps
<1>5. CASE PushWork
  <2> DEFINE h == Append(origin, Work)
  <2>1. origin' = h /\ UNCHANGED <<tracking, local>>
    BY <1>5, <1>a, OtherSteps
  <2>2. /\ h \in Commits /\ Len(h) = Len(origin) + 1 /\ h[Len(origin) + 1] = Work
        /\ \A i \in 1..Len(origin) : h[i] = origin[i]
    BY <1>t, Prefix
  <2> HIDE DEF h
  <2>3. IsPrefix(origin, h) /\ Len(origin) \in Nat /\ Len(local) \in Nat
    BY <2>2, <1>t, <1>o
  <2>4. IsPrefix(tracking, h)
    BY <2>2, <2>3, <1>a, <1>t, <1>o DEF PartWithWork
  <2>5. ASSUME IsPrefix(local, h), NEW i \in Len(local) + 1..Len(h) PROVE h[i] = Work
    <3>1. CASE i = Len(origin) + 1
      BY <2>2, <3>1
    <3>2. CASE i # Len(origin) + 1
      <4>1. i \in 1..Len(origin) /\ Len(local) <= Len(origin) /\ i \in Len(local) + 1..Len(origin)
        BY <2>2, <2>3, <2>5, <3>2
      <4>2. IsPrefix(local, origin)
        BY <2>2, <2>3, <2>5, <4>1, <1>t, <1>o
      <4>3. QED
        BY <2>2, <4>1, <4>2, <1>a DEF PartWithWork
    <3>3. QED
      BY <3>1, <3>2
  <2>6. ~(IsPrefix(h, local) /\ Len(h) < Len(local))
    <3> SUFFICES ASSUME IsPrefix(h, local) PROVE FALSE
      OBVIOUS
    <3>1. Len(h) <= Len(local) /\ \A i \in 1..Len(h) : h[i] = local[i]
      BY <2>2, <1>t, <1>o
    <3>2. IsPrefix(origin, local)
      BY <2>2, <2>3, <3>1, <1>t, <1>o
    <3>3. Len(origin) < Len(local) /\ local[Len(origin) + 1] = Work
      BY <2>2, <2>3, <3>1
    <3>4. QED
      BY <3>2, <3>3, <1>a DEF PartWithWork
  <2>7. QED
    BY <2>1, <2>4, <2>5, <2>6 DEF PartWithWork
<1>6. CASE Repair
  <2>1. local' = origin /\ tracking' = origin /\ origin' = origin
    BY <1>6, <1>a, OtherSteps
  <2>2. IsPrefix(origin, origin) /\ Len(origin) \in Nat
    BY <1>t, <1>o
  <2>3. QED
    BY <2>1, <2>2 DEF PartWithWork
<1>7. CASE Reconcile \/ Select \/ TagHead \/ PushTag \/ Abandon \/ Quiet
  <2>1. UNCHANGED <<local, tracking, origin>>
    BY <1>7, <1>a, ReconcileStep, SelectStep, OtherSteps DEF Quiet
  <2>2. QED
    BY <1>1, <2>1
<1>8. QED
  BY <1>2, <1>3, <1>4, <1>5, <1>6, <1>7, StepKinds

\* An order of more tags is one of the tags before.
LEMMA OrderBefore ==
    ASSUME Typed, InHand, [StableNext]_svars, InOrder'
    PROVE  InOrder
<1>1. /\ Tagged(remoteTag) \subseteq Tagged(remoteTag)'
      /\ \A v \in Tagged(remoteTag) : remoteTag'[v] = remoteTag[v]
  <2>1. CASE PushTag
    BY <2>1, OtherSteps
  <2>2. CASE ~PushTag
    <3>1. remoteTag' = remoteTag
      BY <2>2, StepKinds, SyncStep, ReconcileStep, SelectStep, OtherSteps DEF Quiet
    <3>2. QED
      BY <3>1
  <2>3. QED
    BY <2>1, <2>2
<1>2. QED
  BY <1>1 DEF InOrder

\* New tags of the clone are on its head, which is past every tag of GitHub.
LEMMA CloneInOrderKept == TagInv /\ [StableNext]_svars => CloneInOrder'
<1> SUFFICES ASSUME TagInv, [StableNext]_svars, InOrder'
             PROVE  (\A u \in Tagged(remoteTag), w \in Tagged(localTag) :
                         u <= w => IsPrefix(remoteTag[u], localTag[w]))'
  BY DEF CloneInOrder
<1>a. Typed /\ InHand /\ ClonePassesTags /\ TagsPassed
  BY DEF TagInv, ReleaseInv
<1>b. InOrder /\ \A u \in Tagged(remoteTag), w \in Tagged(localTag) :
                    u <= w => IsPrefix(remoteTag[u], localTag[w])
  BY <1>a, OrderBefore DEF TagInv, CloneInOrder
<1>t. /\ target \in Nat /\ local \in Commits
      /\ \A v \in Tagged(localTag) : v \in Nat /\ localTag[v] \in Commits
      /\ \A v \in Tagged(remoteTag) : v \in Nat /\ remoteTag[v] \in Commits
  BY <1>a, TypedFacts
<1>o. \A s \in Commits : IsPrefix(s, s)
  BY HistoryOrder
<1>r. \A u, w \in Tagged(remoteTag) : u <= w => IsPrefix(remoteTag[u], remoteTag[w])
  BY <1>b, <1>t, <1>o DEF InOrder
<1>1. CASE Sync
  BY <1>1, <1>b, <1>r, SyncStep
<1>2. CASE Reconcile
  BY <1>2, <1>b, ReconcileStep
<1>3. CASE TagHead
  BY <1>3, <1>a, <1>b, OtherSteps DEF ClonePassesTags
<1>4. CASE PushTag
  <2>1. CASE target \in Tagged(remoteTag)
    BY <1>4, <1>a, <1>b, <2>1, OtherSteps
  <2>2. CASE target \notin Tagged(remoteTag)
    <3>1. \A w \in Tagged(localTag) : target <= w => w = target
      BY <1>4, <1>t, <2>2, PushedOnTop
    <3>2. QED
      BY <1>4, <1>a, <1>b, <1>t, <1>o, <2>2, <3>1, OtherSteps
  <2>3. QED
    BY <2>1, <2>2
<1>5. CASE Repair
  BY <1>5, <1>a, <1>r, OtherSteps
<1>6. CASE Select \/ Commit \/ PushToMain \/ PushWork \/ Abandon \/ Quiet
  <2>1. UNCHANGED <<localTag, remoteTag>>
    BY <1>6, <1>a, SelectStep, OtherSteps DEF Quiet
  <2>2. QED
    BY <1>b, <2>1
<1>7. QED
  BY <1>1, <1>2, <1>3, <1>4, <1>5, <1>6, StepKinds

\* What was cut again stays cut again, and what goes on goes on.
LEMMA HistoryGrows ==
    ASSUME Typed, NEW g \in Commits, NEW h \in Commits, IsPrefix(g, h)
    PROVE  /\ CutAgain(g) => CutAgain(h)
           /\ \A u \in Tagged(remoteTag) :
                 /\ Len(remoteTag[u]) < Len(g) /\ GoesOn(g, u) => GoesOn(h, u)
                 /\ HasWork(g, u) => HasWork(h, u)
<1>1. /\ Len(g) \in Nat /\ Len(h) \in Nat /\ Len(g) <= Len(h)
      /\ \A i \in 1..Len(g) : g[i] = h[i]
      /\ \A v \in Tagged(remoteTag) : Len(remoteTag[v]) \in Nat
  BY TypedFacts, Prefix
<1>2. CutAgain(g) => CutAgain(h)
  BY <1>1 DEF CutAgain
<1>3. ASSUME NEW u \in Tagged(remoteTag), Len(remoteTag[u]) < Len(g), GoesOn(g, u) PROVE GoesOn(h, u)
  <2>1. Len(remoteTag[u]) + 1 \in 1..Len(g)
    BY <1>1, <1>3
  <2>2. QED
    BY <1>1, <1>2, <1>3, <2>1 DEF GoesOn
<1>4. ASSUME NEW u \in Tagged(remoteTag), HasWork(g, u) PROVE HasWork(h, u)
  <2>1. works(g) \in Nat /\ works(h) \in Nat /\ works(g) <= works(h)
    BY WorkCounts
  <2>2. works(remoteTag[u]) \in Nat
    <3>1. remoteTag[u] \in Commits /\ IsPrefix(remoteTag[u], remoteTag[u])
      BY TypedFacts, HistoryOrder
    <3>2. QED
      BY <3>1, WorkCounts
  <2>3. QED
    BY <1>2, <1>4, <2>1, <2>2 DEF HasWork
<1>5. QED
  BY <1>2, <1>3, <1>4

\* A new version has work over every tag below it.
LEMMA SelectHasWork ==
    ASSUME TagInv, InOrder, NEW v \in Versions, has_previous(v), real_work(v), NEW u \in Below(v)
    PROVE  HasWork(local, u)
<1>a. Typed /\ ClonePassesTags /\ CloneInOrder /\ WorkFollows
  BY DEF TagInv, ReleaseInv
<1>t. /\ local \in Commits /\ v \in Nat /\ u \in Tagged(remoteTag) /\ u \notin abandoned /\ u < v
      /\ \A w \in Tagged(localTag) : w \in Versions /\ w \in Nat /\ localTag[w] \in Commits
      /\ \A w \in Tagged(remoteTag) : w \in Nat /\ remoteTag[w] \in Commits
  BY <1>a, TypedFacts DEF Below
<1>1. CASE u \in Tagged(localTag)
  <2> DEFINE before == latest_stable_before(v)
  <2>1. before \in Tagged(localTag) /\ u <= before
    <3> DEFINE T == {w \in Tagged(localTag) \ abandoned : w < v}
    <3>1. T \subseteq 0..MaxVersion /\ u \in T /\ MaxVersion \in Nat
      BY <1>1, <1>t, StableAssumption DEF Versions
    <3>2. Max(T) \in T /\ u <= Max(T)
      <4> HIDE DEF T
      <4> QED
        BY <3>1, MaxMinBound
    <3>3. QED
      BY <3>2 DEF latest_stable_before
  <2> DEFINE since == localTag[before]
  <2>2. real_work(v) => \E i \in 1..Len(local) :
           local[i] = Work /\ i > Len(LongestCommonPrefix({since, local}))
    BY DEF real_work
  <2> HIDE DEF before
  <2>3. since \in Commits /\ IsPrefix(since, local) /\ IsPrefix(remoteTag[u], since)
    BY <1>a, <1>t, <2>1 DEF ClonePassesTags, CloneInOrder
  <2> HIDE DEF since
  <2>4. Len(LongestCommonPrefix({since, local})) = Len(since) /\ Len(since) \in Nat /\ Len(local) \in Nat
    BY <1>t, <2>3, CommonPrefix, Prefix
  <2>5. \E i \in Len(since) + 1..Len(local) : local[i] = Work
    BY <2>2, <2>4
  <2>6. works(since) < works(local) /\ works(since) \in Nat /\ works(local) \in Nat
    BY <1>t, <2>3, <2>5, WorkCounts
  <2>7. works(remoteTag[u]) <= works(since) /\ works(remoteTag[u]) \in Nat
    BY <1>t, <2>3, WorkCounts
  <2>8. QED
    BY <2>6, <2>7 DEF HasWork
<1>2. CASE u \notin Tagged(localTag)
  <2>1. Len(remoteTag[u]) < Len(local) /\ IsPrefix(remoteTag[u], local)
    BY <1>2, <1>a, <1>t DEF ClonePassesTags
  <2>2. local[Len(remoteTag[u]) + 1] = Work \/ CutAgain(local)
    BY <2>1, <1>a, <1>t DEF WorkFollows, GoesOn
  <2>3. CASE local[Len(remoteTag[u]) + 1] = Work
    <3>1. Len(remoteTag[u]) \in Nat /\ Len(local) \in Nat
      BY <1>t, Prefix
    <3>2. Len(remoteTag[u]) + 1 \in Len(remoteTag[u]) + 1..Len(local)
      BY <2>1, <3>1
    <3>3. works(remoteTag[u]) < works(local)
      BY <1>t, <2>1, <2>3, <3>2, WorkCounts
    <3>4. QED
      BY <3>3 DEF HasWork
  <2>4. QED
    BY <2>2, <2>3 DEF HasWork
<1>3. QED
  BY <1>1, <1>2

\* A version that is taken up right on a tag of GitHub has a tag there itself.
LEMMA SelectOnTag ==
    ASSUME TagInv, InOrder, NEW lost, NEW unseen \in BOOLEAN, NEW v \in Targets(lost, unseen), has_previous(v),
           v \notin Tagged(localTag), real_work(v),
           NEW u \in Tagged(remoteTag) \ abandoned, local = remoteTag[u]
    PROVE  v \in Tagged(remoteTag) \/ CutAgain(local)
<1>a. Typed /\ PublishedTagged /\ ClonePassesTags /\ QueueInTurn
  BY DEF TagInv, ReleaseInv
<1>t. local \in Commits /\ v \in Nat /\ v \in Versions /\ u \in Nat /\ Len(local) \in Nat
  BY <1>a, TypedFacts, TargetFacts, Prefix
<1>1. u \in Tagged(localTag)
  BY <1>a, <1>t DEF ClonePassesTags
<1>2. u \in releases
  BY <1>1 DEF releases
<1>3. CASE v < u
  <2>1. v \notin abandoned /\ v \in Queue
    BY <1>a, <1>t, <1>2, <1>3, TargetFacts DEF releases
  <2>2. QED
    BY <2>1, <1>1, <1>3, <1>a DEF QueueInTurn
<1>4. CASE u < v
  <2>1. HasWork(local, u)
    BY <1>4, <1>t, SelectHasWork DEF Below
  <2>2. works(local) \in Nat
    BY <1>t, HistoryOrder, WorkCounts
  <2>3. QED
    BY <2>1, <2>2 DEF HasWork
<1>5. QED
  BY <1>1, <1>3, <1>4, <1>t

\* The train commits right on a tag of GitHub only a version that has one there itself.
LEMMA WorkFollowsKept == TagInv /\ [StableNext]_svars => WorkFollows'
<1> SUFFICES ASSUME TagInv, [StableNext]_svars, InOrder'
             PROVE  /\ (\A u \in Tagged(remoteTag) \ abandoned : GoesOn(local, u) /\ GoesOn(origin, u))'
                    /\ (pc \in {"prepare", "commit"} =>
                           \A u \in Tagged(remoteTag) \ abandoned :
                              local = remoteTag[u] => target \in Tagged(remoteTag) \/ CutAgain(local))'
  BY DEF WorkFollows
<1> DEFINE Follows == \A u \in Tagged(remoteTag) \ abandoned : GoesOn(local, u) /\ GoesOn(origin, u)
           OnTag == pc \in {"prepare", "commit"} =>
                        \A u \in Tagged(remoteTag) \ abandoned :
                           local = remoteTag[u] => target \in Tagged(remoteTag) \/ CutAgain(local)
<1>a. Typed /\ InHand /\ TagsPassed /\ PublishedTagged /\ ClonePassesTags /\ PartWithWork
  BY DEF TagInv, ReleaseInv
<1>b. InOrder /\ Follows /\ OnTag
  BY <1>a, OrderBefore DEF TagInv, WorkFollows
<1>t. /\ local \in Commits /\ origin \in Commits /\ target \in Versions
      /\ \A v \in Tagged(remoteTag) :
            /\ remoteTag[v] \in Commits
            /\ IsPrefix(remoteTag[v], local) /\ IsPrefix(remoteTag[v], origin)
  BY <1>a, TypedFacts DEF ClonePassesTags, TagsPassed
<1>o. /\ \A r, s, t \in Commits : IsPrefix(r, s) /\ IsPrefix(s, t) => IsPrefix(r, t)
      /\ \A s, t \in Commits :
            /\ Len(s) \in Nat /\ Len(t) \in Nat
            /\ IsPrefix(s, t) => Len(s) <= Len(t) /\ \A i \in 1..Len(s) : s[i] = t[i]
            /\ IsPrefix(s, t) /\ Len(s) = Len(t) => s = t
  BY HistoryOrder, Prefix
<1> HIDE DEF Follows, OnTag
<1>1. ASSUME UNCHANGED <<local, origin, remoteTag>>, abandoned \subseteq abandoned' PROVE Follows'
  BY <1>1, <1>b DEF Follows, GoesOn, CutAgain
<1>2. ASSUME pc' \notin {"prepare", "commit"} PROVE OnTag'
  BY <1>2 DEF OnTag
<1>3. CASE Sync
  <2>1. /\ origin' = origin /\ remoteTag' = remoteTag /\ abandoned' = abandoned
        /\ pc' \notin {"prepare", "commit"}
        /\ local' = local \/ (IsPrefix(local, local') /\ IsPrefix(local', origin))
    <3>1. IsPrefix(origin, origin)
      BY <1>t, HistoryOrder
    <3>2. QED
      BY <1>3, <1>a, <3>1, SyncStep DEF PartWithWork
  <2>2. CASE local' = local
    BY <1>1, <1>2, <2>1, <2>2 DEF Follows, OnTag
  <2>3. CASE IsPrefix(local, local') /\ IsPrefix(local', origin)
    <3>1. local' \in Commits
      BY ReleaseStep DEF TagInv, ReleaseInv, Typed
    <3>2. ASSUME NEW u \in Tagged(remoteTag) \ abandoned PROVE GoesOn(local', u)
      <4>1. CASE Len(remoteTag[u]) < Len(local)
        BY <4>1, <1>a, <1>b, <1>t, <2>3, <3>1, HistoryGrows DEF Follows
      <4>2. CASE ~(Len(remoteTag[u]) < Len(local))
        <5>1. Len(remoteTag[u]) = Len(local) /\ Len(local) \in Nat /\ Len(local') \in Nat
              /\ Len(origin) \in Nat /\ Len(local') <= Len(origin)
          BY <4>2, <1>t, <1>o, <2>3, <3>1
        <5>2. IsPrefix(local, origin)
          BY <1>t, <1>o, <2>3, <3>1
        <5>3. ASSUME Len(local') > Len(local) PROVE local'[Len(local) + 1] = Work
          <6>1. origin[Len(local) + 1] = Work
            BY <5>1, <5>2, <5>3, <1>a DEF PartWithWork
          <6>2. Len(local) + 1 \in 1..Len(local')
            BY <5>1, <5>3
          <6>3. QED
            BY <6>1, <6>2, <1>t, <1>o, <2>3, <3>1
        <5>4. QED
          BY <5>1, <5>3 DEF GoesOn
      <4>3. QED
        BY <4>1, <4>2
    <3>3. Follows'
      BY <2>1, <3>2, <1>b DEF Follows, GoesOn, CutAgain
    <3>4. QED
      BY <1>2, <2>1, <3>3 DEF Follows, OnTag
  <2>4. QED
    BY <2>1, <2>2, <2>3
<1>4. CASE Select
  <2>1. UNCHANGED <<local, origin, localTag, remoteTag, abandoned>>
    BY <1>4, SelectStep
  <2>2. ASSUME pc' \in {"prepare", "commit"}, NEW u \in Tagged(remoteTag) \ abandoned,
               local = remoteTag[u]
        PROVE  target' \in Tagged(remoteTag) \/ CutAgain(local)
    <3>1. /\ pc' = "prepare" /\ target' \notin Tagged(localTag) /\ real_work(target')
          /\ \E lost \in SUBSET Queue, unseen \in BOOLEAN :
               target' \in Targets(lost, unseen) /\ has_previous(target')
      BY <1>4, <2>2, SelectStep DEF Preparing, Pushing
    <3>2. QED
      BY <1>b, <2>2, <3>1, SelectOnTag
  <2>3. OnTag'
    BY <2>1, <2>2 DEF OnTag, CutAgain
  <2>4. QED
    BY <1>1, <2>1, <2>3 DEF Follows, OnTag
<1>5. CASE Commit
  <2> DEFINE h == Append(local, target)
  <2>1. /\ pc = "commit" /\ pc' = "tag" /\ local' = h
        /\ UNCHANGED <<target, origin, remoteTag, abandoned>>
    BY <1>5, <1>a, OtherSteps
  <2>2. /\ h \in Commits /\ Len(h) = Len(local) + 1 /\ h[Len(local) + 1] = target
        /\ IsPrefix(local, h)
    BY <1>t, Prefix, HistoryOrder
  <2> HIDE DEF h
  <2>3. ASSUME NEW u \in Tagged(remoteTag) \ abandoned PROVE GoesOn(h, u)
    <3>1. CASE Len(remoteTag[u]) < Len(local)
      BY <3>1, <1>a, <1>b, <1>t, <2>2, HistoryGrows DEF Follows
    <3>2. CASE ~(Len(remoteTag[u]) < Len(local))
      <4>1. remoteTag[u] = local
        BY <3>2, <1>t, <1>o
      <4>2. target \in Tagged(remoteTag) \/ CutAgain(local)
        BY <4>1, <1>b, <2>1 DEF OnTag
      <4>3. CASE target \in Tagged(remoteTag)
        <5>1. Len(remoteTag[target]) <= Len(local) /\ Len(remoteTag[target]) \in Nat /\ Len(local) \in Nat
          BY <4>3, <1>t, <1>o
        <5>2. Len(local) + 1 \in Len(remoteTag[target]) + 1..Len(h)
          BY <5>1, <2>2
        <5>3. CutAgain(h)
          BY <4>3, <5>2, <2>2 DEF CutAgain
        <5>4. QED
          BY <5>3 DEF GoesOn
      <4>4. CASE CutAgain(local)
        BY <4>4, <1>a, <1>t, <2>2, HistoryGrows DEF GoesOn
      <4>5. QED
        BY <4>2, <4>3, <4>4
    <3>3. QED
      BY <3>1, <3>2
  <2>4. Follows'
    BY <2>1, <2>3, <1>b DEF Follows, GoesOn, CutAgain
  <2>5. QED
    BY <1>2, <2>1, <2>4 DEF Follows, OnTag
<1>6. CASE PushToMain
  <2>1. /\ pc' \notin {"prepare", "commit"} /\ origin' \in {local, origin}
        /\ UNCHANGED <<local, remoteTag, abandoned>>
    BY <1>6, <1>a, OtherSteps
  <2>2. Follows'
    BY <2>1, <1>b DEF Follows, GoesOn, CutAgain
  <2>3. QED
    BY <1>2, <2>1, <2>2 DEF Follows, OnTag
<1>7. CASE PushTag
  <2>1. /\ pc' \notin {"prepare", "commit"} /\ UNCHANGED <<local, origin, abandoned>>
        /\ IsPrefix(local, origin)
        /\ Tagged(remoteTag') = Tagged(remoteTag) \cup {target}
        /\ \A v \in Tagged(remoteTag) : remoteTag'[v] = remoteTag[v]
        /\ target \notin Tagged(remoteTag) => remoteTag'[target] = local
    BY <1>7, <1>a, OtherSteps
  <2>2. /\ CutAgain(local) => CutAgain(local)'
        /\ CutAgain(origin) => CutAgain(origin)'
    BY <2>1 DEF CutAgain
  <2>3. ASSUME NEW u \in (Tagged(remoteTag) \ abandoned)' PROVE GoesOn(local, u)' /\ GoesOn(origin, u)'
    <3>1. CASE u \in Tagged(remoteTag)
      <4>1. GoesOn(local, u) /\ GoesOn(origin, u) /\ remoteTag'[u] = remoteTag[u]
        BY <2>1, <2>3, <3>1, <1>b DEF Follows
      <4>2. QED
        BY <2>1, <2>2, <4>1 DEF GoesOn
    <3>2. CASE u \notin Tagged(remoteTag)
      <4>1. remoteTag'[u] = local
        BY <2>1, <2>3, <3>2
      <4>2. Len(local) \in Nat /\ Len(origin) \in Nat
        BY <1>t, <1>o
      <4>3. Len(origin) > Len(local) => origin[Len(local) + 1] = Work
        BY <2>1, <4>2, <1>a DEF PartWithWork
      <4>4. QED
        BY <2>1, <4>1, <4>2, <4>3 DEF GoesOn
    <3>3. QED
      BY <3>1, <3>2
  <2>4. QED
    BY <1>2, <2>1, <2>3 DEF OnTag
<1>8. CASE PushWork
  <2> DEFINE h == Append(origin, Work)
  <2>1. origin' = h /\ UNCHANGED <<pc, target, local, remoteTag, abandoned>>
    BY <1>8, <1>a, OtherSteps
  <2>2. /\ h \in Commits /\ Len(h) = Len(origin) + 1 /\ h[Len(origin) + 1] = Work
        /\ IsPrefix(origin, h)
    BY <1>t, Prefix, HistoryOrder
  <2> HIDE DEF h
  <2>3. ASSUME NEW u \in Tagged(remoteTag) \ abandoned PROVE GoesOn(h, u)
    <3>1. CASE Len(remoteTag[u]) < Len(origin)
      BY <3>1, <1>a, <1>b, <1>t, <2>2, HistoryGrows DEF Follows
    <3>2. CASE ~(Len(remoteTag[u]) < Len(origin))
      <4>1. Len(remoteTag[u]) = Len(origin)
        BY <3>2, <1>t, <1>o
      <4>2. QED
        BY <4>1, <2>2 DEF GoesOn
    <3>3. QED
      BY <3>1, <3>2
  <2>4. Follows'
    BY <2>1, <2>3, <1>b DEF Follows, GoesOn, CutAgain
  <2>5. OnTag'
    BY <2>1, <1>b DEF OnTag, CutAgain
  <2>6. QED
    BY <2>4, <2>5 DEF Follows, OnTag
<1>9. CASE Repair
  <2>1. /\ pc' \notin {"prepare", "commit"} /\ local' = origin
        /\ UNCHANGED <<origin, remoteTag, abandoned>>
    BY <1>9, <1>a, OtherSteps
  <2>2. Follows'
    BY <2>1, <1>b DEF Follows, GoesOn, CutAgain
  <2>3. QED
    BY <1>2, <2>1, <2>2 DEF Follows, OnTag
<1>10. CASE Reconcile \/ TagHead \/ Abandon
  <2>1. /\ pc' \notin {"prepare", "commit"} /\ UNCHANGED <<local, origin, remoteTag>>
        /\ abandoned \subseteq abandoned'
    BY <1>10, <1>a, ReconcileStep, OtherSteps
  <2>2. QED
    BY <1>1, <1>2, <2>1 DEF Follows, OnTag
<1>11. CASE Quiet
  <2>1. OnTag'
    BY <1>11, <1>b DEF Quiet, Preparing, Pushing, OnTag, CutAgain
  <2>2. Follows'
    BY <1>11, <1>1 DEF Quiet
  <2>3. QED
    BY <2>1, <2>2 DEF Follows, OnTag
<1>12. QED
  BY <1>3, <1>4, <1>5, <1>6, <1>7, <1>8, <1>9, <1>10, <1>11, StepKinds

\* A version taken up has work over the tags below it, and GitHub gets its tag above all others.
LEMMA TagsHaveWorkKept == TagInv /\ [StableNext]_svars => TagsHaveWork'
<1> SUFFICES ASSUME TagInv, [StableNext]_svars, InOrder'
             PROVE  /\ (pc \in Preparing /\ target \notin Tagged(remoteTag) =>
                           \A u \in Below(target) : HasWork(local, u))'
                    /\ (\A x \in Tagged(localTag) \ Tagged(remoteTag) :
                           \A u \in Below(x) : HasWork(localTag[x], u))'
                    /\ (\A x \in Tagged(remoteTag) : \A u \in Below(x) : HasWork(remoteTag[x], u))'
  BY DEF TagsHaveWork
<1> DEFINE InWork == pc \in Preparing /\ target \notin Tagged(remoteTag) =>
                        \A u \in Below(target) : HasWork(local, u)
           Here == \A x \in Tagged(localTag) \ Tagged(remoteTag) :
                      \A u \in Below(x) : HasWork(localTag[x], u)
           There == \A x \in Tagged(remoteTag) : \A u \in Below(x) : HasWork(remoteTag[x], u)
<1>a. Typed /\ InHand
  BY DEF TagInv, ReleaseInv
<1>b. InOrder /\ InWork /\ Here /\ There
  BY <1>a, OrderBefore DEF TagInv, TagsHaveWork
<1>t. /\ local \in Commits /\ target \in Versions /\ target \in Nat
      /\ \A v \in Tagged(localTag) : v \in Nat
      /\ \A v \in Tagged(remoteTag) : v \in Nat
      /\ Preparing = {"prepare", "commit", "tag"}
  BY <1>a, TypedFacts DEF Preparing
<1> HIDE DEF InWork, Here, There
<1>1. ASSUME pc' \notin Preparing PROVE InWork'
  BY <1>1 DEF InWork, Preparing
<1>2. ASSUME UNCHANGED remoteTag, abandoned \subseteq abandoned' PROVE There'
  BY <1>2, <1>b DEF There, Below, HasWork, CutAgain
<1>3. ASSUME UNCHANGED remoteTag, abandoned \subseteq abandoned',
             Tagged(localTag') \subseteq Tagged(localTag) \cup Tagged(remoteTag),
             \A x \in Tagged(localTag) \cap Tagged(localTag') : localTag'[x] = localTag[x]
      PROVE  Here'
  BY <1>3, <1>b DEF Here, Below, HasWork, CutAgain
<1>4. CASE Sync
  BY <1>1, <1>2, <1>3, <1>4, <1>t, SyncStep DEF InWork, Here, There
<1>5. CASE Reconcile
  BY <1>1, <1>2, <1>3, <1>5, <1>t, ReconcileStep DEF InWork, Here, There
<1>6. CASE Select
  <2>1. UNCHANGED <<local, localTag, remoteTag, abandoned>>
    BY <1>6, SelectStep
  <2>2. ASSUME pc' \in Preparing, NEW u \in Below(target') PROVE HasWork(local, u)
    <3>1. /\ real_work(target') /\ has_previous(target')
          /\ \E lost \in SUBSET Queue, unseen \in BOOLEAN :
               target' \in Targets(lost, unseen) /\ has_previous(target')
      BY <1>6, <1>t, <2>2, SelectStep
    <3>2. target' \in Versions
      BY ReleaseStep DEF TagInv, ReleaseInv, Typed
    <3>3. QED
      BY <1>b, <2>2, <3>1, <3>2, SelectHasWork
  <2>3. InWork'
    BY <2>1, <2>2 DEF InWork, Below, HasWork, CutAgain
  <2>4. QED
    BY <1>2, <1>3, <2>1, <2>3 DEF InWork, Here, There
<1>7. CASE Commit
  <2> DEFINE h == Append(local, target)
  <2>1. /\ pc = "commit" /\ local' = h
        /\ UNCHANGED <<target, localTag, remoteTag, abandoned>>
    BY <1>7, <1>a, OtherSteps
  <2>2. h \in Commits /\ IsPrefix(local, h)
    BY <1>t, HistoryOrder
  <2> HIDE DEF h
  <2>3. ASSUME target \notin Tagged(remoteTag), NEW u \in Below(target) PROVE HasWork(h, u)
    <3>1. HasWork(local, u)
      BY <1>b, <1>t, <2>1, <2>3 DEF InWork
    <3>2. QED
      BY <1>a, <1>t, <2>2, <3>1, HistoryGrows DEF Below
  <2>4. InWork'
    BY <2>1, <2>3 DEF InWork, Below, HasWork, CutAgain
  <2>5. QED
    BY <1>2, <1>3, <2>1, <2>4 DEF InWork, Here, There
<1>8. CASE TagHead
  <2>1. /\ pc = "tag" /\ pc' = "push" /\ target \notin Tagged(localTag)
        /\ Tagged(localTag') = Tagged(localTag) \cup {target}
        /\ \A v \in Tagged(localTag) : localTag'[v] = localTag[v]
        /\ localTag'[target] = local
        /\ UNCHANGED <<target, local, remoteTag, abandoned>>
    BY <1>8, <1>a, OtherSteps
  <2>2. ASSUME NEW x \in Tagged(localTag') \ Tagged(remoteTag), NEW u \in Below(x)
        PROVE  HasWork(localTag'[x], u)
    <3>1. CASE x = target
      BY <1>b, <1>t, <2>1, <2>2, <3>1 DEF InWork
    <3>2. CASE x # target
      BY <1>b, <2>1, <2>2, <3>2 DEF Here
    <3>3. QED
      BY <3>1, <3>2
  <2>3. Here'
    BY <2>1, <2>2 DEF Here, Below, HasWork, CutAgain
  <2>4. QED
    BY <1>1, <1>2, <1>t, <2>1, <2>3 DEF InWork, Here, There
<1>9. CASE PushTag
  <2>1. /\ pc' \notin Preparing /\ UNCHANGED <<localTag, abandoned>>
        /\ target \in Tagged(localTag) /\ localTag[target] = local
        /\ Tagged(remoteTag') = Tagged(remoteTag) \cup {target}
        /\ \A v \in Tagged(remoteTag) : remoteTag'[v] = remoteTag[v]
        /\ target \notin Tagged(remoteTag) => remoteTag'[target] = local
    BY <1>9, <1>a, <1>t, OtherSteps
  <2>2. \A x : Below(x) \subseteq Tagged(remoteTag)
    BY DEF Below
  <2>3. ASSUME NEW x \in (Tagged(localTag) \cup Tagged(remoteTag))', NEW u \in Below(x)'
        PROVE  u \in Below(x)
    <3>1. CASE target \in Tagged(remoteTag)
      BY <2>1, <2>3, <3>1 DEF Below
    <3>2. CASE target \notin Tagged(remoteTag)
      <4>1. \A w \in Tagged(localTag) \cup Tagged(remoteTag) : w <= target
        BY <1>9, <1>t, <3>2, PushedOnTop
      <4>2. x \in Nat /\ ~(target < x)
        BY <1>t, <2>1, <2>3, <4>1
      <4>3. QED
        BY <2>1, <2>3, <4>2 DEF Below
    <3>3. QED
      BY <3>1, <3>2
  <2>4. ASSUME NEW x \in (Tagged(localTag) \ Tagged(remoteTag))', NEW u \in Below(x)'
        PROVE  HasWork(localTag[x], u)'
    <3>1. HasWork(localTag[x], u)
      BY <1>b, <2>1, <2>3, <2>4 DEF Here
    <3>2. u \in Tagged(remoteTag)
      BY <2>2, <2>3, <2>4
    <3>3. QED
      BY <2>1, <3>1, <3>2 DEF HasWork, CutAgain
  <2>5. ASSUME NEW x \in Tagged(remoteTag)', NEW u \in Below(x)'
        PROVE  HasWork(remoteTag[x], u)'
    <3>1. u \in Below(x) /\ u \in Tagged(remoteTag)
      BY <2>2, <2>3, <2>5
    <3>2. HasWork(remoteTag'[x], u)
      <4>1. CASE x \in Tagged(remoteTag)
        BY <1>b, <2>1, <3>1, <4>1 DEF There
      <4>2. CASE x \notin Tagged(remoteTag)
        BY <1>b, <2>1, <2>5, <3>1, <4>2 DEF Here
      <4>3. QED
        BY <4>1, <4>2
    <3>3. QED
      BY <2>1, <3>1, <3>2 DEF HasWork, CutAgain
  <2>6. QED
    BY <1>1, <2>1, <2>4, <2>5 DEF InWork
<1>10. CASE PushToMain \/ PushWork
  <2>1. /\ UNCHANGED <<target, local, localTag, remoteTag, abandoned>>
        /\ pc' = pc \/ pc' \notin Preparing
    BY <1>10, <1>a, <1>t, OtherSteps
  <2>2. InWork'
    BY <1>b, <2>1 DEF InWork, Below, HasWork, CutAgain, Preparing
  <2>3. QED
    BY <1>2, <1>3, <2>1, <2>2 DEF InWork, Here, There
<1>11. CASE Repair
  <2>1. /\ pc' \notin Preparing /\ localTag' = remoteTag /\ UNCHANGED <<remoteTag, abandoned>>
    BY <1>11, <1>a, <1>t, OtherSteps
  <2>2. Here'
    BY <2>1 DEF Here
  <2>3. QED
    BY <1>1, <1>2, <2>1, <2>2 DEF InWork, Here, There
<1>12. CASE Abandon
  <2>1. /\ pc' \notin Preparing /\ UNCHANGED <<localTag, remoteTag>> /\ abandoned \subseteq abandoned'
    BY <1>12, <1>a, <1>t, OtherSteps
  <2>2. QED
    BY <1>1, <1>2, <1>3, <2>1 DEF InWork, Here, There
<1>13. CASE Quiet
  <2>1. /\ UNCHANGED <<local, localTag, remoteTag, abandoned>>
        /\ pc' \in Preparing => pc \in Preparing /\ target' = target
    BY <1>13, <1>t DEF Quiet
  <2>2. InWork'
    BY <1>b, <2>1 DEF InWork, Below, HasWork, CutAgain, Preparing
  <2>3. QED
    BY <1>2, <1>3, <2>1, <2>2 DEF InWork, Here, There
<1>14. QED
  BY <1>4, <1>5, <1>6, <1>7, <1>8, <1>9, <1>10, <1>11, <1>12, <1>13, StepKinds

\* Every step keeps the invariant.
LEMMA TagStep == TagInv /\ [StableNext]_svars => TagInv'
<1>1. TagInv => ReleaseInv
  BY DEF TagInv
<1>2. QED
  BY <1>1, ReleaseStep, ClonePassesTagsKept, TagsPreparedKept, TargetOnTopKept, QueueInTurnKept,
     PartWithWorkKept, CloneInOrderKept, WorkFollowsKept, TagsHaveWorkKept DEF TagInv

\* The tag before is one of those below.
LEMMA TagImplies == TagInv => TagHasRealWork
<1> SUFFICES ASSUME TagInv, InOrder, NEW v \in Tagged(remoteTag) \ {0}
             PROVE  \/ works(remoteTag[v]) >
                          works(remoteTag[Max({u \in Tagged(remoteTag) \ abandoned : u < v})])
                    \/ CutAgain(remoteTag[v])
  BY DEF TagHasRealWork
<1>a. Typed /\ TagsPrepared /\ TagsHaveWork
  BY DEF TagInv, ReleaseInv
<1>t. /\ MaxVersion \in Nat /\ v \in Nat
      /\ \A u \in Tagged(remoteTag) : u \in 0..MaxVersion /\ remoteTag[u] \in Commits
  BY <1>a, TypedFacts, StableAssumption DEF Versions
<1>1. Below(v) \subseteq 0..MaxVersion /\ 0 \in Below(v)
  <2>1. 0 \in Tagged(remoteTag) /\ 0 \notin abandoned /\ 0 < v
    BY <1>a, <1>t DEF TagsPrepared
  <2>2. Below(v) \subseteq Tagged(remoteTag)
    BY DEF Below
  <2>3. QED
    BY <1>t, <2>1, <2>2 DEF Below
<1>2. Max(Below(v)) \in Below(v)
  BY <1>1, <1>t, MaxMinBound
<1> DEFINE before == Max(Below(v))
<1> HIDE DEF before
<1>3. before \in Below(v) /\ before \in Tagged(remoteTag)
  BY <1>2 DEF before, Below
<1>4. HasWork(remoteTag[v], before)
  BY <1>a, <1>3 DEF TagsHaveWork
<1>5. works(remoteTag[v]) \in Nat /\ works(remoteTag[before]) \in Nat
  <2>1. remoteTag[v] \in Commits /\ remoteTag[before] \in Commits
    BY <1>t, <1>3
  <2>2. QED
    BY <2>1, HistoryOrder, WorkCounts
<1>6. works(remoteTag[v]) > works(remoteTag[before]) \/ CutAgain(remoteTag[v])
  BY <1>4, <1>5 DEF HasWork
<1>7. QED
  BY <1>6 DEF before, Below

\* A tag of GitHub carries work of somebody else over the tag before it that was
\* not abandoned (commits_since_tag_have_real_work), whatever probe answered
\* wrongly or push failed before, while versions are cut in order and none again
\* in its history.
THEOREM TagsCarryWork == StableSpec => []TagHasRealWork
<1>1. StableInit => TagInv
  BY TagInit
<1>2. TagInv /\ [StableNext]_svars => TagInv'
  BY TagStep
<1>3. TagInv => TagHasRealWork
  BY TagImplies
<1>4. QED
  BY <1>1, <1>2, <1>3, PTL DEF StableSpec

=============================================================================
