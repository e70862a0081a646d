# Attestplane in TLA+

TLA+ modules of the parts of this repository that keep state and do more than
one thing at a time, the TLC runs that check them on small instances, and
TLAPS proofs that hold for every instance. `PROJECT.json` lists the components,
the runs, the source lines of each definition, the hazards and the theorems.

    tlc -config MCSubstrate.cfg MCSubstrate.tla     # a run
    tlapm LogProofs.tla                             # the proofs

`py/` below stands for `sdk/python/src/attestplane/`, `autodev/` for
`scripts/autodev/temporal/`, `runner/` for `scripts/local_codex_runner/` and
`release/` for `scripts/release/`.

## 1. The system

Three programs live in the repository: the SDK that writes, anchors, signs and
verifies a hash-chained audit log; the automation that turns issues into merged
pull requests, once with Temporal and once with lanes on a local machine; and
the release trains that turn merged work into published packages.

| Component | State | Operations | Interacts with |
|---|---|---|---|
| Hash chain, `py/hashchain.py` | none | `chain_extend`, `verify_chain`, `head_of` | called by the substrate, the storage and the verifiers |
| Substrate, `py/substrate.py` | `_events`, `_tip`, `_lock` | `append`, `tip`, `verify`, `snapshot`, `from_events` | threads of one process; the signer takes snapshots |
| JSONL storage, `py/storage/jsonl.py` | the file, the handle and its buffer, `_lock` | `append`, `scan`, `read_all`, `close` | the application hands it what the substrate returned |
| Anchorer, `py/anchoring/worker.py` | queue, results, counters, thread, two events | `enqueue`, `start`, `stop`, `step_once`, `drained_results` | a TSA provider, called with no lock held |
| Signer, `py/signing/signer.py` | queue, results, last signed seq, thread | `enqueue_*`, `pull_...`, `step_once`, `start`, `stop` | a key provider; the substrate's snapshot |
| Verifiers, `py/anchoring/`, `py/signing/verifier_ext.py` | none; anchors and signature records are collected by the application | `verify_chain_with_anchors`, `..._with_signatures`, `verify_chain_full`, the live variant | TSA, HTTP, Rekor and mock providers; OCSP; trust roots |
| Proof bundles, `py/proof_bundle.py`, `py/verifier.py`, `py/cli/` | the builder; a file that travels | `ProofBundleBuilder`, `verify_proof_bundle`, `verify` in text, module and JSON form | a chain and its signatures |
| Alpha envelope, `py/cli/proofbundle_alpha.py` | one file with parts derived from a bundle | build, sign, anchor, `verify` | a bundle that may be built again |
| Merge lock, `autodev/db.py` | one SQLite row | `acquire_`, `verify_`, `release_merge_lock` | every worker process and every host |
| `merge_pr`, `autodev/activities/merge.py` | where the attempt is | one activity, an `await` at every call | Temporal, GitHub, a shared clone, the lock |
| Pipeline, `autodev/` | `pipeline_runs`, `stage_events` | implement, create_pr, fix_ci, review, post_review, orphan cleanup | Temporal, GitHub, worktrees |
| Local Codex runner, `runner/` | a state file and a worktree per lane; labels | `run_once`, `run_issue`, `recover_needs_human`, queue advance | lanes in processes of their own, git, GitHub, Codex |
| Alpha train, `release/alpha_release_train.py` | a queue file, a database of stages and push tasks, a STOP file | candidate by candidate: gates, main, tag, GitHub Release, registries | git, GitHub, PyPI, npm, a maintainer |
| Stable train, `release/stable_auto_train.py` | the clone, its tags, a list of abandoned tags | reconcile, select, prepare, push, wait for CI, tag, dispatch, sign | GitHub, `release-cd.yml`, the registries, maintainers |
| Settlement, replay, event payloads, adapters, TypeScript SDK, rc train | none to speak of | comparing, parsing, encoding, I/O | |

What is hard here: interleavings of threads around short critical sections; a
provider call made with nothing locked; a stop that gives up waiting and a
start after it; I/O that fails halfway; a process that dies between write and
fsync, or between an effect on a remote and the record of it; attempts that
Temporal gives up but that still run; a clone whose `origin/main` is old; GitHub
states that lag behind a push; evidence that outlives the chain it speaks of;
three front ends that order the same checks differently; files whose parts were
made at different times.

What makes each part correct:

* Substrate: the list is linked and the tip is its head whenever the lock is
  free; what was read or returned stays on the chain.
* Storage: what was acknowledged is read back, or reading fails.
* Anchorer: one outcome per item, handed over once; no item in two places;
  items settle while a worker runs; a stopped worker ends.
* Signer: the last signed seq is the newest signed head; every event is covered
  by a signed head in the end; no batch boundary is passed over without an error.
* Verifiers: an accepted RFC 3161 anchor or signature is genuine, in time and about
  this chain; a genuine one is accepted; a further signature never makes a seq worse
  signed. (A further anchor that is bad does take "verified" away, and the signature
  status of a whole bundle is the worst over its seqs, `verifier_ext.py:408-409`.)
* Bundles: what is built verifies; what is accepted agrees with itself; the
  front ends agree. Envelopes: accepted means the parts that are compared speak of
  the bundle.
* Merge: a holder keeps its row; the head that was seen to pass CI is the one merged,
  unless the branch moves or GitHub's view lags; a recorded merge is real.
* Pipeline: one dispatch of auto-loop; a run fails only when its attempts did;
  what is merged was reviewed, or is the rebase of what was; a run ends.
* Runner: a lane commits its own work only; labels tell the truth; attempts are
  capped; a cycle ends.
* Trains: a recorded stage is true of the remote; a tag names the commit of its
  release; what is published passed CI and is on main; work is released in the end.

## 2. Modules

| Module | Models | Uses |
|---|---|---|
| `HashChain` | the pure chain functions | |
| `Substrate` | `AttestSubstrate` under threads | `HashChain` |
| `JsonlStorage` | the storage backend and its file | |
| `AuditLog` | abstract: a log that grows at its end and keeps its acknowledged prefix | |
| `DurableLog` | substrate + storage + crashes and restarts | `Substrate`, `JsonlStorage`, refines `AuditLog` |
| `AnchorOutcome` | abstract: each item decided once, handed over once | |
| `Anchorer` | the anchorer worker and its callers | refines `AnchorOutcome` |
| `Signer` | the signer worker and its callers | |
| `ChainEvidence` | anchors and signatures of a chain that may be restored, and their verifiers | |
| `ProofBundle` | the builder, edits of the file, and the verifiers of a bundle | |
| `AlphaEnvelope` | the alpha envelope and its verifier | `ProofBundle` |
| `Verification` | evidence, then a bundle made from it, then an envelope | `ChainEvidence`, `AlphaEnvelope` |
| `MergeLock` | the lock row | |
| `MergePr` | merge_pr under Temporal and GitHub | `MergeLock` |
| `Pipeline` | the workflow of one issue with its worker and cleanup | |
| `CodexRunner` | lanes, their state files, GitHub's labels and pull requests | |
| `ReleaseTrain` | what both trains have: a place, the tags of a clone and of GitHub, steps that fail | |
| `AlphaTrain` | the alpha train in queue and in full-auto mode | `ReleaseTrain` |
| `StableTrain` | the stable train, its workflow and its maintainers | `ReleaseTrain` |
| `LogProofs` | the theorems about `Substrate` and `DurableLog` | `DurableLog`, `TLAPS` |
| `AnchorerProofs`, `SignerProofs`, `MergeProofs`, `PipelineProofs`, `CodexRunnerProofs` | the theorems | the module of the name, `TLAPS` |
| `TrainProofs` | the theorems about both trains | `AlphaTrain`, `StableTrain`, `TLAPS` |
| `VerificationProofs` | the theorems about evidence, bundles and envelopes | `Verification`, `TLAPS` |
| `MC*` | definitions for TLC only (permutations, certificates, sets of requests) | |

### Correspondence

**HashChain.** A digest is the pair of what is hashed, so it is injective and
never equals `GENESIS_HASH`. An event refers to the dict of its draft, as the
frozen dataclass does; `heap` says what the dicts hold when the hash is taken.

**Substrate.** `append()` is `Acquire`, `Extend` (or `Reject` when
canonicalisation raises) and `SetTip`, which releases the lock. `ReadTip` is
`tip()` and every other reader that takes the lock. `Refill` is the caller who
changes a dict it handed over. Event ids are issued once. Timestamps are left
out: they are hashed, and no code compares them.

**JsonlStorage.** The file is a sequence of lines: a record and its newline
(whole), the head of a record (partial), heads run together (mixed), or a line
that is no record (spoiled). A raw write puts a piece at the end of the last
line when that has no newline, and begins a line otherwise. `pending` is the buffer of the
Python file object, which keeps a small line after a failed flush and writes it
with the next flush or `close()`, and loses a large one: both outcomes are
taken. A row that does not serialise, and a file that does not open, are
`FlushFails` with nothing written. The directory entry of a new file is taken
to survive a power loss once the file is synced; the code syncs no directory.
`ScanEvents`, `ScanComplete` are `scan()` and the condition under which
`read_all()` does not raise.

**DurableLog.** Every thread runs `docs/quickstart.md:68-70`. `Crash` keeps the
file, `PowerLoss` keeps some prefix that contains what was synced, its last
line perhaps cut. `Restart` is `read_all()` and `from_events()`; a process that
raises there stays `refused`. `alone` is chosen at the start: one writer and no
I/O error, where the refinement holds, or several of them. Callers do not refill
dicts here.

**Anchorer.** `step_once()` is `Pop`, then `PushBack` or `Request`, then one of
the answers. `pc` says where each actor is. `Joined` may happen while the worker
is alive, as `join(timeout)` may, so a later `Start` makes a second worker.
`delay` and `backoff` count seconds, `Tick` is one. `MultiTSAProvider` is the
provider whose only outcome is an exception: it has no `request_timestamp`. `Start`
may run while `stop()` joins: the two share no lock. Left
out: counters that only grow and that nothing reads.

**Signer.** The walk is `TakeSnapshot`, `Walk`, one `EnqueueFound` per
candidate in seq order and `WalkDone`; an actor then signs as in the Anchorer.
`SnapshotRaises` is the `except Exception` of `_run`: a walk that raises is counted,
and the thread goes on.
`signed` counts results per item and saturates at two. One worker at a time:
overlap is the Anchorer's, and the code of `start()` and `stop()` is the same.
Direct calls of `sign_event()` and `sign_segment_head()` change counters only.

**ChainEvidence.** An event is its number in the order of creation, so an event
that replaces a lost one at the same seq differs from it. `Restore` is a file
replaced by an older copy. A certificate is a record of names, keys, a signer
and a window; a token carries its leaf, its pool and an OCSP response with the
time it was made. `Walk` says that the loop of `verify_timestamp_token` gets to a
root: there is a path from the leaf along the issuers the code finds by name, to
no certificate twice and within `max_chain_depth`. The loop has one choice at each
step, so the path is the one it takes. `Genuine`, the reference, looks at no order
and no depth: every set of certificates closed under the links that hold has one
issued by a root. The verifiers are operators of the trust list, the
trusted keys and the time, and the properties quantify over all of them.
Cryptography is right or wrong, never probable, and a key is a key: that the code
takes RSA only (`rfc3161.py:466`, `ocsp.py:142`) is left out. A Rekor record names
the key it is checked with, and the provider checks no signature, so `RekorAnchors`
takes any signer; an OCSP response with a responder certificate of its own is good
whoever issued that, and one without `nextUpdate` is never stale. `SoundAnchor` says
what is left of each kind of anchor.

**ProofBundle.** A bundle is a record of the fields the verifiers read, each
with the few values they tell apart: rows by seq and form, the report, the
anchoring block, retention proofs, signatures. `Edit` sets one field to another
value; two edits may cancel out. `verify_proof_bundle` and the three front ends
are operators in the order of the code's checks. What cryptography or schema
validation says of a field is its `form`.

**AlphaEnvelope.** `Rebuild` replaces the bundle and leaves the derived parts
stale, `Refresh` derives one again, `Break` spoils one. A statement is the metadata
of its bundle, which the verifier compares, and the rest of its predicate (events,
report, mappings, forbidden fields), which it does not. A rebuilt bundle may name an
obligation twice or an unknown one. `Failures` lists the
failing checks in the order of the code, `AlphaExit` is the exit status.

**MergeLock, MergePr.** `takes_lock` is the decision of
`_acquire_merge_lock_impl`, whose transaction is atomic. An attempt is a pair of
a workflow and an attempt number; the row carries the workflow (its id and run
id), as in the code, so attempts of one workflow are not told apart by it.
`TimeOut` is `start_to_close_timeout`: Temporal no longer waits, and may start the
next attempt at once. The attempt learns of it at its next `await` (`Cancel`); one
that is inside the lock has its `finally` still to run, and the call it waited for
goes on in its thread (`thread`, `ThreadStep`), as the child process of a worker that
died does. A branch is the version of main it is based on. `ci` is the CI of its head
and `stale` that of the former head while GitHub still shows it; nothing in the code
asks which head a view is of. `OtherPush` is somebody else's push to the branch.
`current` says of an attempt that the branch has not moved since it fetched it, or
since it saw its checks pass: it is the lease of the push, and the history variable of
`SeenHeadsPassed`. What GitHub answers (`View`, `CIStep`) is external and is
modelled from how the code reads it.

**Pipeline.** One action per stretch between two `await`s; the calls of `db.py`
inside are synchronous. A fault is an exception, a timeout or the loss of the
worker; Temporal's retries, and the runs that an issue is given again, are
`NextAttempt` and `StartRun`. The cleanup of `worker.py` reads the rows, then
asks Temporal, then writes: three actions, in a worker that has just come up.
`merge_pr` is two steps here: `RebaseOntoMain`, which may push a head that nobody
has reviewed, and `MergePullRequest`, which merges whatever the head is by then;
`MergePr` has their detail. `source` is the head as it was before `merge_pr` of this
run rebased it. `git push` moves the tracking ref itself, so a push of
the bot and that move are one step.

**CodexRunner.** A lane is a process in a worktree; a branch is the pair of lane
and issue in its name. `pc` names the step of `run_issue()` or of
`recover_needs_human()` a lane is at; a call that raises goes through `Except`,
which is the except clause, and one that raises in there ends the cycle. `head`
holds the branch checked out and whether its commits are pushed, ahead, or made
anew from the base of a branch pushed before (`diverged`). A state file cut off
by a crash stops the lane for good. `advance_queue.py` is `MergePr`. State files
start with any number of attempts counted, as an earlier process leaves them.

**AlphaTrain.** Release n is the n-th candidate and the commit that prepares it;
a release in `Boundary` has patch number 0 and goes to the registries. Each
stage is recorded after its effect: `DiesPushing` is a process that dies with some of
a batch pushed and some of that recorded, `DiesUnrecorded` one that dies after the
GitHub Release or the package is there, and `PushTags` may record fewer tags than
arrived when a probe fails. `Crash` falls anywhere else. A push may be
put off by a cooldown (`task`), the STOP file and a candidate taken again are
modelled. In queue mode a maintainer prepares; in full-auto mode the train does.

**StableTrain.** A commit is the history of main up to it, so a descendant has
its ancestor for a prefix. `PushWork` is a commit of somebody else at any time; a
push to main cancels the CI of the commit before it. Each probe of a registry or of
the remote may fail on its own, and reads as "no" then (`seen_complete`,
`remote_tag_exists`). `ReleaseCd` is
`.github/workflows/release-cd.yml` with the steps that other state depends on, among
them the npm job that refuses a version which is there without its dist-tag
(`npm_refuses`). Left out on purpose: `FORCE_CADENCE`, with which an operator asks for
a version without work, and a `git log` that fails locally, which the code takes for
work (`stable_auto_train.py:945-960`).
A maintainer cleans a dirty tree, repairs a clone that diverged, and lists a tag
that cannot be published as abandoned.

## 3. Runs

| Run (cfg) | Bounds | Shows |
|---|---|---|
| `substrate` (`MCSubstrate`) | 3 threads, 4 events | Links and tip hold whenever the lock is free; heads read and events returned stay on the chain |
| `durable` (`MCDurableLog`) | 2 writers, 3 events, failing writes and fsyncs, 2 crashes or retries; or 1 writer, 3 crashes, no I/O error | Nothing acknowledged is lost without a refusal; a running chain verifies; alone it implements `AuditLog` |
| `anchorer` (`MCAnchorer`) | 2 items, 2 workers and a caller, backoff up to 2 s, all outcomes | No item twice; each implements `AnchorOutcome`; items settle; stopped workers end |
| `signer` (`MCSigner`) | 3 events, batches of 2, 1 error, 2 starts, 1 request by hand | Newest head recorded; no boundary passed over without an error; every event covered in the end |
| `merge_pr` (`MCMergePr`) | 2 pull requests, 2 hosts and 2 attempts: both of one pull request, which may overlap, with pushes of others and stale views, or one of each, with 1 crash | A holder keeps its row; recorded merges are real; a head seen to pass is the one merged |
| `merge_overlap` (`MCMergeOverlap`) | 1 pull request, 2 attempts | violation, finding 1 |
| `pipeline` (`MCPipeline`) | 2 runs of 2 attempts, 2 faults a run, 1 push by somebody else | One dispatch; failures are exhausted retries; the cleanup keeps merges; what merges was approved; a run ends |
| `codex_runner` (`MCCodexRunner`) | 2 lanes, 1 issue, 1 fix round, 1 CI round, cap 1, 2 cycles, 1 fault | What is committed, what labels say, attempts, cycles end |
| `alpha_train` (`MCAlphaTrain`) | 3 releases, the second a boundary, 3 faults | Records are true of the remotes; tags; candidates are finished |
| `stable_train` (`MCStableTrain`) | 4 versions, the second queued, 2 commits of others, 3 faults | What is published passed CI; versions carry work; work is released |
| `stable_drops_tag` (`MCStableDrops`) | 3 versions, 2 faults | violation, finding 2 |
| `verification` (`MCVerification`) | 2 events, 2 pieces of evidence, 10 certificates, 2 keys, 2 edits, 1 rebuild | Verifiers are sound and complete on genuine evidence, monotone, and agree |

The properties, in the order of the runs:

* `OnlyAlteredEventsFail`, `SeenHeadOnChain`, `ReturnedEventsAreOnChain`: no
  interleaving breaks a link, moves a head somebody holds, or returns an event
  that is elsewhere.
* `AckedNeverLost`: a process that comes up has every acknowledged event at its
  seq. `RunningChainVerifies`: `verify()` holds in it. `AppendOnlyLog`: the
  refinement.
* `NoItemTwice`, `OneOutcomeEach` (the refinement), `EveryItemSettles`,
  `StopEndsWorkers`.
* `LastSignedIsNewest`, `NoBoundarySkippedWithoutError`, `EveryEventCovered`.
* `LosesRowOnlyToItself`, `RecordedMergeIsReal`, `SeenHeadsPassed`. The first and the
  last name what the code does not exclude: the `finally` clause of an earlier attempt
  of the same workflow, and a branch that moves, or a view that lags, between the
  checks that were seen and the merge.
* `AtMostOneDispatch`, `FailsOnlyWhenExhausted`, `CleanupKeepsMerged`,
  `MergedWasApproved`, `RunEnds`.
* `CommitsOwnWork`, `GreenLabelIsReal`, `OpenPrIsMarked`, `AttemptsCapped`,
  `CycleEnds`.
* `ReleasedIsPublic`, `TagsAreForTheirCommit`, `StagesAreTrue`,
  `QueueModeCompletes`. The last one is about queue mode only: in full-auto mode
  a candidate that waits for a cooldown is not in the queue file and the next
  cycle prepares another.
* `PublishedPassedCi`, `TagHasRealWork`, `WorkIsReleased`. The last one allows
  these ways out: the push CI of main failed (a person must fix main), a version
  was cut twice or after a higher one (both follow from finding 2), or the model's
  versions are used up. `TagHasRealWork` speaks, for the same reason, of versions
  cut in their order (`InOrder`), and of commits in whose history no version is cut
  once more under a tag that GitHub has (`CutAgain`).
* `VerifiedMeansSound`, `GenuineAnchorsVerify`, `EvidenceOnlyAdds`,
  `AcceptedIsClosed`, `BuiltBundlesVerify`, `FrontEndsAgree`, `AlphaDecides`. What is
  sound is said by the kind of the anchor: of a Rekor anchor only that the key which
  its own record names signed the entry.

**Why the bounds are enough.** Three threads let a third act between the two
steps of a second while the first holds a stale head. Two writers and three
events give each order of storing, a retry of the middle event and a gap. Two
items and two workers give an item in backoff at the head, a worker in a TSA
call whose join timed out, its successor, and a caller of `step_once()`. A
batch of two with three events has a boundary, a tail that is none, and a walk
that starts above a signed head. Two pull requests from one main are enough for
one to be merged under the other, and two attempts of one for every overlap of a
retry with the attempt it replaces; together they are too many states, so
`TwoAttempts` takes two attempts in all and leaves failing checks, lagging views and
pushes of others to the first case and the crash to the second (the theorems have no
such bounds); `Budget < TTL` is the relation of 2700 s and 3000 s
that `db.py:22` states. Two attempts and two faults in a run let an activity
fail for good and succeed after a fault; two runs let the second one resume in
each stage of the first. Two lanes on one issue share its labels and may open
two pull requests for it; two cycles are a failure and its recovery, or two
processes of one lane. Recovery of a branch of another lane needs three cycles
and is in the proofs, which hold for all bounds, and not in the run. Three
releases let a candidate be taken again when the clone is one and two commits
ahead, with one boundary release among them; three faults are a push put off, a
crash and another one in the resumed run. Four versions and two commits give a
version abandoned, its successor, and a commit that arrives during a cycle; the
queue skips a version, as `autodev-train-targets.json` does, and the third fault
lets the cycle begin without any tag. Two
events and two pieces of evidence give two signatures at one seq, evidence for a
lost event, and a head that does not cover the tail; the certificates are a CA
that renewed its root and its intermediate under the same names, a cross-signed
loop, an intermediate without the CA flag and a leaf that expires; the lists of
trusted roots hold both roots of that CA, and a root of another name first; two edits
let an edit be covered up by another one. Threads and pull requests are taken up to permutation in
the runs without liveness: no definition tells them apart.

`CHECK_DEADLOCK FALSE` is set where the system may rightly stop: the bounded
events are used up, a restart was refused, starts are used up, all attempts
ended, the train stands still, or the file has been verified.

**Fairness.** The Anchorer's: threads are scheduled (`WF` of `Run` and
`StepOnce`), time passes (`WF` of `Tick`), `join()` returns, and a TSA that is
asked again and again gives a definite answer some day (`SF`); without the last
an outage may last for ever. `EveryItemSettles` exempts an item that an
unexpected exception took: the code loses it. The Signer's: its thread, a caller
inside `step_once()` and `join()` go on; a provider fails only `MaxErrors` times.
The pipeline's: an activity goes on (every wait in it has a timeout), Temporal
retries, and a worker that died is started again and cleans up (`WF` of
`Activity`, `Temporal`, `Cleanup`). The runner's: a process that has started goes
on (`WF` of the steps of each lane); nobody need start a cycle, and checks need
not end, since `wait_for_ci()` has a deadline. The alpha train's: it goes on, is
started again by its operator, and cooldowns end. The stable train's: it goes on,
workflows end, a dirty tree is cleaned (`WF`); a clone that diverges is repaired
and a tag that cannot be published is abandoned, by maintainers, if it is needed
again and again (`SF`): the code stops with a message that asks for it and the
train cannot go on without. No run assumes that an application appends, starts or
stops anything.

**The overlap of attempts.** A retry may start while the attempt it replaces is
in its `finally` clause or has a call in a thread: nothing in the model or the proofs
excludes it. That clause deletes the row of the retry (run `merge_overlap`), so
`LosesRowOnlyToItself` excepts exactly this. `verify_merge_lock()` before the merge
then ends the attempt that lost its row.

## 4. Where code and documentation disagree

With a run that shows it:

1. `db.py:206`: "release() is safe on retry" (`ReleaseSafeOnRetry`). See the overlap of attempts.
2. `stable_auto_train.py:662-663`: the reconciliation drops a tag only if it "has
   not reached the remote" (`DropsOnlyUnpublishedTags`). `remote_tag_exists()` (line 641) answers False when
   its probe fails three times, and the tag of a version whose tag is on GitHub
   goes. The version is then cut at another commit, while GitHub keeps the first;
   or, when the queue skips versions, the next cycle cuts a lower version after
   the higher one, and the train then stays with the higher one for good: npm's
   `latest` is the lower, and nothing moves it.

Met while modelling, with no run of their own. In the SDK:

* `storage/base.py:100`: a failed `append()` leaves "the storage state
  unchanged". The line is in the file when `fsync` raises. `read_all()` "in seq
  order" (`base.py:111`) is broken by two writers without an error.
* `worker.py:100-102`: "wrap a MultiTSAProvider". It has no
  `request_timestamp`; the exception passes `worker.py:226`, ends the thread and
  the item is lost.
* `signer.py:353-354`: a head at every boundary after the last signed one. A
  boundary that failed (`signer.py:302`) is passed over when a later head is
  signed: `NoBoundarySkippedWithoutError` says no more than the code gives.
  `signer.py:218-219` "without re-signing duplicates": an error or a restart
  makes it sign again.
* `anchoring/verifier.py:531`: `verify_live_anchor_with_provider` verifies a list
  of one event, and indexes it by seq: an event of seq 1 or more raises
  `IndexError`.
* `sigstore.py:340` speaks of "the configured public key", and the docstring of
  `verify_chain_with_anchors` of a leaf that chains "to one of the configured trust
  roots" (`anchoring/verifier.py:137-138`). A Rekor record is checked with the key it
  holds itself (`anchoring/verifier.py:267`), as ADR-0006 section 3 says it is, so it
  is valid whatever the roots are.
* `sigstore.py:20-21` "verifies the `signedEntryTimestamp` against a configured Rekor
  public key": `request_timestamp()` (line 122) verifies no signature of the answer.
* `ocsp.py:131-137` accepts a responder certificate that the response carries without
  a link to the issuer.
* `anchoring/verifier.py`: `anchored_seqs` is filled in the Rekor branch only;
  `EXPIRED_VALID_AT_ISSUANCE` is never produced; the issuer is looked up by
  name, so a CA that renewed its key under the same name may give the wrong
  certificate (`GenuineAnchorsVerify` holds where names are unique); where no
  certificate of the record is the issuer of the leaf, OCSP responses are checked
  with the first configured root (`anchoring/verifier.py:353-354`), so an anchor
  that another root issued directly is found invalid; the HTTP provider verifies without intermediates; `.ok` says "at least one" and wants all.
* `verifier_ext.py:324-328`: a valid per-event record together with an invalid
  segment head at one seq counts as covered by the head.
* `verify_json.py:275` calls `_bundle_failure_reason` without the bundle, so a
  missing signature is reported as `SIGNATURE_INVALID` when the chain is broken
  too (`docs/schema/verify-json.md:38-40`); a missing file exits with 2 although
  a usage error is 3; a bundle that cannot be canonicalised and is explicitly
  quarantined is reported with status `quarantined` and `quarantined: false`.
* The text form raises a traceback on a file that is not UTF-8 and on a pin with
  a file that is no object, accepts duplicate keys, and does not promote an early
  quarantine under `--strict-anchoring`; the JSON form looks for a row that is
  not canonical first. `FrontEndsAgree` states what they do agree on.
* `quarantined: true` with status `anchored` is verified. Dropping the last row
  of a bundle and mending its head gives a bundle that is accepted, as any chain
  without a signed head does.
* `proofbundle_alpha.py:260-269` compares the subject digest and the `chain_metadata`
  of the in-toto statement with the bundle, and nothing else of its predicate: after a
  rebuild with other mappings or another report, a statement and a signature of the
  earlier bundle are accepted. The documents claim no more than consistent shapes
  (`cli_proofbundle_verifier_alpha.md:33`).
* `proofbundle_alpha.py`: `CanonicalizationError` is not caught; the docstring
  says no cryptography is done; `error_code` is the first failure's and the exit
  status that of the worst.
* Duplicate and dangling retention proofs are found by the verifier and not by
  the builder.

In the pipeline:

* `merge.py:292`: the rebase is skipped when the branch "already contains the
  latest origin/main". The clone's `origin/main` (`merge.py:296`) may be older
  than main.
* `merge.py:376` "Wait for CI to re-run on the rebased commit before merging": neither
  the loop (`merge.py:383-391`) nor `gh pr merge` (`merge.py:421`) names the head it
  means. While GitHub still shows the former head as CLEAN, the new one is merged before CI
  has run, by one attempt alone; so is a head that somebody else, or a call left in a
  thread, pushes in between. `SeenHeadsPassed` excepts these cases.
* `merge.py:376` "Wait for CI to re-run": `BLOCKED` (`merge.py:396`), which a
  pull request with running required checks is, ends the run as failed.
  `merge.py:403` "Temporal will retry" follows a normal return, which is not
  retried. A head that is UNSTABLE for cosmetic reasons passes the first CI loop
  and never the second (`merge.py:201`); the branch for `ci_timeout_blocked`
  (`merge.py:237`) cannot be reached.
* `implement.py:114-115` "if a foreign actor pushed to the branch between
  attempts, we re-implement": the author of the last commit alone is compared
  (`implement.py:121`), so a foreign commit under one of the bot's is kept.
  `implement.py:67-68` "will remain in a failed state until manual triage": with
  an open pull request only the deletion and the reset of the row are skipped,
  and the activity goes on to implement.
* `implement.py:376` "will merge after review passes": a commit pushed between
  `review_pr`'s diff and the merge is merged on the approval of the older head, and
  so is the head that `merge_pr` rebases and pushes itself (`merge.py:69-88`), of which
  the code says that it "may differ from what was reviewed" (`merge.py:372`).
  `MergedWasApproved` has to except a foreign commit, and runs that resume an approved
  issue, and says of the rebase what it was made from.
* `worker.py:65-66` keeps the rows of completed workflows. The cleanup writes what
  a status read two `await`s earlier says: a run of the issue that was started
  in between may be marked failed while it goes on.

In the runner:

* Lanes do not claim an issue: two lanes may open a pull request each.
* `existing_clean_recovery` bypasses the cap, which is why `AttemptsCapped`
  allows one attempt for each fault; a rebuilt branch whose first version was
  pushed is rejected at each push, in recoveries too.
* A failed issue leaves its changes, and every later issue of the lane fails at
  `ensure_clean_worktree()` until a person cleans up. A state file cut off in its
  write stops the lane in the same way.
* `run_once.py:42-43` passes no labels, so the lane filters of the configuration
  (`config.py:72-73`) have no effect. `models.py:250-252` "filters out
  already-opened PRs and human-blocked issues locally": `should_process_issue()`
  (`models.py:210`) looks at the lane filters only. `runner/README.md:101` offers recovery with
  `auto_recover_needs_human`, and nothing calls `recover_needs_human()`.
* The branch of an issue can be checked out in the worktree of another lane after
  a recovery; only git's own refusal keeps `checkout -B` from moving it.

In the trains:

* `docs/runbooks/alpha-release-train.md:257-259` "the candidate remains pending":
  in full-auto mode a release whose tag exists is skipped
  (`alpha_release_train.py:1684`), so one that waits for the push of its tag is
  not taken up again.
  With `--max-count 1` a waiting first candidate blocks the ones after it, and
  with more the daily cap is passed by the rest of the batch.
* `local_gates_passed` skips the gates though HEAD has moved since;
  `pypi_published` is set from the workflow's conclusion and a wrong one never
  publishes again; `dist_tag_synced` is recorded and never observed; a workflow
  run is looked up as the newest one, which may be of another release; a
  boundary publication dispatched on `main` builds what main is then.
* `wait_for_push_ci` keeps the oldest run of those listed; a dirty tree, a
  diverged clone and a version with npm incomplete wait for a person; a signing
  that failed is never tried again.
* The rc train (not modelled): a failed push leaves a local tag that nothing
  recovers.

## 5. Proofs

All hold for every value of the constants that satisfies the named assumption of
the module.

`LogProofs` proves that `SubSpec` implies always `SubTypeOK`, `OnlyAlteredEventsFail`, `SeenHeadOnChain` and `ReturnedEventsAreOnChain`.

None of them is inductive: between `Extend` and `SetTip` the list is one event
ahead of the tip. `IInv` says who may be in that window (`LockHeld`: the
lock's holder and nobody else), what it is about to return (`LastIsReturned`),
that outside the window the tip is exact (`TipIsHead`), that there is room for
the event about to be made (`RoomForOne`), and that seq is position
(`SeqIsPosition`). `LinksNeverFail` adds `Linked`, the prev_hash of each event;
the event hashes cannot be part of an invariant, because `Refill` changes what
they would be compared with, and the theorem says exactly that. The step that
grows the list has lemmas of its own (`ExtendInvariant`, `ExtendedListLinked`,
`ExtendKeepsEvents`); `NextInvariant` has one step per action.

Of `DurableLog` it proves, for any number of writers, events, crashes and retries:

* `RunningChainVerifies`. `LogInv` is the above with exact hashes, since callers do
  not refill here, and with every returned event in its place. `StoreInv` says that
  one thread at a time is in the backend and that it stores what it was returned.
* `AckedNeverLost`, if `Durable`, which is the default of the backend
  (`durable: bool = True`); without it a power loss takes acknowledged events. An
  event is covered when it is on a line that is complete, or with a bad line before
  it, so that reading it back fails: `AckedCovered` says it of the synced part of the
  file for everything acknowledged, `OnItsWay` of the event between its write and
  its fsync. Later writes never change a line that has its newline.
* The refinement of `AuditLog`, if `Durable`. With one writer and no I/O error
  (`AloneInv`) the file is a prefix of the chain with at most its last line cut,
  and it is in step with the writer: behind by the event in hand, or by nothing.
  `AckedLength` is that of the newest acknowledged event (`NewestInv`). With several
  writers or I/O errors the log is mapped to the empty one, as section 2 says.

`AnchorerProofs` proves `NoItemTwice` and the refinement of `AnchorOutcome`, for any
number of items, workers and callers. An item is in two places only if an actor
had held one item while taking another (`HolderIsAtWork`) or if somebody had enqueued
one before (`NewIsNowhere`). The refinement needs that an item that waits or is in
hand is not decided (`OpenUntilSettled`) and one among the results is
(`SettledOnce`): each step is then one decision, one hand-over, or a stutter.

`SignerProofs` proves `SigTypeOK`, `LastSignedIsNewest` and
`NoBoundarySkippedWithoutError`. Types alone are not
inductive: `Sign` needs to know that an actor that signs holds an item and not
`None` (`HeldIsItem`). `SignKeepsNewest` is the one step that matters; the others
leave `signed` and `lastSigned` alone. For the third, the heads signed or on their
way have no gap while nothing fails (`NoGap`), and none of them is lost: an actor
takes an item with empty hands (`HandsEmpty`), and a walk starts with nothing left
to enqueue (`NothingLeftOver`).

`MergeProofs` proves, for any number of workflows, hosts, attempts, foreign pushes and
crashes, any `Budget < TTL`, and attempts that overlap as they like:

* `LosesRowOnlyToItself`. `Owned` says of a workflow whose awaited attempt is in the
  lock that the row, if it is the workflow's, is of the running process and no older
  than the attempt; with `Budget < TTL` it is never stale (`OwnerExcludes`), and a row
  that a call left in a thread takes is as good as the attempt's own (`NewRowIsOwn`).
* `RecordedMergeIsReal`. `RInv` says that what an attempt is about to report is so, and
  no step takes a merge back (`CallsKeepMerges`).
* `SeenHeadsPassed`. `CInv` says that while the branch is where an attempt past the
  second CI loop saw it, its head passed: CLEAN with checks is shown of the head itself
  only then (`CleanIsPassed`), and whoever gives the branch a new head makes every
  attempt's view old (`NewHeadUnseen`).

`PipelineProofs` proves `PipelineTypeOK`, `AtMostOneDispatch`,
`CleanupKeepsMerged`, `MergedWasApproved` and `FailsOnlyWhenExhausted`. `MarkerFirst` is why a second
dispatch is impossible: the marker is in the database before the dispatch is
tried, in every attempt and run. `CleanupAlone` says that while the cleanup is
between its reads no activity of this worker is at work, and `PlaceIsOfStep` ties
the place of an attempt to the step of its workflow. `HeadReviewed` follows the
head of the branch from the diff of a review over the rebase to the merge. `FailsOnlyWhenExhausted`
is a counting argument (`Counted`): each attempt that ends without a result costs a
fault, because in a first run nothing is left to raise one: the lease on the branch
holds (`LeaseHolds`), the branch is there from its push on (`BranchThere`) and the
pull request is open until it merges (`PrOpen`).

`CodexRunnerProofs` proves `CommitsOwnWork`, `GreenLabelIsReal`, `OpenPrIsMarked`
and `AttemptsCapped`, for any number of lanes and issues, so also where one lane
recovers the branch of another.

* `AtWork` keeps a lane on the branch of its issue, with nothing of another issue
  in the worktree, from `Begin` to `Commit`.
* `GreenHasPassed` needs that nobody else pushes to the branch a lane has found
  green (`WatchedPassed`): `OneCheckout`, which git enforces, keeps two lanes off
  one branch.
* `OpenPrIsMarked` needs that an issue at work has a label (`WorkIsLabelled`), and
  that `pr_opened` is on before `in_progress` comes off.
* `AttemptsCapped` is a counting argument, lane by lane (`TriesOf`): a fault leaves
  one attempt uncounted, or leaves commits unpushed (`Unpushed`) that let the next
  recovery of their branch past the cap, and not both. `HasRoom` is what a
  recovery knows of the cap at each of its places; `FileIsLoaded` says that what
  it counts on is what the file holds.

`TrainProofs` proves, of the alpha train, `ReleasedIsPublic`, `TagsAreForTheirCommit` and
`StagesAreTrue`. What a run is about to record must be true already, so the
invariant follows the candidate: it is the head of the clone while it is tagged
and built (`CandidateIsHead`), the stages before the place of the train are done
(`CandidateStages`), a push that waits is for a tag that exists
(`QueuedTagExists`), and a GitHub Release has its tag (`ReleaseHasTag`).

Of the stable train it proves `PublishedPassedCi`, for any queue and any number of
versions, commits and faults. Every tag of GitHub, published or not, is on a commit
of main that passed (`TagsPassed`); nothing is published without a tag
(`PublishedTagged`). A tag is pushed from the clone's, so the invariant follows the
version in hand (`InHand`): no tag while it is prepared, its tag at the head of the
clone from the push on, that head on main once it is pushed, and passed when the tag
goes out. Histories only grow by prefixes (`HistoryOrder`). What `select_target()`
returns is a version because a set of versions has a least and a greatest member
(`MaxMinIn`), which the well-foundedness of `<` on the naturals gives (`Least`).

And it proves `TagHasRealWork`. The train looks for work since the latest tag of
*the clone*, which may have lost the one that counts, so the proof is about what the
clone can miss:

* No tag is past the clone, and one it misses is strictly behind it
  (`ClonePassesTags`); a tag is on the commit that prepares its version
  (`TagsPrepared`).
* Where main and the clone part, maintainers went on with work and the train with a
  version (`PartWithWork`). So what follows a tag is work, or a version was cut again
  (`WorkFollows`): if the clone misses the tag before, there is work behind it all
  the same, and if it has it, `commits_since_tag_have_real_work` says so
  (`SelectHasWork`), because the clone's tags are in order with GitHub's
  (`CloneInOrder`).
* The only commit right on a tag would be that of a lower version from the queue.
  The queue is worked off from below (`QueueInTurn`), so GitHub has that version
  already and it is one cut again (`SelectOnTag`).
* The tag goes out above all others, or versions are out of order (`TargetOnTop`,
  `PushedOnTop`), so nothing between two tags with work is filled in later
  (`TagsHaveWork`).

The attempts to prove it showed that it was false as first stated, twice: where the
queue skips versions, a lower one may be cut after a higher one that the clone has
lost, and carry the same work as the next; and where versions that the clone has lost
are cut again, one without a tag on GitHub may follow with no work since. Both take a
probe that failed three times (finding 2), the second seven faults; the property now
says what excludes them, and the run has such a queue.

`VerificationProofs` proves all that the run `verification` checks, for chains of any
length, any certificates, keys, clocks and trust lists, and any number of edits and
pieces of evidence. The invariants are small, since the verifiers keep no state: the
evidence is made of lists and its responses are those a responder sends
(`EvidenceInv`), a bundle has the fields of a bundle and, while nobody has edited it,
what `build()` gave it (`BundleInv`), an envelope has its parts (`EnvelopeShape`). The
work is in the verifiers, and induction over data, which the provers do not offer, is
replaced by a least counterexample (`LeastOf`) wherever it is needed.

* `VerifiedMeansSound`, which promises a root of RFC 3161 anchors only: a walk that ends at a root stays in every set that is closed
  under the links that hold, by the first certificate of it that would not
  (`WalkIsGenuine`); what is valid is sound (`ValidIsSound`).
* `GenuineAnchorsVerify`: the certificates that the walk can get to are such a closed
  set, so one of them is issued by a root (`GenuineIsWalked`); names that are unique
  make the issuer found the one that is meant (`IssuerIsFound`, `IssuerHasTheKey`), and
  a path that repeats nothing has room in the pool. The attempt to prove it without
  its last three conditions failed for good reasons: it is false beyond the depth, and
  where the leaf's issuer is neither in the record nor the first root (section 4). A
  trust list that shows the second was then added to the run.
* `EvidenceOnlyAdds`: the best status of a larger set of records is no worse
  (`MoreRecordsAdd`), and only `valid` ranks as well as `valid` (`RankOf`).
* `AcceptedIsClosed`: what a verifier that reports no reason has seen (`Reasons`,
  `Outcome`, `AcceptedRows`). The references are those of the policy events, whose
  selection is a recursive function (`PolicyRows`).
* `BuiltBundlesVerify`: each check holds of what `build()` puts together, with or
  without each of its lists, whatever the order of the calls before.
* `FrontEndsAgree`: the exits by cases of the result (`ResultExit`, `ExitsMatch`); the
  reports because both lists of reasons start with the same one (`SevenReasons`,
  `JsonReasons`).
* `AlphaDecides`: what is accepted is what agrees in the parts that are compared
  (`Agrees`), by cases of the parts and of the two options; an envelope holds at
  most one signature and one anchor record, which the shape says.

Only model-checked: liveness, which is out of the prover's reach
(`EveryItemSettles`, `StopEndsWorkers`, `EveryEventCovered`, `RunEnds`, `CycleEnds`,
`QueueModeCompletes`, `WorkIsReleased`). Every other property of a passing run, the
refinements included, is stated by a theorem.

## 6. Not modelled

* Cryptography, canonicalisation, DER, HTTP and loading of keys: data, taken as
  injective, as a form or as an outcome. The eIDAS trust list is a list of roots.
* `settlement_verifier.py`, `replay_verifier.py`, `event_payloads.py`: stateless
  comparisons of one document with another, or schemas; their tests cover them.
* The adapters, the observability and the other commands of the CLI: formatting,
  forwarding and I/O.
* The TypeScript SDK: a port of the Python SDK in a single-threaded runtime.
* The rc train: a sequence of git and gh with no state between its cycles but
  tags. The architecture audit trigger: prompts and reports.
* Of the runner: the product-delta recovery, prompts, reports and the details of
  `advance_queue.py`, which is the merge of a green pull request.
* Of the stable train: the release gate, and the planning of issues and versions
  by models. Of both trains: what is in a package.
* The lock and the CI loops of `merge_pr` in `Pipeline`, beyond their outcomes:
  `MergePr` has them.

## 7. Plan

Done: all components of section 2 and the proofs of section 5. Left, in order of
importance:

1. `advance_queue.py` with its own interleavings with the lanes.
2. The rc train, on `ReleaseTrain`.
