------------------------------ MODULE CodexRunner ------------------------------
(***************************************************************************)
(* The local Codex runner (scripts/local_codex_runner): lanes that poll    *)
(* open issues (run_once.py), run Codex on each and open a pull request    *)
(* (run_issue.py), and a recovery of issues labelled needs-human           *)
(* (needs_human.py).  A lane is one process in a worktree of its own, with *)
(* a state file of its own; GitHub's issues, labels and pull requests are  *)
(* shared.  A branch is <<lane, issue>>: its name carries both.            *)
(*                                                                         *)
(* Of the state file only retry_counts is ever read back for a decision;   *)
(* active_issue_ids is kept for what it says of work in progress.          *)
(***************************************************************************)
EXTENDS Integers, FiniteSetsExt

CONSTANTS
    Lanes,          \* worktrees with a runner each
    Issues,         \* open issues
    MaxFixRounds,   \* max_local_fix_rounds
    MaxCiRounds,    \* max_ci_fix_rounds
    MaxTries,       \* max_needs_human_attempts
    MaxCycles,      \* bound: poll cycles and recovery cycles of all lanes
    MaxFaults,      \* bound: calls of gh, git or codex that fail, and crashes
    None,
    Corrupt         \* what a state file holds when its write was cut off

ASSUME RunnerAssumption ==
    /\ MaxFixRounds \in Nat /\ MaxCiRounds \in Nat /\ MaxTries \in Nat
    /\ MaxCycles \in Nat /\ MaxFaults \in Nat
    /\ None \notin Issues /\ None \notin Lanes \X Issues
    /\ Corrupt \notin [active : SUBSET Issues, retries : [Issues \X {"ci_failed", "transient"} -> Nat]]

VARIABLES
    open,      \* issues that are open on GitHub
    labels,    \* labels of each issue
    pr,        \* the pull request of each branch
    ci,        \* checks of its head
    file,      \* state file of each lane, Corrupt when a write was cut off
    mem,       \* the state each lane has loaded
    pc,        \* where each lane is
    todo,      \* issues of its cycle still to process
    cur,       \* the issue it works on
    round,     \* fix rounds done; in a recovery, the number of the attempt
    handling,  \* run_issue() is in its except clause
    target,    \* the branch a recovery works on
    edits,     \* whose uncommitted changes are in the worktree: the issue and the cycle
    head,      \* the branch checked out in the worktree, and its commits
    pushed,    \* branches that exist on GitHub
    evidence,  \* what the failure evidence of an issue looks like
    cycles,    \* cycles started by each lane
    faults,    \* faults so far
    passed,    \* history: branches whose checks have passed
    tries      \* history: what each lane has tried to recover, by issue and reason

github == <<open, labels, pr, ci, pushed, passed>>
local == <<edits, head, evidence>>
bounds == <<cycles, faults, tries>>
lane == <<pc, todo, cur, round, handling, target>>
vars == <<github, file, mem, lane, local, bounds>>

Branches == Lanes \X Issues
Reasons == {"ci_failed", "transient"}
States == [active : SUBSET Issues, retries : [Issues \X Reasons -> Nat]]
RunPlaces == {"begin", "active", "code", "gate", "review", "commit", "push", "create", "label",
              "unlabel", "watch", "ci_fix", "ci_push", "green"}
FailPlaces == {"fail", "unmark"}
RecoverPlaces == {"requeue", "checkout", "r_code", "r_push", "r_wait", "mark"}
Places == RunPlaces \cup FailPlaces \cup RecoverPlaces \cup {"idle", "write", "count"}

\* The state files may be those of earlier processes, with attempts counted.
Init ==
    /\ open = Issues
    /\ labels = [i \in Issues |-> {}]
    /\ pr = [b \in Branches |-> "none"]
    /\ ci = [b \in Branches |-> "none"]
    /\ \E n \in 0..MaxTries :
          /\ file = [l \in Lanes |-> [active |-> {}, retries |-> [k \in Issues \X Reasons |-> n]]]
          /\ tries = [l \in Lanes |-> [k \in Issues \X Reasons |-> n]]
    /\ mem = file
    /\ pc = [l \in Lanes |-> "idle"]
    /\ todo = [l \in Lanes |-> {}]
    /\ cur = [l \in Lanes |-> None]
    /\ round = [l \in Lanes |-> 0]
    /\ handling = [l \in Lanes |-> FALSE]
    /\ target = [l \in Lanes |-> None]
    /\ edits = [l \in Lanes |-> {}]
    /\ head = [l \in Lanes |-> [branch |-> None, commits |-> "pushed"]]
    /\ pushed = {}
    /\ evidence = [b \in Branches |-> "none"]
    /\ cycles = [l \in Lanes |-> 0]
    /\ faults = 0
    /\ passed = {}

GoTo(l, place) == pc' = [pc EXCEPT ![l] = place]
Mine(l) == <<l, cur[l]>>
Work(l) == <<cur[l], cycles[l]>>
Relabel(i, add, remove) == labels' = [labels EXCEPT ![i] = (@ \ remove) \cup add]
InBranch(l, branch, commits) == head' = [head EXCEPT ![l] = [branch |-> branch, commits |-> commits]]
Committed(l, commits) == InBranch(l, head[l].branch, commits)
SaveState(l, active, retries) == file' = [file EXCEPT ![l] = [active |-> active, retries |-> retries]]
At(l, place) == pc[l] = place /\ UNCHANGED <<cycles, faults>>
StayInCycle == UNCHANGED <<todo, cur, handling, target>>

AllCycles == MapThenSumSet(LAMBDA m : cycles[m], Lanes)
StartCycle(l) ==
    /\ AllCycles < MaxCycles
    /\ cycles' = [cycles EXCEPT ![l] = @ + 1]

\* The cycle, or the recovery, is over.
EndCycle(l) == GoTo(l, "idle") /\ todo' = [todo EXCEPT ![l] = {}]

-----------------------------------------------------------------------------
(* GitHub.                                                                 *)
ChecksEnd(b) ==
    /\ ci[b] = "pending"
    /\ \/ ci' = [ci EXCEPT ![b] = "pass"] /\ passed' = passed \cup {b}
       \/ ci' = [ci EXCEPT ![b] = "fail"] /\ UNCHANGED passed
    /\ UNCHANGED <<open, labels, pr, pushed, file, mem, lane, local, bounds>>

\* advance_queue.py, or a reviewer, merges a green pull request; "Fix #n" closes the issue.
MergePr(b) ==
    /\ pr[b] = "OPEN" /\ ci[b] = "pass"
    /\ pr' = [pr EXCEPT ![b] = "MERGED"]
    /\ open' = open \ {b[2]}
    /\ UNCHANGED <<labels, ci, pushed, passed, file, mem, lane, local, bounds>>

-----------------------------------------------------------------------------
(* run_once().                                                             *)
\* The stale state is pruned, the evidence of earlier cycles removed, and open
\* issues are taken: their labels do not matter.
Poll(l) ==
    /\ pc[l] = "idle" /\ todo[l] = {}
    /\ StartCycle(l)
    /\ file[l] # Corrupt
    /\ SaveState(l, file[l].active \cap open, file[l].retries)
    /\ evidence' = [b \in Branches |-> IF b[1] = l THEN "none" ELSE evidence[b]]
    /\ \E taken \in SUBSET open : todo' = [todo EXCEPT ![l] = taken]
    /\ UNCHANGED <<github, mem, pc, cur, round, handling, target, edits, head, faults, tries>>

\* run_issue(): the state is loaded before the try block.
Take(l) ==
    /\ At(l, "idle")
    /\ \E i \in todo[l] :
          /\ cur' = [cur EXCEPT ![l] = i]
          /\ todo' = [todo EXCEPT ![l] = @ \ {i}]
    /\ mem' = [mem EXCEPT ![l] = file[l]]
    /\ handling' = [handling EXCEPT ![l] = FALSE]
    /\ round' = [round EXCEPT ![l] = 0]
    /\ GoTo(l, "begin")
    /\ UNCHANGED <<github, file, target, local, tries>>

\* An exception in the try block: failure.txt, and fail_issue() from the except
\* clause; one in fail_issue() itself ends the process.
Except(l) ==
    /\ evidence' = [b \in Branches |-> IF b = Mine(l) THEN "transient" ELSE evidence[b]]
    /\ IF handling[l]
       THEN EndCycle(l) /\ UNCHANGED handling
       ELSE /\ handling' = [handling EXCEPT ![l] = TRUE]
            /\ GoTo(l, "fail")
            /\ UNCHANGED todo
    /\ UNCHANGED <<cur, target, round>>

\* Mutant: Codex is let loose on whatever the worktree holds.
clean_or_not(l) == TRUE

\* ensure_clean_worktree(): what a failed issue has left behind is not committed.
clean_worktree(l) == edits[l] = {}

\* git checks a branch out in one worktree only.
Free(l, b) == \A m \in Lanes \ {l} : head[m].branch # b

\* The in-progress label, then a branch from the base, or the except clause.
Begin(l) ==
    /\ At(l, "begin")
    /\ Relabel(cur[l], {"in_progress"}, {})
    /\ IF clean_worktree(l) /\ Free(l, Mine(l))
       THEN /\ InBranch(l, Mine(l), "pushed")
            /\ GoTo(l, "active")
            /\ UNCHANGED <<todo, cur, round, handling, target, evidence>>
       ELSE /\ Except(l)
            /\ IF clean_worktree(l) THEN InBranch(l, None, head[l].commits) ELSE UNCHANGED head
    /\ UNCHANGED <<open, pr, ci, pushed, passed, file, mem, edits, tries>>

\* mark_active() and save_state().
MarkActive(l) ==
    /\ At(l, "active")
    /\ SaveState(l, mem[l].active \cup {cur[l]}, mem[l].retries)
    /\ mem' = [mem EXCEPT ![l] = file'[l]]
    /\ GoTo(l, "code")
    /\ StayInCycle
    /\ UNCHANGED <<github, round, local, tries>>

\* Codex plans and codes, and does again in each fix round; it may change nothing.
Code(l) ==
    /\ At(l, "code")
    /\ \/ edits' = [edits EXCEPT ![l] = @ \cup {Work(l)}]
       \/ UNCHANGED edits
    /\ GoTo(l, "gate")
    /\ StayInCycle
    /\ UNCHANGED <<github, file, mem, round, head, evidence, tries>>

\* Mutant: the rounds are not counted.
same_round(l) == round

next_round(l) == [round EXCEPT ![l] = @ + 1]

\* fail_issue() called from the try block.
FailIssue(l) ==
    /\ GoTo(l, "fail")
    /\ \E e \in {"transient", "other"} : evidence' = [evidence EXCEPT ![Mine(l)] = e]

\* The local gate passes, or there is a fix round left, or the issue fails.
Gate(l) ==
    /\ At(l, "gate")
    /\ \/ GoTo(l, "review") /\ UNCHANGED <<round, evidence>>
       \/ /\ round[l] < MaxFixRounds
          /\ round' = next_round(l)
          /\ GoTo(l, "code") /\ UNCHANGED evidence
       \/ round[l] >= MaxFixRounds /\ FailIssue(l) /\ UNCHANGED round
    /\ StayInCycle
    /\ UNCHANGED <<github, file, mem, edits, head, tries>>

\* The review guard lets the diff through or not (ReviewGuard).
Review(l) ==
    /\ At(l, "review")
    /\ \/ GoTo(l, "commit") /\ UNCHANGED evidence
       \/ FailIssue(l)
    /\ StayInCycle
    /\ UNCHANGED <<github, file, mem, round, edits, head, tries>>

\* commit_all(): an empty diff is refused.
Commit(l) ==
    /\ At(l, "commit")
    /\ round' = [round EXCEPT ![l] = 0]
    /\ IF edits[l] # {}
       THEN /\ edits' = [edits EXCEPT ![l] = {}]
            /\ Committed(l, IF Mine(l) \in pushed THEN "diverged" ELSE "ahead")
            /\ GoTo(l, "push")
            /\ StayInCycle /\ UNCHANGED evidence
       ELSE /\ handling' = [handling EXCEPT ![l] = TRUE]
            /\ FailIssue(l)
            /\ UNCHANGED <<todo, cur, target, edits, head>>
    /\ UNCHANGED <<github, file, mem, tries>>

PushHead(l) ==
    /\ Committed(l, "pushed")
    /\ pushed' = pushed \cup {head[l].branch}

\* git push without force: a branch an earlier cycle pushed is not an ancestor
\* of one made anew from the base, and the push is rejected.
Push(l) ==
    /\ At(l, "push")
    /\ IF head[l].commits = "ahead"
       THEN /\ PushHead(l)
            /\ GoTo(l, "create")
            /\ UNCHANGED <<todo, cur, round, handling, target, evidence>>
       ELSE Except(l) /\ UNCHANGED <<head, pushed>>
    /\ UNCHANGED <<open, labels, pr, ci, passed, file, mem, edits, tries>>

CreatePr(l) ==
    /\ At(l, "create")
    /\ pr' = [pr EXCEPT ![Mine(l)] = "OPEN"]
    /\ ci' = [ci EXCEPT ![Mine(l)] = "pending"]
    /\ GoTo(l, "label")
    /\ StayInCycle
    /\ UNCHANGED <<open, labels, pushed, passed, file, mem, round, local, tries>>

LabelPr(l) ==
    /\ At(l, "label")
    /\ Relabel(cur[l], {"pr_opened"}, {})
    /\ GoTo(l, "unlabel")
    /\ StayInCycle
    /\ UNCHANGED <<open, pr, ci, pushed, passed, file, mem, round, local, tries>>

done_labels == {"in_progress"}

\* The issue is no longer in progress, and the comment names the pull request.
UnlabelIssue(l) ==
    /\ At(l, "unlabel")
    /\ Relabel(cur[l], {}, done_labels)
    /\ GoTo(l, "watch")
    /\ StayInCycle
    /\ UNCHANGED <<open, pr, ci, pushed, passed, file, mem, round, local, tries>>

\* Mutant: a watch that times out is taken for a pass.
passed_in_time(b) == ci[b] # "fail"

\* wait_for_ci() returns PASS.
CiPassed(b) == ci[b] = "pass"

\* wait_for_ci(): PASS, or FAIL or TIMEOUT with a round left, or none left.
Watch(l) ==
    /\ At(l, "watch")
    /\ \/ CiPassed(Mine(l)) /\ GoTo(l, "green") /\ UNCHANGED <<round, evidence>>
       \/ /\ ~CiPassed(Mine(l))
          /\ round[l] < MaxCiRounds
          /\ round' = next_round(l)
          /\ GoTo(l, "ci_fix") /\ UNCHANGED evidence
       \/ ~CiPassed(Mine(l)) /\ round[l] >= MaxCiRounds /\ FailIssue(l) /\ UNCHANGED round
    /\ StayInCycle
    /\ UNCHANGED <<github, file, mem, edits, head, tries>>

\* A CI round: Codex, the gate and commit_all().
CiFix(l) ==
    /\ At(l, "ci_fix")
    /\ \/ /\ Committed(l, "ahead")
          /\ GoTo(l, "ci_push") /\ UNCHANGED <<evidence, edits, handling>>
       \/ /\ edits' = [edits EXCEPT ![l] = {Work(l)}]   \* the gate fails
          /\ FailIssue(l) /\ UNCHANGED <<head, handling>>
       \/ /\ handling' = [handling EXCEPT ![l] = TRUE]  \* nothing to commit
          /\ FailIssue(l) /\ UNCHANGED <<head, edits>>
    /\ UNCHANGED <<github, file, mem, todo, cur, round, target, tries>>

PushCi(l) ==
    /\ At(l, "ci_push")
    /\ PushHead(l)
    /\ ci' = [ci EXCEPT ![Mine(l)] = "pending"]
    /\ GoTo(l, "watch")
    /\ StayInCycle
    /\ UNCHANGED <<open, labels, pr, passed, file, mem, round, edits, evidence, tries>>

Green(l) ==
    /\ At(l, "green")
    /\ Relabel(cur[l], {"ci_green"}, {})
    /\ GoTo(l, "write")
    /\ StayInCycle
    /\ UNCHANGED <<open, pr, ci, pushed, passed, file, mem, round, local, tries>>

\* Mutant: the label comes off before the other one is on.
UnmarkFirst(l) ==
    /\ At(l, "fail")
    /\ Relabel(cur[l], {}, {"in_progress"})
    /\ GoTo(l, "unmark")
    /\ StayInCycle
    /\ UNCHANGED <<open, pr, ci, pushed, passed, file, mem, round, local, tries>>

\* fail_issue(): needs-human, then the in-progress label comes off.
Fail(l) ==
    /\ At(l, "fail")
    /\ Relabel(cur[l], {"needs_human"}, {})
    /\ GoTo(l, "unmark")
    /\ StayInCycle
    /\ UNCHANGED <<open, pr, ci, pushed, passed, file, mem, round, local, tries>>

Unmark(l) ==
    /\ At(l, "unmark")
    /\ Relabel(cur[l], {"needs_human"}, {"in_progress"})
    /\ GoTo(l, "write")
    /\ StayInCycle
    /\ UNCHANGED <<open, pr, ci, pushed, passed, file, mem, round, local, tries>>

\* write_result(): mark_finished() and save_state().
WriteResult(l) ==
    /\ At(l, "write")
    /\ SaveState(l, mem[l].active \ {cur[l]}, mem[l].retries)
    /\ mem' = [mem EXCEPT ![l] = file'[l]]
    /\ GoTo(l, "idle")
    /\ cur' = [cur EXCEPT ![l] = None]
    /\ UNCHANGED <<github, todo, round, handling, target, local, tries>>

-----------------------------------------------------------------------------
(* recover_needs_human(), one issue.                                       *)
Key(l) == <<cur[l], IF target[l] = None THEN "transient" ELSE "ci_failed">>

\* has_existing_clean_recovery_commits().
Clean(l, b) == edits[l] = {} /\ head[l].branch = b /\ head[l].commits # "pushed"

Attempt(l, n) == round' = [round EXCEPT ![l] = n]

\* Mutant: one attempt more than the cap.
under_cap_plus(n) == n <= MaxTries

under_cap(n) == n < MaxTries

\* The open pull request of the issue decides, and without one the evidence.
Recover(l) ==
    /\ pc[l] = "idle" /\ todo[l] = {} /\ file[l] # Corrupt
    /\ StartCycle(l)
    /\ mem' = [mem EXCEPT ![l] = file[l]]
    /\ \E i \in {j \in open : "needs_human" \in labels[j]} :
          LET prs == {b \in Branches : b[2] = i /\ pr[b] = "OPEN"}
              tried(reason) == file[l].retries[<<i, reason>>]
          IN /\ cur' = [cur EXCEPT ![l] = i]
             /\ \/ \E b \in prs :
                      /\ target' = [target EXCEPT ![l] = b]
                      /\ \/ ci[b] = "pass" /\ GoTo(l, "mark") /\ Attempt(l, tried("ci_failed"))
                         \/ /\ ci[b] = "fail"
                            /\ Attempt(l, tried("ci_failed") + 1)
                            /\ Free(l, b)
                            /\ under_cap(tried("ci_failed")) \/ Clean(l, b)
                            /\ GoTo(l, "checkout")
                \/ /\ prs = {} /\ "pr_opened" \notin labels[i]
                   /\ evidence[<<l, i>>] = "transient"
                   /\ under_cap(tried("transient"))
                   /\ target' = [target EXCEPT ![l] = None]
                   /\ Attempt(l, tried("transient") + 1)
                   /\ GoTo(l, "requeue")
    /\ UNCHANGED <<github, file, todo, handling, local, faults, tries>>

Tried(l) == tries' = [tries EXCEPT ![l][Key(l)] = @ + 1]

\* requeue_issue(): the issue is open for the next cycle.
Requeue(l) ==
    /\ At(l, "requeue")
    /\ Relabel(cur[l], {"recovered"}, {"needs_human"})
    /\ Tried(l)
    /\ GoTo(l, "count")
    /\ StayInCycle
    /\ UNCHANGED <<open, pr, ci, pushed, passed, file, mem, round, local>>

\* A worktree that is not clean blocks the recovery, which does not count then.
\* Commits an earlier recovery did not push are pushed when the gate passes.
Checkout(l) ==
    /\ At(l, "checkout")
    /\ \/ /\ ~clean_worktree(l) \/ (~Clean(l, target[l]) /\ ~Free(l, target[l]))
          /\ EndCycle(l) /\ UNCHANGED <<head, tries>>
       \/ /\ Clean(l, target[l])
          /\ \/ GoTo(l, "r_push") /\ UNCHANGED <<todo, tries>>
             \/ GoTo(l, "count") /\ UNCHANGED <<todo, tries>>
          /\ UNCHANGED head
       \/ /\ clean_worktree(l) /\ ~Clean(l, target[l]) /\ Free(l, target[l])
          /\ InBranch(l, target[l], "pushed")
          /\ GoTo(l, "r_code")
          /\ UNCHANGED <<todo, tries>>
    /\ UNCHANGED <<github, file, mem, cur, round, handling, target, edits, evidence>>

\* Codex, the gate and commit_all().  A Codex or a gate that fails leaves its changes
\* behind; a blocked model API and an empty diff do not count, but for an empty
\* diff with checks that pass by now.
RecoverCode(l) ==
    /\ At(l, "r_code")
    /\ \/ /\ Committed(l, "ahead")
          /\ GoTo(l, "r_push")
          /\ UNCHANGED <<todo, edits, tries>>
       \/ /\ edits' \in {edits, [edits EXCEPT ![l] = {Work(l)}]}
          /\ Tried(l)
          /\ GoTo(l, "count")
          /\ UNCHANGED <<todo, head>>
       \/ /\ CiPassed(target[l])
          /\ Tried(l)
          /\ GoTo(l, "mark")
          /\ UNCHANGED <<todo, head, edits>>
       \/ EndCycle(l) /\ UNCHANGED <<edits, head, tries>>
    /\ UNCHANGED <<github, file, mem, cur, round, handling, target, evidence>>

\* Commits of a branch made anew from the base are rejected here too, every time.
RecoverPush(l) ==
    /\ At(l, "r_push")
    /\ IF head[l].commits = "ahead"
       THEN /\ PushHead(l)
            /\ ci' = [ci EXCEPT ![target[l]] = "pending"]
            /\ Tried(l)
            /\ GoTo(l, "r_wait")
            /\ UNCHANGED todo
       ELSE EndCycle(l) /\ UNCHANGED <<head, pushed, ci, tries>>
    /\ UNCHANGED <<open, labels, pr, passed, file, mem, cur, round, handling, target, edits, evidence>>

RecoverWait(l) ==
    /\ At(l, "r_wait")
    /\ GoTo(l, IF CiPassed(target[l]) THEN "mark" ELSE "count")
    /\ StayInCycle
    /\ UNCHANGED <<github, file, mem, round, local, tries>>

\* The labels of a pull request found green, or made green.
MarkGreen(l) ==
    /\ At(l, "mark")
    /\ Relabel(cur[l], {"ci_green", "recovered"}, {"needs_human"})
    /\ GoTo(l, "count")
    /\ StayInCycle
    /\ UNCHANGED <<open, pr, ci, pushed, passed, file, mem, round, local, tries>>

\* retry_counts, saved after the recovery was carried out.
CountAttempt(l) ==
    /\ At(l, "count")
    /\ SaveState(l, mem[l].active, [mem[l].retries EXCEPT ![Key(l)] = round[l]])
    /\ mem' = [mem EXCEPT ![l] = file'[l]]
    /\ EndCycle(l)
    /\ cur' = [cur EXCEPT ![l] = None]
    /\ UNCHANGED <<github, round, handling, target, local, tries>>

-----------------------------------------------------------------------------
(* Calls that fail, and processes that die.                                *)
\* A call of gh, git or Codex raises before it has an effect; a fault in a
\* recovery ends it, and is not counted.
Fault(l) ==
    /\ faults < MaxFaults
    /\ faults' = faults + 1
    /\ \/ pc[l] \in RunPlaces \cup FailPlaces /\ Except(l)
       \/ /\ pc[l] \in RecoverPlaces
          /\ EndCycle(l)
          /\ UNCHANGED <<cur, handling, target, round, evidence>>
    /\ UNCHANGED <<github, file, mem, edits, head, cycles, tries>>

\* The process dies; save_state() may have truncated the file.
Crash(l) ==
    /\ pc[l] # "idle"
    /\ faults < MaxFaults
    /\ faults' = faults + 1
    /\ EndCycle(l)
    /\ \/ UNCHANGED file
       \/ pc[l] \in {"active", "write", "count"} /\ file' = [file EXCEPT ![l] = Corrupt]
    /\ UNCHANGED <<github, mem, cur, round, handling, target, local, cycles, tries>>

RunStep(l) ==
    \/ Begin(l) \/ MarkActive(l) \/ Code(l) \/ Gate(l) \/ Review(l) \/ Commit(l) \/ Push(l)
    \/ CreatePr(l) \/ LabelPr(l) \/ UnlabelIssue(l) \/ Watch(l) \/ CiFix(l) \/ PushCi(l) \/ Green(l)
    \/ Fail(l) \/ Unmark(l) \/ WriteResult(l)

RecoverStep(l) ==
    \/ Requeue(l) \/ Checkout(l) \/ RecoverCode(l) \/ RecoverPush(l) \/ RecoverWait(l)
    \/ MarkGreen(l) \/ CountAttempt(l)

Next ==
    \/ \E b \in Branches : ChecksEnd(b) \/ MergePr(b)
    \/ \E l \in Lanes : Poll(l) \/ Take(l) \/ Recover(l)
    \/ \E l \in Lanes : RunStep(l) \/ RecoverStep(l)
    \/ \E l \in Lanes : Fault(l) \/ Crash(l)

\* A process that has started goes on: every wait of it has a timeout.
Spec == Init /\ [][Next]_vars /\ \A l \in Lanes : WF_vars(RunStep(l) \/ RecoverStep(l))

-----------------------------------------------------------------------------
(* Properties.                                                             *)

\* commit_all() runs "git add -A": whatever a failed issue left in the worktree
\* of the lane must be this issue's, of this cycle, on this issue's branch.
CommitsOwnWork ==
    \A l \in Lanes : pc[l] = "commit" =>
        edits[l] \subseteq {Work(l)} /\ head[l].branch = Mine(l)

\* The ci-green label of an issue stands for checks that passed: a lane gives it
\* while the head it watched is still the head, and no watch that timed out or
\* failed leads to it, in the lane or in a recovery by another one.
GreenLabelIsReal ==
    /\ \A l \in Lanes : pc[l] = "green" => ci[Mine(l)] = "pass"
    /\ \A i \in Issues : "ci_green" \in labels[i] => \E l \in Lanes : <<l, i>> \in passed

\* An issue with an open pull request is never without a label that says so, or
\* that a person or a lane has it: a call that fails after gh pr create must not
\* leave it looking untouched.
OpenPrIsMarked ==
    \A b \in Branches : pr[b] = "OPEN" => labels[b[2]] # {}

\* A lane tries no stop signal more often than the cap allows, but for the
\* attempts that a fault kept from being counted.
AttemptsCapped ==
    \A l \in Lanes, k \in Issues \X Reasons : tries[l][k] <= MaxTries + faults

\* A cycle ends, whatever Codex, the gate and the checks do.
CycleEnds == \A l \in Lanes : pc[l] # "idle" ~> pc[l] = "idle"
=============================================================================
