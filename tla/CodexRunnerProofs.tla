--------------------------- MODULE CodexRunnerProofs ---------------------------
(***************************************************************************)
(* What the lanes of the local Codex runner commit, label and try again,   *)
(* for any number of lanes and issues, rounds, attempts, cycles and faults. *)
(***************************************************************************)
EXTENDS CodexRunner, TLAPS

(* The places of run_issue() with the branch of the issue checked out.     *)
OnBranch == RunPlaces \ {"begin"}
Coding == {"active", "code", "gate", "review", "commit"}
OnTarget == {"checkout", "r_code", "r_push", "r_wait"}

Labels == {"in_progress", "pr_opened", "needs_human", "ci_green", "recovered"}
Heads == [branch : Branches \cup {None}, commits : {"pushed", "ahead", "diverged"}]

PlacesTyped == pc \in [Lanes -> Places]

CyclesTyped ==
    /\ cur \in [Lanes -> Issues \cup {None}]
    /\ target \in [Lanes -> Branches \cup {None}]
    /\ round \in [Lanes -> Nat]
    /\ cycles \in [Lanes -> Nat]
    /\ todo \in [Lanes -> SUBSET Issues]

WorktreesTyped ==
    /\ head \in [Lanes -> Heads]
    /\ edits \in [Lanes -> SUBSET ((Issues \cup {None}) \X Nat)]

GithubTyped ==
    /\ open \subseteq Issues
    /\ labels \in [Issues -> SUBSET Labels]
    /\ pr \in [Branches -> {"none", "OPEN", "MERGED"}]
    /\ ci \in [Branches -> {"none", "pending", "pass", "fail"}]
    /\ passed \subseteq Branches

StatesTyped ==
    /\ file \in [Lanes -> States \cup {Corrupt}]
    /\ mem \in [Lanes -> States \cup {Corrupt}]
    /\ tries \in [Lanes -> [Issues \X Reasons -> Nat]]
    /\ faults \in Nat

(* A lane at work has an issue; a recovery of a pull request its branch.   *)
WorkOf(l) ==
    /\ pc[l] # "idle" => cur[l] \in Issues
    /\ pc[l] \in OnBranch => head[l].branch = Mine(l)
    /\ pc[l] \in Coding => edits[l] \subseteq {Work(l)}
    /\ pc[l] \in OnTarget \cup {"mark"} => target[l] \in Branches /\ target[l][2] = cur[l]
    /\ pc[l] \in {"r_code", "r_push"} => head[l].branch = target[l]

AtWork == \A l \in Lanes : WorkOf(l)

(* git: a branch is checked out in one worktree only.                      *)
OneCheckout ==
    \A l, m \in Lanes : head[l].branch = head[m].branch => l = m \/ head[l].branch = None

(* A pull request found green has passed, and so has what a lane marks.    *)
PassedIsKnown ==
    /\ \A b \in Branches : ci[b] = "pass" => b \in passed
    /\ \A l \in Lanes : pc[l] = "mark" => target[l] \in passed

(* GreenLabelIsReal, in its two halves.                                     *)
WatchedPassed == \A l \in Lanes : pc[l] = "green" => ci[Mine(l)] = "pass"
GreenHasPassed == \A i \in Issues : "ci_green" \in labels[i] => \E l \in Lanes : <<l, i>> \in passed

(* An issue a lane works on has a label, and keeps one for good once its   *)
(* pull request has been announced.                                        *)
WorkIsLabelled ==
    \A l \in Lanes :
        /\ pc[l] \in OnBranch => labels[cur[l]] # {}
        /\ pc[l] = "unlabel" => "pr_opened" \in labels[cur[l]]

(* What a lane has loaded is what its file holds; a file cut off in its    *)
(* write is never loaded.                                                  *)
FileIsLoaded ==
    \A l \in Lanes :
        /\ pc[l] # "idle" => mem[l] = file[l]
        /\ file[l] = Corrupt => pc[l] = "idle" /\ todo[l] = {}

(* Commits that a fault kept from being pushed: they let the next recovery *)
(* of their branch pass the cap.                                           *)
Unpushed(l) ==
    IF head[l].commits = "ahead" /\ pc[l] \notin {"push", "ci_push", "r_push"} THEN 1 ELSE 0

Counting == {"r_wait", "mark", "count"}

(* A fault may keep one attempt from being counted, or its commits from     *)
(* being pushed, and not both.                                             *)
Counted(l) ==
    file[l] # Corrupt =>
        \A k \in Issues \X Reasons :
            \/ tries[l][k] + Unpushed(l) <= faults + file[l].retries[k]
            \/ pc[l] \in Counting /\ k = Key(l)

BeingCounted(l) ==
    /\ pc[l] \in RecoverPlaces \ Counting => round[l] = file[l].retries[Key(l)] + 1
    /\ pc[l] \in Counting =>
          /\ round[l] <= file[l].retries[Key(l)] + 1
          /\ tries[l][Key(l)] + Unpushed(l) <= faults + round[l]

(* A recovery has room for one more attempt, or will end without one.      *)
HasRoom(l) ==
    /\ pc[l] = "checkout" =>
          \/ tries[l][Key(l)] + 1 <= MaxTries + faults
          \/ Clean(l, target[l]) /\ head[l].commits = "diverged"
    /\ pc[l] \in {"requeue", "r_code", "r_push"} =>
          \/ tries[l][Key(l)] + 1 + Unpushed(l) <= MaxTries + faults
          \/ pc[l] = "r_push" /\ head[l].commits = "diverged"

Capped(l) == \A k \in Issues \X Reasons : tries[l][k] + Unpushed(l) <= MaxTries + faults

TriesOf(l) == Counted(l) /\ BeingCounted(l) /\ HasRoom(l) /\ Capped(l)
TriesCounted == \A l \in Lanes : TriesOf(l)

LaneStep(l) ==
    \/ Poll(l) \/ Take(l) \/ Recover(l)
    \/ RunStep(l) \/ RecoverStep(l)
    \/ Fault(l) \/ Crash(l)

IInv ==
    /\ PlacesTyped /\ CyclesTyped /\ WorktreesTyped /\ GithubTyped /\ StatesTyped
    /\ AtWork /\ OneCheckout /\ PassedIsKnown /\ WorkIsLabelled /\ FileIsLoaded /\ TriesCounted
    /\ WatchedPassed /\ GreenHasPassed /\ OpenPrIsMarked

-----------------------------------------------------------------------------
(* What the actions share.                                                 *)
\* What the shared pieces of the actions return, typed.
LEMMA HeadTyped ==
    ASSUME WorktreesTyped, NEW l \in Lanes, NEW branch \in Branches \cup {None},
           NEW commits \in {"pushed", "ahead", "diverged"}, InBranch(l, branch, commits)
    PROVE head' \in [Lanes -> Heads]
BY DEF WorktreesTyped, InBranch, Heads

\* The count of a lane at work is one its file keeps.
LEMMA KeyTyped ==
    ASSUME NEW l \in Lanes, cur[l] \in Issues
    PROVE Key(l) \in Issues \X Reasons
BY DEF Key, Reasons

\* An attempt is added to the tries of its lane.
LEMMA TriedTyped ==
    ASSUME StatesTyped, NEW l \in Lanes, cur[l] \in Issues, Tried(l)
    PROVE tries' \in [Lanes -> [Issues \X Reasons -> Nat]]
<1>1. Key(l) \in Issues \X Reasons
  BY KeyTyped
<1>2. tries[l] \in [Issues \X Reasons -> Nat]
  BY DEF StatesTyped
<1>3. [tries[l] EXCEPT ![Key(l)] = @ + 1] \in [Issues \X Reasons -> Nat]
  BY <1>1, <1>2
<1>4. tries' = [tries EXCEPT ![l] = [tries[l] EXCEPT ![Key(l)] = @ + 1]]
  BY DEF Tried
<1> QED
  BY <1>3, <1>4 DEF StatesTyped

\* A saved state is whole.
LEMMA SavedTyped ==
    ASSUME StatesTyped, NEW l \in Lanes, NEW active \in SUBSET Issues,
           NEW retries \in [Issues \X Reasons -> Nat], SaveState(l, active, retries)
    PROVE file' \in [Lanes -> States \cup {Corrupt}] /\ file'[l] \in States
<1>1. [active |-> active, retries |-> retries] \in States
  BY DEF States
<1> QED
  BY <1>1 DEF StatesTyped, SaveState

\* What a lane has loaded was not cut off.
LEMMA LoadedTyped ==
    ASSUME IInv, NEW l \in Lanes, pc[l] # "idle"
    PROVE mem[l] \in States /\ mem[l].active \in SUBSET Issues
          /\ mem[l].retries \in [Issues \X Reasons -> Nat]
<1>1. mem[l] \in States
  BY DEF IInv, StatesTyped, FileIsLoaded
<1> QED
  BY <1>1 DEF States

\* A file cut off is told from a state.
LEMMA WholeState == Corrupt \notin States
BY RunnerAssumption DEF States, Reasons

\* The except clause fails the issue, or ends the cycle.
LEMMA ExceptGoes ==
    ASSUME PlacesTyped, CyclesTyped, NEW l \in Lanes, Except(l)
    PROVE /\ pc'[l] \in {"fail", "idle"} /\ \A m \in Lanes \ {l} : pc'[m] = pc[m]
          /\ todo'[l] \in {todo[l], {}}
          /\ pc'[l] = "idle" => todo'[l] = {}
          /\ \A m \in Lanes \ {l} : todo'[m] = todo[m]
          /\ UNCHANGED <<cur, target, round>>
BY DEF Except, EndCycle, GoTo, PlacesTyped, CyclesTyped

-----------------------------------------------------------------------------
(* Types.                                                                  *)
\* Every step leads to a place of the two procedures.
LEMMA PlacesStep ==
    ASSUME IInv, [Next]_vars
    PROVE PlacesTyped'
<1> USE DEF IInv
<1>1. CASE UNCHANGED pc
  BY <1>1 DEF PlacesTyped, Places, RunPlaces, FailPlaces, RecoverPlaces
<1>2. CASE UNCHANGED vars
  BY <1>1, <1>2 DEF vars, github, local, bounds, lane
<1>3. ASSUME NEW b \in Branches, ChecksEnd(b) \/ MergePr(b)
      PROVE  PlacesTyped'
  BY <1>1, <1>3 DEF ChecksEnd, lane, local, bounds, MergePr
<1>4. ASSUME NEW l \in Lanes, Poll(l)
      PROVE  PlacesTyped'
  BY <1>1, <1>4 DEF Poll, StartCycle, SaveState, github
<1>5. ASSUME NEW l \in Lanes, Take(l) PROVE PlacesTyped'
  BY <1>5 DEF Take, At, GoTo, github, local, PlacesTyped, Places, RunPlaces, FailPlaces,
       RecoverPlaces
<1>6. ASSUME NEW l \in Lanes, Recover(l) PROVE PlacesTyped'
  BY <1>6 DEF Recover, StartCycle, GoTo, Attempt, Free, under_cap, Clean, github, local,
       PlacesTyped, Places, RunPlaces, FailPlaces, RecoverPlaces
<1>7. ASSUME NEW l \in Lanes, Begin(l) PROVE PlacesTyped'
  BY <1>7 DEF Begin, At, Relabel, clean_worktree, Free, Mine, InBranch, GoTo, Except, EndCycle,
       PlacesTyped, Places, RunPlaces, FailPlaces, RecoverPlaces
<1>8. ASSUME NEW l \in Lanes, MarkActive(l) PROVE PlacesTyped'
  BY <1>8 DEF MarkActive, At, SaveState, GoTo, StayInCycle, github, local, PlacesTyped, Places,
       RunPlaces, FailPlaces, RecoverPlaces
<1>9. ASSUME NEW l \in Lanes, Code(l) PROVE PlacesTyped'
  BY <1>9 DEF Code, At, Work, GoTo, StayInCycle, github, PlacesTyped, Places, RunPlaces,
       FailPlaces, RecoverPlaces
<1>10. ASSUME NEW l \in Lanes, Gate(l) PROVE PlacesTyped'
  BY <1>10 DEF Gate, At, GoTo, next_round, FailIssue, Mine, StayInCycle, github, PlacesTyped,
       Places, RunPlaces, FailPlaces, RecoverPlaces
<1>11. ASSUME NEW l \in Lanes, Review(l) PROVE PlacesTyped'
  BY <1>11 DEF Review, At, GoTo, FailIssue, Mine, StayInCycle, github, PlacesTyped, Places,
       RunPlaces, FailPlaces, RecoverPlaces
<1>12. ASSUME NEW l \in Lanes, Commit(l) PROVE PlacesTyped'
  BY <1>12 DEF Commit, At, Committed, InBranch, Mine, GoTo, StayInCycle, FailIssue, github,
       PlacesTyped, Places, RunPlaces, FailPlaces, RecoverPlaces
<1>13. ASSUME NEW l \in Lanes, Push(l) PROVE PlacesTyped'
  BY <1>13 DEF Push, At, PushHead, Committed, InBranch, GoTo, Except, Mine, EndCycle,
       PlacesTyped, Places, RunPlaces, FailPlaces, RecoverPlaces
<1>14. ASSUME NEW l \in Lanes, CreatePr(l) PROVE PlacesTyped'
  BY <1>14 DEF CreatePr, At, Mine, GoTo, StayInCycle, local, PlacesTyped, Places, RunPlaces,
       FailPlaces, RecoverPlaces
<1>15. ASSUME NEW l \in Lanes, LabelPr(l) PROVE PlacesTyped'
  BY <1>15 DEF LabelPr, At, Relabel, GoTo, StayInCycle, local, PlacesTyped, Places, RunPlaces,
       FailPlaces, RecoverPlaces
<1>16. ASSUME NEW l \in Lanes, UnlabelIssue(l) PROVE PlacesTyped'
  BY <1>16 DEF UnlabelIssue, At, Relabel, done_labels, GoTo, StayInCycle, local, PlacesTyped,
       Places, RunPlaces, FailPlaces, RecoverPlaces
<1>17. ASSUME NEW l \in Lanes, Watch(l) PROVE PlacesTyped'
  BY <1>17 DEF Watch, At, CiPassed, Mine, GoTo, next_round, FailIssue, StayInCycle, github,
       PlacesTyped, Places, RunPlaces, FailPlaces, RecoverPlaces
<1>18. ASSUME NEW l \in Lanes, CiFix(l) PROVE PlacesTyped'
  BY <1>18 DEF CiFix, At, Committed, InBranch, GoTo, Work, FailIssue, Mine, github, PlacesTyped,
       Places, RunPlaces, FailPlaces, RecoverPlaces
<1>19. ASSUME NEW l \in Lanes, PushCi(l) PROVE PlacesTyped'
  BY <1>19 DEF PushCi, At, PushHead, Committed, InBranch, Mine, GoTo, StayInCycle, PlacesTyped,
       Places, RunPlaces, FailPlaces, RecoverPlaces
<1>20. ASSUME NEW l \in Lanes, Green(l) PROVE PlacesTyped'
  BY <1>20 DEF Green, At, Relabel, GoTo, StayInCycle, local, PlacesTyped, Places, RunPlaces,
       FailPlaces, RecoverPlaces
<1>21. ASSUME NEW l \in Lanes, Fail(l) PROVE PlacesTyped'
  BY <1>21 DEF Fail, At, Relabel, GoTo, StayInCycle, local, PlacesTyped, Places, RunPlaces,
       FailPlaces, RecoverPlaces
<1>22. ASSUME NEW l \in Lanes, Unmark(l) PROVE PlacesTyped'
  BY <1>22 DEF Unmark, At, Relabel, GoTo, StayInCycle, local, PlacesTyped, Places, RunPlaces,
       FailPlaces, RecoverPlaces
<1>23. ASSUME NEW l \in Lanes, WriteResult(l) PROVE PlacesTyped'
  BY <1>23 DEF WriteResult, At, SaveState, GoTo, github, local, PlacesTyped, Places, RunPlaces,
       FailPlaces, RecoverPlaces
<1>24. ASSUME NEW l \in Lanes, Requeue(l) PROVE PlacesTyped'
  BY <1>24 DEF Requeue, At, Relabel, Tried, Key, GoTo, StayInCycle, local, PlacesTyped, Places,
       RunPlaces, FailPlaces, RecoverPlaces
<1>25. ASSUME NEW l \in Lanes, Checkout(l) PROVE PlacesTyped'
  BY <1>25 DEF Checkout, At, clean_worktree, Clean, Free, EndCycle, GoTo, InBranch, github,
       PlacesTyped, Places, RunPlaces, FailPlaces, RecoverPlaces
<1>26. ASSUME NEW l \in Lanes, RecoverCode(l) PROVE PlacesTyped'
  BY <1>26 DEF RecoverCode, At, Committed, InBranch, GoTo, Work, Tried, Key, CiPassed, EndCycle,
       github, PlacesTyped, Places, RunPlaces, FailPlaces, RecoverPlaces
<1>27. ASSUME NEW l \in Lanes, RecoverPush(l) PROVE PlacesTyped'
  BY <1>27 DEF RecoverPush, At, PushHead, Committed, InBranch, Tried, Key, GoTo, EndCycle,
       PlacesTyped, Places, RunPlaces, FailPlaces, RecoverPlaces
<1>28. ASSUME NEW l \in Lanes, RecoverWait(l) PROVE PlacesTyped'
  BY <1>28 DEF RecoverWait, At, GoTo, CiPassed, StayInCycle, github, local, PlacesTyped, Places,
       RunPlaces, FailPlaces, RecoverPlaces
<1>29. ASSUME NEW l \in Lanes, MarkGreen(l) PROVE PlacesTyped'
  BY <1>29 DEF MarkGreen, At, Relabel, GoTo, StayInCycle, local, PlacesTyped, Places, RunPlaces,
       FailPlaces, RecoverPlaces
<1>30. ASSUME NEW l \in Lanes, CountAttempt(l) PROVE PlacesTyped'
  BY <1>30 DEF CountAttempt, At, SaveState, Key, EndCycle, GoTo, github, local, PlacesTyped,
       Places, RunPlaces, FailPlaces, RecoverPlaces
<1>31. ASSUME NEW l \in Lanes, Fault(l) PROVE PlacesTyped'
  BY <1>31 DEF Fault, Except, Mine, EndCycle, GoTo, github, PlacesTyped, Places, RunPlaces,
       FailPlaces, RecoverPlaces
<1>32. ASSUME NEW l \in Lanes, Crash(l) PROVE PlacesTyped'
  BY <1>32 DEF Crash, EndCycle, GoTo, github, local, PlacesTyped, Places, RunPlaces, FailPlaces,
       RecoverPlaces
<1> QED
  BY <1>1, <1>2, <1>3, <1>4, <1>5, <1>6, <1>7, <1>8, <1>9, <1>10, <1>11, <1>12, <1>13,
      <1>14, <1>15, <1>16, <1>17, <1>18, <1>19, <1>20, <1>21, <1>22, <1>23, <1>24, <1>25,
      <1>26, <1>27, <1>28, <1>29, <1>30, <1>31, <1>32
     DEF Next, RunStep, RecoverStep

\* What a cycle works on: an open issue, a branch, rounds and attempts.
LEMMA CyclesStep ==
    ASSUME IInv, [Next]_vars
    PROVE CyclesTyped'
<1> USE DEF IInv, GithubTyped
<1>1. CASE UNCHANGED <<todo, cur, round, target, cycles>>
  BY <1>1 DEF CyclesTyped, Branches
<1>2. CASE UNCHANGED vars
  BY <1>1, <1>2 DEF vars, github, local, bounds, lane
<1>3. ASSUME NEW b \in Branches, ChecksEnd(b) \/ MergePr(b)
      PROVE  CyclesTyped'
  BY <1>1, <1>3 DEF ChecksEnd, lane, local, bounds, MergePr
<1>4. ASSUME NEW l \in Lanes, MarkActive(l) \/ Code(l) \/ Review(l) \/ CreatePr(l) \/
             LabelPr(l) \/ UnlabelIssue(l) \/ CiFix(l) \/ PushCi(l) \/ Green(l) \/ Fail(l) \/
             Unmark(l) \/ Requeue(l) \/ RecoverWait(l) \/ MarkGreen(l)
      PROVE  CyclesTyped'
  BY <1>1, <1>4 DEF MarkActive, At, SaveState, GoTo, StayInCycle, github, local, Code, Review,
       FailIssue, CreatePr, LabelPr, Relabel, UnlabelIssue, CiFix, Committed, InBranch, PushCi,
       PushHead, Green, Fail, Unmark, Requeue, Tried, RecoverWait, MarkGreen
<1>5. ASSUME NEW l \in Lanes, Poll(l) PROVE CyclesTyped'
  BY <1>5 DEF Poll, StartCycle, SaveState, github, CyclesTyped, Branches
<1>6. ASSUME NEW l \in Lanes, Take(l) PROVE CyclesTyped'
  BY <1>6 DEF Take, At, GoTo, github, local, CyclesTyped, Branches
<1>7. ASSUME NEW l \in Lanes, Recover(l) PROVE CyclesTyped'
  <2>1. file[l] \in States
    BY <1>7 DEF Recover, StatesTyped
  <2>2. \A i \in Issues, r \in Reasons : file[l].retries[<<i, r>>] \in Nat
    BY <2>1 DEF States
  <2> QED
    BY <1>7, <2>2 DEF Recover, StartCycle, Attempt, Branches, Reasons, CyclesTyped
<1>8. ASSUME NEW l \in Lanes, Begin(l) PROVE CyclesTyped'
  BY <1>8 DEF Begin, At, Relabel, clean_worktree, Free, Mine, InBranch, GoTo, Except, EndCycle,
       CyclesTyped, Branches
<1>9. ASSUME NEW l \in Lanes, Gate(l) PROVE CyclesTyped'
  BY <1>9 DEF Gate, At, GoTo, next_round, FailIssue, Mine, StayInCycle, github, CyclesTyped,
       Branches
<1>10. ASSUME NEW l \in Lanes, Commit(l) PROVE CyclesTyped'
  BY <1>10 DEF Commit, At, Committed, InBranch, Mine, GoTo, StayInCycle, FailIssue, github,
       CyclesTyped, Branches
<1>11. ASSUME NEW l \in Lanes, Push(l) PROVE CyclesTyped'
  BY <1>11 DEF Push, At, PushHead, Committed, InBranch, GoTo, Except, Mine, EndCycle,
       CyclesTyped, Branches
<1>12. ASSUME NEW l \in Lanes, Watch(l) PROVE CyclesTyped'
  BY <1>12 DEF Watch, At, GoTo, next_round, FailIssue, StayInCycle, github, CyclesTyped,
       Branches
<1>13. ASSUME NEW l \in Lanes, WriteResult(l) PROVE CyclesTyped'
  BY <1>13 DEF WriteResult, At, SaveState, GoTo, github, local, CyclesTyped, Branches
<1>14. ASSUME NEW l \in Lanes, Checkout(l) PROVE CyclesTyped'
  BY <1>14 DEF Checkout, At, clean_worktree, Clean, Free, EndCycle, GoTo, InBranch, github,
       CyclesTyped, Branches
<1>15. ASSUME NEW l \in Lanes, RecoverCode(l) PROVE CyclesTyped'
  BY <1>15 DEF RecoverCode, At, Committed, InBranch, GoTo, Work, Tried, Key, CiPassed, EndCycle,
       github, CyclesTyped, Branches
<1>16. ASSUME NEW l \in Lanes, RecoverPush(l) PROVE CyclesTyped'
  BY <1>16 DEF RecoverPush, At, PushHead, Committed, InBranch, Tried, Key, GoTo, EndCycle,
       CyclesTyped, Branches
<1>17. ASSUME NEW l \in Lanes, CountAttempt(l) PROVE CyclesTyped'
  BY <1>17 DEF CountAttempt, At, SaveState, Key, EndCycle, GoTo, github, local, CyclesTyped,
       Branches
<1>18. ASSUME NEW l \in Lanes, Fault(l) PROVE CyclesTyped'
  BY <1>18 DEF Fault, Except, Mine, EndCycle, GoTo, github, CyclesTyped, Branches
<1>19. ASSUME NEW l \in Lanes, Crash(l) PROVE CyclesTyped'
  BY <1>19 DEF Crash, EndCycle, GoTo, github, local, CyclesTyped, Branches
<1> QED
  BY <1>1, <1>2, <1>3, <1>4, <1>5, <1>6, <1>7, <1>8, <1>9, <1>10, <1>11, <1>12, <1>13,
      <1>14, <1>15, <1>16, <1>17, <1>18, <1>19
     DEF Next, RunStep, RecoverStep

\* The worktrees: a branch of some lane, and the changes of a cycle.
LEMMA WorktreesStep ==
    ASSUME IInv, [Next]_vars
    PROVE WorktreesTyped'
<1> USE DEF IInv, CyclesTyped
<1>1. CASE UNCHANGED <<edits, head>>
  BY <1>1 DEF WorktreesTyped, Heads, Branches
<1>2. CASE UNCHANGED vars
  BY <1>1, <1>2 DEF vars, github, local, bounds, lane
<1>3. ASSUME NEW b \in Branches, ChecksEnd(b) \/ MergePr(b)
      PROVE  WorktreesTyped'
  BY <1>1, <1>3 DEF ChecksEnd, lane, local, bounds, MergePr
<1>4. ASSUME NEW l \in Lanes, Poll(l) \/ Take(l) \/ Recover(l) \/ MarkActive(l) \/ Gate(l) \/
             Review(l) \/ CreatePr(l) \/ LabelPr(l) \/ UnlabelIssue(l) \/ Watch(l) \/
             Green(l) \/ Fail(l) \/ Unmark(l) \/ WriteResult(l) \/ Requeue(l) \/
             RecoverWait(l) \/ MarkGreen(l) \/ CountAttempt(l) \/ Fault(l) \/ Crash(l)
      PROVE  WorktreesTyped'
  BY <1>1, <1>4 DEF Poll, StartCycle, SaveState, github, Take, At, GoTo, local, Recover,
       Attempt, MarkActive, StayInCycle, Gate, next_round, FailIssue, Review, CreatePr, LabelPr,
       Relabel, UnlabelIssue, Watch, Green, Fail, Unmark, WriteResult, Requeue, Tried,
       RecoverWait, MarkGreen, CountAttempt, EndCycle, Fault, Except, Crash
<1>5. ASSUME NEW l \in Lanes, Begin(l) PROVE WorktreesTyped'
  <2>1. Mine(l) \in Branches /\ head[l].commits \in {"pushed", "ahead", "diverged"}
    BY <1>5 DEF Begin, At, AtWork, WorkOf, Mine, Branches, WorktreesTyped, Heads
  <2>2. head' \in [Lanes -> Heads]
    BY <1>5, <2>1, HeadTyped DEF Begin, WorktreesTyped
  <2> QED
    BY <1>5, <2>2 DEF Begin, WorktreesTyped
<1>6. ASSUME NEW l \in Lanes, Code(l) PROVE WorktreesTyped'
  BY <1>6 DEF Code, At, Work, GoTo, StayInCycle, github, WorktreesTyped, Heads, Branches
<1>7. ASSUME NEW l \in Lanes, Commit(l) PROVE WorktreesTyped'
  <2>1. head[l].branch \in Branches \cup {None}
    BY DEF WorktreesTyped, Heads
  <2>2. head' \in [Lanes -> Heads]
    BY <1>7, <2>1, HeadTyped DEF Commit, Committed, WorktreesTyped
  <2>3. edits' \in [Lanes -> SUBSET ((Issues \cup {None}) \X Nat)]
    BY <1>7 DEF Commit, WorktreesTyped
  <2> QED
    BY <2>2, <2>3 DEF WorktreesTyped
<1>8. ASSUME NEW l \in Lanes, Push(l) PROVE WorktreesTyped'
  BY <1>8 DEF Push, At, PushHead, Committed, InBranch, GoTo, Except, Mine, EndCycle,
       WorktreesTyped, Heads, Branches
<1>9. ASSUME NEW l \in Lanes, CiFix(l) PROVE WorktreesTyped'
  BY <1>9 DEF CiFix, At, Committed, InBranch, GoTo, Work, FailIssue, Mine, github,
       WorktreesTyped, Heads, Branches
<1>10. ASSUME NEW l \in Lanes, PushCi(l) PROVE WorktreesTyped'
  BY <1>10 DEF PushCi, At, PushHead, Committed, InBranch, Mine, GoTo, StayInCycle,
       WorktreesTyped, Heads, Branches
<1>11. ASSUME NEW l \in Lanes, Checkout(l) PROVE WorktreesTyped'
  BY <1>11 DEF Checkout, At, clean_worktree, Clean, Free, EndCycle, GoTo, InBranch, github,
       WorktreesTyped, Heads, Branches
<1>12. ASSUME NEW l \in Lanes, RecoverCode(l) PROVE WorktreesTyped'
  BY <1>12 DEF RecoverCode, At, Committed, InBranch, GoTo, Work, Tried, Key, CiPassed, EndCycle,
       github, WorktreesTyped, Heads, Branches
<1>13. ASSUME NEW l \in Lanes, RecoverPush(l) PROVE WorktreesTyped'
  BY <1>13 DEF RecoverPush, At, PushHead, Committed, InBranch, Tried, Key, GoTo, EndCycle,
       WorktreesTyped, Heads, Branches
<1> QED
  BY <1>1, <1>2, <1>3, <1>4, <1>5, <1>6, <1>7, <1>8, <1>9, <1>10, <1>11, <1>12, <1>13
     DEF Next, RunStep, RecoverStep

\* GitHub's issues, labels, pull requests and checks.
LEMMA GithubStep ==
    ASSUME IInv, [Next]_vars
    PROVE GithubTyped'
<1> USE DEF IInv
<1>1. CASE UNCHANGED <<open, labels, pr, ci, passed>>
  BY <1>1 DEF GithubTyped, Labels, Branches
<1>2. CASE UNCHANGED vars
  BY <1>1, <1>2 DEF vars, github, local, bounds, lane
<1>3. ASSUME NEW l \in Lanes, Poll(l) \/ Take(l) \/ Recover(l) \/ MarkActive(l) \/ Code(l) \/
             Gate(l) \/ Review(l) \/ Commit(l) \/ Push(l) \/ Watch(l) \/ CiFix(l) \/
             WriteResult(l) \/ Checkout(l) \/ RecoverCode(l) \/ RecoverWait(l) \/
             CountAttempt(l) \/ Fault(l) \/ Crash(l)
      PROVE  GithubTyped'
  BY <1>1, <1>3 DEF Poll, StartCycle, SaveState, github, Take, At, GoTo, local, Recover,
       Attempt, MarkActive, StayInCycle, Code, Gate, next_round, FailIssue, Review, Commit,
       Committed, InBranch, Push, PushHead, Except, EndCycle, Watch, CiFix, WriteResult,
       Checkout, RecoverCode, Tried, RecoverWait, CountAttempt, Fault, Crash
<1>4. ASSUME NEW b \in Branches, ChecksEnd(b) PROVE GithubTyped'
  BY <1>4 DEF ChecksEnd, lane, local, bounds, GithubTyped, Labels, Branches
<1>5. ASSUME NEW b \in Branches, MergePr(b) PROVE GithubTyped'
  BY <1>5 DEF MergePr, lane, local, bounds, GithubTyped, Labels, Branches
<1>6. ASSUME NEW l \in Lanes, Begin(l) PROVE GithubTyped'
  BY <1>6 DEF Begin, At, Relabel, clean_worktree, Free, Mine, InBranch, GoTo, Except, EndCycle,
       GithubTyped, Labels, Branches
<1>7. ASSUME NEW l \in Lanes, CreatePr(l) PROVE GithubTyped'
  BY <1>7 DEF CreatePr, At, Mine, GoTo, StayInCycle, local, GithubTyped, Labels, Branches
<1>8. ASSUME NEW l \in Lanes, LabelPr(l) PROVE GithubTyped'
  BY <1>8 DEF LabelPr, At, Relabel, GoTo, StayInCycle, local, GithubTyped, Labels, Branches
<1>9. ASSUME NEW l \in Lanes, UnlabelIssue(l) PROVE GithubTyped'
  BY <1>9 DEF UnlabelIssue, At, Relabel, done_labels, GoTo, StayInCycle, local, GithubTyped,
       Labels, Branches
<1>10. ASSUME NEW l \in Lanes, PushCi(l) PROVE GithubTyped'
  BY <1>10 DEF PushCi, At, PushHead, Committed, InBranch, Mine, GoTo, StayInCycle, GithubTyped,
       Labels, Branches
<1>11. ASSUME NEW l \in Lanes, Green(l) PROVE GithubTyped'
  BY <1>11 DEF Green, At, Relabel, GoTo, StayInCycle, local, GithubTyped, Labels, Branches
<1>12. ASSUME NEW l \in Lanes, Fail(l) PROVE GithubTyped'
  BY <1>12 DEF Fail, At, Relabel, GoTo, StayInCycle, local, GithubTyped, Labels, Branches
<1>13. ASSUME NEW l \in Lanes, Unmark(l) PROVE GithubTyped'
  BY <1>13 DEF Unmark, At, Relabel, GoTo, StayInCycle, local, GithubTyped, Labels, Branches
<1>14. ASSUME NEW l \in Lanes, Requeue(l) PROVE GithubTyped'
  BY <1>14 DEF Requeue, At, Relabel, Tried, Key, GoTo, StayInCycle, local, GithubTyped, Labels,
       Branches
<1>15. ASSUME NEW l \in Lanes, RecoverPush(l) PROVE GithubTyped'
  BY <1>15 DEF RecoverPush, At, PushHead, Committed, InBranch, Tried, Key, GoTo, EndCycle,
       GithubTyped, Labels, Branches
<1>16. ASSUME NEW l \in Lanes, MarkGreen(l) PROVE GithubTyped'
  BY <1>16 DEF MarkGreen, At, Relabel, GoTo, StayInCycle, local, GithubTyped, Labels, Branches
<1> QED
  BY <1>1, <1>2, <1>3, <1>4, <1>5, <1>6, <1>7, <1>8, <1>9, <1>10, <1>11, <1>12, <1>13,
      <1>14, <1>15, <1>16
     DEF Next, RunStep, RecoverStep

\* The state files, and what the lanes have loaded of them.
LEMMA StatesStep ==
    ASSUME IInv, [Next]_vars
    PROVE StatesTyped'
<1> USE DEF IInv
<1>1. CASE UNCHANGED <<file, mem, faults, tries>>
  BY <1>1 DEF StatesTyped, States, Reasons
<1>2. CASE UNCHANGED vars
  BY <1>1, <1>2 DEF vars, github, local, bounds, lane
<1>3. ASSUME NEW b \in Branches, ChecksEnd(b) \/ MergePr(b)
      PROVE  StatesTyped'
  BY <1>1, <1>3 DEF ChecksEnd, lane, local, bounds, MergePr
<1>4. ASSUME NEW l \in Lanes, Begin(l) \/ Code(l) \/ Gate(l) \/ Review(l) \/ Commit(l) \/
             Push(l) \/ CreatePr(l) \/ LabelPr(l) \/ UnlabelIssue(l) \/ Watch(l) \/ CiFix(l) \/
             PushCi(l) \/ Green(l) \/ Fail(l) \/ Unmark(l) \/ Checkout(l) \/ RecoverWait(l) \/
             MarkGreen(l)
      PROVE  StatesTyped'
  BY <1>1, <1>4 DEF Begin, At, Relabel, InBranch, GoTo, Except, EndCycle, Code, StayInCycle,
       github, Gate, next_round, FailIssue, Review, Commit, Committed, Push, PushHead, CreatePr,
       local, LabelPr, UnlabelIssue, Watch, CiFix, PushCi, Green, Fail, Unmark, Checkout,
       RecoverWait, MarkGreen
<1>5. ASSUME NEW l \in Lanes, Poll(l) PROVE StatesTyped'
  BY <1>5 DEF Poll, StartCycle, SaveState, github, StatesTyped, States, Reasons
<1>6. ASSUME NEW l \in Lanes, Take(l) PROVE StatesTyped'
  BY <1>6 DEF Take, At, GoTo, github, local, StatesTyped, States, Reasons
<1>7. ASSUME NEW l \in Lanes, Recover(l) PROVE StatesTyped'
  BY <1>7 DEF Recover, StartCycle, GoTo, Attempt, Free, under_cap, Clean, github, local,
       StatesTyped, States, Reasons
<1>8. ASSUME NEW l \in Lanes, MarkActive(l) PROVE StatesTyped'
  <2>1. pc[l] # "idle" /\ cur[l] \in Issues
    BY <1>8 DEF MarkActive, At, AtWork, WorkOf
  <2>2. mem[l].active \in SUBSET Issues /\ mem[l].retries \in [Issues \X Reasons -> Nat]
    BY <2>1, LoadedTyped
  <2>3. mem[l].active \cup {cur[l]} \in SUBSET Issues
    BY <2>1, <2>2
  <2>4. mem[l].retries \in [Issues \X Reasons -> Nat]
    BY <2>1, <2>2, KeyTyped DEF CyclesTyped
  <2>5. SaveState(l, mem[l].active \cup {cur[l]}, mem[l].retries)
    BY <1>8 DEF MarkActive
  <2>6. file' \in [Lanes -> States \cup {Corrupt}] /\ file'[l] \in States
    BY <2>3, <2>4, <2>5, SavedTyped
  <2> QED
    BY <1>8, <2>6 DEF MarkActive, At, StatesTyped
<1>9. ASSUME NEW l \in Lanes, WriteResult(l) PROVE StatesTyped'
  <2>1. pc[l] # "idle" /\ cur[l] \in Issues
    BY <1>9 DEF WriteResult, At, AtWork, WorkOf
  <2>2. mem[l].active \in SUBSET Issues /\ mem[l].retries \in [Issues \X Reasons -> Nat]
    BY <2>1, LoadedTyped
  <2>3. mem[l].active \ {cur[l]} \in SUBSET Issues
    BY <2>1, <2>2
  <2>4. mem[l].retries \in [Issues \X Reasons -> Nat]
    BY <2>1, <2>2, KeyTyped DEF CyclesTyped
  <2>5. SaveState(l, mem[l].active \ {cur[l]}, mem[l].retries)
    BY <1>9 DEF WriteResult
  <2>6. file' \in [Lanes -> States \cup {Corrupt}] /\ file'[l] \in States
    BY <2>3, <2>4, <2>5, SavedTyped
  <2> QED
    BY <1>9, <2>6 DEF WriteResult, At, StatesTyped
<1>10. ASSUME NEW l \in Lanes, Requeue(l) PROVE StatesTyped'
  <2>1. cur[l] \in Issues
    BY <1>10 DEF Requeue, At, AtWork, WorkOf
  <2>2. tries' \in [Lanes -> [Issues \X Reasons -> Nat]]
    BY <1>10, <2>1, TriedTyped DEF Requeue, StatesTyped
  <2> QED
    BY <1>10, <2>2 DEF Requeue, At, StatesTyped
<1>11. ASSUME NEW l \in Lanes, RecoverCode(l) PROVE StatesTyped'
  <2>1. cur[l] \in Issues
    BY <1>11 DEF RecoverCode, At, AtWork, WorkOf
  <2>2. tries' \in [Lanes -> [Issues \X Reasons -> Nat]]
    BY <1>11, <2>1, TriedTyped DEF RecoverCode, StatesTyped
  <2> QED
    BY <1>11, <2>2 DEF RecoverCode, At, StatesTyped
<1>12. ASSUME NEW l \in Lanes, RecoverPush(l) PROVE StatesTyped'
  <2>1. cur[l] \in Issues
    BY <1>12 DEF RecoverPush, At, AtWork, WorkOf
  <2>2. tries' \in [Lanes -> [Issues \X Reasons -> Nat]]
    BY <1>12, <2>1, TriedTyped DEF RecoverPush, StatesTyped
  <2> QED
    BY <1>12, <2>2 DEF RecoverPush, At, StatesTyped
<1>13. ASSUME NEW l \in Lanes, CountAttempt(l) PROVE StatesTyped'
  <2>1. pc[l] # "idle" /\ cur[l] \in Issues
    BY <1>13 DEF CountAttempt, At, AtWork, WorkOf
  <2>2. mem[l].active \in SUBSET Issues /\ mem[l].retries \in [Issues \X Reasons -> Nat]
    BY <2>1, LoadedTyped
  <2>3. mem[l].active \in SUBSET Issues
    BY <2>1, <2>2
  <2>4. [mem[l].retries EXCEPT ![Key(l)] = round[l]] \in [Issues \X Reasons -> Nat]
    BY <2>1, <2>2, KeyTyped DEF CyclesTyped
  <2>5. SaveState(l, mem[l].active, [mem[l].retries EXCEPT ![Key(l)] = round[l]])
    BY <1>13 DEF CountAttempt
  <2>6. file' \in [Lanes -> States \cup {Corrupt}] /\ file'[l] \in States
    BY <2>3, <2>4, <2>5, SavedTyped
  <2> QED
    BY <1>13, <2>6 DEF CountAttempt, At, StatesTyped
<1>14. ASSUME NEW l \in Lanes, Fault(l) PROVE StatesTyped'
  <2>1. faults' \in Nat
    BY <1>14 DEF Fault, StatesTyped
  <2> QED
    BY <1>14, <2>1 DEF Fault, StatesTyped
<1>15. ASSUME NEW l \in Lanes, Crash(l) PROVE StatesTyped'
  <2>1. faults' \in Nat
    BY <1>15 DEF Crash, StatesTyped
  <2>2. file' \in [Lanes -> States \cup {Corrupt}]
    BY <1>15 DEF Crash, StatesTyped
  <2> QED
    BY <1>15, <2>1, <2>2 DEF Crash, StatesTyped
<1> QED
  BY <1>1, <1>2, <1>3, <1>4, <1>5, <1>6, <1>7, <1>8, <1>9, <1>10, <1>11, <1>12, <1>13,
      <1>14, <1>15
     DEF Next, RunStep, RecoverStep

\* A lane saves what it loads before it is idle again, or dies in the write.
LEMMA FileStep ==
    ASSUME IInv, [Next]_vars, PlacesTyped', CyclesTyped', WorktreesTyped', StatesTyped'
    PROVE FileIsLoaded'
<1> USE DEF IInv, PlacesTyped, CyclesTyped, WorktreesTyped, StatesTyped
<1>1. CASE UNCHANGED <<file, mem, pc, todo>>
  BY <1>1 DEF FileIsLoaded
<1>2. CASE UNCHANGED vars
  BY <1>1, <1>2 DEF vars, github, local, bounds, lane
<1>3. ASSUME NEW b \in Branches, ChecksEnd(b) \/ MergePr(b)
      PROVE  FileIsLoaded'
  BY <1>1, <1>3 DEF ChecksEnd, lane, local, bounds, MergePr
<1>4. ASSUME NEW l \in Lanes, Poll(l) PROVE FileIsLoaded'
  <2>1. file[l] \in States
    BY <1>4 DEF Poll
  <2>2. file[l].active \in SUBSET Issues /\ file[l].retries \in [Issues \X Reasons -> Nat]
    BY <2>1 DEF States
  <2>3. SaveState(l, file[l].active \cap open, file[l].retries) /\ pc[l] = "idle"
        /\ UNCHANGED <<pc, mem>> /\ \A m \in Lanes \ {l} : todo'[m] = todo[m]
    BY <1>4 DEF Poll
  <2>4. file'[l] # Corrupt
    BY <2>2, <2>3, SavedTyped, WholeState
  <2> QED
    BY <2>3, <2>4 DEF SaveState, FileIsLoaded
<1>5. ASSUME NEW l \in Lanes, Take(l) PROVE FileIsLoaded'
  BY <1>5 DEF Take, At, GoTo, github, local, FileIsLoaded
<1>6. ASSUME NEW l \in Lanes, Recover(l) PROVE FileIsLoaded'
  BY <1>6 DEF Recover, StartCycle, GoTo, Attempt, Free, under_cap, Clean, github, local,
       FileIsLoaded
<1>7. ASSUME NEW l \in Lanes, Begin(l) PROVE FileIsLoaded'
  BY <1>7 DEF Begin, At, Relabel, clean_worktree, Free, Mine, InBranch, GoTo, Except, EndCycle,
       FileIsLoaded
<1>8. ASSUME NEW l \in Lanes, MarkActive(l) PROVE FileIsLoaded'
  <2>1. pc[l] # "idle" /\ cur[l] \in Issues
    BY <1>8 DEF MarkActive, At, AtWork, WorkOf
  <2>2. mem[l].active \in SUBSET Issues /\ mem[l].retries \in [Issues \X Reasons -> Nat]
    BY <2>1, LoadedTyped
  <2>3. SaveState(l, mem[l].active \cup {cur[l]}, mem[l].retries)
    BY <1>8 DEF MarkActive
  <2>4. file'[l] # Corrupt
    BY <2>1, <2>2, <2>3, SavedTyped, WholeState
  <2> QED
    BY <1>8, <2>4 DEF MarkActive, At, GoTo, StayInCycle, SaveState, FileIsLoaded
<1>9. ASSUME NEW l \in Lanes, Code(l) PROVE FileIsLoaded'
  BY <1>9 DEF Code, At, Work, GoTo, StayInCycle, github, FileIsLoaded
<1>10. ASSUME NEW l \in Lanes, Gate(l) PROVE FileIsLoaded'
  BY <1>10 DEF Gate, At, GoTo, next_round, FailIssue, Mine, StayInCycle, github, FileIsLoaded
<1>11. ASSUME NEW l \in Lanes, Review(l) PROVE FileIsLoaded'
  BY <1>11 DEF Review, At, GoTo, FailIssue, Mine, StayInCycle, github, FileIsLoaded
<1>12. ASSUME NEW l \in Lanes, Commit(l) PROVE FileIsLoaded'
  BY <1>12 DEF Commit, At, Committed, InBranch, Mine, GoTo, StayInCycle, FailIssue, github,
       FileIsLoaded
<1>13. ASSUME NEW l \in Lanes, Push(l) PROVE FileIsLoaded'
  BY <1>13 DEF Push, At, PushHead, Committed, InBranch, GoTo, Except, Mine, EndCycle,
       FileIsLoaded
<1>14. ASSUME NEW l \in Lanes, CreatePr(l) PROVE FileIsLoaded'
  BY <1>14 DEF CreatePr, At, Mine, GoTo, StayInCycle, local, FileIsLoaded
<1>15. ASSUME NEW l \in Lanes, LabelPr(l) PROVE FileIsLoaded'
  BY <1>15 DEF LabelPr, At, Relabel, GoTo, StayInCycle, local, FileIsLoaded
<1>16. ASSUME NEW l \in Lanes, UnlabelIssue(l) PROVE FileIsLoaded'
  BY <1>16 DEF UnlabelIssue, At, Relabel, done_labels, GoTo, StayInCycle, local, FileIsLoaded
<1>17. ASSUME NEW l \in Lanes, Watch(l) PROVE FileIsLoaded'
  BY <1>17 DEF Watch, At, CiPassed, Mine, GoTo, next_round, FailIssue, StayInCycle, github,
       FileIsLoaded
<1>18. ASSUME NEW l \in Lanes, CiFix(l) PROVE FileIsLoaded'
  BY <1>18 DEF CiFix, At, Committed, InBranch, GoTo, Work, FailIssue, Mine, github, FileIsLoaded
<1>19. ASSUME NEW l \in Lanes, PushCi(l) PROVE FileIsLoaded'
  BY <1>19 DEF PushCi, At, PushHead, Committed, InBranch, Mine, GoTo, StayInCycle, FileIsLoaded
<1>20. ASSUME NEW l \in Lanes, Green(l) PROVE FileIsLoaded'
  BY <1>20 DEF Green, At, Relabel, GoTo, StayInCycle, local, FileIsLoaded
<1>21. ASSUME NEW l \in Lanes, Fail(l) PROVE FileIsLoaded'
  BY <1>21 DEF Fail, At, Relabel, GoTo, StayInCycle, local, FileIsLoaded
<1>22. ASSUME NEW l \in Lanes, Unmark(l) PROVE FileIsLoaded'
  BY <1>22 DEF Unmark, At, Relabel, GoTo, StayInCycle, local, FileIsLoaded
<1>23. ASSUME NEW l \in Lanes, WriteResult(l) PROVE FileIsLoaded'
  <2>1. pc[l] # "idle" /\ cur[l] \in Issues
    BY <1>23 DEF WriteResult, At, AtWork, WorkOf
  <2>2. mem[l].active \in SUBSET Issues /\ mem[l].retries \in [Issues \X Reasons -> Nat]
    BY <2>1, LoadedTyped
  <2>3. SaveState(l, mem[l].active \ {cur[l]}, mem[l].retries)
    BY <1>23 DEF WriteResult
  <2>4. file'[l] # Corrupt
    BY <2>1, <2>2, <2>3, SavedTyped, WholeState
  <2> QED
    BY <1>23, <2>4 DEF WriteResult, At, GoTo, StayInCycle, SaveState, FileIsLoaded
<1>24. ASSUME NEW l \in Lanes, Requeue(l) PROVE FileIsLoaded'
  BY <1>24 DEF Requeue, At, Relabel, Tried, Key, GoTo, StayInCycle, local, FileIsLoaded
<1>25. ASSUME NEW l \in Lanes, Checkout(l) PROVE FileIsLoaded'
  BY <1>25 DEF Checkout, At, clean_worktree, Clean, Free, EndCycle, GoTo, InBranch, github,
       FileIsLoaded
<1>26. ASSUME NEW l \in Lanes, RecoverCode(l) PROVE FileIsLoaded'
  BY <1>26 DEF RecoverCode, At, Committed, InBranch, GoTo, Work, Tried, Key, CiPassed, EndCycle,
       github, FileIsLoaded
<1>27. ASSUME NEW l \in Lanes, RecoverPush(l) PROVE FileIsLoaded'
  BY <1>27 DEF RecoverPush, At, PushHead, Committed, InBranch, Tried, Key, GoTo, EndCycle,
       FileIsLoaded
<1>28. ASSUME NEW l \in Lanes, RecoverWait(l) PROVE FileIsLoaded'
  BY <1>28 DEF RecoverWait, At, GoTo, CiPassed, StayInCycle, github, local, FileIsLoaded
<1>29. ASSUME NEW l \in Lanes, MarkGreen(l) PROVE FileIsLoaded'
  BY <1>29 DEF MarkGreen, At, Relabel, GoTo, StayInCycle, local, FileIsLoaded
<1>30. ASSUME NEW l \in Lanes, CountAttempt(l) PROVE FileIsLoaded'
  BY <1>30 DEF CountAttempt, At, SaveState, Key, EndCycle, GoTo, github, local, FileIsLoaded
<1>31. ASSUME NEW l \in Lanes, Fault(l) PROVE FileIsLoaded'
  <2>1. pc[l] # "idle" /\ UNCHANGED <<file, mem>>
    BY <1>31 DEF Fault, RunPlaces, FailPlaces, RecoverPlaces
  <2>2. \A m \in Lanes \ {l} : pc'[m] = pc[m] /\ todo'[m] = todo[m]
    BY <1>31, ExceptGoes DEF Fault, EndCycle, GoTo
  <2> QED
    BY <2>1, <2>2 DEF FileIsLoaded
<1>32. ASSUME NEW l \in Lanes, Crash(l) PROVE FileIsLoaded'
  BY <1>32 DEF Crash, EndCycle, GoTo, github, local, FileIsLoaded
<1> QED
  BY <1>1, <1>2, <1>3, <1>4, <1>5, <1>6, <1>7, <1>8, <1>9, <1>10, <1>11, <1>12, <1>13,
      <1>14, <1>15, <1>16, <1>17, <1>18, <1>19, <1>20, <1>21, <1>22, <1>23, <1>24, <1>25,
      <1>26, <1>27, <1>28, <1>29, <1>30, <1>31, <1>32
     DEF Next, RunStep, RecoverStep

-----------------------------------------------------------------------------
(* Lanes and their branches.                                               *)
\* run_issue() stays on the branch of its issue with nothing of other issues to commit,
\* and a recovery on the branch of its pull request.
LEMMA AtWorkStep ==
    ASSUME IInv, [Next]_vars, PlacesTyped', CyclesTyped', WorktreesTyped'
    PROVE AtWork'
<1> USE DEF IInv, PlacesTyped, CyclesTyped, WorktreesTyped
<1>1. CASE UNCHANGED <<pc, cur, target, edits, head, cycles>>
  BY <1>1 DEF AtWork, WorkOf, OnBranch, RunPlaces, Mine, Coding, Work, OnTarget, Branches
<1>2. CASE UNCHANGED vars
  BY <1>1, <1>2 DEF vars, github, local, bounds, lane
<1>3. ASSUME NEW b \in Branches, ChecksEnd(b) \/ MergePr(b)
      PROVE  AtWork'
  BY <1>1, <1>3 DEF ChecksEnd, lane, local, bounds, MergePr
<1>4. ASSUME NEW l \in Lanes, Poll(l) PROVE AtWork'
  BY <1>4 DEF Poll, StartCycle, SaveState, github, AtWork, WorkOf, OnBranch, RunPlaces, Mine,
       Coding, Work, OnTarget, Branches
<1>5. ASSUME NEW l \in Lanes, Take(l) PROVE AtWork'
  BY <1>5 DEF Take, At, GoTo, github, local, AtWork, WorkOf, OnBranch, RunPlaces, Mine, Coding,
       Work, OnTarget, Branches
<1>6. ASSUME NEW l \in Lanes, Recover(l) PROVE AtWork'
  <2>1. /\ cur'[l] \in Issues /\ target'[l] \in Branches \cup {None}
        /\ pc'[l] \in {"mark", "checkout"} => target'[l] \in Branches /\ target'[l][2] = cur'[l]
    BY <1>6 DEF Recover, GoTo, GithubTyped
  <2>2. \A m \in Lanes \ {l} : pc'[m] = pc[m] /\ cur'[m] = cur[m] /\ target'[m] = target[m]
                               /\ cycles'[m] = cycles[m]
    BY <1>6 DEF Recover, GoTo, StartCycle
  <2>3. pc'[l] \in {"mark", "checkout", "requeue"} /\ UNCHANGED <<head, edits>>
    BY <1>6 DEF Recover, GoTo, local
  <2>4. WorkOf(l)'
    BY <2>1, <2>3 DEF WorkOf, OnBranch, Coding, OnTarget, RunPlaces, Mine, Work
  <2>5. \A m \in Lanes \ {l} : WorkOf(m)'
    BY <2>2, <2>3 DEF AtWork, WorkOf, Mine, Work
  <2> QED
    BY <2>4, <2>5 DEF AtWork
<1>7. ASSUME NEW l \in Lanes, Begin(l) PROVE AtWork'
  BY <1>7 DEF Begin, At, Relabel, clean_worktree, Free, Mine, InBranch, GoTo, Except, EndCycle,
       AtWork, WorkOf, OnBranch, RunPlaces, Coding, Work, OnTarget, Branches
<1>8. ASSUME NEW l \in Lanes, MarkActive(l) PROVE AtWork'
  BY <1>8 DEF MarkActive, At, SaveState, GoTo, StayInCycle, github, local, AtWork, WorkOf,
       OnBranch, RunPlaces, Mine, Coding, Work, OnTarget, Branches
<1>9. ASSUME NEW l \in Lanes, Code(l) PROVE AtWork'
  BY <1>9 DEF Code, At, Work, GoTo, StayInCycle, github, AtWork, WorkOf, OnBranch, RunPlaces,
       Mine, Coding, OnTarget, Branches
<1>10. ASSUME NEW l \in Lanes, Gate(l) PROVE AtWork'
  BY <1>10 DEF Gate, At, GoTo, next_round, FailIssue, Mine, StayInCycle, github, AtWork, WorkOf,
       OnBranch, RunPlaces, Coding, Work, OnTarget, Branches
<1>11. ASSUME NEW l \in Lanes, Review(l) PROVE AtWork'
  BY <1>11 DEF Review, At, GoTo, FailIssue, Mine, StayInCycle, github, AtWork, WorkOf, OnBranch,
       RunPlaces, Coding, Work, OnTarget, Branches
<1>12. ASSUME NEW l \in Lanes, Commit(l) PROVE AtWork'
  BY <1>12 DEF Commit, At, Committed, InBranch, Mine, GoTo, StayInCycle, FailIssue, github,
       AtWork, WorkOf, OnBranch, RunPlaces, Coding, Work, OnTarget, Branches
<1>13. ASSUME NEW l \in Lanes, Push(l) PROVE AtWork'
  BY <1>13 DEF Push, At, PushHead, Committed, InBranch, GoTo, Except, Mine, EndCycle, AtWork,
       WorkOf, OnBranch, RunPlaces, Coding, Work, OnTarget, Branches
<1>14. ASSUME NEW l \in Lanes, CreatePr(l) PROVE AtWork'
  BY <1>14 DEF CreatePr, At, Mine, GoTo, StayInCycle, local, AtWork, WorkOf, OnBranch,
       RunPlaces, Coding, Work, OnTarget, Branches
<1>15. ASSUME NEW l \in Lanes, LabelPr(l) PROVE AtWork'
  BY <1>15 DEF LabelPr, At, Relabel, GoTo, StayInCycle, local, AtWork, WorkOf, OnBranch,
       RunPlaces, Mine, Coding, Work, OnTarget, Branches
<1>16. ASSUME NEW l \in Lanes, UnlabelIssue(l) PROVE AtWork'
  BY <1>16 DEF UnlabelIssue, At, Relabel, done_labels, GoTo, StayInCycle, local, AtWork, WorkOf,
       OnBranch, RunPlaces, Mine, Coding, Work, OnTarget, Branches
<1>17. ASSUME NEW l \in Lanes, Watch(l) PROVE AtWork'
  BY <1>17 DEF Watch, At, CiPassed, Mine, GoTo, next_round, FailIssue, StayInCycle, github,
       AtWork, WorkOf, OnBranch, RunPlaces, Coding, Work, OnTarget, Branches
<1>18. ASSUME NEW l \in Lanes, CiFix(l) PROVE AtWork'
  BY <1>18 DEF CiFix, At, Committed, InBranch, GoTo, Work, FailIssue, Mine, github, AtWork,
       WorkOf, OnBranch, RunPlaces, Coding, OnTarget, Branches
<1>19. ASSUME NEW l \in Lanes, PushCi(l) PROVE AtWork'
  BY <1>19 DEF PushCi, At, PushHead, Committed, InBranch, Mine, GoTo, StayInCycle, AtWork,
       WorkOf, OnBranch, RunPlaces, Coding, Work, OnTarget, Branches
<1>20. ASSUME NEW l \in Lanes, Green(l) PROVE AtWork'
  BY <1>20 DEF Green, At, Relabel, GoTo, StayInCycle, local, AtWork, WorkOf, OnBranch,
       RunPlaces, Mine, Coding, Work, OnTarget, Branches
<1>21. ASSUME NEW l \in Lanes, Fail(l) PROVE AtWork'
  BY <1>21 DEF Fail, At, Relabel, GoTo, StayInCycle, local, AtWork, WorkOf, OnBranch, RunPlaces,
       Mine, Coding, Work, OnTarget, Branches
<1>22. ASSUME NEW l \in Lanes, Unmark(l) PROVE AtWork'
  BY <1>22 DEF Unmark, At, Relabel, GoTo, StayInCycle, local, AtWork, WorkOf, OnBranch,
       RunPlaces, Mine, Coding, Work, OnTarget, Branches
<1>23. ASSUME NEW l \in Lanes, WriteResult(l) PROVE AtWork'
  BY <1>23 DEF WriteResult, At, SaveState, GoTo, github, local, AtWork, WorkOf, OnBranch,
       RunPlaces, Mine, Coding, Work, OnTarget, Branches
<1>24. ASSUME NEW l \in Lanes, Requeue(l) PROVE AtWork'
  BY <1>24 DEF Requeue, At, Relabel, Tried, Key, GoTo, StayInCycle, local, AtWork, WorkOf,
       OnBranch, RunPlaces, Mine, Coding, Work, OnTarget, Branches
<1>25. ASSUME NEW l \in Lanes, Checkout(l) PROVE AtWork'
  BY <1>25 DEF Checkout, At, clean_worktree, Clean, Free, EndCycle, GoTo, InBranch, github,
       AtWork, WorkOf, OnBranch, RunPlaces, Mine, Coding, Work, OnTarget, Branches
<1>26. ASSUME NEW l \in Lanes, RecoverCode(l) PROVE AtWork'
  BY <1>26 DEF RecoverCode, At, Committed, InBranch, GoTo, Work, Tried, Key, CiPassed, EndCycle,
       github, AtWork, WorkOf, OnBranch, RunPlaces, Mine, Coding, OnTarget, Branches
<1>27. ASSUME NEW l \in Lanes, RecoverPush(l) PROVE AtWork'
  BY <1>27 DEF RecoverPush, At, PushHead, Committed, InBranch, Tried, Key, GoTo, EndCycle,
       AtWork, WorkOf, OnBranch, RunPlaces, Mine, Coding, Work, OnTarget, Branches
<1>28. ASSUME NEW l \in Lanes, RecoverWait(l) PROVE AtWork'
  BY <1>28 DEF RecoverWait, At, GoTo, CiPassed, StayInCycle, github, local, AtWork, WorkOf,
       OnBranch, RunPlaces, Mine, Coding, Work, OnTarget, Branches
<1>29. ASSUME NEW l \in Lanes, MarkGreen(l) PROVE AtWork'
  BY <1>29 DEF MarkGreen, At, Relabel, GoTo, StayInCycle, local, AtWork, WorkOf, OnBranch,
       RunPlaces, Mine, Coding, Work, OnTarget, Branches
<1>30. ASSUME NEW l \in Lanes, CountAttempt(l) PROVE AtWork'
  BY <1>30 DEF CountAttempt, At, SaveState, Key, EndCycle, GoTo, github, local, AtWork, WorkOf,
       OnBranch, RunPlaces, Mine, Coding, Work, OnTarget, Branches
<1>31. ASSUME NEW l \in Lanes, Fault(l) PROVE AtWork'
  <2>1. pc'[l] \in {"fail", "idle"} /\ \A m \in Lanes \ {l} : pc'[m] = pc[m]
    BY <1>31, ExceptGoes DEF Fault, EndCycle, GoTo
  <2>2. UNCHANGED <<cur, target, head, edits, cycles>>
    BY <1>31, ExceptGoes DEF Fault
  <2>3. pc'[l] = "fail" => pc[l] \in RunPlaces \cup FailPlaces
    BY <1>31 DEF Fault, EndCycle, GoTo
  <2>4. WorkOf(l)'
    BY <2>1, <2>2, <2>3 DEF AtWork, WorkOf, OnBranch, Coding, OnTarget, RunPlaces, FailPlaces,
          Mine, Work
  <2>5. \A m \in Lanes \ {l} : WorkOf(m)'
    BY <2>1, <2>2 DEF AtWork, WorkOf, Mine, Work
  <2> QED
    BY <2>4, <2>5 DEF AtWork
<1>32. ASSUME NEW l \in Lanes, Crash(l) PROVE AtWork'
  BY <1>32 DEF Crash, EndCycle, GoTo, github, local, AtWork, WorkOf, OnBranch, RunPlaces, Mine,
       Coding, Work, OnTarget, Branches
<1> QED
  BY <1>1, <1>2, <1>3, <1>4, <1>5, <1>6, <1>7, <1>8, <1>9, <1>10, <1>11, <1>12, <1>13,
      <1>14, <1>15, <1>16, <1>17, <1>18, <1>19, <1>20, <1>21, <1>22, <1>23, <1>24, <1>25,
      <1>26, <1>27, <1>28, <1>29, <1>30, <1>31, <1>32
     DEF Next, RunStep, RecoverStep

\* git refuses to check out a branch that another worktree has.
LEMMA CheckoutStep ==
    ASSUME IInv, [Next]_vars, PlacesTyped', CyclesTyped', WorktreesTyped'
    PROVE OneCheckout'
<1> USE DEF IInv, PlacesTyped, CyclesTyped, WorktreesTyped
<1>1. CASE UNCHANGED head
  BY <1>1 DEF OneCheckout
<1>2. CASE UNCHANGED vars
  BY <1>1, <1>2 DEF vars, github, local, bounds, lane
<1>3. ASSUME NEW b \in Branches, ChecksEnd(b) \/ MergePr(b)
      PROVE  OneCheckout'
  BY <1>1, <1>3 DEF ChecksEnd, lane, local, bounds, MergePr
<1>4. ASSUME NEW l \in Lanes, Poll(l) \/ Take(l) \/ Recover(l) \/ MarkActive(l) \/ Code(l) \/
             Gate(l) \/ Review(l) \/ CreatePr(l) \/ LabelPr(l) \/ UnlabelIssue(l) \/ Watch(l) \/
             Green(l) \/ Fail(l) \/ Unmark(l) \/ WriteResult(l) \/ Requeue(l) \/
             RecoverWait(l) \/ MarkGreen(l) \/ CountAttempt(l) \/ Fault(l) \/ Crash(l)
      PROVE  OneCheckout'
  BY <1>1, <1>4 DEF Poll, StartCycle, SaveState, github, Take, At, GoTo, local, Recover,
       Attempt, MarkActive, StayInCycle, Code, Gate, next_round, FailIssue, Review, CreatePr,
       LabelPr, Relabel, UnlabelIssue, Watch, Green, Fail, Unmark, WriteResult, Requeue, Tried,
       RecoverWait, MarkGreen, CountAttempt, EndCycle, Fault, Except, Crash
<1>5. ASSUME NEW l \in Lanes, Begin(l) PROVE OneCheckout'
  BY <1>5 DEF Begin, At, Relabel, clean_worktree, Free, Mine, InBranch, GoTo, Except, EndCycle,
       OneCheckout
<1>6. ASSUME NEW l \in Lanes, Commit(l) PROVE OneCheckout'
  BY <1>6 DEF Commit, At, Committed, InBranch, Mine, GoTo, StayInCycle, FailIssue, github,
       OneCheckout
<1>7. ASSUME NEW l \in Lanes, Push(l) PROVE OneCheckout'
  BY <1>7 DEF Push, At, PushHead, Committed, InBranch, GoTo, Except, Mine, EndCycle, OneCheckout
<1>8. ASSUME NEW l \in Lanes, CiFix(l) PROVE OneCheckout'
  BY <1>8 DEF CiFix, At, Committed, InBranch, GoTo, Work, FailIssue, Mine, github, OneCheckout
<1>9. ASSUME NEW l \in Lanes, PushCi(l) PROVE OneCheckout'
  BY <1>9 DEF PushCi, At, PushHead, Committed, InBranch, Mine, GoTo, StayInCycle, OneCheckout
<1>10. ASSUME NEW l \in Lanes, Checkout(l) PROVE OneCheckout'
  BY <1>10 DEF Checkout, At, clean_worktree, Clean, Free, EndCycle, GoTo, InBranch, github,
       OneCheckout
<1>11. ASSUME NEW l \in Lanes, RecoverCode(l) PROVE OneCheckout'
  BY <1>11 DEF RecoverCode, At, Committed, InBranch, GoTo, Work, Tried, Key, CiPassed, EndCycle,
       github, OneCheckout
<1>12. ASSUME NEW l \in Lanes, RecoverPush(l) PROVE OneCheckout'
  BY <1>12 DEF RecoverPush, At, PushHead, Committed, InBranch, Tried, Key, GoTo, EndCycle,
       OneCheckout
<1> QED
  BY <1>1, <1>2, <1>3, <1>4, <1>5, <1>6, <1>7, <1>8, <1>9, <1>10, <1>11, <1>12
     DEF Next, RunStep, RecoverStep

-----------------------------------------------------------------------------
(* Checks and labels.                                                      *)
\* Checks that pass are remembered, and nothing is marked without them.
LEMMA PassedStep ==
    ASSUME IInv, [Next]_vars, PlacesTyped', CyclesTyped', WorktreesTyped', GithubTyped'
    PROVE PassedIsKnown'
<1> USE DEF IInv, PlacesTyped, CyclesTyped, WorktreesTyped, GithubTyped
<1>1. CASE UNCHANGED <<ci, pc, target, passed>>
  BY <1>1 DEF PassedIsKnown, Branches
<1>2. CASE UNCHANGED vars
  BY <1>1, <1>2 DEF vars, github, local, bounds, lane
<1>3. ASSUME NEW b \in Branches, MergePr(b)
      PROVE  PassedIsKnown'
  BY <1>1, <1>3 DEF MergePr, lane, local, bounds
<1>4. ASSUME NEW l \in Lanes, Poll(l)
      PROVE  PassedIsKnown'
  BY <1>1, <1>4 DEF Poll, StartCycle, SaveState, github
<1>5. ASSUME NEW b \in Branches, ChecksEnd(b) PROVE PassedIsKnown'
  BY <1>5 DEF ChecksEnd, lane, local, bounds, PassedIsKnown, Branches
<1>6. ASSUME NEW l \in Lanes, Take(l) PROVE PassedIsKnown'
  BY <1>6 DEF Take, At, GoTo, github, local, PassedIsKnown, Branches
<1>7. ASSUME NEW l \in Lanes, Recover(l) PROVE PassedIsKnown'
  BY <1>7 DEF Recover, StartCycle, GoTo, Attempt, Free, under_cap, Clean, github, local,
       PassedIsKnown, Branches
<1>8. ASSUME NEW l \in Lanes, Begin(l) PROVE PassedIsKnown'
  BY <1>8 DEF Begin, At, Relabel, clean_worktree, Free, Mine, InBranch, GoTo, Except, EndCycle,
       PassedIsKnown, Branches
<1>9. ASSUME NEW l \in Lanes, MarkActive(l) PROVE PassedIsKnown'
  BY <1>9 DEF MarkActive, At, SaveState, GoTo, StayInCycle, github, local, PassedIsKnown,
       Branches
<1>10. ASSUME NEW l \in Lanes, Code(l) PROVE PassedIsKnown'
  BY <1>10 DEF Code, At, Work, GoTo, StayInCycle, github, PassedIsKnown, Branches
<1>11. ASSUME NEW l \in Lanes, Gate(l) PROVE PassedIsKnown'
  BY <1>11 DEF Gate, At, GoTo, next_round, FailIssue, Mine, StayInCycle, github, PassedIsKnown,
       Branches
<1>12. ASSUME NEW l \in Lanes, Review(l) PROVE PassedIsKnown'
  BY <1>12 DEF Review, At, GoTo, FailIssue, Mine, StayInCycle, github, PassedIsKnown, Branches
<1>13. ASSUME NEW l \in Lanes, Commit(l) PROVE PassedIsKnown'
  BY <1>13 DEF Commit, At, Committed, InBranch, Mine, GoTo, StayInCycle, FailIssue, github,
       PassedIsKnown, Branches
<1>14. ASSUME NEW l \in Lanes, Push(l) PROVE PassedIsKnown'
  BY <1>14 DEF Push, At, PushHead, Committed, InBranch, GoTo, Except, Mine, EndCycle,
       PassedIsKnown, Branches
<1>15. ASSUME NEW l \in Lanes, CreatePr(l) PROVE PassedIsKnown'
  BY <1>15 DEF CreatePr, At, Mine, GoTo, StayInCycle, local, PassedIsKnown, Branches
<1>16. ASSUME NEW l \in Lanes, LabelPr(l) PROVE PassedIsKnown'
  BY <1>16 DEF LabelPr, At, Relabel, GoTo, StayInCycle, local, PassedIsKnown, Branches
<1>17. ASSUME NEW l \in Lanes, UnlabelIssue(l) PROVE PassedIsKnown'
  BY <1>17 DEF UnlabelIssue, At, Relabel, done_labels, GoTo, StayInCycle, local, PassedIsKnown,
       Branches
<1>18. ASSUME NEW l \in Lanes, Watch(l) PROVE PassedIsKnown'
  BY <1>18 DEF Watch, At, CiPassed, Mine, GoTo, next_round, FailIssue, StayInCycle, github,
       PassedIsKnown, Branches
<1>19. ASSUME NEW l \in Lanes, CiFix(l) PROVE PassedIsKnown'
  BY <1>19 DEF CiFix, At, Committed, InBranch, GoTo, Work, FailIssue, Mine, github,
       PassedIsKnown, Branches
<1>20. ASSUME NEW l \in Lanes, PushCi(l) PROVE PassedIsKnown'
  BY <1>20 DEF PushCi, At, PushHead, Committed, InBranch, Mine, GoTo, StayInCycle,
       PassedIsKnown, Branches
<1>21. ASSUME NEW l \in Lanes, Green(l) PROVE PassedIsKnown'
  BY <1>21 DEF Green, At, Relabel, GoTo, StayInCycle, local, PassedIsKnown, Branches
<1>22. ASSUME NEW l \in Lanes, Fail(l) PROVE PassedIsKnown'
  BY <1>22 DEF Fail, At, Relabel, GoTo, StayInCycle, local, PassedIsKnown, Branches
<1>23. ASSUME NEW l \in Lanes, Unmark(l) PROVE PassedIsKnown'
  BY <1>23 DEF Unmark, At, Relabel, GoTo, StayInCycle, local, PassedIsKnown, Branches
<1>24. ASSUME NEW l \in Lanes, WriteResult(l) PROVE PassedIsKnown'
  BY <1>24 DEF WriteResult, At, SaveState, GoTo, github, local, PassedIsKnown, Branches
<1>25. ASSUME NEW l \in Lanes, Requeue(l) PROVE PassedIsKnown'
  BY <1>25 DEF Requeue, At, Relabel, Tried, Key, GoTo, StayInCycle, local, PassedIsKnown,
       Branches
<1>26. ASSUME NEW l \in Lanes, Checkout(l) PROVE PassedIsKnown'
  BY <1>26 DEF Checkout, At, clean_worktree, Clean, Free, EndCycle, GoTo, InBranch, github,
       PassedIsKnown, Branches
<1>27. ASSUME NEW l \in Lanes, RecoverCode(l) PROVE PassedIsKnown'
  BY <1>27 DEF RecoverCode, At, Committed, InBranch, GoTo, Work, Tried, Key, CiPassed, EndCycle,
       github, PassedIsKnown, Branches, AtWork, WorkOf, OnTarget
<1>28. ASSUME NEW l \in Lanes, RecoverPush(l) PROVE PassedIsKnown'
  BY <1>28 DEF RecoverPush, At, PushHead, Committed, InBranch, Tried, Key, GoTo, EndCycle,
       PassedIsKnown, Branches
<1>29. ASSUME NEW l \in Lanes, RecoverWait(l) PROVE PassedIsKnown'
  BY <1>29 DEF RecoverWait, At, GoTo, CiPassed, StayInCycle, github, local, PassedIsKnown,
       Branches, AtWork, WorkOf, OnTarget
<1>30. ASSUME NEW l \in Lanes, MarkGreen(l) PROVE PassedIsKnown'
  BY <1>30 DEF MarkGreen, At, Relabel, GoTo, StayInCycle, local, PassedIsKnown, Branches
<1>31. ASSUME NEW l \in Lanes, CountAttempt(l) PROVE PassedIsKnown'
  BY <1>31 DEF CountAttempt, At, SaveState, Key, EndCycle, GoTo, github, local, PassedIsKnown,
       Branches
<1>32. ASSUME NEW l \in Lanes, Fault(l) PROVE PassedIsKnown'
  BY <1>32 DEF Fault, Except, Mine, EndCycle, GoTo, github, PassedIsKnown, Branches
<1>33. ASSUME NEW l \in Lanes, Crash(l) PROVE PassedIsKnown'
  BY <1>33 DEF Crash, EndCycle, GoTo, github, local, PassedIsKnown, Branches
<1> QED
  BY <1>1, <1>2, <1>3, <1>4, <1>5, <1>6, <1>7, <1>8, <1>9, <1>10, <1>11, <1>12, <1>13,
      <1>14, <1>15, <1>16, <1>17, <1>18, <1>19, <1>20, <1>21, <1>22, <1>23, <1>24, <1>25,
      <1>26, <1>27, <1>28, <1>29, <1>30, <1>31, <1>32, <1>33
     DEF Next, RunStep, RecoverStep

\* in_progress goes only when pr_opened or needs_human is there.
LEMMA LabelledStep ==
    ASSUME IInv, [Next]_vars, PlacesTyped', CyclesTyped', WorktreesTyped', GithubTyped'
    PROVE WorkIsLabelled'
<1> USE DEF IInv, PlacesTyped, CyclesTyped, WorktreesTyped, GithubTyped, AtWork, WorkOf
<1>1. CASE UNCHANGED <<labels, pc, cur>>
  BY <1>1 DEF WorkIsLabelled, OnBranch, RunPlaces
<1>2. CASE UNCHANGED vars
  BY <1>1, <1>2 DEF vars, github, local, bounds, lane
<1>3. ASSUME NEW b \in Branches, ChecksEnd(b) \/ MergePr(b)
      PROVE  WorkIsLabelled'
  BY <1>1, <1>3 DEF ChecksEnd, lane, local, bounds, MergePr
<1>4. ASSUME NEW l \in Lanes, Poll(l)
      PROVE  WorkIsLabelled'
  BY <1>1, <1>4 DEF Poll, StartCycle, SaveState, github
<1>5. ASSUME NEW l \in Lanes, Take(l) PROVE WorkIsLabelled'
  BY <1>5 DEF Take, At, GoTo, github, local, WorkIsLabelled, OnBranch, RunPlaces
<1>6. ASSUME NEW l \in Lanes, Recover(l) PROVE WorkIsLabelled'
  BY <1>6 DEF Recover, StartCycle, GoTo, Attempt, Free, under_cap, Clean, github, local,
       WorkIsLabelled, OnBranch, RunPlaces
<1>7. ASSUME NEW l \in Lanes, Begin(l) PROVE WorkIsLabelled'
  <2>1. /\ cur[l] \in Issues /\ pc'[l] \in {"active", "fail", "idle"} /\ UNCHANGED cur
        /\ \A m \in Lanes \ {l} : pc'[m] = pc[m]
    BY <1>7, ExceptGoes DEF Begin, At, GoTo, AtWork, WorkOf
  <2>2. labels'[cur[l]] = labels[cur[l]] \cup {"in_progress"}
    BY <1>7, <2>1 DEF Begin, Relabel
  <2>3. \A i \in Issues : labels[i] \subseteq labels'[i]
    BY <1>7, <2>1 DEF Begin, Relabel
  <2>4. \A m \in Lanes : pc[m] # "idle" => cur[m] \in Issues
    BY DEF AtWork, WorkOf
  <2>5. ASSUME NEW m \in Lanes PROVE (pc[m] \in OnBranch => labels[cur[m]] # {})'
    <3>1. CASE m = l
      BY <3>1, <2>1, <2>2
    <3>2. CASE m # l
      BY <3>2, <2>1, <2>3, <2>4 DEF WorkIsLabelled, OnBranch, RunPlaces
    <3> QED
      BY <3>1, <3>2
  <2>6. ASSUME NEW m \in Lanes PROVE (pc[m] = "unlabel" => "pr_opened" \in labels[cur[m]])'
    BY <2>1, <2>3, <2>4 DEF WorkIsLabelled
  <2> QED
    BY <2>5, <2>6 DEF WorkIsLabelled
<1>8. ASSUME NEW l \in Lanes, MarkActive(l) PROVE WorkIsLabelled'
  BY <1>8 DEF MarkActive, At, SaveState, GoTo, StayInCycle, github, local, WorkIsLabelled,
       OnBranch, RunPlaces
<1>9. ASSUME NEW l \in Lanes, Code(l) PROVE WorkIsLabelled'
  BY <1>9 DEF Code, At, Work, GoTo, StayInCycle, github, WorkIsLabelled, OnBranch, RunPlaces
<1>10. ASSUME NEW l \in Lanes, Gate(l) PROVE WorkIsLabelled'
  BY <1>10 DEF Gate, At, GoTo, next_round, FailIssue, Mine, StayInCycle, github, WorkIsLabelled,
       OnBranch, RunPlaces
<1>11. ASSUME NEW l \in Lanes, Review(l) PROVE WorkIsLabelled'
  BY <1>11 DEF Review, At, GoTo, FailIssue, Mine, StayInCycle, github, WorkIsLabelled, OnBranch,
       RunPlaces
<1>12. ASSUME NEW l \in Lanes, Commit(l) PROVE WorkIsLabelled'
  BY <1>12 DEF Commit, At, Committed, InBranch, Mine, GoTo, StayInCycle, FailIssue, github,
       WorkIsLabelled, OnBranch, RunPlaces
<1>13. ASSUME NEW l \in Lanes, Push(l) PROVE WorkIsLabelled'
  BY <1>13 DEF Push, At, PushHead, Committed, InBranch, GoTo, Except, Mine, EndCycle,
       WorkIsLabelled, OnBranch, RunPlaces
<1>14. ASSUME NEW l \in Lanes, CreatePr(l) PROVE WorkIsLabelled'
  BY <1>14 DEF CreatePr, At, Mine, GoTo, StayInCycle, local, WorkIsLabelled, OnBranch, RunPlaces
<1>15. ASSUME NEW l \in Lanes, LabelPr(l) PROVE WorkIsLabelled'
  BY <1>15 DEF LabelPr, At, Relabel, GoTo, StayInCycle, local, WorkIsLabelled, OnBranch,
       RunPlaces
<1>16. ASSUME NEW l \in Lanes, UnlabelIssue(l) PROVE WorkIsLabelled'
  BY <1>16 DEF UnlabelIssue, At, Relabel, done_labels, GoTo, StayInCycle, local, WorkIsLabelled,
       OnBranch, RunPlaces
<1>17. ASSUME NEW l \in Lanes, Watch(l) PROVE WorkIsLabelled'
  BY <1>17 DEF Watch, At, CiPassed, Mine, GoTo, next_round, FailIssue, StayInCycle, github,
       WorkIsLabelled, OnBranch, RunPlaces
<1>18. ASSUME NEW l \in Lanes, CiFix(l) PROVE WorkIsLabelled'
  BY <1>18 DEF CiFix, At, Committed, InBranch, GoTo, Work, FailIssue, Mine, github,
       WorkIsLabelled, OnBranch, RunPlaces
<1>19. ASSUME NEW l \in Lanes, PushCi(l) PROVE WorkIsLabelled'
  BY <1>19 DEF PushCi, At, PushHead, Committed, InBranch, Mine, GoTo, StayInCycle,
       WorkIsLabelled, OnBranch, RunPlaces
<1>20. ASSUME NEW l \in Lanes, Green(l) PROVE WorkIsLabelled'
  BY <1>20 DEF Green, At, Relabel, GoTo, StayInCycle, local, WorkIsLabelled, OnBranch, RunPlaces
<1>21. ASSUME NEW l \in Lanes, Fail(l) PROVE WorkIsLabelled'
  BY <1>21 DEF Fail, At, Relabel, GoTo, StayInCycle, local, WorkIsLabelled, OnBranch, RunPlaces
<1>22. ASSUME NEW l \in Lanes, Unmark(l) PROVE WorkIsLabelled'
  BY <1>22 DEF Unmark, At, Relabel, GoTo, StayInCycle, local, WorkIsLabelled, OnBranch,
       RunPlaces
<1>23. ASSUME NEW l \in Lanes, WriteResult(l) PROVE WorkIsLabelled'
  BY <1>23 DEF WriteResult, At, SaveState, GoTo, github, local, WorkIsLabelled, OnBranch,
       RunPlaces
<1>24. ASSUME NEW l \in Lanes, Requeue(l) PROVE WorkIsLabelled'
  BY <1>24 DEF Requeue, At, Relabel, Tried, Key, GoTo, StayInCycle, local, WorkIsLabelled,
       OnBranch, RunPlaces
<1>25. ASSUME NEW l \in Lanes, Checkout(l) PROVE WorkIsLabelled'
  BY <1>25 DEF Checkout, At, clean_worktree, Clean, Free, EndCycle, GoTo, InBranch, github,
       WorkIsLabelled, OnBranch, RunPlaces
<1>26. ASSUME NEW l \in Lanes, RecoverCode(l) PROVE WorkIsLabelled'
  BY <1>26 DEF RecoverCode, At, Committed, InBranch, GoTo, Work, Tried, Key, CiPassed, EndCycle,
       github, WorkIsLabelled, OnBranch, RunPlaces
<1>27. ASSUME NEW l \in Lanes, RecoverPush(l) PROVE WorkIsLabelled'
  BY <1>27 DEF RecoverPush, At, PushHead, Committed, InBranch, Tried, Key, GoTo, EndCycle,
       WorkIsLabelled, OnBranch, RunPlaces
<1>28. ASSUME NEW l \in Lanes, RecoverWait(l) PROVE WorkIsLabelled'
  BY <1>28 DEF RecoverWait, At, GoTo, CiPassed, StayInCycle, github, local, WorkIsLabelled,
       OnBranch, RunPlaces
<1>29. ASSUME NEW l \in Lanes, MarkGreen(l) PROVE WorkIsLabelled'
  BY <1>29 DEF MarkGreen, At, Relabel, GoTo, StayInCycle, local, WorkIsLabelled, OnBranch,
       RunPlaces
<1>30. ASSUME NEW l \in Lanes, CountAttempt(l) PROVE WorkIsLabelled'
  BY <1>30 DEF CountAttempt, At, SaveState, Key, EndCycle, GoTo, github, local, WorkIsLabelled,
       OnBranch, RunPlaces
<1>31. ASSUME NEW l \in Lanes, Fault(l) PROVE WorkIsLabelled'
  BY <1>31 DEF Fault, Except, Mine, EndCycle, GoTo, github, WorkIsLabelled, OnBranch, RunPlaces
<1>32. ASSUME NEW l \in Lanes, Crash(l) PROVE WorkIsLabelled'
  BY <1>32 DEF Crash, EndCycle, GoTo, github, local, WorkIsLabelled, OnBranch, RunPlaces
<1> QED
  BY <1>1, <1>2, <1>3, <1>4, <1>5, <1>6, <1>7, <1>8, <1>9, <1>10, <1>11, <1>12, <1>13,
      <1>14, <1>15, <1>16, <1>17, <1>18, <1>19, <1>20, <1>21, <1>22, <1>23, <1>24, <1>25,
      <1>26, <1>27, <1>28, <1>29, <1>30, <1>31, <1>32
     DEF Next, RunStep, RecoverStep

\* Nobody else pushes to the branch a lane has found green.
LEMMA WatchedStep ==
    ASSUME IInv, [Next]_vars, PlacesTyped', CyclesTyped', WorktreesTyped', GithubTyped'
    PROVE WatchedPassed'
<1> USE DEF IInv, PlacesTyped, CyclesTyped, WorktreesTyped, GithubTyped
<1>1. CASE UNCHANGED <<ci, pc, cur>>
  BY <1>1 DEF WatchedPassed, Mine
<1>2. CASE UNCHANGED vars
  BY <1>1, <1>2 DEF vars, github, local, bounds, lane
<1>3. ASSUME NEW b \in Branches, MergePr(b)
      PROVE  WatchedPassed'
  BY <1>1, <1>3 DEF MergePr, lane, local, bounds
<1>4. ASSUME NEW l \in Lanes, Poll(l)
      PROVE  WatchedPassed'
  BY <1>1, <1>4 DEF Poll, StartCycle, SaveState, github
<1>5. ASSUME NEW b \in Branches, ChecksEnd(b) PROVE WatchedPassed'
  <2>1. \A c \in Branches : ci[c] = "pass" => ci'[c] = "pass"
    BY <1>5 DEF ChecksEnd, GithubTyped
  <2>2. \A l \in Lanes : pc[l] = "green" => Mine(l) \in Branches
    BY DEF AtWork, WorkOf, Mine, Branches
  <2> QED
    BY <1>5, <2>1, <2>2 DEF ChecksEnd, lane, WatchedPassed, Mine
<1>6. ASSUME NEW l \in Lanes, Take(l) PROVE WatchedPassed'
  BY <1>6 DEF Take, At, GoTo, github, local, WatchedPassed, Mine
<1>7. ASSUME NEW l \in Lanes, Recover(l) PROVE WatchedPassed'
  BY <1>7 DEF Recover, StartCycle, GoTo, Attempt, Free, under_cap, Clean, github, local,
       WatchedPassed, Mine
<1>8. ASSUME NEW l \in Lanes, Begin(l) PROVE WatchedPassed'
  BY <1>8 DEF Begin, At, Relabel, clean_worktree, Free, Mine, InBranch, GoTo, Except, EndCycle,
       WatchedPassed
<1>9. ASSUME NEW l \in Lanes, MarkActive(l) PROVE WatchedPassed'
  BY <1>9 DEF MarkActive, At, SaveState, GoTo, StayInCycle, github, local, WatchedPassed, Mine
<1>10. ASSUME NEW l \in Lanes, Code(l) PROVE WatchedPassed'
  BY <1>10 DEF Code, At, Work, GoTo, StayInCycle, github, WatchedPassed, Mine
<1>11. ASSUME NEW l \in Lanes, Gate(l) PROVE WatchedPassed'
  BY <1>11 DEF Gate, At, GoTo, next_round, FailIssue, Mine, StayInCycle, github, WatchedPassed
<1>12. ASSUME NEW l \in Lanes, Review(l) PROVE WatchedPassed'
  BY <1>12 DEF Review, At, GoTo, FailIssue, Mine, StayInCycle, github, WatchedPassed
<1>13. ASSUME NEW l \in Lanes, Commit(l) PROVE WatchedPassed'
  BY <1>13 DEF Commit, At, Committed, InBranch, Mine, GoTo, StayInCycle, FailIssue, github,
       WatchedPassed
<1>14. ASSUME NEW l \in Lanes, Push(l) PROVE WatchedPassed'
  BY <1>14 DEF Push, At, PushHead, GoTo, Except, Mine, EndCycle, WatchedPassed
<1>15. ASSUME NEW l \in Lanes, CreatePr(l) PROVE WatchedPassed'
  BY <1>15 DEF CreatePr, At, Mine, GoTo, StayInCycle, local, WatchedPassed
<1>16. ASSUME NEW l \in Lanes, LabelPr(l) PROVE WatchedPassed'
  BY <1>16 DEF LabelPr, At, Relabel, GoTo, StayInCycle, local, WatchedPassed, Mine
<1>17. ASSUME NEW l \in Lanes, UnlabelIssue(l) PROVE WatchedPassed'
  BY <1>17 DEF UnlabelIssue, At, Relabel, done_labels, GoTo, StayInCycle, local, WatchedPassed,
       Mine
<1>18. ASSUME NEW l \in Lanes, Watch(l) PROVE WatchedPassed'
  BY <1>18 DEF Watch, At, CiPassed, Mine, GoTo, next_round, FailIssue, StayInCycle, github,
       WatchedPassed
<1>19. ASSUME NEW l \in Lanes, CiFix(l) PROVE WatchedPassed'
  BY <1>19 DEF CiFix, At, Committed, InBranch, GoTo, Work, FailIssue, Mine, github,
       WatchedPassed
<1>20. ASSUME NEW l \in Lanes, PushCi(l) PROVE WatchedPassed'
  BY <1>20 DEF PushCi, At, PushHead, Committed, InBranch, Mine, GoTo, StayInCycle, WatchedPassed
<1>21. ASSUME NEW l \in Lanes, Green(l) PROVE WatchedPassed'
  BY <1>21 DEF Green, At, Relabel, GoTo, StayInCycle, local, WatchedPassed, Mine
<1>22. ASSUME NEW l \in Lanes, Fail(l) PROVE WatchedPassed'
  BY <1>22 DEF Fail, At, Relabel, GoTo, StayInCycle, local, WatchedPassed, Mine
<1>23. ASSUME NEW l \in Lanes, Unmark(l) PROVE WatchedPassed'
  BY <1>23 DEF Unmark, At, Relabel, GoTo, StayInCycle, local, WatchedPassed, Mine
<1>24. ASSUME NEW l \in Lanes, WriteResult(l) PROVE WatchedPassed'
  BY <1>24 DEF WriteResult, At, SaveState, GoTo, github, local, WatchedPassed, Mine
<1>25. ASSUME NEW l \in Lanes, Requeue(l) PROVE WatchedPassed'
  BY <1>25 DEF Requeue, At, Relabel, Tried, Key, GoTo, StayInCycle, local, WatchedPassed, Mine
<1>26. ASSUME NEW l \in Lanes, Checkout(l) PROVE WatchedPassed'
  BY <1>26 DEF Checkout, At, clean_worktree, Clean, Free, EndCycle, GoTo, InBranch, github,
       WatchedPassed, Mine
<1>27. ASSUME NEW l \in Lanes, RecoverCode(l) PROVE WatchedPassed'
  BY <1>27 DEF RecoverCode, At, Committed, InBranch, GoTo, Work, Tried, Key, CiPassed, EndCycle,
       github, WatchedPassed, Mine
<1>28. ASSUME NEW l \in Lanes, RecoverPush(l) PROVE WatchedPassed'
  <2>1. pc'[l] # "green" /\ UNCHANGED cur /\ \A m \in Lanes \ {l} : pc'[m] = pc[m]
    BY <1>28 DEF RecoverPush, At, GoTo, EndCycle
  <2>2. \A b \in Branches : b # target[l] => ci'[b] = ci[b]
    BY <1>28 DEF RecoverPush
  <2>3. target[l] = head[l].branch /\ target[l] \in Branches
    BY <1>28 DEF RecoverPush, At, AtWork, WorkOf, OnTarget
  <2>4. ASSUME NEW m \in Lanes \ {l}, pc[m] = "green"
        PROVE  Mine(m) \in Branches /\ Mine(m) # target[l]
    <3>1. Mine(m) \in Branches /\ head[m].branch = Mine(m)
      BY <2>4 DEF AtWork, WorkOf, OnBranch, RunPlaces, Mine, Branches
    <3>2. head[m].branch = head[l].branch => head[m].branch = None
      BY DEF OneCheckout
    <3> QED
      BY <3>1, <3>2, <2>3, RunnerAssumption DEF Branches
  <2> QED
    BY <2>1, <2>2, <2>4 DEF WatchedPassed, Mine
<1>29. ASSUME NEW l \in Lanes, RecoverWait(l) PROVE WatchedPassed'
  BY <1>29 DEF RecoverWait, At, GoTo, CiPassed, StayInCycle, github, local, WatchedPassed, Mine
<1>30. ASSUME NEW l \in Lanes, MarkGreen(l) PROVE WatchedPassed'
  BY <1>30 DEF MarkGreen, At, Relabel, GoTo, StayInCycle, local, WatchedPassed, Mine
<1>31. ASSUME NEW l \in Lanes, CountAttempt(l) PROVE WatchedPassed'
  BY <1>31 DEF CountAttempt, At, SaveState, Key, EndCycle, GoTo, github, local, WatchedPassed,
       Mine
<1>32. ASSUME NEW l \in Lanes, Fault(l) PROVE WatchedPassed'
  BY <1>32 DEF Fault, Except, Mine, EndCycle, GoTo, github, WatchedPassed
<1>33. ASSUME NEW l \in Lanes, Crash(l) PROVE WatchedPassed'
  BY <1>33 DEF Crash, EndCycle, GoTo, github, local, WatchedPassed, Mine
<1> QED
  BY <1>1, <1>2, <1>3, <1>4, <1>5, <1>6, <1>7, <1>8, <1>9, <1>10, <1>11, <1>12, <1>13,
      <1>14, <1>15, <1>16, <1>17, <1>18, <1>19, <1>20, <1>21, <1>22, <1>23, <1>24, <1>25,
      <1>26, <1>27, <1>28, <1>29, <1>30, <1>31, <1>32, <1>33
     DEF Next, RunStep, RecoverStep

\* ci_green is put on by a lane that has found the checks green.
LEMMA GreenStep ==
    ASSUME IInv, [Next]_vars, PlacesTyped', CyclesTyped', WorktreesTyped', GithubTyped'
    PROVE GreenHasPassed'
<1> USE DEF IInv, PlacesTyped, CyclesTyped, WorktreesTyped, GithubTyped
<1>1. CASE UNCHANGED <<labels, passed>>
  BY <1>1 DEF GreenHasPassed
<1>2. CASE UNCHANGED vars
  BY <1>1, <1>2 DEF vars, github, local, bounds, lane
<1>3. ASSUME NEW b \in Branches, MergePr(b)
      PROVE  GreenHasPassed'
  BY <1>1, <1>3 DEF MergePr, lane, local, bounds
<1>4. ASSUME NEW l \in Lanes, Poll(l) \/ Take(l) \/ Recover(l) \/ MarkActive(l) \/ Code(l) \/
             Gate(l) \/ Review(l) \/ Commit(l) \/ Push(l) \/ CreatePr(l) \/ Watch(l) \/
             CiFix(l) \/ PushCi(l) \/ WriteResult(l) \/ Checkout(l) \/ RecoverCode(l) \/
             RecoverPush(l) \/ RecoverWait(l) \/ CountAttempt(l) \/ Fault(l) \/ Crash(l)
      PROVE  GreenHasPassed'
  BY <1>1, <1>4 DEF Poll, StartCycle, SaveState, github, Take, At, GoTo, local, Recover,
       Attempt, MarkActive, StayInCycle, Code, Gate, next_round, FailIssue, Review, Commit,
       Committed, InBranch, Push, PushHead, Except, EndCycle, CreatePr, Watch, CiFix, PushCi,
       WriteResult, Checkout, RecoverCode, Tried, RecoverPush, RecoverWait, CountAttempt, Fault,
       Crash
<1>5. ASSUME NEW b \in Branches, ChecksEnd(b) PROVE GreenHasPassed'
  BY <1>5 DEF ChecksEnd, lane, local, bounds, GreenHasPassed
<1>6. ASSUME NEW l \in Lanes, Begin(l) PROVE GreenHasPassed'
  BY <1>6 DEF Begin, At, Relabel, clean_worktree, Free, Mine, InBranch, GoTo, Except, EndCycle,
       GreenHasPassed
<1>7. ASSUME NEW l \in Lanes, LabelPr(l) PROVE GreenHasPassed'
  BY <1>7 DEF LabelPr, At, Relabel, GoTo, StayInCycle, local, GreenHasPassed
<1>8. ASSUME NEW l \in Lanes, UnlabelIssue(l) PROVE GreenHasPassed'
  BY <1>8 DEF UnlabelIssue, At, Relabel, done_labels, GoTo, StayInCycle, local, GreenHasPassed
<1>9. ASSUME NEW l \in Lanes, Green(l) PROVE GreenHasPassed'
  <2>1. cur[l] \in Issues /\ Mine(l) \in passed /\ Mine(l) \in Branches /\ Mine(l)[2] = cur[l]
    BY <1>9 DEF Green, At, AtWork, WorkOf, OnTarget, PassedIsKnown, WatchedPassed, Mine, Branches
  <2>2. \E m \in Lanes : <<m, cur[l]>> \in passed
    <3>1. PICK m \in Lanes, i \in Issues : Mine(l) = <<m, i>>
      BY <2>1 DEF Branches
    <3>2. i = cur[l]
      BY <2>1, <3>1
    <3> QED
      BY <2>1, <3>1, <3>2
  <2>3. UNCHANGED passed /\ \A i \in Issues \ {cur[l]} : labels'[i] = labels[i]
    BY <1>9 DEF Green, Relabel
  <2> QED
    BY <2>2, <2>3 DEF GreenHasPassed
<1>10. ASSUME NEW l \in Lanes, Fail(l) PROVE GreenHasPassed'
  BY <1>10 DEF Fail, At, Relabel, GoTo, StayInCycle, local, GreenHasPassed
<1>11. ASSUME NEW l \in Lanes, Unmark(l) PROVE GreenHasPassed'
  BY <1>11 DEF Unmark, At, Relabel, GoTo, StayInCycle, local, GreenHasPassed
<1>12. ASSUME NEW l \in Lanes, Requeue(l) PROVE GreenHasPassed'
  BY <1>12 DEF Requeue, At, Relabel, Tried, Key, GoTo, StayInCycle, local, GreenHasPassed
<1>13. ASSUME NEW l \in Lanes, MarkGreen(l) PROVE GreenHasPassed'
  <2>1. cur[l] \in Issues /\ target[l] \in passed /\ target[l] \in Branches /\ target[l][2] = cur[l]
    BY <1>13 DEF MarkGreen, At, AtWork, WorkOf, OnTarget, PassedIsKnown, WatchedPassed, Mine, Branches
  <2>2. \E m \in Lanes : <<m, cur[l]>> \in passed
    <3>1. PICK m \in Lanes, i \in Issues : target[l] = <<m, i>>
      BY <2>1 DEF Branches
    <3>2. i = cur[l]
      BY <2>1, <3>1
    <3> QED
      BY <2>1, <3>1, <3>2
  <2>3. UNCHANGED passed /\ \A i \in Issues \ {cur[l]} : labels'[i] = labels[i]
    BY <1>13 DEF MarkGreen, Relabel
  <2> QED
    BY <2>2, <2>3 DEF GreenHasPassed
<1> QED
  BY <1>1, <1>2, <1>3, <1>4, <1>5, <1>6, <1>7, <1>8, <1>9, <1>10, <1>11, <1>12, <1>13
     DEF Next, RunStep, RecoverStep

\* A pull request is opened for an issue in progress.
LEMMA MarkedStep ==
    ASSUME IInv, [Next]_vars, PlacesTyped', CyclesTyped', WorktreesTyped', GithubTyped'
    PROVE OpenPrIsMarked'
<1> USE DEF IInv, PlacesTyped, CyclesTyped, WorktreesTyped, GithubTyped, WorkIsLabelled,
            AtWork, WorkOf
<1>1. CASE UNCHANGED <<labels, pr>>
  BY <1>1 DEF OpenPrIsMarked, Branches
<1>2. CASE UNCHANGED vars
  BY <1>1, <1>2 DEF vars, github, local, bounds, lane
<1>3. ASSUME NEW b \in Branches, ChecksEnd(b)
      PROVE  OpenPrIsMarked'
  BY <1>1, <1>3 DEF ChecksEnd, lane, local, bounds
<1>4. ASSUME NEW l \in Lanes, Poll(l) \/ Take(l) \/ Recover(l) \/ MarkActive(l) \/ Code(l) \/
             Gate(l) \/ Review(l) \/ Commit(l) \/ Push(l) \/ Watch(l) \/ CiFix(l) \/
             PushCi(l) \/ WriteResult(l) \/ Checkout(l) \/ RecoverCode(l) \/ RecoverPush(l) \/
             RecoverWait(l) \/ CountAttempt(l) \/ Fault(l) \/ Crash(l)
      PROVE  OpenPrIsMarked'
  BY <1>1, <1>4 DEF Poll, StartCycle, SaveState, github, Take, At, GoTo, local, Recover,
       Attempt, MarkActive, StayInCycle, Code, Gate, next_round, FailIssue, Review, Commit,
       Committed, InBranch, Push, PushHead, Except, EndCycle, Watch, CiFix, PushCi, WriteResult,
       Checkout, RecoverCode, Tried, RecoverPush, RecoverWait, CountAttempt, Fault, Crash
<1>5. ASSUME NEW b \in Branches, MergePr(b) PROVE OpenPrIsMarked'
  BY <1>5 DEF MergePr, lane, local, bounds, OpenPrIsMarked, Branches
<1>6. ASSUME NEW l \in Lanes, Begin(l) PROVE OpenPrIsMarked'
  BY <1>6 DEF Begin, At, Relabel, clean_worktree, Free, Mine, InBranch, GoTo, Except, EndCycle,
       OpenPrIsMarked, Branches
<1>7. ASSUME NEW l \in Lanes, CreatePr(l) PROVE OpenPrIsMarked'
  <2>1. labels[cur[l]] # {} /\ UNCHANGED labels /\ \A b \in Branches \ {Mine(l)} : pr'[b] = pr[b]
    BY <1>7 DEF CreatePr, At, WorkIsLabelled, OnBranch, RunPlaces
  <2> QED
    BY <2>1 DEF OpenPrIsMarked, Mine
<1>8. ASSUME NEW l \in Lanes, LabelPr(l) PROVE OpenPrIsMarked'
  BY <1>8 DEF LabelPr, At, Relabel, GoTo, StayInCycle, local, OpenPrIsMarked, Branches
<1>9. ASSUME NEW l \in Lanes, UnlabelIssue(l) PROVE OpenPrIsMarked'
  BY <1>9 DEF UnlabelIssue, At, Relabel, done_labels, GoTo, StayInCycle, local, OpenPrIsMarked,
       Branches
<1>10. ASSUME NEW l \in Lanes, Green(l) PROVE OpenPrIsMarked'
  BY <1>10 DEF Green, At, Relabel, GoTo, StayInCycle, local, OpenPrIsMarked, Branches
<1>11. ASSUME NEW l \in Lanes, Fail(l) PROVE OpenPrIsMarked'
  BY <1>11 DEF Fail, At, Relabel, GoTo, StayInCycle, local, OpenPrIsMarked, Branches
<1>12. ASSUME NEW l \in Lanes, Unmark(l) PROVE OpenPrIsMarked'
  BY <1>12 DEF Unmark, At, Relabel, GoTo, StayInCycle, local, OpenPrIsMarked, Branches
<1>13. ASSUME NEW l \in Lanes, Requeue(l) PROVE OpenPrIsMarked'
  BY <1>13 DEF Requeue, At, Relabel, Tried, Key, GoTo, StayInCycle, local, OpenPrIsMarked,
       Branches
<1>14. ASSUME NEW l \in Lanes, MarkGreen(l) PROVE OpenPrIsMarked'
  BY <1>14 DEF MarkGreen, At, Relabel, GoTo, StayInCycle, local, OpenPrIsMarked, Branches
<1> QED
  BY <1>1, <1>2, <1>3, <1>4, <1>5, <1>6, <1>7, <1>8, <1>9, <1>10, <1>11, <1>12, <1>13,
      <1>14
     DEF Next, RunStep, RecoverStep

-----------------------------------------------------------------------------
(* Attempts.                                                               *)
\* The types of a lane's counters.
LEMMA CountersTyped ==
    ASSUME IInv, NEW l \in Lanes
    PROVE /\ pc[l] \in Places /\ round[l] \in Nat /\ faults \in Nat /\ Unpushed(l) \in {0, 1}
          /\ \A k \in Issues \X Reasons : tries[l][k] \in Nat
          /\ file[l] # Corrupt => \A k \in Issues \X Reasons : file[l].retries[k] \in Nat
          /\ pc[l] # "idle" =>
                /\ Key(l) \in Issues \X Reasons
                /\ file[l] # Corrupt
                /\ mem[l] = file[l]
<1> USE DEF IInv
<1>1. pc[l] \in Places /\ round[l] \in Nat /\ faults \in Nat /\ Unpushed(l) \in {0, 1}
  BY DEF PlacesTyped, CyclesTyped, StatesTyped, Unpushed
<1>2. \A k \in Issues \X Reasons : tries[l][k] \in Nat
  BY DEF StatesTyped
<1>3. file[l] # Corrupt => \A k \in Issues \X Reasons : file[l].retries[k] \in Nat
  BY DEF StatesTyped, States
<1>4. pc[l] # "idle" => file[l] # Corrupt /\ mem[l] = file[l]
  BY DEF FileIsLoaded
<1>5. pc[l] # "idle" => Key(l) \in Issues \X Reasons
  BY KeyTyped DEF AtWork, WorkOf
<1> QED
  BY <1>1, <1>2, <1>3, <1>4, <1>5

\* A lane that does not move is not disturbed by the faults of others.
LEMMA OtherLane ==
    ASSUME IInv, NEW m \in Lanes, faults' \in Nat, faults' >= faults, RunnerAssumption,
           UNCHANGED <<tries[m], file[m], pc[m], round[m], cur[m], target[m], head[m], edits[m]>>
    PROVE TriesOf(m)'
<1>1. Unpushed(m)' = Unpushed(m) /\ Key(m)' = Key(m) /\ Clean(m, target[m])' = Clean(m, target[m])
  BY DEF Unpushed, Key, Clean
<1>2. TriesOf(m)
  BY DEF IInv, TriesCounted
<1>3. MaxTries \in Nat
  BY RunnerAssumption
<1>4. Counted(m)'
  BY <1>1, <1>2, CountersTyped DEF TriesOf, Counted
<1>5. BeingCounted(m)'
  BY <1>1, <1>2, CountersTyped DEF TriesOf, BeingCounted, Counting, RecoverPlaces
<1>6. HasRoom(m)'
  BY <1>1, <1>2, <1>3, CountersTyped DEF TriesOf, HasRoom
<1>7. Capped(m)'
  BY <1>1, <1>2, <1>3, CountersTyped DEF TriesOf, Capped
<1> QED
  BY <1>4, <1>5, <1>6, <1>7 DEF TriesOf

\* A step out of a recovery, or of run_issue(), that tries nothing.
LEMMA NothingTried ==
    ASSUME IInv, NEW l \in Lanes, RunnerAssumption, faults' \in Nat, Unpushed(l)' \in {0, 1},
           pc[l] \notin Counting, pc'[l] \notin RecoverPlaces \cup {"count"},
           tries'[l] = tries[l], Unpushed(l)' + faults <= Unpushed(l) + faults',
           file'[l] # Corrupt => file[l] # Corrupt /\ file'[l].retries = file[l].retries
    PROVE TriesOf(l)'
<1>1. TriesOf(l)
  BY DEF IInv, TriesCounted
<1>2. MaxTries \in Nat
  BY RunnerAssumption
<1>3. Counted(l)'
  BY <1>1, CountersTyped DEF TriesOf, Counted
<1>4. BeingCounted(l)' /\ HasRoom(l)'
  BY DEF BeingCounted, HasRoom, RecoverPlaces, Counting
<1>5. Capped(l)'
  BY <1>1, <1>2, CountersTyped DEF TriesOf, Capped
<1> QED
  BY <1>3, <1>4, <1>5 DEF TriesOf

\* Only the lane that takes a step moves.
LEMMA OneLaneMoves ==
    ASSUME IInv, NEW l \in Lanes, NEW m \in Lanes \ {l}, LaneStep(l)
    PROVE /\ faults' \in Nat /\ faults' >= faults
          /\ UNCHANGED <<tries[m], file[m], pc[m], round[m], cur[m], target[m], head[m], edits[m]>>
<1> USE DEF IInv, PlacesTyped, CyclesTyped, WorktreesTyped
<1>1. CASE Poll(l)
  BY <1>1 DEF Poll, StartCycle, SaveState, github, StatesTyped
<1>2. CASE Take(l)
  BY <1>2 DEF Take, At, GoTo, github, local, StatesTyped
<1>3. CASE Recover(l)
  BY <1>3 DEF Recover, StartCycle, GoTo, Attempt, Free, under_cap, Clean, github, local,
       StatesTyped
<1>4. CASE Begin(l)
  BY <1>4 DEF Begin, At, Relabel, clean_worktree, Free, Mine, InBranch, GoTo, Except, EndCycle,
       StatesTyped
<1>5. CASE MarkActive(l)
  BY <1>5 DEF MarkActive, At, SaveState, GoTo, StayInCycle, github, local, StatesTyped
<1>6. CASE Code(l)
  BY <1>6 DEF Code, At, Work, GoTo, StayInCycle, github, StatesTyped
<1>7. CASE Gate(l)
  BY <1>7 DEF Gate, At, GoTo, next_round, FailIssue, Mine, StayInCycle, github, StatesTyped
<1>8. CASE Review(l)
  BY <1>8 DEF Review, At, GoTo, FailIssue, Mine, StayInCycle, github, StatesTyped
<1>9. CASE Commit(l)
  BY <1>9 DEF Commit, At, Committed, InBranch, Mine, GoTo, StayInCycle, FailIssue, github,
       StatesTyped
<1>10. CASE Push(l)
  BY <1>10 DEF Push, At, PushHead, Committed, InBranch, GoTo, Except, Mine, EndCycle,
       StatesTyped
<1>11. CASE CreatePr(l)
  BY <1>11 DEF CreatePr, At, Mine, GoTo, StayInCycle, local, StatesTyped
<1>12. CASE LabelPr(l)
  BY <1>12 DEF LabelPr, At, Relabel, GoTo, StayInCycle, local, StatesTyped
<1>13. CASE UnlabelIssue(l)
  BY <1>13 DEF UnlabelIssue, At, Relabel, done_labels, GoTo, StayInCycle, local, StatesTyped
<1>14. CASE Watch(l)
  BY <1>14 DEF Watch, At, CiPassed, Mine, GoTo, next_round, FailIssue, StayInCycle, github,
       StatesTyped
<1>15. CASE CiFix(l)
  BY <1>15 DEF CiFix, At, Committed, InBranch, GoTo, Work, FailIssue, Mine, github, StatesTyped
<1>16. CASE PushCi(l)
  BY <1>16 DEF PushCi, At, PushHead, Committed, InBranch, Mine, GoTo, StayInCycle, StatesTyped
<1>17. CASE Green(l)
  BY <1>17 DEF Green, At, Relabel, GoTo, StayInCycle, local, StatesTyped
<1>18. CASE Fail(l)
  BY <1>18 DEF Fail, At, Relabel, GoTo, StayInCycle, local, StatesTyped
<1>19. CASE Unmark(l)
  BY <1>19 DEF Unmark, At, Relabel, GoTo, StayInCycle, local, StatesTyped
<1>20. CASE WriteResult(l)
  BY <1>20 DEF WriteResult, At, SaveState, GoTo, github, local, StatesTyped
<1>21. CASE Requeue(l)
  BY <1>21 DEF Requeue, At, Relabel, Tried, Key, GoTo, StayInCycle, local, StatesTyped
<1>22. CASE Checkout(l)
  BY <1>22 DEF Checkout, At, clean_worktree, Clean, Free, EndCycle, GoTo, InBranch, github,
       StatesTyped
<1>23. CASE RecoverCode(l)
  BY <1>23 DEF RecoverCode, At, Committed, InBranch, GoTo, Work, Tried, Key, CiPassed, EndCycle,
       github, StatesTyped
<1>24. CASE RecoverPush(l)
  BY <1>24 DEF RecoverPush, At, PushHead, Committed, InBranch, Tried, Key, GoTo, EndCycle,
       StatesTyped
<1>25. CASE RecoverWait(l)
  BY <1>25 DEF RecoverWait, At, GoTo, CiPassed, StayInCycle, github, local, StatesTyped
<1>26. CASE MarkGreen(l)
  BY <1>26 DEF MarkGreen, At, Relabel, GoTo, StayInCycle, local, StatesTyped
<1>27. CASE CountAttempt(l)
  BY <1>27 DEF CountAttempt, At, SaveState, Key, EndCycle, GoTo, github, local, StatesTyped
<1>28. CASE Fault(l)
  <2>1. faults' \in Nat /\ faults' >= faults
    BY <1>28 DEF Fault, StatesTyped
  <2>2. UNCHANGED <<pc[m], round[m], cur[m], target[m]>>
    BY <1>28, ExceptGoes DEF Fault, EndCycle, GoTo
  <2>3. UNCHANGED <<tries[m], file[m], head[m], edits[m]>>
    BY <1>28 DEF Fault
  <2> QED
    BY <2>1, <2>2, <2>3
<1>29. CASE Crash(l)
  <2>1. faults' \in Nat /\ faults' >= faults
    BY <1>29 DEF Crash, StatesTyped
  <2>2. UNCHANGED <<pc[m], round[m], cur[m], target[m], tries[m], head[m], edits[m]>>
    BY <1>29 DEF Crash, EndCycle, GoTo, local
  <2>3. UNCHANGED file[m]
    BY <1>29 DEF Crash, StatesTyped
  <2> QED
    BY <2>1, <2>2, <2>3
<1> QED
  BY <1>1, <1>2, <1>3, <1>4, <1>5, <1>6, <1>7, <1>8, <1>9, <1>10, <1>11, <1>12, <1>13,
      <1>14, <1>15, <1>16, <1>17, <1>18, <1>19, <1>20, <1>21, <1>22, <1>23, <1>24, <1>25,
      <1>26, <1>27, <1>28, <1>29
     DEF LaneStep, RunStep, RecoverStep

\* run_issue() tries nothing, and leaves no more commits unpushed.
LEMMA RunTriesNothing ==
    ASSUME IInv, NEW l \in Lanes, RunStep(l), PlacesTyped', WorktreesTyped'
    PROVE /\ UNCHANGED <<tries, faults>> /\ pc[l] \notin Counting
          /\ pc'[l] \notin RecoverPlaces \cup {"count"}
          /\ Unpushed(l)' <= Unpushed(l)
          /\ file'[l] # Corrupt => file[l] # Corrupt /\ file'[l].retries = file[l].retries
<1> USE DEF IInv, PlacesTyped, WorktreesTyped
<1>1. CASE Begin(l)
  BY <1>1, CountersTyped DEF Begin, At, Relabel, clean_worktree, Free, Mine, InBranch, GoTo,
       Except, EndCycle, Unpushed, Counting, RecoverPlaces, Heads
<1>2. CASE MarkActive(l)
  BY <1>2, CountersTyped DEF MarkActive, At, SaveState, GoTo, StayInCycle, github, local,
       Unpushed, Counting, RecoverPlaces, Heads
<1>3. CASE Code(l)
  BY <1>3, CountersTyped DEF Code, At, Work, GoTo, StayInCycle, github, Unpushed, Counting,
       RecoverPlaces, Heads
<1>4. CASE Gate(l)
  BY <1>4, CountersTyped DEF Gate, At, GoTo, next_round, FailIssue, Mine, StayInCycle, github,
       Unpushed, Counting, RecoverPlaces, Heads
<1>5. CASE Review(l)
  BY <1>5, CountersTyped DEF Review, At, GoTo, FailIssue, Mine, StayInCycle, github, Unpushed,
       Counting, RecoverPlaces, Heads
<1>6. CASE Commit(l)
  BY <1>6, CountersTyped DEF Commit, At, Committed, InBranch, Mine, GoTo, StayInCycle,
       FailIssue, github, Unpushed, Counting, RecoverPlaces, Heads
<1>7. CASE Push(l)
  BY <1>7, CountersTyped DEF Push, At, PushHead, Committed, InBranch, GoTo, Except, Mine,
       EndCycle, Unpushed, Counting, RecoverPlaces, Heads
<1>8. CASE CreatePr(l)
  BY <1>8, CountersTyped DEF CreatePr, At, Mine, GoTo, StayInCycle, local, Unpushed, Counting,
       RecoverPlaces, Heads
<1>9. CASE LabelPr(l)
  BY <1>9, CountersTyped DEF LabelPr, At, Relabel, GoTo, StayInCycle, local, Unpushed, Counting,
       RecoverPlaces, Heads
<1>10. CASE UnlabelIssue(l)
  BY <1>10, CountersTyped DEF UnlabelIssue, At, Relabel, done_labels, GoTo, StayInCycle, local,
       Unpushed, Counting, RecoverPlaces, Heads
<1>11. CASE Watch(l)
  BY <1>11, CountersTyped DEF Watch, At, CiPassed, Mine, GoTo, next_round, FailIssue,
       StayInCycle, github, Unpushed, Counting, RecoverPlaces, Heads
<1>12. CASE CiFix(l)
  BY <1>12, CountersTyped DEF CiFix, At, Committed, InBranch, GoTo, Work, FailIssue, Mine,
       github, Unpushed, Counting, RecoverPlaces, Heads
<1>13. CASE PushCi(l)
  BY <1>13, CountersTyped DEF PushCi, At, PushHead, Committed, InBranch, Mine, GoTo,
       StayInCycle, Unpushed, Counting, RecoverPlaces, Heads
<1>14. CASE Green(l)
  BY <1>14, CountersTyped DEF Green, At, Relabel, GoTo, StayInCycle, local, Unpushed, Counting,
       RecoverPlaces, Heads
<1>15. CASE Fail(l)
  BY <1>15, CountersTyped DEF Fail, At, Relabel, GoTo, StayInCycle, local, Unpushed, Counting,
       RecoverPlaces, Heads
<1>16. CASE Unmark(l)
  BY <1>16, CountersTyped DEF Unmark, At, Relabel, GoTo, StayInCycle, local, Unpushed, Counting,
       RecoverPlaces, Heads
<1>17. CASE WriteResult(l)
  BY <1>17, CountersTyped DEF WriteResult, At, SaveState, GoTo, github, local, Unpushed,
       Counting, RecoverPlaces, Heads
<1> QED
  BY <1>1, <1>2, <1>3, <1>4, <1>5, <1>6, <1>7, <1>8, <1>9, <1>10, <1>11, <1>12, <1>13,
      <1>14, <1>15, <1>16, <1>17
     DEF RunStep

\* A fault leaves one attempt uncounted, or the commits of a lane unpushed.
LEMMA FaultTries ==
    ASSUME IInv, NEW l \in Lanes, RunnerAssumption, pc[l] # "idle",
           faults' = faults + 1, UNCHANGED <<tries[l], head[l]>>, Unpushed(l)' \in {0, 1},
           pc'[l] \in {"idle", "fail"}, file'[l] \in {file[l], Corrupt}
    PROVE TriesOf(l)'
<1>1. TriesOf(l)
  BY DEF IInv, TriesCounted
<1>2. CASE pc[l] \in Counting
  <2>1. Unpushed(l)' = Unpushed(l)
    BY <1>2 DEF Unpushed, Counting
  <2>2. Counted(l)'
    BY <1>1, <1>2, <2>1, CountersTyped DEF TriesOf, Counted, BeingCounted
  <2>3. Capped(l)'
    BY <1>1, <2>1, CountersTyped, RunnerAssumption DEF TriesOf, Capped
  <2>4. BeingCounted(l)' /\ HasRoom(l)'
    BY DEF BeingCounted, HasRoom, RecoverPlaces, Counting
  <2> QED
    BY <2>2, <2>3, <2>4 DEF TriesOf
<1>3. CASE pc[l] \notin Counting
  <2>1. Unpushed(l)' + faults <= Unpushed(l) + faults'
    BY CountersTyped
  <2>2. faults' \in Nat
    BY CountersTyped
  <2> QED
    BY <1>3, <2>1, <2>2, NothingTried DEF RecoverPlaces
<1> QED
  BY <1>2, <1>3

\* An attempt is carried out: it is counted next.
LEMMA TriedTries ==
    ASSUME IInv, NEW l \in Lanes, RunnerAssumption, Tried(l),
           pc[l] \in {"requeue", "r_code", "r_push"}, pc'[l] \in Counting,
           UNCHANGED <<file[l], faults, round[l], Key(l)>>,
           Unpushed(l)' \in {0, 1}, Unpushed(l)' <= Unpushed(l),
           pc[l] = "r_push" => head[l].commits # "diverged"
    PROVE TriesOf(l)'
<1>1. TriesOf(l)
  BY DEF IInv, TriesCounted
<1>2. Key(l) \in Issues \X Reasons /\ tries'[l] = [tries[l] EXCEPT ![Key(l)] = @ + 1]
  BY CountersTyped DEF Tried, IInv, StatesTyped
<1>3. \A k \in Issues \X Reasons :
          tries'[l][k] = IF k = Key(l) THEN tries[l][k] + 1 ELSE tries[l][k]
  BY <1>2 DEF IInv, StatesTyped
<1> QED
  BY <1>1, <1>2, <1>3, CountersTyped, RunnerAssumption
     DEF TriesOf, Counted, BeingCounted, HasRoom, Capped, Counting, RecoverPlaces

\* A recovery whose attempt is yet to be counted goes on.
LEMMA CountingTries ==
    ASSUME IInv, NEW l \in Lanes, RunnerAssumption, pc[l] \in Counting, pc'[l] \in Counting,
           UNCHANGED <<tries[l], file[l], faults, round[l], Key(l), Unpushed(l)>>
    PROVE TriesOf(l)'
<1>1. TriesOf(l)
  BY DEF IInv, TriesCounted
<1> QED
  BY <1>1, CountersTyped
     DEF TriesOf, Counted, BeingCounted, HasRoom, Capped, Counting, RecoverPlaces

\* The attempt is counted.
LEMMA CountAttemptTries ==
    ASSUME IInv, NEW l \in Lanes, RunnerAssumption, CountAttempt(l), PlacesTyped'
    PROVE TriesOf(l)'
<1> USE DEF IInv, PlacesTyped, CyclesTyped, WorktreesTyped
<1>1. TriesOf(l) /\ pc[l] = "count" /\ pc'[l] = "idle"
  BY DEF TriesCounted, CountAttempt, At, EndCycle, GoTo
<1>2. UNCHANGED <<tries, faults, Unpushed(l)>>
  BY <1>1 DEF CountAttempt, At, local, Unpushed
<1>3. Key(l) \in Issues \X Reasons /\ mem[l] = file[l] /\ file[l] # Corrupt
  BY <1>1, CountersTyped
<1>4. file'[l].retries = [file[l].retries EXCEPT ![Key(l)] = round[l]]
  BY <1>3 DEF CountAttempt, SaveState, StatesTyped
<1>5. \A k \in Issues \X Reasons :
          file'[l].retries[k] = IF k = Key(l) THEN round[l] ELSE file[l].retries[k]
  BY <1>3, <1>4 DEF StatesTyped, States
<1> QED
  BY <1>1, <1>2, <1>3, <1>5, CountersTyped
     DEF TriesOf, Counted, BeingCounted, HasRoom, Capped, Counting, RecoverPlaces

\* The cap is looked at before an attempt: a recovery starts with room for it,
\* or with commits it will push, or fail to push.
LEMMA RecoverTries ==
    ASSUME IInv, NEW l \in Lanes, RunnerAssumption, Recover(l), PlacesTyped', CyclesTyped'
    PROVE TriesOf(l)'
<1> USE DEF IInv, PlacesTyped, CyclesTyped, WorktreesTyped
<1>1. TriesOf(l) /\ pc[l] = "idle" /\ file[l] # Corrupt
  BY DEF TriesCounted, Recover
<1>2. UNCHANGED <<tries, file, head, edits, faults>> /\ pc'[l] \in {"mark", "checkout", "requeue"}
  BY DEF Recover, local, GoTo
<1>3. UNCHANGED Unpushed(l)
  BY <1>1, <1>2 DEF Unpushed
<1>4. Key(l)' \in Issues \X Reasons /\ cur'[l] \in Issues
  BY DEF Recover, GithubTyped, Key, Reasons
<1>5. \/ pc'[l] = "mark" /\ round'[l] = file[l].retries[Key(l)']
      \/ /\ pc'[l] = "checkout" /\ round'[l] = file[l].retries[Key(l)'] + 1
         /\ file[l].retries[Key(l)'] < MaxTries \/ Clean(l, target'[l])
      \/ /\ pc'[l] = "requeue" /\ round'[l] = file[l].retries[Key(l)'] + 1
         /\ file[l].retries[Key(l)'] < MaxTries
  BY RunnerAssumption DEF Recover, GoTo, Attempt, under_cap, Key, Branches
<1>6. Clean(l, target'[l]) => (Clean(l, target[l]))' /\ head[l].commits \in {"ahead", "diverged"}
  BY <1>2 DEF Clean, Heads
<1>7. head[l].commits = "ahead" => Unpushed(l) = 1
  BY <1>1 DEF Unpushed
<1>8. Counted(l)' /\ Capped(l)'
  BY <1>1, <1>2, <1>3, CountersTyped DEF TriesOf, Counted, Capped, Counting
<1>9. BeingCounted(l)'
  BY <1>1, <1>2, <1>3, <1>4, <1>5, CountersTyped
     DEF TriesOf, Counted, BeingCounted, Counting, RecoverPlaces
<1>10. HasRoom(l)'
  <2>1. CASE pc'[l] = "checkout" /\ ~(file[l].retries[Key(l)'] < MaxTries)
    BY <1>1, <1>2, <1>4, <1>5, <1>6, <1>7, <2>1, CountersTyped, RunnerAssumption
       DEF TriesOf, Capped, HasRoom
  <2>2. CASE pc'[l] # "mark" /\ file[l].retries[Key(l)'] < MaxTries
    BY <1>1, <1>2, <1>3, <1>4, <2>2, CountersTyped, RunnerAssumption
       DEF TriesOf, Counted, HasRoom, Counting
  <2> QED
    BY <1>5, <2>1, <2>2 DEF HasRoom
<1> QED
  BY <1>8, <1>9, <1>10 DEF TriesOf

\* A recovery goes to work on the branch, or pushes what it holds, or gives up.
LEMMA CheckoutTries ==
    ASSUME IInv, NEW l \in Lanes, RunnerAssumption, Checkout(l), PlacesTyped', WorktreesTyped'
    PROVE TriesOf(l)'
<1> USE DEF IInv, PlacesTyped, CyclesTyped, WorktreesTyped
<1>1. TriesOf(l) /\ pc[l] = "checkout"
  BY DEF TriesCounted, Checkout, At
<1>2. UNCHANGED <<tries, file, faults, round, Key(l)>>
  BY DEF Checkout, At, EndCycle, GoTo, Key
<1>3. /\ Unpushed(l)' <= Unpushed(l) /\ Unpushed(l)' \in {0, 1}
      /\ \/ pc'[l] \in {"idle", "count"}
         \/ pc'[l] = "r_push" /\ UNCHANGED head
         \/ pc'[l] = "r_code" /\ ~Clean(l, target[l])
  BY <1>1 DEF Checkout, EndCycle, GoTo, InBranch, Unpushed, Heads
<1>4. pc'[l] = "r_push" => Unpushed(l)' = 0
  BY DEF Unpushed
<1>5. pc'[l] = "r_code" => Unpushed(l)' = 0
  BY <1>1 DEF Checkout, EndCycle, GoTo, InBranch, Unpushed, Heads
<1>6. Counted(l)' /\ Capped(l)'
  BY <1>1, <1>2, <1>3, CountersTyped, RunnerAssumption DEF TriesOf, Counted, Capped, Counting
<1>7. BeingCounted(l)'
  BY <1>1, <1>2, <1>3, CountersTyped
     DEF TriesOf, Counted, BeingCounted, Counting, RecoverPlaces
<1>8. HasRoom(l)'
  BY <1>1, <1>2, <1>3, <1>4, <1>5, CountersTyped DEF TriesOf, HasRoom
<1> QED
  BY <1>6, <1>7, <1>8 DEF TriesOf

\* Codex and the gate: commits, an attempt that failed, or nothing to count.
LEMMA RecoverCodeTries ==
    ASSUME IInv, NEW l \in Lanes, RunnerAssumption, RecoverCode(l), PlacesTyped', WorktreesTyped'
    PROVE TriesOf(l)'
<1> USE DEF IInv, PlacesTyped, CyclesTyped, WorktreesTyped
<1>1. TriesOf(l) /\ pc[l] = "r_code"
  BY DEF TriesCounted, RecoverCode, At
<1>2. UNCHANGED <<file, faults, round, Key(l)>>
  BY DEF RecoverCode, At, EndCycle, GoTo, Key
<1>3. CASE pc'[l] = "r_push"
  <2>1. UNCHANGED tries /\ Unpushed(l)' = 0
    BY <1>1, <1>3 DEF RecoverCode, EndCycle, GoTo, Unpushed
  <2>2. Counted(l)' /\ Capped(l)'
    BY <1>1, <1>2, <2>1, CountersTyped DEF TriesOf, Counted, Capped, Counting
  <2>3. BeingCounted(l)' /\ HasRoom(l)'
    BY <1>1, <1>2, <1>3, <2>1, CountersTyped, RunnerAssumption
       DEF TriesOf, BeingCounted, HasRoom, Counting, RecoverPlaces
  <2> QED
    BY <2>2, <2>3 DEF TriesOf
<1>4. CASE pc'[l] = "idle"
  <2>1. UNCHANGED <<tries, Unpushed(l)>>
    BY <1>1, <1>4 DEF RecoverCode, GoTo, Unpushed
  <2>2. pc[l] \notin Counting /\ pc'[l] \notin RecoverPlaces \cup {"count"}
    BY <1>1, <1>4 DEF Counting, RecoverPlaces
  <2>3. /\ faults' \in Nat /\ Unpushed(l)' \in {0, 1}
        /\ Unpushed(l)' + faults <= Unpushed(l) + faults' /\ tries'[l] = tries[l]
        /\ file'[l] # Corrupt => file[l] # Corrupt /\ file'[l].retries = file[l].retries
    BY <1>2, <2>1, CountersTyped
  <2> QED
    BY <2>2, <2>3, NothingTried
<1>5. CASE pc'[l] \in {"count", "mark"}
  <2>1. Tried(l) /\ UNCHANGED Unpushed(l)
    BY <1>1, <1>5 DEF RecoverCode, EndCycle, GoTo, Unpushed
  <2>2. pc[l] \in {"requeue", "r_code", "r_push"} /\ pc'[l] \in Counting /\ pc[l] # "r_push"
    BY <1>1, <1>5 DEF Counting
  <2>3. Unpushed(l)' \in {0, 1} /\ Unpushed(l)' <= Unpushed(l)
    BY <2>1, CountersTyped
  <2> QED
    BY <1>2, <2>1, <2>2, <2>3, TriedTries
<1> QED
  BY <1>3, <1>4, <1>5 DEF RecoverCode, EndCycle, GoTo

\* Commits that are pushed are an attempt; a push that is rejected is none.
LEMMA RecoverPushTries ==
    ASSUME IInv, NEW l \in Lanes, RunnerAssumption, RecoverPush(l), PlacesTyped', WorktreesTyped'
    PROVE TriesOf(l)'
<1> USE DEF IInv, PlacesTyped, CyclesTyped, WorktreesTyped
<1>1. pc[l] = "r_push" /\ Unpushed(l)' = 0
  BY DEF RecoverPush, At, EndCycle, GoTo, PushHead, Committed, InBranch, Unpushed, Heads
<1>2. UNCHANGED <<file, faults, round, Key(l)>>
  BY DEF RecoverPush, At, EndCycle, GoTo, Key
<1>3. CASE head[l].commits = "ahead"
  <2>1. Tried(l) /\ pc'[l] = "r_wait"
    BY <1>1, <1>3 DEF RecoverPush, GoTo
  <2>2. pc[l] \in {"requeue", "r_code", "r_push"} /\ pc'[l] \in Counting
    BY <1>1, <2>1 DEF Counting
  <2>3. Unpushed(l)' \in {0, 1} /\ Unpushed(l)' <= Unpushed(l) /\ head[l].commits # "diverged"
    BY <1>1, <1>3, CountersTyped
  <2> QED
    BY <1>2, <2>1, <2>2, <2>3, TriedTries
<1>4. CASE head[l].commits # "ahead"
  <2>1. UNCHANGED tries /\ pc'[l] = "idle"
    BY <1>1, <1>4 DEF RecoverPush, EndCycle, GoTo
  <2>2. pc[l] \notin Counting /\ pc'[l] \notin RecoverPlaces \cup {"count"}
    BY <1>1, <2>1 DEF Counting, RecoverPlaces
  <2>3. /\ faults' \in Nat /\ Unpushed(l)' \in {0, 1}
        /\ Unpushed(l)' + faults <= Unpushed(l) + faults' /\ tries'[l] = tries[l]
        /\ file'[l] # Corrupt => file[l] # Corrupt /\ file'[l].retries = file[l].retries
    BY <1>1, <1>2, <2>1, CountersTyped
  <2> QED
    BY <2>2, <2>3, NothingTried
<1> QED
  BY <1>3, <1>4

\* Every step keeps the tries of every lane within what is counted or has failed.
LEMMA TriesStep ==
    ASSUME IInv, [Next]_vars, RunnerAssumption, PlacesTyped', CyclesTyped', WorktreesTyped',
           StatesTyped'
    PROVE TriesCounted'
<1> USE DEF IInv, PlacesTyped, CyclesTyped, WorktreesTyped
<1>1. \A m \in Lanes : Unpushed(m)' \in {0, 1}
  BY DEF Unpushed
<1>2. ASSUME \/ UNCHANGED vars \/ \E b \in Branches : ChecksEnd(b) \/ MergePr(b)
      PROVE  TriesCounted'
  <2>1. \A m \in Lanes : UNCHANGED <<tries[m], file[m], pc[m], round[m], cur[m], target[m], head[m],
                                     edits[m], faults>>
    BY <1>2 DEF vars, github, local, bounds, lane, ChecksEnd, MergePr
  <2>2. ASSUME NEW m \in Lanes PROVE TriesOf(m)'
    <3>1. faults' \in Nat /\ faults' >= faults
      BY <2>1, <2>2 DEF StatesTyped
    <3> QED
      BY <2>1, <3>1, OtherLane
  <2> QED
    BY <2>2 DEF TriesCounted
<1>3. ASSUME NEW l \in Lanes, LaneStep(l)
      PROVE  TriesCounted'
  <2>1. \A m \in Lanes \ {l} : TriesOf(m)'
    BY <1>3, OneLaneMoves, OtherLane
  <2>2. CASE Poll(l) \/ Take(l)
    <3>1. /\ pc[l] = "idle" /\ pc'[l] \in {"idle", "begin"} /\ UNCHANGED <<tries, faults, head>>
          /\ file'[l] # Corrupt => file[l] # Corrupt /\ file'[l].retries = file[l].retries
      BY <2>2 DEF Poll, Take, At, GoTo, SaveState, StartCycle, StatesTyped, local
    <3>2. UNCHANGED Unpushed(l)
      BY <3>1 DEF Unpushed
    <3>3. pc[l] \notin Counting /\ pc'[l] \notin RecoverPlaces \cup {"count"}
      BY <3>1 DEF Counting, RecoverPlaces
    <3>4. /\ faults' \in Nat /\ Unpushed(l)' + faults <= Unpushed(l) + faults'
          /\ tries'[l] = tries[l]
      BY <3>1, <3>2, CountersTyped
    <3>5. TriesOf(l)'
      BY <1>1, <3>1, <3>3, <3>4, NothingTried
    <3> QED
      BY <2>1, <3>5 DEF TriesCounted
  <2>3. CASE RunStep(l)
    <3>1. /\ UNCHANGED <<tries, faults>> /\ pc[l] \notin Counting
          /\ pc'[l] \notin RecoverPlaces \cup {"count"}
          /\ Unpushed(l)' <= Unpushed(l)
          /\ file'[l] # Corrupt => file[l] # Corrupt /\ file'[l].retries = file[l].retries
      BY <2>3, RunTriesNothing
    <3>2. /\ faults' \in Nat /\ Unpushed(l)' + faults <= Unpushed(l) + faults'
          /\ tries'[l] = tries[l]
      BY <1>1, <3>1, CountersTyped
    <3>3. TriesOf(l)'
      BY <1>1, <3>1, <3>2, NothingTried
    <3> QED
      BY <2>1, <3>3 DEF TriesCounted
  <2>4. CASE Requeue(l)
    <3>1. /\ pc[l] = "requeue" /\ pc'[l] = "count" /\ Tried(l)
          /\ UNCHANGED <<file, faults, round, Key(l), head>>
      BY <2>4 DEF Requeue, At, GoTo, StayInCycle, Key, local
    <3>2. UNCHANGED Unpushed(l)
      BY <3>1 DEF Unpushed
    <3>3. pc[l] \in {"requeue", "r_code", "r_push"} /\ pc'[l] \in Counting /\ pc[l] # "r_push"
      BY <3>1 DEF Counting
    <3>4. Unpushed(l)' <= Unpushed(l)
      BY <3>2, CountersTyped
    <3>5. TriesOf(l)'
      BY <1>1, <3>1, <3>3, <3>4, TriedTries
    <3> QED
      BY <2>1, <3>5 DEF TriesCounted
  <2>5. CASE RecoverWait(l) \/ MarkGreen(l)
    <3>1. /\ pc[l] \in {"r_wait", "mark"} /\ pc'[l] \in {"mark", "count"}
          /\ UNCHANGED <<tries, file, faults, round, Key(l), head>>
      BY <2>5 DEF RecoverWait, MarkGreen, At, GoTo, StayInCycle, Key, local
    <3>2. UNCHANGED Unpushed(l)
      BY <3>1 DEF Unpushed
    <3> QED
      BY <2>1, <3>1, <3>2, CountingTries DEF TriesCounted, Counting
  <2>6. CASE Recover(l) \/ Checkout(l) \/ RecoverCode(l) \/ RecoverPush(l) \/ CountAttempt(l)
    BY <2>1, <2>6, RecoverTries, CheckoutTries, RecoverCodeTries, RecoverPushTries,
       CountAttemptTries DEF TriesCounted
  <2>7. CASE Fault(l)
    <3>1. /\ pc[l] # "idle" /\ faults' = faults + 1 /\ UNCHANGED <<tries, head, file>>
      BY <2>7 DEF Fault, RunPlaces, FailPlaces, RecoverPlaces
    <3>2. pc'[l] \in {"idle", "fail"}
      BY <2>7, ExceptGoes DEF Fault, EndCycle, GoTo
    <3> QED
      BY <1>1, <2>1, <3>1, <3>2, FaultTries DEF TriesCounted
  <2>8. CASE Crash(l)
    <3>1. /\ pc[l] # "idle" /\ faults' = faults + 1 /\ UNCHANGED <<tries, head>>
          /\ pc'[l] = "idle" /\ file'[l] \in {file[l], Corrupt}
      BY <2>8 DEF Crash, EndCycle, GoTo, local, StatesTyped
    <3> QED
      BY <1>1, <2>1, <3>1, FaultTries DEF TriesCounted
  <2> QED
    BY <1>3, <2>2, <2>3, <2>4, <2>5, <2>6, <2>7, <2>8 DEF LaneStep, RecoverStep
<1> QED
  BY <1>2, <1>3 DEF Next, LaneStep

-----------------------------------------------------------------------------
(* The invariant and what follows from it.                                 *)
\* Files of earlier processes hold all they have tried.
LEMMA InitHolds ==
    ASSUME RunnerAssumption, Init
    PROVE IInv
<1>1. PlacesTyped /\ CyclesTyped /\ WorktreesTyped
  BY DEF Init, PlacesTyped, CyclesTyped, WorktreesTyped, Places, Heads
<1>2. GithubTyped /\ PassedIsKnown /\ WatchedPassed /\ GreenHasPassed /\ OpenPrIsMarked
  <2>1. pr = [b \in Branches |-> "none"] /\ ci = [b \in Branches |-> "none"] /\ passed = {}
        /\ labels = [i \in Issues |-> {}] /\ \A l \in Lanes : pc[l] = "idle"
    BY DEF Init
  <2>2. GithubTyped
    BY <2>1 DEF Init, GithubTyped
  <2> QED
    BY <2>1, <2>2 DEF PassedIsKnown, WatchedPassed, GreenHasPassed, OpenPrIsMarked
<1>3. PICK n \in 0..MaxTries :
          /\ file = [l \in Lanes |-> [active |-> {}, retries |-> [k \in Issues \X Reasons |-> n]]]
          /\ tries = [l \in Lanes |-> [k \in Issues \X Reasons |-> n]]
  BY DEF Init
<1>4. n \in Nat /\ n <= MaxTries /\ MaxTries \in Nat
  BY <1>3, RunnerAssumption
<1>5. [active |-> {}, retries |-> [k \in Issues \X Reasons |-> n]] \in States
  BY <1>4 DEF States
<1>6. StatesTyped
  BY <1>3, <1>4, <1>5 DEF Init, StatesTyped
<1>7. AtWork /\ OneCheckout /\ WorkIsLabelled
  BY DEF Init, AtWork, WorkOf, OneCheckout, WorkIsLabelled, OnBranch, Coding, OnTarget, RunPlaces
<1>8. \A l \in Lanes : file[l] # Corrupt
  BY <1>3, <1>5, WholeState
<1>9. FileIsLoaded
  BY <1>8 DEF Init, FileIsLoaded
<1>10. ASSUME NEW l \in Lanes PROVE TriesOf(l)
  <2>1. Unpushed(l) = 0 /\ pc[l] = "idle" /\ faults = 0
    BY DEF Init, Unpushed
  <2>2. \A k \in Issues \X Reasons : tries[l][k] = n /\ file[l].retries[k] = n
    BY <1>3
  <2> QED
    BY <1>4, <2>1, <2>2
       DEF TriesOf, Counted, BeingCounted, HasRoom, Capped, Counting, RecoverPlaces
<1> QED
  BY <1>1, <1>2, <1>6, <1>7, <1>9, <1>10 DEF IInv, TriesCounted

\* Every step keeps the invariant.
LEMMA StepKeeps ==
    ASSUME RunnerAssumption, IInv, [Next]_vars
    PROVE IInv'
<1>1. PlacesTyped' /\ CyclesTyped' /\ WorktreesTyped'
  BY PlacesStep, CyclesStep, WorktreesStep
<1>2. GithubTyped' /\ StatesTyped'
  BY GithubStep, StatesStep
<1>3. AtWork' /\ OneCheckout'
  BY <1>1, AtWorkStep, CheckoutStep
<1>4. PassedIsKnown' /\ WorkIsLabelled'
  BY <1>1, <1>2, PassedStep, LabelledStep
<1>5. FileIsLoaded' /\ TriesCounted'
  BY <1>1, <1>2, FileStep, TriesStep
<1>6. WatchedPassed' /\ GreenHasPassed' /\ OpenPrIsMarked'
  BY <1>1, <1>2, WatchedStep, GreenStep, MarkedStep
<1> QED
  BY <1>1, <1>2, <1>3, <1>4, <1>5, <1>6 DEF IInv

\* The invariant the properties rest on holds in every behaviour of the lanes.
THEOREM RunnerInvariant == Spec => []IInv
<1>1. Init => IInv
  BY InitHolds, RunnerAssumption
<1>2. IInv /\ [Next]_vars => IInv'
  BY StepKeeps, RunnerAssumption
<1> QED
  BY <1>1, <1>2, PTL DEF Spec

\* commit_all() commits the work of this issue and cycle only, on the branch of
\* this issue (run_issue.py, ensure_clean_worktree).
THEOREM OwnWorkCommitted == Spec => []CommitsOwnWork
<1>1. IInv => CommitsOwnWork
  BY DEF IInv, AtWork, WorkOf, CommitsOwnWork, Coding, OnBranch, RunPlaces
<1> QED
  BY <1>1, RunnerInvariant, PTL

\* ci-green stands for checks that passed on a branch of the issue, in run_issue()
\* and in the recovery by any lane.
THEOREM GreenLabelsAreReal == Spec => []GreenLabelIsReal
<1>1. IInv => GreenLabelIsReal
  BY DEF IInv, WatchedPassed, GreenHasPassed, GreenLabelIsReal
<1> QED
  BY <1>1, RunnerInvariant, PTL

\* Whatever call fails after gh pr create, the issue keeps a label.
THEOREM OpenPrsAreMarked == Spec => []OpenPrIsMarked
<1>1. IInv => OpenPrIsMarked
  BY DEF IInv
<1> QED
  BY <1>1, RunnerInvariant, PTL

\* Beyond max_needs_human_attempts, a stop signal costs a fault for each attempt.
THEOREM AttemptsAreCapped == Spec => []AttemptsCapped
<1>1. ASSUME IInv
      PROVE  AttemptsCapped
  <2>1. ASSUME NEW l \in Lanes, NEW k \in Issues \X Reasons
        PROVE  tries[l][k] <= MaxTries + faults
    <3>1. tries[l][k] + Unpushed(l) <= MaxTries + faults
      BY <1>1 DEF IInv, TriesCounted, TriesOf, Capped
    <3> QED
      BY <1>1, <3>1, CountersTyped, RunnerAssumption
  <2> QED
    BY <2>1 DEF AttemptsCapped
<1> QED
  BY <1>1, RunnerInvariant, PTL
=============================================================================
