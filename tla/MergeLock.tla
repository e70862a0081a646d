------------------------------ MODULE MergeLock ------------------------------
(***************************************************************************)
(* The singleton merge lock of scripts/autodev/temporal/db.py: one row of  *)
(* a SQLite table, taken, checked and deleted in transactions that one     *)
(* mutex per process and BEGIN IMMEDIATE make atomic.  A SQLITE_BUSY that  *)
(* makes acquire_merge_lock() return False is a poll that changes nothing. *)
(***************************************************************************)
EXTENDS Integers, FiniteSets

CONSTANTS
    Workflows,   \* workflow runs: a workflow_id with its run_id
    Hosts,       \* machines a worker process may run on
    None,
    TTL,         \* _MERGE_LOCK_TTL, in ticks
    MaxCrashes   \* bound: worker processes that die

\* A row: its holder's ids, process and host, and ticks since acquired_at.
Row == [wf : Workflows, pid : 0..MaxCrashes, host : Hosts, age : 0..TTL]

ASSUME MergeLockAssumption ==
    /\ None \notin Row
    /\ Hosts # {}
    /\ TTL \in Nat \ {0}
    /\ MaxCrashes \in Nat

VARIABLES
    row,   \* pipeline_merge_lock: the row with id 1, or None
    pid,   \* the pid of the worker process that runs now
    host   \* and its host

lockVars == <<row, pid, host>>

LockInit ==
    /\ row = None
    /\ pid = 0
    /\ host \in Hosts

\* os.kill(holder_pid, 0), asked only about a process of this host.
holder_alive == row.host # host \/ row.pid = pid

\* Mutant: an old row is evicted although its holder runs.
takes_lock_early(w) ==
    row # None => row.wf = w \/ ~holder_alive \/ row.age >= TTL - 1

takes_lock(w) ==
    row # None => row.wf = w \/ ~holder_alive \/ row.age >= TTL

NewRow(w) == [wf |-> w, pid |-> pid, host |-> host, age |-> 0]

verify_merge_lock(w) == row # None /\ row.wf = w
released_row(w) == IF verify_merge_lock(w) THEN None ELSE row

\* One tick of the clock.
AgeRow == row' = IF row # None /\ row.age < TTL THEN [row EXCEPT !.age = @ + 1] ELSE row

\* The worker process dies and another one starts, here or elsewhere.
NewProcess ==
    /\ pid < MaxCrashes
    /\ pid' = pid + 1
    /\ host' \in Hosts
    /\ UNCHANGED row

LockTypeOK ==
    /\ row \in Row \cup {None}
    /\ pid \in 0..MaxCrashes
    /\ host \in Hosts

=============================================================================
