----------------------------- MODULE DurableLog ------------------------------
(***************************************************************************)
(* The durable use of the SDK: every thread appends to one AttestSubstrate *)
(* and hands the ChainedEvent it got to one JsonlStorageBackend, as in     *)
(* docs/quickstart.md.  The process may die between any two steps; the     *)
(* next one reads the file back with read_all() and rehydrates a substrate *)
(* with from_events(), which refuses a chain that does not verify.  In     *)
(* some behaviours a single thread does all of it and no write fails.      *)
(***************************************************************************)
EXTENDS Substrate, JsonlStorage

CONSTANTS
    MaxFaults,        \* bound: crashes, and failed appends that are retried
    MaxFaultsAlone    \* bound: crashes, when a single thread writes

ASSUME DurableLogAssumption ==
    /\ MaxFaults \in Nat /\ MaxFaultsAlone \in Nat
    /\ Writers = Threads

VARIABLES
    up,        \* "up", "down", or "refused": read_all() or from_events() raised
    acked,     \* history: events whose storage append() returned normally
    faults,    \* crashes and retries so far
    writer     \* the single thread that writes, without I/O errors, or None

vars == <<subVars, storeVars, up, acked, faults, writer>>

Init ==
    /\ SubInit /\ StoreInit
    /\ up = "up" /\ acked = {} /\ faults = 0
    /\ writer \in Threads \cup {None}

alone == writer # None

-----------------------------------------------------------------------------
\* Substrate calls while the process is up.  tip() changes nothing here.
Log(t) == AppendStep(t) /\ UNCHANGED <<storeVars, acked>>

\* storage.append(chained), until it returns or raises.
StoreBegin(t) == pc[t] = "returned" /\ WriteBegin(t, ret[t]) /\ UNCHANGED <<subVars, acked>>

Store(t) ==
    /\ WriteStep(t)
    /\ alone => wpc'[t] # "failed"
    /\ acked' = IF wpc'[t] = "done" THEN acked \cup {arg[t]} ELSE acked
    /\ UNCHANGED subVars

\* The caller goes on to its next draft, whether the append was stored or not.
GoOn(t) == WriteEnd(t) /\ Return(t) /\ UNCHANGED acked

\* After a StorageWriteError the caller hands over the same event again.
Retry(t) ==
    /\ wpc[t] = "failed"
    /\ WriteEnd(t)
    /\ UNCHANGED <<subVars, acked>>

CloseStorage == Close /\ UNCHANGED <<subVars, acked>>

-----------------------------------------------------------------------------
LoseMemory ==
    /\ LoseProcess
    /\ events' = <<>>
    /\ tip' = genesis_head
    /\ lock' = None
    /\ pc' = [t \in Threads |-> "idle"]
    /\ ret' = [t \in Threads |-> None]
    /\ seen' = [t \in Threads |-> genesis_head]
    /\ UNCHANGED <<heap, nextId, acked>>

Crash == LoseMemory /\ UNCHANGED <<file, synced>>

PowerLoss ==
    /\ LoseMemory
    /\ file' \in CutFiles(file, synced)
    /\ synced' = Len(file')

\* Mutant: from_events() does not call verify_chain().
AcceptAnyChain(chain) == TRUE

\* from_events(): raises ValueError unless the chain verifies.
from_events_accepts(chain) == verify_chain(heap, chain)

\* read_all() and from_events() in the new process.
Restart ==
    /\ up = "down"
    /\ LET chain == ScanEvents(file) IN
       IF ScanComplete(file) /\ from_events_accepts(chain)
       THEN up' = "up" /\ events' = chain /\ tip' = head_of(chain)
       ELSE up' = "refused" /\ UNCHANGED <<events, tip>>
    /\ UNCHANGED <<lock, pc, ret, seen, heap, nextId, storeVars, acked, faults, writer>>

Running ==
    /\ up = "up"
    /\ \/ \E t \in IF alone THEN {writer} ELSE Threads : Log(t) \/ StoreBegin(t) \/ Store(t) \/ GoOn(t)
       \/ CloseStorage
    /\ UNCHANGED <<up, faults, writer>>

Fault ==
    /\ up = "up"
    /\ faults < IF alone THEN MaxFaultsAlone ELSE MaxFaults
    /\ faults' = faults + 1
    /\ \/ (Crash \/ PowerLoss) /\ up' = "down"
       \/ \E t \in Threads : Retry(t) /\ UNCHANGED up
    /\ UNCHANGED writer

Next == Running \/ Fault \/ Restart

Spec == Init /\ [][Next]_vars

-----------------------------------------------------------------------------

\* An event whose append() returned is in the substrate at its seq for as long
\* as the process runs, and in every process that rehydrates from the file: a
\* restart refuses the file sooner than it comes up without one of them.
AckedNeverLost ==
    up = "up" => \A e \in acked : e.seq + 1 \in 1..Len(events) /\ events[e.seq + 1] = e

\* A running process holds a chain that verify() accepts, restarted or not.
RunningChainVerifies ==
    (up = "up" /\ lock = None) => verify_chain(heap, events) /\ tip = head_of(events)

(***************************************************************************)
(* Under one writer and no I/O error the log is AuditLog: while the        *)
(* process is down, the chain is what the file holds.  The other           *)
(* behaviours are left out: their abstract log stays empty.                *)
(***************************************************************************)
AckedLength ==
    LET ends == {e.seq + 1 : e \in acked} IN IF ends = {} THEN 0 ELSE Max(ends)

Abstract == INSTANCE AuditLog WITH
    Entries <- ChainedEvent,
    log     <- IF ~alone THEN <<>> ELSE IF up = "up" THEN events ELSE ScanEvents(file),
    durable <- IF alone THEN AckedLength ELSE 0

AppendOnlyLog == Abstract!Spec

-----------------------------------------------------------------------------

=============================================================================
