----------------------------- MODULE JsonlStorage ----------------------------
(***************************************************************************)
(* JsonlStorageBackend (sdk/python/src/attestplane/storage/jsonl.py): one  *)
(* line of the file per event.                                             *)
(*                                                                         *)
(* The file is the sequence of its lines.  A raw write puts a piece at its *)
(* end: a whole line, the head of a line (no newline yet) or the rest of   *)
(* one (with its newline).  `pending` is what the Python file object still *)
(* holds: after a failed flush it keeps a line that fits its buffer and    *)
(* drops one that does not, and a later flush or close() writes what it    *)
(* kept.  `synced` is how much of the file an fsync has covered.           *)
(***************************************************************************)
EXTENDS Integers, Sequences, FiniteSets, SequencesExt

CONSTANTS
    Writers,       \* threads that call append()
    Nobody,        \* no holder of the lock, no event being appended
    Durable,       \* the backend's `durable` argument
    IOErrors       \* raw writes, fsync and close may raise OSError

ASSUME JsonlAssumption ==
    Nobody \notin Writers /\ Durable \in BOOLEAN /\ IOErrors \in BOOLEAN

VARIABLES
    file,      \* the lines in the file, as any reader sees them
    synced,    \* lines that survive a power loss
    pending,   \* pieces in the file object's buffer
    slock,     \* the backend's _lock
    wpc,       \* where each thread is in append()
    arg        \* the event each thread is appending

storeVars == <<file, synced, pending, slock, wpc, arg>>

Piece(ev, part) == [ev |-> ev, part |-> part]

StoreInit ==
    /\ file = <<>>
    /\ synced = 0
    /\ pending = <<>>
    /\ slock = Nobody
    /\ wpc = [t \in Writers |-> "idle"]
    /\ arg = [t \in Writers |-> Nobody]

-----------------------------------------------------------------------------
(***************************************************************************)
(* Writing at the end of a file.  A line is whole (one record), partial    *)
(* (the head of one, no newline), mixed (no newline, and never a record)   *)
(* or spoiled (with its newline, and not a record).                        *)
(***************************************************************************)
Line(ev, form) == [ev |-> ev, form |-> form]

NewLine(p) ==
    Line(p.ev, CASE p.part = "whole" -> "whole" [] p.part = "head" -> "partial" [] p.part = "rest" -> "spoiled")

Longer(line, p) ==
    [line EXCEPT !.form = CASE p.part = "head" -> "mixed"
                            [] line = Line(p.ev, "partial") /\ p.part = "rest" -> "whole"
                            [] OTHER -> "spoiled"]

PartialTrailingLine(f) == f # <<>> /\ f[Len(f)].form \in {"partial", "mixed"}

Write(f, p) ==
    IF PartialTrailingLine(f) THEN [f EXCEPT ![Len(f)] = Longer(@, p)] ELSE Append(f, NewLine(p))

\* Only the first piece of a buffer can find a line without its newline.
WriteAll(f, ps) ==
    IF ps = <<>> THEN f ELSE Write(f, Head(ps)) \o [k \in 1..(Len(ps) - 1) |-> NewLine(ps[k + 1])]

(***************************************************************************)
(* scan(): the records of a file, up to the first line it cannot accept.   *)
(***************************************************************************)
GoodLines(f) == Max({n \in 0..Len(f) : \A i \in 1..n : f[i].form = "whole"})

ScanEvents(f) == [k \in 1..GoodLines(f) |-> f[k].ev]

\* Mutant: scanning stops at the first bad line and reports nothing.
ScanStopsQuietly(f) == TRUE

\* JsonlStorageScanResult.complete, and the condition for read_all() not to raise.
ScanComplete(f) == \A i \in 1..Len(f) : f[i].form = "whole"

-----------------------------------------------------------------------------
\* append(): the lock, the lazily opened handle, and write() into its buffer.
WriteBegin(t, ev) ==
    /\ wpc[t] = "idle"
    /\ slock = Nobody
    /\ slock' = t
    /\ arg' = [arg EXCEPT ![t] = ev]
    /\ pending' = Append(pending, Piece(ev, "whole"))
    /\ wpc' = [wpc EXCEPT ![t] = "flush"]
    /\ UNCHANGED <<file, synced>>

\* flush(): one raw write takes the next piece, or only its head.
RawWrite(t) ==
    /\ wpc[t] = "flush"
    /\ pending # <<>>
    /\ \/ /\ file' = Write(file, Head(pending))
          /\ pending' = Tail(pending)
       \/ /\ Head(pending).part = "whole"
          /\ file' = Write(file, Piece(Head(pending).ev, "head"))
          /\ pending' = <<Piece(Head(pending).ev, "rest")>> \o Tail(pending)
    /\ UNCHANGED <<synced, slock, wpc, arg>>

FlushDone(t) ==
    /\ wpc[t] = "flush"
    /\ pending = <<>>
    /\ wpc' = [wpc EXCEPT ![t] = IF Durable THEN "fsync" ELSE "done"]
    /\ slock' = IF Durable THEN slock ELSE Nobody
    /\ UNCHANGED <<file, synced, pending, arg>>

\* A raw write raises: StorageWriteError, after what was already written.
FlushFails(t) ==
    /\ IOErrors
    /\ wpc[t] = "flush"
    /\ pending # <<>>
    /\ pending' \in {pending, Front(pending)}
    /\ slock' = Nobody
    /\ wpc' = [wpc EXCEPT ![t] = "failed"]
    /\ UNCHANGED <<file, synced, arg>>

\* Mutant: fsync is not called.
SkipFsync(t) ==
    /\ wpc[t] = "fsync"
    /\ slock' = Nobody
    /\ wpc' = [wpc EXCEPT ![t] = "done"]
    /\ UNCHANGED <<file, synced, pending, arg>>

Fsync(t) ==
    /\ wpc[t] = "fsync"
    /\ synced' = Len(file)
    /\ slock' = Nobody
    /\ wpc' = [wpc EXCEPT ![t] = "done"]
    /\ UNCHANGED <<file, pending, arg>>

FsyncFails(t) ==
    /\ IOErrors
    /\ wpc[t] = "fsync"
    /\ slock' = Nobody
    /\ wpc' = [wpc EXCEPT ![t] = "failed"]
    /\ UNCHANGED <<file, synced, pending, arg>>

\* append() returned or raised, and the caller goes on.
WriteEnd(t) ==
    /\ wpc[t] \in {"done", "failed"}
    /\ wpc' = [wpc EXCEPT ![t] = "idle"]
    /\ arg' = [arg EXCEPT ![t] = Nobody]
    /\ UNCHANGED <<file, synced, pending, slock>>

\* What a raw write that fails part way has taken of a buffer.
Cuts(ps) ==
    {SubSeq(ps, 1, k) : k \in 0..Len(ps)} \cup
    {Append(SubSeq(ps, 1, k), Piece(ps[k + 1].ev, "head")) :
        k \in {j \in 0..(Len(ps) - 1) : ps[j + 1].part = "whole"}}

\* close(): the handle writes what it still holds; when that fails part way, the
\* rest is lost with the handle.
Close ==
    /\ slock = Nobody
    /\ pending # <<>>
    /\ \E ps \in IF IOErrors THEN Cuts(pending) ELSE {pending} : file' = WriteAll(file, ps)
    /\ pending' = <<>>
    /\ UNCHANGED <<synced, slock, wpc, arg>>

\* What a power loss leaves of a file: some prefix that keeps the first n lines,
\* and perhaps the next one without its newline.
CutFiles(f, n) ==
    {SubSeq(f, 1, k) : k \in n..Len(f)} \cup
    {Append(SubSeq(f, 1, k), Line(f[k + 1].ev, "partial")) : k \in n..(Len(f) - 1)}

WriteStep(t) == RawWrite(t) \/ FlushDone(t) \/ FlushFails(t) \/ Fsync(t) \/ FsyncFails(t)

-----------------------------------------------------------------------------
\* The process dies: its buffer is gone, the file is what the kernel has.
LoseProcess ==
    /\ pending' = <<>>
    /\ slock' = Nobody
    /\ wpc' = [t \in Writers |-> "idle"]
    /\ arg' = [t \in Writers |-> Nobody]

=============================================================================
