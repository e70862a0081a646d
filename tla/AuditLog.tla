------------------------------ MODULE AuditLog -------------------------------
(***************************************************************************)
(* What the append-only audit log promises, with no lock, file or crash    *)
(* protocol in sight: a chain that only grows at its end, of which an      *)
(* acknowledged prefix is never given up.  A failure may lose events       *)
(* nobody was told are durable, and nothing else.                          *)
(***************************************************************************)
EXTENDS Integers, Sequences

CONSTANT Entries      \* what a position of the log can hold

VARIABLES log,        \* the chain, oldest event first
          durable     \* how long the acknowledged prefix is

Init == log = <<>> /\ durable = 0

Extend ==
    /\ Len(log') = Len(log) + 1
    /\ SubSeq(log', 1, Len(log)) = log
    /\ log'[Len(log')] \in Entries
    /\ UNCHANGED durable

\* Acknowledging an event acknowledges everything it is chained to.
Acknowledge ==
    /\ durable' \in (durable + 1)..Len(log)
    /\ UNCHANGED log

LoseTail ==
    /\ \E n \in durable..Len(log) : log' = SubSeq(log, 1, n)
    /\ UNCHANGED durable

Next == Extend \/ Acknowledge \/ LoseTail

Spec == Init /\ [][Next]_<<log, durable>>

=============================================================================
