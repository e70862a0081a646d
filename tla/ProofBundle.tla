------------------------------ MODULE ProofBundle ------------------------------
(***************************************************************************)
(* Proof bundles: proof_bundle.py builds one from a chain and its          *)
(* signatures, and whoever receives the file checks it with verifier.py,   *)
(* through cli/main.py (text or --json).                                   *)
(*                                                                         *)
(* An event is its seq, which stands for its hash and for the link to its  *)
(* predecessor: rows taken from one chain link up exactly when their seqs  *)
(* follow each other.  The policy_check_events are the seqs in PolicySeqs. *)
(* After Build the file passes through other hands: Edit changes one field *)
(* to another value a producer or an editor can leave there.               *)
(***************************************************************************)
EXTENDS Integers, FiniteSets, SequencesExt

CONSTANTS
    PolicySeqs,     \* seqs that hold a policy_check_event
    MaxSource,      \* bound on the chain
    MaxRows,        \* bound on the rows of a bundle
    MaxEdits        \* edits of one file

ASSUME BundleAssumption == MaxSource \in Nat /\ MaxRows \in Nat /\ MaxEdits \in Nat

VARIABLES
    stage,      \* "collect", "build", "file" or "envelope": who holds the evidence
    source,     \* number of events of the chain the bundle is built from
    signed,     \* the seqs its signature records speak of
    builder,    \* ProofBundleBuilder
    bundle,     \* the file
    edits       \* how often it was edited since Build

bvars == <<stage, source, signed, builder, bundle, edits>>

EmptyBuilder == [events |-> <<>>, signatures |-> <<>>, retention_proofs |-> <<>>]

\* An optional field is the set of its values: {} when it is absent.
Optional(list) == IF list = <<>> THEN {} ELSE {list}

-----------------------------------------------------------------------------
(* verify_chain and head_of, on rows of one chain.                         *)

Row(s) == [seq |-> s, form |-> "ok"]
Seqs(b) == {b.events[i].seq : i \in DOMAIN b.events}

\* The first row that is not the next event of the chain; 0 when there is none.
first_bad(rows) ==
    LET bad == {i \in DOMAIN rows : rows[i].seq # i - 1}
    IN IF bad = {} THEN 0 ELSE CHOOSE i \in bad : \A j \in bad : i <= j

first_with(rows, form) == SelectInSeq(rows, LAMBDA r : r.form = form)

head_of(rows) == IF rows = <<>> THEN -1 ELSE Last(rows).seq

\* Their policy events, in order; found[n] is those of the first n rows.
policy_events(rows) ==
    LET found[n \in 0..Len(rows)] ==
            IF n = 0 THEN <<>>
            ELSE IF rows[n].seq \in PolicySeqs THEN Append(found[n - 1], rows[n].seq)
            ELSE found[n - 1]
    IN found[Len(rows)]

-----------------------------------------------------------------------------
(* ProofBundleBuilder.                                                     *)

NoBundle ==
    [file |-> "ok", fields |-> "all", critical |-> "none", version |-> "1", arrays |-> "ok",
     method |-> "known", redaction |-> "kept", events |-> <<>>, head |-> -1,
     report |-> [ok |-> TRUE, first_bad |-> 0], schema |-> "known", genesis |-> TRUE,
     taxonomy |-> "1", refs |-> {}, signatures |-> {}, retention_proofs |-> {},
     anchoring |-> {}, anchor_ref |-> FALSE]

BundleInit ==
    /\ stage = "collect" /\ source = 0 /\ signed = <<>>
    /\ builder = EmptyBuilder /\ bundle = NoBundle /\ edits = 0

\* The evidence is handed over: a chain of n events, with these records.
Receive(n, seqs) ==
    /\ stage = "collect"
    /\ stage' = "build" /\ source' = n /\ signed' = seqs
    /\ UNCHANGED <<builder, bundle, edits>>

Building == stage = "build" /\ UNCHANGED <<stage, source, signed, bundle, edits>>

\* A list of events: any part of the chain, and twice if the caller says so.
Extend ==
    /\ Building
    /\ \E from \in 0..source - 1 : \E to \in from..source - 1 :
           /\ Len(builder.events) + to - from < MaxRows
           /\ builder' = [builder EXCEPT !.events = @ \o [i \in 1..to - from + 1 |-> Row(from + i - 1)]]

ExtendSignatures ==
    /\ Building
    /\ builder.signatures = <<>>
    /\ \E i \in DOMAIN signed :
           builder' = [builder EXCEPT !.signatures =
                           [j \in 1..i |-> [seq |-> signed[j], form |-> "ok"]]]

\* Only the shape is validated: whether the event is in the bundle is not.
ExtendRetentionProofs ==
    /\ Building
    /\ builder.retention_proofs = <<>>
    /\ \E s \in {0, MaxSource} :
           builder' = [builder EXCEPT !.retention_proofs = <<[id |-> 1, ref |-> s, form |-> "ok"]>>]

Anchorings == {[status |-> s, quarantined |-> s = "quarantined"] :
                   s \in {"anchored", "quarantined", "unanchored"}}

\* Mutant: an empty list of references is written.
BuiltWithList(from, anchoring, anchor_ref) ==
    LET rows == from.events
    IN [NoBundle EXCEPT
            !.events = rows, !.head = head_of(rows),
            !.report = [ok |-> first_bad(rows) = 0, first_bad |-> first_bad(rows)],
            !.refs = {policy_events(rows)},
            !.signatures = Optional(from.signatures),
            !.retention_proofs = Optional(from.retention_proofs),
            !.anchoring = anchoring, !.anchor_ref = anchor_ref]

\* What build() returns.
Built(from, anchoring, anchor_ref) ==
    LET rows == from.events
    IN [NoBundle EXCEPT
            !.events = rows,
            !.head = head_of(rows),
            !.report = [ok |-> first_bad(rows) = 0, first_bad |-> first_bad(rows)],
            !.refs = Optional(policy_events(rows)),
            !.signatures = Optional(from.signatures),
            !.retention_proofs = Optional(from.retention_proofs),
            !.anchoring = anchoring,
            !.anchor_ref = anchor_ref]

\* A reference is only combined with no anchoring state: where there is one,
\* it is read in its place.
Build ==
    /\ stage = "build"
    /\ \E anchoring \in {{}} \union {{a} : a \in Anchorings}, anchor_ref \in BOOLEAN :
           /\ anchor_ref => anchoring = {}
           /\ bundle' = Built(builder, anchoring, anchor_ref)
    /\ stage' = "file"
    /\ builder' = EmptyBuilder /\ source' = 0 /\ signed' = <<>>
    /\ UNCHANGED edits

\* minimal() chains one event to the genesis and has it signed.
Minimal ==
    /\ stage = "build"
    /\ bundle' = Built([EmptyBuilder EXCEPT !.events = <<Row(0)>>,
                                           !.signatures = <<[seq |-> 0, form |-> "ok"]>>], {}, FALSE)
    /\ stage' = "file"
    /\ builder' = EmptyBuilder /\ source' = 0 /\ signed' = <<>>
    /\ UNCHANGED edits

-----------------------------------------------------------------------------
(* What else a file that reaches a verifier may hold.                      *)

WithForm(list, form) == IF list = <<>> THEN {} ELSE {[list EXCEPT ![1].form = form],
                                                     [list EXCEPT ![Len(list)].form = form]}
Twice(list) == list \o list

Alternatives(b) ==
    [file |-> {"missing", "not_utf8", "not_json", "duplicate_key", "not_object"},
     fields |-> {"no_top", "no_nested"},
     critical |-> {"top", "metadata", "report"},
     version |-> {"2"},
     arrays |-> {"not_array"},
     method |-> {"unknown"},
     redaction |-> {"lost"},
     events |-> (UNION {WithForm(b.events, f) : f \in {"malformed", "not_canonical"}})
                \union {Front(l) : l \in Optional(b.events)}
                \union {Tail(l) : l \in Optional(b.events)},
     head |-> {head_of(b.events), head_of(b.events) - 1},
     report |-> {[ok |-> ~b.report.ok, first_bad |-> 0], [ok |-> ~b.report.ok, first_bad |-> 1],
                 [ok |-> b.report.ok, first_bad |-> 1 - b.report.first_bad]},
     schema |-> {"missing", "text", "unknown"},
     genesis |-> {FALSE},
     taxonomy |-> {"absent", "2"},
     refs |-> {{}} \union {{Tail(l)} : l \in b.refs \ {<<>>}} \union {{Twice(l)} : l \in b.refs}
              \union {{<<s>>} : s \in 0..MaxSource},
     signatures |-> {{}, {<<>>}} \union
         (UNION {{{l} : l \in WithForm(k, "no_field") \union WithForm(k, "malformed")} : k \in b.signatures}),
     retention_proofs |->
         UNION {{{Twice(l)}} \union {{k} : k \in WithForm(l, "malformed")} : l \in b.retention_proofs},
     anchoring |-> {{[status |-> "anchored", quarantined |-> TRUE]},
                    {[status |-> "other", quarantined |-> FALSE]}}]

Edit ==
    /\ stage = "file" /\ edits < MaxEdits /\ bundle.file = "ok"
    /\ edits' = edits + 1
    /\ \E f \in DOMAIN Alternatives(bundle) : \E v \in Alternatives(bundle)[f] :
           /\ v # bundle[f]
           /\ bundle' = [bundle EXCEPT ![f] = v]
    /\ UNCHANGED <<stage, source, signed, builder>>

BundleNext == Extend \/ ExtendSignatures \/ ExtendRetentionProofs \/ Build \/ Minimal \/ Edit

-----------------------------------------------------------------------------
(* verify_proof_bundle, in the order of its checks.                        *)

none == "none"

\* The reason a BundleSchemaError is classified under; none when the shape is
\* that of a bundle.
schema_error(b) ==
    CASE b.file = "not_object" -> "SCHEMA_INVALID"
      [] b.file # "not_object" /\ b.fields = "no_top" -> "REQUIRED_FIELD_MISSING"
      [] OTHER ->
    CASE b.critical = "top" -> "SCHEMA_UNKNOWN"
      [] b.critical # "top" /\ b.version # "1" -> "SCHEMA_VERSION_UNSUPPORTED"
      [] OTHER ->
    CASE b.fields = "no_nested" -> "REQUIRED_FIELD_MISSING"
      [] b.fields # "no_nested" /\ b.method # "known" -> "SCHEMA_UNKNOWN"
      [] OTHER ->
    IF \/ b.redaction = "lost" \/ b.arrays # "ok"
       \/ \E a \in b.anchoring : a.status = "other"
       \/ first_with(b.events, "malformed") # 0
    THEN "SCHEMA_INVALID" ELSE none

\* The least signature record a strict verifier asks for; none when it has it.
signed_schema_reason(b) ==
    LET Usable(r) == r.form = "ok" /\ r.seq \in Seqs(b)
        records == UNION {ToSet(l) : l \in b.signatures}
    IN IF b.events = <<>> THEN "REQUIRED_FIELD_MISSING"
       ELSE IF records = {} THEN "SIGNATURE_MISSING"
       ELSE CASE Cardinality(Seqs(b)) # Len(b.events) -> "SIGNATURE_INVALID"
              [] Cardinality(Seqs(b)) = Len(b.events) /\ (\E r \in records : Usable(r)) -> none
              [] OTHER -> IF \E r \in records : r.form = "no_field" /\ r.seq \in Seqs(b)
                          THEN "REQUIRED_FIELD_MISSING" ELSE "SIGNATURE_INVALID"

chain_ok(b) == first_bad(b.events) = 0
agreement(b) == b.report.ok = chain_ok(b)

metadata_reason(b, nonEmpty) ==
    CASE nonEmpty /\ b.events = <<>> -> "STRUCTURE_INVALID"
      [] ~(nonEmpty /\ b.events = <<>>) /\ b.schema # "known" ->
            [missing |-> "SCHEMA_VERSION_MISSING", text |-> "SCHEMA_INVALID",
             unknown |-> "SCHEMA_VERSION_UNSUPPORTED"][b.schema]
      [] OTHER ->
         IF b.critical \in {"metadata", "report"} THEN "SCHEMA_UNKNOWN"
         ELSE IF /\ b.genesis /\ b.taxonomy \in {"1", "absent"}
                 /\ b.head = head_of(b.events)
                 /\ agreement(b) /\ b.report.first_bad = first_bad(b.events)
              THEN none ELSE "STRUCTURE_INVALID"

\* Mutant: references that are missing are not missed.
refs_ok_if_present(b) == b.refs \in {{}, Optional(policy_events(b.events))}

\* policy_trace_refs names the policy events in order, each once, and is absent
\* when there are none: a policy event that is there twice has no right list.
policy_ok(b) ==
    /\ b.refs = Optional(policy_events(b.events))
    /\ \A i, j \in DOMAIN b.events :
           b.events[i].seq \in PolicySeqs /\ b.events[i].seq = b.events[j].seq => i = j

retention_ok(b) ==
    \A list \in b.retention_proofs :
        /\ \A i \in DOMAIN list : list[i].form = "ok" /\ list[i].ref \in Seqs(b)
        /\ \A i, j \in DOMAIN list : i # j => list[i].id # list[j].id

explicit_quarantine(b) == \E a \in b.anchoring : a.status = "quarantined"

\* hash_event raises on a row that has no canonical form: in the signature
\* gate, which hashes every row, or where verify_chain gets to it.
raises_canonicalization(b, gate) ==
    LET k == first_with(b.events, "not_canonical")
    IN /\ k # 0
       /\ \/ gate /\ UNION {ToSet(l) : l \in b.signatures} # {}
          \/ first_bad(b.events) = 0 \/ k < first_bad(b.events)

Quarantining == {"SCHEMA_INVALID", "SCHEMA_UNKNOWN", "SCHEMA_VERSION_MISSING",
                 "SCHEMA_VERSION_UNSUPPORTED", "REQUIRED_FIELD_MISSING", "SIGNATURE_MISSING"}

\* _verification_reasons before they are deduplicated.
all_reasons(b, nonEmpty, signed_reason) ==
    LET When(test, reason) == IF test THEN <<reason>> ELSE <<>>
        metadata == metadata_reason(b, nonEmpty)
    IN When(~chain_ok(b) \/ ~agreement(b), "CANONICAL_MISMATCH")
       \o When(nonEmpty /\ b.events = <<>>, "REQUIRED_FIELD_MISSING")
       \o When(signed_reason # none, signed_reason)
       \o When(metadata # none, metadata)
       \o When(~policy_ok(b), "STRUCTURE_INVALID")
       \o When(~retention_ok(b), "STRUCTURE_INVALID")
       \o When(explicit_quarantine(b), "ANCHOR_INVALID")

incomplete(b, nonEmpty, signed_reason) ==
    chain_ok(b) /\ agreement(b) /\ ((nonEmpty /\ b.events = <<>>) \/ signed_reason # none)

verify_proof_bundle(b, nonEmpty, strict) ==
    LET gate == strict \/ nonEmpty
        signed_reason == IF gate THEN signed_schema_reason(b) ELSE none
        reasons == all_reasons(b, nonEmpty, signed_reason)
        quarantined == \/ explicit_quarantine(b)
                       \/ incomplete(b, nonEmpty, signed_reason)
                       \/ reasons # <<>> /\ Head(reasons) \in Quarantining
    IN IF schema_error(b) # none THEN [raised |-> "schema"]
       ELSE IF raises_canonicalization(b, gate) THEN [raised |-> "canonicalization"]
       ELSE [raised |-> none, ok |-> reasons = <<>>, reasons |-> reasons,
             signed_reason |-> signed_reason, quarantined |-> quarantined,
             anchoring_status |->
                 IF quarantined THEN "quarantined"
                 ELSE IF \/ \E a \in b.anchoring : a.status = "anchored"
                         \/ b.anchoring = {} /\ b.anchor_ref
                      THEN "verified" ELSE "absent"]

-----------------------------------------------------------------------------
(* The front ends.  An option pin is {} or the taxonomy version asked for. *)

Verified == 0
Failed == 1
Quarantined == 2
UsageError == 3
Traceback == 1      \* Python's exit status for an exception nobody caught

verify_result_exit_code(result) ==
    IF result.ok THEN Verified ELSE IF result.quarantined THEN Quarantined ELSE Failed

taxonomy_failure(b, pin) == \E version \in pin : b.taxonomy # version

\* cmd_verify without --json.
TextExit(b, nonEmpty, strict, pin) ==
    LET result == verify_proof_bundle(b, nonEmpty, strict)
    IN CASE b.file \in {"missing", "not_json"} -> UsageError
         [] b.file = "not_utf8" -> Traceback
         [] b.file = "not_object" -> IF pin = {} THEN Quarantined ELSE Traceback
         [] b.file \in {"ok", "duplicate_key"} ->
            IF taxonomy_failure(b, pin) \/ result.raised = "schema" THEN Quarantined
            ELSE IF result.raised = "canonicalization" THEN Failed
            ELSE verify_result_exit_code(result)

\* Mutant: a quarantined bundle is let through with a note.
AdvisoryExit(b, strict) ==
    LET result == verify_proof_bundle(b, strict, strict)
    IN IF b.file \in {"ok", "duplicate_key"} /\ result.raised = none /\ (result.ok \/ result.quarantined)
       THEN 0 ELSE 2

\* python -m attestplane.verifier, which reads the bundle from its input.
ModuleExit(b, strict) ==
    LET result == verify_proof_bundle(b, strict, strict)
    IN CASE b.file = "not_utf8" -> Traceback
         [] b.file \in {"missing", "not_json", "not_object"} -> 2
         [] OTHER -> IF result.raised = "canonicalization" THEN Traceback
                     ELSE IF result.raised = none /\ result.ok THEN 0 ELSE 2

\* The probe stops at the first row it cannot read.
canonicalization_probe(b) ==
    LET k == first_with(b.events, "not_canonical")
        malformed == first_with(b.events, "malformed")
    IN b.arrays = "ok" /\ k # 0 /\ (malformed = 0 \/ k < malformed)

\* build_verify_json_outcome.
JsonExit(b, nonEmpty, strict, pin) ==
    LET result == verify_proof_bundle(b, nonEmpty, strict)
    IN CASE b.file \in {"missing", "not_utf8", "not_json", "duplicate_key"} -> UsageError
         [] b.file = "not_object" -> Quarantined
         [] b.file = "ok" ->
            IF taxonomy_failure(b, pin) THEN Quarantined
            ELSE IF canonicalization_probe(b) THEN Failed
            ELSE IF result.raised = "schema" THEN Quarantined
            ELSE IF result.raised = "canonicalization" THEN Failed
            ELSE verify_result_exit_code(result)

\* The codes of the reasons in the JSON report, which are derived anew from
\* the result; held is the bundle that is passed along, {} when it is not.
bundle_failure_reason(result, b, nonEmpty, held) ==
    LET When(test, reason) == IF test THEN <<reason>> ELSE <<>>
        primary == Head(result.reasons)
        signed_code == IF primary \in {"REQUIRED_FIELD_MISSING", "SIGNATURE_INVALID", "SIGNATURE_MISSING"}
                       THEN primary ELSE "SIGNATURE_INVALID"
        metadata == metadata_reason(b, nonEmpty)
        found == When(~chain_ok(b) \/ ~agreement(b), "CANONICAL_MISMATCH")
                 \o When(result.signed_reason # none, signed_code)
                 \o When(metadata # none, metadata)
                 \o When(~policy_ok(b), "STRUCTURE_INVALID")
                 \o When(~retention_ok(b), "STRUCTURE_INVALID")
                 \o When(\E h \in held : explicit_quarantine(h), "ANCHOR_INVALID")
    IN IF found = <<>> THEN <<"STRUCTURE_INVALID">> ELSE found

\* _anchoring_payload.
anchoring_payload(b, exit_code) ==
    IF exit_code = Quarantined \/ explicit_quarantine(b) THEN "quarantined"
    ELSE IF \/ \E a \in b.anchoring : a.status = "anchored"
            \/ b.anchoring = {} /\ b.anchor_ref
         THEN "verified" ELSE "absent"

\* build_auditor_export reads the bundle as it is: it verifies nothing.
auditor_anchor_status(b) ==
    IF b.anchoring = {} THEN IF b.anchor_ref THEN "anchored" ELSE "unanchored"
    ELSE (CHOOSE a \in b.anchoring : TRUE).status

-----------------------------------------------------------------------------
(* Properties, for every combination of options.                           *)

Pins == {{}, {"1"}}

\* Whatever was edited, a bundle that is accepted is closed: its rows are the
\* chain from its genesis on, its head, report and policy references are
\* those of its rows, its retention proofs speak of them, and with either
\* strict option so does a signature; a stricter caller accepts no more than
\* a lax one (verify_proof_bundle).
AcceptedIsClosed ==
    stage = "file" =>
        \A nonEmpty, strict \in BOOLEAN, pin \in Pins :
            TextExit(bundle, nonEmpty, strict, pin) = Verified =>
                /\ \A i \in DOMAIN bundle.events : bundle.events[i] = Row(i - 1)
                /\ bundle.head = Len(bundle.events) - 1 /\ bundle.report.ok
                /\ UNION {ToSet(l) : l \in bundle.refs} = Seqs(bundle) \intersect PolicySeqs
                /\ \A l \in bundle.retention_proofs : \A p \in ToSet(l) : p.ref \in Seqs(bundle)
                /\ (nonEmpty \/ strict) =>
                       \E l \in bundle.signatures : \E r \in ToSet(l) :
                           r.form = "ok" /\ r.seq < Len(bundle.events)
                /\ TextExit(bundle, FALSE, FALSE, {}) = Verified

\* A bundle nobody edited is accepted unless its builder was given something
\* else than a chain from its start, proofs of its events and an anchoring
\* that is not quarantined (ProofBundleBuilder.build, verify_proof_bundle).
BuiltBundlesVerify ==
    (stage = "file" /\ edits = 0
     /\ (\A i \in DOMAIN bundle.events : bundle.events[i].seq = i - 1)
     /\ (\A l \in bundle.retention_proofs : \A p \in ToSet(l) : p.ref < Len(bundle.events))
     /\ ~explicit_quarantine(bundle)) =>
        /\ TextExit(bundle, FALSE, FALSE, {"1"}) = Verified
        /\ (\E l \in bundle.signatures : \E r \in ToSet(l) : r.seq < Len(bundle.events))
               => JsonExit(bundle, TRUE, TRUE, {"1"}) = Verified

\* The module accepts what the text front end accepts, and the text and the
\* JSON front end exit alike, except on a file one of them cannot read and on
\* a row without canonical form: the JSON front end looks for one first, and
\* fails where the text front end may find a reason for quarantine (main,
\* cmd_verify, build_verify_json_outcome).
ExitsAgree ==
    stage = "file" =>
        \A nonEmpty, strict \in BOOLEAN, pin \in Pins :
            LET text == TextExit(bundle, nonEmpty, strict, pin)
                json == JsonExit(bundle, nonEmpty, strict, pin)
            IN  /\ nonEmpty = strict /\ pin = {} => (ModuleExit(bundle, strict) = 0) = (text = Verified)
                /\ \/ text = json
                   \/ bundle.file \in {"not_utf8", "duplicate_key"}
                   \/ bundle.file = "not_object" /\ pin # {}
                   \/ canonicalization_probe(bundle) /\ json = Failed /\ text = Quarantined

\* What the reports say of one bundle fits together: the reasons of the JSON
\* report start with its reason_code, its anchoring is the verifier's, and an
\* auditor export made from an accepted bundle says the same of its anchoring
\* (_bundle_failure_reason, _anchoring_payload, build_auditor_export).
ReportsAgree ==
    (stage = "file" /\ bundle.file = "ok") =>
        \A nonEmpty, strict \in BOOLEAN :
            LET result == verify_proof_bundle(bundle, nonEmpty, strict)
            IN result.raised = none =>
                   /\ ~result.ok =>
                          Head(bundle_failure_reason(result, bundle, nonEmpty, {bundle})) = Head(result.reasons)
                   /\ anchoring_payload(bundle, verify_result_exit_code(result)) = result.anchoring_status
                   /\ result.ok =>
                          (result.anchoring_status = "verified") = (auditor_anchor_status(bundle) = "anchored")

\* Whoever reads the bundle is told the same: by the exit codes, and by what
\* the reports say.
FrontEndsAgree == ExitsAgree /\ ReportsAgree

=============================================================================
