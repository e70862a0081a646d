----------------------------- MODULE AlphaEnvelope -----------------------------
(***************************************************************************)
(* The alpha ProofBundle envelope: one JSON file that holds a bundle and   *)
(* parts derived from it (artifact hash, chain head, obligation list,      *)
(* in-toto statement, DSSE payload), checked by cli/proofbundle_alpha.py.  *)
(* The parts are derived one by one, so after the bundle is built again    *)
(* some of them may still speak of the old one.                            *)
(*                                                                         *)
(* Of the bundle only what the checks read is kept: its identity (which    *)
(* the artifact hash stands for), what the lax verifier says of it, its    *)
(* metadata and its obligations.                                           *)
(***************************************************************************)
EXTENDS ProofBundle

CONSTANTS
    Signers,        \* keys of DSSE signatures
    MaxRebuilds     \* bound on how often the bundle is built again

VARIABLES
    envelope,
    rebuilds

evars == <<envelope, rebuilds>>

Parts == {"artifact", "hash_chain", "obligation_references", "in_toto_statement", "payload"}
Forms == Parts \union {"proof_bundle", "schema_version", "storage_compatibility", "provenance"}

\* An in-toto statement of held: its metadata and the rest of the predicate
\* (events, verification report, framework mappings, forbidden fields), which is
\* another one for every bundle, as the report holds the time it was made at.
Statement(held) == [metadata |-> held.metadata, rest |-> held.id]

\* What each part says when it is derived from held, or encoded from the
\* statement of e.
Derived(part, held, e) ==
    CASE part = "artifact" -> held.id
      [] part = "hash_chain" -> held.metadata.head
      [] part = "obligation_references" -> held.obligations
      [] part = "in_toto_statement" -> Statement(held)
      [] part = "payload" -> e.in_toto_statement

Held(id, verdict, metadata, obligations) ==
    [id |-> id, verdict |-> verdict, metadata |-> metadata, obligations |-> obligations]

Verdict(b) ==
    LET result == verify_proof_bundle(b, FALSE, FALSE)
    IN IF result.raised # none THEN result.raised ELSE IF result.ok THEN "ok" ELSE "rejected"

NoEnvelope ==
    LET held == Held(0, "ok", [head |-> -1, anchor_ref |-> FALSE], <<>>)
    IN [proof_bundle |-> held, artifact |-> 0, hash_chain |-> -1, obligation_references |-> <<>>,
        in_toto_statement |-> Statement(held), payload |-> Statement(held), broken |-> "none",
        signatures |-> <<>>, material |-> {}, anchor_records |-> <<>>]

EnvelopeInit == envelope = NoEnvelope /\ rebuilds = 0

\* The bundle is put into an envelope together with all its parts.
Seal ==
    /\ stage = "file" /\ bundle.file = "ok"
    /\ stage' = "envelope"
    /\ LET metadata == [head |-> bundle.head, anchor_ref |-> bundle.anchor_ref]
           held == Held(0, Verdict(bundle), metadata, <<>>)
       IN envelope' = [NoEnvelope EXCEPT !.proof_bundle = held, !.hash_chain = bundle.head,
                                         !.in_toto_statement = Statement(held),
                                         !.payload = Statement(held)]
    /\ bundle' = NoBundle /\ edits' = 0
    /\ UNCHANGED <<source, signed, builder, rebuilds>>

Enveloped == stage = "envelope" /\ UNCHANGED bvars

\* The bundle is built again from its chain: later in time, with one event, an
\* anchor reference or framework mappings more, which may name an obligation
\* twice or one that no registry has.
Rebuild ==
    /\ Enveloped
    /\ rebuilds < MaxRebuilds
    /\ rebuilds' = rebuilds + 1
    /\ LET held == envelope.proof_bundle
       IN \E head \in {held.metadata.head, held.metadata.head + 1},
             anchor_ref \in {held.metadata.anchor_ref, TRUE},
             more \in {<<>>, <<"known">>, <<"known", "known">>, <<"unknown">>} :
              envelope' = [envelope EXCEPT !.proof_bundle =
                  Held(rebuilds', "ok", [head |-> head, anchor_ref |-> anchor_ref],
                       held.obligations \o more)]

Refresh ==
    /\ Enveloped
    /\ \E part \in Parts :
           envelope' = [envelope EXCEPT ![part] = Derived(part, envelope.proof_bundle, envelope)]
    /\ UNCHANGED rebuilds

\* statement_to_dsse_envelope with a signature of the payload; the verifier
\* may hold the key or not.
SignPayload ==
    /\ Enveloped
    /\ envelope.signatures = <<>>
    /\ \E key \in Signers, material \in SUBSET Signers :
           envelope' = [envelope EXCEPT !.signatures = <<[keyid |-> key, over |-> envelope.payload]>>,
                                        !.material = material]
    /\ UNCHANGED rebuilds

AnchorDigest ==
    /\ Enveloped
    /\ envelope.anchor_records = <<>>
    /\ \E type \in {"rfc3161", "other"}, imprint \in {envelope.hash_chain, -2} :
           envelope' = [envelope EXCEPT !.anchor_records =
                            <<[anchor_type |-> type, digest |-> envelope.hash_chain, imprint |-> imprint]>>]
    /\ UNCHANGED rebuilds

\* One part loses the shape its check asks for.
Break ==
    /\ Enveloped
    /\ envelope.broken = "none"
    /\ \E part \in Forms : envelope' = [envelope EXCEPT !.broken = part]
    /\ UNCHANGED rebuilds

EnvelopeNext == Rebuild \/ Refresh \/ SignPayload \/ AnchorDigest \/ Break

-----------------------------------------------------------------------------
(* The checks; what a failing one reports.                                 *)

invalid_input == "invalid_input"
verification_failed == "verification_failed"

\* A part is read, then compared.
Compared(e, part, same) ==
    IF e.broken = part THEN {invalid_input} ELSE IF same THEN {} ELSE {verification_failed}

_check_proof_bundle(e) ==
    CASE e.broken = "proof_bundle" \/ e.proof_bundle.verdict = "schema" -> {invalid_input}
      [] OTHER -> IF e.proof_bundle.verdict = "ok" THEN {} ELSE {verification_failed}

\* Every obligation is known and declared once.
Declarable(refs) == IsInjective(refs) /\ "unknown" \notin ToSet(refs)

_check_obligation_refs(e) ==
    IF ~Declarable(e.obligation_references) THEN {invalid_input}
    ELSE Compared(e, "obligation_references", e.obligation_references = e.proof_bundle.obligations)

\* Of the statement only the digest of its subject and its metadata are
\* compared with the bundle.
_check_in_toto_statement(e) ==
    Compared(e, "in_toto_statement", e.in_toto_statement.metadata = e.proof_bundle.metadata)

\* Mutant: the payload is decoded but not compared with the statement.
_check_dsse_shape(e) == Compared(e, "payload", TRUE)

_check_dsse_envelope(e) == Compared(e, "payload", e.payload = e.in_toto_statement)

\* The first DSSE signature that its key, if the material has it, does not
\* verify over the payload; 0 when all do.
unverified(e) == SelectInSeq(e.signatures, LAMBDA s : s.keyid \notin e.material \/ s.over # e.payload)

_signature_extension(e) ==
    IF e.signatures = <<>> \/ e.material = {} \/ e.broken = "payload" THEN {invalid_input}
    ELSE IF unverified(e) = 0 THEN {}
    ELSE IF e.signatures[unverified(e)].keyid \notin e.material THEN {invalid_input}
    ELSE {verification_failed}

\* Some token is for another digest than the one it is recorded with.
mismatched(e) == \E r \in ToSet(e.anchor_records) : r.imprint # r.digest

_anchor_extension(e) ==
    IF e.anchor_records = <<>> \/ \E r \in ToSet(e.anchor_records) : r.anchor_type # "rfc3161"
    THEN {invalid_input}
    ELSE IF mismatched(e) THEN {verification_failed} ELSE {}

Failures(e, verify_signature, verify_anchor) ==
    LET metadata == e.proof_bundle.metadata
    IN UNION {IF e.broken \in {"schema_version", "storage_compatibility", "provenance"}
                 THEN {invalid_input} ELSE {},
              _check_proof_bundle(e),
              Compared(e, "artifact", e.artifact = e.proof_bundle.id),
              Compared(e, "hash_chain", e.hash_chain = metadata.head),
              _check_obligation_refs(e),
              _check_in_toto_statement(e),
              _check_dsse_envelope(e),
              IF verify_signature THEN _signature_extension(e) ELSE {},
              IF verify_anchor THEN _anchor_extension(e) ELSE {}}

\* A bundle without canonical form raises an error nobody catches.
AlphaExit(e, verify_signature, verify_anchor) ==
    LET failed == Failures(e, verify_signature, verify_anchor)
    IN IF e.broken # "proof_bundle" /\ e.proof_bundle.verdict = "canonicalization" THEN Traceback
       ELSE IF invalid_input \in failed THEN 2 ELSE IF failed # {} THEN 1 ELSE 0

-----------------------------------------------------------------------------
\* The parts of e that the alpha verifier compares are those of the bundle it
\* holds: all of them, except that of the statement only the metadata is.
Agrees(e) ==
    /\ \A part \in Parts \ {"in_toto_statement"} : e[part] = Derived(part, e.proof_bundle, e)
    /\ e.in_toto_statement.metadata = Statement(e.proof_bundle).metadata

\* The alpha verifier accepts an envelope exactly when these parts are those of
\* the bundle it now holds, which verifies and names every obligation once and
\* none that is unknown; with --verify-signature only if somebody it knows
\* signed its statement, and so the metadata of the bundle it now holds (the
\* rest of the statement may be that of a bundle built earlier), and with
\* --verify-anchor only if the token is for the digest it is recorded with
\* (verify_alpha_proofbundle_file).
AlphaDecides ==
    stage = "envelope" =>
        LET held == envelope.proof_bundle
        IN \A verify_signature, verify_anchor \in BOOLEAN :
               LET exit == AlphaExit(envelope, verify_signature, verify_anchor)
               IN /\ (~verify_signature /\ ~verify_anchor) =>
                         (exit = 0) = (/\ Agrees(envelope) /\ Declarable(held.obligations)
                                       /\ held.verdict = "ok" /\ envelope.broken = "none")
                  /\ exit = 0 =>
                         /\ Agrees(envelope)
                         /\ verify_signature =>
                                \E s \in ToSet(envelope.signatures) :
                                    /\ s.keyid \in envelope.material
                                    /\ s.over = envelope.in_toto_statement
                                    /\ s.over.metadata = held.metadata
                         /\ verify_anchor =>
                                \E r \in ToSet(envelope.anchor_records) : r.imprint = r.digest

=============================================================================
