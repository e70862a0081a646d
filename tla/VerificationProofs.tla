--------------------------- MODULE VerificationProofs ---------------------------
(***************************************************************************)
(* What the verifiers accept, for any evidence, any bundle and any edits.  *)
(* The invariants say what a list of evidence, a bundle and an envelope    *)
(* look like wherever they come from; from there each property follows     *)
(* from the checks of the verifier, which are pure.                        *)
(***************************************************************************)
EXTENDS Verification, FiniteSetTheorems, SequenceTheorems, WellFoundedInduction, TLAPS

-----------------------------------------------------------------------------
(* Sequences and the least of a set.                                       *)

\* Every set of naturals that is not empty has a least member.
LEMMA LeastOf ==
    ASSUME NEW T, T \subseteq Nat, T # {}
    PROVE  \E x \in T : \A y \in T : x <= y
<1> DEFINE R == OpToRel(<, Nat)
<1>1. IsWellFoundedOn(R, Nat)
  BY NatLessThanWellFounded
<1>2. \A x, y \in Nat : <<x, y>> \in R <=> x < y
  BY DEF OpToRel
<1> HIDE DEF R
<1>3. PICK x \in T : \A y \in T : ~ (<<y, x>> \in R)
  BY <1>1, WFMin
<1>4. ASSUME NEW y \in T
      PROVE  x <= y
  <2>1. x \in Nat /\ y \in Nat
    OBVIOUS
  <2>2. ~(y < x)
    BY <1>2, <1>3, <2>1
  <2>3. QED
    BY <2>1, <2>2
<1>5. QED
  BY <1>4

\* The operator Min finds it.
LEMMA MinIsIn ==
    ASSUME NEW T, T \subseteq Nat, T # {}
    PROVE  Min(T) \in T /\ \A y \in T : Min(T) <= y
<1>1. \E x \in T : \A y \in T : x =< y
  BY LeastOf
<1>2. QED
  BY <1>1 DEF Min

\* A sequence of its own elements.
Listed(s) == s \in Seq(ToSet(s))

\* A sequence over any set is one of its own elements.
LEMMA ListedElements ==
    ASSUME NEW S, NEW s \in Seq(S)
    PROVE  /\ Listed(s) /\ Len(s) \in Nat /\ DOMAIN s = 1..Len(s)
           /\ ToSet(s) \subseteq S
           /\ \A x : x \in ToSet(s) <=> \E i \in 1..Len(s) : x = s[i]
BY DEF Listed, ToSet

\* Append adds one element.
LEMMA AppendListed ==
    ASSUME NEW s, Listed(s), NEW x
    PROVE  Listed(Append(s, x)) /\ ToSet(Append(s, x)) = ToSet(s) \union {x}
<1>1. s \in Seq(ToSet(s) \union {x})
  BY DEF Listed
<1>2. Append(s, x) \in Seq(ToSet(s) \union {x})
  BY <1>1
<1>3. ToSet(Append(s, x)) = ToSet(s) \union {x}
  <2>1. /\ DOMAIN s = 1..Len(s) /\ Len(s) \in Nat
        /\ DOMAIN Append(s, x) = 1..Len(s) + 1
        /\ \A i \in 1..Len(s) : Append(s, x)[i] = s[i]
        /\ Append(s, x)[Len(s) + 1] = x
    BY <1>1, <1>2
  <2>2. QED
    BY <2>1 DEF ToSet
<1>4. QED
  BY <1>2, <1>3 DEF Listed

-----------------------------------------------------------------------------
(* The alpha envelope.                                                     *)

Single(s) == s = <<>> \/ s = <<s[1]>>

\* A list of one.
LEMMA SingleElement ==
    ASSUME NEW s, s = <<s[1]>>
    PROVE  Len(s) = 1 /\ ToSet(s) = {s[1]}
<1> DEFINE x == s[1]
<1> HIDE DEF x
<1>1. s = <<x>>
  BY DEF x
<1>2. Len(<<x>>) = 1 /\ DOMAIN <<x>> = {1} /\ <<x>>[1] = x
  OBVIOUS
<1>3. ToSet(<<x>>) = {x}
  BY <1>2, Zenon DEF ToSet
<1>4. QED
  BY <1>1, <1>2, <1>3 DEF x

EnvelopeShape ==
    /\ envelope = [f \in DOMAIN NoEnvelope |-> envelope[f]]
    /\ envelope.broken \in Forms \union {"none"}
    /\ Single(envelope.signatures) /\ Single(envelope.anchor_records)

\* The envelope has its fields, and at most one signature and one anchor record.
LEMMA ShapeAtFirst == EnvelopeInit => EnvelopeShape
<1>1. NoEnvelope = [f \in DOMAIN NoEnvelope |-> NoEnvelope[f]]
  BY DEF NoEnvelope
<1>2. NoEnvelope.broken = "none" /\ NoEnvelope.signatures = <<>> /\ NoEnvelope.anchor_records = <<>>
  BY DEF NoEnvelope
<1>3. QED
  BY <1>1, <1>2 DEF EnvelopeInit, EnvelopeShape, Single

\* Every step keeps that shape.
LEMMA ShapeKept == EnvelopeShape /\ [VerificationNext]_allvars => EnvelopeShape'
<1> SUFFICES ASSUME EnvelopeShape, [VerificationNext]_allvars PROVE EnvelopeShape'
  OBVIOUS
<1> USE DEF EnvelopeShape
<1>1. CASE Seal
  <2>1. PICK held, head, statement :
            envelope' = [NoEnvelope EXCEPT !.proof_bundle = held, !.hash_chain = head,
                                           !.in_toto_statement = statement, !.payload = statement]
    BY <1>1, Zenon DEF Seal
  <2>2. QED
    BY <2>1 DEF NoEnvelope, Single
<1>2. CASE Rebuild
  <2>1. PICK held : envelope' = [envelope EXCEPT !.proof_bundle = held]
    BY <1>2 DEF Rebuild
  <2>2. QED
    BY <2>1 DEF NoEnvelope
<1>3. CASE Refresh
  <2>1. PICK part \in Parts : envelope' = [envelope EXCEPT ![part] =
                                               Derived(part, envelope.proof_bundle, envelope)]
    BY <1>3 DEF Refresh
  <2>2. QED
    BY <2>1 DEF NoEnvelope, Parts
<1>4. CASE SignPayload
  <2>1. PICK s, material : envelope' = [envelope EXCEPT !.signatures = <<s>>, !.material = material]
    BY <1>4 DEF SignPayload
  <2>2. QED
    BY <2>1 DEF NoEnvelope, Single
<1>5. CASE AnchorDigest
  <2>1. PICK r : envelope' = [envelope EXCEPT !.anchor_records = <<r>>]
    BY <1>5 DEF AnchorDigest
  <2>2. QED
    BY <2>1 DEF NoEnvelope, Single
<1>6. CASE Break
  <2>1. PICK part \in Forms : envelope' = [envelope EXCEPT !.broken = part]
    BY <1>6 DEF Break
  <2>2. QED
    BY <2>1 DEF NoEnvelope
<1>7. CASE UNCHANGED envelope
  BY <1>7
<1>8. QED
  BY <1>1, <1>2, <1>3, <1>4, <1>5, <1>6, <1>7
     DEF VerificationNext, EnvelopeNext, allvars, evars, Collect, Export

\* When none of its signatures is unverified, one that is there verifies.
LEMMA SignatureVerifies ==
    ASSUME NEW e, Single(e.signatures), _signature_extension(e) = {}
    PROVE  \E s \in ToSet(e.signatures) : s.keyid \in e.material /\ s.over = e.payload
<1> DEFINE bad == {i \in 1..Len(e.signatures) :
                      e.signatures[i].keyid \notin e.material \/ e.signatures[i].over # e.payload}
<1>1. e.signatures # <<>> /\ unverified(e) = 0
  BY DEF _signature_extension, invalid_input, verification_failed
<1>2. unverified(e) = IF bad # {} THEN Min(bad) ELSE 0
  BY Zenon DEF unverified, SelectInSeq
<1>3. Len(e.signatures) = 1 /\ ToSet(e.signatures) = {e.signatures[1]}
  BY <1>1, SingleElement DEF Single
<1>4. bad = {}
  BY <1>1, <1>2, <1>3, MinIsIn
<1>5. QED
  BY <1>3, <1>4

\* The alpha verifier accepts exactly the envelopes whose compared parts are
\* those of the bundle they now hold, whose obligations are known and declared
\* once (verify_alpha_proofbundle_file), in whatever order the bundle was
\* rebuilt and the parts were refreshed, signed and anchored.  What a checked
\* signature is over is the statement, and through it the bundle's metadata.
THEOREM AlphaVerifierDecides == VerificationSpec => []AlphaDecides
<1>1. VerificationInit => EnvelopeShape
  BY ShapeAtFirst DEF VerificationInit
<1>2. EnvelopeShape => AlphaDecides
  <2> DEFINE held == envelope.proof_bundle
             Decided(verify_signature, verify_anchor) ==
                 LET exit == AlphaExit(envelope, verify_signature, verify_anchor)
                 IN /\ (~verify_signature /\ ~verify_anchor) =>
                          (exit = 0) = (/\ Agrees(envelope) /\ Declarable(held.obligations)
                                        /\ held.verdict = "ok" /\ envelope.broken = "none")
                    /\ exit = 0 =>
                          /\ Agrees(envelope)
                          /\ verify_signature =>
                                 \E s \in ToSet(envelope.signatures) :
                                     /\ s.keyid \in envelope.material
                                     /\ s.over = envelope.in_toto_statement
                                     /\ s.over.metadata = held.metadata
                          /\ verify_anchor =>
                                 \E r \in ToSet(envelope.anchor_records) : r.imprint = r.digest
  <2> SUFFICES ASSUME EnvelopeShape,
                      NEW verify_signature \in BOOLEAN, NEW verify_anchor \in BOOLEAN
               PROVE  Decided(verify_signature, verify_anchor)
    BY Zenon DEF AlphaDecides
  <2> DEFINE failed == Failures(envelope, verify_signature, verify_anchor)
             exit == AlphaExit(envelope, verify_signature, verify_anchor)
             Plain == /\ Agrees(envelope) /\ Declarable(held.obligations)
                      /\ held.verdict = "ok" /\ envelope.broken = "none"
  <2>1. exit = 0 <=> failed = {} /\ ~(envelope.broken # "proof_bundle" /\ held.verdict = "canonicalization")
    BY DEF AlphaExit, Traceback
  <2>2. Agrees(envelope) <=> /\ envelope.artifact = held.id
                             /\ envelope.hash_chain = held.metadata.head
                             /\ envelope.obligation_references = held.obligations
                             /\ envelope.in_toto_statement.metadata = held.metadata
                             /\ envelope.payload = envelope.in_toto_statement
    BY DEF Agrees, Parts, Derived, Statement
  <2>3. failed = {} <=>
            /\ envelope.broken \notin {"schema_version", "storage_compatibility", "provenance"}
            /\ _check_proof_bundle(envelope) = {}
            /\ Compared(envelope, "artifact", envelope.artifact = held.id) = {}
            /\ Compared(envelope, "hash_chain", envelope.hash_chain = held.metadata.head) = {}
            /\ _check_obligation_refs(envelope) = {}
            /\ Compared(envelope, "in_toto_statement", envelope.in_toto_statement.metadata = held.metadata) = {}
            /\ Compared(envelope, "payload", envelope.payload = envelope.in_toto_statement) = {}
            /\ verify_signature => _signature_extension(envelope) = {}
            /\ verify_anchor => _anchor_extension(envelope) = {}
    BY DEF Failures, _check_dsse_envelope, _check_in_toto_statement
  <2>4. _check_proof_bundle(envelope) = {} <=> envelope.broken # "proof_bundle" /\ held.verdict = "ok"
    BY DEF _check_proof_bundle, invalid_input, verification_failed
  <2>5. ASSUME NEW part, NEW same \in BOOLEAN
        PROVE  Compared(envelope, part, same) = {} <=> envelope.broken # part /\ same
    BY <2>5 DEF Compared, invalid_input, verification_failed
  <2>10. _check_obligation_refs(envelope) = {} <=>
             /\ envelope.broken # "obligation_references"
             /\ Declarable(held.obligations) /\ envelope.obligation_references = held.obligations
    <3>1. _check_obligation_refs(envelope) = {} <=>
              /\ Declarable(envelope.obligation_references)
              /\ Compared(envelope, "obligation_references",
                          envelope.obligation_references = held.obligations) = {}
      BY DEF _check_obligation_refs, invalid_input
    <3> HIDE DEF held
    <3>2. QED
      BY <2>5, <3>1
  <2>6. failed = {} <=> /\ Plain
                        /\ verify_signature => _signature_extension(envelope) = {}
                        /\ verify_anchor => _anchor_extension(envelope) = {}
    BY <2>2, <2>3, <2>4, <2>5, <2>10 DEF EnvelopeShape, Forms, Parts
  <2>7. ASSUME _anchor_extension(envelope) = {}
        PROVE  \E r \in ToSet(envelope.anchor_records) : r.imprint = r.digest
    <3>1. envelope.anchor_records # <<>> /\ ~mismatched(envelope)
      BY <2>7 DEF _anchor_extension, invalid_input, verification_failed
    <3>2. envelope.anchor_records = <<envelope.anchor_records[1]>>
      BY <3>1 DEF EnvelopeShape, Single
    <3>3. ToSet(envelope.anchor_records) = {envelope.anchor_records[1]}
      BY <3>2, SingleElement
    <3>4. QED
      BY <3>1, <3>3 DEF mismatched
  <2>8. exit = 0 <=> failed = {}
    BY <2>1, <2>6
  <2>9. QED
    BY <2>2, <2>6, <2>7, <2>8, SignatureVerifies DEF EnvelopeShape
<1>3. QED
  BY <1>1, <1>2, ShapeKept, PTL DEF VerificationSpec

-----------------------------------------------------------------------------
(* What a bundle looks like, whoever had it in hand.                       *)

Rows == [seq : Nat, form : {"ok", "malformed", "not_canonical"}]
SignatureForms == [seq : Nat, form : {"ok", "no_field", "malformed"}]
ProofForms == [id : {1}, ref : Nat, form : {"ok", "malformed"}]

NewRows == [seq : Nat, form : {"ok"}]
NewSignatures == [seq : Nat, form : {"ok"}]
NewProofs == [id : {1}, ref : Nat, form : {"ok"}]

Builders == [events : Seq(NewRows), signatures : Seq(NewSignatures),
             retention_proofs : {<<>>} \union {<<p>> : p \in NewProofs}]

Files == {"ok", "missing", "not_utf8", "not_json", "duplicate_key", "not_object"}

BundleShape(b) ==
    /\ b = [f \in DOMAIN NoBundle |-> b[f]]
    /\ b.file \in Files /\ b.schema \in {"known", "missing", "text", "unknown"}
    /\ b.events \in Seq(Rows)
    /\ \A l \in b.signatures : l \in Seq(SignatureForms)
    /\ \A l \in b.retention_proofs : l \in Seq(ProofForms)
    /\ \A a, c \in b.anchoring : a = c

\* Nobody has edited the file since it was built.
AsBuilt ==
    \E from \in Builders, anchoring \in {{}} \union {{a} : a \in Anchorings}, anchor_ref \in BOOLEAN :
        bundle = Built(from, anchoring, anchor_ref)

BundleInv ==
    /\ source \in Nat /\ edits \in Nat /\ signed \in Seq(Nat)
    /\ builder \in Builders
    /\ BundleShape(bundle)
    /\ stage = "file" /\ edits = 0 => AsBuilt

\* The fields of a bundle.
LEMMA NoBundleFields ==
    /\ NoBundle = [f \in DOMAIN NoBundle |-> NoBundle[f]]
    /\ DOMAIN NoBundle = {"file", "fields", "critical", "version", "arrays", "method", "redaction",
                          "events", "head", "report", "schema", "genesis", "taxonomy", "refs",
                          "signatures", "retention_proofs", "anchoring", "anchor_ref"}
    /\ NoBundle.file = "ok" /\ NoBundle.schema = "known" /\ NoBundle.events = <<>> /\ NoBundle.signatures = {}
    /\ NoBundle.retention_proofs = {} /\ NoBundle.anchoring = {}
BY DEF NoBundle

\* A bundle has that shape before there is one.
LEMMA NoBundleShape == BundleShape(NoBundle)
BY NoBundleFields DEF BundleShape, Files

\* build() returns a bundle.
LEMMA BuiltShape ==
    ASSUME NEW from \in Builders, NEW anchoring \in {{}} \union {{a} : a \in Anchorings},
           NEW anchor_ref \in BOOLEAN
    PROVE  BundleShape(Built(from, anchoring, anchor_ref))
<1> DEFINE b == Built(from, anchoring, anchor_ref)
<1>0. b = Built(from, anchoring, anchor_ref)
  OBVIOUS
<1> HIDE DEF b
<1>1. /\ b = [f \in DOMAIN NoBundle |-> b[f]]
      /\ b.file = "ok" /\ b.schema = "known" /\ b.events = from.events
      /\ b.signatures = Optional(from.signatures)
      /\ b.retention_proofs = Optional(from.retention_proofs) /\ b.anchoring = anchoring
  BY <1>0 DEF Built, NoBundle
<1>2. from.events \in Seq(NewRows) /\ from.signatures \in Seq(NewSignatures)
      /\ from.retention_proofs \in {<<>>} \union {<<p>> : p \in NewProofs}
  BY DEF Builders
<1>3. from.events \in Seq(Rows) /\ from.signatures \in Seq(SignatureForms)
  <2>1. NewRows \subseteq Rows /\ NewSignatures \subseteq SignatureForms
    BY DEF NewRows, Rows, NewSignatures, SignatureForms
  <2>2. QED
    BY <1>2, <2>1
<1>4. from.retention_proofs \in Seq(ProofForms)
  <2>1. CASE from.retention_proofs = <<>>
    BY <2>1
  <2>2. ASSUME NEW p \in NewProofs, from.retention_proofs = <<p>>
        PROVE  from.retention_proofs \in Seq(ProofForms)
    <3>1. p \in ProofForms
      BY DEF NewProofs, ProofForms
    <3>2. QED
      BY <2>2, <3>1
  <2>3. QED
    BY <1>2, <2>1, <2>2
<1>5. \A a, c \in anchoring : a = c
  OBVIOUS
<1>6. BundleShape(b)
  BY <1>1, <1>3, <1>4, <1>5 DEF BundleShape, Optional, Files
<1>7. QED
  BY <1>0, <1>6

\* An edit of a list leaves a list.
LEMMA FormKept ==
    ASSUME NEW S, NEW list \in Seq(S), NEW form, \A x \in S : [x EXCEPT !.form = form] \in S
    PROVE  WithForm(list, form) \subseteq Seq(S)
<1>1. CASE list = <<>>
  BY <1>1 DEF WithForm
<1>2. CASE list # <<>>
  <2>1. 1 \in DOMAIN list /\ Len(list) \in DOMAIN list /\ list \in [1..Len(list) -> S]
    BY <1>2
  <2>2. ASSUME NEW i \in DOMAIN list
        PROVE  [list EXCEPT ![i].form = form] \in Seq(S)
    <3>1. [list EXCEPT ![i].form = form] = [list EXCEPT ![i] = [list[i] EXCEPT !.form = form]]
      OBVIOUS
    <3>2. list[i] \in S
      BY <2>1
    <3>3. QED
      BY <3>1, <3>2
  <2>3. QED
    BY <1>2, <2>1, <2>2 DEF WithForm
<1>3. QED
  BY <1>1, <1>2

\* An edit of one field keeps the shape of the bundle.
LEMMA EditKeepsShape ==
    ASSUME NEW b, BundleShape(b), NEW f \in DOMAIN Alternatives(b), NEW v \in Alternatives(b)[f]
    PROVE  BundleShape([b EXCEPT ![f] = v])
<1> DEFINE c == [b EXCEPT ![f] = v]
<1>1. f \in DOMAIN NoBundle
  BY NoBundleFields DEF Alternatives
<1>2. /\ c = [g \in DOMAIN NoBundle |-> c[g]]
      /\ \A g \in DOMAIN NoBundle : g # f => c[g] = b[g]
      /\ c[f] = v
  BY <1>1 DEF BundleShape
<1> HIDE DEF c
<1>3. f = "file" => v \in Files
  BY DEF Alternatives, Files
<1>9. f = "schema" => v \in {"known", "missing", "text", "unknown"}
  BY DEF Alternatives
<1>4. f = "events" => v \in Seq(Rows)
  <2> SUFFICES ASSUME f = "events" PROVE v \in Seq(Rows)
    OBVIOUS
  <2>1. v \in (UNION {WithForm(b.events, g) : g \in {"malformed", "not_canonical"}})
              \union {Front(l) : l \in Optional(b.events)} \union {Tail(l) : l \in Optional(b.events)}
    BY DEF Alternatives
  <2>2. \/ \E g \in {"malformed", "not_canonical"} : v \in WithForm(b.events, g)
        \/ \E l \in Optional(b.events) : v = Front(l)
        \/ \E l \in Optional(b.events) : v = Tail(l)
    <3> DEFINE F == {Front(l) : l \in Optional(b.events)}
               T == {Tail(l) : l \in Optional(b.events)}
               W == UNION {WithForm(b.events, g) : g \in {"malformed", "not_canonical"}}
    <3>1. v \in W \/ v \in F \/ v \in T
      BY <2>1
    <3>2. v \in F => \E l \in Optional(b.events) : v = Front(l)
      BY Zenon
    <3>3. v \in T => \E l \in Optional(b.events) : v = Tail(l)
      BY Zenon
    <3>4. v \in W => \E g \in {"malformed", "not_canonical"} : v \in WithForm(b.events, g)
      BY Zenon
    <3>5. QED
      BY <3>1, <3>2, <3>3, <3>4
  <2>3. b.events \in Seq(Rows)
    BY DEF BundleShape
  <2>4. \A g \in {"malformed", "not_canonical"} : WithForm(b.events, g) \subseteq Seq(Rows)
    BY <2>3, FormKept DEF Rows
  <2>5. \A l \in Optional(b.events) : Front(l) \in Seq(Rows) /\ Tail(l) \in Seq(Rows)
    <3> SUFFICES ASSUME b.events # <<>>
                 PROVE  Front(b.events) \in Seq(Rows) /\ Tail(b.events) \in Seq(Rows)
      BY DEF Optional
    <3>1. Tail(b.events) \in Seq(Rows)
      BY <2>3
    <3>2. Len(b.events) - 1 \in Nat /\ Len(b.events) - 1 <= Len(b.events)
      BY <2>3
    <3>3. Front(b.events) \in Seq(Rows)
      BY <2>3, <3>2, SubSeqProperties DEF Front
    <3>4. QED
      BY <3>1, <3>3
  <2>6. QED
    BY <2>2, <2>4, <2>5
<1>5. f = "signatures" => \A l \in v : l \in Seq(SignatureForms)
  <2> SUFFICES ASSUME f = "signatures" PROVE \A l \in v : l \in Seq(SignatureForms)
    OBVIOUS
  <2>1. v \in {{}, {<<>>}} \union
         UNION {{{l} : l \in WithForm(k, "no_field") \union WithForm(k, "malformed")} : k \in b.signatures}
    BY DEF Alternatives
  <2>3. \/ v = {} \/ v = {<<>>}
        \/ \E k \in b.signatures :
              \E l \in WithForm(k, "no_field") \union WithForm(k, "malformed") : v = {l}
    BY <2>1, Zenon
  <2>2. ASSUME NEW k \in b.signatures
        PROVE  WithForm(k, "no_field") \union WithForm(k, "malformed") \subseteq Seq(SignatureForms)
    <3>1. \A form \in {"no_field", "malformed"}, x \in SignatureForms :
              [x EXCEPT !.form = form] \in SignatureForms
      BY DEF SignatureForms
    <3>2. QED
      BY <3>1, FormKept DEF BundleShape
  <2>4. <<>> \in Seq(SignatureForms)
    OBVIOUS
  <2>5. QED
    BY <2>2, <2>3, <2>4, Zenon
<1>6. f = "retention_proofs" => \A l \in v : l \in Seq(ProofForms)
  <2> SUFFICES ASSUME f = "retention_proofs" PROVE \A l \in v : l \in Seq(ProofForms)
    OBVIOUS
  <2>1. v \in UNION {{{Twice(l)}} \union {{k} : k \in WithForm(l, "malformed")} : l \in b.retention_proofs}
    BY DEF Alternatives
  <2>2. ASSUME NEW l \in b.retention_proofs
        PROVE  Twice(l) \in Seq(ProofForms) /\ WithForm(l, "malformed") \subseteq Seq(ProofForms)
    <3>1. \A x \in ProofForms : [x EXCEPT !.form = "malformed"] \in ProofForms
      BY DEF ProofForms
    <3>2. l \in Seq(ProofForms)
      BY DEF BundleShape
    <3>3. WithForm(l, "malformed") \subseteq Seq(ProofForms)
      BY <3>1, <3>2, FormKept
    <3>4. QED
      BY <3>2, <3>3 DEF Twice
  <2>3. QED
    BY <2>1, <2>2
<1>7. f = "anchoring" => \A a, d \in v : a = d
  <2> SUFFICES ASSUME f = "anchoring" PROVE \A a, d \in v : a = d
    OBVIOUS
  <2>1. v \in {{[status |-> "anchored", quarantined |-> TRUE]},
                {[status |-> "other", quarantined |-> FALSE]}}
    BY Zenon DEF Alternatives
  <2>2. QED
    BY <2>1
<1>8. QED
  BY <1>2, <1>3, <1>4, <1>5, <1>6, <1>7, <1>9, NoBundleFields DEF BundleShape, c

-----------------------------------------------------------------------------
(* The evidence is kept in lists of records.                               *)

Answers(s) == Listed(s) /\ \A r \in ToSet(s) : r.status \in {"good", "revoked", "unknown"}

\* A TSA stamps the event; the answers about its leaf are signed by the issuer
\* of the leaf or carry the certificate of whoever signed them.
AnswersFor(leaf, ocsp) == \A r \in ToSet(ocsp) : r.about = leaf /\ r.by \in {"embedded", leaf.by}

Stamped(a) == a.provider \in {"tsa", "http"} => a.imprint = a.event /\ AnswersFor(a.leaf, a.ocsp)

ListedAnchor(a) == a.seq \in Nat /\ Listed(a.chain) /\ Answers(a.ocsp) /\ Stamped(a)

EvidenceInv ==
    /\ Listed(events) /\ Listed(anchors) /\ Listed(records)
    /\ \A a \in ToSet(anchors) : ListedAnchor(a)
    /\ \A r \in ToSet(records) : r.seq \in Nat

\* The empty list.
LEMMA EmptyIsListed == Listed(<<>>) /\ ToSet(<<>>) = {}
BY DEF Listed, ToSet

\* Storing an anchor keeps them.
LEMMA StoreKeeps ==
    ASSUME EvidenceInv, NEW a, Store(a), ListedAnchor(a)
    PROVE  EvidenceInv'
<1>1. Listed(Append(anchors, a)) /\ ToSet(Append(anchors, a)) = ToSet(anchors) \union {a}
  BY AppendListed DEF EvidenceInv
<1>2. anchors' = Append(anchors, a) /\ UNCHANGED <<events, records>>
  BY DEF Store
<1>3. Listed(events)' /\ Listed(records)' /\ ToSet(records)' = ToSet(records)
  BY <1>2 DEF EvidenceInv, Listed, ToSet
<1>4. Listed(anchors') /\ ToSet(anchors') = ToSet(anchors) \union {a}
  BY <1>1, <1>2
<1>5. QED
  BY <1>3, <1>4 DEF EvidenceInv

\* What a provider's record holds.
LEMMA RecordListed ==
    ASSUME NEW s \in Nat, NEW provider, NEW leaf, NEW chain, NEW ocsp, Listed(chain), Answers(ocsp),
           provider \in {"tsa", "http"} => AnswersFor(leaf, ocsp)
    PROVE  ListedAnchor(Record(s, provider, leaf, chain, ocsp))
BY DEF Record, ListedAnchor, Stamped

\* What a TSA sends about its leaf is a list of answers for it.
LEMMA OcspAnswersListed ==
    ASSUME NEW leaf, NEW ocsp \in OcspAnswers(leaf)
    PROVE  Answers(ocsp) /\ AnswersFor(leaf, ocsp)
<1> DEFINE good == Response(leaf, "good", leaf.by, now)
           revoked == Response(leaf, "revoked", leaf.by, now)
           unknown == Response(leaf, "unknown", leaf.by, now)
           own == [Response(leaf, "good", "embedded", now) EXCEPT !.until = {}]
           all == {good, revoked, unknown, own}
<1>1. \A r \in all : /\ r.status \in {"good", "revoked", "unknown"}
                     /\ r.about = leaf /\ r.by \in {"embedded", leaf.by}
  BY DEF Response
<1>2. ocsp \in {<<good>>, <<good, revoked>>, <<unknown>>, <<own>>}
  BY Zenon DEF OcspAnswers
<1> HIDE DEF good, revoked, unknown, own
<1>3. ocsp \in Seq(all)
  <2>1. <<good>> \in Seq(all) /\ <<unknown>> \in Seq(all) /\ <<own>> \in Seq(all)
    OBVIOUS
  <2>2. <<good, revoked>> \in Seq(all)
    OBVIOUS
  <2>3. QED
    BY <1>2, <2>1, <2>2
<1> HIDE DEF all
<1>4. Listed(ocsp) /\ ToSet(ocsp) \subseteq all
  BY <1>3, ListedElements
<1>5. QED
  BY <1>1, <1>4 DEF Answers, AnswersFor

\* Every step keeps the lists of evidence.
LEMMA EvidenceKept == EvidenceInv /\ [VerificationNext]_allvars => EvidenceInv'
<1> SUFFICES ASSUME EvidenceInv, [VerificationNext]_allvars PROVE EvidenceInv'
  OBVIOUS
<1>0. ASSUME NEW x PROVE Listed(<<x>>)
  BY DEF Listed, ToSet
<1>11. ASSUME NEW leaf, NEW by, NEW from
       PROVE  /\ Answers(<<Response(leaf, "good", by, from)>>)
              /\ \A r \in ToSet(<<Response(leaf, "good", by, from)>>) : r.about = leaf /\ r.by = by
  <2> DEFINE x == Response(leaf, "good", by, from)
  <2>1. x.status = "good" /\ x.about = leaf /\ x.by = by
    BY DEF Response
  <2> HIDE DEF x
  <2>2. Listed(<<x>>) /\ ToSet(<<x>>) = {x}
    <3>1. <<x>>[1] = x
      OBVIOUS
    <3>2. QED
      BY <1>0, <3>1, SingleElement
  <2>3. Answers(<<x>>) /\ \A r \in ToSet(<<x>>) : r.about = leaf /\ r.by = by
    BY <2>1, <2>2 DEF Answers
  <2>4. QED
    BY <2>3 DEF x
<1>1. CASE AppendEvent
  <2>1. events' = Append(events, made + 1) /\ UNCHANGED <<anchors, records>>
    BY <1>1 DEF AppendEvent
  <2>2. Listed(events')
    BY <2>1, AppendListed DEF EvidenceInv
  <2>3. QED
    BY <2>1, <2>2 DEF EvidenceInv
<1>2. CASE Restore
  <2>1. events # <<>> /\ events' = SubSeq(events, 1, Len(events) - 1) /\ UNCHANGED <<anchors, records>>
    BY <1>2 DEF Restore, Front
  <2>2. events' \in Seq(ToSet(events))
    BY <2>1, SubSeqProperties, ListedElements DEF EvidenceInv, Listed
  <2>3. Listed(events')
    BY <2>2, ListedElements
  <2>4. QED
    BY <2>1, <2>3 DEF EvidenceInv
<1>3. CASE UNCHANGED <<events, anchors, records>>
  BY <1>3 DEF EvidenceInv
<1>4. ASSUME NEW s \in 0..Len(events) - 1, TsaAnchors(s)
      PROVE  EvidenceInv'
  <2>1. PICK issue \in Issuances : \E x \in OcspAnswers(issue.leaf) :
            Store(Record(s, "tsa", issue.leaf, issue.chain, x))
    BY <1>4, Zenon DEF TsaAnchors
  <2>2. PICK ocsp \in OcspAnswers(issue.leaf) : Store(Record(s, "tsa", issue.leaf, issue.chain, ocsp))
    BY <2>1
  <2>3. Listed(issue.chain)
    BY EvidenceAssumption DEF Listed
  <2>4. s \in Nat
    BY ListedElements DEF EvidenceInv, Listed
  <2>5. QED
    BY <2>2, <2>3, <2>4, OcspAnswersListed, RecordListed, StoreKeeps
<1>5. ASSUME NEW s \in 0..Len(events) - 1, HttpAnchors(s)
      PROVE  EvidenceInv'
  <2> DEFINE Responses(leaf, fresh) == IF fresh THEN <<Response(leaf, "good", leaf.by, 0)>> ELSE <<>>
  <2>1. PICK leaf \in Leaves, fresh \in BOOLEAN, roots \in {<<>>} \union UNION TrustLists :
            Store(Record(s, "http", leaf, <<leaf>> \o roots, Responses(leaf, fresh)))
    <3>1. PICK leaf \in Leaves, trust \in TrustLists, fresh \in BOOLEAN :
              IF trust = {} THEN Store(Record(s, "http", leaf, <<leaf>> \o <<>>, Responses(leaf, fresh)))
              ELSE \E roots \in trust :
                      Store(Record(s, "http", leaf, <<leaf>> \o roots, Responses(leaf, fresh)))
      BY <1>5, Zenon DEF HttpAnchors
    <3>2. QED
      BY <3>1, Zenon
  <2>2. Listed(<<leaf>> \o roots)
    <3>1. roots \in Seq(ToSet(roots) \union {leaf}) /\ <<leaf>> \in Seq(ToSet(roots) \union {leaf})
      <4>1. roots \in Seq(ToSet(roots))
        BY EvidenceAssumption, EmptyIsListed DEF Listed
      <4>2. QED
        BY <4>1
    <3>2. <<leaf>> \o roots \in Seq(ToSet(roots) \union {leaf})
      BY <3>1, ConcatProperties
    <3>3. QED
      BY <3>2, ListedElements
  <2>3. /\ Answers(Responses(leaf, fresh))
        /\ AnswersFor(leaf, Responses(leaf, fresh))
    BY <1>11, EmptyIsListed DEF Answers, AnswersFor
  <2>4. s \in Nat
    BY ListedElements DEF EvidenceInv, Listed
  <2>5. QED
    BY <2>1, <2>2, <2>3, <2>4, RecordListed, StoreKeeps
<1>6. ASSUME NEW s \in 0..Len(events) - 1, RekorAnchors(s)
      PROVE  EvidenceInv'
  <2>1. PICK log, signer \in Logs :
            Store(Record(s, "rekor", signer, <<log>>, <<Response(log, "good", "embedded", now)>>))
    BY <1>6 DEF RekorAnchors
  <2>2. s \in Nat
    BY ListedElements DEF EvidenceInv, Listed
  <2>3. QED
    BY <1>0, <1>11, <2>1, <2>2, RecordListed, StoreKeeps
<1>7. ASSUME NEW s \in 0..Len(events) - 1, MockAnchors(s)
      PROVE  EvidenceInv'
  <2> DEFINE r == Record(s, "mock", MockCert, <<MockCert>>, <<Response(MockCert, "good", "embedded", now)>>)
  <2>1. PICK zone : Store([r EXCEPT !.imprint = 0, !.zone = zone])
    BY <1>7, Zenon DEF MockAnchors
  <2>2. s \in Nat
    BY ListedElements DEF EvidenceInv, Listed
  <2>3. ListedAnchor([r EXCEPT !.imprint = 0, !.zone = zone])
    <3>1. /\ [r EXCEPT !.imprint = 0, !.zone = zone].seq = s
          /\ [r EXCEPT !.imprint = 0, !.zone = zone].chain = <<MockCert>>
          /\ [r EXCEPT !.imprint = 0, !.zone = zone].ocsp = <<Response(MockCert, "good", "embedded", now)>>
          /\ [r EXCEPT !.imprint = 0, !.zone = zone].provider = "mock"
      BY DEF Record
    <3>2. QED
      BY <1>0, <1>11, <2>2, <3>1 DEF ListedAnchor, Stamped
  <2>4. QED
    BY <2>1, <2>3, StoreKeeps
<1>8. ASSUME NEW s \in 0..Len(events) - 1, Sign(s)
      PROVE  EvidenceInv'
  <2>1. PICK r : records' = Append(records, r) /\ r.seq = s /\ UNCHANGED <<events, anchors>>
    BY <1>8 DEF Sign
  <2>2. s \in Nat
    BY ListedElements DEF EvidenceInv, Listed
  <2>3. Listed(records') /\ ToSet(records') = ToSet(records) \union {r}
    BY <2>1, AppendListed DEF EvidenceInv
  <2>4. QED
    BY <2>1, <2>2, <2>3 DEF EvidenceInv
<1>9. CASE Export
  <2>1. events' = <<>> /\ anchors' = <<>> /\ records' = <<>>
    BY <1>9 DEF Export
  <2>2. QED
    BY <2>1, EmptyIsListed DEF EvidenceInv
<1>10. QED
  BY <1>1, <1>2, <1>3, <1>4, <1>5, <1>6, <1>7, <1>8, <1>9
     DEF VerificationNext, Collect, EvidenceNext, Tick, allvars, vars

\* At first there is no evidence.
LEMMA EvidenceAtFirst == EvidenceInit => EvidenceInv
BY EmptyIsListed DEF EvidenceInit, EvidenceInv

-----------------------------------------------------------------------------
(* The bundle keeps its shape.                                             *)

\* At first nothing is built.
LEMMA BundleAtFirst == BundleInit => BundleInv
<1>1. EmptyBuilder \in Builders
  BY DEF EmptyBuilder, Builders
<1>2. QED
  BY <1>1, NoBundleShape DEF BundleInit, BundleInv

\* Every step keeps the shape of what is built.
LEMMA BundleKept == BundleInv /\ EvidenceInv /\ [VerificationNext]_allvars => BundleInv'
<1> SUFFICES ASSUME BundleInv, EvidenceInv, [VerificationNext]_allvars PROVE BundleInv'
  OBVIOUS
<1>0. EmptyBuilder \in Builders
  BY DEF EmptyBuilder, Builders
<1>1. CASE UNCHANGED bvars
  BY <1>1 DEF bvars, BundleInv, AsBuilt
<1>2. CASE Export
  <2>1. Len(events) \in Nat
    BY ListedElements DEF EvidenceInv, Listed
  <2>2. [i \in DOMAIN records |-> records[i].seq] \in Seq(Nat)
    <3>1. DOMAIN records = 1..Len(records) /\ Len(records) \in Nat
          /\ \A i \in DOMAIN records : records[i] \in ToSet(records)
      BY ListedElements DEF EvidenceInv, Listed
    <3>2. QED
      BY <3>1 DEF EvidenceInv
  <2>3. /\ source' = Len(events) /\ signed' = [i \in DOMAIN records |-> records[i].seq]
        /\ stage' = "build" /\ UNCHANGED <<builder, bundle, edits>>
    BY <1>2 DEF Export, Receive
  <2>4. QED
    BY <2>1, <2>2, <2>3 DEF BundleInv
<1>3. CASE Extend
  <2>0. PICK from \in 0..source - 1 : \E to \in from..source - 1 :
            builder' = [builder EXCEPT !.events = @ \o [i \in 1..to - from + 1 |-> Row(from + i - 1)]]
    BY <1>3, Zenon DEF Extend
  <2>1. PICK to \in from..source - 1 :
            builder' = [builder EXCEPT !.events = @ \o [i \in 1..to - from + 1 |-> Row(from + i - 1)]]
    BY <2>0
  <2>2. [i \in 1..to - from + 1 |-> Row(from + i - 1)] \in Seq(NewRows)
    <3>1. \A i \in 1..to - from + 1 : Row(from + i - 1) \in NewRows
      BY <2>1 DEF Row, NewRows, BundleInv
    <3>2. to - from + 1 \in Nat
      BY <2>1 DEF BundleInv
    <3>3. QED
      BY <3>1, <3>2
  <2>3. builder.events \o [i \in 1..to - from + 1 |-> Row(from + i - 1)] \in Seq(NewRows)
    BY <2>2, ConcatProperties DEF BundleInv, Builders
  <2>4. builder' \in Builders
    BY <2>1, <2>3 DEF BundleInv, Builders
  <2>5. QED
    BY <1>3, <2>4 DEF Extend, Building, BundleInv
<1>4. CASE ExtendSignatures
  <2>1. PICK n \in DOMAIN signed :
            builder' = [builder EXCEPT !.signatures = [j \in 1..n |-> [seq |-> signed[j], form |-> "ok"]]]
    BY <1>4, Zenon DEF ExtendSignatures
  <2>2. [j \in 1..n |-> [seq |-> signed[j], form |-> "ok"]] \in Seq(NewSignatures)
    <3>1. n \in Nat /\ \A j \in 1..n : signed[j] \in Nat
      BY DEF BundleInv
    <3>2. \A j \in 1..n : [seq |-> signed[j], form |-> "ok"] \in NewSignatures
      BY <3>1 DEF NewSignatures
    <3>3. QED
      BY <3>1, <3>2
  <2>3. builder' \in Builders
    BY <2>1, <2>2 DEF BundleInv, Builders
  <2>4. QED
    BY <1>4, <2>3 DEF ExtendSignatures, Building, BundleInv
<1>5. CASE ExtendRetentionProofs
  <2>1. PICK s \in Nat : builder' = [builder EXCEPT !.retention_proofs = <<[id |-> 1, ref |-> s, form |-> "ok"]>>]
    BY <1>5, BundleAssumption DEF ExtendRetentionProofs
  <2>2. [id |-> 1, ref |-> s, form |-> "ok"] \in NewProofs
    BY DEF NewProofs
  <2>3. builder' \in Builders
    BY <2>1, <2>2 DEF BundleInv, Builders
  <2>4. QED
    BY <1>5, <2>3 DEF ExtendRetentionProofs, Building, BundleInv
<1>6. CASE Build
  <2>1. AsBuilt'
    BY <1>6 DEF Build, AsBuilt, BundleInv
  <2>2. BundleShape(bundle')
    BY <2>1, BuiltShape DEF AsBuilt
  <2>3. builder' = EmptyBuilder /\ source' = 0 /\ signed' = <<>> /\ edits' = edits
    BY <1>6 DEF Build
  <2>4. QED
    BY <1>0, <2>1, <2>2, <2>3 DEF BundleInv
<1>7. CASE Minimal
  <2> DEFINE from == [EmptyBuilder EXCEPT !.events = <<Row(0)>>,
                                          !.signatures = <<[seq |-> 0, form |-> "ok"]>>]
  <2>1. from \in Builders
    <3>1. Row(0) \in NewRows /\ [seq |-> 0, form |-> "ok"] \in NewSignatures
      BY DEF Row, NewRows, NewSignatures
    <3>2. ASSUME NEW x \in Seq(NewRows), NEW y \in Seq(NewSignatures)
          PROVE  [EmptyBuilder EXCEPT !.events = x, !.signatures = y] \in Builders
      BY <1>0 DEF Builders
    <3>3. <<Row(0)>> \in Seq(NewRows) /\ <<[seq |-> 0, form |-> "ok"]>> \in Seq(NewSignatures)
      BY <3>1
    <3>4. QED
      BY <3>2, <3>3, Zenon
  <2>2. bundle' = Built(from, {}, FALSE)
    BY <1>7 DEF Minimal
  <2>3. AsBuilt'
    BY <2>1, <2>2 DEF AsBuilt
  <2>4. BundleShape(bundle')
    BY <2>3, BuiltShape DEF AsBuilt
  <2>5. builder' = EmptyBuilder /\ source' = 0 /\ signed' = <<>> /\ edits' = edits
    BY <1>7 DEF Minimal
  <2>6. QED
    BY <1>0, <2>3, <2>4, <2>5 DEF BundleInv
<1>8. CASE Edit
  <2>0. PICK f \in DOMAIN Alternatives(bundle) :
            \E v \in Alternatives(bundle)[f] : v # bundle[f] /\ bundle' = [bundle EXCEPT ![f] = v]
    BY <1>8, Zenon DEF Edit
  <2>1. PICK v \in Alternatives(bundle)[f] : bundle' = [bundle EXCEPT ![f] = v]
    BY <2>0, Zenon
  <2>2. BundleShape(bundle')
    BY <2>1, EditKeepsShape DEF BundleInv
  <2>3. edits' = edits + 1 /\ UNCHANGED <<stage, source, signed, builder>>
    BY <1>8 DEF Edit
  <2>4. QED
    BY <2>2, <2>3 DEF BundleInv
<1>9. CASE Seal
  <2>1. bundle' = NoBundle /\ edits' = 0 /\ stage' = "envelope" /\ UNCHANGED <<source, signed, builder>>
    BY <1>9 DEF Seal
  <2>2. QED
    BY <2>1, NoBundleShape DEF BundleInv
<1>10. QED
  BY <1>1, <1>2, <1>3, <1>4, <1>5, <1>6, <1>7, <1>8, <1>9
     DEF VerificationNext, Collect, BundleNext, EnvelopeNext, Rebuild, Refresh, SignPayload,
         AnchorDigest, Break, Enveloped, allvars

-----------------------------------------------------------------------------
(* What the helpers of the verifier return.                                *)

\* first_bad is 0 exactly for the rows of the chain from its start on.
LEMMA FirstBad ==
    ASSUME NEW rows \in Seq(Rows)
    PROVE  first_bad(rows) = 0 <=> \A i \in DOMAIN rows : rows[i].seq = i - 1
<1> DEFINE bad == {i \in DOMAIN rows : rows[i].seq # i - 1}
<1>1. bad \subseteq Nat /\ 0 \notin bad
  OBVIOUS
<1>2. first_bad(rows) = IF bad = {} THEN 0 ELSE CHOOSE i \in bad : \A j \in bad : i <= j
  BY Zenon DEF first_bad
<1>3. bad # {} => first_bad(rows) \in bad
  BY <1>1, <1>2, LeastOf
<1>4. QED
  BY <1>1, <1>2, <1>3

\* first_with is 0 exactly when no row has that form.
LEMMA FirstWith ==
    ASSUME NEW rows \in Seq(Rows), NEW form
    PROVE  /\ first_with(rows, form) = 0 <=> \A i \in DOMAIN rows : rows[i].form # form
           /\ first_with(rows, form) \in Nat
<1> DEFINE found == {i \in 1..Len(rows) : rows[i].form = form}
<1>1. first_with(rows, form) = IF found # {} THEN Min(found) ELSE 0
  BY Zenon DEF first_with, SelectInSeq
<1>2. found \subseteq Nat /\ 0 \notin found /\ DOMAIN rows = 1..Len(rows)
  OBVIOUS
<1>3. found # {} => Min(found) \in found
  BY <1>2, MinIsIn
<1>4. QED
  BY <1>1, <1>2, <1>3

\* The list of policy events is that of the rows that are in PolicySeqs.  Its
\* recursion has a solution up to every n, by a least n without one.
LEMMA PolicyRows ==
    ASSUME NEW rows \in Seq(Rows)
    PROVE  /\ policy_events(rows) \in Seq(Nat)
           /\ ToSet(policy_events(rows)) = {rows[i].seq : i \in 1..Len(rows)} \intersect PolicySeqs
<1> DEFINE L == Len(rows)
           Step(f, n) == IF n = 0 THEN <<>>
                         ELSE IF rows[n].seq \in PolicySeqs THEN Append(f[n - 1], rows[n].seq)
                         ELSE f[n - 1]
           Solves(f, m) == f = [n \in 0..m |-> Step(f, n)]
           found == CHOOSE f : Solves(f, L)
<1>1. L \in Nat /\ \A n \in 1..L : rows[n].seq \in Nat
  <2>1. L \in Nat /\ \A n \in 1..L : rows[n] \in Rows
    OBVIOUS
  <2>2. QED
    BY <2>1 DEF Rows
<1>2. \E f : Solves(f, L)
  <2> DEFINE T == {m \in 0..L : ~ \E f : Solves(f, m)}
  <2> SUFFICES ASSUME T # {} PROVE FALSE
    BY <1>1
  <2>1. PICK m \in T : \A k \in T : m <= k
    <3>1. T \subseteq Nat
      BY <1>1
    <3>2. QED
      BY <3>1, LeastOf
  <2>2. m # 0
    <3>1. Solves([n \in 0..0 |-> <<>>], 0)
      OBVIOUS
    <3>2. QED
      BY <3>1
  <2>3. PICK f : Solves(f, m - 1)
    <3>1. m \in 0..L /\ m - 1 \in 0..L /\ ~(m <= m - 1)
      BY <1>1, <2>2
    <3>2. m - 1 \notin T
      BY <2>1, <3>1
    <3>3. QED
      BY <3>1, <3>2
  <2> DEFINE g == [n \in 0..m |-> IF n = m THEN Step(f, m) ELSE f[n]]
  <2>4. ASSUME NEW n \in 0..m
        PROVE  g[n] = Step(g, n)
    <3>1. CASE n = m
      <4>1. g[m - 1] = f[m - 1]
        BY <1>1, <2>2
      <4>2. g[m] = Step(f, m)
        BY <1>1
      <4>3. QED
        BY <3>1, <2>2, <4>1, <4>2
    <3>2. CASE n # m
      <4>1. n \in 0..m - 1 /\ g[n] = f[n]
        BY <1>1, <3>2
      <4>2. f[n] = Step(f, n)
        BY <2>3, <4>1
      <4>3. n # 0 => g[n - 1] = f[n - 1]
        BY <1>1, <3>2
      <4>4. QED
        BY <4>1, <4>2, <4>3
    <3>3. QED
      BY <3>1, <3>2
  <2>5. Solves(g, m)
    <3> DEFINE h == [n \in 0..m |-> Step(g, n)]
    <3>1. \A n \in 0..m : g[n] = h[n]
      BY <2>4
    <3>2. g = h
      BY <3>1
    <3>3. QED
      BY <3>2
  <2>6. QED
    BY <2>5
<1>3. Solves(found, L)
  BY <1>2
<1>4. policy_events(rows) = found[L]
  BY Zenon DEF policy_events
<1> HIDE DEF found
<1>5. \A n \in 0..L : found[n] = Step(found, n)
  BY <1>3
<1> DEFINE Right(n) == /\ found[n] \in Seq(Nat)
                       /\ ToSet(found[n]) = {rows[i].seq : i \in 1..n} \intersect PolicySeqs
           W == {n \in 0..L : ~Right(n)}
<1>6. W = {}
  <2> SUFFICES ASSUME W # {} PROVE FALSE
    OBVIOUS
  <2>1. PICK n \in W : \A k \in W : n <= k
    <3>1. W \subseteq Nat
      BY <1>1
    <3>2. QED
      BY <3>1, LeastOf
  <2>2. n # 0
    <3>1. found[0] = <<>>
      BY <1>1, <1>5
    <3>2. Right(0)
      BY <3>1, EmptyIsListed
    <3>3. QED
      BY <3>2
  <2>3. n \in 1..L /\ n - 1 \in 0..L /\ Right(n - 1)
    <3>1. n \in 0..L /\ n - 1 \in 0..L /\ ~(n <= n - 1)
      BY <1>1, <2>2
    <3>2. n - 1 \notin W
      BY <2>1, <3>1
    <3>3. Right(n - 1)
      BY <3>1, <3>2
    <3>4. QED
      BY <1>1, <2>2, <3>1, <3>3
  <2>4. {rows[i].seq : i \in 1..n} = {rows[i].seq : i \in 1..n - 1} \union {rows[n].seq}
    BY <1>1, <2>3
  <2>5. CASE rows[n].seq \in PolicySeqs
    <3>1. found[n] = Append(found[n - 1], rows[n].seq)
      BY <1>5, <2>2, <2>3, <2>5
    <3>2. Listed(found[n - 1])
      BY <2>3, ListedElements
    <3>3. ToSet(found[n]) = ToSet(found[n - 1]) \union {rows[n].seq}
      BY <3>1, <3>2, AppendListed
    <3>4. found[n] \in Seq(Nat)
      BY <1>1, <2>3, <3>1
    <3>5. Right(n)
      BY <2>3, <2>4, <2>5, <3>3, <3>4
    <3>6. QED
      BY <3>5
  <2>6. CASE rows[n].seq \notin PolicySeqs
    <3>1. found[n] = found[n - 1]
      BY <1>5, <2>2, <2>3, <2>6
    <3>2. Right(n)
      BY <2>3, <2>4, <2>6, <3>1
    <3>3. QED
      BY <3>2
  <2>7. QED
    BY <2>5, <2>6
<1>7. Right(L)
  <2>1. L \in 0..L
    BY <1>1
  <2>2. QED
    BY <1>6, <2>1
<1>8. QED
  BY <1>4, <1>7

\* A piece of a list of reasons: r, or nothing.
Says(p, r) == p \in {<<>>, <<r>>}
Empty(s) == s = <<>>

\* One more piece at the end of a list.
LEMMA OneMoreReason ==
    ASSUME NEW S, NEW s \in Seq(S), NEW r \in S, NEW p, Says(p, r)
    PROVE  /\ s \o p \in Seq(S)
           /\ Empty(s \o p) <=> Empty(s) /\ Empty(p)
           /\ ~Empty(s \o p) => Head(s \o p) = IF ~Empty(s) THEN Head(s) ELSE r
<1>1. CASE p = <<r>>
  <2>1. s \o p = Append(s, r)
    BY <1>1
  <2>2. Append(s, r) \in Seq(S) /\ Len(Append(s, r)) = Len(s) + 1 /\ Len(s) \in Nat
    OBVIOUS
  <2>3. Append(s, r) # <<>>
    <3>1. Len(<<>>) = 0
      OBVIOUS
    <3>2. QED
      BY <2>2, <3>1
  <2>4. Head(Append(s, r)) = IF s # <<>> THEN Head(s) ELSE r
    OBVIOUS
  <2>5. p # <<>>
    <3>1. Len(p) = 1 /\ Len(<<>>) = 0
      BY <1>1
    <3>2. QED
      BY <3>1
  <2>6. QED
    BY <2>1, <2>2, <2>3, <2>4, <2>5 DEF Empty
<1>2. CASE p = <<>>
  <2>1. s \o p = s
    BY <1>2
  <2>2. QED
    BY <1>2, <2>1 DEF Empty
<1>3. QED
  BY <1>1, <1>2 DEF Says

\* A piece of the list that is written when a test says so.
LEMMA OnePiece ==
    ASSUME NEW test \in BOOLEAN, NEW r
    PROVE  LET p == IF test THEN <<r>> ELSE <<>>
           IN Says(p, r) /\ (Empty(p) <=> ~test)
<1>1. Len(<<r>>) = 1 /\ Len(<<>>) = 0
  OBVIOUS
<1>2. <<r>> # <<>>
  BY <1>1
<1>3. QED
  BY <1>2 DEF Says, Empty

\* Seven pieces in a row, and the first reason that is there.
Joined(p1, p2, p3, p4, p5, p6, p7) == p1 \o p2 \o p3 \o p4 \o p5 \o p6 \o p7

FirstOf(p1, p2, p3, p4, p5, p6, r1, r2, r3, r4, r5, r6, r7) ==
    IF ~Empty(p1) THEN r1 ELSE IF ~Empty(p2) THEN r2
    ELSE IF ~Empty(p3) THEN r3 ELSE IF ~Empty(p4) THEN r4
    ELSE IF ~Empty(p5) THEN r5 ELSE IF ~Empty(p6) THEN r6 ELSE r7

\* A list of seven pieces starts with the first that is there.
LEMMA SevenReasons ==
    ASSUME NEW r1, NEW r2, NEW r3, NEW r4, NEW r5, NEW r6, NEW r7,
           NEW p1, Says(p1, r1), NEW p2, Says(p2, r2), NEW p3, Says(p3, r3), NEW p4, Says(p4, r4),
           NEW p5, Says(p5, r5), NEW p6, Says(p6, r6), NEW p7, Says(p7, r7)
    PROVE  /\ Empty(Joined(p1, p2, p3, p4, p5, p6, p7)) <=>
                  /\ Empty(p1) /\ Empty(p2) /\ Empty(p3) /\ Empty(p4)
                  /\ Empty(p5) /\ Empty(p6) /\ Empty(p7)
           /\ ~Empty(Joined(p1, p2, p3, p4, p5, p6, p7)) =>
                  Head(Joined(p1, p2, p3, p4, p5, p6, p7)) =
                      FirstOf(p1, p2, p3, p4, p5, p6, r1, r2, r3, r4, r5, r6, r7)
<1> DEFINE S == {r1, r2, r3, r4, r5, r6, r7}
<1>0. r1 \in S /\ r2 \in S /\ r3 \in S /\ r4 \in S /\ r5 \in S /\ r6 \in S /\ r7 \in S
  OBVIOUS
<1> HIDE DEF S
<1> DEFINE s1 == p1
           s2 == s1 \o p2
           s3 == s2 \o p3
           s4 == s3 \o p4
           s5 == s4 \o p5
           s6 == s5 \o p6
           s7 == s6 \o p7
<1>1. s1 \in Seq(S) /\ (Empty(s1) <=> Empty(p1)) /\ (~Empty(s1) => Head(s1) = r1)
  <2>1. CASE p1 = <<>>
    BY <1>0, <2>1 DEF Empty
  <2>2. CASE p1 = <<r1>>
    BY <1>0, <2>2 DEF Empty
  <2>3. QED
    BY <2>1, <2>2 DEF Says, Empty
<1> HIDE DEF s1
<1>2. /\ s2 \in Seq(S) /\ (Empty(s2) <=> Empty(s1) /\ Empty(p2))
      /\ ~Empty(s2) => Head(s2) = IF ~Empty(s1) THEN Head(s1) ELSE r2
  BY <1>0, <1>1, OneMoreReason
<1> HIDE DEF s2
<1>3. /\ s3 \in Seq(S) /\ (Empty(s3) <=> Empty(s2) /\ Empty(p3))
      /\ ~Empty(s3) => Head(s3) = IF ~Empty(s2) THEN Head(s2) ELSE r3
  BY <1>0, <1>2, OneMoreReason
<1> HIDE DEF s3
<1>4. /\ s4 \in Seq(S) /\ (Empty(s4) <=> Empty(s3) /\ Empty(p4))
      /\ ~Empty(s4) => Head(s4) = IF ~Empty(s3) THEN Head(s3) ELSE r4
  BY <1>0, <1>3, OneMoreReason
<1> HIDE DEF s4
<1>5. /\ s5 \in Seq(S) /\ (Empty(s5) <=> Empty(s4) /\ Empty(p5))
      /\ ~Empty(s5) => Head(s5) = IF ~Empty(s4) THEN Head(s4) ELSE r5
  BY <1>0, <1>4, OneMoreReason
<1> HIDE DEF s5
<1>6. /\ s6 \in Seq(S) /\ (Empty(s6) <=> Empty(s5) /\ Empty(p6))
      /\ ~Empty(s6) => Head(s6) = IF ~Empty(s5) THEN Head(s5) ELSE r6
  BY <1>0, <1>5, OneMoreReason
<1> HIDE DEF s6
<1>7. /\ s7 \in Seq(S) /\ (Empty(s7) <=> Empty(s6) /\ Empty(p7))
      /\ ~Empty(s7) => Head(s7) = IF ~Empty(s6) THEN Head(s6) ELSE r7
  BY <1>0, <1>6, OneMoreReason
<1> HIDE DEF s7
<1>8. /\ Empty(s2) <=> Empty(p1) /\ Empty(p2)
      /\ ~Empty(s2) => Head(s2) =
             IF ~Empty(p1) THEN r1 ELSE r2
  BY <1>1, <1>2
<1>9. /\ Empty(s3) <=> Empty(p1) /\ Empty(p2) /\ Empty(p3)
      /\ ~Empty(s3) => Head(s3) =
             IF ~Empty(p1) THEN r1 ELSE IF ~Empty(p2) THEN r2 ELSE r3
  BY <1>8, <1>3
<1>10. /\ Empty(s4) <=> Empty(p1) /\ Empty(p2) /\ Empty(p3) /\ Empty(p4)
       /\ ~Empty(s4) => Head(s4) =
              IF ~Empty(p1) THEN r1 ELSE IF ~Empty(p2) THEN r2
              ELSE IF ~Empty(p3) THEN r3 ELSE r4
  BY <1>9, <1>4
<1>11. /\ Empty(s5) <=> Empty(p1) /\ Empty(p2) /\ Empty(p3) /\ Empty(p4) /\ Empty(p5)
       /\ ~Empty(s5) => Head(s5) =
              IF ~Empty(p1) THEN r1 ELSE IF ~Empty(p2) THEN r2
              ELSE IF ~Empty(p3) THEN r3 ELSE IF ~Empty(p4) THEN r4 ELSE r5
  BY <1>10, <1>5
<1>12. /\ Empty(s6) <=> /\ Empty(p1) /\ Empty(p2) /\ Empty(p3) /\ Empty(p4) /\ Empty(p5)
                        /\ Empty(p6)
       /\ ~Empty(s6) => Head(s6) =
              IF ~Empty(p1) THEN r1 ELSE IF ~Empty(p2) THEN r2
              ELSE IF ~Empty(p3) THEN r3 ELSE IF ~Empty(p4) THEN r4
              ELSE IF ~Empty(p5) THEN r5 ELSE r6
  BY <1>11, <1>6
<1>13. /\ Empty(s7) <=> /\ Empty(p1) /\ Empty(p2) /\ Empty(p3) /\ Empty(p4) /\ Empty(p5)
                        /\ Empty(p6) /\ Empty(p7)
       /\ ~Empty(s7) => Head(s7) =
              IF ~Empty(p1) THEN r1 ELSE IF ~Empty(p2) THEN r2
              ELSE IF ~Empty(p3) THEN r3 ELSE IF ~Empty(p4) THEN r4
              ELSE IF ~Empty(p5) THEN r5 ELSE IF ~Empty(p6) THEN r6 ELSE r7
  BY <1>12, <1>7
<1>14. QED
  BY <1>13 DEF s7, s6, s5, s4, s3, s2, s1, Joined, FirstOf

-----------------------------------------------------------------------------
(* The verifier: its reasons, and what its front ends make of them.        *)

SignedReason(b, nonEmpty, strict) == IF strict \/ nonEmpty THEN signed_schema_reason(b) ELSE none

\* Nothing to object to.
Clean(b, nonEmpty, signed_reason) ==
    /\ chain_ok(b) /\ agreement(b)
    /\ ~(nonEmpty /\ b.events = <<>>)
    /\ signed_reason = none
    /\ metadata_reason(b, nonEmpty) = none
    /\ policy_ok(b) /\ retention_ok(b) /\ ~explicit_quarantine(b)

FirstReason(b, nonEmpty, signed_reason) ==
    IF ~chain_ok(b) \/ ~agreement(b) THEN "CANONICAL_MISMATCH"
    ELSE IF nonEmpty /\ b.events = <<>> THEN "REQUIRED_FIELD_MISSING"
    ELSE IF signed_reason # none THEN signed_reason
    ELSE IF metadata_reason(b, nonEmpty) # none THEN metadata_reason(b, nonEmpty)
    ELSE IF ~policy_ok(b) \/ ~retention_ok(b) THEN "STRUCTURE_INVALID"
    ELSE "ANCHOR_INVALID"

\* The list of reasons is empty for a clean bundle, and starts as FirstReason says.
LEMMA Reasons ==
    ASSUME NEW b, NEW nonEmpty \in BOOLEAN, NEW signed_reason
    PROVE  LET reasons == all_reasons(b, nonEmpty, signed_reason)
           IN /\ reasons = <<>> <=> Clean(b, nonEmpty, signed_reason)
              /\ reasons # <<>> => Head(reasons) = FirstReason(b, nonEmpty, signed_reason)
<1> DEFINE metadata == metadata_reason(b, nonEmpty)
           p1 == IF ~chain_ok(b) \/ ~agreement(b) THEN <<"CANONICAL_MISMATCH">> ELSE <<>>
           p2 == IF nonEmpty /\ b.events = <<>> THEN <<"REQUIRED_FIELD_MISSING">> ELSE <<>>
           p3 == IF signed_reason # none THEN <<signed_reason>> ELSE <<>>
           p4 == IF metadata # none THEN <<metadata>> ELSE <<>>
           p5 == IF ~policy_ok(b) THEN <<"STRUCTURE_INVALID">> ELSE <<>>
           p6 == IF ~retention_ok(b) THEN <<"STRUCTURE_INVALID">> ELSE <<>>
           p7 == IF explicit_quarantine(b) THEN <<"ANCHOR_INVALID">> ELSE <<>>
           reasons == all_reasons(b, nonEmpty, signed_reason)
<1>1. reasons = Joined(p1, p2, p3, p4, p5, p6, p7)
  BY Zenon DEF all_reasons, Joined
<1>2. Says(p1, "CANONICAL_MISMATCH") /\ (Empty(p1) <=> chain_ok(b) /\ agreement(b))
  BY OnePiece
<1>3. Says(p2, "REQUIRED_FIELD_MISSING") /\ (Empty(p2) <=> ~(nonEmpty /\ b.events = <<>>))
  BY OnePiece
<1>4. Says(p3, signed_reason) /\ (Empty(p3) <=> signed_reason = none)
  BY OnePiece
<1>5. Says(p4, metadata) /\ (Empty(p4) <=> metadata = none)
  BY OnePiece
<1>6. Says(p5, "STRUCTURE_INVALID") /\ (Empty(p5) <=> policy_ok(b))
  BY OnePiece
<1>7. Says(p6, "STRUCTURE_INVALID") /\ (Empty(p6) <=> retention_ok(b))
  BY OnePiece
<1>8. Says(p7, "ANCHOR_INVALID") /\ (Empty(p7) <=> ~explicit_quarantine(b))
  BY OnePiece
<1> HIDE DEF metadata, p1, p2, p3, p4, p5, p6, p7, reasons
<1>9. /\ Empty(Joined(p1, p2, p3, p4, p5, p6, p7)) <=>
             /\ Empty(p1) /\ Empty(p2) /\ Empty(p3) /\ Empty(p4)
             /\ Empty(p5) /\ Empty(p6) /\ Empty(p7)
      /\ ~Empty(Joined(p1, p2, p3, p4, p5, p6, p7)) =>
             Head(Joined(p1, p2, p3, p4, p5, p6, p7)) =
                 FirstOf(p1, p2, p3, p4, p5, p6, "CANONICAL_MISMATCH", "REQUIRED_FIELD_MISSING",
                         signed_reason, metadata, "STRUCTURE_INVALID", "STRUCTURE_INVALID",
                         "ANCHOR_INVALID")
  BY <1>2, <1>3, <1>4, <1>5, <1>6, <1>7, <1>8, SevenReasons
<1>10. /\ Empty(reasons) <=> Clean(b, nonEmpty, signed_reason)
       /\ ~Empty(reasons) => Head(reasons) = FirstReason(b, nonEmpty, signed_reason)
  BY <1>1, <1>2, <1>3, <1>4, <1>5, <1>6, <1>7, <1>8, <1>9 DEF Clean, FirstReason, FirstOf, metadata
<1>11. QED
  BY <1>10 DEF reasons, Empty

\* The three ways verify_proof_bundle ends.
LEMMA Outcome ==
    ASSUME NEW b, NEW nonEmpty \in BOOLEAN, NEW strict \in BOOLEAN
    PROVE  LET result == verify_proof_bundle(b, nonEmpty, strict)
               signed_reason == SignedReason(b, nonEmpty, strict)
               reasons == all_reasons(b, nonEmpty, signed_reason)
               raises == raises_canonicalization(b, strict \/ nonEmpty)
           IN /\ schema_error(b) # none => result.raised = "schema"
              /\ schema_error(b) = none /\ raises => result.raised = "canonicalization"
              /\ schema_error(b) = none /\ ~raises =>
                     /\ result.raised = none
                     /\ result.ok = (reasons = <<>>)
                     /\ result.reasons = reasons
                     /\ result.signed_reason = signed_reason
                     /\ result.quarantined =
                            \/ explicit_quarantine(b)
                            \/ incomplete(b, nonEmpty, signed_reason)
                            \/ reasons # <<>> /\ Head(reasons) \in Quarantining
                     /\ result.anchoring_status =
                            IF result.quarantined THEN "quarantined"
                            ELSE IF \/ \E a \in b.anchoring : a.status = "anchored"
                                    \/ b.anchoring = {} /\ b.anchor_ref
                                 THEN "verified" ELSE "absent"
<1> DEFINE signed_reason == SignedReason(b, nonEmpty, strict)
           reasons == all_reasons(b, nonEmpty, signed_reason)
           raises == raises_canonicalization(b, strict \/ nonEmpty)
           quarantined == \/ explicit_quarantine(b)
                          \/ incomplete(b, nonEmpty, signed_reason)
                          \/ reasons # <<>> /\ Head(reasons) \in Quarantining
           status == IF quarantined THEN "quarantined"
                     ELSE IF \/ \E a \in b.anchoring : a.status = "anchored"
                             \/ b.anchoring = {} /\ b.anchor_ref
                          THEN "verified" ELSE "absent"
<1>1. verify_proof_bundle(b, nonEmpty, strict) =
          IF schema_error(b) # none THEN [raised |-> "schema"]
          ELSE IF raises THEN [raised |-> "canonicalization"]
          ELSE [raised |-> none, ok |-> reasons = <<>>, reasons |-> reasons,
                signed_reason |-> signed_reason, quarantined |-> quarantined,
                anchoring_status |-> status]
  BY Zenon DEF verify_proof_bundle, SignedReason
<1> DEFINE result == verify_proof_bundle(b, nonEmpty, strict)
<1> HIDE DEF signed_reason, reasons, raises, quarantined, status, result
<1>2. /\ schema_error(b) # none => result.raised = "schema"
      /\ schema_error(b) = none /\ raises => result.raised = "canonicalization"
      /\ schema_error(b) = none /\ ~raises =>
             /\ result.raised = none /\ result.ok = (reasons = <<>>) /\ result.reasons = reasons
             /\ result.signed_reason = signed_reason /\ result.quarantined = quarantined
             /\ result.anchoring_status = status
  BY <1>1 DEF result
<1>3. QED
  BY <1>2, Zenon DEF signed_reason, reasons, raises, quarantined, status, result

\* What a bundle has that schema_error and metadata_reason let through.
LEMMA NoSchemaError ==
    ASSUME NEW b
    PROVE  schema_error(b) = none <=>
               /\ b.file # "not_object" /\ b.fields \notin {"no_top", "no_nested"}
               /\ b.critical # "top" /\ b.version = "1" /\ b.method = "known"
               /\ b.redaction # "lost" /\ b.arrays = "ok"
               /\ \A a \in b.anchoring : a.status # "other"
               /\ first_with(b.events, "malformed") = 0
BY DEF schema_error, none

\* And those of its metadata.
LEMMA NoMetadataReason ==
    ASSUME NEW b, NEW nonEmpty \in BOOLEAN, BundleShape(b)
    PROVE  metadata_reason(b, nonEmpty) = none <=>
               /\ ~(nonEmpty /\ b.events = <<>>) /\ b.schema = "known"
               /\ b.critical \notin {"metadata", "report"}
               /\ b.genesis /\ b.taxonomy \in {"1", "absent"} /\ b.head = head_of(b.events)
               /\ agreement(b) /\ b.report.first_bad = first_bad(b.events)
BY DEF metadata_reason, BundleShape, none

Accepted(b, nonEmpty, strict, pin) ==
    /\ b.file \in {"ok", "duplicate_key"} /\ ~taxonomy_failure(b, pin)
    /\ schema_error(b) = none /\ ~raises_canonicalization(b, strict \/ nonEmpty)
    /\ Clean(b, nonEmpty, SignedReason(b, nonEmpty, strict))

\* How the verifier's result becomes an exit code.
LEMMA ResultExit ==
    ASSUME NEW b, NEW nonEmpty \in BOOLEAN, NEW strict \in BOOLEAN, schema_error(b) = none,
           ~raises_canonicalization(b, strict \/ nonEmpty)
    PROVE  LET result == verify_proof_bundle(b, nonEmpty, strict)
               clean == Clean(b, nonEmpty, SignedReason(b, nonEmpty, strict))
           IN /\ result.raised = none /\ result.ok = clean
              /\ result.quarantined => ~clean
              /\ verify_result_exit_code(result) =
                     IF clean THEN Verified ELSE IF result.quarantined THEN Quarantined ELSE Failed
<1> DEFINE result == verify_proof_bundle(b, nonEmpty, strict)
           signed_reason == SignedReason(b, nonEmpty, strict)
           reasons == all_reasons(b, nonEmpty, signed_reason)
           clean == Clean(b, nonEmpty, signed_reason)
<1>1. /\ result.raised = none /\ result.ok = (reasons = <<>>)
      /\ result.quarantined = \/ explicit_quarantine(b)
                              \/ incomplete(b, nonEmpty, signed_reason)
                              \/ reasons # <<>> /\ Head(reasons) \in Quarantining
  BY Outcome
<1>2. reasons = <<>> <=> clean
  BY Reasons
<1> HIDE DEF result, reasons
<1>3. clean \in BOOLEAN
  BY DEF Clean
<1>4. result.ok = clean
  BY <1>1, <1>2, <1>3
<1>5. result.quarantined => ~clean
  BY <1>1, <1>2 DEF Clean, incomplete
<1> HIDE DEF clean
<1>6. verify_result_exit_code(result) =
          IF clean THEN Verified ELSE IF result.quarantined THEN Quarantined ELSE Failed
  BY <1>4 DEF verify_result_exit_code
<1>7. QED
  BY <1>1, <1>4, <1>5, <1>6 DEF result, clean

\* The text front end exits with 0 for what is accepted.
LEMMA TextAccepts ==
    ASSUME NEW b, NEW nonEmpty \in BOOLEAN, NEW strict \in BOOLEAN, NEW pin, BundleShape(b)
    PROVE  TextExit(b, nonEmpty, strict, pin) = Verified <=> Accepted(b, nonEmpty, strict, pin)
<1> DEFINE result == verify_proof_bundle(b, nonEmpty, strict)
           raises == raises_canonicalization(b, strict \/ nonEmpty)
           clean == Clean(b, nonEmpty, SignedReason(b, nonEmpty, strict))
           exit == verify_result_exit_code(result)
<1>1. /\ schema_error(b) # none => result.raised = "schema"
      /\ schema_error(b) = none /\ raises => result.raised = "canonicalization"
  BY Outcome
<1>2. schema_error(b) = none /\ ~raises =>
          /\ result.raised = none
          /\ exit = IF clean THEN Verified ELSE IF result.quarantined THEN Quarantined ELSE Failed
  BY ResultExit
<1>3. TextExit(b, nonEmpty, strict, pin) =
          CASE b.file \in {"missing", "not_json"} -> UsageError
            [] b.file = "not_utf8" -> Traceback
            [] b.file = "not_object" -> IF pin = {} THEN Quarantined ELSE Traceback
            [] b.file \in {"ok", "duplicate_key"} ->
               IF taxonomy_failure(b, pin) \/ result.raised = "schema" THEN Quarantined
               ELSE IF result.raised = "canonicalization" THEN Failed ELSE exit
  BY Zenon DEF TextExit
<1> HIDE DEF result, raises, clean, exit
<1>4. QED
  BY <1>1, <1>2, <1>3
     DEF BundleShape, Files, Accepted, raises, clean, Verified, Failed, Quarantined, UsageError,
         Traceback, none

\* What the fields of an accepted bundle have to do with its rows.
LEMMA AcceptedRows ==
    ASSUME NEW b, NEW nonEmpty \in BOOLEAN, NEW strict \in BOOLEAN, NEW pin, BundleShape(b),
           Accepted(b, nonEmpty, strict, pin)
    PROVE  /\ \A i \in DOMAIN b.events : b.events[i] = Row(i - 1)
           /\ \A form \in {"malformed", "not_canonical"} : first_with(b.events, form) = 0
           /\ Seqs(b) = 0..Len(b.events) - 1
<1>1. b.events \in Seq(Rows) /\ DOMAIN b.events = 1..Len(b.events) /\ Len(b.events) \in Nat
  BY DEF BundleShape
<1>2. first_bad(b.events) = 0
  BY DEF Accepted, Clean, chain_ok
<1>3. \A i \in DOMAIN b.events : b.events[i].seq = i - 1
  BY <1>1, <1>2, FirstBad
<1>4. first_with(b.events, "malformed") = 0
  BY NoSchemaError DEF Accepted
<1>5. first_with(b.events, "not_canonical") = 0
  BY <1>2 DEF Accepted, raises_canonicalization
<1>6. \A i \in DOMAIN b.events : b.events[i].form \notin {"malformed", "not_canonical"}
  BY <1>1, <1>4, <1>5, FirstWith
<1>7. ASSUME NEW i \in DOMAIN b.events
      PROVE  b.events[i] = Row(i - 1)
  <2>1. b.events[i] \in Rows
    BY <1>1
  <2>2. QED
    BY <1>3, <1>6, <2>1 DEF Rows, Row
<1>8. Seqs(b) = 0..Len(b.events) - 1
  <2>1. Seqs(b) \subseteq 0..Len(b.events) - 1
    BY <1>1, <1>3 DEF Seqs
  <2>2. ASSUME NEW s \in 0..Len(b.events) - 1
        PROVE  s \in Seqs(b)
    <3>1. s + 1 \in DOMAIN b.events /\ s = (s + 1) - 1
      BY <1>1
    <3>2. b.events[s + 1].seq = s
      BY <1>3, <3>1
    <3>3. QED
      BY <3>1, <3>2 DEF Seqs
  <2>3. QED
    BY <2>1, <2>2
<1>9. QED
  BY <1>4, <1>5, <1>7, <1>8

\* The head of a chain from its start.
LEMMA HeadOf ==
    ASSUME NEW rows \in Seq(Rows), \A i \in DOMAIN rows : rows[i].seq = i - 1
    PROVE  head_of(rows) = Len(rows) - 1
<1>1. CASE rows = <<>>
  BY <1>1 DEF head_of
<1>2. CASE rows # <<>>
  <2>1. Len(rows) \in DOMAIN rows
    BY <1>2
  <2>2. QED
    BY <1>2, <2>1 DEF head_of, Last
<1>3. QED
  BY <1>1, <1>2

\* A strict verifier that asks for nothing more has found a signature.
LEMMA SignatureIsThere ==
    ASSUME NEW b, signed_schema_reason(b) = none
    PROVE  \E l \in b.signatures : \E r \in ToSet(l) : r.form = "ok" /\ r.seq \in Seqs(b)
BY Zenon DEF signed_schema_reason, none

\* Whatever a bundle went through, the verifier accepts it only when its rows
\* are a chain from the genesis on and everything else in it is about them
\* (verify_proof_bundle), for any number of edits and chains of any length.
THEOREM AcceptedBundlesAreClosed == VerificationSpec => []AcceptedIsClosed
<1>1. VerificationInit => EvidenceInv /\ BundleInv
  BY EvidenceAtFirst, BundleAtFirst DEF VerificationInit
<1>2. BundleInv => AcceptedIsClosed
  <2> SUFFICES ASSUME BundleInv, NEW nonEmpty \in BOOLEAN, NEW strict \in BOOLEAN, NEW pin \in Pins,
                      TextExit(bundle, nonEmpty, strict, pin) = Verified
               PROVE  /\ \A i \in DOMAIN bundle.events : bundle.events[i] = Row(i - 1)
                      /\ bundle.head = Len(bundle.events) - 1 /\ bundle.report.ok
                      /\ UNION {ToSet(l) : l \in bundle.refs} = Seqs(bundle) \intersect PolicySeqs
                      /\ \A l \in bundle.retention_proofs : \A p \in ToSet(l) : p.ref \in Seqs(bundle)
                      /\ (nonEmpty \/ strict) =>
                             \E l \in bundle.signatures : \E r \in ToSet(l) :
                                 r.form = "ok" /\ r.seq < Len(bundle.events)
                      /\ TextExit(bundle, FALSE, FALSE, {}) = Verified
    BY Zenon DEF AcceptedIsClosed
  <2> DEFINE b == bundle
  <2>1. BundleShape(b)
    BY DEF BundleInv
  <2> HIDE DEF b
  <2>2. Accepted(b, nonEmpty, strict, pin)
    BY <2>1, TextAccepts DEF b
  <2>3. /\ \A i \in DOMAIN b.events : b.events[i] = Row(i - 1)
        /\ \A form \in {"malformed", "not_canonical"} : first_with(b.events, form) = 0
        /\ Seqs(b) = 0..Len(b.events) - 1
    BY <2>1, <2>2, AcceptedRows
  <2>4. Clean(b, nonEmpty, SignedReason(b, nonEmpty, strict))
    BY <2>2 DEF Accepted
  <2>5. metadata_reason(b, nonEmpty) = none
    BY <2>4 DEF Clean
  <2>6. b.head = Len(b.events) - 1
    <3>1. ASSUME NEW i \in DOMAIN b.events
          PROVE  b.events[i].seq = i - 1
      <4>1. b.events[i] = Row(i - 1)
        BY <2>3
      <4>2. QED
        BY <4>1 DEF Row
    <3>2. b.events \in Seq(Rows)
      BY <2>1 DEF BundleShape
    <3>3. QED
      BY <2>1, <2>5, <3>1, <3>2, HeadOf, NoMetadataReason
  <2>7. b.report.ok
    BY <2>4 DEF Clean, agreement
  <2>8. UNION {ToSet(l) : l \in b.refs} = Seqs(b) \intersect PolicySeqs
    <3>1. b.events \in Seq(Rows) /\ DOMAIN b.events = 1..Len(b.events)
      BY <2>1 DEF BundleShape
    <3>2. b.refs = Optional(policy_events(b.events))
      BY <2>4 DEF Clean, policy_ok
    <3>3. ToSet(policy_events(b.events)) = Seqs(b) \intersect PolicySeqs
      BY <3>1, PolicyRows DEF Seqs
    <3>4. QED
      BY <3>2, <3>3, EmptyIsListed DEF Optional
  <2>9. \A l \in b.retention_proofs : \A p \in ToSet(l) : p.ref \in Seqs(b)
    BY <2>4 DEF Clean, retention_ok, ToSet
  <2>10. (nonEmpty \/ strict) =>
             \E l \in b.signatures : \E r \in ToSet(l) : r.form = "ok" /\ r.seq < Len(b.events)
    <3> SUFFICES ASSUME nonEmpty \/ strict
                 PROVE  \E l \in b.signatures : \E r \in ToSet(l) : r.form = "ok" /\ r.seq < Len(b.events)
      OBVIOUS
    <3>1. signed_schema_reason(b) = none
      BY <2>4 DEF Clean, SignedReason
    <3>2. PICK l \in b.signatures : \E r \in ToSet(l) : r.form = "ok" /\ r.seq \in Seqs(b)
      BY <3>1, SignatureIsThere
    <3>3. Len(b.events) \in Nat
      BY <2>1 DEF BundleShape
    <3>4. QED
      BY <2>3, <3>2, <3>3
  <2>11. Accepted(b, FALSE, FALSE, {})
    <3>1. metadata_reason(b, FALSE) = none
      BY <2>1, <2>5, NoMetadataReason
    <3>2. Clean(b, FALSE, SignedReason(b, FALSE, FALSE))
      BY <2>4, <3>1 DEF Clean, SignedReason
    <3>3. ~raises_canonicalization(b, FALSE \/ FALSE)
      BY <2>3 DEF raises_canonicalization
    <3>4. QED
      BY <2>2, <3>2, <3>3 DEF Accepted, taxonomy_failure
  <2>12. TextExit(b, FALSE, FALSE, {}) = Verified
    BY <2>1, <2>11, TextAccepts
  <2>13. QED
    BY <2>3, <2>6, <2>7, <2>8, <2>9, <2>10, <2>12 DEF b
<1>3. QED
  BY <1>1, <1>2, EvidenceKept, BundleKept, PTL DEF VerificationSpec

\* So does the JSON front end, where it has nothing to stop at first.
LEMMA JsonAccepts ==
    ASSUME NEW b, NEW nonEmpty \in BOOLEAN, NEW strict \in BOOLEAN, NEW pin,
           Accepted(b, nonEmpty, strict, pin), b.file = "ok", ~canonicalization_probe(b)
    PROVE  JsonExit(b, nonEmpty, strict, pin) = Verified
<1> DEFINE result == verify_proof_bundle(b, nonEmpty, strict)
           exit == verify_result_exit_code(result)
<1>1. result.raised = none /\ exit = Verified
  BY ResultExit DEF Accepted
<1>2. JsonExit(b, nonEmpty, strict, pin) =
          CASE b.file \in {"missing", "not_utf8", "not_json", "duplicate_key"} -> UsageError
            [] b.file = "not_object" -> Quarantined
            [] b.file = "ok" ->
               IF taxonomy_failure(b, pin) THEN Quarantined
               ELSE IF canonicalization_probe(b) THEN Failed
               ELSE IF result.raised = "schema" THEN Quarantined
               ELSE IF result.raised = "canonicalization" THEN Failed
               ELSE exit
  BY Zenon DEF JsonExit
<1> HIDE DEF result, exit
<1>3. QED
  BY <1>1, <1>2 DEF Accepted, none

\* The signature that a strict verifier asks for is there if one speaks of a
\* row, in a bundle whose signatures and rows are as they were made.
LEMMA SignatureFound ==
    ASSUME NEW b, b.events \in Seq(Rows), Seqs(b) = 0..Len(b.events) - 1,
           \A l \in b.signatures : l \in Seq(NewSignatures),
           NEW l \in b.signatures, NEW r \in ToSet(l), r.seq < Len(b.events)
    PROVE  b.events # <<>> /\ signed_schema_reason(b) = none
<1> DEFINE found == UNION {ToSet(k) : k \in b.signatures}
           Usable(q) == q.form = "ok" /\ q.seq \in Seqs(b)
<1>1. r \in NewSignatures
  BY ListedElements
<1>2. r.seq \in Nat /\ r.form = "ok"
  BY <1>1 DEF NewSignatures
<1>3. Len(b.events) \in Nat /\ b.events # <<>>
  BY <1>2
<1>4. r.seq \in Seqs(b)
  BY <1>2, <1>3
<1>5. r \in found /\ Usable(r)
  BY <1>2, <1>4
<1>6. Cardinality(Seqs(b)) = Len(b.events)
  <2>1. 0 \in Int /\ Len(b.events) - 1 \in Int
    BY <1>3
  <2>2. Cardinality(0..Len(b.events) - 1) =
            IF 0 > Len(b.events) - 1 THEN 0 ELSE Len(b.events) - 1 - 0 + 1
    BY <2>1, FS_Interval
  <2>3. QED
    BY <1>2, <1>3, <2>2
<1>7. signed_schema_reason(b) =
          IF b.events = <<>> THEN "REQUIRED_FIELD_MISSING"
          ELSE IF found = {} THEN "SIGNATURE_MISSING"
          ELSE CASE Cardinality(Seqs(b)) # Len(b.events) -> "SIGNATURE_INVALID"
                 [] Cardinality(Seqs(b)) = Len(b.events) /\ (\E q \in found : Usable(q)) -> none
                 [] OTHER -> IF \E q \in found : q.form = "no_field" /\ q.seq \in Seqs(b)
                             THEN "REQUIRED_FIELD_MISSING" ELSE "SIGNATURE_INVALID"
  BY Zenon DEF signed_schema_reason
<1> HIDE DEF found, Usable
<1>8. QED
  BY <1>3, <1>5, <1>6, <1>7

\* What ProofBundleBuilder.build returns for a chain from its start is accepted
\* unless somebody edits it.
THEOREM BuiltBundlesAreAccepted == VerificationSpec => []BuiltBundlesVerify
<1>1. VerificationInit => EvidenceInv /\ BundleInv
  BY EvidenceAtFirst, BundleAtFirst DEF VerificationInit
<1>2. BundleInv => BuiltBundlesVerify
  <2> SUFFICES ASSUME BundleInv, stage = "file", edits = 0,
                      \A i \in DOMAIN bundle.events : bundle.events[i].seq = i - 1,
                      \A l \in bundle.retention_proofs : \A p \in ToSet(l) : p.ref < Len(bundle.events),
                      ~explicit_quarantine(bundle)
               PROVE  /\ TextExit(bundle, FALSE, FALSE, {"1"}) = Verified
                      /\ (\E l \in bundle.signatures : \E r \in ToSet(l) : r.seq < Len(bundle.events))
                             => JsonExit(bundle, TRUE, TRUE, {"1"}) = Verified
    BY Zenon DEF BuiltBundlesVerify
  <2> DEFINE b == bundle
  <2>1. BundleShape(b)
    BY DEF BundleInv
  <2>2. PICK from \in Builders, anchoring \in {{}} \union {{a} : a \in Anchorings}, anchor_ref \in BOOLEAN :
            b = Built(from, anchoring, anchor_ref)
    BY Zenon DEF BundleInv, AsBuilt
  <2>3. /\ \A i \in DOMAIN b.events : b.events[i].seq = i - 1
        /\ \A l \in b.retention_proofs : \A p \in ToSet(l) : p.ref < Len(b.events)
        /\ ~explicit_quarantine(b)
    OBVIOUS
  <2>4. /\ b.file = "ok" /\ b.fields = "all" /\ b.critical = "none" /\ b.version = "1"
        /\ b.arrays = "ok" /\ b.method = "known" /\ b.redaction = "kept" /\ b.schema = "known"
        /\ b.genesis = TRUE /\ b.taxonomy = "1"
        /\ b.events = from.events /\ b.head = head_of(b.events)
        /\ b.report = [ok |-> first_bad(b.events) = 0, first_bad |-> first_bad(b.events)]
        /\ b.refs = Optional(policy_events(b.events))
        /\ b.signatures = Optional(from.signatures)
        /\ b.retention_proofs = Optional(from.retention_proofs)
        /\ b.anchoring = anchoring
    <3>1. /\ b.events = from.events /\ b.head = head_of(from.events)
          /\ b.report = [ok |-> first_bad(from.events) = 0, first_bad |-> first_bad(from.events)]
          /\ b.refs = Optional(policy_events(from.events))
      BY <2>2 DEF Built, NoBundle
    <3>2. /\ b.file = "ok" /\ b.fields = "all" /\ b.critical = "none" /\ b.version = "1"
          /\ b.arrays = "ok" /\ b.method = "known" /\ b.redaction = "kept" /\ b.schema = "known"
          /\ b.genesis = TRUE /\ b.taxonomy = "1"
          /\ b.signatures = Optional(from.signatures)
          /\ b.retention_proofs = Optional(from.retention_proofs)
          /\ b.anchoring = anchoring
      BY <2>2 DEF Built, NoBundle
    <3>3. QED
      BY <3>1, <3>2
  <2> HIDE DEF b
  <2>5. /\ from.events \in Seq(NewRows) /\ from.signatures \in Seq(NewSignatures)
        /\ from.retention_proofs \in {<<>>} \union {<<p>> : p \in NewProofs}
    BY DEF Builders
  <2>6. b.events \in Seq(Rows) /\ DOMAIN b.events = 1..Len(b.events) /\ Len(b.events) \in Nat
    BY <2>1 DEF BundleShape
  <2>7. first_bad(b.events) = 0 /\ chain_ok(b) /\ agreement(b)
    <3>1. first_bad(b.events) = 0
      BY <2>3, <2>6, FirstBad
    <3>2. b.report.ok = (first_bad(b.events) = 0)
      BY <2>4
    <3>3. QED
      BY <3>1, <3>2 DEF chain_ok, agreement
  <2>8. Seqs(b) = 0..Len(b.events) - 1
    <3>1. Seqs(b) \subseteq 0..Len(b.events) - 1
      BY <2>3, <2>6 DEF Seqs
    <3>2. ASSUME NEW s \in 0..Len(b.events) - 1
          PROVE  s \in Seqs(b)
      <4>1. s + 1 \in DOMAIN b.events /\ s = (s + 1) - 1
        BY <2>6
      <4>2. b.events[s + 1].seq = s
        BY <2>3, <4>1
      <4>3. QED
        BY <4>1, <4>2 DEF Seqs
    <3>3. QED
      BY <3>1, <3>2
  <2>9. first_with(b.events, "malformed") = 0 /\ first_with(b.events, "not_canonical") = 0
    <3>1. \A i \in DOMAIN b.events : b.events[i].form = "ok"
      <4>1. \A i \in DOMAIN b.events : b.events[i] \in NewRows
        BY <2>4, <2>5, <2>6
      <4>2. QED
        BY <4>1 DEF NewRows
    <3>2. QED
      BY <2>6, <3>1, FirstWith
  <2>10. schema_error(b) = none
    <3>1. \A a \in b.anchoring : a.status # "other"
      BY <2>4 DEF Anchorings
    <3>2. QED
      BY <2>4, <2>9, <3>1, NoSchemaError
  <2>11. \A gate \in BOOLEAN : ~raises_canonicalization(b, gate)
    BY <2>9 DEF raises_canonicalization
  <2>12. policy_ok(b)
    BY <2>3, <2>4, <2>6 DEF policy_ok
  <2>13. retention_ok(b)
    <3> SUFFICES ASSUME NEW list \in b.retention_proofs
                 PROVE  /\ \A i \in DOMAIN list : list[i].form = "ok" /\ list[i].ref \in Seqs(b)
                        /\ \A i, j \in DOMAIN list : i # j => list[i].id # list[j].id
      BY DEF retention_ok
    <3>1. PICK p \in NewProofs : list = <<p>>
      BY <2>4, <2>5 DEF Optional
    <3>2. DOMAIN list = {1} /\ list[1] = p
      BY <3>1
    <3>3. p \in ToSet(list)
      BY <3>2 DEF ToSet
    <3>4. p.form = "ok" /\ p.ref \in Nat /\ p.ref < Len(b.events)
      BY <2>3, <3>3 DEF NewProofs
    <3>5. p.ref \in Seqs(b)
      BY <2>6, <2>8, <3>4
    <3>6. QED
      BY <3>2, <3>4, <3>5
  <2>14. ASSUME NEW nonEmpty \in BOOLEAN, NEW signed_reason, ~(nonEmpty /\ b.events = <<>>),
                signed_reason = none
         PROVE  Clean(b, nonEmpty, signed_reason)
    <3>1. b.report.first_bad = first_bad(b.events)
      BY <2>4
    <3>2. metadata_reason(b, nonEmpty) = none
      BY <2>1, <2>4, <2>7, <2>14, <3>1, NoMetadataReason
    <3>3. QED
      BY <2>3, <2>7, <2>12, <2>13, <2>14, <3>2 DEF Clean
  <2>15. ~taxonomy_failure(b, {"1"})
    BY <2>4 DEF taxonomy_failure
  <2>16. TextExit(b, FALSE, FALSE, {"1"}) = Verified
    <3>1. Clean(b, FALSE, SignedReason(b, FALSE, FALSE))
      BY <2>14 DEF SignedReason
    <3>2. Accepted(b, FALSE, FALSE, {"1"})
      BY <2>4, <2>10, <2>11, <2>15, <3>1 DEF Accepted
    <3>3. QED
      BY <2>1, <3>2, TextAccepts
  <2>17. ASSUME NEW l \in b.signatures, NEW r \in ToSet(l), r.seq < Len(b.events)
         PROVE  JsonExit(b, TRUE, TRUE, {"1"}) = Verified
    <3>1. \A k \in b.signatures : k \in Seq(NewSignatures)
      BY <2>4, <2>5 DEF Optional
    <3>2. b.events # <<>> /\ signed_schema_reason(b) = none
      BY <2>6, <2>8, <2>17, <3>1, SignatureFound
    <3>3. Clean(b, TRUE, SignedReason(b, TRUE, TRUE))
      BY <2>14, <3>2 DEF SignedReason
    <3>4. Accepted(b, TRUE, TRUE, {"1"})
      BY <2>4, <2>10, <2>11, <2>15, <3>3 DEF Accepted
    <3>5. ~canonicalization_probe(b)
      BY <2>9 DEF canonicalization_probe
    <3>6. QED
      BY <2>4, <3>4, <3>5, JsonAccepts
  <2>18. QED
    BY <2>16, <2>17 DEF b
<1>3. QED
  BY <1>1, <1>2, EvidenceKept, BundleKept, PTL DEF VerificationSpec

-----------------------------------------------------------------------------
(* The front ends read the same bundle.                                    *)

\* python -m attestplane.verifier accepts what the verifier does.
LEMMA ModuleAccepts ==
    ASSUME NEW b, NEW strict \in BOOLEAN, BundleShape(b)
    PROVE  ModuleExit(b, strict) = 0 <=> Accepted(b, strict, strict, {})
<1> DEFINE result == verify_proof_bundle(b, strict, strict)
           raises == raises_canonicalization(b, strict)
           clean == Clean(b, strict, SignedReason(b, strict, strict))
<1>1. /\ schema_error(b) # none => result.raised = "schema"
      /\ schema_error(b) = none /\ raises => result.raised = "canonicalization"
  BY Outcome
<1>2. schema_error(b) = none /\ ~raises => result.raised = none /\ result.ok = clean
  BY ResultExit
<1>3. ModuleExit(b, strict) =
          CASE b.file = "not_utf8" -> Traceback
            [] b.file \in {"missing", "not_json", "not_object"} -> 2
            [] OTHER -> IF result.raised = "canonicalization" THEN Traceback
                        ELSE IF result.raised = none /\ result.ok THEN 0 ELSE 2
  BY Zenon DEF ModuleExit
<1>4. clean \in BOOLEAN
  BY DEF Clean
<1> HIDE DEF result, raises, clean
<1>5. ModuleExit(b, strict) = 0 <=>
          b.file \in {"ok", "duplicate_key"} /\ schema_error(b) = none /\ ~raises /\ clean
  BY <1>1, <1>2, <1>3, <1>4 DEF BundleShape, Files, Traceback, none
<1>6. QED
  BY <1>5 DEF raises, clean, Accepted, taxonomy_failure

\* Where the JSON front end finds a row without canonical form, the verifier
\* does not accept the bundle either.
LEMMA ProbedIsRejected ==
    ASSUME NEW b, NEW nonEmpty \in BOOLEAN, NEW gate \in BOOLEAN, NEW signed_reason,
           canonicalization_probe(b), ~raises_canonicalization(b, gate)
    PROVE  ~Clean(b, nonEmpty, signed_reason)
BY DEF canonicalization_probe, raises_canonicalization, Clean, chain_ok

\* The text and the JSON front end, with the same options.
LEMMA ExitsMatch ==
    ASSUME NEW b, NEW nonEmpty \in BOOLEAN, NEW strict \in BOOLEAN, NEW pin, BundleShape(b)
    PROVE  LET text == TextExit(b, nonEmpty, strict, pin)
               json == JsonExit(b, nonEmpty, strict, pin)
           IN \/ text = json
              \/ b.file \in {"not_utf8", "duplicate_key"}
              \/ b.file = "not_object" /\ pin # {}
              \/ canonicalization_probe(b) /\ json = Failed /\ text = Quarantined
<1> DEFINE result == verify_proof_bundle(b, nonEmpty, strict)
           raises == raises_canonicalization(b, strict \/ nonEmpty)
           clean == Clean(b, nonEmpty, SignedReason(b, nonEmpty, strict))
           exit == verify_result_exit_code(result)
           text == TextExit(b, nonEmpty, strict, pin)
           json == JsonExit(b, nonEmpty, strict, pin)
<1>1. /\ schema_error(b) # none => result.raised = "schema"
      /\ schema_error(b) = none /\ raises => result.raised = "canonicalization"
  BY Outcome
<1>2. schema_error(b) = none /\ ~raises =>
          /\ result.raised = none
          /\ exit = IF clean THEN Verified ELSE IF result.quarantined THEN Quarantined ELSE Failed
  BY ResultExit
<1>3. text = CASE b.file \in {"missing", "not_json"} -> UsageError
               [] b.file = "not_utf8" -> Traceback
               [] b.file = "not_object" -> IF pin = {} THEN Quarantined ELSE Traceback
               [] b.file \in {"ok", "duplicate_key"} ->
                  IF taxonomy_failure(b, pin) \/ result.raised = "schema" THEN Quarantined
                  ELSE IF result.raised = "canonicalization" THEN Failed ELSE exit
  BY Zenon DEF TextExit
<1>4. json = CASE b.file \in {"missing", "not_utf8", "not_json", "duplicate_key"} -> UsageError
               [] b.file = "not_object" -> Quarantined
               [] b.file = "ok" ->
                  IF taxonomy_failure(b, pin) THEN Quarantined
                  ELSE IF canonicalization_probe(b) THEN Failed
                  ELSE IF result.raised = "schema" THEN Quarantined
                  ELSE IF result.raised = "canonicalization" THEN Failed
                  ELSE exit
  BY Zenon DEF JsonExit
<1>5. canonicalization_probe(b) /\ ~raises => ~clean
  BY ProbedIsRejected
<1> HIDE DEF result, raises, clean, exit, text, json
<1>6. \/ text = json
      \/ b.file \in {"not_utf8", "duplicate_key"}
      \/ b.file = "not_object" /\ pin # {}
      \/ canonicalization_probe(b) /\ json = Failed /\ text = Quarantined
  BY <1>1, <1>2, <1>3, <1>4, <1>5 DEF BundleShape, Files, Verified, Failed, Quarantined, none
<1>7. QED
  BY <1>6 DEF text, json

\* The three exits.
LEMMA ExitsAreTheSame == BundleInv => ExitsAgree
<1> SUFFICES ASSUME BundleInv, NEW nonEmpty \in BOOLEAN, NEW strict \in BOOLEAN, NEW pin \in Pins
             PROVE  LET text == TextExit(bundle, nonEmpty, strict, pin)
                        json == JsonExit(bundle, nonEmpty, strict, pin)
                    IN  /\ nonEmpty = strict /\ pin = {} =>
                               (ModuleExit(bundle, strict) = 0) = (text = Verified)
                        /\ \/ text = json
                           \/ bundle.file \in {"not_utf8", "duplicate_key"}
                           \/ bundle.file = "not_object" /\ pin # {}
                           \/ canonicalization_probe(bundle) /\ json = Failed /\ text = Quarantined
  BY Zenon DEF ExitsAgree
<1>1. BundleShape(bundle)
  BY DEF BundleInv
<1>2. ASSUME nonEmpty = strict, pin = {}
      PROVE  (ModuleExit(bundle, strict) = 0) = (TextExit(bundle, nonEmpty, strict, pin) = Verified)
  BY <1>1, <1>2, ModuleAccepts, TextAccepts
<1>3. QED
  BY <1>1, <1>2, ExitsMatch

-----------------------------------------------------------------------------
(* What the reports say.                                                   *)

\* The reasons of the JSON report start with the first the verifier found.
LEMMA JsonReasons ==
    ASSUME NEW b, NEW nonEmpty \in BOOLEAN, NEW strict \in BOOLEAN, NEW result,
           result.signed_reason = SignedReason(b, nonEmpty, strict),
           Head(result.reasons) = FirstReason(b, nonEmpty, result.signed_reason),
           ~Clean(b, nonEmpty, result.signed_reason)
    PROVE  Head(bundle_failure_reason(result, b, nonEmpty, {b})) = Head(result.reasons)
<1> DEFINE primary == Head(result.reasons)
           signed_code == IF primary \in {"REQUIRED_FIELD_MISSING", "SIGNATURE_INVALID", "SIGNATURE_MISSING"}
                          THEN primary ELSE "SIGNATURE_INVALID"
           metadata == metadata_reason(b, nonEmpty)
           quarantine == \E h \in {b} : explicit_quarantine(h)
           p1 == IF ~chain_ok(b) \/ ~agreement(b) THEN <<"CANONICAL_MISMATCH">> ELSE <<>>
           p2 == IF FALSE THEN <<"none">> ELSE <<>>
           p3 == IF result.signed_reason # none THEN <<signed_code>> ELSE <<>>
           p4 == IF metadata # none THEN <<metadata>> ELSE <<>>
           p5 == IF ~policy_ok(b) THEN <<"STRUCTURE_INVALID">> ELSE <<>>
           p6 == IF ~retention_ok(b) THEN <<"STRUCTURE_INVALID">> ELSE <<>>
           p7 == IF quarantine THEN <<"ANCHOR_INVALID">> ELSE <<>>
           listed == Joined(p1, p2, p3, p4, p5, p6, p7)
           reported == bundle_failure_reason(result, b, nonEmpty, {b})
<1>1. reported = IF listed = <<>> THEN <<"STRUCTURE_INVALID">> ELSE listed
  <2> DEFINE found == p1 \o p3 \o p4 \o p5 \o p6 \o p7
  <2>1. reported = IF found = <<>> THEN <<"STRUCTURE_INVALID">> ELSE found
    BY Zenon DEF bundle_failure_reason
  <2>2. p1 \o p2 = p1
    <3>1. p2 = <<>> /\ (p1 = <<>> \/ p1 = <<"CANONICAL_MISMATCH">>)
      BY Zenon
    <3> HIDE DEF p1, p2
    <3>2. CASE p1 = <<>>
      BY <3>1, <3>2
    <3>3. CASE p1 = <<"CANONICAL_MISMATCH">>
      BY <3>1, <3>3
    <3>4. QED
      BY <3>1, <3>2, <3>3
  <2>3. listed = found
    BY <2>2, Zenon DEF Joined
  <2>4. QED
    BY <2>1, <2>3
<1>2. Says(p1, "CANONICAL_MISMATCH") /\ (Empty(p1) <=> chain_ok(b) /\ agreement(b))
  BY OnePiece
<1>3. Says(p2, "none") /\ Empty(p2)
  BY OnePiece
<1>4. Says(p3, signed_code) /\ (Empty(p3) <=> result.signed_reason = none)
  BY OnePiece
<1>5. Says(p4, metadata) /\ (Empty(p4) <=> metadata = none)
  BY OnePiece
<1>6. Says(p5, "STRUCTURE_INVALID") /\ (Empty(p5) <=> policy_ok(b))
  BY OnePiece
<1>7. Says(p6, "STRUCTURE_INVALID") /\ (Empty(p6) <=> retention_ok(b))
  BY OnePiece
<1>8. Says(p7, "ANCHOR_INVALID") /\ (Empty(p7) <=> ~explicit_quarantine(b))
  <2>1. quarantine <=> explicit_quarantine(b)
    OBVIOUS
  <2>2. Says(p7, "ANCHOR_INVALID") /\ (Empty(p7) <=> ~quarantine)
    BY OnePiece
  <2>3. QED
    BY <2>1, <2>2
<1> HIDE DEF metadata, p1, p2, p3, p4, p5, p6, p7, signed_code, quarantine
<1>9. /\ Empty(listed) <=> /\ Empty(p1) /\ Empty(p2) /\ Empty(p3) /\ Empty(p4)
                           /\ Empty(p5) /\ Empty(p6) /\ Empty(p7)
      /\ ~Empty(listed) => Head(listed) =
             FirstOf(p1, p2, p3, p4, p5, p6, "CANONICAL_MISMATCH", "none", signed_code, metadata,
                     "STRUCTURE_INVALID", "STRUCTURE_INVALID", "ANCHOR_INVALID")
  BY <1>2, <1>3, <1>4, <1>5, <1>6, <1>7, <1>8, SevenReasons
<1> HIDE DEF listed, reported
<1>10. result.signed_reason \in {none, "REQUIRED_FIELD_MISSING", "SIGNATURE_MISSING", "SIGNATURE_INVALID"}
  <2>1. signed_schema_reason(b) \in
            {none, "REQUIRED_FIELD_MISSING", "SIGNATURE_MISSING", "SIGNATURE_INVALID"}
    BY Zenon DEF signed_schema_reason
  <2>2. QED
    BY <2>1 DEF SignedReason
<1>11. nonEmpty /\ b.events = <<>> => result.signed_reason = "REQUIRED_FIELD_MISSING"
  BY DEF SignedReason, signed_schema_reason
<1>12. ~Empty(listed) /\ Head(listed) = primary
  BY <1>2, <1>3, <1>4, <1>5, <1>6, <1>7, <1>8, <1>9, <1>10, <1>11
     DEF Clean, FirstReason, FirstOf, signed_code, metadata, none
<1>13. QED
  BY <1>1, <1>12 DEF Empty, reported

\* The reasons, the anchoring status and the auditor export of one bundle.
LEMMA ReportsAreTheSame == BundleInv => ReportsAgree
<1> SUFFICES ASSUME BundleInv, NEW nonEmpty \in BOOLEAN, NEW strict \in BOOLEAN,
                    verify_proof_bundle(bundle, nonEmpty, strict).raised = none
             PROVE  LET result == verify_proof_bundle(bundle, nonEmpty, strict)
                    IN /\ ~result.ok =>
                              Head(bundle_failure_reason(result, bundle, nonEmpty, {bundle}))
                                  = Head(result.reasons)
                       /\ anchoring_payload(bundle, verify_result_exit_code(result))
                              = result.anchoring_status
                       /\ result.ok => (result.anchoring_status = "verified")
                                           = (auditor_anchor_status(bundle) = "anchored")
  BY Zenon DEF ReportsAgree
<1> DEFINE b == bundle
           result == verify_proof_bundle(b, nonEmpty, strict)
           signed_reason == SignedReason(b, nonEmpty, strict)
           clean == Clean(b, nonEmpty, signed_reason)
           exit == verify_result_exit_code(result)
           Anchored == \/ \E a \in b.anchoring : a.status = "anchored"
                       \/ b.anchoring = {} /\ b.anchor_ref
<1>1. schema_error(b) = none /\ ~raises_canonicalization(b, strict \/ nonEmpty)
  <2>1. /\ schema_error(b) # none => result.raised = "schema"
        /\ schema_error(b) = none /\ raises_canonicalization(b, strict \/ nonEmpty)
               => result.raised = "canonicalization"
    BY Outcome
  <2>2. QED
    BY <2>1 DEF none
<1>2. /\ result.reasons = all_reasons(b, nonEmpty, signed_reason)
      /\ result.signed_reason = signed_reason
      /\ result.quarantined = \/ explicit_quarantine(b)
                              \/ incomplete(b, nonEmpty, signed_reason)
                              \/ result.reasons # <<>> /\ Head(result.reasons) \in Quarantining
      /\ result.anchoring_status = IF result.quarantined THEN "quarantined"
                                   ELSE IF Anchored THEN "verified" ELSE "absent"
  <2> DEFINE reasons == all_reasons(b, nonEmpty, signed_reason)
  <2>1. /\ result.reasons = reasons /\ result.signed_reason = signed_reason
        /\ result.quarantined = \/ explicit_quarantine(b)
                                \/ incomplete(b, nonEmpty, signed_reason)
                                \/ reasons # <<>> /\ Head(reasons) \in Quarantining
        /\ result.anchoring_status = IF result.quarantined THEN "quarantined"
                                     ELSE IF Anchored THEN "verified" ELSE "absent"
    BY <1>1, Outcome
  <2> HIDE DEF result, reasons, Anchored
  <2>2. QED
    BY <2>1 DEF reasons
<1>3. result.ok = clean /\ (result.quarantined => ~clean) /\ clean \in BOOLEAN
      /\ exit = IF clean THEN Verified ELSE IF result.quarantined THEN Quarantined ELSE Failed
  BY <1>1, ResultExit DEF Clean
<1>4. ~clean => Head(result.reasons) = FirstReason(b, nonEmpty, signed_reason)
  BY <1>2, Reasons
<1> HIDE DEF result, clean, exit, Anchored
<1>5. ~result.ok => Head(bundle_failure_reason(result, b, nonEmpty, {b})) = Head(result.reasons)
  BY <1>2, <1>3, <1>4, JsonReasons DEF clean
<1>6. anchoring_payload(b, exit) = result.anchoring_status
  <2>1. anchoring_payload(b, exit) =
            IF exit = Quarantined \/ explicit_quarantine(b) THEN "quarantined"
            ELSE IF Anchored THEN "verified" ELSE "absent"
    BY Zenon DEF anchoring_payload, Anchored
  <2>2. exit = Quarantined \/ explicit_quarantine(b) <=> result.quarantined
    BY <1>2, <1>3 DEF Verified, Quarantined, Failed
  <2>3. QED
    BY <1>2, <2>1, <2>2
<1>7. result.ok => (result.anchoring_status = "verified") = (auditor_anchor_status(b) = "anchored")
  <2>1. auditor_anchor_status(b) = "anchored" <=> Anchored
    <3>1. CASE b.anchoring = {}
      BY <3>1 DEF auditor_anchor_status, Anchored
    <3>2. CASE b.anchoring # {}
      <4>1. PICK a \in b.anchoring : b.anchoring = {a}
        BY <3>2 DEF BundleInv, BundleShape
      <4>2. (CHOOSE c \in b.anchoring : TRUE) = a
        BY <4>1
      <4>3. QED
        BY <3>2, <4>1, <4>2 DEF auditor_anchor_status, Anchored
    <3>3. QED
      BY <3>1, <3>2
  <2>2. QED
    BY <1>2, <1>3, <2>1
<1>8. QED
  BY <1>5, <1>6, <1>7 DEF result, exit

\* The module, the text and the JSON front end exit alike on every bundle, and
\* what their reports say of one bundle fits together (main, cmd_verify,
\* build_verify_json_outcome).
THEOREM ReadersAreToldTheSame == VerificationSpec => []FrontEndsAgree
<1>1. VerificationInit => EvidenceInv /\ BundleInv
  BY EvidenceAtFirst, BundleAtFirst DEF VerificationInit
<1>2. BundleInv => FrontEndsAgree
  BY ExitsAreTheSame, ReportsAreTheSame DEF FrontEndsAgree
<1>3. QED
  BY <1>1, <1>2, EvidenceKept, BundleKept, PTL DEF VerificationSpec

-----------------------------------------------------------------------------
(* The anchors that are found valid.                                       *)

\* The candidate that is found has the name of the issuer.
LEMMA FoundIssuer ==
    ASSUME NEW pool, Listed(pool), NEW c, NEW d \in _find_issuer(c, pool)
    PROVE  d \in ToSet(pool) /\ d.subject = c.issuer
<1> DEFINE found == {i \in 1..Len(pool) : pool[i].subject = c.issuer}
           i == SelectInSeq(pool, LAMBDA x : x.subject = c.issuer)
<1>1. i = IF found # {} THEN Min(found) ELSE 0
  BY Zenon DEF SelectInSeq
<1>2. _find_issuer(c, pool) = IF i = 0 THEN {} ELSE {pool[i]}
  BY Zenon DEF _find_issuer
<1>3. found \subseteq Nat /\ Len(pool) \in Nat
  BY DEF Listed
<1> HIDE DEF i
<1>4. i \in found /\ d = pool[i]
  BY <1>1, <1>2, <1>3, MinIsIn
<1>5. QED
  BY <1>4, ListedElements DEF Listed

\* OcspVerdict is good only if every answer is.
LEMMA AllAnswersGood ==
    ASSUME NEW a, Answers(a.ocsp), NEW roots, NEW t,
           OcspVerdict(a, roots, t) \notin {"failed", "unknown", "revoked"}
    PROVE  \A r \in ToSet(a.ocsp) : r.about = a.leaf /\ r.status = "good" /\ Fresh(r, t)
<1> DEFINE issuer == OcspIssuer(a, roots)
           Usable(r) == parse_and_verify_ocsp(r, a.leaf, issuer, t)
           bad == {k \in 1..Len(a.ocsp) : ~Usable(a.ocsp[k]) \/ a.ocsp[k].status # "good"}
           i == SelectInSeq(a.ocsp, LAMBDA r : ~Usable(r) \/ r.status # "good")
<1>1. i = IF bad # {} THEN Min(bad) ELSE 0
  BY Zenon DEF SelectInSeq
<1>2. OcspVerdict(a, roots, t) = CASE i = 0 -> "good"
                                   [] i # 0 /\ Usable(a.ocsp[i]) -> a.ocsp[i].status
                                   [] OTHER -> "failed"
  BY Zenon DEF OcspVerdict
<1>3. /\ Len(a.ocsp) \in Nat
      /\ \A x : x \in ToSet(a.ocsp) <=> \E k \in 1..Len(a.ocsp) : x = a.ocsp[k]
  BY ListedElements DEF Answers, Listed
<1>4. bad # {} => i \in bad /\ i # 0
  <2>1. bad \subseteq Nat /\ 0 \notin bad
    BY <1>3
  <2>2. QED
    BY <1>1, <2>1, MinIsIn
<1>5. bad # {} => a.ocsp[i].status \in {"good", "revoked", "unknown"}
  BY <1>3, <1>4 DEF Answers
<1> HIDE DEF i
<1>6. bad = {}
  <2> SUFFICES ASSUME bad # {} PROVE FALSE
    OBVIOUS
  <2>1. i # 0 /\ (~Usable(a.ocsp[i]) \/ a.ocsp[i].status # "good")
    BY <1>4
  <2> HIDE DEF Usable, bad
  <2>2. QED
    BY <1>2, <1>5, <2>1
<1>7. QED
  BY <1>3, <1>6 DEF parse_and_verify_ocsp

\* A walk that ends at a root is a path of genuine links: a set that is closed
\* under them holds every certificate of it, by a first one that it lacks.
LEMMA WalkIsGenuine ==
    ASSUME NEW c, NEW pool, Listed(pool), NEW roots, Listed(roots), NEW t, Walk(c, pool, roots, t)
    PROVE  Genuine(c, pool, roots, t)
<1> DEFINE Issued(x, d) == x.issuer = d.subject /\ _verify_link(x, d, t)
           all == {c} \union ToSet(pool)
           Leads(n, path) ==
               /\ path[1] = c
               /\ \A i \in 1..n - 1 : /\ path[i + 1] \in _find_issuer(path[i], pool)
                                      /\ path[i + 1].ca /\ _verify_link(path[i], path[i + 1], t)
               /\ \E root \in _find_issuer(path[n], roots) : _verify_link(path[n], root, t)
<1>0. PICK n \in 1..Cardinality(all) : \E path \in [1..n -> all] : Leads(n, path)
  BY Zenon DEF Walk
<1>1. PICK path \in [1..n -> all] : Leads(n, path)
  BY <1>0
<1> SUFFICES ASSUME NEW certs \in SUBSET all, c \in certs,
                    \A x \in certs, d \in ToSet(pool) : d.ca /\ Issued(x, d) => d \in certs
             PROVE  \E x \in certs, root \in ToSet(roots) : Issued(x, root)
  BY Zenon DEF Genuine
<1>2. n \in Nat /\ n >= 1
  OBVIOUS
<1> DEFINE out == {i \in 1..n : path[i] \notin certs}
<1>3. out = {}
  <2> SUFFICES ASSUME out # {} PROVE FALSE
    OBVIOUS
  <2>1. PICK i \in out : \A j \in out : i <= j
    <3>1. out \subseteq Nat
      BY <1>2
    <3>2. QED
      BY <3>1, LeastOf
  <2>2. i # 1
    BY <1>1
  <2>3. i - 1 \in 1..n - 1 /\ i - 1 \in 1..n /\ i - 1 + 1 = i /\ ~(i <= i - 1)
    BY <1>2, <2>2
  <2>4. path[i - 1] \in certs
    BY <2>1, <2>3
  <2>5. path[i] \in _find_issuer(path[i - 1], pool) /\ path[i].ca /\ _verify_link(path[i - 1], path[i], t)
    BY <1>1, <2>3
  <2>6. path[i] \in ToSet(pool) /\ path[i].subject = path[i - 1].issuer
    BY <2>5, FoundIssuer
  <2>7. path[i] \in certs
    BY <2>4, <2>5, <2>6
  <2>8. QED
    BY <2>7
<1>4. path[n] \in certs
  BY <1>2, <1>3
<1>5. PICK root \in _find_issuer(path[n], roots) : _verify_link(path[n], root, t)
  BY <1>1
<1>6. root \in ToSet(roots) /\ root.subject = path[n].issuer
  BY <1>5, FoundIssuer
<1>7. QED
  BY <1>4, <1>5, <1>6

\* A valid anchor is sound.
LEMMA ValidIsSound ==
    ASSUME NEW a, ListedAnchor(a), NEW chain, NEW trust \in TrustLists, NEW t,
           valid(a, chain, trust, t)
    PROVE  SoundAnchor(a, trust, t) /\ trust # {} /\ chain[a.seq + 1] = a.event
<1> DEFINE roots == CHOOSE r \in trust : TRUE
           verifies == verify_timestamp_token(a, a.event, a.chain, roots, t)
           rekor == verify_rekor_signed_entry_timestamp(a, a.event)
           verdict == OcspVerdict(a, roots, t)
<1>1. cert_status(a, chain, trust, t) =
          IF ~CrossReferenced(a, chain) THEN "MISSING_LTV_ARTIFACTS"
          ELSE IF trust = {} THEN "VALID_UNVERIFIED"
          ELSE IF a.provider = "rekor" THEN IF rekor THEN "VALID" ELSE "MISSING_LTV_ARTIFACTS"
          ELSE IF ~verifies \/ verdict \in {"failed", "unknown"} THEN "MISSING_LTV_ARTIFACTS"
          ELSE IF verdict = "revoked" THEN "REVOKED" ELSE "VALID"
  BY Zenon DEF cert_status
<1> HIDE DEF roots, verifies, rekor, verdict
<1>2. /\ CrossReferenced(a, chain) /\ trust # {}
      /\ a.provider = "rekor" => rekor
      /\ a.provider # "rekor" => verifies /\ verdict \notin {"failed", "unknown", "revoked"}
  BY <1>1 DEF valid
<1>3. \A r \in trust : r = roots /\ Listed(r)
  <2>1. roots \in trust
    BY <1>2 DEF roots
  <2>2. QED
    BY <2>1, EvidenceAssumption DEF Listed
<1>4. chain[a.seq + 1] = a.event
  BY <1>2 DEF CrossReferenced
<1>5. CASE a.provider = "rekor"
  BY <1>2, <1>4, <1>5 DEF rekor, verify_rekor_signed_entry_timestamp, SoundAnchor
<1>6. CASE a.provider # "rekor"
  <2>1. a.imprint = a.event /\ Walk(a.leaf, a.chain, roots, t)
    BY <1>2, <1>6 DEF verifies, verify_timestamp_token, parse_timestamp_response
  <2>2. \A r \in trust : Genuine(a.leaf, a.chain, r, t)
    BY <1>3, <2>1, WalkIsGenuine DEF ListedAnchor
  <2>3. \A r \in ToSet(a.ocsp) : r.about = a.leaf /\ r.status = "good" /\ Fresh(r, t)
    BY <1>2, <1>6, AllAnswersGood DEF ListedAnchor, verdict
  <2>4. QED
    BY <1>2, <1>4, <1>6, <2>1, <2>2, <2>3, Zenon DEF SoundAnchor
<1>7. QED
  BY <1>5, <1>6

\* Verified anchors are those of the chain as it is now; RFC 3161 ones have a
\* genuine path to a root and answers that are good and in date, Rekor ones are
\* signed by the key they name themselves (verify_chain_with_anchors), for any
\* certificates, logs, roots and clocks.
THEOREM VerifiedIsSound == VerificationSpec => []VerifiedMeansSound
<1>1. VerificationInit => EvidenceInv
  BY EvidenceAtFirst DEF VerificationInit
<1>2. EvidenceInv => VerifiedMeansSound
  <2> SUFFICES ASSUME EvidenceInv, NEW trust \in TrustLists, NEW t \in Times
               PROVE  /\ verification_status(events, trust, t) = "verified" =>
                             /\ FullOk(events, trust, t)
                             /\ \A a \in ToSet(anchors) :
                                    SoundAnchor(a, trust, t) /\ trust # {} /\ events[a.seq + 1] = a.event
                      /\ \A a \in ToSet(anchors) :
                             LiveVerdict(a, trust, t) = "verified" =>
                                 SoundAnchor(a, trust, t) /\ trust # {}
    BY Zenon DEF VerifiedMeansSound
  <2>1. ASSUME verification_status(events, trust, t) = "verified"
        PROVE  \A a \in ToSet(anchors) : valid(a, events, trust, t)
    <3> DEFINE statuses == {cert_status(a, events, trust, t) : a \in ToSet(anchors)}
    <3>1. "verified" = CASE statuses = {} -> "not_performed"
                         [] statuses = {"VALID"} -> "verified"
                         [] trust = {} /\ statuses = {"VALID_UNVERIFIED"} -> "quarantined"
                         [] OTHER -> "failed"
      BY <2>1, Zenon DEF verification_status
    <3>2. \A a \in ToSet(anchors) : cert_status(a, events, trust, t) \in statuses
      OBVIOUS
    <3> HIDE DEF statuses
    <3>3. statuses = {"VALID"}
      BY <3>1
    <3>4. QED
      BY <3>2, <3>3 DEF valid
  <2>2. ASSUME NEW a \in ToSet(anchors), LiveVerdict(a, trust, t) = "verified"
        PROVE  valid(a, <<a.event>>, trust, t)
    BY <2>2 DEF LiveVerdict
  <2>3. QED
    BY <2>1, <2>2, ValidIsSound DEF EvidenceInv, FullOk
<1>3. QED
  BY <1>1, <1>2, EvidenceKept, PTL DEF VerificationSpec

-----------------------------------------------------------------------------
(* More evidence.                                                          *)

SignatureStatuses == {"valid", "expired_key", "invalid", "unknown_key"}

Best(found) == CHOOSE x \in found : \A y \in found : Rank[x] <= Rank[y]

\* What the records in R say of the event at s.
Found(R, s, chain, trusted, t) ==
    {_verify_single_signature(r, chain, trusted, t) : r \in {q \in R : q.seq = s}}

\* What a record can say.
LEMMA FoundStatuses ==
    ASSUME NEW R, NEW s, NEW chain, NEW trusted, NEW t
    PROVE  Found(R, s, chain, trusted, t) \subseteq SignatureStatuses
BY DEF Found, _verify_single_signature, SignatureStatuses

\* Nothing but valid ranks as well as valid.
LEMMA RankOf ==
    /\ \A x \in SignatureStatuses : Rank[x] \in Nat
    /\ \A x \in SignatureStatuses : Rank[x] <= Rank["valid"] => x = "valid"
BY DEF Rank, SignatureStatuses

\* A set of statuses has a best one.
LEMMA BestIsFound ==
    ASSUME NEW found, found \subseteq SignatureStatuses, found # {}
    PROVE  Best(found) \in found /\ \A y \in found : Rank[Best(found)] <= Rank[y]
<1> DEFINE ranks == {Rank[x] : x \in found}
<1>1. ranks \subseteq Nat /\ ranks # {}
  BY RankOf
<1>2. PICK k \in ranks : \A j \in ranks : k <= j
  BY <1>1, LeastOf
<1>3. \E x \in found : \A y \in found : Rank[x] <= Rank[y]
  <2>1. PICK x \in found : k = Rank[x]
    BY <1>2
  <2>2. \A y \in found : Rank[x] <= Rank[y]
    BY <1>2, <2>1
  <2>3. QED
    BY <2>2
<1>4. QED
  BY <1>3 DEF Best

\* A larger set of records says at least as much for every event.
LEMMA MoreRecordsAdd ==
    ASSUME NEW R, NEW T, R \subseteq T, NEW s, NEW chain, NEW trusted, NEW t,
           \E r \in R : r.seq = s
    PROVE  Rank[Best(Found(T, s, chain, trusted, t))] <= Rank[Best(Found(R, s, chain, trusted, t))]
           /\ (Best(Found(R, s, chain, trusted, t)) = "valid"
                   => Best(Found(T, s, chain, trusted, t)) = "valid")
<1> DEFINE F == Found(R, s, chain, trusted, t)
           G == Found(T, s, chain, trusted, t)
<1>1. F # {} /\ F \subseteq G
  BY DEF Found
<1>2. G \subseteq SignatureStatuses /\ F \subseteq SignatureStatuses
  BY FoundStatuses
<1> HIDE DEF F, G
<1>3. Best(F) \in F /\ Best(G) \in G /\ Rank[Best(G)] <= Rank[Best(F)]
  BY <1>1, <1>2, BestIsFound
<1>4. Best(F) = "valid" => Best(G) = "valid"
  BY <1>2, <1>3, RankOf
<1>5. QED
  BY <1>3, <1>4 DEF F, G

\* One record more, and nobody loses anything.
LEMMA RecordAdded ==
    ASSUME ToSet(records) \subseteq ToSet(records'), events' = events,
           NEW trusted, NEW t
    PROVE  /\ Covered(events, trusted, t) \subseteq Covered(events, trusted, t)'
           /\ \A s \in SignedSeqs :
                  Rank[_merge_status_at_seq(s, events, trusted, t)']
                      <= Rank[_merge_status_at_seq(s, events, trusted, t)]
<1> DEFINE old(s) == Best(Found(ToSet(records), s, events, trusted, t))
           new(s) == Best(Found(ToSet(records'), s, events, trusted, t))
<1>1. ASSUME NEW s
      PROVE  /\ _merge_status_at_seq(s, events, trusted, t) = old(s)
             /\ _merge_status_at_seq(s, events, trusted, t)' = new(s)
  <2>1. _merge_status_at_seq(s, events, trusted, t) = old(s)
    BY Zenon DEF _merge_status_at_seq, Best, Found
  <2>2. _merge_status_at_seq(s, events, trusted, t)' = Best(Found(ToSet(records'), s, events', trusted, t))
    BY Zenon DEF _merge_status_at_seq, Best, Found
  <2>3. QED
    BY <2>1, <2>2
<1>2. \A s \in SignedSeqs : \E r \in ToSet(records) : r.seq = s
  BY DEF SignedSeqs
<1>3. \A s \in SignedSeqs : Rank[new(s)] <= Rank[old(s)] /\ (old(s) = "valid" => new(s) = "valid")
  BY <1>2, MoreRecordsAdd
<1>4. SignedSeqs \subseteq SignedSeqs'
  BY DEF SignedSeqs
<1>5. \A s : per_seq_modes(s) \subseteq per_seq_modes(s)'
  BY DEF per_seq_modes
<1> HIDE DEF old, new
<1> DEFINE good == {s \in SignedSeqs : _merge_status_at_seq(s, events, trusted, t) = "valid"}
           heads == {s \in good : "segment_head" \in per_seq_modes(s)}
<1>6. good \subseteq good'
  BY <1>1, <1>3, <1>4
<1>7. heads \subseteq heads'
  BY <1>5, <1>6
<1>8. Covered(events, trusted, t) = {s \in 0..Len(events) - 1 :
                                        \/ s \in good /\ "per_event" \in per_seq_modes(s)
                                        \/ \E h \in heads : s <= h}
  BY Zenon DEF Covered
<1>9. Covered(events, trusted, t)' = {s \in 0..Len(events) - 1 :
                                         \/ s \in good' /\ "per_event" \in per_seq_modes(s)'
                                         \/ \E h \in heads' : s <= h}
  BY Zenon DEF Covered
<1> HIDE DEF good, heads
<1>10. QED
  BY <1>1, <1>3, <1>5, <1>6, <1>7, <1>8, <1>9

\* A new signature record takes no cover from any event
\* (_merge_status_at_seq, _compute_signed_segment_count).
THEOREM EvidenceAdds == VerificationSpec => EvidenceOnlyAdds
<1>1. VerificationInit => EvidenceInv
  BY EvidenceAtFirst DEF VerificationInit
<1> DEFINE Adds == Len(records') > Len(records) =>
                       \A trusted \in SUBSET Keys, t \in Times :
                           /\ Covered(events, trusted, t) \subseteq Covered(events, trusted, t)'
                           /\ \A s \in SignedSeqs :
                                  Rank[_merge_status_at_seq(s, events, trusted, t)']
                                      <= Rank[_merge_status_at_seq(s, events, trusted, t)]
<1>2. EvidenceInv /\ [VerificationNext]_allvars => [Adds]_vars
  <2> SUFFICES ASSUME EvidenceInv, [VerificationNext]_allvars, Len(records') > Len(records)
               PROVE  \A trusted \in SUBSET Keys, t \in Times :
                          /\ Covered(events, trusted, t) \subseteq Covered(events, trusted, t)'
                          /\ \A s \in SignedSeqs :
                                 Rank[_merge_status_at_seq(s, events, trusted, t)']
                                     <= Rank[_merge_status_at_seq(s, events, trusted, t)]
    OBVIOUS
  <2>1. PICK s \in 0..Len(events) - 1 : Sign(s)
    <3>1. Len(records) \in Nat
      BY DEF EvidenceInv, Listed
    <3>2. Export => Len(records') = 0
      BY DEF Export
    <3>3. ASSUME records' = records PROVE FALSE
      BY <3>1, <3>3
    <3>4. \A s : TsaAnchors(s) \/ HttpAnchors(s) \/ RekorAnchors(s) \/ MockAnchors(s) => records' = records
      BY DEF TsaAnchors, HttpAnchors, RekorAnchors, MockAnchors, Store
    <3>5. QED
      BY <3>1, <3>2, <3>3, <3>4
         DEF VerificationNext, Collect, EvidenceNext, AppendEvent, Restore, Tick, Seal, allvars, vars
  <2>2. PICK r : records' = Append(records, r) /\ events' = events
    BY <2>1 DEF Sign
  <2>3. ToSet(records) \subseteq ToSet(records')
    BY <2>2, AppendListed DEF EvidenceInv
  <2>4. QED
    BY <2>2, <2>3, RecordAdded
<1>3. QED
  BY <1>1, <1>2, EvidenceKept, PTL DEF VerificationSpec, EvidenceOnlyAdds

-----------------------------------------------------------------------------
(* The anchors that deserve to be found valid.                             *)

\* A candidate with that name is found where names are unique.
LEMMA IssuerIsFound ==
    ASSUME NEW pool, Listed(pool), NEW c, NEW d \in ToSet(pool), d.subject = c.issuer,
           \A x, y \in ToSet(pool) : x.subject = y.subject => x = y
    PROVE  _find_issuer(c, pool) = {d}
<1> DEFINE found == {i \in 1..Len(pool) : pool[i].subject = c.issuer}
           i == SelectInSeq(pool, LAMBDA x : x.subject = c.issuer)
<1>1. i = IF found # {} THEN Min(found) ELSE 0
  BY Zenon DEF SelectInSeq
<1>2. _find_issuer(c, pool) = IF i = 0 THEN {} ELSE {pool[i]}
  BY Zenon DEF _find_issuer
<1>3. /\ Len(pool) \in Nat
      /\ \A x : x \in ToSet(pool) <=> \E k \in 1..Len(pool) : x = pool[k]
  BY ListedElements DEF Listed
<1>4. found # {}
  BY <1>3
<1>5. found \subseteq Nat /\ 0 \notin found
  BY <1>3
<1> HIDE DEF i
<1>6. i \in found /\ i # 0
  BY <1>1, <1>4, <1>5, MinIsIn
<1>7. pool[i] \in ToSet(pool) /\ pool[i].subject = d.subject
  BY <1>3, <1>6
<1>8. pool[i] = d
  BY <1>7
<1>9. QED
  BY <1>2, <1>6, <1>8

\* The certificates at hand are finitely many.
LEMMA ElementsAreFinite ==
    ASSUME NEW s, Listed(s), NEW c
    PROVE  IsFiniteSet({c} \union ToSet(s)) /\ Cardinality({c} \union ToSet(s)) \in Nat
<1>1. IsFiniteSet(1..Len(s))
  <2>1. Len(s) \in Int /\ 1 \in Int
    BY DEF Listed
  <2>2. QED
    BY <2>1, FS_Interval
<1>2. s \in Surjection(1..Len(s), ToSet(s))
  <2>1. s \in [1..Len(s) -> ToSet(s)]
    BY DEF Listed
  <2>2. \A x \in ToSet(s) : \E i \in 1..Len(s) : s[i] = x
    BY ListedElements DEF Listed
  <2>3. QED
    BY <2>1, <2>2 DEF Surjection
<1>3. IsFiniteSet(ToSet(s))
  BY <1>1, <1>2, FS_Surjection
<1>4. IsFiniteSet({c} \union ToSet(s))
  <2>1. IsFiniteSet({c})
    BY FS_Singleton
  <2>2. QED
    BY <1>3, <2>1, FS_Union
<1>5. QED
  BY <1>4, FS_CardinalityType

\* Where names are unique and the depth suffices, the walk gets to a root:
\* what it may reach is closed under the links, so a root has issued one of it.
LEMMA GenuineIsWalked ==
    ASSUME NEW c, NEW pool, Listed(pool), NEW roots, Listed(roots), NEW t,
           Genuine(c, pool, roots, t), NamesAreUnique(pool, roots),
           Cardinality({c} \union ToSet(pool)) <= MaxDepth
    PROVE  Walk(c, pool, roots, t)
<1> DEFINE Issued(x, d) == x.issuer = d.subject /\ _verify_link(x, d, t)
           all == {c} \union ToSet(pool)
           Goes(n, path) ==
               /\ path[1] = c
               /\ \A i \in 1..n - 1 :
                      /\ _find_issuer(path[i], roots) = {}
                      /\ path[i + 1] \in _find_issuer(path[i], pool)
                      /\ path[i + 1].ca /\ _verify_link(path[i], path[i + 1], t)
                      /\ \A j \in 1..i : path[i + 1] # path[j]
           Reaches(n, x) == \E path \in [1..n -> all] : Goes(n, path) /\ path[n] = x
           certs == {x \in all : \E n \in Nat : n >= 1 /\ Reaches(n, x)}
<1>1. IsFiniteSet(all) /\ Cardinality(all) \in Nat
  BY ElementsAreFinite
<1>2. ASSUME NEW n \in Nat, n >= 1, NEW path \in [1..n -> all], Goes(n, path)
      PROVE  n \in 1..Cardinality(all) /\ n <= MaxDepth
  <2>1. ASSUME NEW i \in 1..n, NEW j \in 1..n, i < j
        PROVE  path[i] # path[j]
    <3>1. j - 1 \in 1..n - 1 /\ i \in 1..j - 1 /\ j - 1 + 1 = j
      BY <2>1
    <3>2. QED
      BY <1>2, <3>1
  <2>2. path \in Injection(1..n, all)
    <3>1. ASSUME NEW i \in 1..n, NEW j \in 1..n, path[i] = path[j]
          PROVE  i = j
      <4>1. ~(i < j) /\ ~(j < i)
        BY <2>1, <3>1
      <4>2. QED
        BY <4>1
    <3>2. QED
      BY <3>1 DEF Injection, IsInjective
  <2>3. Cardinality(1..n) <= Cardinality(all)
    BY <1>1, <2>2, FS_Injection
  <2>4. Cardinality(1..n) = n
    BY <1>2, FS_Interval
  <2>5. QED
    BY <1>1, <1>2, <2>3, <2>4, EvidenceAssumption
<1>3. SUFFICES ASSUME ~Walk(c, pool, roots, t) PROVE FALSE
  OBVIOUS
<1>4. ASSUME NEW n \in Nat, n >= 1, NEW path \in [1..n -> all], Goes(n, path),
             NEW root \in _find_issuer(path[n], roots), _verify_link(path[n], root, t)
      PROVE  FALSE
  <2>1. n \in 1..Cardinality(all) /\ n <= MaxDepth
    BY <1>2, <1>4
  <2>2. Walk(c, pool, roots, t)
    BY <1>4, <2>1, Zenon DEF Walk
  <2>3. QED
    BY <1>3, <2>2
<1>5. c \in certs
  <2> DEFINE path == [i \in 1..1 |-> c]
  <2>1. path \in [1..1 -> all] /\ path[1] = c /\ Goes(1, path)
    OBVIOUS
  <2>2. Reaches(1, c)
    BY <2>1
  <2> HIDE DEF Reaches
  <2>3. QED
    BY <2>2
<1>6. ASSUME NEW x \in certs, NEW d \in ToSet(roots), Issued(x, d)
      PROVE  FALSE
  <2>1. PICK n \in Nat : n >= 1 /\ Reaches(n, x)
    OBVIOUS
  <2>2. PICK path \in [1..n -> all] : Goes(n, path) /\ path[n] = x
    BY <2>1
  <2>3. _find_issuer(x, roots) = {d}
    BY <1>6, IssuerIsFound DEF NamesAreUnique
  <2> HIDE DEF Goes, Reaches, certs
  <2>4. QED
    BY <1>4, <1>6, <2>1, <2>2, <2>3
<1>7. ASSUME NEW x \in certs, NEW d \in ToSet(pool), d.ca, Issued(x, d)
      PROVE  d \in certs
  <2>1. PICK n \in Nat : n >= 1 /\ Reaches(n, x)
    OBVIOUS
  <2>2. PICK path \in [1..n -> all] : Goes(n, path) /\ path[n] = x
    BY <2>1
  <2> DEFINE OnPath(i) == /\ _find_issuer(path[i], roots) = {}
                          /\ path[i + 1] \in _find_issuer(path[i], pool)
                          /\ path[i + 1].ca /\ _verify_link(path[i], path[i + 1], t)
                          /\ \A k \in 1..i : path[i + 1] # path[k]
  <2>3. _find_issuer(x, roots) = {}
    <3> SUFFICES ASSUME NEW root \in _find_issuer(x, roots) PROVE FALSE
      OBVIOUS
    <3>1. root \in ToSet(roots) /\ root.subject = x.issuer
      BY FoundIssuer
    <3>2. root = d
      BY <1>7, <3>1 DEF NamesAreUnique
    <3>3. QED
      BY <1>6, <1>7, <3>1, <3>2
  <2>4. _find_issuer(x, pool) = {d}
    BY <1>7, IssuerIsFound DEF NamesAreUnique
  <2>5. CASE \E j \in 1..n : d = path[j]
    <3>1. PICK j \in 1..n : d = path[j]
      BY <2>5
    <3> DEFINE p == [i \in 1..j |-> path[i]]
    <3>2. p \in [1..j -> all] /\ \A i \in 1..j : p[i] = path[i]
      BY <2>1
    <3> HIDE DEF p
    <3>3. Goes(j, p)
      <4>1. p[1] = c
        BY <2>1, <2>2, <3>2
      <4>2. ASSUME NEW i \in 1..j - 1
            PROVE  /\ _find_issuer(p[i], roots) = {}
                   /\ p[i + 1] \in _find_issuer(p[i], pool)
                   /\ p[i + 1].ca /\ _verify_link(p[i], p[i + 1], t)
                   /\ \A k \in 1..i : p[i + 1] # p[k]
        <5>1. i \in 1..n - 1 /\ i \in 1..j /\ i + 1 \in 1..j /\ \A k \in 1..i : k \in 1..j
          BY <2>1
        <5>2. p[i] = path[i] /\ p[i + 1] = path[i + 1] /\ \A k \in 1..i : p[k] = path[k]
          BY <3>2, <5>1
        <5>3. OnPath(i)
          BY <2>2, <5>1
        <5>4. QED
          BY <5>2, <5>3
      <4>3. QED
        BY <4>1, <4>2
    <3>4. j \in Nat /\ j >= 1 /\ p[j] = d
      BY <2>1, <3>1, <3>2
    <3>5. Reaches(j, d)
      BY <3>2, <3>3, <3>4
    <3> HIDE DEF Reaches
    <3>6. QED
      BY <3>4, <3>5
  <2>6. CASE \A j \in 1..n : d # path[j]
    <3> DEFINE p == [i \in 1..n + 1 |-> IF i = n + 1 THEN d ELSE path[i]]
    <3>1. /\ p \in [1..n + 1 -> all] /\ p[n + 1] = d
          /\ \A i \in 1..n : p[i] = path[i]
      BY <2>1
    <3> HIDE DEF p
    <3>2. p[1] = c
      BY <2>1, <2>2, <3>1
    <3>3. ASSUME NEW i \in 1..(n + 1) - 1
          PROVE  /\ _find_issuer(p[i], roots) = {}
                 /\ p[i + 1] \in _find_issuer(p[i], pool)
                 /\ p[i + 1].ca /\ _verify_link(p[i], p[i + 1], t)
                 /\ \A j \in 1..i : p[i + 1] # p[j]
      <4>1. CASE i = n
        <5>1. p[i] = x /\ p[i + 1] = d /\ \A j \in 1..i : p[j] = path[j]
          BY <2>1, <2>2, <3>1, <4>1
        <5>2. QED
          BY <1>7, <2>3, <2>4, <2>6, <4>1, <5>1
      <4>2. CASE i # n
        <5>1. i \in 1..n - 1 /\ i \in 1..n /\ i + 1 \in 1..n /\ \A j \in 1..i : j \in 1..n
          BY <2>1, <4>2
        <5>2. p[i] = path[i] /\ p[i + 1] = path[i + 1] /\ \A j \in 1..i : p[j] = path[j]
          BY <3>1, <5>1
        <5>3. OnPath(i)
          BY <2>2, <5>1
        <5>4. QED
          BY <5>2, <5>3
      <4>3. QED
        BY <4>1, <4>2
    <3>4. Goes(n + 1, p)
      BY <3>2, <3>3
    <3>5. n + 1 \in Nat /\ n + 1 >= 1
      BY <2>1
    <3>6. Reaches(n + 1, d)
      BY <3>1, <3>4
    <3> HIDE DEF Reaches
    <3>7. QED
      BY <3>5, <3>6
  <2>7. QED
    BY <2>5, <2>6
<1>8. certs \in SUBSET all
  OBVIOUS
<1> HIDE DEF certs
<1>9. \E x \in certs, root \in ToSet(roots) : Issued(x, root)
  BY <1>5, <1>7, <1>8, Zenon DEF Genuine
<1>10. QED
  BY <1>6, <1>9

\* The responses are checked with the key that signed the leaf.
LEMMA IssuerHasTheKey ==
    ASSUME NEW a, Listed(a.chain), NEW roots, Listed(roots), roots # <<>>, NEW t,
           Genuine(a.leaf, a.chain, roots, t), NamesAreUnique(a.chain, roots),
           \E d \in ToSet(a.chain) \union {Head(roots)} : d.subject = a.leaf.issuer
    PROVE  OcspIssuer(a, roots).key = a.leaf.by
<1> DEFINE leaf == a.leaf
           pool == a.chain
           issuer == OcspIssuer(a, roots)
           Issued(x, d) == x.issuer = d.subject /\ _verify_link(x, d, t)
<1>1. Head(roots) \in ToSet(roots)
  <2>1. 1 \in 1..Len(roots) /\ Head(roots) = roots[1]
    BY DEF Listed
  <2>2. QED
    BY <2>1, ListedElements DEF Listed
<1>2. issuer \in ToSet(pool) \union ToSet(roots) /\ issuer.subject = leaf.issuer
  <2> DEFINE found == _find_issuer(leaf, pool)
  <2>1. issuer = IF found # {} THEN CHOOSE d \in found : TRUE ELSE Head(roots)
    BY Zenon DEF OcspIssuer
  <2>2. ASSUME NEW d \in ToSet(pool), d.subject = leaf.issuer
        PROVE  found = {d}
    BY <2>2, IssuerIsFound DEF NamesAreUnique
  <2>3. \A d \in found : d \in ToSet(pool) /\ d.subject = leaf.issuer
    BY FoundIssuer
  <2> HIDE DEF issuer, found
  <2>4. CASE found # {}
    BY <2>1, <2>3, <2>4
  <2>5. CASE found = {}
    BY <1>1, <2>1, <2>2, <2>5
  <2>6. QED
    BY <2>4, <2>5
<1>3. PICK d \in ToSet(pool) \union ToSet(roots) : Issued(leaf, d)
  <2> SUFFICES ASSUME \A d \in ToSet(pool) : ~Issued(leaf, d)
               PROVE  \E root \in ToSet(roots) : Issued(leaf, root)
    OBVIOUS
  <2>1. {leaf} \in SUBSET ({leaf} \union ToSet(pool))
    OBVIOUS
  <2>2. \A x \in {leaf}, d \in ToSet(pool) : d.ca /\ Issued(x, d) => d \in {leaf}
    OBVIOUS
  <2>3. \E x \in {leaf}, root \in ToSet(roots) : Issued(x, root)
    BY <2>1, <2>2, Zenon DEF Genuine
  <2>4. QED
    BY <2>3
<1>4. d = issuer
  BY <1>2, <1>3 DEF NamesAreUnique
<1>5. QED
  BY <1>3, <1>4 DEF _verify_link

\* An anchor that deserves it is valid.
LEMMA DeservedIsValid ==
    ASSUME NEW a, ListedAnchor(a), NEW chain, NEW trust \in TrustLists, NEW t, NEW roots,
           trust = {roots}, roots # <<>>, a.provider \in {"tsa", "http"}, CrossReferenced(a, chain),
           InWindow(a.leaf, t), Genuine(a.leaf, a.chain, roots, t), NamesAreUnique(a.chain, roots),
           Cardinality({a.leaf} \union ToSet(a.chain)) <= MaxDepth,
           \E d \in ToSet(a.chain) \union {Head(roots)} : d.subject = a.leaf.issuer,
           \A r \in ToSet(a.ocsp) : r.status = "good" /\ Fresh(r, t)
    PROVE  valid(a, chain, trust, t)
<1> DEFINE verifies == verify_timestamp_token(a, a.event, a.chain, roots, t)
           verdict == OcspVerdict(a, roots, t)
           issuer == OcspIssuer(a, roots)
<1>1. Listed(a.chain) /\ Listed(roots) /\ (CHOOSE r \in trust : TRUE) = roots
  BY EvidenceAssumption DEF ListedAnchor, Listed
<1>2. Walk(a.leaf, a.chain, roots, t)
  BY <1>1, GenuineIsWalked
<1>3. verifies
  <2> DEFINE token == [imprint |-> a.imprint, signer |-> a.leaf]
  <2>1. token \in parse_timestamp_response(a)
    BY DEF parse_timestamp_response
  <2>2. token.imprint = a.event /\ token.signer = a.leaf
    BY DEF ListedAnchor, Stamped
  <2> HIDE DEF token
  <2>3. QED
    BY <1>2, <2>1, <2>2 DEF verify_timestamp_token
<1>4. issuer.key = a.leaf.by
  BY <1>1, IssuerHasTheKey
<1> HIDE DEF issuer
<1>5. \A r \in ToSet(a.ocsp) : parse_and_verify_ocsp(r, a.leaf, issuer, t) /\ r.status = "good"
  BY <1>4 DEF ListedAnchor, Stamped, AnswersFor, parse_and_verify_ocsp
<1>6. verdict = "good"
  <2> DEFINE Usable(r) == parse_and_verify_ocsp(r, a.leaf, issuer, t)
             bad == {k \in 1..Len(a.ocsp) : ~Usable(a.ocsp[k]) \/ a.ocsp[k].status # "good"}
             i == SelectInSeq(a.ocsp, LAMBDA r : ~Usable(r) \/ r.status # "good")
  <2>1. i = IF bad # {} THEN Min(bad) ELSE 0
    BY Zenon DEF SelectInSeq
  <2>2. verdict = CASE i = 0 -> "good"
                    [] i # 0 /\ Usable(a.ocsp[i]) -> a.ocsp[i].status
                    [] OTHER -> "failed"
    BY Zenon DEF OcspVerdict, issuer
  <2>3. bad = {}
    BY <1>5, ListedElements DEF ListedAnchor, Answers, Listed
  <2> HIDE DEF i, bad, Usable, verdict
  <2>4. QED
    BY <2>1, <2>2, <2>3
<1>7. cert_status(a, chain, trust, t) =
          IF ~CrossReferenced(a, chain) THEN "MISSING_LTV_ARTIFACTS"
          ELSE IF trust = {} THEN "VALID_UNVERIFIED"
          ELSE IF a.provider = "rekor"
               THEN IF verify_rekor_signed_entry_timestamp(a, a.event) THEN "VALID"
                    ELSE "MISSING_LTV_ARTIFACTS"
          ELSE IF ~verifies \/ verdict \in {"failed", "unknown"} THEN "MISSING_LTV_ARTIFACTS"
          ELSE IF verdict = "revoked" THEN "REVOKED" ELSE "VALID"
  BY <1>1, Zenon DEF cert_status
<1> HIDE DEF verifies, verdict
<1>8. trust # {}
  OBVIOUS
<1>9. QED
  BY <1>3, <1>6, <1>7, <1>8 DEF valid

\* An anchor with a genuine path and good answers is found valid
\* (verify_timestamp_token, verify_chain_with_anchors), within the limits that
\* GenuineAnchorsVerify names.
THEOREM DeservedIsFound == VerificationSpec => []GenuineAnchorsVerify
<1>1. VerificationInit => EvidenceInv
  BY EvidenceAtFirst DEF VerificationInit
<1>2. EvidenceInv => GenuineAnchorsVerify
  <2> SUFFICES ASSUME EvidenceInv, NEW a \in ToSet(anchors), NEW trust \in TrustLists, NEW t \in Times,
                      NEW roots \in UNION TrustLists,
                      trust = {roots}, roots # <<>>, a.provider \in {"tsa", "http"},
                      CrossReferenced(a, events), InWindow(a.leaf, t),
                      Genuine(a.leaf, a.chain, roots, t), NamesAreUnique(a.chain, roots),
                      Cardinality({a.leaf} \union ToSet(a.chain)) <= MaxDepth,
                      \E d \in ToSet(a.chain) \union {Head(roots)} : d.subject = a.leaf.issuer,
                      \A r \in ToSet(a.ocsp) : r.status = "good" /\ Fresh(r, t)
               PROVE  valid(a, events, trust, t)
    BY Zenon DEF GenuineAnchorsVerify
  <2>1. ListedAnchor(a)
    BY DEF EvidenceInv
  <2>2. QED
    BY <2>1, DeservedIsValid
<1>3. QED
  BY <1>1, <1>2, EvidenceKept, PTL DEF VerificationSpec

=============================================================================
