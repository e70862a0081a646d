----------------------------- MODULE ChainEvidence -----------------------------
(***************************************************************************)
(* Anchors and signatures collected about a chain, and the verifiers that  *)
(* judge them later: anchoring/verifier.py, rfc3161.py, ocsp.py,           *)
(* sigstore.py and signing/verifier_ext.py.                                *)
(*                                                                         *)
(* An event is its number in the order of creation, which stands for its   *)
(* hash.  A chain restored from an older copy loses its last event and     *)
(* grows another one in its place; the evidence is kept elsewhere and      *)
(* still speaks of the lost event.  Keys sign what they should, except     *)
(* that a transparency log may answer with the signature of another log.   *)
(* The verifiers keep no state, so their arguments (trust roots, trusted   *)
(* keys, verification time) are parameters of the operators, and the       *)
(* properties hold for all of them.  Revocation is always checked          *)
(* (verify_ocsp=True).                                                     *)
(***************************************************************************)
EXTENDS Integers, FiniteSets, FiniteSetsExt, SequencesExt

CONSTANTS
    Issuances,      \* what a full-service TSA sends: a leaf and its pool
    Leaves,         \* the leaf certificates of the HTTP TSAs
    Logs,           \* the public keys of transparency logs, as certificates
    MockCert,       \* what the mock provider has in place of certificates
    TrustLists,     \* lists of root certificates a verifier may be given
    KeyFrom, KeyUntil,  \* validity windows of the signing keys
    OcspLife,       \* how long an OCSP response is fresh
    MaxDepth,       \* max_chain_depth
    MaxMade, MaxEvents, MaxEvidence, MaxTime  \* bounds

Keys == DOMAIN KeyFrom
Times == 0..MaxTime + 1      \* a verifier may come later than any provider
Modes == {"segment_head", "per_event"}
Chains == {"this", "other"}

ASSUME EvidenceAssumption ==
    /\ DOMAIN KeyUntil = Keys
    /\ \A trust \in TrustLists : \A roots, other \in trust : roots = other
    /\ \A list \in (UNION TrustLists) \union {i.chain : i \in Issuances} : list \in Seq(ToSet(list))
    /\ MaxDepth \in Nat /\ MaxMade \in Nat /\ MaxEvents \in Nat /\ MaxTime \in Nat

VARIABLES
    events,     \* the chain: its events in order
    made,       \* events created so far
    anchors,    \* AnchorRecords
    records,    \* SignatureRecords
    now

vars == <<events, made, anchors, records, now>>

EvidenceInit == events = <<>> /\ made = 0 /\ anchors = <<>> /\ records = <<>> /\ now = 0

AppendEvent ==
    /\ made < MaxMade /\ Len(events) < MaxEvents
    /\ made' = made + 1
    /\ events' = Append(events, made + 1)
    /\ UNCHANGED <<anchors, records, now>>

\* The chain file is replaced by a copy that lacks its last event.
Restore ==
    /\ events # <<>>
    /\ events' = Front(events)
    /\ UNCHANGED <<made, anchors, records, now>>

Tick ==
    /\ now < MaxTime
    /\ now' = now + 1
    /\ UNCHANGED <<events, made, anchors, records>>

-----------------------------------------------------------------------------
(* Certificates: [subject, issuer, key, by, ca, from, until], where by is  *)
(* the key that signed the certificate.                                    *)

InWindow(c, t) == c.from <= t /\ t <= c.until

\* The first candidate whose name is the issuer of c: a set of at most one.
_find_issuer(c, pool) ==
    LET i == SelectInSeq(pool, LAMBDA d : d.subject = c.issuer)
    IN IF i = 0 THEN {} ELSE {pool[i]}

_verify_link(c, d, t) == InWindow(d, t) /\ c.by = d.key

\* The walk from c: on to the issuer in the pool as long as no root is the
\* issuer, to no certificate twice, and so at most as far as there are any.
Walk(c, pool, roots, t) ==
    LET certs == {c} \union ToSet(pool)
    IN \E n \in 1..Cardinality(certs) : \E path \in [1..n -> certs] :
           /\ n <= MaxDepth
           /\ path[1] = c
           /\ \A i \in 1..n - 1 :
                  LET d == path[i + 1]
                  IN /\ _find_issuer(path[i], roots) = {}
                     /\ d \in _find_issuer(path[i], pool)
                     /\ d.ca /\ _verify_link(path[i], d, t)
                     /\ \A j \in 1..i : d # path[j]
           /\ \E root \in _find_issuer(path[n], roots) : _verify_link(path[n], root, t)

\* What the token of a holds; a mock token is no DER and holds nothing.
parse_timestamp_response(a) ==
    IF a.provider = "mock" THEN {} ELSE {[imprint |-> a.imprint, signer |-> a.leaf]}

\* The token of anchor a, for an event of that hash.
verify_timestamp_token(a, e, pool, roots, t) ==
    \E token \in parse_timestamp_response(a) :
        /\ token.imprint = e
        /\ InWindow(token.signer, t)
        /\ roots # <<>>
        /\ Walk(token.signer, pool, roots, t)

\* The body names the event, and the key that the record itself holds is the
\* one that signed the entry.  No root is looked at.
verify_rekor_signed_entry_timestamp(a, e) == a.imprint = e /\ a.leaf = Head(a.chain)

-----------------------------------------------------------------------------
(* OCSP: a response is [about, status, by, from, until], where until is    *)
(* {nextUpdate}, or {} when there is none.  by = "embedded" when the       *)
(* response carries the certificate that signed it: it is used whoever     *)
(* issued it.                                                              *)

\* The clock is between thisUpdate and nextUpdate.
Fresh(r, t) == r.from <= t /\ \A u \in r.until : t <= u

\* Mutant: nextUpdate is not compared with the clock.
parse_stale_ocsp(r, leaf, issuer, t) == r.by \in {"embedded", issuer.key} /\ r.about = leaf

parse_and_verify_ocsp(r, leaf, issuer, t) ==
    /\ r.by \in {"embedded", issuer.key}
    /\ r.about = leaf
    /\ Fresh(r, t)

\* Mutant: the issuer is always looked for among the roots.
OcspIssuerIsRoot(a, roots) == Head(roots)

OcspIssuer(a, roots) ==
    LET found == _find_issuer(a.leaf, a.chain)
    IN IF found # {} THEN CHOOSE d \in found : TRUE ELSE Head(roots)

\* "good", or what the first response says that is not: its status, or
\* "failed" when it cannot be used.
OcspVerdict(a, roots, t) ==
    LET issuer == OcspIssuer(a, roots)
        Usable(r) == parse_and_verify_ocsp(r, a.leaf, issuer, t)
        i == SelectInSeq(a.ocsp, LAMBDA r : ~Usable(r) \/ r.status # "good")
    IN CASE i = 0 -> "good"
         [] i # 0 /\ Usable(a.ocsp[i]) -> a.ocsp[i].status
         [] OTHER -> "failed"

-----------------------------------------------------------------------------
(* verify_chain_with_anchors.  trust is {} when no trust roots are given   *)
(* and {roots} when they are.                                              *)

InChain(s, chain) == s < Len(chain)

CrossReferenced(a, chain) ==
    /\ InChain(a.seq, chain) /\ chain[a.seq + 1] = a.event
    /\ a.zone = "utc"
    /\ a.chain # <<>> /\ a.ocsp # <<>>

cert_status(a, chain, trust, t) ==
    LET roots == CHOOSE r \in trust : TRUE
        verifies == verify_timestamp_token(a, a.event, a.chain, roots, t)
        rekor == verify_rekor_signed_entry_timestamp(a, a.event)
        verdict == OcspVerdict(a, roots, t)
    IN IF ~CrossReferenced(a, chain) THEN "MISSING_LTV_ARTIFACTS"
       ELSE IF trust = {} THEN "VALID_UNVERIFIED"
       ELSE IF a.provider = "rekor" THEN IF rekor THEN "VALID" ELSE "MISSING_LTV_ARTIFACTS"
       ELSE IF ~verifies \/ verdict \in {"failed", "unknown"} THEN "MISSING_LTV_ARTIFACTS"
       ELSE IF verdict = "revoked" THEN "REVOKED" ELSE "VALID"

valid(a, chain, trust, t) == cert_status(a, chain, trust, t) = "VALID"

verification_status(chain, trust, t) ==
    LET statuses == {cert_status(a, chain, trust, t) : a \in ToSet(anchors)}
    IN CASE statuses = {} -> "not_performed"
         [] statuses = {"VALID"} -> "verified"
         [] trust = {} /\ statuses = {"VALID_UNVERIFIED"} -> "quarantined"
         [] OTHER -> "failed"

\* verify_live_anchor_with_provider, for the anchor a that the provider has
\* just returned for an event of the chain: it verifies a list of one event.
LiveVerdict(a, trust, t) ==
    IF a.seq # 0 THEN "IndexError"
    ELSE CASE valid(a, <<a.event>>, trust, t) -> "verified"
           [] ~valid(a, <<a.event>>, trust, t) /\ (a.ocsp = <<>> \/ a.chain = <<>>) -> "quarantined"
           [] OTHER -> "failed"

-----------------------------------------------------------------------------
(* verify_chain_with_signatures.                                           *)

Rank == [valid |-> 0, expired_key |-> 1, invalid |-> 2, unknown_key |-> 3, unsigned |-> 4]

\* The payload of a segment head holds the chain id, that of an event does not.
PayloadMatches(r) == r.mode = "per_event" \/ r.chain_id = "this"

_verify_single_signature(r, chain, trusted, t) ==
    IF r.key \notin trusted THEN "unknown_key"
    ELSE IF t < KeyFrom[r.key] \/ t > KeyUntil[r.key] THEN "expired_key"
    ELSE IF ~InChain(r.seq, chain) \/ ~PayloadMatches(r) THEN "invalid"
    ELSE IF chain[r.seq + 1] # r.event THEN "invalid" ELSE "valid"

SignedSeqs == {r.seq : r \in ToSet(records)}

\* Mutant: the worst record of a seq decides.
_merge_worst_at_seq(s, chain, trusted, t) ==
    LET found == {_verify_single_signature(r, chain, trusted, t) : r \in {q \in ToSet(records) : q.seq = s}}
    IN CHOOSE x \in found : \A y \in found : Rank[y] <= Rank[x]

_merge_status_at_seq(s, chain, trusted, t) ==
    LET found == {_verify_single_signature(r, chain, trusted, t) : r \in {q \in ToSet(records) : q.seq = s}}
    IN CHOOSE x \in found : \A y \in found : Rank[x] <= Rank[y]

\* The modes of all the records at s, valid or not.
per_seq_modes(s) == {r.mode : r \in {q \in ToSet(records) : q.seq = s}}

Covered(chain, trusted, t) ==
    LET good == {s \in SignedSeqs : _merge_status_at_seq(s, chain, trusted, t) = "valid"}
        heads == {s \in good : "segment_head" \in per_seq_modes(s)}
    IN {s \in 0..Len(chain) - 1 :
            \/ s \in good /\ "per_event" \in per_seq_modes(s)
            \/ \E h \in heads : s <= h}

\* verify_chain_full: a chain is intact here, so its verdict is the anchors'.
FullOk(chain, trust, t) == \A a \in ToSet(anchors) : valid(a, chain, trust, t)

-----------------------------------------------------------------------------
(* What providers return.  A provider sees a digest; its AnchorRecord is   *)
(* that of the event at seq when it was requested.                         *)

Response(leaf, status, by, from) ==
    [about |-> leaf, status |-> status, by |-> by, from |-> from, until |-> {from + OcspLife}]

Record(s, provider, leaf, chain, ocsp) ==
    [seq |-> s, event |-> events[s + 1], imprint |-> events[s + 1], zone |-> "utc",
     provider |-> provider, leaf |-> leaf, chain |-> chain, ocsp |-> ocsp]

Store(a) ==
    /\ Len(anchors) + Len(records) < MaxEvidence
    /\ anchors' = Append(anchors, a)
    /\ UNCHANGED <<events, made, records, now>>

\* What a TSA sends about its leaf now: answers of the issuer of the leaf, or
\* one of a responder of its own, without nextUpdate.
OcspAnswers(leaf) ==
    LET Says(status) == Response(leaf, status, leaf.by, now)
    IN {<<Says("good")>>, <<Says("good"), Says("revoked")>>, <<Says("unknown")>>,
        <<[Response(leaf, "good", "embedded", now) EXCEPT !.until = {}]>>}

\* A TSA that sends its certificates and what is said of its leaf now.
TsaAnchors(s) ==
    \E issue \in Issuances : \E ocsp \in OcspAnswers(issue.leaf) :
        Store(Record(s, "tsa", issue.leaf, issue.chain, ocsp))

\* A TSA behind HTTP: the provider verifies the token with the roots it was
\* configured with, if any, and no other certificate; the record holds the
\* leaf and those roots, and the responses of the configuration.
HttpAnchors(s) ==
    \E leaf \in Leaves, trust \in TrustLists, fresh \in BOOLEAN :
        LET responses == IF fresh THEN <<Response(leaf, "good", leaf.by, 0)>> ELSE <<>>
            Holds(roots) == Record(s, "http", leaf, <<leaf>> \o roots, responses)
        IN IF trust = {} THEN Store(Holds(<<>>))
           ELSE \E roots \in trust :
                    /\ verify_timestamp_token(Holds(roots), events[s + 1], <<>>, roots, now)
                    /\ Store(Holds(roots))

\* The record holds the key of the log the provider is configured with; who
\* signed the answer is not checked.  A log has no OCSP, and the provider puts
\* a marker in its place.
RekorAnchors(s) ==
    \E log, signer \in Logs :
        Store(Record(s, "rekor", signer, <<log>>, <<Response(log, "good", "embedded", now)>>))

\* The mock provider's token says nothing; its clock may be in another zone.
MockAnchors(s) ==
    \E zone \in {"utc", "other"} :
        Store([Record(s, "mock", MockCert, <<MockCert>>, <<Response(MockCert, "good", "embedded", now)>>)
               EXCEPT !.imprint = 0, !.zone = zone])

Sign(s) ==
    \E mode \in Modes, key \in Keys, chain_id \in Chains :
        /\ Len(anchors) + Len(records) < MaxEvidence
        /\ records' = Append(records, [seq |-> s, event |-> events[s + 1], mode |-> mode,
                                       key |-> key, chain_id |-> chain_id])
        /\ UNCHANGED <<events, made, anchors, now>>

EvidenceNext ==
    \/ AppendEvent \/ Restore \/ Tick
    \/ \E s \in 0..Len(events) - 1 :
           TsaAnchors(s) \/ HttpAnchors(s) \/ RekorAnchors(s) \/ MockAnchors(s) \/ Sign(s)

-----------------------------------------------------------------------------
(* Properties.  Trusts is every answer to "which roots does the verifier   *)
(* hold": none, or one of the lists.                                       *)

\* A path of links that are intact at t leads from c to a root: whatever set
\* holds c and the issuers of its members holds one that a root has issued.
\* This is the reference the walk is compared with.
Genuine(c, pool, roots, t) ==
    LET Issued(x, d) == x.issuer = d.subject /\ _verify_link(x, d, t)
    IN \A certs \in SUBSET ({c} \union ToSet(pool)) :
           (c \in certs /\ \A x \in certs, d \in ToSet(pool) : d.ca /\ Issued(x, d) => d \in certs)
               => \E x \in certs, root \in ToSet(roots) : Issued(x, root)

\* No two of the certificates at hand carry the same name.
NamesAreUnique(pool, roots) ==
    \A c, d \in ToSet(pool) \union ToSet(roots) : c.subject = d.subject => c = d

\* A Rekor record names its own key, and no root stands behind it.
SoundAnchor(a, trust, t) ==
    /\ a.imprint = a.event
    /\ a.provider = "rekor" => a.leaf = Head(a.chain)
    /\ a.provider # "rekor" =>
           /\ \A roots \in trust : Genuine(a.leaf, a.chain, roots, t)
           /\ \A r \in ToSet(a.ocsp) : r.about = a.leaf /\ r.status = "good" /\ Fresh(r, t)

\* A chain is reported as verified, by either verifier, only if roots are
\* given, every anchor is that of the event now at its seq and, for an
\* RFC 3161 anchor, a path of genuine links leads from its leaf to a root the
\* verifier holds, and nothing in its responses (whoever signed one that
\* carries its responder's certificate) speaks against the leaf or is out of
\* date; for a Rekor anchor only that the key which its own record names
\* signed the entry.  An anchor verified as soon as it was requested is no
\* exception (anchoring/verifier.py, rfc3161.py, ocsp.py, sigstore.py).
VerifiedMeansSound ==
    \A trust \in TrustLists, t \in Times :
        /\ verification_status(events, trust, t) = "verified" =>
               /\ FullOk(events, trust, t)
               /\ \A a \in ToSet(anchors) :
                      SoundAnchor(a, trust, t) /\ trust # {} /\ events[a.seq + 1] = a.event
        /\ \A a \in ToSet(anchors) :
               LiveVerdict(a, trust, t) = "verified" => SoundAnchor(a, trust, t) /\ trust # {}

\* And an anchor that deserves it is found valid, provided no two
\* certificates share a name (a CA that renews its key under its name can make
\* the walk take the wrong one), they are no more than max_chain_depth, and
\* the issuer of the leaf is in the record or is the first of the roots: the
\* OCSP responses are checked with no other root.
GenuineAnchorsVerify ==
    \A a \in ToSet(anchors), trust \in TrustLists, t \in Times, roots \in UNION TrustLists :
        (/\ trust = {roots} /\ roots # <<>>
         /\ a.provider \in {"tsa", "http"} /\ CrossReferenced(a, events)
         /\ InWindow(a.leaf, t) /\ Genuine(a.leaf, a.chain, roots, t)
         /\ NamesAreUnique(a.chain, roots)
         /\ Cardinality({a.leaf} \union ToSet(a.chain)) <= MaxDepth
         /\ \E d \in ToSet(a.chain) \union {Head(roots)} : d.subject = a.leaf.issuer
         /\ \A r \in ToSet(a.ocsp) : r.status = "good" /\ Fresh(r, t))
            => valid(a, events, trust, t)

\* A new signature record leaves every seq at least as well signed, and every
\* covered event covered
\* (_merge_status_at_seq, _compute_signed_segment_count).
EvidenceOnlyAdds ==
    [][Len(records') > Len(records) =>
           \A trusted \in SUBSET Keys, t \in Times :
               /\ Covered(events, trusted, t) \subseteq Covered(events, trusted, t)'
               /\ \A s \in SignedSeqs :
                      Rank[_merge_status_at_seq(s, events, trusted, t)']
                          <= Rank[_merge_status_at_seq(s, events, trusted, t)]]_vars

=============================================================================
