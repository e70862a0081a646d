------------------------------ MODULE Verification ------------------------------
(***************************************************************************)
(* From collecting evidence to checking it elsewhere: the anchors and      *)
(* signatures of a chain (ChainEvidence) are gathered, the chain and the   *)
(* signature records are handed to whoever builds a bundle (ProofBundle),  *)
(* the file is verified, and it may travel on in an alpha envelope         *)
(* (AlphaEnvelope).  Each party has only what the one before gave it.      *)
(***************************************************************************)
EXTENDS ChainEvidence, AlphaEnvelope

allvars == <<vars, bvars, evars>>

\* The auditor takes a copy of the chain and of its signature records.
Export ==
    /\ Receive(Len(events), [i \in DOMAIN records |-> records[i].seq])
    /\ events' = <<>> /\ made' = 0 /\ anchors' = <<>> /\ records' = <<>> /\ now' = 0
    /\ UNCHANGED evars

Collect == stage = "collect" /\ EvidenceNext /\ UNCHANGED <<bvars, evars>>

VerificationInit == EvidenceInit /\ BundleInit /\ EnvelopeInit

VerificationNext ==
    \/ Collect
    \/ Export
    \/ BundleNext /\ UNCHANGED <<vars, evars>>
    \/ Seal /\ UNCHANGED vars
    \/ EnvelopeNext /\ UNCHANGED vars

VerificationSpec == VerificationInit /\ [][VerificationNext]_allvars

=============================================================================
