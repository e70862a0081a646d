SPECIFICATION VerificationSpec
CONSTANTS
    Issuances <- TheIssuances
    Leaves <- TheLeaves
    Logs <- TheLogs
    MockCert <- TheMockCert
    TrustLists <- TheTrustLists
    KeyFrom <- From
    KeyUntil <- Until
    OcspLife = 1
    MaxDepth = 8
    MaxMade = 2
    MaxEvents = 2
    MaxEvidence = 2
    MaxTime = 1
    PolicySeqs = {1}
    MaxSource = 2
    MaxRows = 2
    MaxEdits = 2
    Signers = {"dsse1", "dsse2"}
    MaxRebuilds = 1
INVARIANTS
    VerifiedMeansSound
    GenuineAnchorsVerify
    AcceptedIsClosed
    BuiltBundlesVerify
    FrontEndsAgree
    AlphaDecides
PROPERTIES
    EvidenceOnlyAdds
CHECK_DEADLOCK FALSE
