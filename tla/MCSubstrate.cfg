\* Three threads append, read the tip and are refused by the canonicaliser.
CONSTANTS
    Threads = {t1, t2, t3}
    None = None
    MaxEvents = 4
SYMMETRY Perms
SPECIFICATION SubSpec
INVARIANTS
    OnlyAlteredEventsFail
    SeenHeadOnChain
    ReturnedEventsAreOnChain
