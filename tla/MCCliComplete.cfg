\* Whatever is answered is answered completely, and read.
SPECIFICATION FairSpec
CONSTANTS
    Proofs = {p1}
    Tasks = {t1, t2}
    None = None
    Clients = {c1}
    Patience = 1
    Events = 1
    Faults = {}
INVARIANTS
    ExitOneMeansNotClosed
    JsonOneObject
PROPERTIES
    RequestsBounded
    EveryCommandEnds
    ImplementsProofVerdict
