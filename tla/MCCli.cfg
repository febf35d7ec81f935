SPECIFICATION Spec
CONSTANTS
    Proofs = {p1, p2}
    Tasks = {t1, t2}
    None = None
    Clients = {c1}
    Patience = 1
    Events = 1
    Faults = {"torn", "record", "reset", "unsaid", "interrupt"}
SYMMETRY IdSymmetry
INVARIANTS
    TypeOK
    ExitZeroMeansClosed
    ObjectMeansSucceeded
