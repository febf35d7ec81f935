SPECIFICATION Spec
CONSTANTS
    Proofs = {p1}
    Tasks = {t1}
    None = None
    Clients = {c1}
    Patience = 1
    Events = 1
    Faults = {}

INVARIANTS
    ExitZeroAsDocumented
