\* A script was accepted, and the question about its task is answered by an error.
SPECIFICATION Spec
CONSTANTS
    Servers = {s1, s2}
    Proofs = {p1}
    Goals = {1}
    Calls = {c1}
    Patience = 1
    Faults = {}
    None = None
CHECK_DEADLOCK FALSE
INVARIANTS
    RefusedIsTrue
