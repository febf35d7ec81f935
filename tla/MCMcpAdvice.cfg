\* A search that another client ran into the cap, or key_prove did.
SPECIFICATION Spec
CONSTANTS
    Servers = {s1, s2}
    Proofs = {p1}
    Goals = {1}
    Calls = {c1}
    Patience = 1
    Faults = {}
    None = None
CHECK_DEADLOCK FALSE
INVARIANTS
    AdviceFitsSearch
