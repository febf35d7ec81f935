\* A dead server of the workspace asked for, a live one of another.
SPECIFICATION Spec
CONSTANTS
    Servers = {s1, s2}
    Workspaces = {w1, w2}
    None = None
    Damage = {}
CHECK_DEADLOCK FALSE
INVARIANTS
    FallbackServes
