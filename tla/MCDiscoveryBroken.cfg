\* One server, whose record may be read half-written.
SPECIFICATION Spec
CONSTANTS
    Servers = {s1}
    Workspaces = {w1, w2}
    None = None
    Damage = {"torn", "undecodable"}
CHECK_DEADLOCK FALSE
INVARIANTS
    BrokenRecordCostsItself
