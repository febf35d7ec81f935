\* Pids come up again, so that a dead server may pass for a live one.  When all
\* is dead and tidied away, nothing happens.
SPECIFICATION Spec
CONSTANTS
    Servers = {s1, s2}
    Workspaces = {w1, w2}
    None = None
    Damage = {"torn", "undecodable"}
SYMMETRY ServerSymmetry
CHECK_DEADLOCK FALSE
INVARIANTS
    TypeOK
    AnswerWasRunning
    AnswerIsBest
    AnswerFits
    NoneOnlyOverTheDead
