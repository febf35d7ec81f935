\* One tool call among others: what they do to its proof, the world does too.
\* Statistics may come without the member closed.
SPECIFICATION FairSpec
CONSTANTS
    Servers = {s1, s2}
    Proofs = {p1}
    Goals = {1, 2}
    Calls = {c1}
    Patience = 1
    Faults = {"unsaid"}
    None = None
CHECK_DEADLOCK FALSE
INVARIANTS
    TypeOK
    EmptyListMeansClosed
    PinnedFindsItsProof
    NotWrittenIsTrue
    VerdictStands
PROPERTIES
    RequestsBounded
    EveryToolAnswers
    ImplementsProofVerdict
