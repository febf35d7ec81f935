\* Two calls at once, and any nonsense.
SPECIFICATION FairSpec
CONSTANTS
    Calls = {k1, k2}
    Garbled = {"empty", "notJson", "notUtf8", "malformed", "void", "httpError"}
INVARIANTS
    TypeOK
    AtMostOnce
    AnswerIsTrue
PROPERTIES
    EveryCallReturns
    ImplementsAtMostOnceCall
