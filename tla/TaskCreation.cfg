SPECIFICATION Spec
CONSTANTS
    w1 = w1
    w2 = w2
    b1 = b1
    b2 = b2
    Client = {c1, c2}
    Workflow = {w1, w2, w3}
    Key = {k1}
    NoKey = NoKey
    Body = {b1, b2, b3}
    Stored <- Rewriting
    Collated <- IgnoringCase
    MaxSends = 4
INVARIANTS
    TypeOK
    KeyNamesOneTask
    ConflictIsTruthful
PROPERTIES
    ImplementsAtomicCreation
    EveryRequestAnswered
CHECK_DEADLOCK FALSE
