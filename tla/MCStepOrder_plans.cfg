SPECIFICATION Spec
CONSTANTS
    Current = 3
    Orphaned = 2
INVARIANTS
    NoSpuriousCycle
    AuthoredOrder
    InferredKept
CHECK_DEADLOCK FALSE
