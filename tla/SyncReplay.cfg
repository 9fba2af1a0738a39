CONSTANTS
    Ops = {o1, o2}
    Guarded = {o1}
    Tokens = {t1, t2}
    None = None
    Fingerprints = {f1, f2}
    Workers = {w1, w2, w3}
    MaxRequests = 3
SYMMETRY Symmetry
SPECIFICATION Spec
INVARIANTS
    TypeOK
    AcknowledgedIsApplied
    AppliedOnceUnlessDisturbed
PROPERTIES
    SucceededIsFinal
    ImplementsContract
CHECK_DEADLOCK FALSE
