\* Two worker threads; the principal is created, enrols up to twice and may be bound
\* twice.
SPECIFICATION Spec
CONSTANTS
    Threads = {t1, t2}
    MaxSecrets = 2
    MaxBindings = 2
INVARIANTS
    TypeOK
    MfaMeansConfirmed
    LateActsBounded
PROPERTIES
    NoLostUpdate
SYMMETRY Symmetry
CHECK_DEADLOCK FALSE
