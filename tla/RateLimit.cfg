\* Two threads and a lockout after two failures; two windows and a half of time.
SPECIFICATION Spec
CONSTANTS
    Threads = {t1, t2}
    MaxAttempts = 2
    Window = 2
    Lockout = 2
    MaxTime = 6
    MaxFailures = 8
INVARIANTS
    TypeOK
    LockedMeansEnoughFailures
    AttemptsBounded
CHECK_DEADLOCK FALSE
