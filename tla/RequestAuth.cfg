\* Three requests, two threads, and the TTL exactly twice the skew.
SPECIFICATION Spec
CONSTANTS
    Requests = {q1, q2, q3}
    Threads = {t1, t2}
    MaxSkew = 1
    TTL = 2
    MaxTime = 4
INVARIANTS RememberedWhileValid ReplaysBounded
