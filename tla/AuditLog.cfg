\* One worker thread and two event-loop handlers share the log.
SPECIFICATION Spec
CONSTANTS
    Sessions = {t1, a1, a2}
    Threads = {t1}
    Payloads = {p}
    MaxSeq = 4
INVARIANTS
    TypeOK
    NoDanglingRow
    BreakIsFork
PROPERTIES
    BreakIsPermanent
