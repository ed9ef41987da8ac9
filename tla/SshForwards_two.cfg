\* Two requests at a time, two forwards, one check that fails for nothing.
SPECIFICATION Spec
CONSTANTS
    Threads = {t1, t2}
    Rules = {r1, r2}
    MaxFaults = 1
INVARIANT TypeOK
INVARIANT DuplicatesBounded
PROPERTY AlonePersists
