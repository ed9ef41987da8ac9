\* A clean-up meets the object of an earlier backup.
SPECIFICATION Spec
CONSTANTS
    Threads = {t1}
    Keys = {k1}
    None = None
    Size = 2
    MaxLog = 2
    PipeCap = 1
PROPERTY CleanupHitsPartial
