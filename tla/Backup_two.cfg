\* Two requests for the same key; standard error does not fit into its pipe.
SPECIFICATION FairSpec
CONSTANTS
    Threads = {t1, t2}
    Keys = {k1}
    None = None
    Size = 2
    MaxLog = 2
    PipeCap = 1
INVARIANT TypeOK
INVARIANT OneAtATime
INVARIANT NoDebris
PROPERTY OkMeansComplete
PROPERTY Finishes
