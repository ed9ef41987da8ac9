\* Two requests for one VMID, which others destroy and start; objects of up to
\* two parts, the six attempts of the code.
SPECIFICATION FairSpec
CONSTANTS
    Threads = {t1, t2}
    Vmids = {v1}
    None = None
    Size = 2
    MaxAttempts = 6
INVARIANT TypeOK
INVARIANT OneAtATime
INVARIANT OkMeansWhole
PROPERTY Implements
PROPERTY Finishes
