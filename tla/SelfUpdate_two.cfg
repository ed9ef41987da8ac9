\* Two requests at a time, two temporary files.
SPECIFICATION FairSpec
CONSTANTS
    Threads = {t1, t2}
    Names = {n1, n2}
    None = None
INVARIANT TypeOK
INVARIANT TarballThere
INVARIANT ReplacedStopped
PROPERTY StartsOwn
PROPERTY Returns
