\* Three requests at a time about one VMID; that they are answered is checked of
\* one, since threads are alike.
SPECIFICATION FairHost
CONSTANTS
    Threads = {t1, t2, t3}
    Vmids = {v1}
    None = None
    Going = {t1}
INVARIANT HostTypeOK
INVARIANT ProvisionsOwn
INVARIANT StartsReady
INVARIANT RestoresOwn
PROPERTY SparesRestores
PROPERTY Answered
