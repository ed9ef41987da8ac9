\* Two scripts in the VM. For the projects two requests at a time; for the
\* login and the editor one, with scripts that outlive it.
SPECIFICATION GuestSpec
CONSTANTS
    Threads = {t1, t2}
    Slots = {s1, s2}
    Branches = {b1, b2}
    Contents = {e1}
    Accounts = {a1, a2}
    DeviceCodes = {d1}
    Configs = {c1, c2}
    Parts = {"projects", "login", "editor"}
    ToolThreads = {t1}
    None = None
INVARIANT GuestTypeOK
INVARIANT EnvWhole
PROPERTY CloneKeepsProject
PROPERTY OkMeansDone
PROPERTY CompletedLogsIn
PROPERTY InstalledWhole
PROPERTY ConfiguredRuns
