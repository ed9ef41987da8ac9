\* One request: an answer of failure while the script runs on.
SPECIFICATION Spec
CONSTANTS
    Threads = {t1}
    Slots = {s1}
    Branches = {b1}
    Contents = {e1}
    None = None
PROPERTY FailureIsFinal
