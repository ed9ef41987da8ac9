\* Two requests at a time, one forward; iptables -C never fails for nothing.
SPECIFICATION Spec
CONSTANTS
    Threads = {t1, t2}
    Rules = {r1}
    MaxFaults = 0
PROPERTY RemovedIsGone
