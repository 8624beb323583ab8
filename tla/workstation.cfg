\* A run with two commands, its stop and deletion, and two faults.
SPECIFICATION Spec
CONSTANTS
    r1 = r1
    t1 = t1
    t2 = t2
    Runs = {r1}
    Tasks = {t1, t2}
    RunOf <- OneRun
    MaxStops = 1
    MaxFaults = 2
    MaxRenewals = 0
CHECK_DEADLOCK FALSE
INVARIANT WorkstationInv
PROPERTY StopSparesLaterTasks
PROPERTY EndsArrive
PROPERTY EndNoticed
