\* Openings one after the other, with processes that die and are suspended.
SPECIFICATION FairLockSpec
CONSTANTS
    p1 = p1
    p2 = p2
    p3 = p3
    Processes = {p1, p2, p3}
    Host <- Hosts
    Overlap = FALSE
    Suspensions = 1
    NoProcess = none
CHECK_DEADLOCK FALSE
INVARIANT LockInv
PROPERTY OwnerKept
PROPERTY ReplacedWriterStops
