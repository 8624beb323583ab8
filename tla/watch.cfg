\* Two watches, one with an operation and a stall.
SPECIFICATION Spec
CONSTANTS
    c1 = c1
    c2 = c2
    plain = plain
    full = full
    Calls = {c1, c2}
    Defs = {plain, full}
    DefOf <- TwoDefs
    Slow = {full}
    Stalling = {full}
    None = none
    Verdict <- Verdicts
    MaxTurns = 1
    MaxUpsets = 1
CHECK_DEADLOCK FALSE
INVARIANT WatchInv
PROPERTY EndedStaysQuiet
PROPERTY ChangesReported
