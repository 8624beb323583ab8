\* A subscription with three requests over three streams, two changes and one fault.
SPECIFICATION Spec
CONSTANTS
    s1 = s1
    s2 = s2
    Subs = {s1}
    MaxSubs = 2
    MaxStreams = 3
    MaxBinds = 3
    MaxChanges = 2
    MaxFaults = 1
CHECK_DEADLOCK FALSE
INVARIANT ChannelInv
INVARIANT EachOnce
PROPERTY Converges
