\* Two streams one after the other with two calls each, the second without a time limit.
SPECIFICATION Spec
CONSTANTS
    Ids = {1, 2}
    Untimed = {2}
    MaxStreams = 2
    MaxCalls = 2
CHECK_DEADLOCK FALSE
INVARIANT PeerInv
PROPERTY SilencedOnlyWithStream
PROPERTY CancellationArrives
