\* A lead and its worker watch each other, with a crash, a fork or a move.
SPECIFICATION DispatchSpec
CONSTANTS
    lead = lead
    worker = worker
    s1 = s1
    s2 = s2
    Actors = {lead, worker}
    Owner = owner
    Creator <- Team
    Subscriptions = {s1, s2}
    Watch <- Watches
    MaxEvents = 5
    Disruptions = 1
CHECK_DEADLOCK FALSE
INVARIANT DispatchInv
INVARIANT EveryMatchDelivered
INVARIANT FailureNoticed
PROPERTY NoCatchUp
