\* One agent with a subscription, across shutdowns, crashes and startups.
SPECIFICATION Spec
CONSTANTS
    Agents = {p}
    Scripts = {}
    Externals = {}
    Subscriptions = {s}
    MaxInputs = 3
    MaxTurns = 2
    MaxCalls = 1
    Selectable = {}
    Policies = {"enabled"}
    Grants <- SubscriberGrants
    Owner = owner
    None = none
INVARIANT KernelInv
INVARIANT ClaimedInputAccountedFor
INVARIANT NothingLeftToWake
PROPERTY NothingTwice
PROPERTY RecoveryLeavesNoTurnRunning
