\* An actor is stopped and restarted before its task has settled.
SPECIFICATION Spec
CONSTANTS
    agent = agent
    Actors = {agent}
    Primary = agent
    MaxTurns = 2
    MaxInputs = 2
    MaxStops = 1
    MaxHalts = 1
CHECK_DEADLOCK FALSE
INVARIANT RestartedActorServed
