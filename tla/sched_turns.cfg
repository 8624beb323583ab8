\* An actor takes turns while people and the end of the server stop it.
SPECIFICATION FairSpec
CONSTANTS
    agent = agent
    Actors = {agent}
    Primary = agent
    MaxTurns = 2
    MaxInputs = 2
    MaxStops = 2
    MaxHalts = 2
CHECK_DEADLOCK FALSE
INVARIANT SchedulerInv
INVARIANT InterruptionsAsked
PROPERTY WaitingInputStarts
PROPERTY EndsWithoutDriver
