\* Two agents and a TypeScript actor that create, stop and restart one another.
SPECIFICATION Spec
CONSTANTS
    Agents = {p, c}
    Scripts = {w}
    Externals = {}
    Subscriptions = {}
    MaxInputs = 2
    MaxTurns = 2
    MaxCalls = 0
    Selectable = {w}
    Policies = {}
    Grants <- BranchGrants
    Owner = owner
    None = none
SYMMETRY Symmetry
PROPERTY BranchStopsWhole
PROPERTY StoppedRunRests
