\* Three commands, failing calls, crashes of the process and losses of power.
SPECIFICATION Spec
CONSTANTS
    Commands = {c1, c2, c3}
    Large = {c2}
    Corrupt = corrupt
    BatchSize = 2
    Listeners = 2
SYMMETRY Symmetry
INVARIANT JournalInv
INVARIANT SeenInOrder
PROPERTY AnsweredIsDurable
PROPERTY KeepsPromise
