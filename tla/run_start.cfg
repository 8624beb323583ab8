\* A message and two starts of a script meet, with a stop, a failure and a deletion.
SPECIFICATION Spec
CONSTANTS
    m1 = m1
    s1 = s1
    s2 = s2
    e = e
    Messages = {m1}
    Starts = {s1, s2}
    Entries = {e}
    EntryOf <- OneEntry
    Embeddable = {e}
    MaxFaults = 1
    MaxUpsets = 1
CHECK_DEADLOCK FALSE
INVARIANT RunStartInv
PROPERTY CancellationFits
PROPERTY InputAfterReadiness
PROPERTY DeletionIsFinal
PROPERTY EverybodyAnswered
