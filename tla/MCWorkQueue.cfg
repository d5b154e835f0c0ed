SPECIFICATION FairSpec
CONSTANTS
    Keys <- MCKeys
    Own = own
    Tombstone = tombstone
    MaxNotes = 2
    MaxFaults = 1
    own = own
    other = other
    tombstone = tombstone
INVARIANTS
    TypeOK
    NoLostChange
PROPERTIES
    ImplementsWakeups
    Settles
