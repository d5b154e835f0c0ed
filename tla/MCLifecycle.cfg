SPECIFICATION FairSpec
CONSTANTS
    ESs <- MCOneES
    NoES = none
    Names <- MCOneName
    NameOf <- MCNameOf
    MaxFaults = 1
    es1 = es1
    none = none
    n1 = n1
INVARIANTS
    TypeOK
    NoLostRequest
PROPERTIES
    DeletionCompletes
    EventuallyServed
    EventuallyInGateway
    ClearedIsGone
