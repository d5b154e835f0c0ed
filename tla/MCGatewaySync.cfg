SPECIFICATION FairSpec
CONSTANTS
    GatewayIP = "gw"
    NoIP = ""
    Rules <- MCOneRule
    MaxChanges = 1
    MaxFaults = 1
INVARIANTS
    TypeOK
    AnnouncedHasAddress
    NoLostSync
    NoLeftovers
PROPERTIES
    EventuallyServed
    DeadServerNoticed
    ImplementsRuleDelivery
