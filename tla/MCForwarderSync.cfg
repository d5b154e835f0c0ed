SPECIFICATION FairSpec
CONSTANTS
    Specs <- MCSpecs
    NoRules <- MCNoRules
    Inputs <- MCInputs
    Rendering <- MCRendering
    MaxChanges = 1
    MaxFaults = 1
INVARIANTS
    TypeOK
    NoLeftovers
    NoLostWork
PROPERTIES
    EventuallyDelivered
    AnnouncesOnlyApplied
    ImplementsRuleDelivery
