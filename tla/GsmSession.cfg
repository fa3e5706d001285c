SPECIFICATION FairSpec
CONSTANTS
    MaxFaults = 2
    OffReads = 2
    TurnOnTries = 3
    MaxCalls = 2
    RuleCount = 2
    FirewallTries = 4
    Profiles <- MCProfiles
INVARIANT TypeOK
PROPERTIES
    PowerIsAsTold
    TurnOnPersists
    ReadyMeansConfigured
    ConnectedIsFresh
    LinkIsAsTold
    FirewallShut
    CallsReturn
CHECK_DEADLOCK FALSE
