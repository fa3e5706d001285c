SPECIFICATION FairSpec
CONSTANTS
    Commands <- MCCommands
    Unsolicited <- MCUnsolicited
    OuterTries = 2
    InnerTries = 2
    WindowLength = 16
    RxDepth = 4
    MaxFaults = 2
    MaxCalls = 2
    Pending = Pending
INVARIANT TypeOK
PROPERTIES
    ExchangeSpec
    GivesUpLate
    TellsWhatHappened
    Returns
CHECK_DEADLOCK FALSE
