CONSTANTS
    MaxLength = 15
    CommandLength = 7
    Messages <- MCMessages
    MaxMessages = 2
    MaxSends = 0
    MaxTogether = 2
SPECIFICATION Spec
INVARIANT DroppedOnlyWhenFull
CHECK_DEADLOCK FALSE
