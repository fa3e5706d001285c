CONSTANTS
    MaxLength = 63
    CommandLength = 7
    Messages <- MCMessages
    MaxMessages = 2
    MaxSends = 2
    MaxTogether = 2
SPECIFICATION Spec
INVARIANTS TypeOK Delivered
PROPERTIES TextIntoPrompt Taken HangUpNoticed
CHECK_DEADLOCK FALSE
