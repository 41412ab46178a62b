SPECIFICATION LinkSpec
CONSTANTS
    sms1 = sms1
    sms2 = sms2
    query = query
    Commands = {sms1, sms2, query}
    RequestOf <- TwoSmsAndQuery
    NoCommand = NoCommand
    Values = {sms1, sms2, query}
    Malformed = Malformed
    NoValue = NoValue
    Capacity = 2
    MaxLines = 2
    MaxUnsolicited = 1
SYMMETRY MessagesAlike
CHECK_DEADLOCK FALSE
INVARIANTS
    LinkTypeOK
    OnlyMissedAnswersStray
    PduOnlyInPduEntry
