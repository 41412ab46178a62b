SPECIFICATION LinkSpec
CONSTANTS
    sms1 = sms1
    sms2 = sms2
    query = query
    Commands = {sms1, sms2}
    RequestOf <- TwoSms
    NoCommand = NoCommand
    Values = {sms1, sms2}
    Malformed = Malformed
    NoValue = NoValue
    Capacity = 2
    MaxLines = 2
    MaxUnsolicited = 1
CHECK_DEADLOCK FALSE
INVARIANTS
    OwnReference
