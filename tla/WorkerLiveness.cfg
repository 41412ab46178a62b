SPECIFICATION FairSpec
CONSTANTS
    sms1 = sms1
    sms2 = sms2
    query = query
    ref = ref
    Commands = {sms1, query}
    RequestOf <- SmsAndQuery
    NoCommand = NoCommand
    Values = {ref}
    Malformed = Malformed
    NoValue = NoValue
    Capacity = 2
    MaxLines = 2
PROPERTIES
    AcceptedIsSettled
