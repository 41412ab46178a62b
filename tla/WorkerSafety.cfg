SPECIFICATION Spec
CONSTANTS
    sms1 = sms1
    sms2 = sms2
    query = query
    ref = ref
    Commands = {sms1, sms2, query}
    RequestOf <- TwoSmsAndQuery
    NoCommand = NoCommand
    Values = {ref}
    Malformed = Malformed
    NoValue = NoValue
    Capacity = 2
    MaxLines = 2
INVARIANTS
    TypeOK
    LoopControl
    CommandConservation
    ExecutesOnlyOnline
    WriteBeforeAnyAnswer
PROPERTIES
    ClosedOnlyByInvalidTransition
    StatusAnnounced
    CleanStart
    ServiceSpec
