SPECIFICATION DialogueFairSpec
CONSTANTS
    sms1 = sms1
    ref = ref
    Commands = {sms1}
    RequestOf <- OneMessage
    NoCommand = NoCommand
    Values = {ref}
    Malformed = Malformed
    NoValue = NoValue
    Capacity = 1
    MaxLines = 1
    GnssEnabled = FALSE
    GpioEnabled = TRUE
    GpioRepower = TRUE
    Backlog = 2
INVARIANTS
    DialogueTypeOK
PROPERTIES
    OnlyOneAnswerBehind
    InStepMeansConfigured
    InStepGoesOnline
    AcceptedIsSettled
