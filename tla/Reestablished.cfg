SPECIFICATION DialogueFairSpec
CONSTANTS
    sms1 = sms1
    ref = ref
    Commands = {}
    RequestOf <- NoRequests
    NoCommand = NoCommand
    Values = {ref}
    Malformed = Malformed
    NoValue = NoValue
    Capacity = 1
    MaxLines = 1
    GnssEnabled = TRUE
    GpioEnabled = FALSE
    GpioRepower = FALSE
    Backlog = 2
PROPERTIES
    ReestablishedIsOnline
