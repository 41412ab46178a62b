SPECIFICATION FairSpec
CONSTANTS
    receiver = receiver
    sender = sender
    subscriber = subscriber
    Tasks = {receiver, sender}
    Kinds <- TwoKinds
    Program <- TwoPrograms
    Webhooks <- ThreeWebhooks
    Connections = {subscriber}
    MaskOf <- Filter
    ConcurrencyLimit = 2
    MaxPings = 1
    NoEvent = NoEvent
CHECK_DEADLOCK FALSE
INVARIANTS
    TypeOK
    PostedInOrder
    ReceivedInOrder
PROPERTIES
    RemovedOnlyWhenOver
    EveryEventPosted
    GoneIsForgotten
