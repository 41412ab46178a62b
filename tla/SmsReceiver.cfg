SPECIFICATION Spec
CONSTANTS
    split = split
    old = old
    new = new
    plain = plain
    empty = empty
    keySplit = keySplit
    keyShared = keyShared
    keyPlain = keyPlain
    keyEmpty = keyEmpty
    Messages = {split, old, new, plain, empty}
    KeyOf <- Keying
    TotalOf <- Totals
    PartsOf <- Parts
    Single = Single
    NoPart = NoPart
    NoMessage = NoMessage
    MaxDeliveries <- Deliveries
CHECK_DEADLOCK FALSE
INVARIANTS
    TypeOK
    CountIsRight
    EachPartInItsPlace
    NoMoreOftenThanReceived
    WholeMessageCompiled
PROPERTIES
    RemovedOnlyIfStalled
