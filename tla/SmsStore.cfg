SPECIFICATION Spec
CONSTANTS
    alice = alice
    bob = bob
    Alice = Alice
    Bob = Bob
    Messages = {alice, bob}
    PhoneOf <- Numbers
    PartsOf <- TwoForBob
    NoMessage = NoMessage
    References = 2
    MaxReports = 2
CHECK_DEADLOCK FALSE
INVARIANTS
    TypeOK
    StoredOnlyIfSent
    RightMessage
    StatusHasItsReport
PROPERTIES
    FinalStatusSticks
