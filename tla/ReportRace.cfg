SPECIFICATION Spec
CONSTANTS
    alice = alice
    bob = bob
    Alice = Alice
    Bob = Bob
    Messages = {alice, bob}
    PhoneOf <- Numbers
    PartsOf <- OnePart
    NoMessage = NoMessage
    References = 256
    MaxReports = 1
CHECK_DEADLOCK FALSE
PROPERTIES
    ReportFindsItsMessage
