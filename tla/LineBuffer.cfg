SPECIFICATION Spec
CONSTANTS
    MaxBufferSize = 3
    MaxReceived = 8
INVARIANTS
    TypeOK
    EventsOfStream
    DamageConfined
