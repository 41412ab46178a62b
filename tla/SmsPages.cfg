SPECIFICATION Spec
CONSTANTS
    Phones <- ThreePhones
    Times <- TwoTimes
    Limits <- OneOrTwo
    MaxMessages = 4
    MaxPages = 5
CHECK_DEADLOCK FALSE
INVARIANTS
    NoMessageMissed
    OnlyActiveNumbersMissed
