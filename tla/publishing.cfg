CONSTANTS
    Coordinator = {c1, c2}
    MaxDay = 2
    MaxInspections = 3
    MaxVisits = 2
    MaxDecisions = 3
    MaxFaults = 1
SPECIFICATION MCSpec
INVARIANTS PublishingTypeOK BookedOnceUncrossed AgreedAtRest
PROPERTY ConsoleAgreesWithJobber
CHECK_DEADLOCK FALSE
