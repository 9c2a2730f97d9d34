CONSTANTS
    MaxWrites = 2
    MaxAttempts = 2
SPECIFICATION QueueSpec
INVARIANTS
    QueueTypeOK
    OneEntryPerTarget
    SentOrStaysUncrossed
PROPERTY DrainKeepsAreaOrder
