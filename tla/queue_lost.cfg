CONSTANTS
    MaxWrites = 2
    MaxAttempts = 2
SPECIFICATION QueueSpec
INVARIANT SentOrStays
