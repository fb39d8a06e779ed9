SPECIFICATION Spec
CONSTANTS
    None = None
    Alice = Alice
    Bob = Bob
    MaxSends <- Sends53
    MaxSkip = 1
    MaxSkippedKeys = 2
    MaxReceived = 2
    MaxCounter = 3
    MaxNonce = 4
    MaxFailedSends = 1
INVARIANTS
    TypeOK
    HeaderNoncesUnique
    MessageKeysUnique
    InStep
    SkippedKeysBounded
    CommitCannotFailHalfway
PROPERTIES
    RatchetsTakeTurns
