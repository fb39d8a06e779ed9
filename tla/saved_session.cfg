SPECIFICATION SavedSpec
CONSTANTS
    None = None
    Alice = Alice
    Bob = Bob
    MaxSends <- Sends22
    MaxSkip = 8
    MaxSkippedKeys = 16
    MaxReceived = 8
    MaxCounter = 100
    MaxNonce = 100
    MaxFailedSends = 1
    MaxMishaps = 2
INVARIANTS
    NothingUsedTwice
    InStep
    SavedCopyRecovers
    SentStaySecret
