SPECIFICATION FairSpec
CONSTANTS
    None = None
    Alice = Alice
    Bob = Bob
    MaxSends <- Sends44
    MaxSkip = 8
    MaxSkippedKeys = 16
    MaxReceived = 8
    MaxCounter = 100
    MaxNonce = 100
    MaxFailedSends = 1
INVARIANTS
    MessageKeysUnique
    InStep
    SkippedKeysGenuine
    ReflectionRefused
    DuplicatesWereHanded
    NoMessageStranded
PROPERTIES
    AllDelivered
