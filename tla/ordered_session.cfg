SPECIFICATION OrderedSpec
CONSTANTS
    None = None
    Alice = Alice
    Bob = Bob
    MaxSends <- Sends44
    MaxSkip = 2
    MaxSkippedKeys = 4
    MaxReceived = 6
    MaxCounter = 20
    MaxNonce = 20
    MaxFailedSends = 1
INVARIANTS
    NothingSkipped
    HandedKeysForgotten
PROPERTIES
    ImplementsFifoChannel
