SPECIFICATION Spec
CONSTANTS
    None = None
    Alice = Alice
    Bob = Bob
    MaxSends <- Sends42
    MaxSkip = 1
    MaxSkippedKeys = 2
    MaxReceived = 8
    MaxCounter = 100
    MaxNonce = 100
    MaxFailedSends = 1
PROPERTIES
    ErrorsChangeNothing
