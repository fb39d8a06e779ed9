SPECIFICATION HandshakeSpec
CONSTANTS
    None = None
    Initiators = {a1}
    Owner <- OneOwner
    Android = {}
    MaxSignedPreKeys = 2
    OneTimePreKeys = {o1}
    MaxSkip = 1
    MaxSkippedKeys = 2
    MaxReceived = 2
    MaxCounter = 8
    MaxNonce = 8
INVARIANTS
    BadKeysAreReported
CHECK_DEADLOCK FALSE
