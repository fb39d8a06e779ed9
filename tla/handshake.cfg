SPECIFICATION HandshakeSpec
CONSTANTS
    None = None
    Initiators = {a1, a2}
    Owner <- OneOwner
    Android = {a2}
    MaxSignedPreKeys = 2
    OneTimePreKeys = {o1, o2}
    MaxSkip = 1
    MaxSkippedKeys = 2
    MaxReceived = 2
    MaxCounter = 8
    MaxNonce = 8
INVARIANTS
    SessionsAgree
    OnlySignedPreKeys
    SecretsOutliveIdentities
    SecretsDiffer
    HonestInitialOpens
CHECK_DEADLOCK FALSE
