SPECIFICATION Spec
CONSTANTS
    Q = 7
    TopBit = 16
    Seeds <- SomeSeeds
    Messages = {m1, m2}
    Randoms = {z1, z2}
    PointHashes <- PointHash
    NonceHashes <- NonceHash
    ChallengeHashes <- ChallengeHash
    MaxSigned = 2
    MaxAccepted = 2
SYMMETRY Alike
INVARIANTS
    SignedVerifies
    OneOutputOrLuck
    NotMalleable
    NonceBoundToMessage
CHECK_DEADLOCK FALSE
