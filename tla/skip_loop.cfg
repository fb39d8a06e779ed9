SPECIFICATION LoopSpec
CONSTANTS
    None = None
    Chains = {c1, c2}
    MaxSkip = 2
    MaxSkippedKeys = 4
    MaxNumber = 4
    MaxCalls = 3
    ClockSteps <- AnyClock
INVARIANTS
    LoopIsClosedForm
    GapIsStored
    StoreBounded
    HalfSurvives
CHECK_DEADLOCK FALSE
