SPECIFICATION Spec
CONSTANTS
    None = None
    Null = Null
    Dangling = Dangling
    Addresses = {a1, a2, a3, a4}
    Sessions = {s1, s2}
    MaxLength = 2
SYMMETRY Alike
INVARIANTS
    FreesAreLegal
    HandlesLead
    NothingLeaks
    StatusIsReturned
