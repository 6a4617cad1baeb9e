SPECIFICATION Spec
CONSTANTS
    s1 = s1
    s2 = s2
    u1 = u1
    u2 = u2
    None = None
    Sessions = {s1, s2}
    Users = {u1}
    Lifetime = 1
    MaxTime = 0
    MaxTokens = 3
    MaxInFlight = 2
SYMMETRY Symmetry
INVARIANTS
    OneSuccessor
