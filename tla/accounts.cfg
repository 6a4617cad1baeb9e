SPECIFICATION Spec
CONSTANTS
    s1 = s1
    s2 = s2
    p1 = p1
    p2 = p2
    e1 = e1
    e2 = e2
    c1 = c1
    c2 = c2
    None = None
    Blank = Blank
    Sessions = {s1, s2}
    Phones = {p1}
    Emails = {e1, e2}
    Codes = {c1}
    Ttl = 1
    MaxTime = 1
    MaxUsers = 2
    MaxOtps = 2
    MaxInFlight = 2
SYMMETRY Symmetry
INVARIANTS
    TypeOK
    PhoneWasProven
    TokensForProvenPhone
    EmailWasProven
PROPERTIES
    AcceptedInOneRound
