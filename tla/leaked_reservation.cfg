SPECIFICATION Spec
CONSTANTS
    s1 = s1
    s2 = s2
    w1 = w1
    w2 = w2
    u1 = u1
    u2 = u2
    i1 = i1
    i2 = i2
    store1 = store1
    store2 = store2
    None = None
    Sessions = {s1, s2}
    Workers = {w1}
    HostOf <- MCHostOf
    Users = {u1}
    Inventories = {i1}
    StoreOf <- MCStoreOf
    MaxOrderQty <- MCMaxOrderQty
    Quantities = {1}
    InitStock <- MCInitStock
    Window = 1
    MaxTime = 2
    MaxRequests = 1
    MaxItems = 2
    MaxStock = 2
    MaxInFlight = 3
SYMMETRY SessionSymmetry
INVARIANTS
    ClosedRequestsHoldNothing
