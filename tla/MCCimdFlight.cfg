CONSTANTS
    k1 = k1
    k2 = k2
    k3 = k3
    h1 = h1
    h2 = h2
    Request = {r1, r2, r3}
    Key = {k1, k2, k3}
    Host = {h1, h2}
    HostOf <- MCHostOf
    Nil = Nil
    MaxInflight = 1
    MaxPerHost = 1
    CacheMax = 1
    Answers <- MCAnswers
    None = None
    Garbled = Garbled
    Bad = Bad
    Forever = 9
    MaxTTL = 1
    DefaultTTL = 1
    NegativeTTL = 1
    MaxTime = 1
SPECIFICATION Spec
SYMMETRY Symmetry
CHECK_DEADLOCK FALSE
INVARIANTS SingleFlight FreshAnswers GivenBack WaiterHasServer
