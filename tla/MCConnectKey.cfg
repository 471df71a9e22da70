CONSTANTS
    Sid = {s1, s2}
    Nil = Nil
    MaxPending = 1
    MaxSessions = 1
    PendingTTL = 3
    Redeem = {p1, p2}
    Exchange = {e1}
    ConnectTTL = 2
    CodeTTL = 1
    TokenTTL = 3
    MaxCodes = 1
    MaxTokens = 1
    GrantTTL = 2
    Levels = {"no"}
    Drops = FALSE
    MaxTime = 1
SPECIFICATION Spec
CHECK_DEADLOCK FALSE
INVARIANT GrantedKeyRegistered
