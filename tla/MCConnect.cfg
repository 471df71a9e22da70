CONSTANTS
    Sid = {s1, s2}
    Nil = Nil
    MaxPending = 1
    MaxSessions = 1
    PendingTTL = 3
    Redeem = {p1, p2}
    Exchange = {e1}
    ConnectTTL = 2
    CodeTTL = 1
    TokenTTL = 3
    MaxCodes = 1
    MaxTokens = 1
    GrantTTL = 2
    Levels = {"no"}
    Drops = TRUE
    MaxTime = 3
SPECIFICATION FairSpec
CHECK_DEADLOCK FALSE
INVARIANTS SingleFlight TokenBacked JournalPaired
PROPERTIES ClaimSettles LiveGrantKept StrandedOnlyAtCap ImplementsOneShotCode
