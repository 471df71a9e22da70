CONSTANTS
    Sid = {s1, s2}
    Redeem = {p1, p2, p3}
    Nil = Nil
SPECIFICATION FairSpec
CHECK_DEADLOCK FALSE
INVARIANTS SlotHonoured SingleFlight
PROPERTIES FreshSession PendingEnds
