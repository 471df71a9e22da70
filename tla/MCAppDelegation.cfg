CONSTANTS
    t1 = t1
    t2 = t2
    o1 = o1
    o2 = o2
    a1 = a1
    a2 = a2
    work = work
    both = both
    None = None
    Task = {t1, t2}
    Origin = {o1, o2}
    Account = {a1, a2}
    Name = {work, both}
    Wants <- MCWants
    Named <- MCNamed
    TTL = 2
    Margin = 1
    Attempts = 2
    MaxCache = 1
    GrantEnd = 2
    MaxNow = 2
    MaxKeys = 2
    MaxActs = 1
SPECIFICATION Spec
INVARIANTS HandedAsAsked NotFoundOnlyByLag
PROPERTIES CallsEnd
