CONSTANTS
    c1 = c1
    c2 = c2
    c3 = c3
    wallet = wallet
    t1 = t1
    t2 = t2
    t3 = t3
    lb = lb
    lo = lo
    lk = lk
    ls = ls
    uB = uB
    listedUrl = listedUrl
    alikeUrl = alikeUrl
    otherUrl = otherUrl
    AppUrl = {listedUrl, alikeUrl, otherUrl}
    KnownApps <- MCKnownApps
    Registered = {listedUrl}
    HostWords <- MCWords
    Queries <- MCQueries
    MaxTokens = 3
    MaxProbes = 1
    Text = {1, 2, 3, 4, 5, 6}
    Of <- MCOf
    Canister = {c1, c2, c3}
    None = None
    Blank = Blank
    Manifests <- MCManifests
    OldManifests <- MCOldManifests
    EnvFiles <- MCEnvFiles
    Pages <- MCPages
    Scripts <- MCScripts
    MaxManifest = 1
    MaxFound = 3
    MaxSources = 4
    MaxScripts = 1
    MaxBare = 1
    MaxCanisters = 2
    Name = {1, 2, 3, 4, 5}
    TypeName = {t1, t2, t3}
    BlankName = BlankName
    All = All
    Length <- MCLength
    Limit = 10
    UnknownLimit = 8
    Letter = {lb, lo, lk, ls, uB}
    Lower <- MCLower
    Plural = ls
    Absent = Absent
    Empty = Empty
    MaxColumns = 2
    MaxRows = 2
    MaxEntities = 2
    MaxFuzzy = 6
    Interfaces <- MCInterfaces
    Requests <- MCRequests
    Starts <- MCStarts
    Replies <- MCReplies
    Schemas <- MCSchemas
    Samples <- MCSamples
    Dids <- MCDids
    Registries <- MCRegistries
    Names <- MCNames
    Garbled = Garbled
    MaxMatches = 2
    MaxDepth = 2
    MaxTypes = 1
SPECIFICATION ReadingSpec
CHECK_DEADLOCK FALSE
INVARIANTS DeclaredAsGate BestKept  ReadAnswer GuardAnswer
