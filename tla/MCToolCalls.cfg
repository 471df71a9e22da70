CONSTANTS
    app = app
    hub = hub
    gate = gate
    k1 = k1
    k2 = k2
    aaaaa = aaaaa
    plain = plain
    transfer = transfer
    balance = balance
    schema = schema
    execute = execute
    getApiDoc = getApiDoc
    Origin = {app, hub, gate}
    Principal = {k1, k2, aaaaa}
    Canister = {k1, k2}
    None = None
    Unknown = Unknown
    Known <- MCKnown
    Canon <- MCCanon
    Method = {plain, transfer, balance, schema, execute, getApiDoc}
    MixedPurpose = {}
    Standard = {}
    Listed <- MCListed
    Finance = {}
    LedgerNamed = {transfer}
    KeywordNamed = {}
    SchemaMethod = schema
    ExecuteMethod = execute
    DocMethods = {getApiDoc}
    Call = {c1}
    Asks <- MCAsks
    Sites <- MCSites
    Interfaces <- MCInterfaces
    Provided = {}
    MaxChanges = 1
SPECIFICATION Spec
INVARIANTS SentAsDeclared SignedAsApp JudgedBeforeSent EarnedVerdict
