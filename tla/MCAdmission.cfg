CONSTANTS
    Client = {c1}
    Url <- MCUrl
    Lists <- MCLists
    Id <- MCId
    Docs <- MCDocs
    Defaults <- MCDefaults
    Envs <- MCEnvs
    MaxUris = 2
    Nobody = Nobody
SPECIFICATION Spec
INVARIANTS PinnedDelivery OwnRedirect
