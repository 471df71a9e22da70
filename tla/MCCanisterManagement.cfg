CONSTANTS
    t1 = t1
    t2 = t2
    t3 = t3
    c = c
    x = x
    y = y
    z = z
    Thread = {t1, t2, t3}
    Limit = 1
    Canister = {c}
    Chunk = {x, y, z}
    Modules <- MCModules
    Asks <- MCAsks
    SingleShot = 1
SPECIFICATION Spec
INVARIANTS NoLostWakeup AsReported FailsOnlyByRival
PROPERTIES OpsEnd
