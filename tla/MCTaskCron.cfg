SPECIFICATION FairSpec
CONSTANTS
    j1 = j1
    j2 = j2
    j3 = j3
    r1 = r1
    r2 = r2
    mail = mail
    pid1 = pid1
    first = first
    nobody = nobody
    nokey = nokey
    noowner = noowner
    Jobs = {j1, j2, j3}
    Tasks = {mail}
    Keys <- MCKeys
    NoKey = nokey
    Args = {first}
    Principals = {}
    NoPrincipal = nobody
    Owners = {}
    NoOwner = noowner
    MaxGenerations = 0
    Ceiling <- OneEach
    Inputs <- CronInputs
    Nodes = {r1, r2}
    Crashable = {r1}
    Faulty = {r1, r2}
    Horizon = 3
    Fires <- EveryMinute
    CatchUp <- Backfilled
    BackfillLimit = 2
INVARIANTS
    TypeOK
    OneJobPerOccurrence
    BindingsName
    PassesCatchUp
PROPERTIES
    RetriedUntilReserved
    OccurrencesServedOnce
