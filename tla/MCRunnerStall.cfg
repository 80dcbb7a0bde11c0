SPECIFICATION FairSpec
CONSTANTS
    j1 = j1
    j2 = j2
    r1 = r1
    r2 = r2
    mail = mail
    report = report
    k1 = k1
    pid1 = pid1
    alice = alice
    nobody = nobody
    nokey = nokey
    noowner = noowner
    first = first
    second = second
    third = third
    Jobs = {j1, j2}
    Tasks = {mail, report}
    Keys = {k1}
    NoKey = nokey
    Args = {first, second}
    Principals = {}
    NoPrincipal = nobody
    Owners = {pid1}
    NoOwner = noowner
    MaxGenerations = 0
    Ceiling <- TwoEach
    Inputs <- Keyed
    Nodes = {r1}
    OwnerOf <- OneOwner
    Registered <- AllTasks
    Retry <- RetryMail
    Concurrency <- TwoEach
    BatchSize = 1
    MaxInFlight = 1
    ChildInputs <- NoInputs
    Crashable = {}
    Faulty = {}
PROPERTIES
    ExpiredLeasesReaped
