SPECIFICATION Spec
CONSTANTS
    j1 = j1
    j2 = j2
    r1 = r1
    r2 = r2
    mail = mail
    report = report
    k1 = k1
    pid1 = pid1
    alice = alice
    nobody = nobody
    nokey = nokey
    noowner = noowner
    first = first
    second = second
    third = third
    Jobs = {j1, j2}
    Tasks = {mail, report}
    Keys = {k1}
    NoKey = nokey
    Args = {first, second}
    Principals = {}
    NoPrincipal = nobody
    Owners = {pid1}
    NoOwner = noowner
    MaxGenerations = 0
    Ceiling <- MailTwice
    Inputs <- Unkeyed
    Nodes = {r1, r2}
    OwnerOf <- OneOwner
    Registered <- AllTasks
    Retry <- RetryMail
    Concurrency <- OneEach
    BatchSize = 2
    MaxInFlight = 2
    ChildInputs <- NoInputs
    Crashable = {r1}
    Faulty = {}
SYMMETRY Symmetric
INVARIANTS
    TypeOK
    SuccessIsEarned
    AttemptsAreClaims
    HealthyBodiesCapped
    FinishedClaimsReleased
PROPERTIES
    LeaseLostOnlyByExpiry
