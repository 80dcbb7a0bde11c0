SPECIFICATION Spec
CONSTANTS
    j1 = j1
    j2 = j2
    r1 = r1
    r2 = r2
    mail = mail
    report = report
    k1 = k1
    pid1 = pid1
    alice = alice
    nobody = nobody
    nokey = nokey
    noowner = noowner
    first = first
    second = second
    third = third
    Jobs = {j1, j2}
    Tasks = {mail, report}
    Keys = {k1}
    NoKey = nokey
    Args = {first, second, third}
    Principals = {}
    NoPrincipal = nobody
    Owners = {pid1}
    NoOwner = noowner
    MaxGenerations = 1
    Ceiling <- TwoEach
    Inputs <- ThrottledAndChained
    Nodes = {r1}
    OwnerOf <- OneOwner
    Registered <- AllTasks
    Retry <- RetryMail
    Concurrency <- TwoEach
    BatchSize = 2
    MaxInFlight = 2
    ChildInputs <- ThrottledAndChained
    Crashable = {}
    Faulty = {r1}
SYMMETRY SymmetricArgs
INVARIANTS
    SuccessIsEarned
    GenerationsBounded
    RetriesRunAlike
