SPECIFICATION QueueSpec
CONSTANTS
    j1 = j1
    j2 = j2
    mail = mail
    report = report
    k1 = k1
    pid1 = pid1
    alice = alice
    nobody = nobody
    nokey = nokey
    noowner = noowner
    first = first
    second = second
    Jobs = {j1, j2}
    Tasks = {mail, report}
    Keys = {k1}
    NoKey = nokey
    Args = {first, second}
    Principals = {alice}
    NoPrincipal = nobody
    Owners = {pid1}
    NoOwner = noowner
    MaxGenerations = 0
    Ceiling <- MCCeiling
    Inputs <- MCInputs
SYMMETRY Symmetric
INVARIANTS
    QueueTypeOK
    AttemptsBounded
    LeaseConsistent
PROPERTIES
    ScheduleNeverTouchesStarted
    NoTakeover
