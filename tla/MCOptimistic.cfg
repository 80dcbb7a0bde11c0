\* Two queued mutations and one sent at once, over two queries; the transforms
\* of a for q and of b for p may throw.
SPECIFICATION FairSpec
CONSTANTS
    a = a
    b = b
    c = c
    p = p
    q = q
    NoTruth = NoTruth
    NoReply = NoReply
    Mutations = {a, b, c}
    Queries = {p, q}
    Targets <- MCTargets
    Queued = {a, b}
    Fragile <- MCFragile
    MaxDepth = 2
INVARIANTS
    TypeOK
    BaseIsServerTruth
    ScreenExplained
    SerializedCountedOnce
    PredictionsHaveOwners
    HeadInFlight
PROPERTIES
    SiblingsKept
    TurnsTaken
    QueuedSubmissionsEnd
CHECK_DEADLOCK FALSE
