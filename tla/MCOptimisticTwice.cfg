\* Two mutations of one query, both sent at once.
SPECIFICATION Spec
CONSTANTS
    a = a
    b = b
    c = c
    p = p
    q = q
    NoTruth = NoTruth
    NoReply = NoReply
    Mutations = {a, c}
    Queries = {q}
    Targets <- MCTargets
    Queued = {}
    Fragile = {}
    MaxDepth = 1
INVARIANT NeverDoubleCounted
CHECK_DEADLOCK FALSE
