SPECIFICATION FairSpec
CONSTANTS
    a = a
    b = b
    c = c
    d = d
    k = k
    m = m
    None = None
    Keys = {k}
    Requests = {a, b, d}
    KeyOf <- MCKeyOf
    Fingerprint <- MCPrint
    Expires <- MCExpires
    Owned = {k}
    Slots = {1}
    Times = {0, 1}
INVARIANTS TypeOK EffectsOnce ClaimsReleased ErasedStaysErased
    EffectsRemembered FailuresChangeNothing
PROPERTIES OnceImplemented RequestsEnd
CHECK_DEADLOCK FALSE
