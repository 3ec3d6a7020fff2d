SPECIFICATION FairSpec
CONSTANTS
    k1 = k1
    p1 = p1
    p2 = p2
    r1 = r1
    r2 = r2
    r3 = r3
    Requests = {r1, r3}
    Clients = {k1}
    Pods = {p1, p2}
    client <- ClientOf
    pod <- PodOf
    Limit = 2
    Window = 2
    MaxRestarts = 1
INVARIANTS EveryKeyExpires NoOverAdmission AtMostDoubleCharge
PROPERTIES EveryRequestDecided BansEnd
