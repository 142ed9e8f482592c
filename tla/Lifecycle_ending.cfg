SPECIFICATION FairSpec
CONSTANTS
    proPlan = proPlan
    ultraPlan = ultraPlan
    freePlan = freePlan
    s1 = s1
    u1 = u1
    u2 = u2
    f1 = f1
    f2 = f2
    Sub = {s1}
    User = {u1}
    Registered = {u1}
    Flow = {f1}
    Plan = {proPlan}
    Rank <- MCRank
    NoUser = NoUser
    NoPlan = NoPlan
    NoDate = NoDate
    None = None
    Kinds = {"ACTIVATED", "SUSPENDED", "RE_ACTIVATED", "CANCELLED", "EXPIRED", "SALE_REFUNDED", "cronDeferred", "cronVerify"}
    InOrder = FALSE
    MaxTime = 2
    MaxEvents = 4
    MaxTasks = 0
    MaxFaults = 1

CHECK_DEADLOCK FALSE
PROPERTIES AccessEndsForCause EndedLosesAccess
