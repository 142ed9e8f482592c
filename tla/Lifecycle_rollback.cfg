SPECIFICATION FairSpec
CONSTANTS
    proPlan = proPlan
    ultraPlan = ultraPlan
    freePlan = freePlan
    s1 = s1
    u1 = u1
    u2 = u2
    f1 = f1
    f2 = f2
    Sub = {s1}
    User = {u1}
    Registered = {u1}
    Flow = {f1, f2}
    Plan = {proPlan}
    Rank <- MCRank
    NoUser = NoUser
    NoPlan = NoPlan
    NoDate = NoDate
    None = None
    Kinds = {"ACTIVATED", "attach"}
    InOrder = FALSE
    MaxTime = 1
    MaxEvents = 2
    MaxTasks = 1
    MaxFaults = 1

CHECK_DEADLOCK FALSE
PROPERTIES PaidIsGranted
