SPECIFICATION Spec
CONSTANTS
    proPlan = proPlan
    ultraPlan = ultraPlan
    freePlan = freePlan
    s1 = s1
    u1 = u1
    u2 = u2
    f1 = f1
    f2 = f2
    Sub = {s1}
    User = {u1}
    Registered = {u1}
    Flow = {f1}
    Plan = {freePlan, proPlan, ultraPlan}
    Rank <- MCRank
    NoUser = NoUser
    NoPlan = NoPlan
    NoDate = NoDate
    None = None
    Kinds = {"ACTIVATED", "UPDATED", "RENEWED", "SALE_COMPLETED", "cronDowngrade"}
    InOrder = TRUE
    MaxTime = 3
    MaxEvents = 5
    MaxTasks = 0
    MaxFaults = 1

CHECK_DEADLOCK FALSE
INVARIANTS AppliedIsGranted PlanFollowsPayPal
PROPERTIES DowngradeWaits
