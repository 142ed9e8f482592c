\* Requests and webhooks one after another; two faults.
SPECIFICATION CheckoutSpec
CONSTANTS
    proPlan = proPlan
    ultraPlan = ultraPlan
    s1 = s1
    s2 = s2
    u1 = u1
    f1 = f1
    f2 = f2
    Sub = {s1}
    User = {u1}
    Registered = {u1}
    Flow = {f1}
    Client = {f1}
    Resource = {s1, u1}
    Free = Free
    Stray = Stray
    Outside = Outside
    Plan = {proPlan, ultraPlan}
    Rank <- MCRank
    NoUser = NoUser
    NoPlan = NoPlan
    NoDate = NoDate
    None = None
    Kinds = {"create", "cancel", "resume", "renewOn", "renewOff", "ACTIVATED", "CANCELLED", "SUSPENDED", "RE_ACTIVATED", "cancelDowngrade", "UPDATED", "cronDowngrade"}
    InOrder = TRUE
    MaxTime = 2
    MaxEvents = 4
    MaxTasks = 4
    MaxFaults = 2
CHECK_DEADLOCK FALSE
INVARIANTS StatusAgrees AccessAgrees PlanFollowsPayPal
