\* Created, cancelled by its owner; one fault.
SPECIFICATION FairCheckoutSpec
CONSTANTS
    proPlan = proPlan
    ultraPlan = ultraPlan
    s1 = s1
    s2 = s2
    u1 = u1
    f1 = f1
    f2 = f2
    Sub = {s1}
    User = {u1}
    Registered = {u1}
    Flow = {f1, f2}
    Client = {f1, f2}
    Resource = {s1, u1}
    Free = Free
    Stray = Stray
    Outside = Outside
    Plan = {proPlan}
    Rank <- MCRank
    NoUser = NoUser
    NoPlan = NoPlan
    NoDate = NoDate
    None = None
    Kinds = {"create", "cancel", "ACTIVATED", "CANCELLED", "cronVerify", "cronDeferred"}
    InOrder = FALSE
    MaxTime = 1
    MaxEvents = 2
    MaxTasks = 2
    MaxFaults = 1
CHECK_DEADLOCK FALSE
PROPERTIES CancelReaches
