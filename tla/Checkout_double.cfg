\* Two create requests of one user.
SPECIFICATION CheckoutSpec
CONSTANTS
    proPlan = proPlan
    ultraPlan = ultraPlan
    s1 = s1
    s2 = s2
    u1 = u1
    f1 = f1
    f2 = f2
    Sub = {s1, s2}
    User = {u1}
    Registered = {u1}
    Flow = {f1, f2}
    Client = {f1, f2}
    Resource = {s1, s2, u1}
    Free = Free
    Stray = Stray
    Outside = Outside
    Plan = {proPlan}
    Rank <- MCRank
    NoUser = NoUser
    NoPlan = NoPlan
    NoDate = NoDate
    None = None
    Kinds = {"create"}
    InOrder = TRUE
    MaxTime = 1
    MaxEvents = 0
    MaxTasks = 2
    MaxFaults = 0
CHECK_DEADLOCK FALSE
INVARIANTS OneUnderWay
