SPECIFICATION Spec
CONSTANTS
    proPlan = proPlan
    ultraPlan = ultraPlan
    freePlan = freePlan
    s1 = s1
    u1 = u1
    u2 = u2
    u3 = u3
    f1 = f1
    f2 = f2
    Sub = {s1}
    User = {u1, u2, u3}
    Registered = {u1, u2}
    Flow = {f1, f2}
    Plan = {proPlan}
    Rank <- MCRank
    NoUser = NoUser
    NoPlan = NoPlan
    NoDate = NoDate
    None = None
    Kinds = {"CREATED", "ACTIVATED", "SALE_COMPLETED", "attach", "cronOrphan"}
    InOrder = FALSE
    MaxTime = 1
    MaxEvents = 3
    MaxTasks = 2
    MaxFaults = 1
SYMMETRY Symmetry
CHECK_DEADLOCK FALSE
INVARIANTS TypeOK SingleActivator AppliedIsGranted OneBeneficiary
