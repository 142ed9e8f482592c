\* One Stars charge delivered three times, two flows, one request, two faults.
SPECIFICATION FairSpec
CONSTANTS
    u1 = u1
    c1 = c1
    c2 = c2
    f1 = f1
    f2 = f2
    Charge = {c1}
    Resource = {u1, c1}
    card = {}
    Dated = {c1}
    User = {u1}
    Payer <- MCPayer
    Method <- MCMethod
    Client = {f1, f2}
    Free = Free
    Stray = Stray
    Outside = Outside
    NoDate = NoDate
    None = None
    Period = 2
    MaxTime = 1
    MaxDeliveries = 3
    MaxRequests = 1
    MaxFaults = 2
CHECK_DEADLOCK FALSE
INVARIANTS TypeOK OneCreditPerCharge AckedIsActivated MutualExclusion TimelyHolds
PROPERTIES KeepsPaidAccess AccessEnds
