\* Two Stars charges, one without a date (as a card payment), each delivered
\* twice, two flows, one request.
SPECIFICATION Spec
CONSTANTS
    u1 = u1
    c1 = c1
    c2 = c2
    f1 = f1
    f2 = f2
    Charge = {c1, c2}
    Resource = {u1, c1, c2}
    card = {}
    Dated = {c2}
    User = {u1}
    Payer <- MCPayer
    Method <- MCMethod
    Client = {f1, f2}
    Free = Free
    Stray = Stray
    Outside = Outside
    NoDate = NoDate
    None = None
    Period = 2
    MaxTime = 1
    MaxDeliveries = 2
    MaxRequests = 1
    MaxFaults = 0
CHECK_DEADLOCK FALSE
INVARIANTS OneCreditPerCharge
PROPERTIES ExtendsFromExpiry RefundIsFinal KeepsPaidAccess
SYMMETRY Symmetry
