\* Two calls in two processes; a short and a long lifetime.
SPECIFICATION FairSpec
CONSTANTS
    p1 = p1
    p2 = p2
    c1 = c1
    c2 = c2
    Process = {p1, p2}
    Client = {c1, c2}
    elsewhere = {c2}
    Home <- MCHome
    TokenLock = TokenLock
    Resource = {TokenLock}
    Free = Free
    Stray = Stray
    Outside = Outside
    NoToken = NoToken
    Margin = 2
    MinTtl = 1
    Lifetime <- MCLifetime
    MaxTokens = 2
    MaxTime = 4
    MaxFaults = 1
CHECK_DEADLOCK FALSE
INVARIANTS TypeOK AnswersAreAlive OneRefresh
PROPERTIES NoNeedlessRefresh CallsEnd
