\* The same ledger: is what was reserved in it reserved for good?
SPECIFICATION LifeSpec
CONSTANTS
    p = p
    q = q
    r = r
    Operators = {p, q, r}
    NoFile = NoFile
    Torn = Torn
    NoOne = NoOne
    NumCases = 2
    PerCaseCap = 2
    TotalCap = 4
    MaxTime = 1
    AuthorizedAt = 1
    ClaimedAt <- MCClaimedApart
    dear = dear
    over = over
    NoResponse = NoResponse
    Responses <- MCResponses
    CostOf <- MCCostOf
PROPERTY Irreversible
CHECK_DEADLOCK FALSE
