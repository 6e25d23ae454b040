\* Three operators, one preregistration and its ledger.
SPECIFICATION LifeSpec
CONSTANTS
    p = p
    q = q
    r = r
    Operators = {p, q, r}
    NoFile = NoFile
    Torn = Torn
    NoOne = NoOne
    NumCases = 2
    PerCaseCap = 2
    TotalCap = 4
    MaxTime = 1
    AuthorizedAt = 1
    ClaimedAt <- MCClaimedAt
    dear = dear
    over = over
    NoResponse = NoResponse
    Responses <- MCResponses
    CostOf <- MCCostOf
SYMMETRY Symmetric
INVARIANTS OneAuthorization ClaimStays ReservationsFit PublicReaderAgrees ReservedOnce
CHECK_DEADLOCK FALSE
