\* Two progress directories: both controllers run.
SPECIFICATION GenSpec
CONSTANTS
    p = p
    q = q
    cheap = cheap
    dear = dear
    over = over
    NoResponse = NoResponse
    NoFile = NoFile
    Torn = Torn
    Halt = Halt
    NoOne = NoOne
    Controllers = {p, q}
    LockOf <- TwoLocks
    NumCases = 2
    PerCaseCap = 2
    TotalCap = 4
    Responses <- MCResponses
    CostOf <- MCCost
    MaxTime = 1
    AuthorizedAt = 0
    ShortWrites = FALSE
    ClockStepsBack = FALSE
SYMMETRY Symmetric
INVARIANTS StaysReadable BarrierIsBound
PROPERTY ImplementsOneShotSpend
