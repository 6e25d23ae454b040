\* One progress directory, lines cut short, a clock that is set back, and an operator
\* who starts a stopped controller again.
SPECIFICATION GenResumedSpec
CONSTANTS
    p = p
    q = q
    cheap = cheap
    dear = dear
    over = over
    NoResponse = NoResponse
    NoFile = NoFile
    Torn = Torn
    Halt = Halt
    NoOne = NoOne
    Controllers = {p, q}
    LockOf <- OneLock
    NumCases = 2
    PerCaseCap = 2
    TotalCap = 4
    Responses <- MCResponses
    CostOf <- MCCost
    MaxTime = 1
    AuthorizedAt = 0
    ShortWrites = TRUE
    ClockStepsBack = TRUE
INVARIANTS AtMostOneCall HaltIsFinal RejectionsExplained BoundIsDurable
PROPERTY ReservationsResolve
