\* Two cases, or a lost ledger and two processes for a case.
SPECIFICATION ScenarioSpec
CONSTANTS
    c1 = c1
    c2 = c2
    g1 = g1
    g2 = g2
    g3 = g3
    o1 = o1
    o2 = o2
    NoOne = NoOne
    NoFile = NoFile
    Operators = {o1, o2}
    CaseFor <- ForTheFirst
    Cap = 2
    MaxKills = 1
    Measures = {"measured", "over_reservation"}
    Cases = {c1, c2}
    Generators = {g1, g2, g3}
    CaseOf <- RivalsOnOne
    Answers <- AnswersEach
    MaxLosses = 1
SYMMETRY Symmetric
INVARIANTS OneCallPerCase OneUnmatched SealedSpendIsTrue CommittedIsDurable OneEvaluation GenerationIsAccounted
PROPERTIES SealedGenerationStays
CHECK_DEADLOCK FALSE
