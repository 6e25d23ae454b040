\* One case, whose process is dead when recovery is asked for, and asked for again.
SPECIFICATION CarefulSpec
CONSTANTS
    c1 = c1
    c2 = c2
    g1 = g1
    g2 = g2
    g3 = g3
    o1 = o1
    o2 = o2
    NoOne = NoOne
    NoFile = NoFile
    Operators = {o1, o2}
    CaseFor <- ForTheFirst
    Cap = 2
    MaxKills = 1
    Measures = {"measured"}
    Cases = {c1}
    Generators = {g1}
    CaseOf <- Alone
    Answers <- AnswersAlone
    MaxLosses = 0
PROPERTY RecoveryIsSealed
CHECK_DEADLOCK FALSE
