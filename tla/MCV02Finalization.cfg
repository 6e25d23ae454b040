\* Two cases, the second one without network; the campaign alone, beside a process that
\* finalizes again and again, and beside two.
SPECIFICATION ScenarioSpec
CONSTANTS
    c1 = c1
    c2 = c2
    g1 = g1
    g2 = g2
    o1 = o1
    o2 = o2
    f1 = f1
    f2 = f2
    NoOne = NoOne
    NoFile = NoFile
    CutShort = CutShort
    Cases = {c1, c2}
    Generators = {g1, g2}
    Operators = {o1, o2}
    Finalizers = {f1, f2}
    Reviewers = {1, 2, 3, 4}
    MappingReviewers = {4}
    CaseOf <- EachItsCase
    CaseFor <- EachForIts
    CaseList <- InOrder
    NetworkCases = {c2}
    Answers <- AllAnswers
    Drafts <- AllPassed
    Acceptances <- SomeRun
    Cap = 2
    MaxKills = 2
    Measures = {"measured", "over_reservation", "over_cap", "over_both"}
    MaxLosses = 0
    MaxControls = 1
SYMMETRY Symmetric
INVARIANTS ProgressIsTrue SealedResultAgrees HaltIsExplained
           L2IsEarned FinalPairAgrees BundleStaysTrue
PROPERTY SealedReceiptStays
