\* Three evaluation processes, one of another tool whose contract rejects other cases.
SPECIFICATION Spec
CONSTANTS
    p = p
    q = q
    r = r
    reproduced = reproduced
    wrong = wrong
    timeout = timeout
    Evaluators = {p, q, r}
    ToolOf <- TwoTools
    NumCases = 3
    Unparsable <- NewContract
    Verdicts = {reproduced, wrong, timeout}
    Accepting = reproduced
    Unverifiable = {timeout}
    Rejected = Rejected
    NoFile = NoFile
    Torn = Torn
SYMMETRY Symmetric
INVARIANTS PublishedIsEvaluated SetAlwaysVerifies RejectionsExplained
