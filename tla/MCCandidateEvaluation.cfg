\* Two runs on each tree.
SPECIFICATION Spec
CONSTANTS
    f1 = f1
    f2 = f2
    Fingerprints = {f1, f2}
    NoFingerprint = NoFingerprint
    NoFile = NoFile
    Torn = Torn
    RunOrder <- TwoEach
    Observable <- Telling
    Collected <- MCCollected
    GoldObservable <- MCGold
CONSTRAINT OneOddity
INVARIANTS AcceptedIffReproduced VerifiesUnlessIndistinct
CHECK_DEADLOCK FALSE
