SPECIFICATION Spec
CONSTANTS
  Fingerprints = {"f1", "f2"}
  Containers <- MCContainers
  Volumes <- MCVolumes
  Mounts <- MCMounts
  AnchorsOf <- MCAnchorsOf
  Early <- MCEarly
  Unproven = {}
  Unregistered = {}
  Repeats = 2
  Results <- MCResults
  FewResults <- MCFewResults
  Budgets = {0, 3}
INVARIANTS LeftoversExplained SuccessMeansGone AcceptanceIsEarned
