SPECIFICATION Spec
CONSTANTS
  Cases = 2
  NetworkCase = 2
  Containers <- MCContainers
  Volumes <- MCVolumes
  Mounts <- MCMounts
  AnchorsOf <- MCAnchorsOf
  Early = {}
  Unproven <- MCVolumes
  Unregistered <- MCStaging
  Results <- MCResults
  FewResults <- MCFewResults
  Budgets = {0, 2}
INVARIANTS CapabilityIsEarned OnlyStagingIsLeft
