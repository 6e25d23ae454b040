CONSTANTS
  Tools = {t1, t2}
  Packages = {p1, p2}
  w1 = w1
  w2 = w2
  Workspaces = {w1, w2}
  MaxVersions = 2
  Further <- Kinds21
  Scopes <- Scenarios
SPECIFICATION Spec21
INVARIANTS EveryLineage OneLedgerPerAuthorization EvaluatedAsCommitted
CHECK_DEADLOCK FALSE
