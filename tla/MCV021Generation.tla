-------------------------- MODULE MCV021Generation ---------------------------
(* V021Generation for TLC: two controllers that share one progress directory, *)
(* or that have one each.                                                      *)
EXTENDS V021GenerationRefinement

CONSTANTS p, q, cheap, dear, over

MCResponses == {dear, over}
MCCost == (dear :> 2) @@ (over :> 3)

OneLock == (p :> "progress") @@ (q :> "progress")

\* A directory each, named after the controller.
TwoLocks == (p :> p) @@ (q :> q)

\* Without a common directory nothing tells the controllers apart.
Symmetric == Permutations({p, q})
=============================================================================
