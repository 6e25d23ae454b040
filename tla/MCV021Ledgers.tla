---------------------------- MODULE MCV021Ledgers ----------------------------
(* V021Ledgers for TLC: an operator who dates a claim before the authorization, *)
(* two whose claims read the same (or differ), two cases and a response at the  *)
(* cap of a case and one above it.                                              *)
EXTENDS V021Ledgers, TLC

CONSTANTS p, q, r, dear, over

MCResponses == {dear, over}
MCCostOf == (dear :> 2) @@ (over :> 3)
MCClaimedAt == (p :> 0) @@ (q :> 1) @@ (r :> 1)
MCClaimedApart == (p :> 0) @@ (q :> 1) @@ (r :> 2)
Symmetric == Permutations({q, r})
=============================================================================
