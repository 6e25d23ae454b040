-------------------------- MODULE MCV021Evaluation --------------------------
(* V021Evaluation for TLC: two processes of one tool and one of another. *)
EXTENDS V021Evaluation, TLC

CONSTANTS p, q, r, reproduced, wrong, timeout

TwoTools == (p :> "a") @@ (q :> "a") @@ (r :> "b")
NewContract == (p :> {1}) @@ (q :> {1}) @@ (r :> {3})

Symmetric == Permutations({p, q})
=============================================================================
