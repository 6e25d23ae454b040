---------------------- MODULE V021GenerationRefinement ----------------------
(***************************************************************************)
(* The campaign implements the one-shot budget.  The phase of a case is    *)
(* read off the ledger and the provider calls made for it: a reserved case *)
(* is in doubt in two ways, before and after its request left.             *)
(***************************************************************************)
EXTENDS V021Generation

Phase(c) ==
    CASE calls[c] = 0 /\ StateOf(c) = "available" -> "available"
      [] calls[c] = 0 /\ StateOf(c) = "reserved_unknown_spend" -> "reserved"
      [] calls[c] = 1 /\ StateOf(c) = "reserved_unknown_spend" -> "called"
      [] calls[c] = 1 /\ StateOf(c) = "response_durable" -> "settled"
      [] calls[c] = 1 /\ StateOf(c) = "completed" -> "done"
      [] OTHER -> "out of order"

Budget == INSTANCE OneShotSpend WITH phase <- [c \in Cases |-> Phase(c)]

\* Over crashes, restarts and controllers that do not exclude one another, the
\* campaign never takes a step the one-shot budget does not allow.
ImplementsOneShotSpend == Budget!Spec
=============================================================================
