---------------------------- MODULE OneShotSpend ----------------------------
(***************************************************************************)
(* What the v0.2.1 campaign promises about money, whatever happens to its  *)
(* processes: a case is paid for at most once and only after the ledger    *)
(* admitted it, at most one case at a time is in doubt, and the total      *)
(* stays under the cap.                                                    *)
(***************************************************************************)
EXTENDS Integers

CONSTANTS Cases, PerCaseCap, TotalCap

VARIABLES phase,   \* how far each case has come
          spent    \* what the settled cases cost

budgetVars == <<phase, spent>>

InDoubt(c) == phase[c] \in {"reserved", "called"}

Init == /\ phase = [c \in Cases |-> "available"]
        /\ spent = 0

Advance(c, from, to) == /\ phase[c] = from
                        /\ phase' = [phase EXCEPT ![c] = to]

Reserve(c) == /\ \A d \in Cases : ~InDoubt(d)
              /\ Advance(c, "available", "reserved")
              /\ UNCHANGED spent

Call(c) == Advance(c, "reserved", "called") /\ UNCHANGED spent

Settle(c) == /\ Advance(c, "called", "settled")
             /\ \E cost \in 0 .. PerCaseCap : spent' = spent + cost
             /\ spent' <= TotalCap

Finish(c) == Advance(c, "settled", "done") /\ UNCHANGED spent

Next == \E c \in Cases : Reserve(c) \/ Call(c) \/ Settle(c) \/ Finish(c)

Spec == Init /\ [][Next]_budgetVars
=============================================================================
