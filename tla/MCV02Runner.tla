---------------------------- MODULE MCV02Runner ----------------------------
\* Values for the checks of V02Runner.
EXTENDS V02Runner, TLC

CONSTANTS c1, c2, g1, g2, g3, o1, o2

\* Two processes for one case, one for the other.
RivalsOnOne == (g1 :> c1) @@ (g2 :> c2) @@ (g3 :> c1)
Alone == g1 :> c1

\* Every operator is for the first case; the second one is its surroundings.
ForTheFirst == [o \in Operators |-> c1]

Answer(k, u) == [kind |-> k, usage |-> u]
WithinIt == {a \in AnAnswer : a.usage \notin AboveReservation}
AnswersEach == (g1 :> WithinIt \cup {Answer("candidate", "over_reservation")})
            @@ (g2 :> WithinIt)
            @@ (g3 :> {Answer("candidate", "measured"), Answer("failure", "unknown")})
AnswersAlone == g1 :> AnAnswer

\* Who takes no part is done from the start.
TakingPart(some) == pc = [p \in Processes |-> IF p \in some THEN "idle" ELSE "done"]

\* Either two cases, or two processes for one of them and a ledger that may be lost.
ScenarioInit ==
    /\ Blank
    /\ \/ TakingPart({g1, g2} \cup Operators) /\ losses = MaxLosses
       \/ TakingPart({g1, g3} \cup Operators) /\ losses = 0
ScenarioSpec == ScenarioInit /\ [][RunnerNext]_vars

\* Nobody recovers or evaluates while a generation runs.
Careful == \A o \in Operators : pc'[o] # pc[o] => \A g \in Generators : AtRest(g)
CarefulSpec == RunnerInit /\ [][RunnerNext /\ Careful]_vars

Symmetric == Permutations(Operators)
=============================================================================
