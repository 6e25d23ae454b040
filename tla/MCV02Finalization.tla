-------------------------- MODULE MCV02Finalization --------------------------
(* V02Finalization for TLC, in three scenarios: the campaign alone, with one *)
(* finalizer, and with two.                                                  *)
EXTENDS V02Finalization, TLC

CONSTANTS c1, c2, g1, g2, o1, o2, f1, f2

EachItsCase == (g1 :> c1) @@ (g2 :> c2)
EachForIts == (o1 :> c1) @@ (o2 :> c2)
InOrder == <<c1, c2>>
AllAnswers == [g \in Generators |-> AnAnswer]
\* The strongest claim: everything has passed.
AllPassed == {[runs |-> [name \in ControlNames |->
                            [observed |-> IF name = "fix_minus_selected" THEN "fail" ELSE "pass",
                             clean |-> TRUE]],
               decoys |-> TRUE]}
\* A run that repeats another may change the verdict, or not.
SomeRun == {{1}, {2}, {1, 2}}
Symmetric == Permutations(Finalizers)

VARIABLE parts    \* the finalizers that take part

\* Kills are shared: two for a campaign alone, one with a finalizer, none with two.
KillsFor(n) == 2 - n

\* Beside finalizers: calls that were answered, at costs that are known, as a finalizer
\* asks, and within every bound, which it does not look at.
Affordable ==
    /\ \A g \in Generators : \/ answer[g] = NoAnswer
                             \/ /\ answer[g].usage = "measured"
                                /\ answer[g].kind \in {"candidate"} \cup
                                       (IF g = g1 THEN {"failure"} ELSE {})
    /\ \A c \in Cases, k \in Categories :
           attempts[c].costs[k] \notin AboveReservation \cup AboveCap

Within == /\ kills <= KillsFor(Cardinality(parts))
          /\ parts # {} => Affordable

ScenarioInit == /\ FinalizationInit
                /\ parts \in SUBSET Finalizers
                /\ Cardinality(parts) # 1 => accepting = {1, 2}
ScenarioNext ==
    \/ CampaignNext /\ UNCHANGED <<accepting, finalization, parts>> /\ Within'
    \/ \E f \in parts : FinalizerNext(f) /\ UNCHANGED parts /\ Within'
ScenarioSpec == ScenarioInit /\ [][ScenarioNext]_<<finalizationVars, parts>>
=============================================================================
