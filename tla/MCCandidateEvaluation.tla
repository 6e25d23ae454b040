----------------------- MODULE MCCandidateEvaluation -----------------------
(* CandidateEvaluation for TLC: two runs on each tree over the results that  *)
(* matter most.                                                              *)
EXTENDS CandidateEvaluation

CONSTANTS f1, f2

TwoEach == <<"base", "fixed", "fixed", "base">>

Result(exit, flags, marker, trace) ==
    [exit |-> exit, flags |-> flags, marker |-> marker, oversize |-> FALSE, trace |-> trace]
Swollen(o) == [o EXCEPT !.oversize = TRUE]

Clean0 == Result(0, {}, FALSE, "absent")
Clean1 == Result(1, {}, FALSE, "absent")
MCCollected == {Clean0, Clean1, Swollen(Clean0)}
MCGold == MCCollected \cup {Result(0, {"oom_killed"}, FALSE, "absent"), Swollen(Clean1)}

\* At most one gold phase or collection of a candidate went on although it was odd.
Odd(o) == o.oversize \/ o.flags # {}
OneOddity == Cardinality({ph \in GoldPhases : Odd(gold[ph])})
                 + Cardinality({i \in DOMAIN runs : Odd(runs[i].collection)}) <= 1

\* Results that the decision, or the verifier of the receipt, tells apart.
Telling ==
    {Result(0, {}, FALSE, "passed"), Result(0, {}, FALSE, "unclean"),
     Result(0, {}, FALSE, "absent"), Result(1, {}, FALSE, f1), Result(1, {}, FALSE, f2),
     Result(1, {}, FALSE, "absent"), Result(2, {}, FALSE, "absent"),
     Result(1, {}, TRUE, f1), Result(-9, {"timed_out"}, FALSE, "absent"),
     Result(1, {"oom_killed"}, FALSE, f1), Result(0, {"output_truncated"}, FALSE, "passed"),
     Swollen(Result(0, {}, FALSE, "passed")), Swollen(Result(1, {}, FALSE, f1))}
=============================================================================
