------------------------ MODULE CandidateEvaluation ------------------------
(***************************************************************************)
(* How the hidden evaluator decides about a generated test                 *)
(* (benchmark_v02_candidate_evaluator.py): the gold pair attests the        *)
(* environment, the candidate runs on the base and on the fixed tree in a  *)
(* frozen order, each time in a fresh sandbox, and a receipt keeps bounded *)
(* evidence of every run.  A later reader recomputes the outcome from that *)
(* evidence, which holds less than the evaluator saw.                      *)
(***************************************************************************)
EXTENDS Integers, Sequences, FiniteSets

CONSTANTS RunOrder,       \* RUN_ORDER: the workspace of each candidate run
          Fingerprints,   \* the normalized failures of the candidate's assertion
          NoFingerprint,
          Observable,     \* the run results considered
          GoldObservable, \* those of a gold phase,
          Collected,      \* and those of a collection of the candidate
          NoFile, Torn

Profiles == {"pytest-v1", "sympy-native-v1"}
Flags == {"timed_out", "oom_killed", "output_truncated"}

\* What the test process leaves as evidence.  For pytest it is the JUnit file:
\* absent, one clean failure, one clean pass, or anything else.  For SymPy it is
\* an output that names the required function (a fingerprint), or does not.
Traces == Fingerprints \cup {"passed", "unclean", "absent"}

\* A result of InstanceRuntimeExecutor.run_test_command.  The runner kills the
\* client at a timeout or an overflow, and Python then reports signal 9 as -9.  It
\* stops reading at 2 MiB, but what cannot be decoded is replaced, and a replacement
\* takes three bytes: the text kept can be oversize, truncated or not.
Results == {o \in [exit : {0, 1, 2, -9}, flags : SUBSET Flags, marker : BOOLEAN,
                   oversize : BOOLEAN, trace : Traces] :
              o.exit = -9 => o.flags \cap {"timed_out", "output_truncated"} # {}}

ASSUME EvaluationAssumption ==
    /\ RunOrder \in Seq({"base", "fixed"})
    /\ {"base", "fixed"} \subseteq {RunOrder[i] : i \in DOMAIN RunOrder}
    /\ {Observable, GoldObservable, Collected} \subseteq SUBSET Results
    /\ NoFingerprint \notin Traces
    /\ {"passed", "unclean", "absent"} \cap Fingerprints = {}

GoldPhases == {"gold_base_collect", "gold_fixed_collect", "gold_base", "gold_fixed"}

VARIABLES profile,   \* the execution profile of the case
          pc,        \* "idle", "gold", "runs", "fill"
          gold,      \* the result of each gold phase
          runs,      \* the candidate runs so far: workspace, collection, result
          receipt,   \* the receipt file
          observed   \* what the runs behind the receipt were (not in the file)

vars == <<profile, pc, gold, runs, receipt, observed>>

-----------------------------------------------------------------------------
(* The decision *)

On(w, rs) == {rs[i] : i \in {j \in DOMAIN rs : rs[j].workspace = w}}
Count(w, exit, rs) ==
    Cardinality({i \in DOMAIN rs : rs[i].workspace = w /\ rs[i].result.exit = exit})
Exits(w, rs) == {x.result.exit : x \in On(w, rs)}
Flagged(flag, rs) == \E i \in DOMAIN rs : flag \in rs[i].result.flags

Bounded(o) == o.flags = {} /\ ~o.marker /\ o.exit \in {0, 1}

\* Mutant: a pass needs no evidence of its own.
AttributablePass(o) == Bounded(o) /\ (o.exit = 1 => o.trace \in Fingerprints)

\* The run left the evidence that a failure, or a pass, is the candidate's own.
Attributable(o) ==
    /\ Bounded(o)
    /\ \/ o.exit = 1 /\ o.trace \in Fingerprints
       \/ o.exit = 0 /\ (profile = "sympy-native-v1" \/ o.trace = "passed")

Fingerprint(o) ==
    IF Attributable(o) /\ o.exit = 1 THEN o.trace ELSE NoFingerprint

\* _classify_candidate: the first condition that holds names the outcome.
Classify(rs) ==
    LET prints == {Fingerprint(x.result) : x \in On("base", rs)} IN
    IF Flagged("timed_out", rs) THEN "timeout"
    ELSE IF Flagged("oom_killed", rs) THEN "oom_killed"
    ELSE IF Flagged("output_truncated", rs) THEN "output_limit"
    ELSE IF \E i \in DOMAIN rs : rs[i].result.marker THEN "infrastructure_failure"
    ELSE IF \E i \in DOMAIN rs : rs[i].result.exit \notin {0, 1} THEN "generic_crash"
    ELSE IF \E w \in {"base", "fixed"} : Cardinality(Exits(w, rs)) # 1 THEN "flaky"
    ELSE IF Exits("base", rs) # {1} THEN "does_not_fail_on_base"
    ELSE IF Exits("fixed", rs) # {0} THEN "does_not_pass_on_fixed"
    ELSE IF NoFingerprint \in prints \/ Cardinality(prints) # 1
         THEN "wrong_or_flaky_failure"
    ELSE "verified_reproduction"

\* The evaluator withdraws a reproduction if some run is not attributable.
Outcome(rs) ==
    IF /\ Classify(rs) = "verified_reproduction"
       /\ \E i \in DOMAIN rs : ~Attributable(rs[i].result)
    THEN "wrong_or_flaky_failure" ELSE Classify(rs)

\* Mutant: that there was no JUnit file is forgotten.
EvidenceWithJunit(o) == [exit |-> o.exit, flags |-> o.flags, oversize |-> o.oversize,
                         junit |-> profile = "pytest-v1"]

\* _evidence: neither the output nor the JUnit file itself is kept; output_bytes counts
\* the text encoded again.
Evidence(o) == [exit |-> o.exit, flags |-> o.flags, oversize |-> o.oversize,
                junit |-> profile = "pytest-v1" /\ o.trace # "absent"]

Receipt(g, rs) ==
    [classification |-> Outcome(rs),
     accepted |-> Outcome(rs) = "verified_reproduction",
     base_consistency |-> Count("base", 1, rs),
     fixed_consistency |-> Count("fixed", 0, rs),
     gold |-> [ph \in DOMAIN g |-> Evidence(g[ph])],
     runs |-> [i \in DOMAIN rs |->
                  [workspace |-> rs[i].workspace,
                   collection |-> Evidence(rs[i].collection),
                   fingerprint |-> Fingerprint(rs[i].result),
                   result |-> Evidence(rs[i].result)]]]

-----------------------------------------------------------------------------
(* verify_instance_candidate_receipt *)

\* _verify_evidence.
InRange(e) == e.exit \in 0 .. 255 /\ ~e.oversize
Clean(e, exit) == e.exit = exit /\ e.flags = {}

\* _verify_recomputed_candidate_outcome
Recomputed(rs) ==
    LET prints == {x.fingerprint : x \in On("base", rs)} IN
    IF Flagged("timed_out", rs) THEN "timeout"
    ELSE IF Flagged("oom_killed", rs) THEN "oom_killed"
    ELSE IF Flagged("output_truncated", rs) THEN "output_limit"
    ELSE IF \E i \in DOMAIN rs : rs[i].result.exit \notin {0, 1} THEN "generic_crash"
    ELSE IF \E w \in {"base", "fixed"} : Cardinality(Exits(w, rs)) # 1 THEN "flaky"
    ELSE IF Exits("base", rs) # {1} THEN "does_not_fail_on_base"
    ELSE IF Exits("fixed", rs) # {0} THEN "does_not_pass_on_fixed"
    ELSE IF profile = "pytest-v1" /\ \E i \in DOMAIN rs : ~rs[i].result.junit
         THEN "wrong_or_flaky_failure"
    ELSE IF NoFingerprint \notin prints /\ Cardinality(prints) = 1
         THEN "verified_reproduction" ELSE "wrong_or_flaky_failure"

ReceiptVerifies(r) ==
    /\ r.accepted = (r.classification = "verified_reproduction")
    /\ \A ph \in DOMAIN r.gold : InRange(r.gold[ph])
    /\ Clean(r.gold["gold_base"], 1) /\ Clean(r.gold["gold_fixed"], 0)
    /\ profile = "pytest-v1" => /\ Clean(r.gold["gold_base_collect"], 0)
                                /\ Clean(r.gold["gold_fixed_collect"], 0)
    /\ [i \in DOMAIN r.runs |-> r.runs[i].workspace] = RunOrder
    /\ \A i \in DOMAIN r.runs :
          /\ profile = "pytest-v1" => /\ InRange(r.runs[i].collection)
                                      /\ Clean(r.runs[i].collection, 0)
          /\ InRange(r.runs[i].result)
          /\ r.accepted => ((r.runs[i].fingerprint = NoFingerprint)
                               <=> (r.runs[i].workspace = "fixed"))
    /\ r.classification = Recomputed(r.runs)
    /\ r.base_consistency = Count("base", 1, r.runs)
    /\ r.fixed_consistency = Count("fixed", 0, r.runs)

-----------------------------------------------------------------------------
(* _evaluate_instance_candidate_with_resolved_hidden *)

\* SymPy has no collection phase; a run that never happened stands for it.
NotRun == [exit |-> 0, flags |-> {}, marker |-> FALSE, oversize |-> FALSE,
           trace |-> "absent"]

Init == /\ profile \in Profiles
        /\ pc = "idle"
        /\ gold = [ph \in GoldPhases |-> NotRun]
        /\ runs = << >>
        /\ receipt = NoFile
        /\ observed = << >>

\* The caller evaluates a case only as long as it has no receipt.
Start == /\ pc = "idle"
         /\ receipt = NoFile
         /\ pc' = "gold"
         /\ UNCHANGED <<profile, gold, runs, receipt, observed>>

\* An exception, or the end of the process: the results so far are gone.
Forget == /\ pc' = "idle"
          /\ gold' = [ph \in GoldPhases |-> NotRun]
          /\ runs' = << >>

Raise == Forget /\ UNCHANGED <<profile, receipt, observed>>

\* _require_clean_collection and _require_gold_pair; neither looks at oom_killed.
WithinBounds(o) == /\ o.flags \cap {"timed_out", "output_truncated"} = {}
                   /\ ~o.marker
CleanCollection(o) == WithinBounds(o) /\ o.exit = 0
GoldPair(b, f) == /\ WithinBounds(b) /\ WithinBounds(f)
                  /\ b.exit = 1 /\ f.exit = 0

Collectable(S) == IF profile = "pytest-v1" THEN S ELSE {NotRun}

RunGold ==
    /\ pc = "gold"
    /\ \E bc, fc \in Collectable(GoldObservable), b, f \in GoldObservable :
          IF CleanCollection(bc) /\ CleanCollection(fc) /\ GoldPair(b, f)
          THEN /\ gold' = [gold EXCEPT !["gold_base_collect"] = bc,
                                       !["gold_fixed_collect"] = fc,
                                       !["gold_base"] = b, !["gold_fixed"] = f]
               /\ pc' = "runs"
               /\ UNCHANGED <<profile, runs, receipt, observed>>
          ELSE Raise

RunCandidate ==
    /\ pc = "runs"
    /\ Len(runs) < Len(RunOrder)
    /\ \E c \in Collectable(Collected), o \in Observable :
          IF CleanCollection(c)
          THEN /\ runs' = Append(runs, [workspace |-> RunOrder[Len(runs) + 1],
                                        collection |-> c, result |-> o])
               /\ UNCHANGED <<profile, pc, gold, receipt, observed>>
          ELSE Raise

\* write_bytes_exclusive, which creates the file and then fills it.
CreateReceipt ==
    /\ pc = "runs"
    /\ Len(runs) = Len(RunOrder)
    /\ receipt' = Torn
    /\ pc' = "fill"
    /\ UNCHANGED <<profile, gold, runs, observed>>

FillReceipt ==
    /\ pc = "fill"
    /\ receipt' = Receipt(gold, runs)
    /\ observed' = runs
    /\ Forget
    /\ UNCHANGED profile

Interrupt == pc # "idle" /\ Raise

Next == Start \/ RunGold \/ RunCandidate \/ CreateReceipt \/ FillReceipt \/ Interrupt

Spec == Init /\ [][Next]_vars

-----------------------------------------------------------------------------
OnFile == receipt \notin {NoFile, Torn}

Classifications ==
    {"timeout", "oom_killed", "output_limit", "infrastructure_failure", "generic_crash",
     "flaky", "does_not_fail_on_base", "does_not_pass_on_fixed",
     "wrong_or_flaky_failure", "verified_reproduction"}

Run == [workspace : {"base", "fixed"}, collection : Results, result : Results]

TypeOK == /\ profile \in Profiles
          /\ pc \in {"idle", "gold", "runs", "fill"}
          /\ gold \in [GoldPhases -> Results]
          /\ Len(runs) <= Len(RunOrder)
          /\ \A i \in DOMAIN runs : runs[i] \in Run
          /\ OnFile => receipt.classification \in Classifications
          /\ OnFile <=> observed # << >>

\* The deterministic signal, said without the order of the tests that decide it:
\* there is one failure that every run on the base shows and is attributed to,
\* and every run on the fixed tree passes and is known to have run.
Reproduces(rs) ==
    /\ \E f \in Fingerprints : \A x \in On("base", rs) :
          x.result.exit = 1 /\ x.result.flags = {} /\ ~x.result.marker /\ x.result.trace = f
    /\ \A x \in On("fixed", rs) :
          /\ x.result.exit = 0 /\ x.result.flags = {} /\ ~x.result.marker
          /\ profile = "pytest-v1" => x.result.trace = "passed"

\* A receipt accepts a candidate exactly when its runs reproduce the failure
\* (_classify_candidate and the withdrawal that follows it).
AcceptedIffReproduced == OnFile => (receipt.accepted <=> Reproduces(observed))

\* The outcomes that evidence on file cannot tell from others, and the evidence
\* the reader refuses: a killed process, an output marker, a pass without a
\* clean JUnit, an out-of-memory kill in a phase that still exited as expected,
\* an output that was within the limit when it was read and is not as it is kept.
Indistinct(g, rs) ==
    \/ \E i \in DOMAIN rs : rs[i].result.exit = -9
    \/ Outcome(rs) = "infrastructure_failure"
    \/ /\ Outcome(rs) = "wrong_or_flaky_failure"
       /\ \A i \in DOMAIN rs : rs[i].result.trace # "absent" \/ profile # "pytest-v1"
       /\ Classify(rs) = "verified_reproduction"
    \/ \E ph \in DOMAIN g : g[ph].flags # {} \/ g[ph].oversize
    \/ \E i \in DOMAIN rs : \/ rs[i].collection.flags # {}
                            \/ rs[i].collection.oversize \/ rs[i].result.oversize

\* verify_instance_candidate_receipt accepts what the evaluator wrote, with the
\* outcome the evaluator decided on, in every other case.
VerifiesUnlessIndistinct ==
    OnFile => (ReceiptVerifies(receipt)
                 <=> ~Indistinct([ph \in GoldPhases |-> receipt.gold[ph]], observed))
=============================================================================
