---------------------------- MODULE Verification ----------------------------
(***************************************************************************)
(* How verifier.py and differential.py turn pytest executions into a       *)
(* verdict.  An execution is what DockerSandbox.run_pytest returns:        *)
(*   killed    "no", "timeout" or "overflow": why the container was removed *)
(*   overflow  output was cut, also when the process ended by itself       *)
(*   oom, exit what the container state says (NoExit once it is removed)   *)
(*   report    the JUnit file, by the first test of classify_base_runs it  *)
(*             does not pass: a fingerprint for an AssertionError of the   *)
(*             one test with the expected symptom                          *)
(*   started   whether the container ever ran; the code does not see this  *)
(***************************************************************************)
EXTENDS Naturals, Sequences, FiniteSets

CONSTANT Fingerprints

NoExit == 255
OtherReports == {"none", "errors", "skipped", "pass", "several", "other",
                 "crash", "wrong"}
Reports == OtherReports \cup Fingerprints

ASSUME FingerprintsAssumption == Fingerprints \cap OtherReports = {}

(* A container that was left to end and left a JUnit file behind ran.      *)
Execution ==
    {r \in [killed : {"no", "timeout", "overflow"}, overflow : BOOLEAN,
            oom : BOOLEAN, exit : Nat, report : Reports, listed : BOOLEAN,
            started : BOOLEAN] :
        r.killed = "no" /\ r.report # "none" => r.started}

TimedOut(r) == r.killed = "timeout"

\* Mutant: only a run that was stopped counts as truncated.
TruncatedWhenKilled(r) == r.killed = "overflow"

Truncated(r) == r.killed = "overflow" \/ r.overflow

(* The JUnit file is copied only from a run that was not removed.          *)
ReadReport(r) == IF r.killed # "no" THEN "none" ELSE r.report
ReadExit(r) == IF r.killed # "no" THEN NoExit ELSE r.exit
ReadOom(r) == r.killed = "no" /\ r.oom

Accepted == "none"     \* classify_collection_run returns None
ClassifyCollection(r) ==
    IF TimedOut(r) THEN "collect_timeout"
    ELSE IF ReadOom(r) THEN "collect_oom"
    ELSE IF Truncated(r) THEN "collect_output_limit"
    ELSE IF ReadExit(r) # 0 THEN "collect_failure"
    ELSE IF ~r.listed THEN "no_tests_collected"
    ELSE Accepted

ReasonFor(report) ==
    CASE report = "none" -> "untrusted_or_missing_test_report"
      [] report = "errors" -> "setup_or_test_error"
      [] report = "skipped" -> "skipped_or_xfailed"
      [] report \in {"pass", "several"} -> "unrelated_or_multiple_failure"
      [] report = "other" -> "unrelated_failure"
      [] report = "crash" -> "generic_crash"
      [] report = "wrong" -> "wrong_failure"

ClassifyBase(runs) ==
    LET some(P(_)) == \E i \in DOMAIN runs : P(runs[i])
        exits == {ReadExit(runs[i]) : i \in DOMAIN runs}
        bad == {i \in DOMAIN runs : ReadReport(runs[i]) \notin Fingerprints}
    IN  IF some(TimedOut) THEN "timeout"
        ELSE IF some(ReadOom) THEN "oom"
        ELSE IF some(Truncated) THEN "output_limit"
        ELSE IF exits = {0} THEN "pass_on_base"
        ELSE IF Cardinality(exits) # 1 THEN "flaky_base"
        ELSE IF exits # {1} THEN "generic_crash"
        ELSE IF bad # {} THEN
            ReasonFor(ReadReport(runs[CHOOSE i \in bad : \A j \in bad : i <= j]))
        ELSE IF \E i, j \in DOMAIN runs : runs[i].report # runs[j].report
             THEN "flaky_base"
        ELSE "repeatable_base_failure"

ExactPass(r) == ReadExit(r) = 0 /\ ReadReport(r) = "pass"

ClassifyFixed(runs) ==
    LET infrastructure(r) ==
            \/ TimedOut(r) \/ ReadOom(r) \/ Truncated(r) \/ ReadExit(r) = NoExit
            \/ ReadReport(r) = "none"
    IN  IF Len(runs) # 3 THEN "fail_on_fix"
        ELSE IF \E i \in DOMAIN runs : infrastructure(runs[i])
             THEN "benchmark_infrastructure_error"
        ELSE IF \A i \in DOMAIN runs : ExactPass(runs[i]) THEN "fixed_pass"
        ELSE IF \E i \in DOMAIN runs : ExactPass(runs[i]) THEN "flaky_fix"
        ELSE "fail_on_fix"

(* DIFFERENTIAL_SCHEDULE and the verdict drawn from its six executions.    *)
Schedule == <<"base", "fixed", "fixed", "base", "base", "fixed">>
RoleOf(i) == Schedule[i]
Select(runs, role) ==
    LET picked == {i \in DOMAIN runs : RoleOf(i) = role}
        nth(k) == CHOOSE i \in picked : Cardinality({j \in picked : j < i}) = k - 1
    IN  [k \in 1 .. Cardinality(picked) |-> runs[nth(k)]]

ClassifyDifferential(runs) ==
    LET base == ClassifyBase(Select(runs, "base"))
        fixed == ClassifyFixed(Select(runs, "fixed"))
    IN  IF base # "repeatable_base_failure" THEN base
        ELSE IF fixed = "fixed_pass" THEN "differential_reproduction"
        ELSE fixed
=============================================================================
