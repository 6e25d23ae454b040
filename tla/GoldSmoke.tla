------------------------------ MODULE GoldSmoke ------------------------------
(***************************************************************************)
(* The gold smoke of benchmark_v02_instance_controller.py: for each case   *)
(* an InstanceRuntimeExecutor (benchmark_v02_instance_executor.py) copies  *)
(* the frozen image's tree into two volumes, applies the hidden patches    *)
(* and runs the hidden tests on both; each case gives one row of a private *)
(* receipt.  The frozen runtime of a case says how its tests are run: with *)
(* pytest they are collected first, SymPy's own runner collects nothing.   *)
(* From a complete receipt benchmark_v02_exact_capability.py               *)
(* issues the authority to evaluate a case.                                *)
(* A second program stages and runs a candidate on the same executor, as   *)
(* benchmark_v02_candidate_evaluator.py does.                              *)
(***************************************************************************)
EXTENDS DockerOwnership

CONSTANTS Cases,        \* the frozen denominator, in order of case ID
          NetworkCase,  \* the case a legacy receipt may lack (014)
          Results,      \* what a command of the smoke may return
          FewResults,   \* and in behaviours in which commands may fail
          Budgets       \* docker failures allowed in a behaviour

ASSUME CasesAssumption ==
    /\ Cases \in Nat \ {0} /\ NetworkCase \in 1 .. Cases
    /\ FewResults \subseteq Results /\ Budgets \subseteq Nat

VARIABLES runs,    \* the commands of the present case, in order
          row,     \* the present case's classification, reason and profile
          rows,    \* the receipt's rows so far
          issued,  \* the cases a capability was issued for
          truth    \* ghost, per row: what was run, and was it all cleaned up

smokeVars == <<runs, row, rows, issued, truth>>
vars == <<dockerVars, smokeVars>>

----------------------------------------------------------------------------
(* InstanceRuntimeExecutor.  A case has names of its own.                  *)

Engine == Command({})

CreateSandboxContainer(c) == <<Create(c), Command({c})>>

CopyPristineTestbed(copy) ==
    CreateSandboxContainer(copy) \o
    Try(<<Command({copy})>>, "finally", <<Release(copy)>>)

(* The input volume is entered in no registry, and it is not removed when  *)
(* the removal of the container before it fails.                           *)
StageBytes(input, stage) ==
    <<Engine, Create(input)>> \o
    Try(CreateSandboxContainer(stage), "except", <<Remove(input)>>) \o
    Try(<<Command({stage})>>, "finally", <<Release(stage), Remove(input)>>)

Workspaces == {"base", "fixed"}
Of(k, name) == <<k, name>>
Stage(k, workspace) ==
    StageBytes(Of(k, "input"), Of(k, IF workspace = "base" THEN "stageBase" ELSE "stageFixed"))
Own(k) == {o \in Objects : o[1] = k}
SessionCleanup(k) == <<Cleanup(Own(k))>>

Workspace(k, role, copy) ==
    <<Engine, Create(Of(k, role))>> \o CopyPristineTestbed(Of(k, copy))
PrepareWorkspaces(k) ==
    Try(Workspace(k, "base", "copyBase") \o Workspace(k, "fixed", "copyFixed")
          \o Stage(k, "fixed"),
        "except", SessionCleanup(k))
StageBoth(k) == Stage(k, "base") \o Stage(k, "fixed")

Attached(c) == [do |-> "attached", obj |-> c]

RunIn(test) ==
    CreateSandboxContainer(test) \o
    Try(<<Attached(test), Command({test})>>, "finally", <<Release(test)>>)
RunTestCommand(k, workspace) ==
    RunIn(Of(k, IF workspace = "base" THEN "testBase" ELSE "testFixed"))
RunBoth(k) == RunTestCommand(k, "base") \o RunTestCommand(k, "fixed")

(* With a JUnit report: a result volume and an anchor that keeps it.       *)
CreateResultVolume(k) ==
    <<Engine, Create(Of(k, "result"))>> \o
    Try(<<Command({Of(k, "result")})>>, "except", <<Release(Of(k, "result"))>>)
StartResultAnchor(k) ==
    <<Create(Of(k, "anchor"))>> \o
    Try(<<Command({Of(k, "anchor")})>>, "except", <<Release(Of(k, "anchor"))>>)
RunWithReport(k, workspace) ==
    CreateResultVolume(k) \o
    Try(StartResultAnchor(k), "except", <<Release(Of(k, "result"))>>) \o
    Try(RunIn(Of(k, IF workspace = "base" THEN "reportBase" ELSE "reportFixed")), "finally",
        <<Release(Of(k, "anchor")), Release(Of(k, "result"))>>)

VolumeNames == {"base", "fixed", "input", "result"}
MountsOf == [copyBase |-> {"base"}, copyFixed |-> {"fixed"},
             stageBase |-> {"base", "input"}, stageFixed |-> {"fixed", "input"},
             testBase |-> {"base"}, testFixed |-> {"fixed"}, anchor |-> {"result"},
             reportBase |-> {"base", "result"}, reportFixed |-> {"fixed", "result"}]

----------------------------------------------------------------------------
(* The controller.                                                         *)

Profiles == {"pytest-v1", "sympy-bin-test-v1"}

Step(what) == <<[do |-> what]>>

\* Without a collection for SymPy.
HiddenTests(k, profile) ==
    IF profile = "pytest-v1" THEN RunBoth(k) \o <<[do |-> "collected", case |-> k]>>
                             ELSE RunBoth(k) \o Step("judge")

\* A selected case.  What the tests of a SymPy case are called is derived from the hidden
\* patch first, or the case has its row without a container.
RunCase(k, profile) ==
    LET executed == Try(Try(<<Engine>> \o PrepareWorkspaces(k) \o StageBoth(k)
                              \o HiddenTests(k, profile),
                            "finally", SessionCleanup(k)),
                        "catch", Step("error"))
    IN  IF profile = "pytest-v1" THEN executed
        ELSE <<[do |-> "contract", then |-> executed]>>

\* The rows of a smoke over the cases in selection.
Smoke(selection, profiles) ==
    LET upTo[k \in 0 .. Cases] ==
            IF k = 0 THEN <<>>
            ELSE upTo[k - 1]
                 \o (IF k \in selection THEN RunCase(k, profiles[k]) ELSE Step("unselected"))
                 \o <<[do |-> "row", profile |-> IF k \in selection THEN profiles[k]
                                                                   ELSE "none"]>>
    IN  upTo[Cases]

\* All cases, or an explicit one.
Selections == {1 .. Cases} \cup {{k} : k \in 1 .. Cases}
Smokes == {Smoke(s, profiles) : s \in Selections, profiles \in [1 .. Cases -> Profiles]}

\* One run of a candidate: only the run itself, with pytest, has a report.
EvaluateCandidate(profile, workspace) ==
    Try(<<Engine>> \o PrepareWorkspaces(1) \o StageBoth(1)
          \o RunTestCommand(1, workspace)
          \o (IF profile = "pytest-v1" THEN RunWithReport(1, workspace) ELSE <<>>),
        "finally", SessionCleanup(1))
Evaluations == {EvaluateCandidate(profile, workspace) :
                   profile \in Profiles, workspace \in Workspaces}

\* What a row says until something else is known.
Pending == [cls |-> "infrastructure_failure", reason |-> "controller_failure"]

Init ==
    /\ \E program \in Smokes \cup Evaluations, budget \in Budgets :
            DockerInit(program, budget)
    /\ runs = <<>> /\ row = Pending /\ rows = <<>> /\ issued = {} /\ truth = <<>>

Ownership == DockerNext /\ UNCHANGED smokeVars

(* start --attach; a command over its limits is reported, not removed.     *)
AttachCommand ==
    /\ Doing("attached")
    /\ \E r \in IF faults = 0 THEN Results ELSE FewResults : runs' = Append(runs, r)
    /\ todo' = Rest
    /\ UNCHANGED <<engineVars, faults, sweepFailed, row, rows, issued, truth>>

Latest == {runs[Len(runs)], runs[Len(runs) - 1]}

InfrastructureReason(collecting) ==
    IF \E r \in Latest : r.timedOut THEN "timeout"
    ELSE IF \E r \in Latest : r.truncated THEN "output_limit"
    ELSE IF \E r \in Latest : r.marker = "network" THEN "network_dependency"
    ELSE IF \E r \in Latest : r.exit # 0 /\ r.marker = "setup" THEN "setup_failure"
    ELSE IF collecting /\ (\E r \in Latest : r.exit # 0)
         THEN "collection_or_setup_failure"
    ELSE "none"

JudgeCollection ==
    /\ Doing("collected")
    /\ LET reason == InfrastructureReason(TRUE)
       IN  IF reason = "none"
           THEN /\ todo' = RunBoth(Now.case) \o Step("judge") \o Rest
                /\ UNCHANGED row
           ELSE todo' = Rest /\ row' = [row EXCEPT !.reason = reason]
    /\ UNCHANGED <<engineVars, faults, sweepFailed, runs, rows, issued, truth>>

JudgeRuns ==
    /\ Doing("judge")
    /\ LET reason == InfrastructureReason(FALSE)
           base == runs[Len(runs) - 1].exit
           fixed == runs[Len(runs)].exit
       IN  row' = IF reason # "none" THEN [row EXCEPT !.reason = reason]
                  ELSE IF base # 0 /\ fixed = 0
                  THEN [cls |-> "semantic_valid", reason |-> "fails_on_base_passes_on_fixed"]
                  ELSE [cls |-> "semantic_failure",
                        reason |-> IF base = 0 /\ fixed = 0 THEN "does_not_fail_on_base"
                                                  ELSE "does_not_pass_on_fixed"]
    /\ todo' = Rest
    /\ UNCHANGED <<engineVars, faults, sweepFailed, runs, rows, issued, truth>>

(* _derive_sympy_test_contract, of an arbitrary patch.                     *)
DeriveContract ==
    /\ Doing("contract")
    /\ \/ todo' = Now.then \o Rest /\ UNCHANGED row
       \/ todo' = Rest /\ row' = [row EXCEPT !.reason = "hidden_test_contract_failure"]
    /\ UNCHANGED <<engineVars, faults, sweepFailed, runs, rows, issued, truth>>

(* The except clause of _run_case: only the reason is set.  An error of    *)
(* the operating system, or no docker at all, is a controller failure; the *)
(* word "network" is in no message of the executor.                        *)
ErrorReason ==
    /\ Doing("error")
    /\ \E reason \in IF sweepFailed THEN {"cleanup_failure"}
                     ELSE {"sandbox_setup_failure", "controller_failure"} :
           row' = [row EXCEPT !.reason = reason]
    /\ todo' = Rest
    /\ UNCHANGED <<engineVars, faults, sweepFailed, runs, rows, issued, truth>>

(* _not_run                                                                *)
SkipCase ==
    /\ Doing("unselected")
    /\ row' = [cls |-> "not_run", reason |-> "not_selected"]
    /\ todo' = Rest
    /\ UNCHANGED <<engineVars, faults, sweepFailed, runs, rows, issued, truth>>

AppendRow ==
    /\ Doing("row")
    /\ rows' = Append(rows, [cls |-> row.cls, reason |-> row.reason, profile |-> Now.profile])
    /\ truth' = Append(truth, [runs |-> runs, clean |-> ~sweepFailed])
    /\ row' = Pending /\ runs' = <<>> /\ sweepFailed' = FALSE
    /\ todo' = Rest
    /\ UNCHANGED <<engineVars, faults, issued>>

(* verify_instance_gold_smoke_receipt and what the capability asks for; a  *)
(* partial receipt has rows that were not run.                             *)
Counted(cls) == Cardinality({k \in 1 .. Cases : rows[k].cls = cls})
\* Mutant: the reason is not looked at.
SemanticRowByClass(k) == rows[k].cls = "semantic_valid"

SemanticRow(k) ==
    /\ rows[k].cls = "semantic_valid"
    /\ rows[k].reason = "fails_on_base_passes_on_fixed"

NetworkRow(k) ==
    /\ k = NetworkCase
    /\ rows[k].cls = "infrastructure_failure"
    /\ rows[k].reason = "network_dependency"

CompleteReceipt ==
    /\ Len(rows) = Cases
    /\ <<Counted("semantic_valid"), Counted("infrastructure_failure")>>
           \in {<<Cases - 1, 1>>, <<Cases, 0>>}
    /\ \A k \in 1 .. Cases : SemanticRow(k) \/ NetworkRow(k)

IssueCapability(k) ==
    /\ todo = <<>> /\ rows # <<>> /\ k \notin issued
    /\ CompleteReceipt
    /\ issued' = issued \cup {k}
    /\ UNCHANGED <<dockerVars, runs, row, rows, truth>>

Finished == Over /\ UNCHANGED vars

Next ==
    \/ Ownership \/ AttachCommand \/ JudgeCollection \/ JudgeRuns \/ DeriveContract
    \/ ErrorReason \/ SkipCase \/ AppendRow \/ (\E k \in 1 .. Cases : IssueCapability(k)) \/ Finished

Spec == Init /\ [][Next]_vars

----------------------------------------------------------------------------
Verdicts == [cls : {"semantic_valid", "semantic_failure", "infrastructure_failure",
                    "not_run"},
             reason : {"fails_on_base_passes_on_fixed", "does_not_fail_on_base",
                       "does_not_pass_on_fixed", "timeout", "output_limit",
                       "network_dependency", "setup_failure",
                       "collection_or_setup_failure", "cleanup_failure",
                       "sandbox_setup_failure", "controller_failure",
                       "hidden_test_contract_failure", "not_selected"}]
TypeOK ==
    /\ DockerTypeOK
    /\ runs \in Seq(Results) /\ Len(runs) <= 4 /\ row \in Verdicts
    /\ \A k \in 1 .. Len(rows) :
           /\ [cls |-> rows[k].cls, reason |-> rows[k].reason] \in Verdicts
           /\ rows[k].profile \in Profiles \cup {"none"}
    /\ issued \subseteq 1 .. Cases /\ Len(rows) <= Cases /\ Len(truth) = Len(rows)

(* Whether the hidden tests really tell base from fixed: the last two      *)
(* commands do, and with pytest the two before them could collect the      *)
(* tests; none of them was cut short, lacked the network or its setup.     *)
Sound(r) ==
    /\ ~r.timedOut /\ ~r.truncated
    /\ r.marker # "network" /\ (r.exit # 0 => r.marker # "setup")
TrulySemantic(k) ==
    LET ran == truth[k].runs
        collected == IF rows[k].profile = "pytest-v1" THEN 2 ELSE 0 IN
    /\ Len(ran) = collected + 2 /\ \A i \in 1 .. Len(ran) : Sound(ran[i])
    /\ \A i \in 1 .. collected : ran[i].exit = 0
    /\ ran[collected + 1].exit # 0 /\ ran[collected + 2].exit = 0

(* A row that counts as semantic has all the commands of its profile       *)
(* behind it, none of them cut short or in need of the network, whatever   *)
(* failed afterwards; and a capability is issued only over a receipt in    *)
(* which every case but the network case ran to the end and whose          *)
(* executors cleaned up.                                                   *)
CapabilityIsEarned ==
    /\ \A k \in 1 .. Len(rows) : rows[k].cls = "semantic_valid" => TrulySemantic(k)
    /\ issued # {} =>
           \A k \in (1 .. Cases) \ {NetworkCase} : TrulySemantic(k) /\ truth[k].clean

(* An executor context whose cleanup() reported no failure holds nothing   *)
(* in its registries, and of what it knows it created only the staging     *)
(* volume can be left.                                                     *)
OnlyStagingIsLeft ==
    Over /\ rows = <<>> /\ ~sweepFailed =>
        /\ registered = {}
        /\ existing \subseteq Unregistered \cup unacknowledged \cup arrived
=============================================================================
