---------------------------- MODULE Reproduction ----------------------------
(***************************************************************************)
(* run_issue_workflow and run_replay_workflow (workflow.py) over the       *)
(* verifier and the Docker sandbox, and verify_differential_candidate      *)
(* (differential.py) over the same sandbox and a DependencyExecutor whose  *)
(* volume the sandbox borrows.  Docker commands fail as DockerOwnership    *)
(* says; steps on the host (download, extraction, generation, writing a    *)
(* file) fail too.                                                         *)
(***************************************************************************)
EXTENDS DockerOwnership, Verification

CONSTANTS Repeats,      \* executions of the candidate on the base
          Results,      \* Results[c]: what a run in container c may return
          FewResults,   \* the same in behaviours in which commands may fail
          Budgets       \* docker and host failures allowed in a behaviour

ASSUME ResultsAssumption ==
    /\ Repeats \in 2 .. 10 /\ Budgets \subseteq Nat
    /\ DOMAIN Results = {"run", "baseRun", "fixedRun"}
    /\ \A c \in DOMAIN Results : /\ FewResults[c] \subseteq Results[c]
                                /\ Results[c] \subseteq Execution

VARIABLES files,       \* what the workflow has written to its run directory
          collection,  \* the collection run, once it was made
          runs,        \* the pytest executions so far
          verdict,     \* the outcome, or None
          handle       \* DependencyExecutor: "none", "ready", "failed", "cleaned"

outcomeVars == <<files, collection, runs, verdict, handle>>
vars == <<dockerVars, outcomeVars>>

None == "none"

----------------------------------------------------------------------------
(* DockerSandbox: stage_source, attest_staged_source, run_pytest.          *)

Engine == Command({})

SetWorkspaceOwner(owner) ==
    <<Create(owner)>> \o Try(<<Command({owner})>>, "finally", <<Remove(owner)>>)

StageSource(volume, stage, owner) ==
    <<Engine, Create(volume)>> \o
    Try(Try(<<Create(stage), Command({stage})>>, "finally", <<Remove(stage)>>)
          \o SetWorkspaceOwner(owner),
        "except", <<Remove(volume)>>)

AttestStagedSource(attest) ==
    <<Create(attest)>> \o Try(<<Command({attest})>>, "finally", <<Remove(attest)>>)

StageAttestedSource(volume, stage, owner, attest) ==
    StageSource(volume, stage, owner) \o
    Try(AttestStagedSource(attest), "except", <<Remove(volume)>>)

CreateResultVolume ==
    <<Create("result")>> \o
    Try(<<Command({"result"}), Create("anchor"), Command({"anchor"})>>,
        "except", <<Remove("result")>>)

Attach(name) == [do |-> "attach", obj |-> name]

RunPytest(name) ==
    CreateResultVolume \o
    Try(<<Create(name)>> \o Try(<<Command({name}), Attach(name)>>,
                                "finally", <<Remove(name)>>),
        "finally", <<Remove("result")>>)

SandboxObjects == {"facts", "stage", "owner", "attest", "run", "anchor",
                   "workspace", "result", "stage2", "owner2", "attest2",
                   "workspace2", "baseRun", "fixedRun"}
SandboxCleanup == <<Cleanup(SandboxObjects)>>
RunnerFacts ==
    <<Engine>> \o Try(<<Create("facts"), [do |-> "exits", obj |-> "facts"]>>,
                      "finally", <<Remove("facts")>>)

----------------------------------------------------------------------------
(* verifier.py and workflow.py.                                            *)

Host(file) == [do |-> "host", file |-> file]
Discard(file) == [do |-> "discard", file |-> file]
Judge == <<[do |-> "judge"]>>
Classify == <<[do |-> "classify"]>>

Times(n, body) ==
    LET upTo[k \in 0 .. n] == IF k = 0 THEN <<>> ELSE body \o upTo[k - 1]
    IN  upTo[n]

VerifyCandidate ==
    StageAttestedSource("workspace", "stage", "owner", "attest") \o
    Try(RunPytest("run") \o Judge, "finally", SandboxCleanup)

VerifyAndWrite ==
    <<Engine>> \o RunnerFacts \o <<Host(None)>> \o VerifyCandidate \o
    <<Host("patch"), Host("report")>>

Workflow ==
    Try(<<Host("archive"), Host("extraction"), Host(None)>> \o VerifyAndWrite,
        "finally",
        SandboxCleanup \o <<Discard("extraction"), Discard("archive")>>)

----------------------------------------------------------------------------
(* DependencyExecutor.                                                     *)

Roles == {"input", "wheelhouse", "dependencies"}
ExecutorObjects == Roles \cup
    {"runtime", "inputHelper", "wheelhouseHelper", "dependenciesHelper",
     "inputAnchor", "wheelhouseAnchor", "dependenciesAnchor",
     "download", "install"}

Helper(name) ==
    <<Create(name), Command({name})>> \o
    Try(<<Command({name})>>, "finally", <<Remove(name)>>)
HelperOf == [input |-> "inputHelper", wheelhouse |-> "wheelhouseHelper",
             dependencies |-> "dependenciesHelper"]

(* What a helper printed may not parse or not be what it has to be; it is  *)
(* removed by then.                                                        *)
Parsed == <<Host(None)>>
Probe(role) == Helper(HelperOf[role]) \o Parsed
ProbeRuntime == Helper("runtime") \o Parsed
StageRequirements == Helper("inputHelper")
AttestDependencies == Helper("dependenciesHelper") \o Parsed

(* The wheels are copied out of a container that is only created, and      *)
(* hashed on the host while it is there.                                   *)
ExportWheelhouse ==
    <<Create("wheelhouseHelper"), Command({"wheelhouseHelper"})>> \o
    Try(<<Command({"wheelhouseHelper"}), Host(None)>>,
        "finally", <<Remove("wheelhouseHelper")>>) \o Parsed
Phase(name) == <<Create(name), Command({name}), Remove(name)>>
RoleVolume(role) == <<Engine, Create(role), Command({role})>>
AnchorOf == [input |-> "inputAnchor", wheelhouse |-> "wheelhouseAnchor",
             dependencies |-> "dependenciesAnchor"]
VolumeAnchor(role) == <<Create(AnchorOf[role]), Command({AnchorOf[role]})>>

(* What the execution receipt says of the volumes.                         *)
Receipt == [removed |-> {"input", "wheelhouse"}, retained |-> {"dependencies"}]

Prepare ==
    <<Engine>> \o ProbeRuntime
    \o RoleVolume("input") \o RoleVolume("wheelhouse") \o RoleVolume("dependencies")
    \o VolumeAnchor("input") \o VolumeAnchor("wheelhouse") \o VolumeAnchor("dependencies")
    \o Probe("input") \o Probe("wheelhouse") \o Probe("dependencies")
    \o StageRequirements \o Probe("input") \o Phase("download")
    \o Probe("wheelhouse") \o ExportWheelhouse \o Probe("wheelhouse")
    \o Probe("dependencies") \o Phase("install")
    \o Probe("input") \o Probe("wheelhouse") \o Probe("dependencies")
    \o ExportWheelhouse \o AttestDependencies
    \o Probe("wheelhouse") \o Probe("dependencies")
    \o <<Remove("input"), Remove("wheelhouse"), Host(None), [do |-> "ready"]>>

Revoke == [do |-> "revoke"]

ExecutorCleanup == <<Revoke, Cleanup(ExecutorObjects), [do |-> "cleaned"]>>

Revalidate ==
    <<[do |-> "revalidate"], Command({"dependencies"})>>
    \o Probe("dependencies") \o Probe("dependencies") \o Probe("dependencies")

----------------------------------------------------------------------------
(* differential.py, borrowing the executor's volume for each run.          *)

BorrowedRun(name) == Revalidate \o RunPytest(name)
RunOf(role) == BorrowedRun(IF role = "base" THEN "baseRun" ELSE "fixedRun")

Interleaved ==
    LET upTo[k \in 0 .. Len(Schedule)] ==
            IF k = 0 THEN <<>> ELSE upTo[k - 1] \o RunOf(Schedule[k])
    IN  upTo[Len(Schedule)]

VerifyDifferential ==
    Try(Revalidate
        \o StageAttestedSource("workspace", "stage", "owner", "attest")
        \o BorrowedRun("baseRun") \o <<[do |-> "judge-differential"]>>,
        "finally", SandboxCleanup)

Differential ==
    Try(Try(Prepare, "except", ExecutorCleanup) \o VerifyDifferential,
        "finally", ExecutorCleanup)

Programs == {Workflow, Differential}

----------------------------------------------------------------------------
(* What each container mounts.                                             *)
SandboxMounts ==
    [facts |-> {}, stage |-> {"workspace"}, owner |-> {"workspace"},
     attest |-> {"workspace"}, run |-> {"workspace", "result"},
     anchor |-> {"result"}, stage2 |-> {"workspace2"}, owner2 |-> {"workspace2"},
     attest2 |-> {"workspace2"},
     baseRun |-> {"workspace", "result", "dependencies"},
     fixedRun |-> {"workspace2", "result", "dependencies"}]
ExecutorMounts ==
    [runtime |-> {}, inputHelper |-> {"input"}, wheelhouseHelper |-> {"wheelhouse"},
     dependenciesHelper |-> {"dependencies"}, inputAnchor |-> {"input"},
     wheelhouseAnchor |-> {"wheelhouse"}, dependenciesAnchor |-> {"dependencies"},
     download |-> {"input", "wheelhouse"},
     install |-> {"input", "wheelhouse", "dependencies"}]

(* The executor registers what it is about to create, and only containers  *)
(* mount volumes.                                                          *)
ASSUME OwnersAssumption ==
    /\ Unregistered = {} /\ ExecutorObjects \subseteq Early
    /\ Containers = DOMAIN SandboxMounts \cup DOMAIN ExecutorMounts
    /\ \A c \in DOMAIN SandboxMounts : Mounts[c] = SandboxMounts[c]
    /\ \A c \in DOMAIN ExecutorMounts : Mounts[c] = ExecutorMounts[c]

----------------------------------------------------------------------------
Init ==
    /\ \E program \in Programs, budget \in Budgets : DockerInit(program, budget)
    /\ files = {} /\ collection = <<>> /\ runs = <<>> /\ verdict = None
    /\ handle = None

Ownership == DockerNext /\ UNCHANGED outcomeVars

(* docker run --rm: the container goes when its process ends.              *)
FactsExit ==
    /\ Doing("exits") /\ Now.obj \in existing
    /\ existing' = existing \ {Now.obj}
    /\ todo' = Rest
    /\ UNCHANGED <<late, arrived, unacknowledged, registered, faults,
                   sweepFailed, outcomeVars>>

Possible == IF faults = 0 THEN Results[Now.obj] ELSE FewResults[Now.obj]

(* docker start -a, the poll that removes a container over its limits, and *)
(* then the container's state and its JUnit file.                          *)
AttachAndRead ==
    /\ Doing("attach")
    /\ \E r \in Possible :
        /\ todo' = (IF r.killed # "no" THEN <<Remove(Now.obj)>>
                                        ELSE <<Command({Now.obj})>>) \o Rest
        /\ IF collection = <<>>
           THEN collection' = <<r>> /\ UNCHANGED runs
           ELSE runs' = Append(runs, r) /\ UNCHANGED collection
    /\ UNCHANGED <<engineVars, faults, sweepFailed, files, verdict, handle>>

(* The collection run decides whether there is anything to verify.         *)
JudgeCollection ==
    /\ Doing("judge") \/ Doing("judge-differential")
    /\ LET rejection == ClassifyCollection(Head(collection))
           go == IF Now.do = "judge" THEN Times(Repeats, RunPytest("run"))
                 ELSE StageAttestedSource("workspace2", "stage2", "owner2", "attest2")
                      \o Interleaved
       IN  IF rejection = Accepted
           THEN todo' = go \o Classify \o Rest /\ UNCHANGED verdict
           ELSE todo' = Rest /\ verdict' = rejection
    /\ UNCHANGED <<engineVars, faults, sweepFailed, files, collection, runs, handle>>

ClassifyRuns ==
    /\ Doing("classify")
    /\ verdict' = IF handle = None THEN ClassifyBase(runs)
                                   ELSE ClassifyDifferential(runs)
    /\ todo' = Rest
    /\ UNCHANGED <<engineVars, faults, sweepFailed, files, collection, runs, handle>>

(* A step on the host: fetch, extract, generate, prepare the workspace, or *)
(* write an artifact exclusively.  A step that fails removes what it began.*)
HostStep ==
    /\ Doing("host")
    /\ \/ /\ files' = files \cup ({Now.file} \ {None})
          /\ todo' = Rest
          /\ UNCHANGED faults
       \/ /\ Fault
          /\ todo' = Unwound(Rest)
          /\ UNCHANGED files
    /\ UNCHANGED <<engineVars, sweepFailed, collection, runs, verdict, handle>>

DiscardFile ==
    /\ Doing("discard")
    /\ files' = files \ {Now.file}
    /\ todo' = Rest
    /\ UNCHANGED <<engineVars, faults, sweepFailed, collection, runs, verdict, handle>>

(* READY and the handle; _set_failed and cleanup take it back.             *)
IssueHandle ==
    /\ Doing("ready")
    /\ handle' = "ready" /\ todo' = Rest
    /\ UNCHANGED <<engineVars, faults, sweepFailed, files, collection, runs, verdict>>

RevokeHandle ==
    /\ Doing("revoke")
    /\ handle' = IF handle = "cleaned" THEN "cleaned" ELSE "failed"
    /\ todo' = Rest
    /\ UNCHANGED <<engineVars, faults, sweepFailed, files, collection, runs, verdict>>

ExecutorCleaned ==
    /\ Doing("cleaned")
    /\ handle' = "cleaned" /\ todo' = Rest
    /\ UNCHANGED <<engineVars, faults, sweepFailed, files, collection, runs, verdict>>

(* _revalidate_dependency_handle: the executor must be READY.              *)
RevalidateHandle ==
    /\ Doing("revalidate")
    /\ todo' = IF handle = "ready" THEN Rest ELSE Unwound(Rest)
    /\ UNCHANGED <<engineVars, faults, sweepFailed, outcomeVars>>

Finished == Over /\ UNCHANGED vars

Next ==
    \/ Ownership \/ FactsExit \/ AttachAndRead \/ JudgeCollection \/ ClassifyRuns
    \/ HostStep \/ DiscardFile \/ IssueHandle \/ RevokeHandle \/ ExecutorCleaned
    \/ RevalidateHandle \/ Finished

Spec == Init /\ [][Next]_vars

----------------------------------------------------------------------------
TypeOK ==
    /\ DockerTypeOK
    /\ files \subseteq {"archive", "extraction", "patch", "report"}
    /\ handle \in {None, "ready", "failed", "cleaned"}
    /\ Len(runs) <= IF handle = None THEN Repeats ELSE Len(Schedule)

(* Nothing claims success while it leaves something behind.  A report is   *)
(* on file only when a verdict was reached; when it is, or a workflow      *)
(* returned, or a dependency executor context was left without an          *)
(* exception, nothing is in the engine or can still turn up there,         *)
(* whatever failed on the way.  An executor that reached CLEANED left only *)
(* what the engine brings about after its absence was proved: it registers *)
(* before it creates, so a creation it gave up on is swept as well.  While *)
(* the handle of a dependency volume is good, its receipt is true.         *)
SuccessMeansGone ==
    /\ "report" \in files => verdict # None
    /\ "report" \in files \/ todo = <<>> => existing = {} /\ late = {}
    /\ handle = "cleaned" => existing \cap ExecutorObjects \subseteq arrived
    /\ handle = "ready" => /\ Receipt.removed \cap (existing \cup late) = {}
                           /\ Receipt.retained \subseteq existing

(* What an execution really was, with no regard to the order in which the  *)
(* verifier asks.                                                          *)
FailedAsExpected(r, print) ==
    /\ r.started /\ r.killed = "no" /\ ~r.overflow /\ ~r.oom
    /\ r.exit = 1 /\ r.report = print
PassedOnFixed(r) ==
    /\ r.started /\ r.killed = "no" /\ ~r.overflow /\ ~r.oom
    /\ r.exit = 0 /\ r.report = "pass"

(* The two accepting verdicts are given exactly to the executions they     *)
(* describe: every base run failed in the one expected way, and for a      *)
(* differential reproduction every fixed run passed.                       *)
AcceptanceIsEarned ==
    /\ verdict = "repeatable_base_failure" =>
           /\ Len(runs) = Repeats
           /\ \E print \in Fingerprints :
                 \A i \in DOMAIN runs : FailedAsExpected(runs[i], print)
    /\ verdict = "differential_reproduction" =>
           /\ Len(runs) = Len(Schedule)
           /\ \E print \in Fingerprints : \A i \in DOMAIN runs :
                 IF Schedule[i] = "base" THEN FailedAsExpected(runs[i], print)
                                         ELSE PassedOnFixed(runs[i])
=============================================================================
