----------------------------- MODULE ExactCampaign -----------------------------
(***************************************************************************)
(* The exact-image campaign of v0.2: one controller                        *)
(* (benchmark_v02_exact_campaign_controller.py) takes every case through   *)
(* generation or its recovery, freezes the barrier, and evaluates every    *)
(* case in its exact image (benchmark_v02_exact_scored.py).                *)
(*                                                                         *)
(* Generation, recovery and the writing of results are the steps of        *)
(* V02Runner; the controller decides which of its processes runs, waits    *)
(* until it is done, and halts at the first exception.  The evaluation is  *)
(* another one than V02Runner's: it leaves a receipt in the attempt's      *)
(* directory, and an invocation that finds one continues from it.          *)
(*                                                                         *)
(* A controller is started again after a kill or a halt, as often as       *)
(* anybody likes; a campaign lock keeps a second one out.  What the        *)
(* campaign does not own (frozen documents, source archives, capabilities, *)
(* the gold-smoke receipt) is verified at many places and may fail to      *)
(* verify at each of them.                                                 *)
(***************************************************************************)
EXTENDS V02Runner

CONSTANTS CaseList,     \* the cases in the order of the configuration
          NetworkCases  \* cases that need the network (rk-v0.2-014)

ASSUME CampaignAssumption ==
    /\ IsFiniteSet(Cases) /\ NetworkCases \subseteq Cases
    /\ CaseList \in [1 .. Cardinality(Cases) -> Cases]
    /\ \A c \in Cases : \E n \in DOMAIN CaseList : CaseList[n] = c
    /\ \A c \in Cases : \E g \in Generators, o \in Operators :
           CaseOf[g] = c /\ CaseFor[o] = c

\* The execution freeze is refused if the reservations of all cases exceed the cap of
\* the campaign (benchmark_v02_execution_freeze.py).
ASSUME ReserveAssumption == Cardinality(Cases) <= Cap

VARIABLES at,        \* where the controller is
          turn,      \* the place of the case it is at in CaseList
          progress,  \* the progress file; while it runs, also what it holds in memory
          why,       \* "outside": what ended the run is not of the campaign
          receipts,  \* the exact receipt of each attempt: the run that it is from
          runs,      \* evaluations of each attempt that came to write their receipt
          evidence,  \* what the finished differential phase says it rests on
          bill,      \* what the sandbox cost says it rests on
          reported,  \* the receipt that the results of each attempt name
          prior,     \* the receipt an evaluation found and cannot trust as it is
          verified,  \* the receipt it verified
          kept       \* receipt_recoverable

controller == <<at, turn, progress, why>>
evaluation == <<receipts, runs, evidence, bill, reported, prior, verified, kept>>
campaignVars == <<vars, controller, evaluation>>

None == 0                        \* no run
Unverifiable == -1               \* a receipt cut short, or one its verifier rejects
NoEvidence == [current |-> None, prior |-> None]

GeneratorFor(c) == CHOOSE g \in Generators : CaseOf[g] = c
OperatorFor(c) == CHOOSE o \in Operators : CaseFor[o] = c

CampaignInit ==
    /\ RunnerInit
    /\ at = "stopped" /\ turn = 1 /\ why = "none"
    /\ progress = [status |-> "running", phase |-> "preflight",
                   rows |-> [c \in Cases |-> "pending"]]
    /\ receipts = [g \in Generators |-> NoFile]
    /\ runs = [g \in Generators |-> 0]
    /\ evidence = [g \in Generators |-> NoEvidence]
    /\ bill = [g \in Generators |-> NoEvidence]
    /\ reported = [g \in Generators |-> [private |-> None, public |-> None]]
    /\ prior = [o \in Operators |-> None]
    /\ verified = [o \in Operators |-> None]
    /\ kept = [o \in Operators |-> FALSE]

-----------------------------------------------------------------------------
(* evaluate_v02_exact_frozen_case *)

\* _preflight_receipt_recovery
PreflightReceiptRecovery(a) ==
    ~Terminal(a) /\ "differential" \in a.began /\ "result_write" \notin a.began

\* A finished attempt is read back; what cannot be evaluated is rejected without a
\* trace.  With a receipt on file the differential phase may have begun.
StartExact(o) ==
    LET g == on[o]
        a == Of(g)
        abstains == a.disposition = "no_candidate"
        evaluable == /\ a.status # "finished" /\ barrier /\ a.disposition # "none"
                     /\ IF receipts[g] # NoFile THEN PreflightReceiptRecovery(a)
                                                ELSE PreflightEvaluation(a)
                     /\ abstains \/ (Kept(g) /\ WithinReservation(a))
    IN
    /\ pc[o] = "evaluate"
    /\ Goto(o, IF ~evaluable THEN "done" ELSE IF abstains THEN "costs" ELSE "capability")
    /\ verdict' = [verdict EXCEPT ![o] = IF evaluable THEN Untested(a) ELSE @]
    /\ UNCHANGED <<ledger, files, answer, held, missing, on, world, evaluators, evaluation>>

\* The capability and the hidden material of the case.
TakeExactCapability(o) ==
    /\ pc[o] = "capability"
    /\ \E label \in {"crash_evaluation",
                     IF receipts[on[o]] # NoFile THEN "prior" ELSE "start_differential"} :
           Look(o, label)
    /\ UNCHANGED evaluation

StartExactDifferential(o) ==
    LET a == Of(on[o]) IN
    /\ pc[o] = "start_differential"
    /\ \E late \in BOOLEAN :
           /\ Clock(on[o], late)
           /\ AppendEvaluation(o, ~late /\ MayStartPhase(a, "differential"),
                               StartPhase(a, "differential"),
                               IF CaseFor[o] \in NetworkCases THEN "network"
                                                              ELSE "differential",
                               "crash_evaluation")
    /\ UNCHANGED <<locals, evaluation>>

\* The case without network is not run: its outcome stays infrastructure, if that is
\* what its capability says of its gold smoke.
FailForNetwork(o) ==
    LET a == Of(on[o]) IN
    /\ pc[o] = "network"
    /\ \/ Look(o, "crash_evaluation")
       \/ /\ AppendEvaluation(o, MayFinishPhase(a, "differential", "failed"),
                              FinishPhase(a, "failed"), "costs", "crash_evaluation")
          /\ UNCHANGED <<locals, expired>>
    /\ UNCHANGED evaluation

\* Mutant: a receipt is evaluated again also when its phase is finished.
NeverTrusted(g) == FALSE

\* _trusted_completed_receipt_cost
Trusted(g) == "differential" \in Of(g).ended

Agreeing(g) == /\ evidence[g].current = receipts[g]
               /\ Of(g).costs["sandbox"] # "absent" => bill[g] = evidence[g]

\* The receipt on file is verified, with the manifest and the gold smoke it names; a
\* finished phase must rest on it, otherwise the candidate is evaluated once more.
ReadReceipt(o) ==
    LET g == on[o]
        good == receipts[g] # Unverifiable /\ (Trusted(g) => Agreeing(g))
    IN
    /\ pc[o] = "prior"
    /\ \/ Look(o, "crash_evaluation") /\ UNCHANGED <<prior, verified>>
       \/ /\ good /\ Trusted(g) /\ Look(o, "keep")
          /\ verified' = [verified EXCEPT ![o] = receipts[g]]
          /\ UNCHANGED prior
       \/ /\ good /\ ~Trusted(g) /\ Look(o, "differential")
          /\ prior' = [prior EXCEPT ![o] = receipts[g]]
          /\ UNCHANGED verified
    /\ UNCHANGED <<receipts, runs, evidence, bill, reported, kept>>

\* The evaluation raises, or creates its receipt: at its place, or next to it when
\* there is one already.
RunExact(o) ==
    LET g == on[o] IN
    /\ pc[o] = "differential"
    /\ \/ Look(o, "crash_evaluation") /\ UNCHANGED <<receipts, runs>>
       \/ /\ Look(o, "receipt")
          /\ runs' = [runs EXCEPT ![g] = @ + 1]
          /\ receipts' = [receipts EXCEPT ![g] = IF prior[o] = None THEN Unverifiable ELSE @]
    /\ UNCHANGED <<evidence, bill, reported, prior, verified, kept>>

\* The receipt is complete and verified, or it is not.
VerifyReceipt(o) ==
    LET g == on[o] IN
    /\ pc[o] = "receipt"
    /\ \/ Look(o, "crash_evaluation") /\ UNCHANGED <<receipts, verified>>
       \/ /\ Look(o, IF prior[o] = None THEN "keep" ELSE "replace")
          /\ verified' = [verified EXCEPT ![o] = runs[g]]
          /\ receipts' = [receipts EXCEPT ![g] = IF prior[o] = None THEN runs[g] ELSE @]
    /\ UNCHANGED <<runs, evidence, bill, reported, prior, kept>>

\* os.replace, and the fsync of the directory; either may fail.
ReplaceReceipt(o) ==
    /\ pc[o] = "replace"
    /\ \/ Look(o, "crash_evaluation") /\ UNCHANGED receipts
       \/ /\ \E label \in {"keep", "crash_evaluation"} : Look(o, label)
          /\ receipts' = [receipts EXCEPT ![on[o]] = verified[o]]
    /\ UNCHANGED <<runs, evidence, bill, reported, prior, verified, kept>>

\* Mutant: it is finished with what an earlier run left on file.
FinishOnPrior(o) == [current |-> prior[o], prior |-> None]

\* From here on an exception leaves the attempt as it is.
Basis(o) == [current |-> verified[o], prior |-> prior[o]]

EndExactDifferential(o) ==
    LET g == on[o]
        a == Of(g)
        accepted == MayFinishPhase(a, "differential", "succeeded")
    IN
    /\ pc[o] = "keep"
    /\ kept' = [kept EXCEPT ![o] = TRUE]
    /\ \/ /\ "differential" \in a.ended
          /\ Look(o, "sandbox") /\ UNCHANGED evidence
       \/ /\ "differential" \notin a.ended
          /\ AppendEvaluation(o, accepted, FinishPhase(a, "succeeded"), "sandbox", "done")
          /\ evidence' = [evidence EXCEPT ![g] = IF accepted THEN Basis(o) ELSE @]
          /\ UNCHANGED <<locals, expired>>
    /\ UNCHANGED <<receipts, runs, bill, reported, prior, verified>>

\* What is recorded for a receipt that was trusted is the total of the finished phase.
\* Every execution for this candidate counts, and with them it may have cost more than was
\* reserved; that is seen once it is recorded.
RecordExactSandbox(o) ==
    LET g == on[o]
        a == Of(g)
    IN
    /\ pc[o] = "sandbox"
    /\ \/ /\ a.costs["sandbox"] # "absent" /\ UNCHANGED bill
          /\ Look(o, IF WithinReservation(a) THEN "seal" ELSE "done")
       \/ /\ a.costs["sandbox"] = "absent"
          /\ \E amount \in Measures :
                 LET accepted == MayRecordCost(a, "sandbox", amount)
                     new == RecordCost(a, "sandbox", amount) IN
                 /\ AppendEvaluation(o, accepted, new,
                                     IF WithinReservation(new) THEN "seal" ELSE "done", "done")
                 /\ bill' = [bill EXCEPT ![g] = IF accepted THEN evidence[g] ELSE @]
          /\ UNCHANGED <<locals, expired>>
    /\ UNCHANGED <<receipts, runs, evidence, reported, prior, verified, kept>>

\* The receipt is read once more before it is reported.
Seal(o) ==
    LET sealed == receipts[on[o]] = verified[o] IN
    /\ pc[o] = "seal"
    /\ Goto(o, IF sealed THEN "costs" ELSE "done")
    /\ verdict' = [verdict EXCEPT ![o] = IF sealed THEN "verdict" ELSE @]
    /\ UNCHANGED <<ledger, files, answer, held, missing, on, world, evaluators, evaluation>>

-----------------------------------------------------------------------------
(* _write_result: the steps of V02Runner, but both results say the outcome, and name *)
(* the receipt.                                                             *)

WriteExactResult(o, file) ==
    /\ WriteRecord(o, file, verdict[o])
    /\ reported' = [reported EXCEPT ![on[o]][file] =
                        IF results' # results THEN verified[o] ELSE @]
    /\ UNCHANGED <<receipts, runs, evidence, bill, prior, verified, kept>>

\* verify_v02_exact_scored_result reads the receipt that a result names.
EndExactResults(o) ==
    LET g == on[o]
        readable == \A file \in {"private", "public"} :
                        results[g][file] = "verdict" => reported[g][file] = receipts[g]
    IN
    /\ \/ readable /\ EndResults(o)
       \/ ~readable /\ pc[o] = "end_results" /\ Look(o, "crash_evaluation")
    /\ UNCHANGED evaluation

LeaveOrCrash(o) ==
    /\ \/ kept[o] /\ pc[o] = "crash_evaluation" /\ Look(o, "done")
       \/ ~kept[o] /\ CrashEvaluation(o)
    /\ UNCHANGED evaluation

ExactEvaluation(o) ==
    \/ StartExact(o) \/ TakeExactCapability(o) \/ StartExactDifferential(o)
    \/ FailForNetwork(o) \/ ReadReceipt(o) \/ RunExact(o) \/ VerifyReceipt(o)
    \/ ReplaceReceipt(o) \/ EndExactDifferential(o) \/ RecordExactSandbox(o) \/ Seal(o)
    \/ (FindCosts(o) \/ FillCosts(o) \/ StartResults(o) \/ EndAttempt(o))
       /\ UNCHANGED evaluation
    \/ (\E file \in {"private", "public"} : WriteExactResult(o, file))
    \/ EndExactResults(o) \/ LeaveOrCrash(o)

-----------------------------------------------------------------------------
(* The controller *)

Now == CaseList[turn]

\* _audit_caps refuses a ledger with a cost nobody knows, or with a case above its cap;
\* the cap of the campaign is that of a case times the cases.
Unaffordable(a) == \E k \in Categories : a.costs[k] \in {"unknown"} \cup AboveCap
AuditFails == \E c \in Cases : Unaffordable(attempts[c])

\* A step of the controller alone.
Controls == UNCHANGED <<vars, evaluation>>
Continue(label) == at' = label /\ UNCHANGED <<turn, progress, why>>

\* Any exception: the progress file says so and the lock is released.
Halt(cause) ==
    /\ at' = "stopped" /\ why' = cause
    /\ progress' = [progress EXCEPT !.status = "halted"]
    /\ UNCHANGED turn

\* _acquire_campaign_lock, _load_or_initialize_progress
StartController ==
    /\ at = "stopped"
    /\ Continue("preflight") /\ Controls

\* Everything frozen is verified again; anything of it may be missing now.
Preflight ==
    /\ at = "preflight"
    /\ \/ Halt("outside")
       \/ AuditFails /\ Halt("none")
       \/ /\ ~AuditFails
          /\ at' = "generation" /\ turn' = 1
          /\ progress' = [progress EXCEPT !.status = "running", !.phase = "generation"]
          /\ why' = "none"
    /\ Controls

\* Mutant: an attempt that was begun is generated again.
GenerateAgain(c) == attempts[c].disposition = "none"

\* There is no attempt for the case.
Fresh(c) == attempts[c] = NoAttempt

\* _prepare_private_directory: the directory of the case's attempt must be a new one.  It
\* is there once the process of the case was called, whether an attempt was begun or not.
DirectoryIsNew(c) == pc[GeneratorFor(c)] = "idle"

\* What generate_v02_scored_case verifies before it appends leaves at most the directory.
CallGenerate ==
    LET g == GeneratorFor(Now) IN
    /\ at = "generation" /\ turn \in DOMAIN CaseList /\ Fresh(Now)
    /\ \/ (AuditFails \/ ~DirectoryIsNew(Now)) /\ Halt("none") /\ UNCHANGED pc
       \/ /\ ~AuditFails /\ DirectoryIsNew(Now)
          /\ \/ Continue("generating") /\ UNCHANGED pc
             \/ Halt("outside") /\ Goto(g, "done")
    /\ UNCHANGED <<ledger, files, locals, world, evaluators, evaluation>>

CallRecover ==
    /\ at = "generation" /\ turn \in DOMAIN CaseList
    /\ ~Fresh(Now) /\ attempts[Now].disposition = "none"
    /\ Enter(OperatorFor(Now), attempts[Now].id, "recover")
    /\ Continue("recovering")
    /\ UNCHANGED evaluation

SkipGenerated ==
    /\ at = "generation" /\ turn \in DOMAIN CaseList
    /\ ~Fresh(Now) /\ attempts[Now].disposition # "none"
    /\ Continue("generated") /\ Controls

\* source_context, for every case again in every run, what a call verifies before it
\* does anything, and what the freeze of the barrier does.
OutsideIsRefused ==
    /\ at = "generation" \/ (at = "evaluation" /\ turn \in DOMAIN CaseList)
    /\ Halt("outside") /\ Controls

\* The process of the call that the controller waits for takes a step.
Generating == at = "generating" /\ Generate(GeneratorFor(Now)) /\ pc[GeneratorFor(Now)] # "done"
              /\ UNCHANGED <<controller, evaluation>>
Recovering == at = "recovering" /\ Recovery(OperatorFor(Now))
              /\ UNCHANGED <<controller, evaluation>>
Evaluating == at = "evaluating" /\ ExactEvaluation(OperatorFor(Now))
              /\ UNCHANGED controller

\* An operator is an invocation: the next one starts from nothing.
Released(o, label) ==
    /\ pc' = [pc EXCEPT ![o] = label]
    /\ on' = [on EXCEPT ![o] = NoOne]
    /\ verdict' = [verdict EXCEPT ![o] = "none"]
    /\ missing' = [missing EXCEPT ![o] = Nothing]
    /\ prior' = [prior EXCEPT ![o] = None]
    /\ verified' = [verified EXCEPT ![o] = None]
    /\ kept' = [kept EXCEPT ![o] = FALSE]
    /\ UNCHANGED <<receipts, runs, evidence, bill, reported>>

\* A call that did not return what it should has raised.
GenerateEnds ==
    /\ at = "generating" /\ pc[GeneratorFor(Now)] = "done"
    /\ IF attempts[Now].disposition # "none" THEN Continue("generated") ELSE Halt("none")
    /\ Controls

RecoverEnds ==
    /\ at = "recovering" /\ pc[OperatorFor(Now)] = "done"
    /\ IF attempts[Now].disposition # "none" THEN Continue("generated") ELSE Halt("none")
    /\ Released(OperatorFor(Now), "idle")
    /\ UNCHANGED <<ledger, files, answer, held, world, evaluators>>

\* Mutant: the case counts as done when the call returns or raises.
EvaluatedAnyway(c) == TRUE

Returned(c) == attempts[c].status = "finished"

EvaluateEnds ==
    /\ at = "evaluating" /\ pc[OperatorFor(Now)] = "done"
    /\ IF Returned(Now) THEN Continue("evaluated") ELSE Halt("none")
    /\ Released(OperatorFor(Now), "idle")
    /\ UNCHANGED <<ledger, files, answer, held, world, evaluators>>

\* A call that has changed nothing yet raises for what it verifies, and an evaluation
\* leaves what it has recorded when its receipt, and what that names, is verified once more.
CallIsRefused ==
    LET o == OperatorFor(Now) IN
    /\ at \in {"recovering", "evaluating"} /\ pc[o] \in {"recover", "evaluate", "seal"}
    /\ Halt("outside") /\ Released(o, "idle")
    /\ UNCHANGED <<ledger, files, answer, held, world, evaluators>>

\* _audit_caps, _mark_case and _write_progress.
Mark(label, row, next) ==
    /\ at = label
    /\ \/ AuditFails /\ Halt("none")
       \/ /\ ~AuditFails
          /\ progress' = [progress EXCEPT !.rows[Now] = row]
          /\ at' = next /\ turn' = turn + 1
          /\ UNCHANGED why
    /\ Controls

MarkGenerated == Mark("generated", "generation_frozen", "generation")
MarkEvaluated == Mark("evaluated", "evaluated", "evaluation")

\* A barrier that is in the ledger already is read back.
FreezeBarrier ==
    /\ at = "generation" /\ turn \notin DOMAIN CaseList
    /\ \/ barrier /\ Continue("barrier") /\ UNCHANGED vars
       \/ MayFreeze /\ Freeze /\ Continue("barrier")
       \/ ~barrier /\ ~MayFreeze /\ Halt("none") /\ UNCHANGED vars
    /\ UNCHANGED evaluation

\* The hidden material and the capabilities of all cases, after the phase is written.
TakeAuthorities ==
    LET entered == [progress EXCEPT !.phase = "evaluation"] IN
    /\ at = "barrier"
    /\ \/ /\ at' = "stopped" /\ why' = "outside"
          /\ progress' = [entered EXCEPT !.status = "halted"]
          /\ UNCHANGED turn
       \/ /\ at' = "evaluation" /\ turn' = 1
          /\ progress' = entered
          /\ UNCHANGED why
    /\ Controls

CallEvaluate ==
    /\ at = "evaluation" /\ turn \in DOMAIN CaseList
    /\ Enter(OperatorFor(Now), attempts[Now].id, "evaluate")
    /\ Continue("evaluating")
    /\ UNCHANGED evaluation

Complete ==
    /\ at = "evaluation" /\ turn \notin DOMAIN CaseList
    /\ at' = "stopped" /\ why' = "none"
    /\ progress' = [progress EXCEPT !.phase = "complete",
                                    !.status = IF AuditFails THEN "halted" ELSE "complete"]
    /\ UNCHANGED turn /\ Controls

\* The process of the controller, and with it the call it is in, is killed.
KillController ==
    LET g == GeneratorFor(Now)
        o == OperatorFor(Now) IN
    /\ at # "stopped" /\ kills < MaxKills
    /\ kills' = kills + 1
    /\ at' = "stopped"
    /\ CASE at \in {"recovering", "evaluating"} -> Released(o, "idle")
         [] at = "generating" -> /\ Goto(g, "killed")
                                 /\ missing' = [missing EXCEPT ![g] = Nothing]
                                 /\ UNCHANGED <<on, verdict, evaluation>>
         [] OTHER -> UNCHANGED <<pc, on, verdict, missing, evaluation>>
    /\ UNCHANGED <<ledger, files, answer, held, expired, calls, losses, evaluators,
                   turn, progress, why>>

CampaignNext ==
    \/ StartController \/ Preflight
    \/ CallGenerate \/ Generating \/ GenerateEnds
    \/ CallRecover \/ Recovering \/ RecoverEnds
    \/ SkipGenerated \/ MarkGenerated \/ FreezeBarrier \/ TakeAuthorities
    \/ CallEvaluate \/ Evaluating \/ EvaluateEnds \/ MarkEvaluated \/ Complete
    \/ OutsideIsRefused \/ CallIsRefused
    \/ KillController

CampaignSpec == CampaignInit /\ [][CampaignNext]_campaignVars

-----------------------------------------------------------------------------
(* Properties *)

Whole(g, outcome) == results[g] = [private |-> outcome, public |-> outcome]

\* What the progress file says of a case is so, whoever was killed or halted: a frozen
\* generation has its disposition, an evaluated case is finished with both results on
\* file, and a complete campaign has no other case and no cost that nobody knows.
ProgressIsTrue ==
    \A c \in Cases :
        LET a == attempts[c]
            row == progress.rows[c] IN
        /\ row # "pending" => a.disposition # "none"
        /\ row = "evaluated" => a.status = "finished" /\ Whole(a.id, a.outcome)
        /\ progress.status = "complete" => row = "evaluated" /\ AllKnown(a)

\* A finished verdict, the receipt on file, the receipt both results name, the basis of
\* the finished phase and that of the sandbox cost are all of one run.
SealedResultAgrees ==
    \A c \in Cases :
        LET a == attempts[c]
            run == receipts[a.id] IN
        a.status = "finished" /\ a.outcome = "verdict" =>
            /\ run \in 1 .. runs[a.id]
            /\ reported[a.id] = [private |-> run, public |-> run]
            /\ evidence[a.id].current = run /\ bill[a.id] = evidence[a.id]

\* Once the differential phase is finished, its receipt is never replaced.
SealedReceiptStays ==
    [][\A g \in Generators :
           "differential" \in Of(g).ended => receipts'[g] = receipts[g]]_campaignVars

\* What no later run of the controller gets past, as it is on file: costs nobody knows or
\* above the cap of a case, a crash, the wall-clock cap, a directory without an attempt, a
\* generation without a transaction to recover it from, a candidate that cost more than
\* was reserved, and an evaluation that began and left no receipt, or began its results.
Blocked(c) ==
    LET a == attempts[c] IN
    \/ Unaffordable(a)
    \/ a.status = "crashed"
    \/ a.id \in expired
    \/ a = NoAttempt /\ ~DirectoryIsNew(c)
    \/ a.status = "open" /\ a.disposition = "none" /\ ~Kept(a.id)
    \/ a.status = "open" /\ a.disposition = "candidate_submitted" /\ ~WithinReservation(a)
    \/ /\ a.status = "open" /\ a.disposition # "none"
       /\ \/ "result_write" \in a.began
          \/ /\ receipts[a.id] \in {NoFile, Unverifiable}
             /\ "differential" \in a.began \/ Recorded(a) # BeforeBarrier

\* A campaign halts for a cause that is on file and that every later run meets, or
\* because something outside of the campaign was refused: a kill alone, a step it did
\* before or a run that was complete halts nothing.
HaltIsExplained ==
    progress.status = "halted" /\ at = "stopped" /\ why = "none" =>
        \E c \in Cases : Blocked(c)
=============================================================================
