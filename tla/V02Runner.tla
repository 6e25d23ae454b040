------------------------------ MODULE V02Runner ------------------------------
(***************************************************************************)
(* The v0.2 scored runner (benchmark_v02_runner.py): processes that        *)
(* generate one candidate for a case, the campaign-wide generation         *)
(* barrier, and operators that recover an interrupted generation or        *)
(* evaluate a sealed one.                                                  *)
(*                                                                         *)
(* They share the ledger (V02Ledger), a private directory per attempt with *)
(* the generation transaction and the two results, and, outside both, the  *)
(* record that the one provider call of a case is consumed.  A process is  *)
(* a program counter and a few locals; a step is the code from one access  *)
(* to what is shared to the next.  Reading the ledger and appending to it  *)
(* are different steps: in between any other process may append.           *)
(*                                                                         *)
(* generate_v02_scored_case takes no lock.  Recovery and evaluation take   *)
(* .recovery.lock of the attempt, which the generating process does not    *)
(* hold: an attempt may be recovered while its process is alive.           *)
(***************************************************************************)
EXTENDS V02Ledger

CONSTANTS Operators,  \* invocations of recover_... or evaluate_v02_...
          CaseFor,    \* the case each of them is for
          Cap,        \* reservations that fit below the campaign cap
          NoFile,
          Answers,    \* what the provider may answer to each of them: see AnAnswer
          Measures,   \* what a cost may be measured as
          MaxKills,   \* how many processes may be killed
          MaxLosses   \* how often the ledger file may be deleted

\* A candidate that passes validation or a failure to get one, or an interrupt of
\* the process while it waits; the usage is reported with it or unknown.
AnAnswer == [kind : {"candidate", "failure", "interrupt"}, usage : {"unknown"} \cup Measures]

ASSUME RunnerAssumption ==
    /\ Answers \in [Generators -> SUBSET AnAnswer]
    /\ "measured" \in Measures /\ Measures \subseteq Measured
    /\ Operators \cap Generators = {} /\ NoOne \notin Operators
    /\ CaseFor \in [Operators -> Cases]
    /\ NoFile \notin Usages \cup Outcomes \cup {"sealed"}
    /\ Cap \in Nat /\ MaxKills \in Nat /\ MaxLosses \in Nat

VARIABLES consumed,     \* the process whose call consumed the authorization of a case
          transaction,  \* generation-transaction.json of each attempt: its usage
          results,      \* the private and the public result of each attempt
          pc,           \* where each process is
          answer,       \* what the provider answered to each generating process
          held,         \* it holds the validated candidate
          missing,      \* costs it found missing and is about to record
          on,           \* the attempt each operator works on
          verdict,      \* the outcome an evaluating operator is about to record
          expired,      \* attempts that are past their wall-clock cap
          calls,        \* provider calls made for each case
          evaluators,   \* operators that appended to the evaluation of an attempt
          kills, losses

files == <<consumed, transaction, results>>
locals == <<answer, held, missing, on, verdict>>
world == <<expired, calls, kills, losses>>
vars == <<ledger, files, pc, locals, world, evaluators>>

Processes == Generators \cup Operators
NoAnswer == [kind |-> "none", usage |-> "none"]
Nothing == [k \in {} |-> "zero"]

\* Nothing was done yet.
Blank ==
    /\ LedgerInit
    /\ consumed = [c \in Cases |-> NoOne]
    /\ transaction = [g \in Generators |-> NoFile]
    /\ results = [g \in Generators |-> [private |-> NoFile, public |-> NoFile]]
    /\ answer = [g \in Generators |-> NoAnswer]
    /\ held = [g \in Generators |-> FALSE]
    /\ missing = [p \in Processes |-> Nothing]
    /\ on = [o \in Operators |-> NoOne]
    /\ verdict = [o \in Operators |-> "none"]
    /\ expired = {}
    /\ calls = [c \in Cases |-> 0]
    /\ evaluators = [g \in Generators |-> {}]
    /\ kills = 0

RunnerInit ==
    /\ Blank
    /\ pc = [p \in Processes |-> "idle"]
    /\ losses = 0

-----------------------------------------------------------------------------
(* Steps *)

Goto(p, label) == pc' = [pc EXCEPT ![p] = label]

\* A step that only looks.
Look(p, label) == Goto(p, label) /\ UNCHANGED <<ledger, files, locals, world, evaluators>>

\* _append_event to the attempt of g: the event is accepted and new is what the
\* attempt becomes, or it is rejected.
Append(p, g, accepted, new, next, rejected) ==
    /\ \/ accepted /\ attempts' = [attempts EXCEPT ![CaseOf[g]] = new] /\ Goto(p, next)
       \/ ~accepted /\ UNCHANGED attempts /\ Goto(p, rejected)
    /\ UNCHANGED <<barrier, files, calls, kills, losses>>

\* _check_wall_budget of attempt g: time passes unseen until somebody looks.
Clock(g, late) == /\ g \in expired => late
                  /\ expired' = IF late THEN expired \cup {g} ELSE expired

\* An append without any other effect.
AppendOnly(p, g, accepted, new, next, rejected) ==
    /\ Append(p, g, accepted, new, next, rejected)
    /\ UNCHANGED <<locals, expired, evaluators>>

\* The first cost, in the order of _fill_missing_costs, that p found missing.
Order == [model |-> 1, artifact |-> 2, sandbox |-> 3, storage |-> 4, preparation |-> 5]
NextMissing(p) == CHOOSE k \in DOMAIN missing[p] :
                      \A j \in DOMAIN missing[p] : Order[k] <= Order[j]

AppendMissing(p, g, next, rejected) ==
    LET k == NextMissing(p) IN
    /\ missing[p] # Nothing
    /\ Append(p, g, MayRecordCost(Of(g), k, missing[p][k]),
              RecordCost(Of(g), k, missing[p][k]),
              IF DOMAIN missing[p] = {k} THEN next ELSE pc[p], rejected)
    /\ missing' = [missing EXCEPT ![p] = IF MayRecordCost(Of(g), k, @[k])
                                         THEN [j \in DOMAIN @ \ {k} |-> @[j]] ELSE Nothing]
    /\ UNCHANGED <<answer, held, on, verdict, expired>>

\* What it finds missing among categories; model and storage are what it takes these
\* two costs for.  The amounts are those it saw, also if they are recorded later.
FindMissing(p, g, categories, model, storage, label, none) ==
    LET todo == categories \ Recorded(Of(g))
        amount == [[k \in Categories |-> "zero"] EXCEPT !["model"] = model,
                                                        !["storage"] = storage] IN
    /\ missing' = [missing EXCEPT ![p] = [k \in todo |-> amount[k]]]
    /\ Goto(p, IF todo = {} THEN none ELSE label)
    /\ UNCHANGED <<ledger, files, answer, held, on, verdict, world, evaluators>>

-----------------------------------------------------------------------------
(* generate_v02_scored_case: the attempt, up to the provider call *)

\* _preflight_attempt.  An attempt ends with every cost known only after the
\* barrier, when none can start: known spend is no part of the sum.
PreflightAttempt ==
    /\ \A c \in Cases : Terminal(attempts[c]) => AllKnown(attempts[c])
    /\ Cardinality({c \in Cases : Open(attempts[c])}) + 1 <= Cap

Begin(g) ==
    /\ pc[g] = "idle"
    /\ AppendOnly(g, g, PreflightAttempt /\ MayStartAttempt(g), StartAttempt(g),
                  "prepare", "done")

RecordPreparation(g) ==
    /\ pc[g] = "prepare"
    /\ AppendOnly(g, g, MayRecordCost(Of(g), "preparation", "measured"),
                  RecordCost(Of(g), "preparation", "measured"), "start_phase", "fail")

\* _start_phase, after _check_wall_budget.
StartGeneration(g) ==
    /\ pc[g] = "start_phase"
    /\ \E late \in BOOLEAN :
           /\ Clock(g, late)
           /\ Append(g, g, ~late /\ MayStartPhase(Of(g), "generation"),
                     StartPhase(Of(g), "generation"), "consume", "fail")
    /\ UNCHANGED <<locals, evaluators>>

\* A request over its limit, or no key to call with.
CannotCall(g) == pc[g] = "consume" /\ Look(g, "fail")

\* Mutant: an authorization that is consumed already is taken over.
ConsumeAgain(g) ==
    /\ pc[g] = "consume"
    /\ consumed' = [consumed EXCEPT ![CaseOf[g]] = g]
    /\ Goto(g, "start_call")
    /\ UNCHANGED <<ledger, transaction, results, locals, world, evaluators>>

\* _consume_authorized_model_call: the record is created exclusively; if it cannot be
\* written as a whole (an OSError) the call is consumed all the same.
Consume(g) ==
    /\ pc[g] = "consume"
    /\ \/ /\ consumed[CaseOf[g]] = NoOne
          /\ consumed' = [consumed EXCEPT ![CaseOf[g]] = g]
          /\ \E label \in {"start_call", "crash"} : Goto(g, label)
       \/ /\ consumed[CaseOf[g]] # NoOne
          /\ Goto(g, "fail")
          /\ UNCHANGED consumed
    /\ UNCHANGED <<ledger, transaction, results, locals, world, evaluators>>

\* Mutant: only the attempt's own calls are looked at.
NoOwnUnmatched(g) == ~Unmatched(Of(g))

\* _preflight_model_call, of process g.
PreflightCall(g) == \A c \in Cases : ~Unmatched(attempts[c])

BeginCall(g) ==
    /\ pc[g] = "start_call"
    /\ AppendOnly(g, g, PreflightCall(g) /\ MayStartCall(Of(g)), StartCall(Of(g)),
                  "provider", "fail")

\* The request is sent and answered.  It is not sent if the attempt is gone from the
\* ledger, which the remaining time is read from: that is handled like a failure.
NotSent == [kind |-> "failure", usage |-> "unknown"]

Provider(g) ==
    LET sent == Of(g) # NoAttempt IN
    /\ pc[g] = "provider"
    /\ calls' = [calls EXCEPT ![CaseOf[g]] = IF sent THEN @ + 1 ELSE @]
    /\ \E a \in IF sent THEN Answers[g] ELSE {NotSent} :
           /\ answer' = [answer EXCEPT ![g] = a]
           /\ Goto(g, IF a.kind = "candidate" THEN "persist" ELSE "finish_call")
    /\ UNCHANGED <<ledger, files, held, missing, on, verdict, expired, kills, losses,
                   evaluators>>

\* Mutant: the candidate is committed to the ledger before it is on file.
PersistLater(g) ==
    /\ pc[g] = "persist"
    /\ AppendOnly(g, g, MaySubmit(Of(g)), Submit(Of(g)), "submit", "crash")

\* _persist_generation_transaction: exclusive, in a directory of its own.  It may
\* not be created (a rejection) or be cut (an OSError); a cut file is never read.
Persist(g) ==
    /\ pc[g] = "persist"
    /\ \/ /\ transaction' = [transaction EXCEPT ![g] = answer[g].usage]
          /\ Goto(g, "submit")
       \/ /\ UNCHANGED transaction
          /\ \E label \in {"fail", "crash"} : Goto(g, label)
    /\ UNCHANGED <<ledger, consumed, results, locals, world, evaluators>>

SubmitCandidate(g) ==
    /\ pc[g] = "submit"
    /\ AppendOnly(g, g, MaySubmit(Of(g)), Submit(Of(g)), "finish_call", "crash")

CallStatus(g) == IF answer[g].kind = "candidate" THEN "succeeded" ELSE "failed"

\* What cannot be recorded after the call is a crash.
EndCall(g) ==
    /\ pc[g] = "finish_call"
    /\ AppendOnly(g, g, MayFinishCall(Of(g), CallStatus(g)),
                  FinishCall(Of(g), CallStatus(g), answer[g].usage), "model_cost", "crash")

AfterCost(kind) == CASE kind = "candidate" -> "end_phase"
                     [] kind = "failure" -> "fail"
                     [] OTHER -> "crash"

\* Mutant: usage that was not reported counts as zero.
RecordNoUsageAsZero(g) ==
    LET amount == IF answer[g].usage = "unknown" THEN "zero" ELSE answer[g].usage IN
    /\ pc[g] = "model_cost"
    /\ AppendOnly(g, g, MayRecordCost(Of(g), "model", amount),
                  RecordCost(Of(g), "model", amount), AfterCost(answer[g].kind), "crash")

RecordModelCost(g) ==
    /\ pc[g] = "model_cost"
    /\ AppendOnly(g, g, MayRecordCost(Of(g), "model", answer[g].usage),
                  RecordCost(Of(g), "model", answer[g].usage),
                  AfterCost(answer[g].kind), "crash")

EndGeneration(g) ==
    /\ pc[g] = "end_phase"
    /\ AppendOnly(g, g, MayFinishPhase(Of(g), "generation", "succeeded"),
                  FinishPhase(Of(g), "succeeded"), "check", "fail")

\* _check_wall_budget raises before the candidate is returned, the assertions that
\* the model cost is known and the reservation not exceeded after it.
CheckGeneration(g) ==
    LET a == Of(g) IN
    /\ pc[g] = "check"
    /\ \/ /\ Clock(g, a # NoAttempt)
          /\ Goto(g, "fail")
          /\ UNCHANGED held
       \/ /\ Clock(g, FALSE) /\ a # NoAttempt
          /\ held' = [held EXCEPT ![g] = TRUE]
          /\ Goto(g, IF Known(a, "model") /\ WithinReservation(a) THEN "artifact" ELSE "fail")
    /\ UNCHANGED <<ledger, files, answer, missing, on, verdict, calls, kills, losses,
                   evaluators>>

\* _record_or_validate_recovery_artifact_cost looks, and records what is not there; the
\* reservation is looked at once more.
LookForArtifact(g) ==
    LET a == Of(g) IN
    /\ pc[g] = "artifact"
    /\ Look(g, CASE a.costs["artifact"] = "absent" -> "artifact_cost"
                 [] a.costs["artifact"] \in Measured /\ WithinReservation(a) -> "dispose"
                 [] OTHER -> "fail")

RecordArtifact(g) ==
    /\ pc[g] = "artifact_cost"
    /\ \E amount \in Measures :
           AppendOnly(g, g, MayRecordCost(Of(g), "artifact", amount),
                      RecordCost(Of(g), "artifact", amount),
                      IF amount \in AboveReservation THEN "fail" ELSE "dispose", "fail")

-----------------------------------------------------------------------------
(* generate_v02_scored_case: failure and disposition *)

\* A rejection inside an exception handler leaves the function: "done".

\* _finish_open_phase: a ledger without the attempt cannot be read.
LookForPhase(g) ==
    /\ pc[g] = "fail"
    /\ Look(g, IF Of(g) = NoAttempt THEN "done"
               ELSE IF Of(g).phase # "none" THEN "close" ELSE "ensure")

ClosePhase(g) ==
    /\ pc[g] = "close"
    /\ AppendOnly(g, g, MayFinishPhase(Of(g), "generation", "failed"),
                  FinishPhase(Of(g), "failed"), "ensure", "done")

\* _ensure_generation_costs: the model cost that is recorded for an attempt.
ModelCost(a) == IF Called(a) THEN a.usage
                ELSE IF Unmatched(a) THEN "unknown" ELSE "zero"

EnsureCosts(g) ==
    /\ pc[g] = "ensure"
    /\ FindMissing(g, g, {"model", "artifact"}, ModelCost(Of(g)), "zero", "fill", "dispose")

FillGenerationCosts(g) ==
    /\ pc[g] = "fill"
    /\ AppendMissing(g, g, "dispose", "done")
    /\ UNCHANGED evaluators

\* Mutant: with unknown spend it just returns.
DisposeOrReturn(g) ==
    LET status == IF held[g] THEN "candidate_submitted" ELSE "no_candidate" IN
    /\ pc[g] = "dispose"
    /\ AppendOnly(g, g, MayDispose(Of(g), status), Dispose(Of(g), status), "done", "done")

\* With unknown spend it halts; otherwise it freezes what it holds.
DisposeGeneration(g) ==
    LET status == IF held[g] THEN "candidate_submitted" ELSE "no_candidate" IN
    /\ pc[g] = "dispose"
    /\ \/ ~Known(Of(g), "model") /\ Look(g, "crash")
       \/ /\ Known(Of(g), "model")
          /\ AppendOnly(g, g, MayDispose(Of(g), status), Dispose(Of(g), status),
                        "done", "done")

\* _append_crash; a rejection of it is swallowed.
CrashGeneration(g) ==
    /\ pc[g] = "crash"
    /\ AppendOnly(g, g, MayCrash(Of(g)), Crash(Of(g)), "done", "done")

\* freeze_v02_campaign_generation_barrier
Freeze ==
    /\ MayFreeze
    /\ barrier' = TRUE
    /\ UNCHANGED <<attempts, files, pc, locals, world, evaluators>>

-----------------------------------------------------------------------------
(* The lock of an attempt *)

AtRest(p) == pc[p] \in {"idle", "done", "killed"}

\* The kernel drops a lock with the process that holds it.
Locked(g) == \E o \in Operators : on[o] = g /\ ~AtRest(o)

\* _prepare_recovery_context finds the attempt, _acquire_recovery_lock does not wait.
Enter(o, g, label) ==
    /\ pc[o] = "idle" /\ CaseOf[g] = CaseFor[o] /\ Of(g) # NoAttempt /\ ~Locked(g)
    /\ on' = [on EXCEPT ![o] = g]
    /\ Goto(o, label)
    /\ UNCHANGED <<ledger, files, answer, held, missing, verdict, world, evaluators>>

-----------------------------------------------------------------------------
(* recover_v02_scored_case: what is missing is replayed from the transaction *)

\* _require_other_attempt_spend_reconciled
OthersReconciled(g) ==
    LET others == {attempts[c] : c \in Cases \ {CaseOf[g]}} IN
    /\ \A a \in others : /\ ~Unmatched(a)
                         /\ Called(a) => Known(a, "model")
                         /\ Terminal(a) => AllKnown(a)
    /\ Cardinality({c \in Cases \ {CaseOf[g]} : Open(attempts[c])}) + 1 <= Cap

\* What a recovery replays, in this order; usage is that of the transaction, and the
\* amount of the artifact what it is measured as.
Found(a, event) ==
    CASE event = "candidate" -> a.candidate
      [] event = "call" -> Called(a)
      [] event = "cost" -> a.costs["model"] # "absent"
      [] event = "phase" -> "generation" \in a.ended
      [] event = "artifact" -> a.costs["artifact"] # "absent"
      [] event = "disposition" -> a.disposition # "none"

Agrees(a, event, usage) ==
    CASE event = "candidate" -> TRUE
      [] event = "call" -> a.call = "succeeded" /\ a.usage = usage
      [] event = "cost" -> a.costs["model"] = usage
      [] event = "phase" -> a.generated = "succeeded"
      [] event = "artifact" -> a.costs["artifact"] \in Measured
      [] event = "disposition" -> a.disposition = "candidate_submitted"

Accepted(a, event, amount) ==
    CASE event = "candidate" -> MaySubmit(a)
      [] event = "call" -> MayFinishCall(a, "succeeded")
      [] event = "cost" -> MayRecordCost(a, "model", amount)
      [] event = "phase" -> MayFinishPhase(a, "generation", "succeeded")
      [] event = "artifact" -> MayRecordCost(a, "artifact", amount)
      [] event = "disposition" -> MayDispose(a, "candidate_submitted")

Replayed(a, event, amount) ==
    CASE event = "candidate" -> Submit(a)
      [] event = "call" -> FinishCall(a, "succeeded", amount)
      [] event = "cost" -> RecordCost(a, "model", amount)
      [] event = "phase" -> FinishPhase(a, "succeeded")
      [] event = "artifact" -> RecordCost(a, "artifact", amount)
      [] event = "disposition" -> Dispose(a, "candidate_submitted")

\* _load_generation_transaction: the candidate and its usage can be read; it is bound
\* to the attempt and to what the attempt was started with.
Kept(g) == transaction[g] # NoFile

\* Mutant: recovery is not sealed by the barrier.
RecoverableAfterBarrier(g) ==
    LET a == Of(g) IN
    /\ a.status # "finished"
    /\ a.recovered => Open(a)
    /\ a.began \cap {"differential", "result_write"} = {}
    /\ \A event \in {"call", "cost"} :
           Found(a, event) => Agrees(a, event, transaction[g])
    /\ Recorded(a) \subseteq BeforeBarrier /\ "preparation" \in Recorded(a)
    /\ OthersReconciled(g)

\* _preflight_recovery_state.  A crash after recovery_started is final.
PreflightRecovery(g) ==
    LET a == Of(g) IN
    /\ ~barrier
    /\ a.status # "finished"
    /\ a.recovered => Open(a)
    /\ a.began \cap {"differential", "result_write"} = {}
    /\ \A event \in {"call", "cost"} :
           Found(a, event) => Agrees(a, event, transaction[g])
    /\ Recorded(a) \subseteq BeforeBarrier /\ "preparation" \in Recorded(a)
    /\ OthersReconciled(g)

StartRecovery(o) ==
    LET g == on[o]
        recoverable == /\ Kept(g) /\ consumed[CaseOf[g]] = g
                       /\ PreflightRecovery(g)
    IN
    /\ pc[o] = "recover"
    /\ \/ /\ recoverable /\ Of(g).recovered /\ Look(o, "candidate")
       \/ /\ ~(recoverable /\ Of(g).recovered)
          /\ AppendOnly(o, g, recoverable /\ MayRecover(Of(g)), Recover(Of(g)),
                        "candidate", "crash_recovery")

Replays == [candidate |-> "replay_candidate", call |-> "replay_call",
            cost |-> "replay_cost", phase |-> "replay_phase",
            artifact |-> "replay_artifact", disposition |-> "replay_disposition"]
AfterReplay == [candidate |-> "call", call |-> "cost", cost |-> "spend", phase |-> "wall",
                artifact |-> "reservation", disposition |-> "done"]

LookForEvent(o, event) ==
    LET a == Of(on[o]) IN
    /\ pc[o] = event
    /\ Look(o, IF ~Found(a, event) THEN Replays[event]
               ELSE IF Agrees(a, event, transaction[on[o]]) THEN AfterReplay[event]
               ELSE "crash_recovery")

ReplayEvent(o, event) ==
    LET a == Of(on[o]) IN
    /\ pc[o] = Replays[event]
    /\ \E amount \in IF event = "artifact" THEN Measures ELSE {transaction[on[o]]} :
           AppendOnly(o, on[o], Accepted(a, event, amount), Replayed(a, event, amount),
                      AfterReplay[event], "crash_recovery")

\* _halt_recovery_unknown_spend
CheckSpend(o) ==
    LET a == Of(on[o]) IN
    /\ pc[o] = "spend"
    /\ \/ transaction[on[o]] # "unknown" /\ Look(o, "phase")
       \/ /\ transaction[on[o]] = "unknown"
          /\ AppendOnly(o, on[o], MayCrash(a), Crash(a), "done", "done")

\* _check_wall_budget counts from the start of the attempt, not of the recovery.  The
\* reservation is looked at before the artifact cost and after it.
CheckWall(o) ==
    LET a == Of(on[o]) IN
    /\ pc[o] = "wall"
    /\ \E late \in BOOLEAN :
           /\ Clock(on[o], late)
           /\ Goto(o, IF late \/ a = NoAttempt \/ ~WithinReservation(a) THEN "crash_recovery"
                                                                     ELSE "artifact")
    /\ UNCHANGED <<ledger, files, locals, calls, kills, losses, evaluators>>

CheckReservation(o) ==
    /\ pc[o] = "reservation"
    /\ Look(o, IF WithinReservation(Of(on[o])) THEN "disposition" ELSE "crash_recovery")

\* _append_recovery_crash_if_open
CrashRecovery(o) ==
    LET a == Of(on[o]) IN
    /\ pc[o] = "crash_recovery"
    /\ AppendOnly(o, on[o], a.recovered /\ MayCrash(a), Crash(a), "done", "done")

-----------------------------------------------------------------------------
(* evaluate_v02_frozen_case *)

\* An append of the evaluation o, remembered as one.
AppendEvaluation(o, accepted, new, next, rejected) ==
    /\ Append(o, on[o], accepted, new, next, rejected)
    /\ evaluators' = [evaluators EXCEPT ![on[o]] = IF accepted THEN @ \cup {o} ELSE @]

\* Mutant: whether an evaluation was begun before is not looked at.
PreflightOnce(a) == ~Terminal(a)

\* _preflight_frozen_evaluation: no terminal event, no evaluation that was begun.
PreflightEvaluation(a) ==
    /\ ~Terminal(a)
    /\ a.began \cap {"differential", "result_write"} = {}
    /\ Recorded(a) = BeforeBarrier

\* The outcome of an attempt until its candidate is tested.
Untested(a) == IF a.disposition = "no_candidate" THEN "no_output" ELSE "infrastructure"

\* What the two results say of an outcome; the public one keeps it sealed, but not that
\* there is no candidate.
ResultRecord(file, outcome) ==
    IF file = "public" /\ outcome # "no_output" THEN "sealed" ELSE outcome

\* _completed_recovery_result: both files are those that the end of the attempt names.
ReadsBack(g) ==
    results[g] = [file \in {"private", "public"} |-> ResultRecord(file, Of(g).outcome)]

\* A finished attempt is read back, and what cannot be evaluated is rejected
\* without a trace; an abstention needs no evaluator.
StartEvaluation(o) ==
    LET g == on[o]
        a == Of(g)
        abstains == a.disposition = "no_candidate"
        evaluable == /\ barrier /\ a.disposition # "none" /\ PreflightEvaluation(a)
                     /\ abstains \/ (Kept(g) /\ WithinReservation(a))
    IN
    /\ pc[o] = "evaluate"
    /\ \/ /\ evaluable
          /\ verdict' = [verdict EXCEPT ![o] = Untested(a)]
          /\ Goto(o, IF abstains THEN "costs" ELSE "capability")
       \/ /\ ~evaluable
          /\ Goto(o, "done")
          /\ UNCHANGED verdict
    /\ UNCHANGED <<ledger, files, answer, held, missing, on, world, evaluators>>

\* The evaluator capability is acquired and consumed, or refused.
TakeCapability(o) ==
    /\ pc[o] = "capability"
    /\ \E label \in {"start_differential", "crash_evaluation"} : Look(o, label)

StartDifferential(o) ==
    LET a == Of(on[o]) IN
    /\ pc[o] = "start_differential"
    /\ \E late \in BOOLEAN :
           /\ Clock(on[o], late)
           /\ AppendEvaluation(o, ~late /\ MayStartPhase(a, "differential"),
                               StartPhase(a, "differential"), "differential",
                               "fail_evaluation")
    /\ UNCHANGED locals

\* verify_differential_candidate returns, is rejected, or raises something else.
RunDifferential(o) ==
    /\ pc[o] = "differential"
    /\ \E label \in {"end_differential", "fail_evaluation", "crash_evaluation"} :
           Look(o, label)

EndDifferential(o) ==
    LET a == Of(on[o]) IN
    /\ pc[o] = "end_differential"
    /\ \E late \in BOOLEAN :
           /\ Clock(on[o], late)
           /\ AppendEvaluation(o, MayFinishPhase(a, "differential", "succeeded"),
                               FinishPhase(a, "succeeded"),
                               IF late THEN "fail_evaluation" ELSE "sandbox",
                               "fail_evaluation")
    /\ UNCHANGED locals

\* With more than was reserved the candidate has no verdict: policy_violation.
RecordSandbox(o) ==
    LET a == Of(on[o]) IN
    /\ pc[o] = "sandbox"
    /\ \E amount \in Measures :
           AppendEvaluation(o, MayRecordCost(a, "sandbox", amount),
                            RecordCost(a, "sandbox", amount),
                            IF amount \in AboveReservation THEN "fail_evaluation"
                                                           ELSE "storage",
                            "fail_evaluation")
    /\ UNCHANGED <<locals, expired>>

RecordStorage(o) ==
    LET a == Of(on[o]) IN
    /\ pc[o] = "storage"
    /\ \E amount \in Measures :
           LET accepted == MayRecordCost(a, "storage", amount)
               within == amount \notin AboveReservation IN
           /\ AppendEvaluation(o, accepted, RecordCost(a, "storage", amount),
                               IF within THEN "costs" ELSE "fail_evaluation",
                               "fail_evaluation")
           /\ verdict' = [verdict EXCEPT ![o] = IF accepted /\ within THEN "verdict" ELSE @]
    /\ UNCHANGED <<answer, held, missing, on, expired>>

\* _finish_open_phase after a controlled failure.
FailEvaluation(o) ==
    /\ pc[o] = "fail_evaluation"
    /\ Look(o, IF Of(on[o]) = NoAttempt THEN "crash_evaluation"
               ELSE IF Of(on[o]).phase # "none" THEN "close_differential" ELSE "costs")

CloseDifferential(o) ==
    LET a == Of(on[o]) IN
    /\ pc[o] = "close_differential"
    /\ AppendEvaluation(o, MayFinishPhase(a, "differential", "failed"),
                        FinishPhase(a, "failed"), "costs", "crash_evaluation")
    /\ UNCHANGED <<locals, expired>>

\* _fill_missing_costs
FindCosts(o) ==
    /\ pc[o] = "costs"
    /\ \E storage \in Measures :
           FindMissing(o, on[o], Categories,
                       IF Of(on[o]).call = "none" THEN "zero" ELSE "unknown", storage,
                       "fill_costs", "start_results")

FillCosts(o) ==
    /\ pc[o] = "fill_costs"
    /\ AppendMissing(o, on[o], "start_results", "crash_evaluation")
    /\ evaluators' = [evaluators EXCEPT ![on[o]] = @ \cup {o}]

StartResults(o) ==
    LET a == Of(on[o]) IN
    /\ pc[o] = "start_results"
    /\ \E late \in BOOLEAN :
           /\ Clock(on[o], late)
           /\ AppendEvaluation(o, ~late /\ MayStartPhase(a, "result_write"),
                               StartPhase(a, "result_write"), "private",
                               "crash_evaluation")
    /\ UNCHANGED locals

\* The private, then the public result; each is created exclusively, or it is not
\* written as a whole, and then never read.
WriteRecord(o, file, record) ==
    /\ pc[o] = file
    /\ \/ /\ results[on[o]][file] = NoFile
          /\ results' = [results EXCEPT ![on[o]][file] = record]
          /\ Goto(o, IF file = "private" THEN "public" ELSE "end_results")
       \/ /\ Goto(o, "crash_evaluation")
          /\ UNCHANGED results
    /\ UNCHANGED <<ledger, consumed, transaction, locals, world, evaluators>>

WriteResult(o, file) == WriteRecord(o, file, ResultRecord(file, verdict[o]))

EndResults(o) ==
    LET a == Of(on[o]) IN
    /\ pc[o] = "end_results"
    /\ AppendEvaluation(o, MayFinishPhase(a, "result_write", "succeeded"),
                        FinishPhase(a, "succeeded"), "finish", "crash_evaluation")
    /\ UNCHANGED <<locals, expired>>

EndAttempt(o) ==
    LET a == Of(on[o]) IN
    /\ pc[o] = "finish"
    /\ AppendEvaluation(o, MayFinishAttempt(a), FinishAttempt(a, verdict[o]),
                        "done", "crash_evaluation")
    /\ UNCHANGED <<locals, expired>>

\* _append_evaluation_crash_if_open
CrashEvaluation(o) ==
    LET a == Of(on[o]) IN
    /\ pc[o] = "crash_evaluation"
    /\ AppendEvaluation(o, MayCrash(a), Crash(a), "done", "done")
    /\ UNCHANGED <<locals, expired>>

-----------------------------------------------------------------------------
(* Kills, and a ledger file that is deleted and made again *)

Kill(p) ==
    /\ ~AtRest(p) /\ kills < MaxKills
    /\ kills' = kills + 1
    /\ Goto(p, "killed")
    /\ missing' = [missing EXCEPT ![p] = Nothing]
    /\ UNCHANGED <<ledger, files, answer, held, on, verdict, expired, calls, losses,
                   evaluators>>

LoseLedger ==
    /\ losses < MaxLosses
    /\ losses' = losses + 1
    /\ attempts' = [c \in Cases |-> NoAttempt]
    /\ barrier' = FALSE
    /\ UNCHANGED <<files, pc, locals, expired, calls, kills, evaluators>>

Generate(g) ==
    \/ Begin(g) \/ RecordPreparation(g) \/ StartGeneration(g)
    \/ CannotCall(g) \/ Consume(g) \/ BeginCall(g) \/ Provider(g)
    \/ Persist(g) \/ SubmitCandidate(g) \/ EndCall(g) \/ RecordModelCost(g)
    \/ EndGeneration(g) \/ CheckGeneration(g) \/ LookForArtifact(g) \/ RecordArtifact(g)
    \/ LookForPhase(g) \/ ClosePhase(g) \/ EnsureCosts(g) \/ FillGenerationCosts(g)
    \/ DisposeGeneration(g) \/ CrashGeneration(g)

Recovery(o) ==
    \/ \E g \in Generators : Enter(o, g, "recover")
    \/ StartRecovery(o)
    \/ \E event \in DOMAIN Replays : LookForEvent(o, event) \/ ReplayEvent(o, event)
    \/ CheckSpend(o) \/ CheckWall(o) \/ CheckReservation(o) \/ CrashRecovery(o)

Evaluation(o) ==
    \/ \E g \in Generators : Enter(o, g, "evaluate")
    \/ StartEvaluation(o) \/ TakeCapability(o)
    \/ StartDifferential(o) \/ RunDifferential(o) \/ EndDifferential(o)
    \/ RecordSandbox(o) \/ RecordStorage(o)
    \/ FailEvaluation(o) \/ CloseDifferential(o) \/ FindCosts(o) \/ FillCosts(o)
    \/ StartResults(o) \/ (\E file \in {"private", "public"} : WriteResult(o, file))
    \/ EndResults(o) \/ EndAttempt(o) \/ CrashEvaluation(o)

RunnerNext == \/ \E g \in Generators : Generate(g)
              \/ \E o \in Operators : Recovery(o) \/ Evaluation(o)
              \/ \E p \in Processes : Kill(p)
              \/ Freeze \/ LoseLedger

RunnerSpec == RunnerInit /\ [][RunnerNext]_vars

-----------------------------------------------------------------------------
(* Properties *)

Labels == {"idle", "done", "killed", "prepare", "start_phase", "consume", "start_call",
           "provider", "persist", "submit", "finish_call", "model_cost", "end_phase",
           "check", "artifact", "artifact_cost", "fail", "close", "ensure", "fill",
           "dispose", "crash", "recover", "spend", "wall", "reservation", "crash_recovery", "evaluate",
           "capability", "start_differential", "differential", "end_differential",
           "sandbox", "storage", "fail_evaluation", "close_differential", "costs",
           "fill_costs", "start_results", "private", "public", "end_results", "finish",
           "crash_evaluation"}
          \cup DOMAIN Replays \cup {Replays[event] : event \in DOMAIN Replays}

\* The variables of the runner have their types.
TypeOK ==
    /\ LedgerTypeOK
    /\ consumed \in [Cases -> Generators \cup {NoOne}]
    /\ transaction \in [Generators -> Usages \cup {NoFile}]
    /\ results \in [Generators -> [private : Outcomes \cup {NoFile},
                                   public : Outcomes \cup {"sealed", NoFile}]]
    /\ pc \in [Processes -> Labels]
    /\ answer \in [Generators -> AnAnswer \cup {NoAnswer}]
    /\ held \in [Generators -> BOOLEAN]
    /\ \A p \in Processes : /\ DOMAIN missing[p] \subseteq Categories
                            /\ \A k \in DOMAIN missing[p] : missing[p][k] \in Amounts
    /\ on \in [Operators -> Generators \cup {NoOne}]
    /\ verdict \in [Operators -> Outcomes \cup {"none"}]
    /\ expired \subseteq Generators
    /\ calls \in [Cases -> Nat]
    /\ evaluators \in [Generators -> SUBSET Operators]
    /\ kills \in 0 .. MaxKills /\ losses \in 0 .. MaxLosses

\* The provider is called at most once for a case: with several processes for it,
\* with kills and recoveries, and also if the ledger is deleted and made again.
OneCallPerCase == \A c \in Cases : calls[c] <= 1

\* No call is begun while another one of the campaign is in doubt.
OneUnmatched == \A c, d \in Cases : Unmatched(attempts[c]) /\ Unmatched(attempts[d]) => c = d

\* A frozen disposition states what was really spent: the usage that the provider
\* reported, or zero if it was not called; never an amount nobody knows.
SealedSpendIsTrue ==
    \A c \in Cases :
        LET a == attempts[c] IN
        a.disposition # "none" =>
            a.costs["model"] = IF answer[a.id] = NoAnswer THEN "zero"
                               ELSE answer[a.id].usage

\* What the ledger commits to is in the attempt's directory, whoever crashes: a candidate
\* can be recovered and evaluated, and the results of a finished attempt, of whichever
\* invocation wrote them, can be read back.
CommittedIsDurable ==
    \A c \in Cases :
        LET a == attempts[c] IN
        /\ a.candidate => Kept(a.id)
        /\ a.status = "finished" => ReadsBack(a.id)

\* The generation side of an attempt, whatever its evaluation does.
Generated(a) == <<a.id, a.call, a.usage, a.candidate, a.generated, a.recovered,
                  a.disposition, [k \in BeforeBarrier |-> a.costs[k]]>>

\* Once the barrier is frozen, nothing changes that it commits to: no attempt, call,
\* candidate, cost of generation or disposition comes or goes, no recovery begins.
SealedGenerationStays ==
    [][barrier /\ barrier' =>
           \A c \in Cases : Generated(attempts'[c]) = Generated(attempts[c])]_vars

\* One invocation at most leaves a trace of evaluation in an attempt: what one began
\* and did not finish, nobody takes up with what it may have learnt.
OneEvaluation == \A g \in Generators : Cardinality(evaluators[g]) <= 1

\* A generation that returned, or raised, left a disposition or a crash in its attempt,
\* unless the attempt was past its wall-clock cap or was recovered meanwhile.
GenerationIsAccounted ==
    \A g \in Generators :
        LET a == Of(g) IN
        pc[g] = "done" /\ a # NoAttempt =>
            \/ a.disposition # "none" \/ Terminal(a)
            \/ g \in expired \/ a.recovered

\* Recovery after the barrier changes no attempt: "Generation recovery is sealed after
\* the durable campaign barrier."  It does not hold: once an attempt was recovered, a
\* recovery that the barrier rejects records the rejection as a crash of the attempt.
InRecovery(o) ==
    pc[o] \in {"recover", "spend", "wall", "reservation", "crash_recovery"} \cup DOMAIN Replays
              \cup {Replays[event] : event \in DOMAIN Replays}
RecoveryIsSealed ==
    [][barrier /\ barrier' =>
           \A o \in Operators : InRecovery(o) /\ pc'[o] # pc[o] => UNCHANGED attempts]_vars
=============================================================================
