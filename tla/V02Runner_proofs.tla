--------------------------- MODULE V02Runner_proofs ---------------------------
(***************************************************************************)
(* Theorems about the provider calls of the v0.2 runner, the files behind  *)
(* its ledger and the spend that a disposition freezes, for any number of  *)
(* cases, of processes for a case and of operators, with any number of     *)
(* kills, and however often the ledger is deleted.                         *)
(*                                                                         *)
(* CaseCalledOnce uses nothing of the ledger: what stops a second call is  *)
(* the record of consumed calls.  A process on its way to the provider is  *)
(* the one that consumed the call of its case, and has not made it yet.    *)
(* OneCallInDoubt is about the ledger alone: no event but the start of a   *)
(* call leaves one in doubt, and that start is refused while one is.       *)
(*                                                                         *)
(* A cost is recorded from four places: the process that called, the same  *)
(* process as it fills in what is missing, a recovery that replays the     *)
(* transaction, and an evaluation.  The first and the third copy the usage *)
(* that the provider reported.  What the second found missing was seen     *)
(* before it is recorded, and MissingIsTrue keeps it true meanwhile: a     *)
(* cost is found to be zero only of an attempt without a call, which its   *)
(* own process alone could still begin, and a model cost that is unknown   *)
(* never gets a disposition.  An evaluation adds no model cost, for it     *)
(* starts where there is one (Settled).                                    *)
(***************************************************************************)
EXTENDS V02Runner, FiniteSetTheorems, TLAPS

\* The steps between the consumption of a call and the call.
Calling == {"start_call", "provider"}

CallInv ==
    /\ pc = [p \in Processes |-> pc[p]]
    /\ consumed \in [Cases -> Generators \cup {NoOne}]
    /\ calls \in [Cases -> 0 .. 1]
    /\ \A c \in Cases : consumed[c] = NoOne => calls[c] = 0
    /\ \A g \in Generators :
           pc[g] \in Calling => consumed[CaseOf[g]] = g /\ calls[CaseOf[g]] = 0

\* A step of p that consumes nothing, calls nobody and does not lead to a call.
Keeps(p) ==
    /\ UNCHANGED <<consumed, calls>>
    /\ pc' = [pc EXCEPT ![p] = pc'[p]]
    /\ pc'[p] \notin Calling

LEMMA InitCalls == RunnerInit => CallInv
  BY AttemptAssumption, SMT
  DEF RunnerInit, Blank, CallInv, Calling, Processes

LEMMA KeepsCalls ==
    ASSUME CallInv, NEW p \in Processes, Keeps(p)
    PROVE  CallInv'
  BY DEF CallInv, Keeps, Processes

\* A step that only looks, and an append, go where they are told to.
LEMMA LookKeeps ==
    ASSUME CallInv, NEW p \in Processes, NEW label, label \notin Calling, Look(p, label)
    PROVE  Keeps(p)
  BY DEF CallInv, Keeps, Look, Goto, files, world, locals

LEMMA AppendKeeps ==
    ASSUME CallInv, NEW p \in Processes, NEW g, NEW accepted, NEW new,
           NEW next, NEW rejected, next \notin Calling, rejected \notin Calling,
           Append(p, g, accepted, new, next, rejected)
    PROVE  Keeps(p)
  BY DEF CallInv, Keeps, Append, Goto, files

\* What is measured is neither zero nor unknown.
LEMMA MeasuredIsKnown ==
    /\ Measures \subseteq Measured /\ Usages = {"unknown"} \cup Measured
    /\ Measured \cap {"absent", "unknown", "zero", "none"} = {}
  BY RunnerAssumption DEF Measured, AboveReservation, AboveCap, Usages

LEMMA PriorCosts == {"preparation", "model"} \subseteq BeforeBarrier
  BY DEF BeforeBarrier

\* The steps that append a cost as it is measured, whatever the amount.
LEMMA ArtifactAppends ==
    ASSUME NEW g \in Generators, RecordArtifact(g)
    PROVE  \E amount \in Measures, next \in {"fail", "dispose"} :
               AppendOnly(g, g, MayRecordCost(Of(g), "artifact", amount),
                          RecordCost(Of(g), "artifact", amount), next, "fail")
<1>1. PICK amount \in Measures :
          AppendOnly(g, g, MayRecordCost(Of(g), "artifact", amount),
                     RecordCost(Of(g), "artifact", amount),
                     IF amount \in AboveReservation THEN "fail" ELSE "dispose", "fail")
  BY DEF RecordArtifact
<1>2. (IF amount \in AboveReservation THEN "fail" ELSE "dispose") \in {"fail", "dispose"}
  OBVIOUS
<1> QED BY <1>1, <1>2

LEMMA MeasureAppends ==
    ASSUME NEW o \in Operators, RecordSandbox(o) \/ RecordStorage(o)
    PROVE  /\ pc[o] \in {"sandbox", "storage"}
           /\ UNCHANGED <<answer, held, missing, on, expired>>
           /\ \E k \in {"sandbox", "storage"}, amount \in Measures,
                 next \in {"storage", "costs", "fail_evaluation"} :
                  AppendEvaluation(o, MayRecordCost(Of(on[o]), k, amount),
                                   RecordCost(Of(on[o]), k, amount), next,
                                   "fail_evaluation")
<1>1. CASE RecordSandbox(o)
  <2>1. PICK amount \in Measures :
            AppendEvaluation(o, MayRecordCost(Of(on[o]), "sandbox", amount),
                             RecordCost(Of(on[o]), "sandbox", amount),
                             IF amount \in AboveReservation THEN "fail_evaluation"
                                                            ELSE "storage",
                             "fail_evaluation")
    BY <1>1 DEF RecordSandbox
  <2>2. (IF amount \in AboveReservation THEN "fail_evaluation" ELSE "storage")
            \in {"storage", "costs", "fail_evaluation"}
    OBVIOUS
  <2> QED BY <1>1, <2>1, <2>2 DEF RecordSandbox, locals
<1>2. CASE RecordStorage(o)
  <2>1. PICK amount \in Measures :
            AppendEvaluation(o, MayRecordCost(Of(on[o]), "storage", amount),
                             RecordCost(Of(on[o]), "storage", amount),
                             IF amount \notin AboveReservation THEN "costs"
                                                               ELSE "fail_evaluation",
                             "fail_evaluation")
    BY <1>2 DEF RecordStorage
  <2>2. (IF amount \notin AboveReservation THEN "costs" ELSE "fail_evaluation")
            \in {"storage", "costs", "fail_evaluation"}
    OBVIOUS
  <2> QED BY <1>2, <2>1, <2>2 DEF RecordStorage
<1> QED BY <1>1, <1>2

\* What a generation and what an evaluation find missing.
LEMMA FoundMissing ==
    ASSUME NEW p, NEW g, NEW model, NEW label, NEW none,
           FindMissing(p, g, {"model", "artifact"}, model, "zero", label, none)
    PROVE  LET todo == {"model", "artifact"} \ Recorded(Of(g)) IN
           /\ missing' = [missing EXCEPT ![p] =
                             [k \in todo |-> IF k = "model" THEN model ELSE "zero"]]
           /\ Goto(p, IF todo = {} THEN none ELSE label)
           /\ UNCHANGED <<ledger, files, answer, held, on, verdict, world, evaluators>>
<1> DEFINE todo == {"model", "artifact"} \ Recorded(Of(g))
           amount == [[k \in Categories |-> "zero"] EXCEPT !["model"] = model,
                                                           !["storage"] = "zero"]
           found == [k \in todo |-> amount[k]]
<1>1. found = [k \in todo |-> IF k = "model" THEN model ELSE "zero"]
  <2>1. todo \subseteq Categories /\ "storage" \in Categories
    BY DEF Categories, BeforeBarrier
  <2>2. \A k \in todo : amount[k] = IF k = "model" THEN model ELSE "zero"
    BY <2>1
  <2> HIDE DEF amount, todo
  <2> QED BY <2>2
<1>2. /\ missing' = [missing EXCEPT ![p] = found]
      /\ Goto(p, IF todo = {} THEN none ELSE label)
      /\ UNCHANGED <<ledger, files, answer, held, on, verdict, world, evaluators>>
  BY DEF FindMissing
<1> QED BY <1>1, <1>2

LEMMA CostsFound ==
    ASSUME NEW o \in Operators, FindCosts(o)
    PROVE  LET todo == Categories \ Recorded(Of(on[o])) IN
           /\ pc[o] = "costs"
           /\ Goto(o, IF todo = {} THEN "start_results" ELSE "fill_costs")
           /\ UNCHANGED <<ledger, files, answer, held, on, verdict, world, evaluators>>
           /\ \E found : /\ missing' = [missing EXCEPT ![o] = found]
                         /\ found = [k \in todo |-> found[k]]
                         /\ \A k \in todo :
                               \/ k = "model" /\ found[k] \in {"zero", "unknown"}
                               \/ k = "storage" /\ found[k] \in Measures
                               \/ k \notin {"model", "storage"} /\ found[k] = "zero"
<1> DEFINE g == on[o]
           todo == Categories \ Recorded(Of(g))
           model == IF Of(g).call = "none" THEN "zero" ELSE "unknown"
<1>1. PICK storage \in Measures :
          FindMissing(o, g, Categories, model, storage, "fill_costs", "start_results")
  BY DEF FindCosts
<1> DEFINE amount == [[k \in Categories |-> "zero"] EXCEPT !["model"] = model,
                                                           !["storage"] = storage]
           found == [k \in todo |-> amount[k]]
<1>2. /\ missing' = [missing EXCEPT ![o] = found]
      /\ Goto(o, IF todo = {} THEN "start_results" ELSE "fill_costs")
      /\ UNCHANGED <<ledger, files, answer, held, on, verdict, world, evaluators>>
  BY <1>1 DEF FindMissing
<1>3. ASSUME NEW k \in todo
      PROVE  \/ k = "model" /\ amount[k] \in {"zero", "unknown"}
             \/ k = "storage" /\ amount[k] \in Measures
             \/ k \notin {"model", "storage"} /\ amount[k] = "zero"
  BY DEF Categories, BeforeBarrier
<1>4. pc[o] = "costs"
  BY DEF FindCosts
<1> HIDE DEF amount, todo
<1>5. found = [k \in todo |-> found[k]] /\ \A k \in todo : found[k] = amount[k]
  OBVIOUS
<1> HIDE DEF found
<1> QED BY <1>2, <1>3, <1>4, <1>5 DEF todo

LEMMA ReplayAppends ==
    ASSUME NEW o \in Operators, NEW event \in DOMAIN Replays, ReplayEvent(o, event)
    PROVE  /\ pc[o] = Replays[event]
           /\ \E amount \in IF event = "artifact" THEN Measures ELSE {transaction[on[o]]} :
                  AppendOnly(o, on[o], Accepted(Of(on[o]), event, amount),
                             Replayed(Of(on[o]), event, amount),
                             AfterReplay[event], "crash_recovery")
  BY DEF ReplayEvent

-----------------------------------------------------------------------------
(* The steps of a generating process *)

LEMMA GenerateKeeps ==
    ASSUME CallInv, NEW g \in Generators, Generate(g),
           ~Consume(g), ~BeginCall(g), ~Provider(g)
    PROVE  Keeps(g)
<1> g \in Processes
  BY DEF Processes
<1>1. CASE Begin(g) \/ RecordPreparation(g)
  BY <1>1, AppendKeeps DEF Begin, RecordPreparation, AppendOnly, Calling
<1>2. CASE StartGeneration(g)
  BY <1>2, AppendKeeps DEF StartGeneration, Calling
<1>3. CASE CannotCall(g) \/ LookForArtifact(g) \/ LookForPhase(g)
  BY <1>3, LookKeeps DEF CannotCall, LookForArtifact, LookForPhase, Calling
<1>4. CASE Persist(g)
  BY <1>4 DEF Persist, Goto, Keeps, Calling, CallInv, world
<1>5. CASE SubmitCandidate(g) \/ EndCall(g) \/ EndGeneration(g)
  BY <1>5, AppendKeeps DEF SubmitCandidate, EndCall, EndGeneration, AppendOnly, Calling
<1>12. CASE RecordArtifact(g)
  BY <1>12, ArtifactAppends, AppendKeeps DEF AppendOnly, Calling
<1>6. CASE RecordModelCost(g)
  BY <1>6, AppendKeeps DEF RecordModelCost, AfterCost, AppendOnly, Calling
<1>7. CASE CheckGeneration(g)
  BY <1>7 DEF CheckGeneration, Goto, Keeps, Calling, CallInv, files
<1>8. CASE ClosePhase(g) \/ CrashGeneration(g)
  BY <1>8, AppendKeeps DEF ClosePhase, CrashGeneration, AppendOnly, Calling
<1>9. CASE EnsureCosts(g)
  BY <1>9 DEF EnsureCosts, FindMissing, Goto, Keeps, Calling, CallInv, files, world
<1>10. CASE FillGenerationCosts(g)
  BY <1>10, AppendKeeps DEF FillGenerationCosts, AppendMissing, Calling
<1>11. CASE DisposeGeneration(g)
  BY <1>11, AppendKeeps, LookKeeps DEF DisposeGeneration, AppendOnly, Calling
<1> QED
  BY <1>1, <1>2, <1>3, <1>4, <1>5, <1>6, <1>7, <1>8, <1>9, <1>10, <1>11, <1>12
  DEF Generate

(* The steps of an operator *)

LEMMA RecoveryKeeps ==
    ASSUME CallInv, NEW o \in Operators, Recovery(o)
    PROVE  Keeps(o)
<1> o \in Processes
  BY DEF Processes
<1>1. ASSUME NEW g \in Generators, Enter(o, g, "recover")
      PROVE  Keeps(o)
  BY <1>1 DEF Enter, Goto, Keeps, Calling, CallInv, files, world
<1>2. CASE StartRecovery(o)
  BY <1>2, AppendKeeps, LookKeeps DEF StartRecovery, AppendOnly, Calling
<1>3. ASSUME NEW event \in DOMAIN Replays, LookForEvent(o, event)
      PROVE  Keeps(o)
  <2>1. /\ Replays[event] \notin Calling
        /\ AfterReplay[event] \notin Calling
    BY <1>3 DEF Replays, AfterReplay, Calling
  <2> QED
    BY <1>3, <2>1, LookKeeps DEF LookForEvent, Calling
<1>4. ASSUME NEW event \in DOMAIN Replays, ReplayEvent(o, event)
      PROVE  Keeps(o)
  <2>1. AfterReplay[event] \notin Calling
    BY <1>4 DEF Replays, AfterReplay, Calling
  <2>2. PICK amount : Append(o, on[o], Accepted(Of(on[o]), event, amount),
                             Replayed(Of(on[o]), event, amount),
                             AfterReplay[event], "crash_recovery")
    BY <1>4, ReplayAppends DEF AppendOnly
  <2> QED
    BY <2>1, <2>2, AppendKeeps DEF Calling
<1>5. CASE CheckSpend(o)
  BY <1>5, AppendKeeps, LookKeeps DEF CheckSpend, AppendOnly, Calling
<1>6. CASE CheckWall(o)
  BY <1>6 DEF CheckWall, Goto, Keeps, Calling, CallInv, files
<1>7. CASE CrashRecovery(o) \/ CheckReservation(o)
  BY <1>7, AppendKeeps, LookKeeps
  DEF CrashRecovery, CheckReservation, AppendOnly, Calling
<1> QED
  BY <1>1, <1>2, <1>3, <1>4, <1>5, <1>6, <1>7 DEF Recovery

LEMMA EvaluationKeeps ==
    ASSUME CallInv, NEW o \in Operators, Evaluation(o)
    PROVE  Keeps(o)
<1> o \in Processes
  BY DEF Processes
<1>1. ASSUME NEW g \in Generators, Enter(o, g, "evaluate")
      PROVE  Keeps(o)
  BY <1>1 DEF Enter, Goto, Keeps, Calling, CallInv, files, world
<1>2. CASE StartEvaluation(o)
  BY <1>2 DEF StartEvaluation, Goto, Keeps, Calling, CallInv, files, world
<1>3. CASE TakeCapability(o) \/ RunDifferential(o) \/ FailEvaluation(o)
  BY <1>3, LookKeeps DEF TakeCapability, RunDifferential, FailEvaluation, Calling
<1>4. CASE StartDifferential(o) \/ EndDifferential(o) \/ StartResults(o)
  BY <1>4, AppendKeeps
  DEF StartDifferential, EndDifferential, StartResults, AppendEvaluation, Calling
<1>5. CASE CloseDifferential(o)
  BY <1>5, AppendKeeps DEF CloseDifferential, AppendEvaluation, Calling
<1>10. CASE RecordSandbox(o) \/ RecordStorage(o)
  BY <1>10, MeasureAppends, AppendKeeps DEF AppendEvaluation, Calling
<1>6. CASE FindCosts(o)
  BY <1>6 DEF FindCosts, FindMissing, Goto, Keeps, Calling, CallInv, files, world
<1>7. CASE FillCosts(o)
  BY <1>7, AppendKeeps DEF FillCosts, AppendMissing, Calling
<1>8. ASSUME NEW file \in {"private", "public"}, WriteResult(o, file)
      PROVE  Keeps(o)
  BY <1>8 DEF WriteResult, WriteRecord, Goto, Keeps, Calling, CallInv, world
<1>9. CASE EndResults(o) \/ EndAttempt(o) \/ CrashEvaluation(o)
  BY <1>9, AppendKeeps
  DEF EndResults, EndAttempt, CrashEvaluation, AppendEvaluation, Calling
<1> QED
  BY <1>1, <1>2, <1>3, <1>4, <1>5, <1>6, <1>7, <1>8, <1>9, <1>10 DEF Evaluation

-----------------------------------------------------------------------------
(* The three steps that lead to a call *)

LEMMA ConsumeCalls ==
    ASSUME CallInv, NEW g \in Generators, Consume(g)
    PROVE  CallInv'
<1> USE AttemptAssumption DEF CallInv, Calling
<1>1. calls' = calls
  BY DEF Consume, world
<1>2. CASE consumed[CaseOf[g]] = NoOne
  <2>1. \A h \in Generators : pc[h] \in Calling => CaseOf[h] # CaseOf[g]
    BY <1>2
  <2>2. /\ pc' \in {[pc EXCEPT ![g] = label] : label \in {"start_call", "crash"}}
        /\ consumed' = [consumed EXCEPT ![CaseOf[g]] = g]
    BY <1>2 DEF Consume, Goto
  <2> QED
    BY <1>1, <1>2, <2>1, <2>2 DEF Processes
<1>3. CASE consumed[CaseOf[g]] # NoOne
  BY <1>1, <1>3 DEF Consume, Goto, Processes
<1> QED
  BY <1>2, <1>3

LEMMA BeginCallCalls ==
    ASSUME CallInv, NEW g \in Generators, BeginCall(g)
    PROVE  CallInv'
<1>1. /\ UNCHANGED <<consumed, calls>>
      /\ pc[g] \in Calling
      /\ \E label \in {"provider", "fail"} : pc' = [pc EXCEPT ![g] = label]
  BY DEF BeginCall, AppendOnly, Append, Goto, Calling, files
<1> QED
  BY <1>1 DEF CallInv, Calling, Processes

LEMMA ProviderCalls ==
    ASSUME CallInv, NEW g \in Generators, Provider(g)
    PROVE  CallInv'
<1> USE AttemptAssumption DEF CallInv, Calling
<1>1. consumed' = consumed
  BY DEF Provider, files
<1>2. \E n \in {0, 1} : calls' = [calls EXCEPT ![CaseOf[g]] = n]
  <2>1. calls[CaseOf[g]] = 0
    BY DEF Provider
  <2>2. CASE Of(g) # NoAttempt
    BY <2>1, <2>2 DEF Provider
  <2>3. CASE Of(g) = NoAttempt
    BY <2>1, <2>3 DEF Provider
  <2> QED
    BY <2>2, <2>3
<1>3. \E label \in {"persist", "finish_call"} : pc' = [pc EXCEPT ![g] = label]
  BY DEF Provider, Goto
<1>4. consumed[CaseOf[g]] = g /\ g # NoOne
  BY DEF Provider
<1>5. \A h \in Generators \ {g} : pc[h] \in Calling => CaseOf[h] # CaseOf[g]
  BY <1>4
<1>6. calls' \in [Cases -> 0 .. 1] /\ \A d \in Cases : d # CaseOf[g] => calls'[d] = calls[d]
  BY <1>2
<1>7. /\ pc' = [p \in Processes |-> pc'[p]]
      /\ pc'[g] \notin Calling
      /\ \A h \in Generators \ {g} : pc'[h] = pc[h]
  BY <1>3 DEF Processes
<1> QED
  BY <1>1, <1>4, <1>5, <1>6, <1>7

-----------------------------------------------------------------------------

LEMMA StepCalls == CallInv /\ [RunnerNext]_vars => CallInv'
<1> SUFFICES ASSUME CallInv, [RunnerNext]_vars
             PROVE  CallInv'
  OBVIOUS
<1> Generators \subseteq Processes /\ Operators \subseteq Processes
  BY DEF Processes
<1>1. ASSUME NEW g \in Generators, Generate(g)
      PROVE  CallInv'
  BY <1>1, ConsumeCalls, BeginCallCalls, ProviderCalls, GenerateKeeps, KeepsCalls
<1>2. ASSUME NEW o \in Operators, Recovery(o) \/ Evaluation(o)
      PROVE  CallInv'
  BY <1>2, RecoveryKeeps, EvaluationKeeps, KeepsCalls
<1>3. ASSUME NEW p \in Processes, Kill(p)
      PROVE  CallInv'
  BY <1>3, KeepsCalls DEF Kill, Goto, Keeps, Calling, CallInv, files
<1>4. CASE Freeze
  BY <1>4 DEF Freeze, CallInv, files, world
<1>5. CASE LoseLedger
  BY <1>5 DEF LoseLedger, CallInv, files
<1>6. CASE UNCHANGED vars
  BY <1>6 DEF vars, CallInv, files, world
<1> QED
  BY <1>1, <1>2, <1>3, <1>4, <1>5, <1>6 DEF RunnerNext

\* The runner calls the provider at most once for a case: with several processes for
\* it, with kills and recoveries, and also if the ledger is deleted and made again.
THEOREM CaseCalledOnce == RunnerSpec => []OneCallPerCase
<1>1. CallInv => OneCallPerCase
  BY DEF CallInv, OneCallPerCase
<1> QED
  BY InitCalls, StepCalls, <1>1, PTL DEF RunnerSpec

-----------------------------------------------------------------------------
(* One call in doubt *)

IsAttempt(a) == a = [k \in DOMAIN NoAttempt |-> a[k]]

UnmatchedInv ==
    /\ attempts = [c \in Cases |-> attempts[c]]
    /\ \A c \in Cases : IsAttempt(attempts[c])
    /\ OneUnmatched

\* What an event makes of attempt a, unless it begins a call.
Follows(a, b) == IsAttempt(b) /\ (Unmatched(b) => Unmatched(a))

LEMMA OfIsAttempt ==
    ASSUME UnmatchedInv, NEW g, CaseOf[g] \in Cases
    PROVE  IsAttempt(Of(g)) /\ (Unmatched(Of(g)) => Unmatched(attempts[CaseOf[g]]))
  BY DEF UnmatchedInv, Of, IsAttempt, NoAttempt, Unmatched

LEMMA EventsFollow ==
    ASSUME NEW a, IsAttempt(a)
    PROVE  /\ \A phase : Follows(a, StartPhase(a, phase))
           /\ \A status : Follows(a, FinishPhase(a, status))
           /\ Follows(a, Submit(a))
           /\ \A status \in {"succeeded", "failed"} : \A usage :
                  Follows(a, FinishCall(a, status, usage))
           /\ \A category, amount : Follows(a, RecordCost(a, category, amount))
           /\ \A status : Follows(a, Dispose(a, status))
           /\ \A outcome : Follows(a, FinishAttempt(a, outcome))
           /\ Follows(a, Crash(a))
           /\ Follows(a, Recover(a))
<1> USE DEF Follows, IsAttempt, NoAttempt, Unmatched
<1>1. ASSUME NEW phase  PROVE Follows(a, StartPhase(a, phase))
  BY DEF StartPhase
<1>2. ASSUME NEW status  PROVE Follows(a, FinishPhase(a, status))
  BY DEF FinishPhase
<1>3. Follows(a, Submit(a))
  BY DEF Submit
<1>4. ASSUME NEW status \in {"succeeded", "failed"}, NEW usage
      PROVE  Follows(a, FinishCall(a, status, usage))
  BY DEF FinishCall
<1>5. ASSUME NEW category, NEW amount  PROVE Follows(a, RecordCost(a, category, amount))
  BY DEF RecordCost
<1>6. ASSUME NEW status  PROVE Follows(a, Dispose(a, status))
  BY DEF Dispose
<1>7. ASSUME NEW outcome  PROVE Follows(a, FinishAttempt(a, outcome))
  BY DEF FinishAttempt
<1>8. Follows(a, Crash(a)) /\ Follows(a, Recover(a))
  BY DEF Crash, Recover
<1> HIDE DEF Follows, IsAttempt, NoAttempt, Unmatched
<1> QED
  BY <1>1, <1>2, <1>3, <1>4, <1>5, <1>6, <1>7, <1>8

LEMMA AppendMatched ==
    ASSUME UnmatchedInv, NEW p, NEW g, NEW accepted, NEW new, NEW next, NEW rejected,
           Append(p, g, accepted, new, next, rejected),
           IsAttempt(Of(g)) => Follows(Of(g), new)
    PROVE  UnmatchedInv'
<1>1. CASE attempts' = attempts
  BY <1>1 DEF UnmatchedInv, OneUnmatched
<1>2. CASE attempts' = [attempts EXCEPT ![CaseOf[g]] = new] /\ CaseOf[g] \in Cases
  BY <1>2, OfIsAttempt DEF UnmatchedInv, OneUnmatched, Follows
<1>3. CASE attempts' = [attempts EXCEPT ![CaseOf[g]] = new] /\ CaseOf[g] \notin Cases
  BY <1>3 DEF UnmatchedInv, OneUnmatched
<1> QED
  BY <1>1, <1>2, <1>3 DEF Append

LEMMA SameMatched ==
    ASSUME UnmatchedInv, attempts' = attempts
    PROVE  UnmatchedInv'
  BY DEF UnmatchedInv, OneUnmatched

LEMMA NoAttemptMatched == IsAttempt(NoAttempt) /\ ~Unmatched(NoAttempt)
  BY DEF IsAttempt, NoAttempt, Unmatched

LEMMA InitMatched == RunnerInit => UnmatchedInv
<1> SUFFICES ASSUME attempts = [c \in Cases |-> NoAttempt]
             PROVE  UnmatchedInv
  BY DEF RunnerInit, Blank, LedgerInit
<1> QED
  BY NoAttemptMatched DEF UnmatchedInv, OneUnmatched

\* A call begins in the ledger only if none is in doubt there.
LEMMA BeginCallMatched ==
    ASSUME UnmatchedInv, NEW g \in Generators, BeginCall(g)
    PROVE  UnmatchedInv'
<1>1. CASE attempts' = attempts
  BY <1>1, SameMatched
<1>2. CASE PreflightCall(g) /\ attempts' = [attempts EXCEPT ![CaseOf[g]] = StartCall(Of(g))]
  <2>1. CaseOf[g] \in Cases /\ IsAttempt(Of(g))
    BY AttemptAssumption, OfIsAttempt
  <2>2. IsAttempt(StartCall(Of(g)))
    BY <2>1 DEF IsAttempt, NoAttempt, StartCall
  <2> QED
    BY <1>2, <2>1, <2>2 DEF UnmatchedInv, OneUnmatched, PreflightCall
<1> QED
  BY <1>1, <1>2 DEF BeginCall, AppendOnly, Append

LEMMA GenerateMatched ==
    ASSUME UnmatchedInv, NEW g \in Generators, Generate(g), ~BeginCall(g)
    PROVE  UnmatchedInv'
<1>1. CASE Begin(g)
  <2>1. Follows(Of(g), StartAttempt(g))
    BY DEF Follows, IsAttempt, Unmatched, StartAttempt, NoAttempt
  <2> QED
    BY <1>1, <2>1, AppendMatched DEF Begin, AppendOnly
<1>2. CASE RecordPreparation(g) \/ RecordModelCost(g)
  BY <1>2, AppendMatched, EventsFollow DEF RecordPreparation, RecordModelCost, AppendOnly
<1>11. CASE RecordArtifact(g)
  BY <1>11, ArtifactAppends, AppendMatched, EventsFollow DEF AppendOnly
<1>3. CASE StartGeneration(g)
  BY <1>3, AppendMatched, EventsFollow DEF StartGeneration
<1>4. CASE EndGeneration(g) \/ ClosePhase(g)
  BY <1>4, AppendMatched, EventsFollow DEF EndGeneration, ClosePhase, AppendOnly
<1>5. CASE SubmitCandidate(g) \/ CrashGeneration(g)
  BY <1>5, AppendMatched, EventsFollow DEF SubmitCandidate, CrashGeneration, AppendOnly
<1>6. CASE EndCall(g)
  BY <1>6, AppendMatched, EventsFollow DEF EndCall, CallStatus, AppendOnly
<1>7. CASE FillGenerationCosts(g)
  BY <1>7, AppendMatched, EventsFollow DEF FillGenerationCosts, AppendMissing
<1>8. CASE DisposeGeneration(g)
  BY <1>8, AppendMatched, EventsFollow, SameMatched
  DEF DisposeGeneration, AppendOnly, Look, ledger
<1>9. CASE CannotCall(g) \/ LookForArtifact(g) \/ LookForPhase(g) \/ EnsureCosts(g)
  BY <1>9, SameMatched
  DEF CannotCall, LookForArtifact, LookForPhase, EnsureCosts, FindMissing, Look, ledger
<1>10. CASE Consume(g) \/ Provider(g) \/ Persist(g) \/ CheckGeneration(g)
  BY <1>10, SameMatched DEF Consume, Provider, Persist, CheckGeneration, ledger
<1> QED
  BY <1>1, <1>2, <1>3, <1>4, <1>5, <1>6, <1>7, <1>8, <1>9, <1>10, <1>11 DEF Generate

LEMMA RecoveryMatched ==
    ASSUME UnmatchedInv, NEW o \in Operators, Recovery(o)
    PROVE  UnmatchedInv'
<1>1. ASSUME NEW g \in Generators, Enter(o, g, "recover")
      PROVE  UnmatchedInv'
  BY <1>1, SameMatched DEF Enter, ledger
<1>2. CASE StartRecovery(o) \/ CheckSpend(o)
  BY <1>2, AppendMatched, EventsFollow, SameMatched
  DEF StartRecovery, CheckSpend, AppendOnly, Look, ledger
<1>3. ASSUME NEW event \in DOMAIN Replays, LookForEvent(o, event)
      PROVE  UnmatchedInv'
  BY <1>3, SameMatched DEF LookForEvent, Look, ledger
<1>4. ASSUME NEW event \in DOMAIN Replays, ReplayEvent(o, event)
      PROVE  UnmatchedInv'
  <2> DEFINE a == Of(on[o])
  <2>1. PICK amount : Append(o, on[o], Accepted(a, event, amount),
                             Replayed(a, event, amount), AfterReplay[event],
                             "crash_recovery")
    BY <1>4, ReplayAppends DEF AppendOnly
  <2>2. IsAttempt(a) => Follows(a, Replayed(a, event, amount))
    BY <1>4, EventsFollow DEF Replayed, Replays
  <2> QED
    BY <2>1, <2>2, AppendMatched
<1>5. CASE CheckWall(o) \/ CheckReservation(o)
  BY <1>5, SameMatched DEF CheckWall, CheckReservation, Look, ledger
<1>6. CASE CrashRecovery(o)
  BY <1>6, AppendMatched, EventsFollow DEF CrashRecovery, AppendOnly
<1> QED
  BY <1>1, <1>2, <1>3, <1>4, <1>5, <1>6 DEF Recovery

LEMMA EvaluationMatched ==
    ASSUME UnmatchedInv, NEW o \in Operators, Evaluation(o)
    PROVE  UnmatchedInv'
<1>1. ASSUME NEW g \in Generators, Enter(o, g, "evaluate")
      PROVE  UnmatchedInv'
  BY <1>1, SameMatched DEF Enter, ledger
<1>2. CASE \/ StartEvaluation(o) \/ TakeCapability(o) \/ RunDifferential(o)
           \/ FailEvaluation(o) \/ FindCosts(o)
  BY <1>2, SameMatched
  DEF StartEvaluation, TakeCapability, RunDifferential, FailEvaluation, FindCosts,
      FindMissing, Look, ledger
<1>3. CASE StartDifferential(o) \/ StartResults(o)
  BY <1>3, AppendMatched, EventsFollow
  DEF StartDifferential, StartResults, AppendEvaluation
<1>4. CASE EndDifferential(o) \/ CloseDifferential(o) \/ EndResults(o)
  BY <1>4, AppendMatched, EventsFollow
  DEF EndDifferential, CloseDifferential, EndResults, AppendEvaluation
<1>5. CASE RecordSandbox(o) \/ RecordStorage(o)
  <2>1. PICK k, amount, next :
             Append(o, on[o], MayRecordCost(Of(on[o]), k, amount),
                    RecordCost(Of(on[o]), k, amount), next, "fail_evaluation")
    BY <1>5, MeasureAppends DEF AppendEvaluation
  <2> QED BY <2>1, AppendMatched, EventsFollow
<1>6. CASE FillCosts(o)
  BY <1>6, AppendMatched, EventsFollow DEF FillCosts, AppendMissing
<1>7. ASSUME NEW file \in {"private", "public"}, WriteResult(o, file)
      PROVE  UnmatchedInv'
  BY <1>7, SameMatched DEF WriteResult, WriteRecord, ledger
<1>8. CASE EndAttempt(o) \/ CrashEvaluation(o)
  BY <1>8, AppendMatched, EventsFollow DEF EndAttempt, CrashEvaluation, AppendEvaluation
<1> QED
  BY <1>1, <1>2, <1>3, <1>4, <1>5, <1>6, <1>7, <1>8 DEF Evaluation

LEMMA StepMatched == UnmatchedInv /\ [RunnerNext]_vars => UnmatchedInv'
<1> SUFFICES ASSUME UnmatchedInv, [RunnerNext]_vars
             PROVE  UnmatchedInv'
  OBVIOUS
<1>1. ASSUME NEW g \in Generators, Generate(g)
      PROVE  UnmatchedInv'
  BY <1>1, BeginCallMatched, GenerateMatched
<1>2. ASSUME NEW o \in Operators, Recovery(o) \/ Evaluation(o)
      PROVE  UnmatchedInv'
  BY <1>2, RecoveryMatched, EvaluationMatched
<1>3. ASSUME NEW p \in Processes, Kill(p)
      PROVE  UnmatchedInv'
  BY <1>3, SameMatched DEF Kill, ledger
<1>4. CASE Freeze
  BY <1>4, SameMatched DEF Freeze
<1>5. CASE LoseLedger
  BY <1>5, NoAttemptMatched DEF LoseLedger, UnmatchedInv, OneUnmatched
<1>6. CASE UNCHANGED vars
  BY <1>6, SameMatched DEF vars, ledger
<1> QED
  BY <1>1, <1>2, <1>3, <1>4, <1>5, <1>6 DEF RunnerNext

\* At most one call of the whole campaign is in doubt, begun in the ledger and without
\* an end: the check for others and the append are one step under the ledger's lock.
THEOREM OneCallInDoubt == RunnerSpec => []OneUnmatched
<1>1. UnmatchedInv => OneUnmatched
  BY DEF UnmatchedInv
<1> QED
  BY InitMatched, StepMatched, <1>1, PTL DEF RunnerSpec

-----------------------------------------------------------------------------
(***************************************************************************)
(* What the ledger commits to is on file.  Files are only ever added, each *)
(* once.  A candidate enters the ledger from two places, the process that  *)
(* called and a recovery, and either has the transaction behind it; an     *)
(* attempt ends at the operator that wrote both results, and no other      *)
(* operator can have written one of them.                                  *)
(***************************************************************************)

Files == {"private", "public"}

\* The labels of evaluate_v02_frozen_case at which it has an outcome.
Evaluating ==
    {"capability", "start_differential", "differential", "end_differential", "sandbox",
     "storage", "fail_evaluation", "close_differential", "costs", "fill_costs",
     "start_results", "private", "public", "end_results", "finish", "crash_evaluation"}

Wrote(o, file) == results[on[o]][file] = ResultRecord(file, verdict[o])

\* The attempt that the ledger has for case c is on file.
OnFile(c) ==
    LET a == attempts[c] IN
    /\ IsAttempt(a)
    /\ a.id # NoOne => a.id \in Generators /\ CaseOf[a.id] = c
    /\ a.candidate => a.id # NoOne /\ Kept(a.id)
    /\ a.status = "finished" =>
           /\ a.id # NoOne /\ a.outcome \in Outcomes
           /\ \A file \in Files : results[a.id][file] = ResultRecord(file, a.outcome)

\* What a generating process, and an operator, has behind it.
GeneratorInv(g) == /\ pc[g] = "persist" => answer[g].usage \in Usages
                   /\ pc[g] = "submit" => Kept(g)

OperatorInv(o) ==
    /\ pc[o] # "idle" => on[o] \in Generators
    /\ pc[o] \in {"candidate", "replay_candidate"} => Kept(on[o])
    /\ pc[o] \in Evaluating => verdict[o] \in Outcomes
    /\ pc[o] \in {"public", "end_results", "finish"} => Wrote(o, "private")
    /\ pc[o] \in {"end_results", "finish"} => Wrote(o, "public")

\* The variables are functions on what they are indexed by.
Shapes == /\ attempts = [c \in Cases |-> attempts[c]]
          /\ pc = [p \in Processes |-> pc[p]]
          /\ transaction = [g \in Generators |-> transaction[g]]
          /\ results = [g \in Generators |-> [file \in Files |-> results[g][file]]]
          /\ answer = [g \in Generators |-> answer[g]]
          /\ on = [o \in Operators |-> on[o]]
          /\ verdict = [o \in Operators |-> verdict[o]]

FileInv == /\ Shapes
           /\ \A c \in Cases : OnFile(c)
           /\ \A g \in Generators : GeneratorInv(g)
           /\ \A o \in Operators : OperatorInv(o)

LEMMA InitFiles == RunnerInit => FileInv
<1> SUFFICES ASSUME RunnerInit PROVE FileInv
  OBVIOUS
<1>1. Shapes
  BY DEF RunnerInit, Blank, LedgerInit, Shapes, Files, Processes
<1>2. \A c \in Cases : OnFile(c)
  BY NoAttemptMatched DEF RunnerInit, Blank, LedgerInit, OnFile, NoAttempt
<1>3. \A p \in Processes : pc[p] = "idle"
  BY DEF RunnerInit
<1> QED BY <1>1, <1>2, <1>3 DEF FileInv, GeneratorInv, OperatorInv, Evaluating, Processes

\* A written result is a result.
LEMMA RecordIsThere ==
    ASSUME NEW file, NEW outcome \in Outcomes PROVE ResultRecord(file, outcome) # NoFile
BY RunnerAssumption DEF ResultRecord

-----------------------------------------------------------------------------
(* Events that commit to nothing new *)

Endures(a, b) ==
    /\ IsAttempt(b) /\ b.id = a.id
    /\ b.candidate => a.candidate
    /\ b.status = "finished" => a.status = "finished" /\ b.outcome = a.outcome

LEMMA EventsEndure ==
    ASSUME NEW a, IsAttempt(a)
    PROVE  /\ \A phase : Endures(a, StartPhase(a, phase))
           /\ \A status : Endures(a, FinishPhase(a, status))
           /\ Endures(a, StartCall(a))
           /\ \A status, usage : Endures(a, FinishCall(a, status, usage))
           /\ \A category, amount : Endures(a, RecordCost(a, category, amount))
           /\ \A status : Endures(a, Dispose(a, status))
           /\ Endures(a, Crash(a))
           /\ Endures(a, Recover(a))
<1> USE DEF Endures, IsAttempt, NoAttempt
<1>1. ASSUME NEW phase  PROVE Endures(a, StartPhase(a, phase))
  BY DEF StartPhase
<1>2. ASSUME NEW status  PROVE Endures(a, FinishPhase(a, status))
  BY DEF FinishPhase
<1>3. Endures(a, StartCall(a))
  BY DEF StartCall
<1>4. ASSUME NEW status, NEW usage  PROVE Endures(a, FinishCall(a, status, usage))
  BY DEF FinishCall
<1>5. ASSUME NEW category, NEW amount  PROVE Endures(a, RecordCost(a, category, amount))
  BY DEF RecordCost
<1>6. ASSUME NEW status  PROVE Endures(a, Dispose(a, status))
  BY DEF Dispose
<1>7. Endures(a, Crash(a)) /\ Endures(a, Recover(a))
  BY DEF Crash, Recover
<1> HIDE DEF Endures, IsAttempt, NoAttempt
<1> QED BY <1>1, <1>2, <1>3, <1>4, <1>5, <1>6, <1>7

\* The ledger commits to nothing that it did not commit to before.
LedgerEndures ==
    /\ attempts' = [c \in Cases |-> attempts'[c]]
    /\ \A c \in Cases : \/ Endures(attempts[c], attempts'[c])
                        \/ Endures(NoAttempt, attempts'[c])

LEMMA SameEndures == ASSUME FileInv, attempts' = attempts PROVE LedgerEndures
BY DEF FileInv, Shapes, OnFile, LedgerEndures, Endures

LEMMA AppendEndures ==
    ASSUME FileInv, NEW p, NEW g \in Generators, NEW accepted, NEW new, NEW next,
           NEW rejected, Append(p, g, accepted, new, next, rejected),
           IsAttempt(Of(g)) => Endures(Of(g), new)
    PROVE  LedgerEndures
<1>1. CASE attempts' = attempts
  BY <1>1, SameEndures
<1>2. CASE attempts' = [attempts EXCEPT ![CaseOf[g]] = new]
  <2>1. CaseOf[g] \in Cases /\ Of(g) \in {attempts[CaseOf[g]], NoAttempt}
    BY AttemptAssumption DEF Of
  <2>2. IsAttempt(Of(g)) /\ Endures(Of(g), new)
    BY <2>1, NoAttemptMatched DEF FileInv, OnFile
  <2>3. \A c \in Cases : Endures(attempts[c], attempts[c])
    BY DEF FileInv, OnFile, Endures
  <2> QED BY <1>2, <2>1, <2>2, <2>3 DEF FileInv, Shapes, LedgerEndures
<1> QED BY <1>1, <1>2 DEF Append

\* What is committed to stays on file while no file changes.
LEMMA EnduresOnFile ==
    ASSUME FileInv, LedgerEndures, UNCHANGED <<transaction, results>>
    PROVE  \A c \in Cases : OnFile(c)'
<1> SUFFICES ASSUME NEW c \in Cases PROVE OnFile(c)'
  OBVIOUS
<1>1. CASE Endures(attempts[c], attempts'[c])
  BY <1>1 DEF FileInv, OnFile, Endures, Kept
<1>2. CASE Endures(NoAttempt, attempts'[c])
  BY <1>2 DEF OnFile, Endures, NoAttempt
<1> QED BY <1>1, <1>2 DEF LedgerEndures
-----------------------------------------------------------------------------
(* The steps of a generating process *)

\* A step that writes no file and commits to nothing, in process g.
Quiet(g) ==
    /\ LedgerEndures
    /\ UNCHANGED <<transaction, results, answer, on, verdict>>
    /\ pc' = [pc EXCEPT ![g] = pc'[g]]
    /\ pc'[g] \notin {"persist", "submit"}

LEMMA QuietFiles ==
    ASSUME FileInv, NEW g \in Generators, Quiet(g)
    PROVE  FileInv'
<1> USE RunnerAssumption DEF FileInv, Quiet
<1>1. Shapes'
  BY DEF Shapes, LedgerEndures, Processes
<1>2. \A c \in Cases : OnFile(c)'
  BY EnduresOnFile
<1>3. \A p \in Processes \ {g} : pc'[p] = pc[p]
  BY DEF Shapes
<1>4. ASSUME NEW h \in Generators PROVE GeneratorInv(h)'
  <2>1. CASE h = g
    BY <2>1 DEF GeneratorInv, Shapes, Processes
  <2>2. CASE h # g
    BY <1>3, <2>2 DEF GeneratorInv, Kept, Processes
  <2> QED BY <2>1, <2>2
<1>5. ASSUME NEW o \in Operators PROVE OperatorInv(o)'
  <2>1. pc'[o] = pc[o]
    BY <1>3 DEF Processes
  <2> QED BY <2>1 DEF OperatorInv, Wrote, Kept
<1> QED BY <1>1, <1>2, <1>4, <1>5

LEMMA AppendQuiet ==
    ASSUME FileInv, NEW g \in Generators, NEW accepted, NEW new, NEW next, NEW rejected,
           Append(g, g, accepted, new, next, rejected),
           \A a : IsAttempt(a) /\ a = Of(g) => Endures(a, new),
           next \notin {"persist", "submit"}, rejected \notin {"persist", "submit"},
           UNCHANGED <<answer, on, verdict>>
    PROVE  Quiet(g)
<1>1. LedgerEndures
  BY AppendEndures
<1>2. UNCHANGED <<transaction, results>>
  BY DEF Append, files
<1>3. \E label \in {next, rejected} : pc' = [pc EXCEPT ![g] = label]
  BY DEF Append, Goto
<1> QED BY <1>1, <1>2, <1>3 DEF Quiet, FileInv, Shapes, Processes

LEMMA StillQuiet ==
    ASSUME FileInv, NEW g \in Generators, NEW label, label \notin {"persist", "submit"},
           Goto(g, label), UNCHANGED <<attempts, transaction, results, answer, on, verdict>>
    PROVE  Quiet(g)
BY SameEndures DEF Quiet, Goto, FileInv, Shapes, Processes

LEMMA GenerateQuiet ==
    ASSUME FileInv, NEW g \in Generators, Generate(g),
           ~Begin(g), ~Provider(g), ~Persist(g), ~SubmitCandidate(g)
    PROVE  Quiet(g)
<1>1. CASE RecordPreparation(g) \/ RecordArtifact(g) \/ RecordModelCost(g)
  BY <1>1, AppendQuiet, EventsEndure
  DEF RecordPreparation, RecordArtifact, RecordModelCost, AfterCost, AppendOnly, locals
<1>2. CASE StartGeneration(g)
  BY <1>2, AppendQuiet, EventsEndure DEF StartGeneration, locals
<1>3. CASE BeginCall(g) \/ EndCall(g)
  BY <1>3, AppendQuiet, EventsEndure DEF BeginCall, EndCall, AppendOnly, locals
<1>4. CASE EndGeneration(g) \/ ClosePhase(g) \/ CrashGeneration(g)
  BY <1>4, AppendQuiet, EventsEndure
  DEF EndGeneration, ClosePhase, CrashGeneration, AppendOnly, locals
<1>5. CASE FillGenerationCosts(g)
  BY <1>5, AppendQuiet, EventsEndure DEF FillGenerationCosts, AppendMissing
<1>6. CASE DisposeGeneration(g)
  BY <1>6, AppendQuiet, EventsEndure, StillQuiet
  DEF DisposeGeneration, AppendOnly, Look, ledger, files, locals
<1>7. CASE CannotCall(g) \/ LookForArtifact(g) \/ LookForPhase(g)
  BY <1>7, StillQuiet
  DEF CannotCall, LookForArtifact, LookForPhase, Look, ledger, files, locals
<1>8. CASE EnsureCosts(g)
  BY <1>8, StillQuiet DEF EnsureCosts, FindMissing, ledger, files
<1>9. CASE Consume(g)
  BY <1>9, StillQuiet DEF Consume, ledger, locals
<1>10. CASE CheckGeneration(g)
  BY <1>10, StillQuiet DEF CheckGeneration, ledger, files
<1> QED
  BY <1>1, <1>2, <1>3, <1>4, <1>5, <1>6, <1>7, <1>8, <1>9, <1>10 DEF Generate

\* A step of g may also go where it has behind it what it needs there.
LEMMA OwnStep ==
    ASSUME FileInv, NEW g \in Generators, GeneratorInv(g)', Shapes',
           \A c \in Cases : OnFile(c)',
           pc' = [pc EXCEPT ![g] = pc'[g]], UNCHANGED <<results, on, verdict>>,
           \A h \in Generators : Kept(h) => Kept(h)',
           \A h \in Generators \ {g} : answer'[h] = answer[h]
    PROVE  FileInv'
<1> USE RunnerAssumption DEF FileInv
<1>1. \A p \in Processes \ {g} : pc'[p] = pc[p]
  BY DEF Shapes
<1>2. \A h \in Generators : GeneratorInv(h)'
  BY <1>1 DEF GeneratorInv, Processes
<1>3. ASSUME NEW o \in Operators PROVE OperatorInv(o)'
  <2>1. pc'[o] = pc[o]
    BY <1>1 DEF Processes
  <2>2. pc[o] \in Evaluating \cup {"candidate", "replay_candidate"} => on[o] \in Generators
    BY DEF OperatorInv, Evaluating
  <2> QED BY <2>1, <2>2 DEF OperatorInv, Wrote
<1> QED BY <1>2, <1>3

LEMMA BeginFiles ==
    ASSUME FileInv, NEW g \in Generators, Begin(g)
    PROVE  FileInv'
<1>1. /\ pc' = [pc EXCEPT ![g] = pc'[g]] /\ pc'[g] \in {"prepare", "done"}
      /\ UNCHANGED <<transaction, results, answer, on, verdict>>
  BY DEF Begin, AppendOnly, Append, Goto, files, locals, FileInv, Shapes, Processes
<1>2. Quiet(g) \/ attempts' = [attempts EXCEPT ![CaseOf[g]] = StartAttempt(g)]
  BY <1>1, SameEndures DEF Begin, AppendOnly, Append, Quiet
<1>3. CASE attempts' = [attempts EXCEPT ![CaseOf[g]] = StartAttempt(g)]
  <2>1. Shapes'
    BY <1>1, <1>3 DEF FileInv, Shapes, Processes
  <2>2. IsAttempt(StartAttempt(g)) /\ g # NoOne /\ CaseOf[g] \in Cases
    BY AttemptAssumption DEF IsAttempt, NoAttempt, StartAttempt
  <2>3. /\ StartAttempt(g).id = g /\ StartAttempt(g).candidate = FALSE
        /\ StartAttempt(g).status = "open"
    BY DEF StartAttempt, NoAttempt
  <2>4. ASSUME NEW c \in Cases PROVE OnFile(c)'
    <3>1. CASE c = CaseOf[g]
      BY <1>3, <2>2, <2>3, <3>1 DEF FileInv, Shapes, OnFile
    <3>2. CASE c # CaseOf[g]
      BY <1>1, <1>3, <3>2 DEF FileInv, Shapes, OnFile, Kept
    <3> QED BY <3>1, <3>2
  <2>5. GeneratorInv(g)'
    BY <1>1 DEF GeneratorInv
  <2> QED BY <1>1, <2>1, <2>4, <2>5, OwnStep DEF Kept
<1> QED BY <1>2, <1>3, QuietFiles

LEMMA ProviderFiles ==
    ASSUME FileInv, NEW g \in Generators, Provider(g)
    PROVE  FileInv'
<1>1. /\ UNCHANGED <<attempts, transaction, results, on, verdict>>
      /\ pc' = [pc EXCEPT ![g] = pc'[g]] /\ pc'[g] \in {"persist", "finish_call"}
      /\ answer' = [answer EXCEPT ![g] = answer'[g]]
  BY DEF Provider, Goto, ledger, files, FileInv, Shapes, Processes
<1>2. pc'[g] = "persist" => answer'[g].usage \in Usages
  BY RunnerAssumption, MeasuredIsKnown
  DEF Provider, Goto, NotSent, AnAnswer, FileInv, Shapes, Processes
<1>3. Shapes' /\ (\A c \in Cases : OnFile(c)')
  BY <1>1, SameEndures, EnduresOnFile DEF FileInv, Shapes, Processes
<1>4. GeneratorInv(g)'
  BY <1>1, <1>2 DEF GeneratorInv
<1> QED BY <1>1, <1>3, <1>4, OwnStep DEF Kept, FileInv, Shapes

LEMMA PersistFiles ==
    ASSUME FileInv, NEW g \in Generators, Persist(g)
    PROVE  FileInv'
<1>1. CASE UNCHANGED transaction /\ \E label \in {"fail", "crash"} : Goto(g, label)
  BY <1>1, StillQuiet, QuietFiles DEF Persist, ledger, locals
<1>2. CASE transaction' = [transaction EXCEPT ![g] = answer[g].usage] /\ Goto(g, "submit")
  <2>1. /\ UNCHANGED <<attempts, results, answer, on, verdict>>
        /\ pc' = [pc EXCEPT ![g] = pc'[g]] /\ pc'[g] = "submit"
    BY <1>2 DEF Persist, Goto, ledger, locals, FileInv, Shapes, Processes
  <2>2. Kept(g)' /\ \A h \in Generators : Kept(h) => Kept(h)'
    BY <1>2, RunnerAssumption DEF Persist, FileInv, GeneratorInv, Kept, Shapes
  <2>3. Shapes'
    BY <1>2, <2>1 DEF FileInv, Shapes, Processes
  <2>4. \A c \in Cases : OnFile(c)'
    BY <2>1, <2>2 DEF FileInv, OnFile
  <2>5. GeneratorInv(g)'
    BY <2>1, <2>2 DEF GeneratorInv
  <2> QED BY <2>1, <2>2, <2>3, <2>4, <2>5, OwnStep
<1> QED BY <1>1, <1>2 DEF Persist

\* A candidate that is committed to has its transaction, whoever commits it.
LEMMA SubmitOnFile ==
    ASSUME FileInv, NEW g \in Generators, Kept(g), MaySubmit(Of(g)),
           attempts' = [attempts EXCEPT ![CaseOf[g]] = Submit(Of(g))],
           UNCHANGED <<transaction, results>>
    PROVE  /\ \A c \in Cases : OnFile(c)'
           /\ attempts' = [c \in Cases |-> attempts'[c]]
<1>1. CaseOf[g] \in Cases /\ Of(g) = attempts[CaseOf[g]] /\ Of(g).id = g /\ g # NoOne
  BY AttemptAssumption DEF Of, MaySubmit, Open, NoAttempt
<1>2. IsAttempt(Of(g)) /\ Of(g).status = "open"
  BY <1>1 DEF FileInv, OnFile, MaySubmit, Open
<1>3. /\ IsAttempt(Submit(Of(g))) /\ Submit(Of(g)).id = g
      /\ Submit(Of(g)).status = "open"
  BY <1>1, <1>2 DEF Submit, IsAttempt, NoAttempt
<1>4. OnFile(CaseOf[g])'
  BY <1>1, <1>3 DEF FileInv, Shapes, OnFile, Kept
<1>5. \A c \in Cases : c # CaseOf[g] => OnFile(c)'
  BY <1>1 DEF FileInv, Shapes, OnFile, Kept
<1> QED BY <1>4, <1>5 DEF FileInv, Shapes

LEMMA SubmitFiles ==
    ASSUME FileInv, NEW g \in Generators, SubmitCandidate(g)
    PROVE  FileInv'
<1>1. /\ UNCHANGED <<transaction, results, answer, on, verdict>>
      /\ pc[g] = "submit" /\ pc' = [pc EXCEPT ![g] = pc'[g]]
      /\ pc'[g] \in {"finish_call", "crash"}
  BY DEF SubmitCandidate, AppendOnly, Append, Goto, files, locals, FileInv, Shapes, Processes
<1>2. CASE attempts' = attempts
  BY <1>1, <1>2, SameEndures, QuietFiles DEF Quiet
<1>3. CASE MaySubmit(Of(g)) /\ attempts' = [attempts EXCEPT ![CaseOf[g]] = Submit(Of(g))]
  <2>1. Kept(g)
    BY <1>1 DEF FileInv, GeneratorInv
  <2>2. Shapes' /\ (\A c \in Cases : OnFile(c)')
    BY <1>1, <1>3, <2>1, SubmitOnFile DEF FileInv, Shapes, Processes
  <2>3. GeneratorInv(g)'
    BY <1>1 DEF GeneratorInv
  <2> QED BY <1>1, <2>2, <2>3, OwnStep DEF Kept
<1> QED BY <1>2, <1>3 DEF SubmitCandidate, AppendOnly, Append
-----------------------------------------------------------------------------
(* The steps of an operator *)

\* Where an operator has something behind it that it does not have elsewhere.
Earned == {"candidate", "replay_candidate", "public", "end_results", "finish"}

\* A step that writes no file and commits to nothing, in operator o.
QuietOperator(o) ==
    /\ LedgerEndures
    /\ UNCHANGED <<transaction, results, answer, on>>
    /\ pc[o] # "idle"
    /\ pc' = [pc EXCEPT ![o] = pc'[o]] /\ pc'[o] \notin Earned
    /\ verdict' = [verdict EXCEPT ![o] = verdict'[o]]
    /\ pc'[o] \in Evaluating => verdict'[o] \in Outcomes

\* Like OwnStep, for an operator.
LEMMA OperatorStep ==
    ASSUME FileInv, NEW o \in Operators, OperatorInv(o)', Shapes',
           \A c \in Cases : OnFile(c)',
           pc' = [pc EXCEPT ![o] = pc'[o]], UNCHANGED <<transaction, answer>>,
           \A q \in Operators \ {o} : on'[q] = on[q] /\ verdict'[q] = verdict[q],
           \A g \in Generators, file \in Files :
               results[g][file] # NoFile => results'[g][file] = results[g][file]
    PROVE  FileInv'
<1> USE RunnerAssumption DEF FileInv
<1>1. \A p \in Processes \ {o} : pc'[p] = pc[p]
  BY DEF Shapes
<1>2. \A g \in Generators : GeneratorInv(g)'
  BY <1>1 DEF GeneratorInv, Kept, Processes
<1>3. ASSUME NEW q \in Operators, q # o PROVE OperatorInv(q)'
  <2>1. pc'[q] = pc[q] /\ on'[q] = on[q] /\ verdict'[q] = verdict[q] /\ OperatorInv(q)
    BY <1>1, <1>3 DEF Processes
  <2>2. ASSUME NEW file \in Files, Wrote(q, file), pc[q] \in {"public", "end_results", "finish"}
        PROVE  Wrote(q, file)'
    <3>1. verdict[q] \in Outcomes /\ on[q] \in Generators
      BY <2>1, <2>2 DEF OperatorInv, Evaluating
    <3>2. results[on[q]][file] # NoFile
      BY <2>2, <3>1, RecordIsThere DEF Wrote
    <3> QED BY <2>1, <2>2, <3>1, <3>2 DEF Wrote
  <2> QED BY <2>1, <2>2 DEF OperatorInv, Kept, Files
<1> QED BY <1>2, <1>3

LEMMA QuietOperatorFiles ==
    ASSUME FileInv, NEW o \in Operators, QuietOperator(o)
    PROVE  FileInv'
<1> USE DEF QuietOperator
<1>1. Shapes'
  BY DEF FileInv, Shapes, LedgerEndures, Processes
<1>2. \A c \in Cases : OnFile(c)'
  BY EnduresOnFile
<1>3. OperatorInv(o)'
  BY DEF FileInv, OperatorInv, Earned
<1>4. \A q \in Operators \ {o} : on'[q] = on[q] /\ verdict'[q] = verdict[q]
  BY DEF FileInv, Shapes
<1> QED BY <1>1, <1>2, <1>3, <1>4, OperatorStep

LEMMA OperatorIsSomewhere ==
    ASSUME FileInv, NEW o \in Operators, pc[o] # "idle"
    PROVE  on[o] \in Generators
BY DEF FileInv, OperatorInv

LEMMA AppendQuietOperator ==
    ASSUME FileInv, NEW o \in Operators, pc[o] # "idle", NEW accepted, NEW new, NEW next,
           NEW rejected, Append(o, on[o], accepted, new, next, rejected),
           \A a : IsAttempt(a) /\ a = Of(on[o]) => Endures(a, new),
           next \notin Earned, rejected \notin Earned,
           UNCHANGED <<answer, on, verdict>>,
           next \in Evaluating \/ rejected \in Evaluating => pc[o] \in Evaluating
    PROVE  QuietOperator(o)
<1>1. LedgerEndures
  BY AppendEndures, OperatorIsSomewhere
<1>2. UNCHANGED <<transaction, results>>
  BY DEF Append, files
<1>3. \E label \in {next, rejected} : pc' = [pc EXCEPT ![o] = label]
  BY DEF Append, Goto
<1>4. pc[o] \in Evaluating => verdict[o] \in Outcomes
  BY DEF FileInv, OperatorInv
<1> QED BY <1>1, <1>2, <1>3, <1>4 DEF QuietOperator, FileInv, Shapes, Processes

LEMMA StillQuietOperator ==
    ASSUME FileInv, NEW o \in Operators, pc[o] # "idle", NEW label, label \notin Earned,
           Goto(o, label), UNCHANGED <<attempts, transaction, results, answer, on, verdict>>,
           label \in Evaluating => pc[o] \in Evaluating
    PROVE  QuietOperator(o)
<1>1. pc[o] \in Evaluating => verdict[o] \in Outcomes
  BY DEF FileInv, OperatorInv
<1> QED BY <1>1, SameEndures DEF QuietOperator, Goto, FileInv, Shapes, Processes

\* An operator takes its attempt.
LEMMA EnterFiles ==
    ASSUME FileInv, NEW o \in Operators, NEW g \in Generators,
           NEW label \in {"recover", "evaluate"}, Enter(o, g, label)
    PROVE  FileInv'
<1>1. /\ UNCHANGED <<attempts, transaction, results, answer, verdict>>
      /\ pc' = [pc EXCEPT ![o] = pc'[o]] /\ pc'[o] = label
      /\ on' = [on EXCEPT ![o] = g]
  BY DEF Enter, Goto, ledger, files, FileInv, Shapes, Processes
<1>2. Shapes' /\ (\A c \in Cases : OnFile(c)')
  BY <1>1, SameEndures, EnduresOnFile DEF FileInv, Shapes, Processes
<1>3. OperatorInv(o)'
  BY <1>1 DEF OperatorInv, Evaluating, FileInv, Shapes
<1> QED BY <1>1, <1>2, <1>3, OperatorStep DEF FileInv, Shapes

\* A step of an operator that holds the transaction, on its way to the candidate.
LEMMA HeldFiles ==
    ASSUME FileInv, NEW o \in Operators, pc[o] # "idle", Kept(on[o]), LedgerEndures,
           NEW label \in {"candidate", "replay_candidate"}, Goto(o, label),
           UNCHANGED <<transaction, results, answer, on, verdict>>
    PROVE  FileInv'
<1>1. pc' = [pc EXCEPT ![o] = pc'[o]] /\ pc'[o] = label
  BY DEF Goto, FileInv, Shapes, Processes
<1>2. Shapes' /\ (\A c \in Cases : OnFile(c)')
  BY <1>1, EnduresOnFile DEF FileInv, Shapes, LedgerEndures, Processes
<1>3. OperatorInv(o)'
  BY <1>1, OperatorIsSomewhere DEF OperatorInv, Evaluating, Kept
<1> QED BY <1>1, <1>2, <1>3, OperatorStep

LEMMA StartRecoveryFiles ==
    ASSUME FileInv, NEW o \in Operators, StartRecovery(o)
    PROVE  FileInv'
<1>1. pc[o] = "recover" /\ UNCHANGED <<transaction, results, answer, on, verdict>>
  BY DEF StartRecovery, AppendOnly, Append, Look, files, locals
<1>2. LedgerEndures
  BY <1>1, SameEndures, AppendEndures, EventsEndure, OperatorIsSomewhere
  DEF StartRecovery, AppendOnly, Look, ledger
<1>3. CASE Goto(o, "candidate") /\ Kept(on[o])
  BY <1>1, <1>2, <1>3, HeldFiles
<1>4. CASE Goto(o, "crash_recovery")
  BY <1>1, <1>2, <1>4, QuietOperatorFiles
  DEF QuietOperator, Goto, Earned, Evaluating, FileInv, Shapes, Processes
<1> QED BY <1>3, <1>4 DEF StartRecovery, AppendOnly, Append, Look

LEMMA LookForEventFiles ==
    ASSUME FileInv, NEW o \in Operators, NEW event \in DOMAIN Replays, LookForEvent(o, event)
    PROVE  FileInv'
<1>1. /\ pc[o] = event /\ event # "idle"
      /\ UNCHANGED <<attempts, transaction, results, answer, on, verdict>>
  BY DEF LookForEvent, Look, Replays, ledger, files, locals
<1>2. PICK label \in {Replays[event], AfterReplay[event], "crash_recovery"} : Goto(o, label)
  BY DEF LookForEvent, Look
<1>3. CASE label = "replay_candidate"
  <2>1. event = "candidate"
    BY <1>3, <1>2 DEF Replays, AfterReplay
  <2> QED BY <1>1, <1>2, <1>3, <2>1, SameEndures, HeldFiles DEF FileInv, OperatorInv
<1>4. CASE label # "replay_candidate"
  BY <1>1, <1>2, <1>4, StillQuietOperator, QuietOperatorFiles
  DEF Replays, AfterReplay, Earned, Evaluating
<1> QED BY <1>3, <1>4

LEMMA ReplayEventFiles ==
    ASSUME FileInv, NEW o \in Operators, NEW event \in DOMAIN Replays, ReplayEvent(o, event)
    PROVE  FileInv'
<1> DEFINE a == Of(on[o])
<1>6. PICK amount : AppendOnly(o, on[o], Accepted(a, event, amount),
                               Replayed(a, event, amount), AfterReplay[event],
                               "crash_recovery")
  BY ReplayAppends
<1>1. /\ pc[o] = Replays[event] /\ pc[o] # "idle" /\ on[o] \in Generators
      /\ UNCHANGED <<transaction, results, answer, on, verdict>>
  BY <1>6, ReplayAppends, OperatorIsSomewhere DEF AppendOnly, Append, Replays, files, locals
<1>2. \E label \in {AfterReplay[event], "crash_recovery"} : Goto(o, label)
  BY <1>6 DEF AppendOnly, Append
<1>3. pc' = [pc EXCEPT ![o] = pc'[o]] /\ pc'[o] \notin Earned \cup Evaluating
  BY <1>2 DEF Goto, Replays, AfterReplay, Earned, Evaluating, FileInv, Shapes, Processes
<1>4. CASE event # "candidate"
  <2>1. IsAttempt(a) => Endures(a, Replayed(a, event, amount))
    BY <1>4, EventsEndure DEF Replayed, Replays
  <2>2. LedgerEndures
    BY <1>1, <1>6, <2>1, AppendEndures DEF AppendOnly
  <2> QED BY <1>1, <1>3, <2>2, QuietOperatorFiles DEF QuietOperator, FileInv, Shapes
<1>5. CASE event = "candidate"
  <2>1. Kept(on[o])
    BY <1>1, <1>5 DEF FileInv, OperatorInv, Replays
  <2>2. CASE attempts' = attempts
    BY <1>1, <1>3, <2>2, SameEndures, QuietOperatorFiles DEF QuietOperator, FileInv, Shapes
  <2>3. CASE MaySubmit(a) /\ attempts' = [attempts EXCEPT ![CaseOf[on[o]]] = Submit(a)]
    <3>1. Shapes' /\ (\A c \in Cases : OnFile(c)')
      BY <1>1, <1>3, <2>1, <2>3, SubmitOnFile DEF FileInv, Shapes
    <3>2. OperatorInv(o)'
      BY <1>1, <1>3 DEF OperatorInv, Earned
    <3> QED BY <1>1, <1>3, <3>1, <3>2, OperatorStep
  <2> QED BY <1>5, <1>6, <2>2, <2>3 DEF AppendOnly, Append, Accepted, Replayed
<1> QED BY <1>4, <1>5

LEMMA RecoveryFiles ==
    ASSUME FileInv, NEW o \in Operators, Recovery(o)
    PROVE  FileInv'
<1> USE DEF Earned, Evaluating
<1>1. CASE CheckSpend(o)
  BY <1>1, AppendQuietOperator, StillQuietOperator, EventsEndure, QuietOperatorFiles
  DEF CheckSpend, AppendOnly, Look, ledger, files, locals
<1>2. CASE CheckWall(o) \/ CheckReservation(o)
  BY <1>2, StillQuietOperator, QuietOperatorFiles
  DEF CheckWall, CheckReservation, Look, ledger, files, locals
<1>3. CASE CrashRecovery(o)
  BY <1>3, AppendQuietOperator, EventsEndure, QuietOperatorFiles
  DEF CrashRecovery, AppendOnly, locals
<1> QED
  BY <1>1, <1>2, <1>3, EnterFiles, StartRecoveryFiles, LookForEventFiles, ReplayEventFiles
  DEF Recovery

LEMMA StartEvaluationFiles ==
    ASSUME FileInv, NEW o \in Operators, StartEvaluation(o)
    PROVE  FileInv'
<1>1. /\ pc[o] = "evaluate" /\ pc' = [pc EXCEPT ![o] = pc'[o]]
      /\ pc'[o] \in {"costs", "capability", "done"}
      /\ verdict' = [verdict EXCEPT ![o] = verdict'[o]]
      /\ UNCHANGED <<attempts, transaction, results, answer, on>>
  BY DEF StartEvaluation, Goto, ledger, files, FileInv, Shapes, Processes
<1>2. pc'[o] \in Evaluating => verdict'[o] \in Outcomes
  BY DEF StartEvaluation, Goto, Evaluating, Untested, Outcomes, FileInv, Shapes, Processes
<1> QED BY <1>1, <1>2, SameEndures, QuietOperatorFiles DEF QuietOperator, Earned

LEMMA RecordStorageFiles ==
    ASSUME FileInv, NEW o \in Operators, RecordStorage(o)
    PROVE  FileInv'
<1>1. /\ pc[o] = "storage" /\ pc' = [pc EXCEPT ![o] = pc'[o]]
      /\ pc'[o] \in {"costs", "fail_evaluation"}
      /\ verdict' = [verdict EXCEPT ![o] = verdict'[o]]
      /\ UNCHANGED <<transaction, results, answer, on>>
  BY DEF RecordStorage, AppendEvaluation, Append, Goto, files, FileInv, Shapes, Processes
<1>2. verdict'[o] \in Outcomes
  BY <1>1 DEF RecordStorage, Outcomes, FileInv, Shapes, OperatorInv, Evaluating
<1>3. LedgerEndures
  BY <1>1, AppendEndures, EventsEndure, OperatorIsSomewhere
  DEF RecordStorage, AppendEvaluation
<1> QED BY <1>1, <1>2, <1>3, QuietOperatorFiles DEF QuietOperator, Earned

\* A result that is written is the operator's own, and none was there before.
LEMMA WriteResultFiles ==
    ASSUME FileInv, NEW o \in Operators, NEW file \in Files, WriteResult(o, file)
    PROVE  FileInv'
<1> DEFINE record == ResultRecord(file, verdict[o])
<1>1. /\ pc[o] = file /\ on[o] \in Generators /\ verdict[o] \in Outcomes
      /\ UNCHANGED <<attempts, transaction, answer, on, verdict>>
  BY OperatorIsSomewhere
  DEF WriteResult, WriteRecord, Files, FileInv, OperatorInv, Evaluating, ledger, locals
<1>2. CASE Goto(o, "crash_evaluation") /\ UNCHANGED results
  BY <1>1, <1>2, StillQuietOperator, QuietOperatorFiles DEF Files, Earned, Evaluating
<1>3. CASE /\ results[on[o]][file] = NoFile
           /\ results' = [results EXCEPT ![on[o]][file] = record]
           /\ Goto(o, IF file = "private" THEN "public" ELSE "end_results")
  <2>1. /\ pc' = [pc EXCEPT ![o] = pc'[o]]
        /\ pc'[o] = (IF file = "private" THEN "public" ELSE "end_results")
    BY <1>3 DEF Goto, FileInv, Shapes, Processes
  <2>2. Shapes'
    <3>1. results' = [g \in Generators |-> [f \in Files |-> results'[g][f]]]
      <4>1. results = [g \in Generators |-> [f \in Files |-> results[g][f]]]
        BY DEF FileInv, Shapes
      <4>2. results' = [results EXCEPT ![on[o]] = [results[on[o]] EXCEPT ![file] = record]]
        BY <1>3
      <4>3. results' = [g \in Generators |-> [f \in Files |->
                           IF g = on[o] /\ f = file THEN record ELSE results[g][f]]]
        BY <1>1, <4>1, <4>2
      <4> QED BY <4>3
    <3> QED BY <1>1, <2>1, <3>1 DEF FileInv, Shapes
  <2>3. /\ results'[on[o]][file] = record
        /\ \A g \in Generators, f \in Files :
               g # on[o] \/ f # file => results'[g][f] = results[g][f]
    BY <1>1, <1>3 DEF FileInv, Shapes
  <2>4. \A g \in Generators, f \in Files :
            results[g][f] # NoFile => results'[g][f] = results[g][f]
    BY <1>3, <2>3
  <2>5. ASSUME NEW c \in Cases PROVE OnFile(c)'
    <3>1. OnFile(c)
      BY DEF FileInv
    <3>2. \A f \in Files, outcome \in Outcomes : ResultRecord(f, outcome) # NoFile
      BY RecordIsThere
    <3> QED BY <1>1, <2>4, <3>1, <3>2 DEF OnFile, Kept
  <2>6. OperatorInv(o)'
    <3>1. CASE file = "private"
      BY <1>1, <2>1, <2>3, <3>1 DEF OperatorInv, Wrote, Evaluating
    <3>2. CASE file = "public"
      <4>1. Wrote(o, "private") /\ "private" \in Files
        BY <1>1, <3>2 DEF FileInv, OperatorInv, Files
      <4>2. Wrote(o, "private")'
        BY <1>1, <2>3, <3>2, <4>1 DEF Wrote
      <4> QED BY <1>1, <2>1, <2>3, <3>2, <4>2 DEF OperatorInv, Wrote, Evaluating
    <3> QED BY <3>1, <3>2 DEF Files
  <2> QED BY <1>1, <2>1, <2>2, <2>4, <2>5, <2>6, OperatorStep
<1> QED BY <1>2, <1>3 DEF WriteResult, WriteRecord

LEMMA EndResultsFiles ==
    ASSUME FileInv, NEW o \in Operators, EndResults(o)
    PROVE  FileInv'
<1>1. /\ pc[o] = "end_results" /\ pc' = [pc EXCEPT ![o] = pc'[o]]
      /\ pc'[o] \in {"finish", "crash_evaluation"}
      /\ UNCHANGED <<transaction, results, answer, on, verdict>>
  BY DEF EndResults, AppendEvaluation, Append, Goto, files, locals, FileInv, Shapes, Processes
<1>2. LedgerEndures
  BY <1>1, AppendEndures, EventsEndure, OperatorIsSomewhere DEF EndResults, AppendEvaluation
<1>3. Shapes' /\ (\A c \in Cases : OnFile(c)')
  BY <1>1, <1>2, EnduresOnFile DEF FileInv, Shapes, LedgerEndures, Processes
<1>4. OperatorInv(o)'
  BY <1>1 DEF FileInv, OperatorInv, Wrote, Evaluating
<1> QED BY <1>1, <1>3, <1>4, OperatorStep

\* The attempt ends with the outcome of the operator that wrote both results.
LEMMA EndAttemptFiles ==
    ASSUME FileInv, NEW o \in Operators, EndAttempt(o)
    PROVE  FileInv'
<1> DEFINE g == on[o]
           b == FinishAttempt(Of(g), verdict[o])
<1>1. /\ pc[o] = "finish" /\ pc' = [pc EXCEPT ![o] = pc'[o]]
      /\ pc'[o] \in {"done", "crash_evaluation"}
      /\ UNCHANGED <<transaction, results, answer, on, verdict>>
  BY DEF EndAttempt, AppendEvaluation, Append, Goto, files, locals, FileInv, Shapes, Processes
<1>2. g \in Generators /\ verdict[o] \in Outcomes /\ \A file \in Files : Wrote(o, file)
  BY <1>1 DEF FileInv, OperatorInv, Evaluating, Files
<1>3. CASE attempts' = attempts
  BY <1>1, <1>2, <1>3, SameEndures, QuietOperatorFiles
  DEF QuietOperator, Earned, FileInv, Shapes
<1>4. CASE MayFinishAttempt(Of(g)) /\ attempts' = [attempts EXCEPT ![CaseOf[g]] = b]
  <2>1. /\ CaseOf[g] \in Cases /\ Of(g) = attempts[CaseOf[g]] /\ Of(g).id = g /\ g # NoOne
        /\ IsAttempt(Of(g))
    BY <1>2, <1>4, AttemptAssumption DEF Of, MayFinishAttempt, Open, NoAttempt, FileInv, OnFile
  <2>2. /\ IsAttempt(b) /\ b.id = g /\ b.candidate = Of(g).candidate
        /\ b.outcome = verdict[o]
    BY <2>1 DEF FinishAttempt, IsAttempt, NoAttempt
  <2>3. attempts'[CaseOf[g]] = b /\ \A c \in Cases : c # CaseOf[g] => attempts'[c] = attempts[c]
    BY <1>4, <2>1 DEF FileInv, Shapes
  <2>4. b.candidate => transaction'[g] # NoFile
    <3>1. Of(g).candidate => transaction'[g] # NoFile
      BY <1>1, <2>1 DEF FileInv, OnFile, Kept
    <3> HIDE DEF b
    <3> QED BY <2>2, <3>1
  <2>5. \A c \in Cases : c # CaseOf[g] => OnFile(c)'
    BY <1>1, <2>3 DEF FileInv, OnFile, Kept
  <2>6. \A c \in Cases : OnFile(c)'
    <3>1. \A file \in Files : results'[g][file] = ResultRecord(file, b.outcome)
      BY <1>1, <1>2, <2>2 DEF Wrote
    <3>2. b.outcome \in Outcomes /\ b.id # NoOne /\ CaseOf[b.id] = CaseOf[g]
      BY <1>2, <2>1, <2>2
    <3> HIDE DEF b
    <3>3. ASSUME NEW c \in Cases, c = CaseOf[g] PROVE OnFile(c)'
      <4>1. attempts'[c] = b
        BY <2>3, <3>3
      <4>2. IsAttempt(attempts'[c]) /\ attempts'[c].id = g
        BY <2>2, <4>1
      <4>3. attempts'[c].candidate => transaction'[g] # NoFile
        BY <2>4, <4>1
      <4>4. attempts'[c].outcome \in Outcomes
            /\ \A file \in Files : results'[g][file] = ResultRecord(file, attempts'[c].outcome)
        BY <3>1, <3>2, <4>1
      <4> QED BY <1>2, <2>1, <3>3, <4>2, <4>3, <4>4 DEF OnFile, Kept
    <3> QED BY <2>5, <3>3
  <2>7. Shapes'
    BY <1>1, <1>4 DEF FileInv, Shapes
  <2>8. OperatorInv(o)'
    BY <1>1, <1>2 DEF OperatorInv
  <2> QED BY <1>1, <2>6, <2>7, <2>8, OperatorStep
<1> QED BY <1>3, <1>4 DEF EndAttempt, AppendEvaluation, Append

LEMMA EvaluationFiles ==
    ASSUME FileInv, NEW o \in Operators, Evaluation(o)
    PROVE  FileInv'
<1> USE DEF Earned, Evaluating
<1>1. CASE TakeCapability(o) \/ RunDifferential(o) \/ FailEvaluation(o)
  BY <1>1, StillQuietOperator, QuietOperatorFiles
  DEF TakeCapability, RunDifferential, FailEvaluation, Look, ledger, files, locals
<1>2. ASSUME NEW accepted, NEW new, NEW next \in Evaluating \ Earned,
             NEW rejected \in Evaluating \ Earned,
             AppendEvaluation(o, accepted, new, next, rejected), pc[o] \in Evaluating,
             \A a : IsAttempt(a) /\ a = Of(on[o]) => Endures(a, new), UNCHANGED locals
      PROVE  FileInv'
  <2>1. Append(o, on[o], accepted, new, next, rejected) /\ pc[o] # "idle"
    BY <1>2 DEF AppendEvaluation
  <2> QED BY <1>2, <2>1, AppendQuietOperator, QuietOperatorFiles DEF locals
<1>3. CASE StartDifferential(o) \/ EndDifferential(o)
  BY <1>2, <1>3, EventsEndure DEF StartDifferential, EndDifferential
<1>6. CASE StartResults(o)
  BY <1>2, <1>6, EventsEndure DEF StartResults
<1>7. CASE RecordSandbox(o) \/ CloseDifferential(o)
  BY <1>2, <1>7, EventsEndure DEF RecordSandbox, CloseDifferential
<1>8. CASE CrashEvaluation(o)
  <2>1. Append(o, on[o], MayCrash(Of(on[o])), Crash(Of(on[o])), "done", "done")
    BY <1>8 DEF CrashEvaluation, AppendEvaluation
  <2> QED BY <1>8, <2>1, AppendQuietOperator, EventsEndure, QuietOperatorFiles
          DEF CrashEvaluation, locals
<1>4. CASE FindCosts(o)
  BY <1>4, StillQuietOperator, QuietOperatorFiles DEF FindCosts, FindMissing, ledger, files
<1>5. CASE FillCosts(o)
  <2> DEFINE k == NextMissing(o)
             new == RecordCost(Of(on[o]), k, missing[o][k])
             next == IF DOMAIN missing[o] = {k} THEN "start_results" ELSE pc[o]
  <2>1. /\ Append(o, on[o], MayRecordCost(Of(on[o]), k, missing[o][k]), new, next,
                  "crash_evaluation")
        /\ pc[o] = "fill_costs" /\ UNCHANGED <<answer, on, verdict>>
    BY <1>5 DEF FillCosts, AppendMissing
  <2>2. \A a : IsAttempt(a) /\ a = Of(on[o]) => Endures(a, new)
    BY EventsEndure
  <2>3. next \in {"start_results", "fill_costs"}
    BY <2>1
  <2>4. ASSUME NEW accepted, NEW b, NEW label \in {"start_results", "fill_costs"},
               Append(o, on[o], accepted, b, label, "crash_evaluation"),
               \A a : IsAttempt(a) /\ a = Of(on[o]) => Endures(a, b)
        PROVE  FileInv'
    BY <2>1, <2>4, AppendQuietOperator, QuietOperatorFiles
  <2> HIDE DEF new, next, k
  <2> QED BY <2>1, <2>2, <2>3, <2>4
<1> QED
  BY <1>1, <1>3, <1>4, <1>5, <1>6, <1>7, <1>8, EnterFiles, StartEvaluationFiles,
     RecordStorageFiles, WriteResultFiles, EndResultsFiles, EndAttemptFiles
  DEF Evaluation, Files
-----------------------------------------------------------------------------

LEMMA StepFiles == FileInv /\ [RunnerNext]_vars => FileInv'
<1> SUFFICES ASSUME FileInv, [RunnerNext]_vars
             PROVE  FileInv'
  OBVIOUS
<1>1. ASSUME NEW g \in Generators, Generate(g)
      PROVE  FileInv'
  BY <1>1, BeginFiles, ProviderFiles, PersistFiles, SubmitFiles, GenerateQuiet, QuietFiles
<1>2. ASSUME NEW o \in Operators, Recovery(o) \/ Evaluation(o)
      PROVE  FileInv'
  BY <1>2, RecoveryFiles, EvaluationFiles
<1>3. ASSUME NEW p \in Processes, Kill(p)
      PROVE  FileInv'
  <2>1. /\ Goto(p, "killed") /\ pc[p] # "idle"
        /\ UNCHANGED <<attempts, transaction, results, answer, on, verdict>>
    BY <1>3 DEF Kill, AtRest, ledger, files
  <2>2. CASE p \in Generators
    BY <2>1, <2>2, StillQuiet, QuietFiles
  <2>3. CASE p \in Operators
    BY <2>1, <2>3, StillQuietOperator, QuietOperatorFiles DEF Earned, Evaluating
  <2> QED BY <2>2, <2>3 DEF Processes
<1>4. ASSUME UNCHANGED <<attempts, transaction, results, answer, on, verdict, pc>>
      PROVE  FileInv'
  BY <1>4 DEF FileInv, Shapes, OnFile, GeneratorInv, OperatorInv, Wrote, Kept
<1>5. CASE Freeze
  BY <1>4, <1>5 DEF Freeze, files, locals
<1>6. CASE LoseLedger
  <2>1. /\ attempts' = [c \in Cases |-> NoAttempt]
        /\ UNCHANGED <<transaction, results, answer, on, verdict, pc>>
    BY <1>6 DEF LoseLedger, files, locals
  <2>2. Shapes'
    BY <2>1 DEF FileInv, Shapes
  <2>3. \A c \in Cases : OnFile(c)'
    BY <2>1, NoAttemptMatched DEF OnFile, NoAttempt
  <2> QED BY <2>1, <2>2, <2>3 DEF FileInv, GeneratorInv, OperatorInv, Wrote, Kept
<1>7. CASE UNCHANGED vars
  BY <1>4, <1>7 DEF vars, ledger, files, locals
<1> QED
  BY <1>1, <1>2, <1>3, <1>5, <1>6, <1>7 DEF RunnerNext

LEMMA FilesAreDurable == FileInv => CommittedIsDurable
<1> SUFFICES ASSUME FileInv, NEW c \in Cases
             PROVE  LET a == attempts[c] IN /\ a.candidate => Kept(a.id)
                                            /\ a.status = "finished" => ReadsBack(a.id)
  BY DEF CommittedIsDurable
<1>1. OnFile(c)
  BY DEF FileInv
<1>2. ASSUME attempts[c].status = "finished" PROVE ReadsBack(attempts[c].id)
  <2> DEFINE g == attempts[c].id
  <2>1. g \in Generators /\ CaseOf[g] = c /\ Of(g) = attempts[c]
    BY <1>1, <1>2 DEF OnFile, Of
  <2>2. \A file \in Files : results[g][file] = ResultRecord(file, Of(g).outcome)
    BY <1>1, <1>2, <2>1 DEF OnFile
  <2>3. results[g] = [file \in Files |-> results[g][file]]
    BY <2>1 DEF FileInv, Shapes
  <2> QED BY <2>2, <2>3 DEF ReadsBack, Files
<1> QED BY <1>1, <1>2 DEF OnFile

\* What the ledger commits to can be read: the candidate of every attempt that has one,
\* and both results of every attempt that ended, over kills at any step, recoveries
\* that run while the generating process is alive, and ledgers that are deleted
\* (_persist_generation_transaction comes before candidate_submitted, both results
\* before attempt_finished).
THEOREM CommittedStaysDurable == RunnerSpec => []CommittedIsDurable
<1> QED BY InitFiles, StepFiles, FilesAreDurable, PTL DEF RunnerSpec

-----------------------------------------------------------------------------
(* The spend that a disposition freezes *)

\* A process that did not begin its call, and one that awaits its answer.
Before == {"idle", "prepare", "start_phase", "consume", "start_call"}
Awaiting == Before \cup {"provider"}

\* The labels of a recovery that is about to finish the call or to record its cost.
Replaying == {"candidate", "replay_candidate", "call", "replay_call", "cost", "replay_cost"}

\* The attempt that the ledger has for case c says nothing untrue about its call.
SpendOf(c) ==
    LET a == attempts[c]
        g == a.id
    IN
    IF g = NoOne THEN a = NoAttempt
    ELSE /\ pc[g] # "idle"
         /\ pc[g] = "provider" => Unmatched(a)
         /\ pc[g] \in Awaiting => a.costs["model"] = "absent"
         /\ a.call = "none" \/ Unmatched(a) \/ Called(a)
         /\ a.call = "none" => answer[g] = NoAnswer
         /\ Called(a) => a.usage = answer[g].usage
         /\ a.costs["model"] = "zero" => a.call = "none"
         /\ a.costs["model"] \in Measured => answer[g].usage = a.costs["model"]
         /\ a.disposition # "none" => Known(a, "model")

\* What process g found missing is still true when it is recorded.
MissingIsTrue(g) ==
    /\ missing[g] = [k \in DOMAIN missing[g] |-> missing[g][k]]
    /\ DOMAIN missing[g] \subseteq {"model", "artifact"}
    /\ "model" \in DOMAIN missing[g] =>
           /\ missing[g]["model"] # "absent"
           /\ missing[g]["model"] = "zero" => Of(g).call = "none"
           /\ missing[g]["model"] \in Measured => answer[g].usage = missing[g]["model"]

GeneratorSpend(g) ==
    /\ answer[g].usage \in Usages \cup {"none"}
    /\ pc[g] \in Before => answer[g] = NoAnswer
    /\ pc[g] \in Awaiting => ~Kept(g)
    /\ Kept(g) => transaction[g] = answer[g].usage
    /\ pc[g] = "fill" => MissingIsTrue(g)

\* The model cost of what an operator evaluates is recorded, or the attempt is gone.
Settled(g) == Of(g) = NoAttempt \/ Of(g).costs["model"] # "absent"

OperatorSpend(o) ==
    /\ pc[o] # "idle" => pc[on[o]] # "idle"
    /\ pc[o] \in Replaying => Kept(on[o])
    /\ pc[o] \in Evaluating => Settled(on[o])

SpendInv == /\ missing = [p \in Processes |-> missing[p]]
            /\ \A c \in Cases : SpendOf(c)
            /\ \A g \in Generators : GeneratorSpend(g)
            /\ \A o \in Operators : OperatorSpend(o)

BothInv == FileInv /\ SpendInv

-----------------------------------------------------------------------------
(* Events that say nothing untrue of the call of an attempt *)

\* b is what an event makes of a: it adds what process a.id knows, and only after
\* the call.
Truthful(a, b) ==
    LET g == a.id IN
    /\ g \in Generators /\ b.id = g
    /\ \/ b.call = a.call /\ b.usage = a.usage
       \/ /\ Unmatched(a) /\ Called(b) /\ b.usage = answer[g].usage
          /\ pc[g] \notin Awaiting
    /\ \/ b.costs["model"] = a.costs["model"]
       \/ /\ a.costs["model"] = "absent" /\ b.costs["model"] # "absent"
          /\ b.costs["model"] = "zero" => b.call = "none"
          /\ b.costs["model"] \in Measured => answer[g].usage = b.costs["model"]
          /\ pc[g] \notin Awaiting
          /\ b.call = a.call
    /\ b.disposition = a.disposition \/ Known(a, "model")

\* The ledger says nothing untrue that it did not say before.
LedgerTruthful ==
    /\ attempts' = [c \in Cases |-> attempts'[c]]
    /\ \A c \in Cases : \/ attempts'[c] \in {attempts[c], NoAttempt}
                        \/ Truthful(attempts[c], attempts'[c])

LEMMA SameTruthful == ASSUME FileInv, attempts' = attempts PROVE LedgerTruthful
BY DEF FileInv, Shapes, LedgerTruthful

\* The ledger has an attempt of g.
Present(g) ==
    /\ CaseOf[g] \in Cases /\ Of(g) = attempts[CaseOf[g]]
    /\ Of(g).id = g /\ g # NoOne /\ IsAttempt(Of(g)) /\ SpendOf(CaseOf[g])

LEMMA OpenIsPresent ==
    ASSUME BothInv, NEW g \in Generators, Of(g) # NoAttempt \/ Open(Of(g))
    PROVE  Present(g)
<1>1. CaseOf[g] \in Cases /\ g # NoOne /\ Of(g) # NoAttempt
  BY AttemptAssumption DEF Open, NoAttempt
<1> QED BY <1>1 DEF Of, Present, BothInv, SpendInv, FileInv, OnFile

LEMMA AppendTruthful ==
    ASSUME BothInv, NEW p, NEW g \in Generators, NEW accepted, NEW new, NEW next,
           NEW rejected, Append(p, g, accepted, new, next, rejected),
           accepted => Of(g) # NoAttempt \/ Open(Of(g)),
           accepted /\ Present(g) => Truthful(Of(g), new)
    PROVE  LedgerTruthful
<1>1. CASE attempts' = attempts
  BY <1>1, SameTruthful DEF BothInv
<1>2. CASE accepted /\ attempts' = [attempts EXCEPT ![CaseOf[g]] = new]
  <2>1. Present(g)
    BY <1>2, OpenIsPresent
  <2> QED
    BY <1>2, <2>1 DEF Present, BothInv, FileInv, Shapes, LedgerTruthful
<1> QED BY <1>1, <1>2 DEF Append

LEMMA EventsTruthful ==
    ASSUME NEW g \in Generators, Present(g)
    PROVE  LET a == Of(g) IN
           /\ \A phase : Truthful(a, StartPhase(a, phase))
           /\ \A status : Truthful(a, FinishPhase(a, status))
           /\ Truthful(a, Submit(a))
           /\ \A category, amount : category # "model" =>
                  Truthful(a, RecordCost(a, category, amount))
           /\ \A outcome : Truthful(a, FinishAttempt(a, outcome))
           /\ Truthful(a, Crash(a)) /\ Truthful(a, Recover(a))
<1> DEFINE a == Of(g)
<1> a.id = g /\ IsAttempt(a)
  BY DEF Present
<1> HIDE DEF a
<1> USE DEF Truthful, IsAttempt, NoAttempt
<1>1. ASSUME NEW phase  PROVE Truthful(a, StartPhase(a, phase))
  BY DEF StartPhase
<1>2. ASSUME NEW status  PROVE Truthful(a, FinishPhase(a, status))
  BY DEF FinishPhase
<1>3. Truthful(a, Submit(a))
  BY DEF Submit
<1>4. ASSUME NEW category, NEW amount, category # "model"
      PROVE  Truthful(a, RecordCost(a, category, amount))
  BY <1>4 DEF RecordCost
<1>5. ASSUME NEW outcome  PROVE Truthful(a, FinishAttempt(a, outcome))
  BY DEF FinishAttempt
<1>6. Truthful(a, Crash(a)) /\ Truthful(a, Recover(a))
  BY DEF Crash, Recover
<1> HIDE DEF Truthful, IsAttempt, NoAttempt
<1> QED BY <1>1, <1>2, <1>3, <1>4, <1>5, <1>6 DEF a

LEMMA DisposeTruthful ==
    ASSUME NEW g \in Generators, Present(g), NEW status, MayDispose(Of(g), status)
    PROVE  Truthful(Of(g), Dispose(Of(g), status))
<1> DEFINE a == Of(g)
<1>1. a.id = g /\ IsAttempt(a)
  BY DEF Present
<1> HIDE DEF a
<1>2. MayDispose(a, status) => Truthful(a, Dispose(a, status))
  BY <1>1 DEF Truthful, IsAttempt, NoAttempt, MayDispose, Dispose
<1> QED BY <1>2 DEF a

\* The end of the call, with the usage the provider reported.
LEMMA CallTruthful ==
    ASSUME NEW g \in Generators, Present(g), pc[g] \notin Awaiting,
           NEW status \in {"succeeded", "failed"}, MayFinishCall(Of(g), status)
    PROVE  Truthful(Of(g), FinishCall(Of(g), status, answer[g].usage))
<1> DEFINE a == Of(g)
<1>1. a.id = g /\ IsAttempt(a)
  BY DEF Present
<1> HIDE DEF a
<1>2. MayFinishCall(a, status) => Truthful(a, FinishCall(a, status, answer[g].usage))
  BY <1>1 DEF Truthful, IsAttempt, NoAttempt, MayFinishCall, FinishCall, Unmatched, Called
<1> QED BY <1>2 DEF a

\* The model cost: what the provider reported, or zero without a call.
LEMMA CostTruthful ==
    ASSUME NEW g \in Generators, Present(g), pc[g] \notin Awaiting,
           NEW amount, amount # "absent", MayRecordCost(Of(g), "model", amount),
           amount = "zero" => Of(g).call = "none",
           amount \in Measured => answer[g].usage = amount
    PROVE  Truthful(Of(g), RecordCost(Of(g), "model", amount))
<1> DEFINE a == Of(g)
<1> a.id = g /\ IsAttempt(a)
  BY DEF Present
<1> HIDE DEF a
<1>1. /\ RecordCost(a, "model", amount).id = g
      /\ RecordCost(a, "model", amount).call = a.call
      /\ RecordCost(a, "model", amount).usage = a.usage
      /\ RecordCost(a, "model", amount).disposition = a.disposition
  BY DEF RecordCost, IsAttempt, NoAttempt
<1>2. a.costs["model"] = "absent"
  BY DEF MayRecordCost, a
<1>3. RecordCost(a, "model", amount).costs["model"] \in {amount, a.costs["model"]}
  BY DEF RecordCost, IsAttempt, NoAttempt
<1>4. Truthful(a, RecordCost(a, "model", amount))
  BY <1>1, <1>2, <1>3 DEF Truthful, a
<1> QED BY <1>4 DEF a

-----------------------------------------------------------------------------
(* What truthful events keep *)

LEMMA TruthfulSpend ==
    ASSUME BothInv, LedgerTruthful, UNCHANGED answer, NEW c \in Cases,
           \A g \in Generators : /\ pc'[g] \in Awaiting => pc[g] \in Awaiting
                                 /\ pc'[g] = "idle" => pc[g] = "idle"
                                 /\ pc'[g] = "provider" => pc[g] = "provider"
    PROVE  SpendOf(c)'
<1> DEFINE a == attempts[c]
           b == attempts'[c]
<1>1. SpendOf(c) /\ (a.id # NoOne => a.id \in Generators)
  BY DEF BothInv, FileInv, SpendInv, OnFile
<1>2. CASE b = NoAttempt
  BY <1>2 DEF SpendOf, NoAttempt
<1>3. CASE b = a
  BY <1>1, <1>3 DEF SpendOf, Called, Known, Unmatched
<1>4. CASE Truthful(a, b)
  <2>1. a.id # NoOne /\ b.id = a.id /\ a.id \in Generators
    BY <1>4, AttemptAssumption DEF Truthful
  <2> DEFINE g == a.id
  <2>3. CASE b.costs["model"] = a.costs["model"]
    <3>1. b.call = "none" <=> a.call = "none"
      BY <1>4 DEF Truthful, Unmatched, Called
    <3>2. Unmatched(b) \/ pc[g] # "provider"
      BY <1>1, <1>4, <2>1 DEF SpendOf, Truthful, Unmatched, Awaiting
    <3>3. Called(b) => b.usage = answer[g].usage
      BY <1>1, <1>4, <2>1 DEF SpendOf, Truthful, Unmatched, Called
    <3>4. b.call = "none" \/ Unmatched(b) \/ Called(b)
      BY <1>1, <1>4, <2>1 DEF SpendOf, Truthful, Unmatched, Called
    <3> QED BY <1>1, <1>4, <2>1, <2>3, <3>1, <3>2, <3>3, <3>4 DEF SpendOf, Known, Truthful
  <2>4. CASE b.costs["model"] # a.costs["model"]
    <3>1. /\ a.costs["model"] = "absent" /\ b.call = a.call /\ pc[g] \notin Awaiting
          /\ b.costs["model"] = "zero" => b.call = "none"
          /\ b.costs["model"] \in Measured => answer[g].usage = b.costs["model"]
          /\ b.usage = a.usage \/ ~Called(a)
      BY <1>4, <2>4 DEF Truthful, Unmatched, Called
    <3> QED BY <1>1, <1>4, <2>1, <3>1, MeasuredIsKnown DEF SpendOf, Known, Truthful, Unmatched, Called, Awaiting
  <2> QED BY <2>3, <2>4
<1> QED BY <1>2, <1>3, <1>4 DEF LedgerTruthful

LEMMA TruthfulOf ==
    ASSUME BothInv, LedgerTruthful, NEW g \in Generators
    PROVE  /\ Settled(g) => Settled(g)'
           /\ Of(g).call = "none" => Of(g)'.call = "none"
<1> DEFINE a == attempts[CaseOf[g]]
           b == attempts'[CaseOf[g]]
<1>1. CaseOf[g] \in Cases /\ g # NoOne /\ SpendOf(CaseOf[g])
  BY AttemptAssumption DEF BothInv, SpendInv
<1>2. CASE b \in {a, NoAttempt}
  BY <1>1, <1>2 DEF Settled, Of, NoAttempt
<1>3. CASE Truthful(a, b)
  BY <1>1, <1>3 DEF Settled, Of, NoAttempt, Truthful, Unmatched
<1> QED BY <1>1, <1>2, <1>3 DEF LedgerTruthful

-----------------------------------------------------------------------------
(* Truthful steps *)

\* A truthful step of p that tells it nothing about the call.
TruthfulStep(p) ==
    /\ LedgerTruthful
    /\ UNCHANGED <<answer, transaction>>
    /\ pc' = [pc EXCEPT ![p] = pc'[p]] /\ pc'[p] # "idle"
    /\ missing' = [missing EXCEPT ![p] = missing'[p]]

\* Where process g goes: not back to the call.
Onwards(g) == /\ pc'[g] \in Awaiting => pc[g] \in Before /\ pc'[g] # "provider"
              /\ pc'[g] = "fill" => MissingIsTrue(g)'

\* What a truthful step of another process leaves true of g and of o.
LEMMA OthersGenerator ==
    ASSUME BothInv, LedgerTruthful, NEW g \in Generators,
           pc'[g] = pc[g], missing'[g] = missing[g], answer'[g] = answer[g],
           transaction'[g] = transaction[g]
    PROVE  GeneratorSpend(g)'
<1>1. GeneratorSpend(g)
  BY DEF BothInv, SpendInv
<1>2. pc[g] = "fill" => MissingIsTrue(g)'
  BY <1>1, TruthfulOf DEF GeneratorSpend, MissingIsTrue
<1> QED BY <1>1, <1>2 DEF GeneratorSpend, Kept

LEMMA OthersOperator ==
    ASSUME BothInv, LedgerTruthful, UNCHANGED transaction, NEW o \in Operators,
           pc'[o] = pc[o], on'[o] = on[o],
           \A g \in Generators : pc[g] # "idle" => pc'[g] # "idle"
    PROVE  OperatorSpend(o)'
<1>1. OperatorSpend(o) /\ OperatorInv(o)
  BY DEF BothInv, FileInv, SpendInv
<1>2. pc[o] # "idle" => on[o] \in Generators
  BY <1>1 DEF OperatorInv
<1>3. pc[o] \in Evaluating => Settled(on[o])'
  <2> SUFFICES ASSUME pc[o] \in Evaluating PROVE Settled(on[o])'
    OBVIOUS
  <2>1. on[o] \in Generators
    BY <1>1 DEF OperatorInv, Evaluating
  <2>2. Settled(on[o]) /\ on'[o] = on[o]
    BY <1>1 DEF OperatorSpend
  <2>3. \A g \in Generators : Settled(g) => Settled(g)'
    BY TruthfulOf
  <2>4. \A g \in Generators : g = on[o] => (Settled(on[o])' <=> Settled(g)')
    BY <2>2 DEF Settled, Of
  <2> QED BY <2>1, <2>2, <2>3, <2>4
<1> QED BY <1>1, <1>2, <1>3 DEF OperatorSpend, Kept

LEMMA GeneratorTruthful ==
    ASSUME BothInv, NEW g \in Generators, TruthfulStep(g), Onwards(g), UNCHANGED on
    PROVE  SpendInv'
<1> USE DEF TruthfulStep
<1>1. missing' = [p \in Processes |-> missing'[p]]
  BY DEF BothInv, SpendInv
<1>2. /\ \A p \in Processes \ {g} : pc'[p] = pc[p] /\ missing'[p] = missing[p]
      /\ \A h \in Generators : h \in Processes
      /\ \A o \in Operators : o \in Processes \ {g}
  BY RunnerAssumption DEF BothInv, SpendInv, FileInv, Shapes, Processes
<1>3. \A c \in Cases : SpendOf(c)'
  BY <1>2, TruthfulSpend DEF Onwards, Awaiting, Before
<1>4. GeneratorSpend(g)'
  BY DEF BothInv, SpendInv, GeneratorSpend, Onwards, Awaiting, Before, Kept
<1>5. \A h \in Generators \ {g} : GeneratorSpend(h)'
  BY <1>2, OthersGenerator
<1>6. \A o \in Operators : OperatorSpend(o)'
  <2>1. \A h \in Generators : pc[h] # "idle" => pc'[h] # "idle"
    BY <1>2
  <2> QED BY <1>2, <2>1, OthersOperator
<1> QED BY <1>1, <1>3, <1>4, <1>5, <1>6 DEF SpendInv

LEMMA OperatorTruthful ==
    ASSUME BothInv, NEW o \in Operators, TruthfulStep(o), OperatorSpend(o)',
           on' = [on EXCEPT ![o] = on'[o]]
    PROVE  SpendInv'
<1> USE DEF TruthfulStep
<1>1. missing' = [p \in Processes |-> missing'[p]]
  BY DEF BothInv, SpendInv
<1>2. /\ \A p \in Processes \ {o} : pc'[p] = pc[p] /\ missing'[p] = missing[p]
      /\ \A h \in Generators : h \in Processes \ {o}
      /\ \A q \in Operators : q \in Processes
  BY RunnerAssumption DEF BothInv, SpendInv, FileInv, Shapes, Processes
<1>3. \A c \in Cases : SpendOf(c)'
  BY <1>2, TruthfulSpend
<1>4. \A h \in Generators : GeneratorSpend(h)'
  BY <1>2, OthersGenerator
<1>5. ASSUME NEW q \in Operators \ {o} PROVE OperatorSpend(q)'
  <2>1. on'[q] = on[q] /\ pc'[q] = pc[q]
    BY <1>2 DEF BothInv, FileInv, Shapes
  <2>2. \A h \in Generators : pc[h] # "idle" => pc'[h] # "idle"
    BY <1>2
  <2> QED BY <2>1, <2>2, OthersOperator
<1> QED BY <1>1, <1>3, <1>4, <1>5 DEF SpendInv

-----------------------------------------------------------------------------
(* The steps of a generating process *)

\* Where process g may go that found nothing missing.
Ahead(g, label) == /\ label \notin {"idle", "provider", "fill"}
                   /\ label \in Before => pc[g] \in Before

LEMMA AppendAhead ==
    ASSUME BothInv, NEW g \in Generators, NEW accepted, NEW new, NEW next, NEW rejected,
           Append(g, g, accepted, new, next, rejected), accepted => Open(Of(g)),
           accepted /\ Present(g) => Truthful(Of(g), new),
           Ahead(g, next), Ahead(g, rejected), UNCHANGED <<answer, missing, on>>
    PROVE  SpendInv'
<1>1. LedgerTruthful /\ transaction' = transaction
  BY AppendTruthful DEF Append, files
<1>2. PICK label \in {next, rejected} : pc' = [pc EXCEPT ![g] = label]
  BY DEF Append, Goto
<1>3. pc' = [pc EXCEPT ![g] = pc'[g]] /\ pc'[g] = label
  BY <1>2 DEF BothInv, FileInv, Shapes, Processes
<1>4. missing' = [missing EXCEPT ![g] = missing'[g]]
  BY DEF BothInv, SpendInv, Processes
<1>5. TruthfulStep(g) /\ Onwards(g)
  BY <1>1, <1>3, <1>4 DEF TruthfulStep, Onwards, Ahead, Awaiting
<1> QED BY <1>5, GeneratorTruthful

LEMMA StillAhead ==
    ASSUME BothInv, NEW g \in Generators, NEW label, Goto(g, label), Ahead(g, label),
           UNCHANGED <<attempts, transaction, answer, missing, on>>
    PROVE  SpendInv'
<1>1. pc' = [pc EXCEPT ![g] = pc'[g]] /\ pc'[g] = label
  BY DEF Goto, BothInv, FileInv, Shapes, Processes
<1>2. missing' = [missing EXCEPT ![g] = missing'[g]]
  BY DEF BothInv, SpendInv, Processes
<1>3. TruthfulStep(g) /\ Onwards(g)
  BY <1>1, <1>2, SameTruthful DEF BothInv, TruthfulStep, Onwards, Ahead, Awaiting
<1> QED BY <1>3, GeneratorTruthful

LEMMA PlainSpend ==
    ASSUME BothInv, NEW g \in Generators,
           \/ RecordPreparation(g) \/ StartGeneration(g) \/ SubmitCandidate(g)
           \/ EndGeneration(g) \/ RecordArtifact(g) \/ ClosePhase(g) \/ CrashGeneration(g)
           \/ CannotCall(g) \/ Consume(g) \/ CheckGeneration(g) \/ LookForArtifact(g)
           \/ LookForPhase(g) \/ DisposeGeneration(g)
    PROVE  SpendInv'
<1>1. \A label \in {"finish_call", "fail", "crash", "check", "dispose", "ensure", "done",
                    "artifact_cost", "artifact", "close"} : Ahead(g, label)
  BY DEF Ahead, Before
<1>2. /\ pc[g] = "prepare" => Ahead(g, "start_phase")
      /\ pc[g] = "start_phase" => Ahead(g, "consume")
      /\ pc[g] = "consume" => Ahead(g, "start_call")
  BY DEF Ahead, Before
<1>3. CASE RecordPreparation(g)
  BY <1>1, <1>2, <1>3, AppendAhead, EventsTruthful
  DEF RecordPreparation, AppendOnly, locals, MayRecordCost
<1>13. CASE RecordArtifact(g)
  <2>1. PICK amount \in Measures, next \in {"fail", "dispose"} :
             Append(g, g, MayRecordCost(Of(g), "artifact", amount),
                    RecordCost(Of(g), "artifact", amount), next, "fail")
             /\ UNCHANGED <<answer, missing, on>>
    BY <1>13, ArtifactAppends DEF AppendOnly, locals
  <2>2. pc[g] = "artifact_cost"
    BY <1>13 DEF RecordArtifact
  <2> QED BY <1>1, <2>1, <2>2, AppendAhead, EventsTruthful DEF MayRecordCost
<1>4. CASE StartGeneration(g)
  BY <1>1, <1>2, <1>4, AppendAhead, EventsTruthful
  DEF StartGeneration, locals, MayStartPhase
<1>5. CASE SubmitCandidate(g) \/ CrashGeneration(g)
  <2>1. Present(g) => Truthful(Of(g), Submit(Of(g))) /\ Truthful(Of(g), Crash(Of(g)))
    BY EventsTruthful
  <2>2. MaySubmit(Of(g)) \/ MayCrash(Of(g)) => Open(Of(g))
    BY DEF MaySubmit, MayCrash
  <2> QED
    BY <1>1, <1>5, <2>1, <2>2, AppendAhead
    DEF SubmitCandidate, CrashGeneration, AppendOnly, locals
<1>6. CASE EndGeneration(g) \/ ClosePhase(g)
  BY <1>1, <1>6, AppendAhead, EventsTruthful
  DEF EndGeneration, ClosePhase, AppendOnly, locals, MayFinishPhase
<1>7. CASE CannotCall(g) \/ LookForArtifact(g) \/ LookForPhase(g)
  BY <1>1, <1>7, StillAhead
  DEF CannotCall, LookForArtifact, LookForPhase, Look, ledger, files, locals
<1>8. CASE Consume(g) \/ CheckGeneration(g)
  BY <1>1, <1>2, <1>8, StillAhead DEF Consume, CheckGeneration, ledger, files, locals
<1>9. CASE DisposeGeneration(g)
  <2>1. CASE Look(g, "crash")
    BY <1>1, <2>1, StillAhead DEF Look, ledger, files, locals
  <2>2. ASSUME NEW status,
               AppendOnly(g, g, MayDispose(Of(g), status), Dispose(Of(g), status),
                          "done", "done")
        PROVE  SpendInv'
    BY <1>1, <2>2, AppendAhead, DisposeTruthful DEF AppendOnly, locals, MayDispose
  <2> QED BY <1>9, <2>1, <2>2 DEF DisposeGeneration
<1> QED BY <1>3, <1>4, <1>5, <1>6, <1>7, <1>8, <1>9, <1>13

LEMMA EndCallSpend ==
    ASSUME BothInv, NEW g \in Generators, EndCall(g)
    PROVE  SpendInv'
<1>1. CallStatus(g) \in {"succeeded", "failed"}
  BY DEF CallStatus
<1>2. /\ Ahead(g, "model_cost") /\ Ahead(g, "crash")
      /\ pc[g] \notin Awaiting
  BY DEF Ahead, Before, EndCall, Awaiting
<1> QED
  BY <1>1, <1>2, AppendAhead, CallTruthful DEF EndCall, AppendOnly, locals, MayFinishCall

LEMMA RecordModelCostSpend ==
    ASSUME BothInv, NEW g \in Generators, RecordModelCost(g)
    PROVE  SpendInv'
<1>1. answer[g].usage \notin {"zero", "absent"}
  BY MeasuredIsKnown DEF BothInv, SpendInv, GeneratorSpend
<1>2. Ahead(g, AfterCost(answer[g].kind)) /\ Ahead(g, "crash")
  BY DEF Ahead, AfterCost, Before
<1>3. pc[g] = "model_cost" /\ pc[g] \notin Awaiting
  BY DEF RecordModelCost, Awaiting, Before
<1>4. /\ Append(g, g, MayRecordCost(Of(g), "model", answer[g].usage),
                RecordCost(Of(g), "model", answer[g].usage), AfterCost(answer[g].kind), "crash")
      /\ UNCHANGED <<answer, missing, on>>
  BY DEF RecordModelCost, AppendOnly, locals
<1>5. MayRecordCost(Of(g), "model", answer[g].usage) => Open(Of(g))
  BY DEF MayRecordCost
<1>6. MayRecordCost(Of(g), "model", answer[g].usage) /\ Present(g)
        => Truthful(Of(g), RecordCost(Of(g), "model", answer[g].usage))
  BY <1>1, <1>3, CostTruthful
<1> QED BY <1>2, <1>4, <1>5, <1>6, AppendAhead

\* A step of g that may tell it something; no other attempt is touched.
LEMMA OwnSpend ==
    ASSUME BothInv, NEW g \in Generators,
           pc' = [pc EXCEPT ![g] = pc'[g]], pc'[g] # "idle",
           missing' = [missing EXCEPT ![g] = missing'[g]], on' = on,
           \A c \in Cases : SpendOf(c)', GeneratorSpend(g)', Kept(g) => Kept(g)',
           pc[g] # "idle" /\ Settled(g) => Settled(g)',
           \A h \in Generators \ {g} : /\ answer'[h] = answer[h] /\ Of(h)' = Of(h)
                                       /\ transaction'[h] = transaction[h]
    PROVE  SpendInv'
<1>1. missing' = [p \in Processes |-> missing'[p]]
  BY DEF BothInv, SpendInv
<1>2. /\ \A p \in Processes \ {g} : pc'[p] = pc[p] /\ missing'[p] = missing[p]
      /\ \A h \in Generators : h \in Processes
      /\ \A o \in Operators : o \in Processes \ {g}
  BY RunnerAssumption DEF BothInv, SpendInv, FileInv, Shapes, Processes
<1>3. ASSUME NEW h \in Generators \ {g} PROVE GeneratorSpend(h)'
  <2>1. /\ pc'[h] = pc[h] /\ missing'[h] = missing[h] /\ answer'[h] = answer[h]
        /\ Of(h)' = Of(h) /\ transaction'[h] = transaction[h]
    BY <1>2
  <2>2. GeneratorSpend(h)
    BY DEF BothInv, SpendInv
  <2> QED BY <2>1, <2>2 DEF GeneratorSpend, MissingIsTrue, Kept
<1>4. ASSUME NEW o \in Operators PROVE OperatorSpend(o)'
  <2>1. OperatorSpend(o) /\ OperatorInv(o) /\ pc'[o] = pc[o]
    BY <1>2 DEF BothInv, FileInv, SpendInv
  <2>2. CASE pc[o] = "idle"
    BY <2>1, <2>2 DEF OperatorSpend, Replaying, Evaluating
  <2>3. CASE pc[o] # "idle"
    <3>1. on[o] \in Generators /\ pc[on[o]] # "idle"
      BY <2>1, <2>3 DEF OperatorInv, OperatorSpend
    <3>2. pc'[on[o]] # "idle"
      BY <1>2, <3>1
    <3>3. pc[o] \in Replaying => Kept(on[o])'
      BY <2>1, <3>1 DEF OperatorSpend, Kept
    <3>4. pc[o] \in Evaluating => Settled(on[o])'
      BY <2>1, <3>1 DEF OperatorSpend, Settled, Of
    <3> QED BY <2>1, <3>2, <3>3, <3>4 DEF OperatorSpend
  <2> QED BY <2>2, <2>3
<1> QED BY <1>1, <1>3, <1>4 DEF SpendInv

\* The ledger changes at most the attempt of the case of g.
LEMMA OthersStay ==
    ASSUME BothInv, NEW g \in Generators, NEW new,
           attempts' = [attempts EXCEPT ![CaseOf[g]] = new], new.id = g,
           attempts[CaseOf[g]].id \in {g, NoOne}
    PROVE  /\ \A h \in Generators \ {g} : Of(h)' = Of(h)
           /\ \A c \in Cases \ {CaseOf[g]} : attempts'[c] = attempts[c] /\ attempts[c].id # g
           /\ attempts'[CaseOf[g]] = new
BY AttemptAssumption DEF BothInv, FileInv, Shapes, OnFile, Of, NoAttempt

LEMMA BeginSpend ==
    ASSUME BothInv, NEW g \in Generators, Begin(g)
    PROVE  SpendInv'
<1>1. /\ pc[g] = "idle" /\ pc' = [pc EXCEPT ![g] = pc'[g]]
      /\ UNCHANGED <<transaction, answer, missing, on>>
  BY DEF Begin, AppendOnly, Append, Goto, files, locals, BothInv, FileInv, Shapes, Processes
<1>2. missing' = [missing EXCEPT ![g] = missing'[g]]
  BY <1>1 DEF BothInv, SpendInv, Processes
<1>3. CASE attempts' = attempts /\ Goto(g, "done")
  BY <1>1, <1>3, StillAhead DEF Ahead, Before
<1>4. CASE /\ attempts[CaseOf[g]] = NoAttempt /\ Goto(g, "prepare")
           /\ attempts' = [attempts EXCEPT ![CaseOf[g]] = StartAttempt(g)]
  <2>1. pc'[g] = "prepare"
    BY <1>4 DEF Goto, BothInv, FileInv, Shapes, Processes
  <2>2. /\ StartAttempt(g).id = g /\ StartAttempt(g).call = "none"
        /\ StartAttempt(g).costs["model"] = "absent"
        /\ StartAttempt(g).disposition = "none" /\ g # NoOne /\ NoAttempt.id = NoOne
        /\ CaseOf[g] \in Cases
    BY AttemptAssumption DEF StartAttempt, NoAttempt, Categories, BeforeBarrier
  <2>3. /\ \A h \in Generators \ {g} : Of(h)' = Of(h)
        /\ \A c \in Cases \ {CaseOf[g]} : attempts'[c] = attempts[c] /\ attempts[c].id # g
        /\ attempts'[CaseOf[g]] = StartAttempt(g)
    BY <1>4, <2>2, OthersStay
  <2>4. answer[g] = NoAnswer /\ GeneratorSpend(g)'
    BY <1>1, <2>1 DEF BothInv, SpendInv, GeneratorSpend, Before, Awaiting, Kept
  <2>5. ASSUME NEW c \in Cases PROVE SpendOf(c)'
    <3>1. CASE c = CaseOf[g]
      BY <1>1, <2>1, <2>2, <2>3, <2>4, <3>1, MeasuredIsKnown DEF SpendOf, Called, Known, Awaiting, Before
    <3>2. CASE c # CaseOf[g]
      <4>1. SpendOf(c) /\ (attempts[c].id # NoOne => attempts[c].id \in Generators \ {g})
        BY <2>3, <3>2 DEF BothInv, SpendInv, FileInv, OnFile
      <4>2. attempts[c].id # NoOne => pc'[attempts[c].id] = pc[attempts[c].id]
        BY <1>1, <4>1 DEF BothInv, FileInv, Shapes, Processes
      <4> QED BY <1>1, <2>3, <3>2, <4>1, <4>2 DEF SpendOf, Called, Known, Unmatched
    <3> QED BY <3>1, <3>2
  <2> QED BY <1>1, <1>2, <2>1, <2>3, <2>4, <2>5, OwnSpend DEF Kept
<1> QED BY <1>3, <1>4 DEF Begin, AppendOnly, Append, MayStartAttempt

\* A call begins in the ledger.
LEMMA BeginCallSpend ==
    ASSUME BothInv, NEW g \in Generators, BeginCall(g)
    PROVE  SpendInv'
<1> DEFINE new == StartCall(Of(g))
<1>1. /\ pc[g] = "start_call" /\ pc' = [pc EXCEPT ![g] = pc'[g]]
      /\ UNCHANGED <<transaction, answer, missing, on>>
  BY DEF BeginCall, AppendOnly, Append, Goto, files, locals,
         BothInv, FileInv, Shapes, Processes
<1>2. missing' = [missing EXCEPT ![g] = missing'[g]]
  BY <1>1 DEF BothInv, SpendInv, Processes
<1>3. CASE attempts' = attempts /\ Goto(g, "fail")
  BY <1>1, <1>3, StillAhead DEF Ahead, Before
<1>4. CASE /\ MayStartCall(Of(g)) /\ Goto(g, "provider")
           /\ attempts' = [attempts EXCEPT ![CaseOf[g]] = new]
  <2>1. pc'[g] = "provider"
    BY <1>4 DEF Goto, BothInv, FileInv, Shapes, Processes
  <2>2. Present(g)
    BY <1>4, OpenIsPresent DEF MayStartCall
  <2>3. /\ new.id = g /\ new.costs["model"] = Of(g).costs["model"] /\ Unmatched(new)
        /\ new.disposition = Of(g).disposition
    BY <2>2 DEF Present, IsAttempt, NoAttempt, StartCall, Unmatched
  <2>4. /\ \A h \in Generators \ {g} : Of(h)' = Of(h)
        /\ \A c \in Cases \ {CaseOf[g]} : attempts'[c] = attempts[c] /\ attempts[c].id # g
        /\ attempts'[CaseOf[g]] = new
    <3> HIDE DEF new
    <3>1. attempts[CaseOf[g]].id = g
      BY <2>2 DEF Present
    <3> QED BY <1>4, <2>3, <3>1, OthersStay
  <2>5. GeneratorSpend(g)'
    BY <1>1, <2>1 DEF BothInv, SpendInv, GeneratorSpend, Before, Awaiting, Kept
  <2>6. Of(g).costs["model"] = "absent" /\ Of(g).disposition = "none"
    BY <1>1, <2>2, MeasuredIsKnown DEF Present, SpendOf, Awaiting, Before, Known
  <2>7. ASSUME NEW c \in Cases PROVE SpendOf(c)'
    <3>1. CASE c = CaseOf[g]
      BY <2>1, <2>2, <2>3, <2>4, <2>6, <3>1, MeasuredIsKnown DEF Present, SpendOf, Called, Unmatched
    <3>2. CASE c # CaseOf[g]
      <4>1. SpendOf(c) /\ (attempts[c].id # NoOne => attempts[c].id \in Generators \ {g})
        BY <2>4, <3>2 DEF BothInv, SpendInv, FileInv, OnFile
      <4>2. attempts[c].id # NoOne => pc'[attempts[c].id] = pc[attempts[c].id]
        BY <1>1, <4>1 DEF BothInv, FileInv, Shapes, Processes
      <4> QED BY <1>1, <2>4, <3>2, <4>1, <4>2 DEF SpendOf, Called, Known, Unmatched
    <3> QED BY <3>1, <3>2
  <2>8. ~Settled(g)
    BY <2>2, <2>6 DEF Settled, Present, NoAttempt
  <2> QED BY <1>1, <1>2, <2>1, <2>4, <2>5, <2>7, <2>8, OwnSpend DEF Kept
<1> QED BY <1>3, <1>4 DEF BeginCall, AppendOnly, Append

\* An answer comes while the call is open in the ledger and no cost is recorded.
LEMMA ProviderSpend ==
    ASSUME BothInv, NEW g \in Generators, Provider(g)
    PROVE  SpendInv'
<1>1. /\ pc[g] = "provider" /\ pc' = [pc EXCEPT ![g] = pc'[g]]
      /\ pc'[g] \in {"persist", "finish_call"}
      /\ UNCHANGED <<attempts, transaction, missing, on>>
      /\ answer' = [answer EXCEPT ![g] = answer'[g]]
  BY DEF Provider, Goto, ledger, files, BothInv, FileInv, Shapes, Processes
<1>2. missing' = [missing EXCEPT ![g] = missing'[g]]
  BY <1>1 DEF BothInv, SpendInv, Processes
<1>3. answer'[g].usage \in Usages
  BY RunnerAssumption, MeasuredIsKnown
  DEF Provider, NotSent, AnAnswer, BothInv, FileInv, Shapes
<1>4. GeneratorSpend(g)'
  BY <1>1, <1>3 DEF BothInv, SpendInv, GeneratorSpend, Awaiting, Before, Kept
<1>5. \A h \in Generators \ {g} : answer'[h] = answer[h] /\ pc'[h] = pc[h]
  BY <1>1 DEF BothInv, FileInv, Shapes, Processes
<1>6. ASSUME NEW c \in Cases PROVE SpendOf(c)'
  <2>1. SpendOf(c) /\ (attempts[c].id # NoOne => attempts[c].id \in Generators)
    BY DEF BothInv, SpendInv, FileInv, OnFile
  <2>2. CASE attempts[c].id = g
    BY <1>1, <2>1, <2>2, MeasuredIsKnown DEF SpendOf, Unmatched, Called, Known, Awaiting, Before
  <2>3. CASE attempts[c].id # g
    BY <1>1, <1>5, <2>1, <2>3 DEF SpendOf, Unmatched, Called, Known
  <2> QED BY <2>2, <2>3
<1> QED BY <1>1, <1>2, <1>4, <1>5, <1>6, OwnSpend DEF Of, Settled, Kept

LEMMA PersistSpend ==
    ASSUME BothInv, NEW g \in Generators, Persist(g)
    PROVE  SpendInv'
<1>1. CASE UNCHANGED transaction /\ \E label \in {"fail", "crash"} : Goto(g, label)
  BY <1>1, StillAhead DEF Persist, ledger, locals, Ahead, Before
<1>2. CASE transaction' = [transaction EXCEPT ![g] = answer[g].usage] /\ Goto(g, "submit")
  <2>1. /\ UNCHANGED <<attempts, answer, missing, on>>
        /\ pc[g] = "persist" /\ pc' = [pc EXCEPT ![g] = pc'[g]] /\ pc'[g] = "submit"
    BY <1>2 DEF Persist, Goto, ledger, locals, BothInv, FileInv, Shapes, Processes
  <2>2. missing' = [missing EXCEPT ![g] = missing'[g]]
    BY <2>1 DEF BothInv, SpendInv, Processes
  <2>3. /\ transaction'[g] = answer[g].usage /\ Kept(g)'
        /\ \A h \in Generators \ {g} : transaction'[h] = transaction[h]
    BY <1>2, <2>1, RunnerAssumption DEF BothInv, FileInv, GeneratorInv, Shapes, Kept
  <2>4. GeneratorSpend(g)'
    BY <2>1, <2>3 DEF BothInv, SpendInv, GeneratorSpend, Awaiting, Before
  <2>5. LedgerTruthful
    BY <2>1, SameTruthful DEF BothInv
  <2>6. \A h \in Generators \ {g} : pc'[h] = pc[h]
    BY <2>1 DEF BothInv, FileInv, Shapes, Processes
  <2>7. \A c \in Cases : SpendOf(c)'
    BY <2>1, <2>5, <2>6, TruthfulSpend DEF Awaiting, Before
  <2> QED BY <2>1, <2>2, <2>3, <2>4, <2>7, OwnSpend DEF Of, Settled
<1> QED BY <1>1, <1>2 DEF Persist

\* The cost that is about to be recorded is what the ledger says of the call now, and
\* what it says does not become untrue: only g itself begins a call.
LEMMA EnsureCostsSpend ==
    ASSUME BothInv, NEW g \in Generators, EnsureCosts(g)
    PROVE  SpendInv'
<1> DEFINE a == Of(g)
           todo == {"model", "artifact"} \ Recorded(a)
<1>1. /\ pc[g] = "ensure" /\ pc' = [pc EXCEPT ![g] = pc'[g]] /\ pc'[g] \in {"fill", "dispose"}
      /\ UNCHANGED <<attempts, transaction, answer, on>>
      /\ missing' = [missing EXCEPT ![g] =
                         [k \in todo |-> IF k = "model" THEN ModelCost(a) ELSE "zero"]]
  <2> DEFINE found == [k \in todo |-> IF k = "model" THEN ModelCost(a) ELSE "zero"]
  <2>1. /\ pc[g] = "ensure" /\ FindMissing(g, g, {"model", "artifact"}, ModelCost(a), "zero",
                                            "fill", "dispose")
    BY DEF EnsureCosts
  <2>2. /\ missing' = [missing EXCEPT ![g] = found]
        /\ \E label \in {"fill", "dispose"} : Goto(g, label)
        /\ UNCHANGED <<attempts, transaction, answer, on>>
    BY <2>1, FoundMissing DEF ledger, files
  <2> QED BY <2>1, <2>2 DEF Goto, BothInv, FileInv, Shapes, Processes
<1>2. /\ missing'[g] = [k \in todo |-> IF k = "model" THEN ModelCost(a) ELSE "zero"]
      /\ missing' = [missing EXCEPT ![g] = missing'[g]]
  BY <1>1 DEF BothInv, SpendInv, Processes
<1>3. /\ ModelCost(a) # "absent"
      /\ ModelCost(a) = "zero" => a.call = "none"
      /\ ModelCost(a) \in Measured => answer[g].usage = ModelCost(a)
  <2>1. Called(a) => a.usage = answer[g].usage
    BY OpenIsPresent DEF Present, SpendOf, Called, NoAttempt
  <2>2. answer[g].usage \in {"unknown", "none"} \cup Measured
    BY MeasuredIsKnown DEF BothInv, SpendInv, GeneratorSpend
  <2>3. a.call = "none" \/ Called(a) \/ Unmatched(a)
    BY OpenIsPresent DEF Present, SpendOf, NoAttempt
  <2> QED BY <2>1, <2>2, <2>3, MeasuredIsKnown DEF ModelCost
<1>4. MissingIsTrue(g)'
  BY <1>1, <1>2, <1>3 DEF MissingIsTrue, Of
<1> QED
  BY <1>1, <1>2, <1>4, SameTruthful, GeneratorTruthful
  DEF BothInv, TruthfulStep, Onwards, Awaiting, Before

\* The cost it records is one that it found missing: model, or else artifact.
LEMMA NextIsMissing ==
    ASSUME NEW g, MissingIsTrue(g), missing[g] # Nothing
    PROVE  NextMissing(g) \in DOMAIN missing[g]
<1> DEFINE D == DOMAIN missing[g]
<1>1. D # {}
  BY DEF MissingIsTrue, Nothing
<1>2. \E k \in D : \A j \in D : Order[k] <= Order[j]
  BY <1>1 DEF MissingIsTrue, Order
<1> QED BY <1>2 DEF NextMissing

LEMMA FillGenerationCostsSpend ==
    ASSUME BothInv, NEW g \in Generators, FillGenerationCosts(g)
    PROVE  SpendInv'
<1> DEFINE k == NextMissing(g)
           amount == missing[g][k]
           new == RecordCost(Of(g), k, amount)
           next == IF DOMAIN missing[g] = {k} THEN "dispose" ELSE "fill"
           accepted == MayRecordCost(Of(g), k, amount)
<1>1. /\ pc[g] = "fill" /\ Append(g, g, accepted, new, next, "done")
      /\ UNCHANGED <<transaction, answer, on>>
      /\ missing' = [missing EXCEPT ![g] = IF accepted
                         THEN [j \in DOMAIN missing[g] \ {k} |-> missing[g][j]] ELSE Nothing]
  BY DEF FillGenerationCosts, AppendMissing, Append, files, BothInv, SpendInv, Processes
<1>2. MissingIsTrue(g) /\ k \in DOMAIN missing[g]
  BY <1>1, NextIsMissing DEF BothInv, SpendInv, GeneratorSpend, FillGenerationCosts, AppendMissing
<1>3. accepted => Open(Of(g))
  BY DEF MayRecordCost
<1>4. accepted /\ Present(g) => Truthful(Of(g), new)
  <2>1. CASE k = "model"
    BY <1>1, <1>2, <2>1, CostTruthful DEF MissingIsTrue, Awaiting, Before
  <2>2. CASE k # "model"
    BY <2>2, EventsTruthful
  <2> QED BY <2>1, <2>2
<1>5. LedgerTruthful
  <2> HIDE DEF accepted, new, next
  <2> QED BY <1>1, <1>3, <1>4, AppendTruthful
<1>6. pc' = [pc EXCEPT ![g] = pc'[g]] /\ pc'[g] \in {"fill", "dispose", "done"}
  BY <1>1 DEF Append, Goto, BothInv, FileInv, Shapes, Processes
<1>7. /\ missing' = [missing EXCEPT ![g] = missing'[g]]
      /\ missing'[g] = IF accepted
             THEN [j \in DOMAIN missing[g] \ {k} |-> missing[g][j]] ELSE Nothing
  <2> HIDE DEF accepted
  <2> QED BY <1>1 DEF BothInv, SpendInv, Processes
<1>8. MissingIsTrue(g)'
  <2> HIDE DEF accepted
  <2>1. CASE accepted
    <3>1. missing'[g] = [j \in DOMAIN missing[g] \ {k} |-> missing[g][j]]
      BY <1>7, <2>1
    <3> HIDE DEF k
    <3>2. Of(g).call = "none" => Of(g)'.call = "none"
      BY <1>5, TruthfulOf
    <3>3. answer' = answer /\ DOMAIN missing'[g] = DOMAIN missing[g] \ {k}
      BY <1>1, <3>1
    <3>4. \A j \in DOMAIN missing'[g] : missing'[g][j] = missing[g][j]
      BY <3>1
    <3> QED BY <1>2, <3>1, <3>2, <3>3, <3>4 DEF MissingIsTrue
  <2>2. CASE ~accepted
    BY <1>7, <2>2 DEF MissingIsTrue, Nothing
  <2> QED BY <2>1, <2>2
<1>9. pc'[g] \notin Awaiting
  BY <1>6 DEF Awaiting, Before
<1>10. TruthfulStep(g) /\ Onwards(g) /\ UNCHANGED on
  BY <1>1, <1>5, <1>6, <1>7, <1>8, <1>9 DEF TruthfulStep, Onwards
<1> QED BY <1>10, GeneratorTruthful

LEMMA GenerateSpend ==
    ASSUME BothInv, NEW g \in Generators, Generate(g)
    PROVE  SpendInv'
BY PlainSpend, EndCallSpend, RecordModelCostSpend, BeginSpend, BeginCallSpend,
   ProviderSpend, PersistSpend, EnsureCostsSpend, FillGenerationCostsSpend DEF Generate

-----------------------------------------------------------------------------
(* The steps of an operator *)

\* Where operator o may go.
Leads(o, label) == /\ label # "idle"
                   /\ label \in Replaying => Kept(on[o])
                   /\ label \in Evaluating => pc[o] \in Evaluating

LEMMA LedOperator ==
    ASSUME BothInv, NEW o \in Operators, pc[o] # "idle", LedgerTruthful,
           UNCHANGED <<transaction, answer, on>>,
           NEW label, Goto(o, label), Leads(o, label),
           missing' = [missing EXCEPT ![o] = missing'[o]]
    PROVE  SpendInv'
<1>1. pc' = [pc EXCEPT ![o] = pc'[o]] /\ pc'[o] = label
  BY DEF Goto, BothInv, FileInv, Shapes, Processes
<1>2. on[o] \in Generators /\ OperatorSpend(o)
  BY OperatorIsSomewhere DEF BothInv, SpendInv
<1>3. pc'[on[o]] # "idle"
  BY <1>1, <1>2 DEF OperatorSpend, BothInv, FileInv, Shapes, Processes, Leads
<1>4. label \in Evaluating => Settled(on[o])'
  <2>1. \A g \in Generators : Settled(g) => Settled(g)'
    BY TruthfulOf
  <2>2. \A g \in Generators : g = on[o] => (Settled(on[o])' <=> Settled(g)')
    BY DEF Settled, Of
  <2>3. label \in Evaluating => Settled(on[o])
    BY <1>2 DEF Leads, OperatorSpend
  <2> QED BY <1>2, <2>1, <2>2, <2>3
<1>5. OperatorSpend(o)'
  BY <1>1, <1>3, <1>4 DEF OperatorSpend, Leads, Kept
<1>6. on' = [on EXCEPT ![o] = on'[o]]
  BY DEF BothInv, FileInv, Shapes
<1> QED BY <1>1, <1>5, <1>6, OperatorTruthful DEF TruthfulStep, Leads

LEMMA AppendLed ==
    ASSUME BothInv, NEW o \in Operators, pc[o] # "idle", NEW accepted, NEW new, NEW next,
           NEW rejected, Append(o, on[o], accepted, new, next, rejected),
           accepted => Of(on[o]) # NoAttempt \/ Open(Of(on[o])),
           accepted /\ Present(on[o]) => Truthful(Of(on[o]), new),
           Leads(o, next), Leads(o, rejected), UNCHANGED <<answer, on>>,
           missing' = [missing EXCEPT ![o] = missing'[o]]
    PROVE  SpendInv'
<1>1. on[o] \in Generators
  BY OperatorIsSomewhere DEF BothInv
<1>2. LedgerTruthful /\ transaction' = transaction
  BY <1>1, AppendTruthful DEF Append, files
<1>3. PICK label \in {next, rejected} : Goto(o, label)
  BY DEF Append
<1> QED BY <1>2, <1>3, LedOperator

LEMMA StillLed ==
    ASSUME BothInv, NEW o \in Operators, pc[o] # "idle", NEW label, Goto(o, label),
           Leads(o, label), UNCHANGED <<attempts, transaction, answer, missing, on>>
    PROVE  SpendInv'
<1>1. missing' = [missing EXCEPT ![o] = missing'[o]]
  BY DEF BothInv, SpendInv, Processes
<1> QED BY <1>1, SameTruthful, LedOperator DEF BothInv

LEMMA EnterSpend ==
    ASSUME BothInv, NEW o \in Operators, NEW g \in Generators,
           NEW label \in {"recover", "evaluate"}, Enter(o, g, label)
    PROVE  SpendInv'
<1>1. /\ UNCHANGED <<attempts, transaction, answer, missing>>
      /\ pc' = [pc EXCEPT ![o] = pc'[o]] /\ pc'[o] = label
      /\ on' = [on EXCEPT ![o] = g] /\ on'[o] = g
  BY DEF Enter, Goto, ledger, files, BothInv, FileInv, Shapes, Processes
<1>2. pc'[g] # "idle"
  <2>1. pc[g] # "idle"
    BY OpenIsPresent DEF Enter, Present, SpendOf
  <2> QED BY <1>1, <2>1 DEF BothInv, FileInv, Shapes, Processes
<1>3. OperatorSpend(o)'
  BY <1>1, <1>2 DEF OperatorSpend, Replaying, Evaluating
<1>4. missing' = [missing EXCEPT ![o] = missing'[o]]
  BY <1>1 DEF BothInv, SpendInv, Processes
<1>5. LedgerTruthful
  BY <1>1, SameTruthful DEF BothInv
<1> QED BY <1>1, <1>3, <1>4, <1>5, OperatorTruthful DEF TruthfulStep

\* What is replayed is what the provider reported: the transaction says it.
LEMMA ReplayTruthful ==
    ASSUME BothInv, NEW g \in Generators, Present(g), NEW event \in DOMAIN Replays,
           NEW amount, Accepted(Of(g), event, amount),
           event \in {"call", "cost"} => Kept(g) /\ amount = transaction[g]
    PROVE  Truthful(Of(g), Replayed(Of(g), event, amount))
<1>1. GeneratorSpend(g)
  BY DEF BothInv, SpendInv
<1>2. CASE event = "call"
  BY <1>1, <1>2, CallTruthful DEF Accepted, Replayed, GeneratorSpend
<1>3. CASE event = "cost"
  BY <1>1, <1>3, CostTruthful, MeasuredIsKnown DEF Accepted, Replayed, GeneratorSpend
<1>4. CASE event = "disposition"
  BY <1>4, DisposeTruthful DEF Accepted, Replayed
<1>5. CASE event \in {"candidate", "phase", "artifact"}
  BY <1>5, EventsTruthful DEF Replayed
<1> QED BY <1>2, <1>3, <1>4, <1>5 DEF Replays

LEMMA AcceptedIsOpen ==
    ASSUME NEW a, NEW event \in DOMAIN Replays, NEW usage, Accepted(a, event, usage)
    PROVE  Open(a)
BY DEF Accepted, Replays, MaySubmit, MayFinishCall, MayRecordCost, MayFinishPhase, MayDispose

LEMMA ReplayEventSpend ==
    ASSUME BothInv, NEW o \in Operators, NEW event \in DOMAIN Replays, ReplayEvent(o, event)
    PROVE  SpendInv'
<1> DEFINE g == on[o]
<1>7. PICK amount \in IF event = "artifact" THEN Measures ELSE {transaction[g]} :
          AppendOnly(o, g, Accepted(Of(g), event, amount), Replayed(Of(g), event, amount),
                     AfterReplay[event], "crash_recovery")
  BY ReplayAppends
<1> DEFINE accepted == Accepted(Of(g), event, amount)
           new == Replayed(Of(g), event, amount)
<1>1. /\ pc[o] = Replays[event] /\ pc[o] # "idle" /\ g \in Generators /\ OperatorSpend(o)
      /\ Append(o, g, accepted, new, AfterReplay[event], "crash_recovery")
      /\ UNCHANGED <<answer, missing, on>>
  BY <1>7, ReplayAppends, OperatorIsSomewhere
  DEF AppendOnly, Replays, locals, BothInv, SpendInv
<1>2. event \in {"candidate", "call", "cost"} => Kept(g)
  BY <1>1 DEF OperatorSpend, Replays, Replaying
<1>3. accepted => Open(Of(g))
  BY AcceptedIsOpen
<1>4. accepted /\ Present(g) => Truthful(Of(g), new)
  BY <1>1, <1>2, <1>7, ReplayTruthful
<1>5. Leads(o, AfterReplay[event]) /\ Leads(o, "crash_recovery")
  BY <1>2 DEF Leads, AfterReplay, Replays, Replaying, Evaluating
<1>6. missing' = [missing EXCEPT ![o] = missing'[o]]
  BY <1>1 DEF BothInv, SpendInv, Processes
<1> HIDE DEF accepted, new
<1> QED BY <1>1, <1>3, <1>4, <1>5, <1>6, AppendLed

LEMMA RecoverySpend ==
    ASSUME BothInv, NEW o \in Operators, Recovery(o)
    PROVE  SpendInv'
<1> DEFINE g == on[o]
<1>1. pc[o] # "idle" => g \in Generators /\ OperatorSpend(o)
  BY OperatorIsSomewhere DEF BothInv, SpendInv
<1>2. missing' = missing => missing' = [missing EXCEPT ![o] = missing'[o]]
  BY DEF BothInv, SpendInv, Processes
<1>3. /\ \A label \in {"done", "crash_recovery", "phase", "artifact", "disposition"} :
             Leads(o, label)
      /\ Kept(g) => Leads(o, "candidate")
  BY DEF Leads, Replaying, Evaluating
<1>4. /\ MayCrash(Of(g)) => Open(Of(g))
      /\ MayRecover(Of(g)) => Of(g) # NoAttempt
      /\ g \in Generators /\ Present(g) => /\ Truthful(Of(g), Crash(Of(g)))
                                          /\ Truthful(Of(g), Recover(Of(g)))
  BY EventsTruthful DEF MayCrash, MayRecover, NoAttempt
<1>5. CASE CheckSpend(o)
  <2>1. CASE Look(o, "phase") /\ pc[o] = "spend"
    BY <1>3, <2>1, StillLed DEF Look, ledger, files, locals
  <2>2. CASE /\ AppendOnly(o, g, MayCrash(Of(g)), Crash(Of(g)), "done", "done")
             /\ pc[o] = "spend"
    BY <1>1, <1>2, <1>3, <1>4, <2>2, AppendLed DEF AppendOnly, locals
  <2> QED BY <1>5, <2>1, <2>2 DEF CheckSpend
<1>6. CASE CheckWall(o) \/ CheckReservation(o)
  BY <1>3, <1>6, StillLed DEF CheckWall, CheckReservation, Look, ledger, files, locals
<1>7. CASE CrashRecovery(o)
  BY <1>1, <1>2, <1>3, <1>4, <1>7, AppendLed DEF CrashRecovery, AppendOnly, locals
<1>8. ASSUME NEW event \in DOMAIN Replays, LookForEvent(o, event)
      PROVE  SpendInv'
  <2>1. /\ pc[o] = event /\ event # "idle"
        /\ UNCHANGED <<attempts, transaction, answer, missing, on>>
    BY <1>8 DEF LookForEvent, Look, Replays, ledger, files, locals
  <2>2. PICK label \in {Replays[event], AfterReplay[event], "crash_recovery"} : Goto(o, label)
    BY <1>8 DEF LookForEvent, Look
  <2>3. Leads(o, label)
    BY <1>1, <2>1, <2>2 DEF Leads, OperatorSpend, Replays, AfterReplay, Replaying, Evaluating
  <2> QED BY <2>1, <2>2, <2>3, StillLed
<1>9. CASE StartRecovery(o)
  <2>1. CASE Look(o, "candidate") /\ Kept(g) /\ pc[o] = "recover"
    BY <1>3, <2>1, StillLed DEF Look, ledger, files, locals
  <2>2. ASSUME NEW accepted, accepted => Kept(g) /\ MayRecover(Of(g)), pc[o] = "recover",
               AppendOnly(o, g, accepted, Recover(Of(g)), "candidate", "crash_recovery")
        PROVE  SpendInv'
    <3>1. pc[o] # "idle" /\ UNCHANGED <<answer, on, missing>>
      BY <2>2 DEF AppendOnly, locals
    <3>2. CASE accepted
      BY <1>1, <1>2, <1>3, <1>4, <2>2, <3>1, <3>2, AppendLed DEF AppendOnly
    <3>3. CASE ~accepted
      BY <1>3, <2>2, <3>1, <3>3, StillLed DEF AppendOnly, Append, files
    <3> QED BY <3>2, <3>3
  <2> QED BY <1>9, <2>1, <2>2 DEF StartRecovery
<1> QED BY <1>5, <1>6, <1>7, <1>8, <1>9, EnterSpend, ReplayEventSpend DEF Recovery

LEMMA StartEvaluationSpend ==
    ASSUME BothInv, NEW o \in Operators, StartEvaluation(o)
    PROVE  SpendInv'
<1> DEFINE g == on[o]
<1>1. /\ pc[o] = "evaluate" /\ pc' = [pc EXCEPT ![o] = pc'[o]]
      /\ pc'[o] \in {"costs", "capability", "done"}
      /\ pc'[o] # "done" => Of(g).disposition # "none"
      /\ UNCHANGED <<attempts, transaction, answer, missing, on>>
  BY DEF StartEvaluation, Goto, ledger, files, BothInv, FileInv, Shapes, Processes
<1>2. g \in Generators /\ OperatorSpend(o) /\ pc'[g] # "idle"
  <2>1. g \in Generators /\ OperatorSpend(o)
    BY <1>1, OperatorIsSomewhere DEF BothInv, SpendInv
  <2> QED BY <1>1, <2>1 DEF OperatorSpend, BothInv, FileInv, Shapes, Processes
<1>3. Of(g).disposition # "none" => Settled(g)
  BY <1>2, OpenIsPresent, MeasuredIsKnown DEF Settled, Present, SpendOf, Known
<1>4. Settled(g) => Settled(on[o])'
  BY <1>1 DEF Settled, Of
<1>5. OperatorSpend(o)'
  BY <1>1, <1>2, <1>3, <1>4 DEF OperatorSpend, Replaying, Evaluating
<1>6. /\ missing' = [missing EXCEPT ![o] = missing'[o]] /\ on' = [on EXCEPT ![o] = on'[o]]
      /\ LedgerTruthful
  BY <1>1, SameTruthful DEF BothInv, FileInv, Shapes, SpendInv, Processes
<1> QED BY <1>1, <1>5, <1>6, OperatorTruthful DEF TruthfulStep

\* An evaluation records no model cost: the attempt has one, or is gone.
LEMMA FillCostsSpend ==
    ASSUME BothInv, NEW o \in Operators, FillCosts(o)
    PROVE  SpendInv'
<1> DEFINE g == on[o]
           k == NextMissing(o)
           amount == missing[o][k]
           new == RecordCost(Of(g), k, amount)
           next == IF DOMAIN missing[o] = {k} THEN "start_results" ELSE "fill_costs"
           accepted == MayRecordCost(Of(g), k, amount)
<1>1. /\ pc[o] = "fill_costs" /\ Append(o, g, accepted, new, next, "crash_evaluation")
      /\ UNCHANGED <<answer, on>> /\ g \in Generators /\ OperatorSpend(o)
      /\ missing' = [missing EXCEPT ![o] = missing'[o]]
  BY OperatorIsSomewhere DEF FillCosts, AppendMissing, BothInv, SpendInv, Processes
<1>2. accepted => Open(Of(g)) /\ k # "model"
  BY <1>1 DEF MayRecordCost, OperatorSpend, Evaluating, Settled, Open, NoAttempt
<1>3. accepted /\ Present(g) => Truthful(Of(g), new)
  BY <1>1, <1>2, EventsTruthful
<1>4. Leads(o, next) /\ Leads(o, "crash_evaluation")
  BY <1>1 DEF Leads, Replaying, Evaluating
<1> HIDE DEF accepted, new, next
<1> QED BY <1>1, <1>2, <1>3, <1>4, AppendLed

LEMMA EvaluationSpend ==
    ASSUME BothInv, NEW o \in Operators, Evaluation(o)
    PROVE  SpendInv'
<1> DEFINE g == on[o]
<1>1. pc[o] # "idle" => g \in Generators
  BY OperatorIsSomewhere DEF BothInv
<1>2. missing' = missing => missing' = [missing EXCEPT ![o] = missing'[o]]
  BY DEF BothInv, SpendInv, Processes
<1>3. \A label \in Evaluating \cup {"done"} :
          pc[o] \in Evaluating => Leads(o, label) /\ pc[o] # "idle"
  BY DEF Leads, Replaying, Evaluating
<1>4. ASSUME NEW accepted, NEW new, NEW next \in Evaluating \cup {"done"},
             NEW rejected \in Evaluating \cup {"done"},
             AppendEvaluation(o, accepted, new, next, rejected), pc[o] \in Evaluating,
             accepted => Of(g) # NoAttempt \/ Open(Of(g)), UNCHANGED <<answer, missing, on>>,
             accepted /\ g \in Generators /\ Present(g) => Truthful(Of(g), new)
      PROVE  SpendInv'
  BY <1>1, <1>2, <1>3, <1>4, AppendLed DEF AppendEvaluation
<1>5. ASSUME NEW label \in Evaluating \cup {"done"}, Goto(o, label), pc[o] \in Evaluating,
             UNCHANGED <<attempts, transaction, answer, missing, on>>
      PROVE  SpendInv'
  BY <1>3, <1>5, StillLed
<1>6. CASE TakeCapability(o) \/ RunDifferential(o) \/ FailEvaluation(o)
  BY <1>5, <1>6
  DEF TakeCapability, RunDifferential, FailEvaluation, Look, Evaluating, ledger, files, locals
<1>7. CASE StartDifferential(o) \/ StartResults(o)
  BY <1>4, <1>7, EventsTruthful
  DEF StartDifferential, StartResults, MayStartPhase, Evaluating, locals
<1>8. CASE EndDifferential(o) \/ CloseDifferential(o) \/ EndResults(o)
  BY <1>4, <1>8, EventsTruthful
  DEF EndDifferential, CloseDifferential, EndResults, MayFinishPhase, Evaluating, locals
<1>9. CASE RecordSandbox(o) \/ RecordStorage(o)
  <2>1. pc[o] \in Evaluating /\ UNCHANGED <<answer, missing, on>>
    BY <1>9, MeasureAppends DEF Evaluating
  <2>2. PICK k \in {"sandbox", "storage"}, amount \in Measures,
             next \in Evaluating \cup {"done"}, rejected \in Evaluating \cup {"done"} :
             AppendEvaluation(o, MayRecordCost(Of(g), k, amount),
                              RecordCost(Of(g), k, amount), next, rejected)
    BY <1>9, MeasureAppends DEF Evaluating
  <2> QED BY <1>4, <2>1, <2>2, EventsTruthful DEF MayRecordCost
<1>10. CASE EndAttempt(o)
  BY <1>4, <1>10, EventsTruthful DEF EndAttempt, MayFinishAttempt, Evaluating, locals
<1>11. CASE CrashEvaluation(o)
  BY <1>4, <1>11, EventsTruthful DEF CrashEvaluation, MayCrash, Evaluating, locals
<1>12. CASE FindCosts(o)
  <2>1. /\ pc[o] = "costs" /\ UNCHANGED <<attempts, transaction, answer, on>>
        /\ \E label \in {"fill_costs", "start_results"} : Goto(o, label)
        /\ missing' = [missing EXCEPT ![o] = missing'[o]]
    BY <1>12 DEF FindCosts, FindMissing, ledger, files, BothInv, SpendInv, Processes
  <2> QED BY <1>3, <2>1, SameTruthful, LedOperator DEF BothInv, Evaluating
<1>13. ASSUME NEW file \in {"private", "public"}, WriteResult(o, file)
       PROVE  SpendInv'
  BY <1>5, <1>13 DEF WriteResult, WriteRecord, Evaluating, ledger, locals
<1> QED
  BY <1>6, <1>7, <1>8, <1>9, <1>10, <1>11, <1>12, <1>13, EnterSpend, StartEvaluationSpend,
     FillCostsSpend
  DEF Evaluation
-----------------------------------------------------------------------------

LEMMA InitSpend == RunnerInit => SpendInv
<1> SUFFICES ASSUME RunnerInit PROVE SpendInv
  OBVIOUS
<1> USE DEF RunnerInit, Blank
<1>1. \A c \in Cases : SpendOf(c)
  BY DEF LedgerInit, SpendOf, NoAttempt
<1>2. \A g \in Generators : GeneratorSpend(g)
  BY DEF GeneratorSpend, NoAnswer, Kept, Processes
<1>3. \A o \in Operators : OperatorSpend(o)
  BY DEF OperatorSpend, Replaying, Evaluating, Processes
<1> QED BY <1>1, <1>2, <1>3 DEF SpendInv

LEMMA StepSpend == BothInv /\ [RunnerNext]_vars => SpendInv'
<1> SUFFICES ASSUME BothInv, [RunnerNext]_vars
             PROVE  SpendInv'
  OBVIOUS
<1>1. ASSUME NEW g \in Generators, Generate(g)
      PROVE  SpendInv'
  BY <1>1, GenerateSpend
<1>2. ASSUME NEW o \in Operators, Recovery(o) \/ Evaluation(o)
      PROVE  SpendInv'
  BY <1>2, RecoverySpend, EvaluationSpend
<1>3. ASSUME NEW p \in Processes, Kill(p)
      PROVE  SpendInv'
  <2>1. /\ Goto(p, "killed") /\ pc[p] # "idle"
        /\ UNCHANGED <<attempts, transaction, answer, on>>
        /\ missing' = [missing EXCEPT ![p] = missing'[p]]
    BY <1>3 DEF Kill, AtRest, ledger, files, BothInv, SpendInv, Processes
  <2>2. LedgerTruthful
    BY <2>1, SameTruthful DEF BothInv
  <2>3. CASE p \in Generators
    <3>1. pc' = [pc EXCEPT ![p] = pc'[p]] /\ pc'[p] = "killed"
      BY <2>1 DEF Goto, BothInv, FileInv, Shapes, Processes
    <3> QED
      BY <2>1, <2>2, <2>3, <3>1, GeneratorTruthful
      DEF TruthfulStep, Onwards, Awaiting, Before
  <2>4. CASE p \in Operators
    BY <2>1, <2>2, <2>4, LedOperator DEF Leads, Replaying, Evaluating
  <2> QED BY <2>3, <2>4 DEF Processes
<1>4. ASSUME UNCHANGED <<attempts, transaction, answer, missing, on, pc>>
      PROVE  SpendInv'
  BY <1>4 DEF BothInv, SpendInv, SpendOf, GeneratorSpend, MissingIsTrue, OperatorSpend,
              Settled, Kept, Of, Unmatched, Called, Known
<1>5. CASE Freeze
  BY <1>4, <1>5 DEF Freeze, files, locals
<1>6. CASE LoseLedger
  <2>1. /\ attempts' = [c \in Cases |-> NoAttempt]
        /\ UNCHANGED <<transaction, answer, missing, on, pc>>
    BY <1>6 DEF LoseLedger, files, locals
  <2>2. LedgerTruthful
    BY <2>1 DEF LedgerTruthful
  <2>3. \A c \in Cases : SpendOf(c)'
    BY <2>1 DEF SpendOf, NoAttempt
  <2>4. \A g \in Generators : GeneratorSpend(g)'
    BY <2>1, <2>2, OthersGenerator
  <2>5. \A o \in Operators : OperatorSpend(o)'
    BY <2>1, <2>2, OthersOperator
  <2> QED BY <2>1, <2>3, <2>4, <2>5 DEF BothInv, SpendInv
<1>7. CASE UNCHANGED vars
  BY <1>4, <1>7 DEF vars, ledger, files, locals
<1> QED BY <1>1, <1>2, <1>3, <1>5, <1>6, <1>7 DEF RunnerNext

LEMMA SpendIsTrue == BothInv => SealedSpendIsTrue
<1> SUFFICES ASSUME BothInv, NEW c \in Cases, attempts[c].disposition # "none"
             PROVE  LET a == attempts[c] IN
                    a.costs["model"] = IF answer[a.id] = NoAnswer THEN "zero"
                                       ELSE answer[a.id].usage
  BY DEF SealedSpendIsTrue
<1>1. SpendOf(c) /\ attempts[c].id # NoOne
  BY DEF BothInv, SpendInv, SpendOf, NoAttempt
<1> QED BY <1>1, MeasuredIsKnown DEF SpendOf, Known, NoAnswer

\* A frozen disposition says what the call really cost: what the provider reported, or
\* zero if there was no call, and no amount that was only guessed.  It may have been
\* recorded by the process that called, or by recoveries that ran meanwhile or after
\* it was killed (_require_known_model_cost_after_call, _ensure_generation_costs).
THEOREM SealedSpendStaysTrue == RunnerSpec => []SealedSpendIsTrue
<1>1. RunnerInit => BothInv
  BY InitFiles, InitSpend DEF BothInv
<1>2. BothInv /\ [RunnerNext]_vars => BothInv'
  BY StepFiles, StepSpend DEF BothInv
<1> QED BY <1>1, <1>2, SpendIsTrue, PTL DEF RunnerSpec

-----------------------------------------------------------------------------
(***************************************************************************)
(* How the generation of an attempt ends, and what follows it: whoever     *)
(* returns has left an account of it, one invocation at most evaluates it, *)
(* and nothing that the generation barrier commits to changes.             *)
(*                                                                         *)
(* The first event that an invocation appends is a trace: a phase that was *)
(* begun, a cost that the generation does not have, or the end.  The lock  *)
(* of an attempt has one holder among those that run, and one that begins  *)
(* has found no trace.  A trace stays as long as the attempt is in the     *)
(* chain, for nothing is taken back but a crash, by a recovery, which is   *)
(* over once the barrier is frozen; and an attempt that a deleted ledger   *)
(* forgot is never begun again, as its process ran before.                 *)
(*                                                                         *)
(* The barrier is frozen over dispositions only, and a disposition comes   *)
(* after the generation phase and every cost of it.  Each event is Onward: *)
(* it adds to what an attempt has, and behind a disposition it adds only   *)
(* what belongs to the evaluation.                                         *)
(*                                                                         *)
(* As long as a process is the only one that has written to its attempt,   *)
(* and until the attempt is ended, late or recovered, OnTrack says what    *)
(* the attempt is like at each label of the process: no event on the way   *)
(* out of generate_v02_scored_case is then rejected.  A recovery announces *)
(* itself before it touches the attempt, and an evaluation waits for the   *)
(* barrier, behind which every attempt has its disposition.                *)
(***************************************************************************)

\* Somebody evaluated attempt a, and whoever looks at it sees that.
Traced(a) == \/ Terminal(a) \/ a.began \cap {"differential", "result_write"} # {}
             \/ ~(Recorded(a) \subseteq BeforeBarrier)

\* No evaluation of attempt g is taken up by another one.
EvaluatedOnce(g) ==
    /\ \A o, q \in evaluators[g] : o = q
    /\ evaluators[g] # {} => /\ pc[g] # "idle"
                             /\ Of(g) # NoAttempt => barrier /\ Traced(Of(g))

\* What an operator found missing is a cost of the evaluation.
MissingIsOwn(o) ==
    LET own == missing[o] IN
    /\ own = [k \in DOMAIN own |-> own[k]]
    /\ DOMAIN own \subseteq {"sandbox", "storage"}
    /\ \A k \in DOMAIN own : own[k] # "absent"

\* Operator o has the lock of what it works on, and is the first to evaluate it.
FirstOperator(o) ==
    /\ \A q \in Operators : ~AtRest(o) /\ ~AtRest(q) /\ on[q] = on[o] => q = o
    /\ pc[o] # "idle" => pc[on[o]] # "idle"
    /\ pc[o] \in Evaluating =>
           /\ evaluators[on[o]] \subseteq {o}
           /\ Of(on[o]) # NoAttempt => /\ barrier
                                       /\ BeforeBarrier \subseteq Recorded(Of(on[o]))
    /\ pc[o] = "fill_costs" /\ Of(on[o]) # NoAttempt => MissingIsOwn(o)

\* The phase it is in was begun, an attempt that is there is open or ended, and one
\* that has its disposition is past its generation.
WellFormed(a) == /\ a.phase # "none" => a.phase \in a.began
                 /\ a.costs = [k \in Categories |-> a.costs[k]]
                 /\ a.id # NoOne => Open(a) \/ Terminal(a)
                 /\ a.disposition # "none" => /\ "generation" \in a.ended
                                              /\ a.phase # "generation"
                                              /\ BeforeBarrier \subseteq Recorded(a)

\* Only a process that runs or ran has an attempt.
Began(c) == attempts[c].id \in Generators => pc[attempts[c].id] # "idle"

\* The barrier is frozen over dispositions.
AllDisposed == barrier => \A c \in Cases : attempts[c].disposition # "none"

OnceInv == /\ AllDisposed
           /\ evaluators = [g \in Generators |-> evaluators[g]]
           /\ missing = [p \in Processes |-> missing[p]]
           /\ \A c \in Cases : WellFormed(attempts[c]) /\ Began(c)
           /\ \A g \in Generators : EvaluatedOnce(g)
           /\ \A o \in Operators : FirstOperator(o)

Evaluated == FileInv /\ OnceInv

\* An attempt that somebody works on is recovered for as long as it is there.
StayRecovered ==
    \A g \in Generators :
        pc[g] # "idle" /\ Of(g)' # NoAttempt =>
            Of(g) # NoAttempt /\ (Of(g).recovered => Of(g)'.recovered)

\* What a step does: it keeps the invariant, and what the barrier commits to.
OnceStep ==
    /\ OnceInv' /\ StayRecovered
    /\ barrier /\ barrier' =>
           \A c \in Cases : Generated(attempts'[c]) = Generated(attempts[c])

-----------------------------------------------------------------------------
(* Events that leave the trace of an evaluation *)

\* b is what an event makes of a: it takes nothing back, but for a recovery, which
\* only the barrier keeps from taking back a crash.
Onward(a, b) ==
    /\ b.id = a.id /\ WellFormed(b)
    /\ Recorded(a) \subseteq Recorded(b)
    /\ a.began \subseteq b.began
    /\ barrier /\ Terminal(a) => Terminal(b)
    /\ a.disposition # "none" => b.disposition # "none"
    /\ a.recovered => b.recovered
    /\ barrier /\ a.disposition # "none" => Generated(b) = Generated(a)

LedgerOnward ==
    /\ attempts' = [c \in Cases |-> attempts'[c]]
    /\ barrier' = barrier
    /\ \A c \in Cases : Onward(attempts[c], attempts'[c])

LEMMA SameOnward ==
    ASSUME Evaluated, attempts' = attempts, barrier' = barrier
    PROVE  LedgerOnward
BY DEF Evaluated, OnceInv, FileInv, Shapes, LedgerOnward, Onward

LEMMA AppendOnward ==
    ASSUME Evaluated, NEW p, NEW g \in Generators, NEW accepted, NEW new, NEW next,
           NEW rejected, Append(p, g, accepted, new, next, rejected),
           accepted => Of(g) # NoAttempt \/ Open(Of(g)),
           accepted /\ IsAttempt(Of(g)) /\ WellFormed(Of(g)) => Onward(Of(g), new)
    PROVE  LedgerOnward
<1>1. CASE attempts' = attempts
  BY <1>1, SameOnward DEF Append
<1>2. CASE accepted /\ attempts' = [attempts EXCEPT ![CaseOf[g]] = new]
  <2>1. CaseOf[g] \in Cases /\ Of(g) = attempts[CaseOf[g]]
    BY <1>2, AttemptAssumption DEF Of, Open, NoAttempt
  <2>2. Onward(attempts[CaseOf[g]], new)
    BY <1>2, <2>1 DEF Evaluated, OnceInv, FileInv, OnFile
  <2>3. \A c \in Cases : Onward(attempts[c], attempts[c])
    BY DEF Onward, Evaluated, OnceInv
  <2> QED BY <1>2, <2>1, <2>2, <2>3 DEF Append, Evaluated, FileInv, Shapes, LedgerOnward
<1> QED BY <1>1, <1>2 DEF Append

LEMMA EventsOnward ==
    ASSUME NEW a, IsAttempt(a), WellFormed(a)
    PROVE  /\ \A phase : MayStartPhase(a, phase) => Onward(a, StartPhase(a, phase))
           /\ \A status : Onward(a, FinishPhase(a, status))
           /\ MayStartCall(a) => Onward(a, StartCall(a))
           /\ MaySubmit(a) => Onward(a, Submit(a))
           /\ \A status, usage : MayFinishCall(a, status) =>
                  Onward(a, FinishCall(a, status, usage))
           /\ \A category, amount : MayRecordCost(a, category, amount) =>
                  Onward(a, RecordCost(a, category, amount))
           /\ \A status : MayDispose(a, status) /\ status # "none" =>
                  Onward(a, Dispose(a, status))
           /\ \A outcome : Onward(a, FinishAttempt(a, outcome))
           /\ Onward(a, Crash(a)) /\ (~barrier => Onward(a, Recover(a)))
<1> USE DEF Onward, IsAttempt, NoAttempt, WellFormed, Recorded, Terminal, Open
<1>1. ASSUME NEW phase, MayStartPhase(a, phase)  PROVE Onward(a, StartPhase(a, phase))
  BY <1>1 DEF StartPhase, MayStartPhase, Generated
<1>2. ASSUME NEW status  PROVE Onward(a, FinishPhase(a, status))
  BY DEF FinishPhase, Generated
<1>3. ASSUME MayStartCall(a) PROVE Onward(a, StartCall(a))
  BY <1>3 DEF StartCall, MayStartCall
<1>4. ASSUME MaySubmit(a) PROVE Onward(a, Submit(a))
  BY <1>4 DEF Submit, MaySubmit
<1>5. ASSUME NEW status, NEW usage, MayFinishCall(a, status)
      PROVE  Onward(a, FinishCall(a, status, usage))
  BY <1>5 DEF FinishCall, MayFinishCall
<1>6. ASSUME NEW category, NEW amount, MayRecordCost(a, category, amount)
      PROVE  Onward(a, RecordCost(a, category, amount))
  <2> DEFINE b == RecordCost(a, category, amount)
  <2>1. /\ a.costs[category] = "absent" /\ \A k \in Categories \ {category} : b.costs[k] = a.costs[k]
        /\ BeforeBarrier \subseteq Categories
    BY <1>6 DEF RecordCost, MayRecordCost, Categories
  <2>2. a.disposition # "none" => category \notin BeforeBarrier
    BY <2>1
  <2>3. a.disposition # "none" => Generated(b) = Generated(a)
    BY <2>1, <2>2 DEF RecordCost, Generated
  <2> QED BY <1>6, <2>1, <2>3 DEF RecordCost, MayRecordCost
<1>7. ASSUME NEW status, MayDispose(a, status), status # "none"
      PROVE  Onward(a, Dispose(a, status))
  BY <1>7 DEF Dispose, MayDispose
<1>8. ASSUME NEW outcome  PROVE Onward(a, FinishAttempt(a, outcome))
  BY DEF FinishAttempt, Generated
<1>9. Onward(a, Crash(a)) /\ (~barrier => Onward(a, Recover(a)))
  BY DEF Crash, Recover, Generated
<1> HIDE DEF Onward, IsAttempt, NoAttempt, WellFormed, Recorded, Terminal, Open
<1> QED BY <1>1, <1>2, <1>3, <1>4, <1>5, <1>6, <1>7, <1>8, <1>9

\* What it keeps of the attempt of g.
LEMMA OnwardOf ==
    ASSUME LedgerOnward, NEW g \in Generators
    PROVE  /\ Of(g)' # NoAttempt => Of(g) # NoAttempt
           /\ barrier /\ Of(g)' # NoAttempt /\ Traced(Of(g)) => Traced(Of(g)')
           /\ Of(g)' # NoAttempt => Recorded(Of(g)) \subseteq Recorded(Of(g)')
           /\ Of(g)' # NoAttempt => (Of(g).recovered => Of(g)'.recovered)
<1> DEFINE a == attempts[CaseOf[g]]
           b == attempts'[CaseOf[g]]
<1>1. CaseOf[g] \in Cases /\ g # NoOne /\ Onward(a, b)
  BY AttemptAssumption DEF LedgerOnward
<1>2. CASE b.id = g
  <2>1. Of(g) = a /\ Of(g)' = b /\ a # NoAttempt
    <3>1. NoAttempt.id = NoOne /\ a.id = g
      BY <1>1, <1>2 DEF NoAttempt, Onward
    <3> QED BY <1>1, <1>2, <3>1 DEF Of
  <2> QED BY <1>1, <2>1 DEF Onward, Traced
<1>3. CASE b.id # g
  BY <1>3 DEF Of
<1> QED BY <1>2, <1>3

-----------------------------------------------------------------------------
(* Steps that take nothing back *)

\* A step of p.
StepOf(p) ==
    /\ LedgerOnward
    /\ pc' = [pc EXCEPT ![p] = pc'[p]] /\ pc'[p] # "idle"
    /\ missing' = [missing EXCEPT ![p] = missing'[p]]

LEMMA OthersAlike ==
    ASSUME Evaluated, NEW p \in Processes, StepOf(p)
    PROVE  /\ \A q \in Processes \ {p} : pc'[q] = pc[q] /\ missing'[q] = missing[q]
           /\ \A q \in Processes : pc[q] # "idle" => pc'[q] # "idle"
           /\ missing' = [q \in Processes |-> missing'[q]]
           /\ \A c \in Cases : WellFormed(attempts'[c]) /\ Began(c)'
           /\ AllDisposed' /\ StayRecovered
           /\ barrier => \A c \in Cases : Generated(attempts'[c]) = Generated(attempts[c])
<1>1. /\ \A q \in Processes \ {p} : pc'[q] = pc[q] /\ missing'[q] = missing[q]
      /\ \A q \in Processes : pc[q] # "idle" => pc'[q] # "idle"
      /\ missing' = [q \in Processes |-> missing'[q]]
  BY DEF Evaluated, OnceInv, FileInv, Shapes, StepOf
<1>2. \A c \in Cases : attempts'[c].id = attempts[c].id /\ WellFormed(attempts'[c])
  BY DEF StepOf, LedgerOnward, Onward
<1>3. \A c \in Cases : Began(c)'
  BY <1>1, <1>2 DEF Evaluated, OnceInv, Began, Processes
<1>4. /\ AllDisposed'
      /\ barrier => \A c \in Cases : Generated(attempts'[c]) = Generated(attempts[c])
  BY DEF Evaluated, OnceInv, AllDisposed, StepOf, LedgerOnward, Onward
<1>5. StayRecovered
  BY OnwardOf DEF StepOf, StayRecovered
<1> QED BY <1>1, <1>2, <1>3, <1>4, <1>5

\* Who did not append to an evaluation leaves it as it was.
LEMMA EvaluatedAlike ==
    ASSUME Evaluated, NEW p \in Processes, StepOf(p), NEW g \in Generators,
           evaluators'[g] = evaluators[g]
    PROVE  EvaluatedOnce(g)'
<1>1. EvaluatedOnce(g) /\ (pc[g] # "idle" => pc'[g] # "idle")
  BY OthersAlike DEF Evaluated, OnceInv, Processes
<1> QED BY <1>1, OnwardOf DEF EvaluatedOnce, StepOf, LedgerOnward

LEMMA OperatorAlike ==
    ASSUME Evaluated, NEW p \in Processes, StepOf(p), NEW o \in Operators,
           pc'[o] = pc[o], missing'[o] = missing[o], UNCHANGED on,
           ~AtRest(p)' => ~AtRest(p) \/ p \notin Operators,
           \A g \in Generators : pc[o] \in Evaluating /\ on[o] = g
                                 => evaluators'[g] = evaluators[g]
    PROVE  FirstOperator(o)'
<1>1. FirstOperator(o) /\ OperatorInv(o)
  BY DEF Evaluated, FileInv, OnceInv
<1>2. \A q \in Operators : ~AtRest(q)' => ~AtRest(q)
  <2>1. \A q \in Operators \ {p} : pc'[q] = pc[q]
    BY OthersAlike DEF Processes
  <2> QED BY <2>1 DEF AtRest
<1>3. CASE pc[o] = "idle"
  BY <1>1, <1>2, <1>3 DEF FirstOperator, Evaluating, AtRest
<1>4. CASE pc[o] # "idle"
  <2>1. PICK g \in Generators : g = on[o]
    BY <1>1, <1>4 DEF OperatorInv
  <2>2. pc'[g] # "idle"
    BY <1>1, <1>4, <2>1, OthersAlike DEF FirstOperator, Processes
  <2>3. /\ Of(g)' # NoAttempt => Of(g) # NoAttempt
        /\ Of(g)' # NoAttempt => Recorded(Of(g)) \subseteq Recorded(Of(g)')
        /\ barrier => barrier'
    BY OnwardOf DEF StepOf, LedgerOnward
  <2>4. on'[o] = g /\ (pc[o] \in Evaluating => evaluators'[g] = evaluators[g])
    BY <2>1
  <2>5. Of(on[o])' = Of(g)'
    BY <2>1, <2>4 DEF Of
  <2>6. pc[o] \in Evaluating => /\ evaluators'[g] \subseteq {o}
                                /\ Of(g)' # NoAttempt =>
                                       barrier' /\ BeforeBarrier \subseteq Recorded(Of(g)')
    BY <1>1, <2>1, <2>3, <2>4 DEF FirstOperator
  <2>7. pc[o] = "fill_costs" /\ Of(g)' # NoAttempt => MissingIsOwn(o)'
    BY <1>1, <2>1, <2>3 DEF FirstOperator, MissingIsOwn
  <2>8. \A q \in Operators : ~AtRest(o)' /\ ~AtRest(q)' /\ on'[q] = on'[o] => q = o
    BY <1>1, <1>2 DEF FirstOperator, AtRest
  <2> QED BY <2>2, <2>4, <2>5, <2>6, <2>7, <2>8 DEF FirstOperator
<1> QED BY <1>3, <1>4

LEMMA GeneratorOnce ==
    ASSUME Evaluated, NEW g \in Generators, StepOf(g), UNCHANGED <<on, evaluators>>
    PROVE  OnceStep
<1>1. g \in Processes /\ g \notin Operators
  BY RunnerAssumption DEF Processes
<1>2. \A h \in Generators : EvaluatedOnce(h)'
  BY <1>1, EvaluatedAlike
<1>3. \A o \in Operators : FirstOperator(o)'
  <2>1. \A o \in Operators : pc'[o] = pc[o] /\ missing'[o] = missing[o]
    BY <1>1, OthersAlike DEF Processes
  <2> QED BY <1>1, <2>1, OperatorAlike
<1> QED BY <1>1, <1>2, <1>3, OthersAlike DEF Evaluated, OnceInv, OnceStep

\* The evaluation of operator o leaves its trace.
Traces(o) ==
    /\ evaluators' = [evaluators EXCEPT ![on[o]] = @ \cup {o}]
    /\ Of(on[o])' # NoAttempt => Traced(Of(on[o])')

LEMMA OperatorOnce ==
    ASSUME Evaluated, NEW o \in Operators, ~AtRest(o), StepOf(o), on' = on,
           pc'[o] \in Evaluating => pc[o] \in Evaluating,
           pc'[o] = "fill_costs" /\ Of(on[o])' # NoAttempt => MissingIsOwn(o)',
           evaluators' = evaluators \/ (pc[o] \in Evaluating /\ Traces(o))
    PROVE  OnceStep
<1>1. o \in Processes /\ pc[o] # "idle"
  BY DEF Processes, AtRest
<1>2. PICK g \in Generators : g = on[o]
  BY <1>1, OperatorIsSomewhere DEF Evaluated
<1>3. FirstOperator(o)
  BY DEF Evaluated, OnceInv
<1>4. pc[o] \in Evaluating => evaluators[g] \subseteq {o}
  BY <1>2, <1>3 DEF FirstOperator
<1>5. /\ evaluators' = [h \in Generators |-> evaluators'[h]]
      /\ \A h \in Generators \ {g} : evaluators'[h] = evaluators[h]
      /\ evaluators'[g] = evaluators[g] \/ evaluators'[g] = evaluators[g] \cup {o}
  BY <1>2 DEF Evaluated, OnceInv, Traces
<1>6. pc[g] # "idle" /\ pc'[g] # "idle"
  BY <1>1, <1>2, <1>3, OthersAlike DEF FirstOperator, Processes
<1>7. EvaluatedOnce(g)'
  <2>1. CASE evaluators' = evaluators
    BY <1>1, <2>1, EvaluatedAlike
  <2>2. CASE pc[o] \in Evaluating /\ Traces(o)
    <3>1. evaluators'[g] \subseteq {o}
      BY <1>4, <1>5, <2>2
    <3>2. Of(on[o])' = Of(g)'
      BY <1>2 DEF Of
    <3>3. Of(g)' # NoAttempt => barrier' /\ Traced(Of(g)')
      BY <1>2, <1>3, <2>2, <3>2, OnwardOf DEF FirstOperator, Traces, StepOf, LedgerOnward
    <3> QED BY <1>6, <3>1, <3>3 DEF EvaluatedOnce
  <2> QED BY <2>1, <2>2
<1>8. \A h \in Generators : EvaluatedOnce(h)'
  BY <1>1, <1>5, <1>7, EvaluatedAlike
<1>9. ASSUME NEW q \in Operators, q # o PROVE FirstOperator(q)'
  <2>1. pc'[q] = pc[q] /\ missing'[q] = missing[q] /\ q \in Processes
    BY <1>1, <1>9, OthersAlike DEF Processes
  <2>2. pc[q] \in Evaluating => on[q] # g
    BY <1>2, <1>3, <1>9 DEF FirstOperator, AtRest, Evaluating
  <2> QED BY <1>1, <1>5, <2>1, <2>2, OperatorAlike
<1>10. FirstOperator(o)'
  <2>1. Of(on[o])' = Of(g)' /\ on'[o] = g
    BY <1>2 DEF Of
  <2>2. /\ Of(g)' # NoAttempt => Of(g) # NoAttempt
        /\ Of(g)' # NoAttempt => Recorded(Of(g)) \subseteq Recorded(Of(g)')
        /\ barrier => barrier'
    BY OnwardOf DEF StepOf, LedgerOnward
  <2>3. pc'[o] \in Evaluating => /\ evaluators'[g] \subseteq {o}
                                 /\ Of(g)' # NoAttempt =>
                                        barrier' /\ BeforeBarrier \subseteq Recorded(Of(g)')
    BY <1>2, <1>3, <1>4, <1>5, <2>2 DEF FirstOperator
  <2>4. \A q \in Operators : ~AtRest(q)' /\ on[q] = on[o] => q = o
    <3>1. \A q \in Operators \ {o} : pc'[q] = pc[q]
      BY <1>1, OthersAlike DEF Processes
    <3> QED BY <1>3, <3>1 DEF FirstOperator, AtRest
  <2> QED BY <1>2, <1>6, <2>1, <2>3, <2>4 DEF FirstOperator
<1> QED BY <1>1, <1>5, <1>8, <1>9, <1>10, OthersAlike DEF OnceInv, OnceStep

-----------------------------------------------------------------------------
(* The steps of a generating process *)

LEMMA AppendStep ==
    ASSUME Evaluated, NEW p \in Processes, NEW g \in Generators, NEW accepted, NEW new,
           NEW next, NEW rejected, Append(p, g, accepted, new, next, rejected),
           accepted => Of(g) # NoAttempt \/ Open(Of(g)),
           accepted /\ IsAttempt(Of(g)) /\ WellFormed(Of(g)) => Onward(Of(g), new),
           next # "idle", rejected # "idle", missing' = [missing EXCEPT ![p] = missing'[p]]
    PROVE  StepOf(p)
<1>1. PICK label \in {next, rejected} : pc' = [pc EXCEPT ![p] = label]
  BY DEF Append, Goto
<1>2. pc' = [pc EXCEPT ![p] = pc'[p]] /\ pc'[p] = label
  BY <1>1 DEF Evaluated, FileInv, Shapes
<1> QED BY <1>2, AppendOnward DEF StepOf

LEMMA StillStep ==
    ASSUME Evaluated, NEW p \in Processes, NEW label, label # "idle", Goto(p, label),
           UNCHANGED <<attempts, barrier>>, missing' = [missing EXCEPT ![p] = missing'[p]]
    PROVE  StepOf(p)
<1>1. pc' = [pc EXCEPT ![p] = pc'[p]] /\ pc'[p] = label
  BY DEF Goto, Evaluated, FileInv, Shapes
<1> QED BY <1>1, SameOnward DEF StepOf

LEMMA SameMissing ==
    ASSUME Evaluated, UNCHANGED missing, NEW p \in Processes
    PROVE  missing' = [missing EXCEPT ![p] = missing'[p]]
BY DEF Evaluated, OnceInv

LEMMA GenerateStep ==
    ASSUME Evaluated, NEW g \in Generators, Generate(g), ~Begin(g)
    PROVE  StepOf(g)
<1> g \in Processes
  BY DEF Processes
<1> DEFINE a == Of(g)
<1>11. CASE RecordArtifact(g)
  <2>1. PICK amount \in Measures, next \in {"fail", "dispose"} :
             AppendOnly(g, g, MayRecordCost(a, "artifact", amount),
                        RecordCost(a, "artifact", amount), next, "fail")
    BY <1>11, ArtifactAppends
  <2>2. MayRecordCost(a, "artifact", amount) => Open(a)
    BY DEF MayRecordCost
  <2> QED BY <2>1, <2>2, AppendStep, EventsOnward, SameMissing DEF AppendOnly, locals
<1>1. CASE RecordPreparation(g) \/ RecordModelCost(g)
  <2>1. \A k, amount : MayRecordCost(a, k, amount) => Open(a)
    BY DEF MayRecordCost
  <2>2. AfterCost(answer[g].kind) # "idle"
    BY DEF AfterCost
  <2> QED
    BY <1>1, <2>1, <2>2, AppendStep, EventsOnward, SameMissing
    DEF RecordPreparation, RecordModelCost, AppendOnly, locals
<1>2. CASE StartGeneration(g)
  BY <1>2, AppendStep, EventsOnward, SameMissing DEF StartGeneration, MayStartPhase, locals
<1>3. CASE BeginCall(g) \/ EndCall(g)
  BY <1>3, AppendStep, EventsOnward, SameMissing
  DEF BeginCall, EndCall, MayStartCall, MayFinishCall, AppendOnly, locals
<1>4. CASE EndGeneration(g) \/ ClosePhase(g) \/ SubmitCandidate(g)
  BY <1>4, AppendStep, EventsOnward, SameMissing
  DEF EndGeneration, ClosePhase, SubmitCandidate, MayFinishPhase, MaySubmit, AppendOnly, locals
<1>5. CASE CrashGeneration(g)
  <2>1. MayCrash(a) => Open(a)
    BY DEF MayCrash
  <2> QED
    BY <1>5, <2>1, AppendStep, EventsOnward, SameMissing DEF CrashGeneration, AppendOnly, locals
<1>6. CASE FillGenerationCosts(g)
  <2> DEFINE k == NextMissing(g)
             accepted == MayRecordCost(a, k, missing[g][k])
             new == RecordCost(a, k, missing[g][k])
             next == IF DOMAIN missing[g] = {k} THEN "dispose" ELSE "fill"
  <2>1. /\ Append(g, g, accepted, new, next, "done")
        /\ missing' = [missing EXCEPT ![g] = missing'[g]]
    BY <1>6 DEF FillGenerationCosts, AppendMissing, Evaluated, OnceInv
  <2>2. /\ accepted => Open(a)
        /\ accepted /\ IsAttempt(a) /\ WellFormed(a) => Onward(a, new)
        /\ next # "idle"
    BY EventsOnward DEF MayRecordCost
  <2> HIDE DEF accepted, new, next
  <2> QED BY <2>1, <2>2, AppendStep
<1>7. CASE DisposeGeneration(g)
  <2>1. CASE Look(g, "crash")
    BY <2>1, StillStep, SameMissing DEF Look, ledger, locals
  <2>2. ASSUME NEW status \in {"candidate_submitted", "no_candidate"},
               AppendOnly(g, g, MayDispose(a, status), Dispose(a, status), "done", "done")
        PROVE  StepOf(g)
    BY <2>2, AppendStep, EventsOnward, SameMissing DEF AppendOnly, MayDispose, locals
  <2> QED BY <1>7, <2>1, <2>2 DEF DisposeGeneration
<1>8. CASE CannotCall(g) \/ LookForArtifact(g) \/ LookForPhase(g)
  BY <1>8, StillStep, SameMissing
  DEF CannotCall, LookForArtifact, LookForPhase, Look, ledger, locals
<1>9. CASE Consume(g) \/ Provider(g) \/ Persist(g) \/ CheckGeneration(g)
  BY <1>9, StillStep, SameMissing
  DEF Consume, Provider, Persist, CheckGeneration, ledger, locals
<1>10. CASE EnsureCosts(g)
  <2>1. /\ missing' = [missing EXCEPT ![g] = missing'[g]] /\ UNCHANGED <<attempts, barrier>>
        /\ \E label \in {"fill", "dispose"} : Goto(g, label)
    BY <1>10 DEF EnsureCosts, FindMissing, ledger, Evaluated, OnceInv
  <2> QED BY <2>1, StillStep
<1> QED
  BY <1>1, <1>2, <1>3, <1>4, <1>5, <1>6, <1>7, <1>8, <1>9, <1>10, <1>11 DEF Generate

LEMMA GenerateAlike ==
    ASSUME NEW g \in Generators, Generate(g)
    PROVE  UNCHANGED <<on, evaluators>>
BY DEF Generate, Begin, RecordPreparation, StartGeneration, CannotCall, Consume, BeginCall,
       Provider, Persist, SubmitCandidate, EndCall, RecordModelCost, EndGeneration,
       CheckGeneration, LookForArtifact, RecordArtifact, LookForPhase, ClosePhase,
       EnsureCosts, FindMissing, FillGenerationCosts, AppendMissing, DisposeGeneration,
       CrashGeneration, AppendOnly, Look, locals

\* A new attempt: nobody evaluated it, and nobody works on it.
LEMMA BeginOnce ==
    ASSUME Evaluated, NEW g \in Generators, Begin(g)
    PROVE  OnceStep
<1>1. /\ g \in Processes /\ pc[g] = "idle" /\ pc' = [pc EXCEPT ![g] = pc'[g]]
      /\ pc'[g] # "idle" /\ UNCHANGED <<barrier, missing, on, evaluators>>
  BY DEF Begin, AppendOnly, Append, Goto, locals, Evaluated, FileInv, Shapes, Processes
<1>2. CASE attempts' = attempts
  BY <1>1, <1>2, StillStep, SameOnward, SameMissing, GeneratorOnce DEF StepOf
<1>3. CASE /\ ~barrier /\ attempts[CaseOf[g]] = NoAttempt
           /\ attempts' = [attempts EXCEPT ![CaseOf[g]] = StartAttempt(g)]
  <2>1. StartAttempt(g).id = g /\ WellFormed(StartAttempt(g)) /\ NoAttempt.id = NoOne
    BY DEF StartAttempt, NoAttempt, WellFormed, Open
  <2>2. /\ \A h \in Generators \ {g} : Of(h)' = Of(h)
        /\ \A c \in Cases : WellFormed(attempts'[c])
        /\ \A c \in Cases : attempts'[c] = attempts[c] \/ attempts'[c].id = g
    BY <1>3, <2>1, AttemptAssumption DEF Of, Evaluated, OnceInv, FileInv, Shapes
  <2>3. /\ \A q \in Processes \ {g} : pc'[q] = pc[q]
        /\ \A h \in Generators : h \in Processes
        /\ \A o \in Operators : o \in Processes \ {g}
    BY <1>1, RunnerAssumption DEF Evaluated, FileInv, Shapes, Processes
  <2>4. ASSUME NEW h \in Generators PROVE EvaluatedOnce(h)'
    <3>1. EvaluatedOnce(h) /\ evaluators'[h] = evaluators[h]
      BY <1>1 DEF Evaluated, OnceInv
    <3>2. CASE h = g
      BY <1>1, <3>1, <3>2 DEF EvaluatedOnce
    <3>3. CASE h # g
      BY <1>1, <2>2, <2>3, <3>1, <3>3 DEF EvaluatedOnce
    <3> QED BY <3>2, <3>3
  <2>5. ASSUME NEW o \in Operators PROVE FirstOperator(o)'
    <3>1. FirstOperator(o) /\ OperatorInv(o) /\ \A q \in Operators : pc'[q] = pc[q]
      BY <2>3 DEF Evaluated, FileInv, OnceInv
    <3>2. CASE pc[o] = "idle"
      BY <1>1, <3>1, <3>2 DEF FirstOperator, Evaluating, AtRest
    <3>3. CASE pc[o] # "idle"
      <4>1. PICK h \in Generators \ {g} : h = on[o]
        BY <1>1, <3>1, <3>3 DEF OperatorInv, FirstOperator
      <4>2. Of(on[o])' = Of(on[o]) /\ pc'[on[o]] # "idle"
        BY <1>1, <2>2, <2>3, <3>1, <3>3, <4>1 DEF Of, FirstOperator
      <4> QED BY <1>1, <3>1, <4>2 DEF FirstOperator, MissingIsOwn, AtRest
    <3> QED BY <3>2, <3>3
  <2>6. \A c \in Cases : Began(c)'
    BY <1>1, <2>2, <2>3 DEF Began, Evaluated, OnceInv
  <2>7. StayRecovered
    BY <1>1, <2>2 DEF StayRecovered
  <2> QED
    BY <1>1, <1>3, <2>2, <2>4, <2>5, <2>6, <2>7 DEF Evaluated, OnceInv, OnceStep, AllDisposed
<1> QED BY <1>2, <1>3 DEF Begin, AppendOnly, Append, MayStartAttempt

LEMMA GenerateOnce ==
    ASSUME Evaluated, NEW g \in Generators, Generate(g)
    PROVE  OnceStep
BY BeginOnce, GenerateStep, GenerateAlike, GeneratorOnce

-----------------------------------------------------------------------------
(* The steps of an operator *)

\* Who takes the lock of an attempt holds it alone.
LEMMA EnterOnce ==
    ASSUME Evaluated, NEW o \in Operators, NEW g \in Generators,
           NEW label \in {"recover", "evaluate"}, Enter(o, g, label)
    PROVE  OnceStep
<1>1. /\ o \in Processes /\ UNCHANGED <<attempts, barrier, missing, evaluators>>
      /\ Goto(o, label) /\ on' = [on EXCEPT ![o] = g]
  BY DEF Enter, ledger, Processes
<1>2. StepOf(o)
  BY <1>1, StillStep, SameMissing
<1>3. pc'[o] = label /\ on'[o] = g /\ \A q \in Operators \ {o} : on'[q] = on[q] /\ pc'[q] = pc[q]
  BY <1>1, <1>2, OthersAlike DEF Goto, Evaluated, FileInv, Shapes, Processes
<1>4. \A h \in Generators : EvaluatedOnce(h)'
  BY <1>1, <1>2, EvaluatedAlike
<1>5. \A q \in Operators : on[q] = g => AtRest(q)
  BY DEF Enter, Locked
<1>6. pc'[g] # "idle"
  <2>1. attempts[CaseOf[g]].id = g /\ CaseOf[g] \in Cases
    BY AttemptAssumption DEF Enter, Of
  <2> QED BY <1>1, <1>2, <2>1, OthersAlike DEF Began, Evaluated, OnceInv, Processes
<1>7. FirstOperator(o)'
  BY <1>3, <1>5, <1>6 DEF FirstOperator, Evaluating, AtRest
<1>8. ASSUME NEW q \in Operators \ {o} PROVE FirstOperator(q)'
  <2>1. FirstOperator(q) /\ OperatorInv(q)
    BY DEF Evaluated, FileInv, OnceInv
  <2>2. pc[q] # "idle" => pc'[on[q]] # "idle"
    BY <1>1, <1>2, <2>1, OthersAlike DEF FirstOperator, OperatorInv, Processes
  <2> QED
    BY <1>1, <1>3, <1>5, <2>1, <2>2
    DEF FirstOperator, MissingIsOwn, AtRest, Of, Evaluating
<1> QED BY <1>1, <1>2, <1>4, <1>7, <1>8, OthersAlike DEF Evaluated, OnceInv, OnceStep

\* Where operator o may go that found nothing missing.
Onto(o, label) == /\ label \notin {"idle", "fill_costs"}
                  /\ label \in Evaluating => pc[o] \in Evaluating

LEMMA StepOnce ==
    ASSUME Evaluated, NEW o \in Operators, ~AtRest(o), LedgerOnward, NEW label,
           Goto(o, label), Onto(o, label), UNCHANGED <<missing, on>>,
           evaluators' = evaluators \/ (pc[o] \in Evaluating /\ Traces(o))
    PROVE  OnceStep
<1>1. pc' = [pc EXCEPT ![o] = pc'[o]] /\ pc'[o] = label
  BY DEF Goto, Evaluated, FileInv, Shapes, Processes
<1>2. missing' = [missing EXCEPT ![o] = missing'[o]]
  BY SameMissing DEF Processes
<1> QED BY <1>1, <1>2, OperatorOnce DEF StepOf, Onto

LEMMA StillOnce ==
    ASSUME Evaluated, NEW o \in Operators, ~AtRest(o), NEW label, Goto(o, label),
           Onto(o, label), UNCHANGED <<attempts, barrier, missing, on, evaluators>>
    PROVE  OnceStep
BY SameOnward, StepOnce

LEMMA AppendOnce ==
    ASSUME Evaluated, NEW o \in Operators, ~AtRest(o), NEW accepted, NEW new, NEW next,
           NEW rejected, Append(o, on[o], accepted, new, next, rejected),
           accepted => Of(on[o]) # NoAttempt \/ Open(Of(on[o])),
           accepted /\ IsAttempt(Of(on[o])) /\ WellFormed(Of(on[o]))
               => Onward(Of(on[o]), new),
           Onto(o, next), Onto(o, rejected), UNCHANGED <<missing, on, evaluators>>
    PROVE  OnceStep
<1>1. on[o] \in Generators
  BY OperatorIsSomewhere DEF Evaluated, AtRest
<1>2. LedgerOnward
  BY <1>1, AppendOnward
<1>3. PICK label \in {next, rejected} : Goto(o, label)
  BY DEF Append
<1> QED BY <1>2, <1>3, StepOnce

\* Every event of an evaluation leaves a trace.
LEMMA TraceOnce ==
    ASSUME Evaluated, NEW o \in Operators, pc[o] \in Evaluating, NEW accepted, NEW new,
           NEW next, NEW rejected, AppendEvaluation(o, accepted, new, next, rejected),
           accepted => Open(Of(on[o])),
           accepted /\ IsAttempt(Of(on[o])) /\ WellFormed(Of(on[o]))
               => Onward(Of(on[o]), new) /\ Traced(new),
           Onto(o, next), Onto(o, rejected), UNCHANGED <<missing, on>>
    PROVE  OnceStep
<1> DEFINE g == on[o]
<1>1. ~AtRest(o) /\ g \in Generators
  BY OperatorIsSomewhere DEF Evaluated, AtRest, Evaluating
<1>2. LedgerOnward
  BY <1>1, AppendOnward DEF AppendEvaluation
<1>3. PICK label \in {next, rejected} : Goto(o, label)
  BY DEF AppendEvaluation, Append
<1>4. evaluators' = evaluators \/ Traces(o)
  <2>1. CASE ~accepted
    BY <1>1, <2>1 DEF AppendEvaluation, Evaluated, OnceInv
  <2>2. CASE accepted
    <3>1. CaseOf[g] \in Cases /\ Of(g) = attempts[CaseOf[g]]
      BY <1>1, <2>2, AttemptAssumption DEF Of, Open, NoAttempt
    <3>2. Traced(new)
      BY <2>2, <3>1 DEF Evaluated, FileInv, OnceInv, OnFile
    <3>3. attempts'[CaseOf[g]] = new
      BY <2>2, <3>1 DEF AppendEvaluation, Append, Evaluated, FileInv, Shapes
    <3>4. Of(on[o])' # NoAttempt => Of(on[o])' = new
      BY <3>3 DEF Of
    <3> QED BY <2>2, <3>2, <3>4 DEF AppendEvaluation, Traces
  <2> QED BY <2>1, <2>2
<1> QED BY <1>1, <1>2, <1>3, <1>4, StepOnce

LEMMA RecoveryOnce ==
    ASSUME Evaluated, NEW o \in Operators, Recovery(o)
    PROVE  OnceStep
<1> DEFINE g == on[o]
<1>1. \A label \in {"done", "crash_recovery", "phase", "artifact", "candidate", "disposition"} :
          Onto(o, label)
  BY DEF Onto, Evaluating
<1>2. MayCrash(Of(g)) => Open(Of(g))
  BY DEF MayCrash
<1>3. CASE CheckSpend(o)
  <2>1. CASE Look(o, "phase") /\ pc[o] = "spend"
    BY <1>1, <2>1, StillOnce DEF Look, ledger, locals, AtRest
  <2>2. CASE /\ AppendOnly(o, g, MayCrash(Of(g)), Crash(Of(g)), "done", "done")
             /\ pc[o] = "spend"
    BY <1>1, <1>2, <2>2, AppendOnce, EventsOnward DEF AppendOnly, locals, AtRest
  <2> QED BY <1>3, <2>1, <2>2 DEF CheckSpend
<1>4. CASE CheckWall(o) \/ CheckReservation(o)
  BY <1>1, <1>4, StillOnce DEF CheckWall, CheckReservation, Look, ledger, locals, AtRest
<1>5. CASE CrashRecovery(o)
  BY <1>1, <1>2, <1>5, AppendOnce, EventsOnward DEF CrashRecovery, AppendOnly, locals, AtRest
<1>6. ASSUME NEW event \in DOMAIN Replays, LookForEvent(o, event) PROVE OnceStep
  <2>1. ~AtRest(o) /\ UNCHANGED <<attempts, barrier, missing, on, evaluators>>
    BY <1>6 DEF LookForEvent, Look, Replays, ledger, locals, AtRest
  <2>2. PICK label \in {Replays[event], AfterReplay[event], "crash_recovery"} : Goto(o, label)
    BY <1>6 DEF LookForEvent, Look
  <2>3. Onto(o, label)
    BY <2>2 DEF Onto, Replays, AfterReplay, Evaluating
  <2> QED BY <2>1, <2>2, <2>3, StillOnce
<1>7. ASSUME NEW event \in DOMAIN Replays, ReplayEvent(o, event) PROVE OnceStep
  <2>5. PICK amount : AppendOnly(o, g, Accepted(Of(g), event, amount),
                                 Replayed(Of(g), event, amount), AfterReplay[event],
                                 "crash_recovery")
    BY <1>7, ReplayAppends
  <2> DEFINE accepted == Accepted(Of(g), event, amount)
             new == Replayed(Of(g), event, amount)
  <2>1. /\ ~AtRest(o) /\ UNCHANGED <<missing, on, evaluators>>
        /\ Append(o, g, accepted, new, AfterReplay[event], "crash_recovery")
    BY <1>7, <2>5, ReplayAppends DEF AppendOnly, Replays, locals, AtRest
  <2>2. accepted => Open(Of(g))
    BY DEF Accepted, Replays, MaySubmit, MayFinishCall, MayRecordCost, MayFinishPhase, MayDispose
  <2>3. accepted /\ IsAttempt(Of(g)) /\ WellFormed(Of(g)) => Onward(Of(g), new)
    BY EventsOnward DEF Accepted, Replayed, Replays
  <2>4. Onto(o, AfterReplay[event]) /\ Onto(o, "crash_recovery")
    BY DEF Onto, AfterReplay, Replays, Evaluating
  <2> HIDE DEF accepted, new
  <2> QED BY <2>1, <2>2, <2>3, <2>4, AppendOnce
<1>8. CASE StartRecovery(o)
  <2> pc[o] = "recover" /\ ~AtRest(o)
    BY <1>8 DEF StartRecovery, AtRest
  <2>1. CASE Look(o, "candidate")
    BY <1>1, <2>1, StillOnce DEF Look, ledger, locals
  <2>2. ASSUME NEW accepted, accepted => ~barrier /\ Of(g) # NoAttempt,
               AppendOnly(o, g, accepted, Recover(Of(g)), "candidate", "crash_recovery")
        PROVE  OnceStep
    BY <1>1, <2>2, AppendOnce, EventsOnward DEF AppendOnly, locals
  <2>3. PreflightRecovery(g) /\ MayRecover(Of(g)) => ~barrier /\ Of(g) # NoAttempt
    BY DEF PreflightRecovery, MayRecover, NoAttempt
  <2> QED BY <1>8, <2>1, <2>2, <2>3 DEF StartRecovery
<1> QED BY <1>3, <1>4, <1>5, <1>6, <1>7, <1>8, EnterOnce DEF Recovery

-----------------------------------------------------------------------------
(* The steps of an evaluation *)

\* An evaluation starts where nobody left a trace.
LEMMA StartEvaluationOnce ==
    ASSUME Evaluated, NEW o \in Operators, StartEvaluation(o)
    PROVE  OnceStep
<1> DEFINE g == on[o]
           a == Of(g)
<1>1. /\ o \in Processes /\ pc[o] = "evaluate" /\ g \in Generators
      /\ UNCHANGED <<attempts, barrier, missing, on, evaluators>>
  BY OperatorIsSomewhere DEF StartEvaluation, Evaluated, ledger, Processes
<1>2. PICK label \in {"costs", "capability", "done"} :
          /\ Goto(o, label)
          /\ label # "done" => /\ barrier /\ PreflightEvaluation(a)
                               /\ a.disposition # "none"
  BY DEF StartEvaluation
<1>3. CASE label = "done"
  BY <1>1, <1>2, <1>3, StillOnce DEF Onto, AtRest, Evaluating
<1>4. CASE label # "done"
  <2>1. /\ StepOf(o) /\ pc'[o] = label
        /\ \A q \in Operators \ {o} : pc'[q] = pc[q] /\ missing'[q] = missing[q]
    BY <1>1, <1>2, StillStep, SameMissing, OthersAlike
    DEF Goto, Evaluated, FileInv, Shapes, Processes
  <2>2. \A h \in Generators : EvaluatedOnce(h)'
    BY <1>1, <2>1, EvaluatedAlike
  <2>3. ~Traced(a) /\ BeforeBarrier \subseteq Recorded(a) /\ a # NoAttempt
    BY <1>2, <1>4 DEF PreflightEvaluation, Traced, NoAttempt
  <2>4. evaluators[g] = {}
    BY <1>1, <2>3 DEF Evaluated, OnceInv, EvaluatedOnce
  <2>5. FirstOperator(o)'
    <3>1. pc[g] # "idle" /\ pc'[g] # "idle"
      BY <1>1, <2>1, OthersAlike DEF Evaluated, OnceInv, FirstOperator, Processes
    <3>2. Of(on[o])' = a /\ on'[o] = g
      BY <1>1 DEF Of
    <3>3. \A q \in Operators : ~AtRest(q)' /\ on[q] = on[o] => q = o
      BY <1>1, <2>1 DEF Evaluated, OnceInv, FirstOperator, AtRest
    <3>4. barrier' /\ evaluators'[g] = {} /\ label # "fill_costs"
      BY <1>1, <1>2, <1>4, <2>4
    <3> QED BY <1>1, <2>1, <2>3, <3>1, <3>2, <3>3, <3>4 DEF FirstOperator
  <2>6. \A q \in Operators \ {o} : FirstOperator(q)'
    BY <1>1, <2>1, OperatorAlike DEF AtRest
  <2> QED BY <1>1, <2>1, <2>2, <2>5, <2>6, OthersAlike DEF Evaluated, OnceInv, OnceStep
<1> QED BY <1>3, <1>4

LEMMA FindCostsOnce ==
    ASSUME Evaluated, NEW o \in Operators, FindCosts(o)
    PROVE  OnceStep
<1> DEFINE g == on[o]
           todo == Categories \ Recorded(Of(g))
<1>4. PICK found : /\ missing' = [missing EXCEPT ![o] = found]
                   /\ found = [k \in todo |-> found[k]]
                   /\ \A k \in todo : found[k] # "absent"
  <2>1. PICK found : /\ missing' = [missing EXCEPT ![o] = found]
                     /\ found = [k \in todo |-> found[k]]
                     /\ \A k \in todo :
                            \/ k = "model" /\ found[k] \in {"zero", "unknown"}
                            \/ k = "storage" /\ found[k] \in Measures
                            \/ k \notin {"model", "storage"} /\ found[k] = "zero"
    BY CostsFound
  <2>2. \A k \in todo : found[k] # "absent"
    BY <2>1, MeasuredIsKnown
  <2> QED BY <2>1, <2>2
<1>5. /\ pc[o] = "costs"
      /\ Goto(o, IF todo = {} THEN "start_results" ELSE "fill_costs")
      /\ UNCHANGED <<ledger, on, evaluators>>
  BY CostsFound
<1>1. /\ pc[o] = "costs" /\ UNCHANGED <<attempts, barrier, on, evaluators>>
      /\ pc' = [pc EXCEPT ![o] = pc'[o]] /\ pc'[o] \in {"fill_costs", "start_results"}
      /\ missing' = [missing EXCEPT ![o] = missing'[o]] /\ missing'[o] = found
  BY <1>4, <1>5 DEF Goto, ledger, Evaluated, OnceInv, FileInv, Shapes, Processes
<1>2. Of(g) # NoAttempt => BeforeBarrier \subseteq Recorded(Of(g))
  BY <1>1 DEF Evaluated, OnceInv, FirstOperator, Evaluating
<1>3. Of(on[o])' # NoAttempt => MissingIsOwn(o)'
  <2> SUFFICES ASSUME Of(g) # NoAttempt PROVE MissingIsOwn(o)'
    BY <1>1 DEF Of
  <2>1. todo \subseteq {"sandbox", "storage"}
    BY <1>2 DEF Categories, BeforeBarrier
  <2> HIDE DEF todo
  <2> QED BY <1>1, <1>4, <2>1 DEF MissingIsOwn
<1>6. StepOf(o)
  BY <1>1, SameOnward DEF StepOf
<1> QED BY <1>1, <1>3, <1>6, OperatorOnce DEF AtRest, Evaluating

\* A cost it records, or finds recorded meanwhile, is one of the evaluation.
LEMMA FillCostsOnce ==
    ASSUME Evaluated, NEW o \in Operators, FillCosts(o)
    PROVE  OnceStep
<1> DEFINE g == on[o]
           a == Of(g)
           k == NextMissing(o)
           amount == missing[o][k]
           new == RecordCost(a, k, amount)
           next == IF DOMAIN missing[o] = {k} THEN "start_results" ELSE "fill_costs"
           accepted == MayRecordCost(a, k, amount)
<1>1. /\ o \in Processes /\ pc[o] = "fill_costs" /\ g \in Generators /\ UNCHANGED on
      /\ Append(o, g, accepted, new, next, "crash_evaluation")
      /\ evaluators' = [evaluators EXCEPT ![g] = @ \cup {o}] /\ missing[o] # Nothing
  BY OperatorIsSomewhere DEF FillCosts, AppendMissing, Evaluated, Processes
<1>2. /\ missing' = [missing EXCEPT ![o] = missing'[o]]
      /\ missing'[o] = IF accepted THEN [j \in DOMAIN missing[o] \ {k} |-> missing[o][j]]
                                   ELSE Nothing
  <2>1. missing' = [missing EXCEPT ![o] = IF accepted
                        THEN [j \in DOMAIN missing[o] \ {k} |-> missing[o][j]] ELSE Nothing]
    BY <1>1 DEF FillCosts, AppendMissing, Evaluated, OnceInv
  <2> HIDE DEF accepted, k
  <2> QED BY <1>1, <2>1 DEF Evaluated, OnceInv
<1>3. /\ accepted => Open(a)
      /\ accepted /\ IsAttempt(a) /\ WellFormed(a) => Onward(a, new)
  BY EventsOnward DEF MayRecordCost
<1>4. StepOf(o)
  <2>1. next # "idle"
    BY <1>1
  <2> HIDE DEF accepted, new, next
  <2> QED BY <1>1, <1>2, <1>3, <2>1, AppendStep
<1>5. pc'[o] \in {"fill_costs", "start_results", "crash_evaluation"}
  BY <1>1 DEF Append, Goto, Evaluated, FileInv, Shapes
<1>6. a # NoAttempt => MissingIsOwn(o) /\ k \in DOMAIN missing[o]
  <2> SUFFICES ASSUME a # NoAttempt PROVE MissingIsOwn(o) /\ k \in DOMAIN missing[o]
    OBVIOUS
  <2>1. MissingIsOwn(o)
    BY <1>1 DEF Evaluated, OnceInv, FirstOperator
  <2>2. DOMAIN missing[o] # {}
    BY <1>1, <2>1 DEF MissingIsOwn, Nothing
  <2>3. \E i \in DOMAIN missing[o] : \A j \in DOMAIN missing[o] : Order[i] <= Order[j]
    BY <2>1, <2>2 DEF MissingIsOwn, Order
  <2> QED BY <2>1, <2>3 DEF NextMissing
<1>7. PICK h \in Generators : h = on[o] /\ on'[o] = h
  BY <1>1
<1>8. /\ Of(on[o])' = Of(h)' /\ Of(on[o]) = a /\ a = Of(h)
      /\ Of(h)' # NoAttempt => a # NoAttempt
  BY <1>4, <1>7, OnwardOf DEF StepOf, Of
<1>9. Of(on[o])' # NoAttempt => MissingIsOwn(o)'
  <2> SUFFICES ASSUME a # NoAttempt PROVE MissingIsOwn(o)'
    BY <1>8
  <2>1. MissingIsOwn(o)
    BY <1>6
  <2> HIDE DEF accepted, k
  <2>2. CASE accepted
    <3>1. missing'[o] = [j \in DOMAIN missing[o] \ {k} |-> missing[o][j]]
      BY <1>2, <2>2
    <3>2. /\ DOMAIN missing'[o] = DOMAIN missing[o] \ {k}
          /\ \A j \in DOMAIN missing[o] \ {k} : missing'[o][j] = missing[o][j]
          /\ missing'[o] = [j \in DOMAIN missing'[o] |-> missing'[o][j]]
      BY <3>1
    <3> QED BY <2>1, <3>2 DEF MissingIsOwn
  <2>3. CASE ~accepted
    <3>1. missing'[o] = Nothing
      BY <1>2, <2>3
    <3> QED BY <3>1 DEF MissingIsOwn, Nothing
  <2> QED BY <2>2, <2>3
<1>10. Of(on[o])' # NoAttempt => Traced(Of(on[o])')
  <2> SUFFICES ASSUME a # NoAttempt PROVE Traced(Of(h)') \/ Of(h)' = NoAttempt
    BY <1>8
  <2>1. /\ CaseOf[h] \in Cases /\ a = attempts[CaseOf[h]] /\ IsAttempt(a)
        /\ k \in {"sandbox", "storage"} /\ amount # "absent" /\ k \in Categories
        /\ WellFormed(a)
    BY <1>6, <1>8, AttemptAssumption
    DEF Of, MissingIsOwn, Evaluated, FileInv, OnFile, Categories, OnceInv
  <2>2. CASE accepted
    <3>1. attempts' = [attempts EXCEPT ![CaseOf[h]] = new]
      BY <1>1, <1>7, <2>2 DEF Append
    <3>2. attempts'[CaseOf[h]] = new
      <4> HIDE DEF new, accepted
      <4> QED BY <2>1, <3>1 DEF Evaluated, FileInv, Shapes
    <3>3. k \in Recorded(new)
      <4> HIDE DEF k, amount
      <4> QED BY <2>1 DEF RecordCost, IsAttempt, NoAttempt, Recorded, WellFormed
    <3>4. Traced(new)
      <4> HIDE DEF new, k
      <4> QED BY <2>1, <3>3 DEF Traced, BeforeBarrier
    <3> HIDE DEF new
    <3> QED BY <3>2, <3>4 DEF Of
  <2>3. CASE ~accepted
    <3>1. attempts' = attempts
      BY <1>1, <2>3 DEF Append
    <3>2. Of(h)' = a
      BY <1>8, <3>1 DEF Of
    <3>3. Terminal(a) \/ a.costs[k] # "absent"
      <4>1. Open(a) \/ Terminal(a)
        <5>1. a.id = h /\ h # NoOne
          BY <1>8, <2>1, AttemptAssumption DEF Of
        <5> QED BY <2>1, <5>1 DEF WellFormed
      <4> HIDE DEF k, amount
      <4> QED BY <2>1, <2>3, <4>1 DEF MayRecordCost
    <3> HIDE DEF k, amount
    <3> QED BY <2>1, <3>2, <3>3 DEF Traced, Recorded, BeforeBarrier
  <2> QED BY <2>2, <2>3
<1> QED
  BY <1>1, <1>4, <1>5, <1>9, <1>10, OperatorOnce DEF Traces, AtRest, Evaluating

\* The events that an evaluation may append.
LEMMA EvaluationTraced ==
    ASSUME NEW a, IsAttempt(a), WellFormed(a)
    PROVE  /\ \A phase \in {"differential", "result_write"} :
                  /\ Traced(StartPhase(a, phase))
                  /\ \A status : MayFinishPhase(a, phase, status)
                                 => Traced(FinishPhase(a, status))
           /\ \A k \in {"sandbox", "storage"}, amount \in Measures :
                  Traced(RecordCost(a, k, amount))
           /\ \A outcome : Traced(FinishAttempt(a, outcome))
           /\ Traced(Crash(a))
<1> USE DEF IsAttempt, NoAttempt
<1>1. ASSUME NEW phase \in {"differential", "result_write"} PROVE Traced(StartPhase(a, phase))
  BY DEF StartPhase, Traced
<1>2. ASSUME NEW phase \in {"differential", "result_write"}, NEW status,
             MayFinishPhase(a, phase, status)
      PROVE  Traced(FinishPhase(a, status))
  BY <1>2 DEF MayFinishPhase, FinishPhase, Traced, WellFormed
<1>3. ASSUME NEW k \in {"sandbox", "storage"}, NEW amount \in Measures
      PROVE  Traced(RecordCost(a, k, amount))
  <2>1. k \in Recorded(RecordCost(a, k, amount))
    BY MeasuredIsKnown DEF RecordCost, Recorded, WellFormed, Categories
  <2> QED BY <2>1 DEF Traced, BeforeBarrier
<1>4. ASSUME NEW outcome PROVE Traced(FinishAttempt(a, outcome))
  BY DEF FinishAttempt, Traced, Terminal
<1>5. Traced(Crash(a))
  BY DEF Crash, Traced, Terminal
<1> HIDE DEF IsAttempt, NoAttempt
<1> QED BY <1>1, <1>2, <1>3, <1>4, <1>5

LEMMA EvaluationOnce ==
    ASSUME Evaluated, NEW o \in Operators, Evaluation(o)
    PROVE  OnceStep
<1> USE DEF Evaluating
<1> DEFINE a == Of(on[o])
<1>1. CASE TakeCapability(o) \/ RunDifferential(o) \/ FailEvaluation(o)
  <2>1. pc[o] \in Evaluating /\ UNCHANGED <<attempts, barrier, missing, on, evaluators>>
    BY <1>1 DEF TakeCapability, RunDifferential, FailEvaluation, Look, ledger, locals
  <2>2. PICK label \in Evaluating \ {"fill_costs"} : Goto(o, label)
    BY <1>1 DEF TakeCapability, RunDifferential, FailEvaluation, Look
  <2> QED BY <2>1, <2>2, StillOnce DEF Onto, AtRest
<1>2. CASE \E file \in {"private", "public"} : WriteResult(o, file)
  <2>1. pc[o] \in Evaluating /\ UNCHANGED <<attempts, barrier, missing, on, evaluators>>
    BY <1>2 DEF WriteResult, WriteRecord, ledger, locals
  <2>2. PICK label \in Evaluating \ {"fill_costs"} : Goto(o, label)
    BY <1>2 DEF WriteResult, WriteRecord
  <2> QED BY <2>1, <2>2, StillOnce DEF Onto, AtRest
<1>3. CASE StartDifferential(o) \/ StartResults(o)
  <2>1. PICK phase \in {"differential", "result_write"}, accepted \in BOOLEAN,
             next \in Evaluating \ {"fill_costs"}, rejected \in Evaluating \ {"fill_costs"} :
             /\ accepted => MayStartPhase(a, phase)
             /\ AppendEvaluation(o, accepted, StartPhase(a, phase), next, rejected)
    <3>1. ASSUME NEW late \in BOOLEAN, NEW phase
          PROVE  (~late /\ MayStartPhase(a, phase)) \in BOOLEAN
      BY <3>1 DEF MayStartPhase
    <3>2. CASE StartDifferential(o)
      BY <3>1, <3>2 DEF StartDifferential
    <3>3. CASE StartResults(o)
      BY <3>1, <3>3 DEF StartResults
    <3> QED BY <1>3, <3>2, <3>3
  <2>2. pc[o] \in Evaluating /\ UNCHANGED <<missing, on>>
    BY <1>3 DEF StartDifferential, StartResults, locals
  <2>3. accepted => Open(a)
    BY <2>1 DEF MayStartPhase
  <2>4. accepted /\ IsAttempt(a) /\ WellFormed(a) => /\ Onward(a, StartPhase(a, phase))
                                                     /\ Traced(StartPhase(a, phase))
    BY <2>1, EventsOnward, EvaluationTraced
  <2>5. Onto(o, next) /\ Onto(o, rejected)
    BY <2>2 DEF Onto
  <2> HIDE DEF a
  <2> QED BY <2>1, <2>2, <2>3, <2>4, <2>5, TraceOnce DEF a
<1>4. CASE EndDifferential(o) \/ CloseDifferential(o) \/ EndResults(o)
  <2>1. PICK phase \in {"differential", "result_write"}, status \in {"succeeded", "failed"},
             next \in Evaluating \ {"fill_costs"}, rejected \in Evaluating \ {"fill_costs"} :
             AppendEvaluation(o, MayFinishPhase(a, phase, status), FinishPhase(a, status),
                              next, rejected)
    BY <1>4 DEF EndDifferential, CloseDifferential, EndResults
  <2>2. pc[o] \in Evaluating /\ UNCHANGED <<missing, on>>
    BY <1>4 DEF EndDifferential, CloseDifferential, EndResults, locals
  <2>3. MayFinishPhase(a, phase, status) => Open(a)
    BY DEF MayFinishPhase
  <2>4. MayFinishPhase(a, phase, status) /\ IsAttempt(a) /\ WellFormed(a)
            => Onward(a, FinishPhase(a, status)) /\ Traced(FinishPhase(a, status))
    BY EventsOnward, EvaluationTraced
  <2>5. Onto(o, next) /\ Onto(o, rejected)
    BY <2>2 DEF Onto
  <2> HIDE DEF a
  <2> QED BY <2>1, <2>2, <2>3, <2>4, <2>5, TraceOnce DEF a
<1>5. CASE RecordSandbox(o) \/ RecordStorage(o)
  <2>1. PICK k \in {"sandbox", "storage"}, amount \in Measures,
             next \in Evaluating \ {"fill_costs"} :
             AppendEvaluation(o, MayRecordCost(a, k, amount),
                              RecordCost(a, k, amount), next, "fail_evaluation")
    BY <1>5, MeasureAppends
  <2>2. pc[o] \in Evaluating /\ UNCHANGED <<missing, on>>
    BY <1>5, MeasureAppends
  <2>3. MayRecordCost(a, k, amount) => Open(a)
    BY DEF MayRecordCost
  <2>4. MayRecordCost(a, k, amount) /\ IsAttempt(a) /\ WellFormed(a)
            => /\ Onward(a, RecordCost(a, k, amount))
               /\ Traced(RecordCost(a, k, amount))
    BY EventsOnward, EvaluationTraced
  <2>5. Onto(o, next) /\ Onto(o, "fail_evaluation")
    BY <2>2 DEF Onto
  <2> HIDE DEF a
  <2> QED BY <2>1, <2>2, <2>3, <2>4, <2>5, TraceOnce DEF a
<1>6. CASE EndAttempt(o) \/ CrashEvaluation(o)
  <2>1. pc[o] \in Evaluating /\ UNCHANGED <<missing, on>>
    BY <1>6 DEF EndAttempt, CrashEvaluation, locals
  <2>2. Onto(o, "done") /\ Onto(o, "crash_evaluation")
    BY <2>1 DEF Onto
  <2>3. (MayFinishAttempt(a) => Open(a)) /\ (MayCrash(a) => Open(a))
    BY DEF MayFinishAttempt, MayCrash
  <2>4. IsAttempt(a) /\ WellFormed(a) =>
            /\ Onward(a, Crash(a)) /\ Traced(Crash(a))
            /\ \A outcome : /\ Onward(a, FinishAttempt(a, outcome))
                            /\ Traced(FinishAttempt(a, outcome))
    BY EventsOnward, EvaluationTraced
  <2>5. \/ AppendEvaluation(o, MayFinishAttempt(a), FinishAttempt(a, verdict[o]),
                            "done", "crash_evaluation")
        \/ AppendEvaluation(o, MayCrash(a), Crash(a), "done", "done")
    BY <1>6 DEF EndAttempt, CrashEvaluation
  <2> HIDE DEF a
  <2> QED BY <2>1, <2>2, <2>3, <2>4, <2>5, TraceOnce DEF a
<1> QED
  BY <1>1, <1>2, <1>3, <1>4, <1>5, <1>6, EnterOnce, StartEvaluationOnce, FindCostsOnce,
     FillCostsOnce DEF Evaluation

-----------------------------------------------------------------------------

LEMMA InitOnce == RunnerInit => OnceInv
<1> SUFFICES ASSUME RunnerInit PROVE OnceInv
  OBVIOUS
<1>1. /\ attempts = [c \in Cases |-> NoAttempt]
      /\ pc = [p \in Processes |-> "idle"] /\ evaluators = [g \in Generators |-> {}]
      /\ missing = [p \in Processes |-> missing[p]]
  BY DEF RunnerInit, Blank, LedgerInit
<1>2. \A c \in Cases : WellFormed(attempts[c]) /\ Began(c)
  BY <1>1, AttemptAssumption DEF WellFormed, Began, NoAttempt
<1>3. \A g \in Generators : EvaluatedOnce(g)
  BY <1>1 DEF EvaluatedOnce
<1>4. \A o \in Operators : FirstOperator(o)
  BY <1>1 DEF FirstOperator, Evaluating, AtRest, Processes
<1>5. AllDisposed
  BY DEF AllDisposed, RunnerInit, Blank, LedgerInit
<1> QED BY <1>1, <1>2, <1>3, <1>4, <1>5 DEF OnceInv

LEMMA RunnerOnce == Evaluated /\ [RunnerNext]_vars => OnceStep
<1> SUFFICES ASSUME Evaluated, [RunnerNext]_vars
             PROVE  OnceStep
  OBVIOUS
<1>1. ASSUME NEW g \in Generators, Generate(g)
      PROVE  OnceStep
  BY <1>1, GenerateOnce
<1>2. ASSUME NEW o \in Operators, Recovery(o) \/ Evaluation(o)
      PROVE  OnceStep
  BY <1>2, RecoveryOnce, EvaluationOnce
<1>3. ASSUME NEW p \in Processes, Kill(p)
      PROVE  OnceStep
  <2>1. /\ Goto(p, "killed") /\ ~AtRest(p) /\ UNCHANGED <<attempts, barrier, on, evaluators>>
        /\ missing' = [missing EXCEPT ![p] = missing'[p]]
    BY <1>3 DEF Kill, ledger, Evaluated, OnceInv
  <2>2. StepOf(p) /\ pc'[p] = "killed"
    BY <2>1, StillStep DEF Goto, Evaluated, FileInv, Shapes
  <2>3. CASE p \in Generators
    BY <2>1, <2>2, <2>3, GeneratorOnce
  <2>4. CASE p \in Operators
    BY <2>1, <2>2, <2>4, OperatorOnce DEF Evaluating
  <2> QED BY <2>3, <2>4 DEF Processes
<1>4. ASSUME barrier => barrier', AllDisposed',
             UNCHANGED <<attempts, pc, missing, on, evaluators>>
      PROVE  OnceStep
  <2>1. \A c \in Cases : WellFormed(attempts'[c]) /\ Began(c)'
    BY <1>4 DEF Evaluated, OnceInv, Began
  <2>2. ASSUME NEW g \in Generators PROVE EvaluatedOnce(g)'
    <3>1. Of(g)' = Of(g)
      BY <1>4 DEF Of
    <3> QED BY <1>4, <3>1 DEF Evaluated, OnceInv, EvaluatedOnce
  <2>3. ASSUME NEW o \in Operators PROVE FirstOperator(o)'
    <3>1. Of(on[o])' = Of(on[o])
      BY <1>4 DEF Of
    <3> QED
      BY <1>4, <3>1 DEF Evaluated, OnceInv, FirstOperator, AtRest, MissingIsOwn
  <2>4. StayRecovered
    BY <1>4 DEF StayRecovered, Of
  <2> QED BY <1>4, <2>1, <2>2, <2>3, <2>4 DEF Evaluated, OnceInv, OnceStep
<1>5. CASE Freeze
  BY <1>4, <1>5 DEF Freeze, MayFreeze, AllDisposed, files, locals
<1>6. CASE LoseLedger
  <2>1. /\ attempts' = [c \in Cases |-> NoAttempt] /\ barrier' = FALSE
        /\ UNCHANGED <<pc, missing, on, evaluators>>
    BY <1>6 DEF LoseLedger, locals
  <2>2. \A c \in Cases : WellFormed(attempts'[c]) /\ Began(c)'
    BY <2>1, AttemptAssumption DEF WellFormed, Began, NoAttempt
  <2>3. ASSUME NEW g \in Generators PROVE Of(g)' = NoAttempt
    BY <2>1, AttemptAssumption DEF Of
  <2>4. \A g \in Generators : EvaluatedOnce(g)'
    BY <2>1, <2>3 DEF Evaluated, OnceInv, EvaluatedOnce
  <2>5. ASSUME NEW o \in Operators PROVE FirstOperator(o)'
    <3>1. FirstOperator(o) /\ OperatorInv(o)
      BY DEF Evaluated, FileInv, OnceInv
    <3>2. pc[o] # "idle" => Of(on[o])' = NoAttempt
      <4> SUFFICES ASSUME pc[o] # "idle" PROVE Of(on[o])' = NoAttempt
        OBVIOUS
      <4>1. PICK g \in Generators : g = on[o] /\ on'[o] = g
        BY <2>1, <3>1 DEF OperatorInv
      <4> QED BY <2>3, <4>1 DEF Of
    <3> QED BY <2>1, <3>1, <3>2 DEF FirstOperator, AtRest, Evaluating
  <2>6. StayRecovered
    BY <2>3 DEF StayRecovered
  <2> QED BY <2>1, <2>2, <2>4, <2>5, <2>6 DEF Evaluated, OnceInv, OnceStep, AllDisposed
<1>7. CASE UNCHANGED vars
  BY <1>4, <1>7 DEF vars, ledger, locals, Evaluated, OnceInv, AllDisposed
<1> QED BY <1>1, <1>2, <1>3, <1>5, <1>6, <1>7 DEF RunnerNext

LEMMA OnceIsOnce == OnceInv => OneEvaluation
<1> SUFFICES ASSUME OnceInv, NEW g \in Generators
             PROVE  Cardinality(evaluators[g]) <= 1
  BY DEF OneEvaluation
<1>1. \A o, q \in evaluators[g] : o = q
  BY DEF OnceInv, EvaluatedOnce
<1>2. CASE evaluators[g] = {}
  BY <1>2, FS_EmptySet
<1>3. CASE evaluators[g] # {}
  <2>1. PICK o \in evaluators[g] : TRUE
    BY <1>3
  <2>2. evaluators[g] = {o}
    BY <1>1, <2>1
  <2>3. Cardinality({o}) = 1
    BY FS_Singleton
  <2> QED BY <2>2, <2>3
<1> QED BY <1>2, <1>3

\* Two invocations never both leave a trace in one attempt: one that runs has the lock
\* and found none, what another one began stays in the chain, and recovery, which
\* could take back a crash, is over once the barrier is frozen
\* (_preflight_frozen_evaluation, _scored_attempt_lock).
THEOREM EvaluatedByOne == RunnerSpec => []OneEvaluation
<1>1. RunnerInit => Evaluated
  BY InitFiles, InitOnce DEF Evaluated
<1>2. Evaluated /\ [RunnerNext]_vars => Evaluated'
  BY StepFiles, RunnerOnce DEF Evaluated, OnceStep
<1>3. Evaluated => OneEvaluation
  BY OnceIsOnce DEF Evaluated
<1> QED BY <1>1, <1>2, <1>3, PTL DEF RunnerSpec

\* What the barrier commits to stays as it is while the barrier stands: every attempt
\* has its disposition, which comes after its generation and after every cost of it,
\* and no event changes one of these twice (_validate_transitions, MayFreeze).
THEOREM SealedStays == RunnerSpec => SealedGenerationStays
<1>1. RunnerInit => Evaluated
  BY InitFiles, InitOnce DEF Evaluated
<1>2. Evaluated /\ [RunnerNext]_vars => Evaluated'
  BY StepFiles, RunnerOnce DEF Evaluated, OnceStep
<1>3. Evaluated /\ [RunnerNext]_vars =>
          [barrier /\ barrier' =>
               \A c \in Cases : Generated(attempts'[c]) = Generated(attempts[c])]_vars
  BY RunnerOnce DEF OnceStep
<1> QED BY <1>1, <1>2, <1>3, PTL DEF RunnerSpec, SealedGenerationStays


-----------------------------------------------------------------------------
(* A generation that ends has left its account *)

\* Nothing tells yet how the generation of g ended, or that it was interrupted.
Unaccounted(g) ==
    LET a == Of(g) IN
    /\ a # NoAttempt /\ ~Terminal(a) /\ a.disposition = "none"
    /\ ~a.recovered /\ g \notin expired

InGeneration(a) == a.phase = "generation"
PastGeneration(a) == a.phase = "none" /\ "generation" \in a.ended

\* Before the provider was asked, and until its answer is in the ledger.
Unasked == {"prepare", "start_phase", "consume", "start_call"}
Asking == {"provider", "persist", "submit"}
Asked == Asking \cup {"finish_call", "model_cost"}
Failing == {"fail", "close", "ensure", "fill", "dispose"}

\* What an attempt a is like that its process alone has written, which is at label,
\* holds the candidate or not, found todo missing and has the answer ans.
OnTrack(a, label, holds, todo, ans) ==
    /\ Open(a)
    /\ a.call \in {"none", "started", "succeeded", "failed"} /\ a.usage # "absent"
    /\ a.costs["artifact"] \in {"absent", "zero"} \cup Measured
    /\ label \notin {"idle", "done"}
    /\ holds => label \in Failing \cup {"artifact", "artifact_cost", "crash", "killed"}
    /\ label \in Unasked => a.call = "none"
    /\ label \in {"prepare", "start_phase"} =>
          a.phase = "none" /\ a.began = {} /\ a.ended = {}
    /\ label \in Unasked \cup Asking => ~a.candidate
    /\ label \in Asking \cup {"finish_call"} => Unmatched(a)
    /\ label \in (Unasked \cup Asked) \ {"prepare", "start_phase"} => InGeneration(a)
    /\ label = "prepare" => Recorded(a) = {}
    /\ label \in (Unasked \cup Asked) \ {"prepare"} => Recorded(a) = {"preparation"}
    /\ label \in Asked \ {"provider"} => ans.usage \in Usages
    /\ label \in {"persist", "submit"} => ans.kind = "candidate"
    /\ label \in {"finish_call", "model_cost"} => (a.candidate <=> ans.kind = "candidate")
    /\ label \in {"model_cost", "end_phase"} => InGeneration(a) /\ Called(a)
    /\ label \in {"end_phase", "check", "artifact", "artifact_cost"} =>
          a.candidate /\ Recorded(a) = {"preparation", "model"}
    /\ label \in {"check", "artifact", "artifact_cost", "ensure", "fill", "dispose"} =>
          PastGeneration(a)
    /\ label \in {"artifact", "artifact_cost"} => holds
    /\ label \in Failing => (holds <=> a.candidate)
    /\ label \in {"fail", "close", "ensure"} =>
          "preparation" \in Recorded(a) /\ Recorded(a) \subseteq BeforeBarrier
    /\ label = "fail" => InGeneration(a) \/ PastGeneration(a)
    /\ label = "close" => InGeneration(a)
    /\ label = "fill" =>
          /\ "preparation" \in Recorded(a) /\ Recorded(a) \subseteq BeforeBarrier
          /\ todo = [k \in BeforeBarrier \ Recorded(a) |->
                        IF k = "model" THEN ModelCost(a) ELSE "zero"]
    /\ label = "dispose" => Recorded(a) = BeforeBarrier

GenerationInv(g) ==
    Unaccounted(g) => OnTrack(Of(g), pc[g], held[g], missing[g], answer[g])

\* A recovery that replays has announced itself.
Recovering == {"spend", "wall", "reservation"} \cup DOMAIN Replays \cup {Replays[event] : event \in DOMAIN Replays}
RecoveryInv(o) == pc[o] \in Recovering /\ Of(on[o]) # NoAttempt => Of(on[o]).recovered

AccountInv ==
    /\ held \in [Generators -> BOOLEAN]
    /\ \A g \in Generators : pc[g] = "idle" => ~held[g]
    /\ \A g \in Generators : GenerationInv(g)
    /\ \A o \in Operators : RecoveryInv(o)

Told == Evaluated /\ AccountInv

-----------------------------------------------------------------------------
(* The steps of a generating process, for its own attempt *)

\* What an append of g makes of its attempt.
LEMMA AppendOwn ==
    ASSUME Evaluated, NEW g \in Generators, NEW accepted, NEW new, NEW next, NEW rejected,
           Append(g, g, accepted, new, next, rejected), accepted => Open(Of(g)),
           accepted /\ IsAttempt(Of(g)) => new.id = Of(g).id
    PROVE  \/ accepted /\ IsAttempt(Of(g)) /\ Of(g)' = new /\ pc'[g] = next
           \/ ~accepted /\ Of(g)' = Of(g) /\ pc'[g] = rejected
<1>1. \A label : Goto(g, label) => pc'[g] = label
  BY DEF Goto, Evaluated, FileInv, Shapes, Processes
<1>2. CASE accepted /\ attempts' = [attempts EXCEPT ![CaseOf[g]] = new] /\ Goto(g, next)
  <2>1. CaseOf[g] \in Cases /\ Of(g) = attempts[CaseOf[g]] /\ Of(g).id = g
    BY <1>2, AttemptAssumption DEF Of, Open, NoAttempt
  <2>2. IsAttempt(Of(g))
    BY <2>1 DEF Evaluated, FileInv, OnFile
  <2>3. attempts'[CaseOf[g]] = new
    BY <1>2, <2>1 DEF Evaluated, FileInv, Shapes
  <2> QED BY <1>1, <1>2, <2>1, <2>2, <2>3 DEF Of
<1>3. CASE ~accepted /\ UNCHANGED attempts /\ Goto(g, rejected)
  BY <1>1, <1>3 DEF Of
<1> QED BY <1>2, <1>3 DEF Append

\* A step that only moves, or that changes what the process itself holds.
LEMMA MovesOwn ==
    ASSUME Evaluated, NEW g \in Generators, NEW label, Goto(g, label), UNCHANGED attempts
    PROVE  Of(g)' = Of(g) /\ pc'[g] = label
BY DEF Goto, Of, Evaluated, FileInv, Shapes, Processes

\* The events of a generation, and what is recorded after them.
LEMMA CostOwn ==
    ASSUME NEW a, IsAttempt(a), WellFormed(a), NEW k \in Categories, NEW amount,
           amount # "absent"
    PROVE  LET b == RecordCost(a, k, amount) IN
           /\ b = [a EXCEPT !.costs = b.costs]
           /\ b.costs[k] = amount
           /\ \A j \in Categories \ {k} : b.costs[j] = a.costs[j]
           /\ Recorded(b) = Recorded(a) \cup {k}
BY DEF RecordCost, IsAttempt, WellFormed, NoAttempt, Recorded

LEMMA PhaseOwn ==
    ASSUME NEW a, IsAttempt(a), NEW phase
    PROVE  LET b == StartPhase(a, phase) IN
           /\ b = [a EXCEPT !.phase = phase, !.began = b.began] /\ b.phase = phase
           /\ Recorded(b) = Recorded(a)
BY DEF StartPhase, IsAttempt, NoAttempt, Recorded

LEMMA FinishOwn ==
    ASSUME NEW a, IsAttempt(a), NEW status
    PROVE  LET f == FinishPhase(a, status) IN
           /\ f = [a EXCEPT !.phase = "none", !.ended = f.ended, !.generated = f.generated]
           /\ f.phase = "none" /\ f.ended = a.ended \cup {a.phase}
           /\ Recorded(f) = Recorded(a)
BY DEF FinishPhase, IsAttempt, NoAttempt, Recorded

LEMMA CallOwn ==
    ASSUME NEW a, IsAttempt(a)
    PROVE  /\ Recorded(StartCall(a)) = Recorded(a) /\ Recorded(Submit(a)) = Recorded(a)
           /\ \A status, usage : Recorded(FinishCall(a, status, usage)) = Recorded(a)
BY DEF StartCall, Submit, FinishCall, IsAttempt, NoAttempt, Recorded

LEMMA BeginOwn ==
    ASSUME Told, NEW g \in Generators, Begin(g) PROVE GenerationInv(g)'
<1>1. Of(g) = NoAttempt /\ pc[g] = "idle"
  <2>1. CaseOf[g] \in Cases /\ Began(CaseOf[g])
    BY AttemptAssumption DEF Told, Evaluated, OnceInv
  <2> QED BY <2>1 DEF Begin, Began, Of
<1>2. CASE attempts' = [attempts EXCEPT ![CaseOf[g]] = StartAttempt(g)] /\ Goto(g, "prepare")
  <2>1. Of(g)' = StartAttempt(g) /\ pc'[g] = "prepare"
    BY <1>2, AttemptAssumption
    DEF Of, StartAttempt, NoAttempt, Goto, Told, Evaluated, FileInv, Shapes, Processes
  <2>2. held'[g] = FALSE
    BY <1>1 DEF Begin, AppendOnly, locals, Told, AccountInv
  <2> DEFINE b == StartAttempt(g)
  <2>3. /\ b.status = "open" /\ b.call = "none" /\ b.usage = "none" /\ b.phase = "none"
        /\ b.began = {} /\ b.ended = {} /\ ~b.candidate
        /\ \A k \in Categories : b.costs[k] = "absent"
    BY DEF StartAttempt, NoAttempt
  <2>4. Recorded(b) = {}
    BY <2>3 DEF Recorded
  <2>5. b.costs["artifact"] = "absent"
    BY <2>3 DEF Categories, BeforeBarrier
  <2> HIDE DEF b
  <2>6. OnTrack(b, "prepare", FALSE, missing'[g], answer'[g])
    BY <2>3, <2>4, <2>5 DEF OnTrack, Open, Unasked, Asking, Asked, Failing
  <2> QED BY <2>1, <2>2, <2>6 DEF GenerationInv, b
<1>3. CASE UNCHANGED attempts
  BY <1>1, <1>3 DEF GenerationInv, Unaccounted, Of
<1> QED BY <1>2, <1>3 DEF Begin, AppendOnly, Append, Goto

\* What is known of g before a step that leaves it unaccounted.
LEMMA StillUnaccounted ==
    ASSUME Told, NEW g \in Generators, Unaccounted(g)', expired \subseteq expired',
           \/ Of(g)' = Of(g)
           \/ /\ Open(Of(g)) /\ Of(g)'.recovered = Of(g).recovered
              /\ Of(g)'.disposition = Of(g).disposition
    PROVE  /\ Unaccounted(g) /\ OnTrack(Of(g), pc[g], held[g], missing[g], answer[g])
           /\ IsAttempt(Of(g)) /\ WellFormed(Of(g)) /\ Of(g).id = g /\ ~barrier
<1>1. Of(g) # NoAttempt
  BY DEF Unaccounted, Open, NoAttempt
<1>2. Unaccounted(g)
  BY <1>1 DEF Unaccounted, Open, Terminal
<1>3. CaseOf[g] \in Cases /\ Of(g) = attempts[CaseOf[g]] /\ Of(g).id = g
  BY <1>1, AttemptAssumption DEF Of
<1>4. /\ IsAttempt(Of(g)) /\ WellFormed(Of(g))
      /\ barrier => Of(g).disposition # "none"
  BY <1>3 DEF Told, Evaluated, FileInv, OnFile, OnceInv, AllDisposed
<1> QED BY <1>2, <1>3, <1>4 DEF Told, AccountInv, GenerationInv, Unaccounted

\* An event of g that says nothing of how its generation ended.
LEMMA EventOwn ==
    ASSUME Told, NEW g \in Generators, NEW accepted, NEW new, NEW next, NEW rejected,
           AppendOnly(g, g, accepted, new, next, rejected),
           accepted => Open(Of(g)),
           IsAttempt(Of(g)) => /\ new.id = Of(g).id /\ new.recovered = Of(g).recovered
                               /\ new.disposition = Of(g).disposition,
           ASSUME OnTrack(Of(g), pc[g], held[g], missing[g], answer[g]),
                  IsAttempt(Of(g)), WellFormed(Of(g)), Of(g).id = g, ~barrier
           PROVE  \/ accepted /\ OnTrack(new, next, held[g], missing[g], answer[g])
                  \/ ~accepted /\ OnTrack(Of(g), rejected, held[g], missing[g], answer[g])
    PROVE  GenerationInv(g)'
<1> SUFFICES ASSUME Unaccounted(g)'
             PROVE  OnTrack(Of(g), pc[g], held[g], missing[g], answer[g])'
  BY DEF GenerationInv
<1>1. /\ Append(g, g, accepted, new, next, rejected)
      /\ UNCHANGED <<held, answer, missing, expired>>
  BY DEF AppendOnly, locals
<1>2. \/ accepted /\ IsAttempt(Of(g)) /\ Of(g)' = new /\ pc'[g] = next
      \/ ~accepted /\ Of(g)' = Of(g) /\ pc'[g] = rejected
  BY <1>1, AppendOwn DEF Told
<1>3. /\ OnTrack(Of(g), pc[g], held[g], missing[g], answer[g])
      /\ IsAttempt(Of(g)) /\ WellFormed(Of(g)) /\ Of(g).id = g /\ ~barrier
  BY <1>1, <1>2, StillUnaccounted
<1>4. \/ accepted /\ OnTrack(new, next, held[g], missing[g], answer[g])
      \/ ~accepted /\ OnTrack(Of(g), rejected, held[g], missing[g], answer[g])
  BY <1>3
<1>5. OnTrack(Of(g)', pc'[g], held'[g], missing'[g], answer'[g])
  BY <1>1, <1>2, <1>4
<1> QED BY <1>5

LEMMA RecordPreparationOwn ==
    ASSUME Told, NEW g \in Generators, RecordPreparation(g) PROVE GenerationInv(g)'
<1> DEFINE a == Of(g)
           accepted == MayRecordCost(a, "preparation", "measured")
           new == RecordCost(a, "preparation", "measured")
<1>1. /\ pc[g] = "prepare" /\ AppendOnly(g, g, accepted, new, "start_phase", "fail")
  BY DEF RecordPreparation
<1>2. accepted => Open(a)
  BY DEF MayRecordCost
<1>3. IsAttempt(a) => /\ new.id = a.id /\ new.recovered = a.recovered
                      /\ new.disposition = a.disposition
  BY DEF IsAttempt, NoAttempt, RecordCost
<1>4. ASSUME OnTrack(a, pc[g], held[g], missing[g], answer[g]),
             IsAttempt(a), WellFormed(a), a.id = g, ~barrier
      PROVE  accepted /\ OnTrack(new, "start_phase", held[g], missing[g], answer[g])
  <2>1. /\ Open(a) /\ Recorded(a) = {} /\ a.costs["preparation"] = "absent"
    BY <1>1, <1>4 DEF OnTrack, Recorded, Categories, BeforeBarrier
  <2>2. accepted
    BY <2>1 DEF MayRecordCost
  <2>3. /\ new = [a EXCEPT !.costs = new.costs] /\ Recorded(new) = {"preparation"}
        /\ new.costs["artifact"] = a.costs["artifact"]
    <3>1. "preparation" \in Categories /\ "artifact" \in Categories \ {"preparation"}
      BY DEF Categories, BeforeBarrier
    <3> QED BY <1>4, <2>1, <3>1, CostOwn
  <2> HIDE DEF new, accepted
  <2>4. OnTrack(new, "start_phase", held[g], missing[g], answer[g])
    BY <1>1, <1>4, <2>3 DEF OnTrack, Open, Unasked, Asking, Asked, Failing, IsAttempt, NoAttempt
  <2> QED BY <2>2, <2>4
<1> HIDE DEF a, new, accepted
<1> QED BY <1>1, <1>2, <1>3, <1>4, EventOwn DEF a

LEMMA BeginCallOwn ==
    ASSUME Told, NEW g \in Generators, BeginCall(g) PROVE GenerationInv(g)'
<1> DEFINE a == Of(g)
           accepted == PreflightCall(g) /\ MayStartCall(a)
           new == StartCall(a)
<1>1. /\ pc[g] = "start_call" /\ AppendOnly(g, g, accepted, new, "provider", "fail")
  BY DEF BeginCall
<1>2. accepted => Open(a)
  BY DEF MayStartCall
<1>3. IsAttempt(a) => /\ new.id = a.id /\ new.recovered = a.recovered
                      /\ new.disposition = a.disposition
  BY DEF IsAttempt, NoAttempt, StartCall
<1>4. ASSUME OnTrack(a, pc[g], held[g], missing[g], answer[g]),
             IsAttempt(a), WellFormed(a), a.id = g, ~barrier
      PROVE  \/ accepted /\ OnTrack(new, "provider", held[g], missing[g], answer[g])
             \/ ~accepted /\ OnTrack(a, "fail", held[g], missing[g], answer[g])
  <2>1. Recorded(new) = Recorded(a)
    BY <1>4, CallOwn
  <2> HIDE DEF accepted
  <2>2. OnTrack(new, "provider", held[g], missing[g], answer[g])
    BY <1>1, <1>4, <2>1
    DEF OnTrack, Open, Unasked, Asking, Asked, Failing, IsAttempt, NoAttempt, StartCall,
        Unmatched, InGeneration
  <2>3. OnTrack(a, "fail", held[g], missing[g], answer[g])
    BY <1>1, <1>4, PriorCosts DEF OnTrack, Unasked, Asking, Asked, Failing
  <2> QED BY <2>2, <2>3
<1> HIDE DEF a, new, accepted
<1> QED BY <1>1, <1>2, <1>3, <1>4, EventOwn DEF a

LEMMA SubmitOwn ==
    ASSUME Told, NEW g \in Generators, SubmitCandidate(g) PROVE GenerationInv(g)'
<1> DEFINE a == Of(g)
           accepted == MaySubmit(a)
           new == Submit(a)
<1>1. /\ pc[g] = "submit" /\ AppendOnly(g, g, accepted, new, "finish_call", "crash")
  BY DEF SubmitCandidate
<1>2. accepted => Open(a)
  BY DEF MaySubmit
<1>3. IsAttempt(a) => /\ new.id = a.id /\ new.recovered = a.recovered
                      /\ new.disposition = a.disposition
  BY DEF IsAttempt, NoAttempt, Submit
<1>4. ASSUME OnTrack(a, pc[g], held[g], missing[g], answer[g]),
             IsAttempt(a), WellFormed(a), a.id = g, ~barrier
      PROVE  \/ accepted /\ OnTrack(new, "finish_call", held[g], missing[g], answer[g])
             \/ ~accepted /\ OnTrack(a, "crash", held[g], missing[g], answer[g])
  <2>1. Recorded(new) = Recorded(a)
    BY <1>4, CallOwn
  <2> HIDE DEF accepted
  <2>2. OnTrack(new, "finish_call", held[g], missing[g], answer[g])
    BY <1>1, <1>4, <2>1
    DEF OnTrack, Open, Unasked, Asking, Asked, Failing, IsAttempt, NoAttempt, Submit,
        Unmatched, InGeneration
  <2>3. OnTrack(a, "crash", held[g], missing[g], answer[g])
    BY <1>1, <1>4 DEF OnTrack, Unasked, Asking, Asked, Failing
  <2> QED BY <2>2, <2>3
<1> HIDE DEF a, new, accepted
<1> QED BY <1>1, <1>2, <1>3, <1>4, EventOwn DEF a

LEMMA EndCallOwn ==
    ASSUME Told, NEW g \in Generators, EndCall(g) PROVE GenerationInv(g)'
<1> DEFINE a == Of(g)
           accepted == MayFinishCall(a, CallStatus(g))
           new == FinishCall(a, CallStatus(g), answer[g].usage)
<1>1. /\ pc[g] = "finish_call" /\ AppendOnly(g, g, accepted, new, "model_cost", "crash")
  BY DEF EndCall
<1>2. accepted => Open(a)
  BY DEF MayFinishCall
<1>3. IsAttempt(a) => /\ new.id = a.id /\ new.recovered = a.recovered
                      /\ new.disposition = a.disposition
  BY DEF IsAttempt, NoAttempt, FinishCall
<1>4. ASSUME OnTrack(a, pc[g], held[g], missing[g], answer[g]),
             IsAttempt(a), WellFormed(a), a.id = g, ~barrier
      PROVE  \/ accepted /\ OnTrack(new, "model_cost", held[g], missing[g], answer[g])
             \/ ~accepted /\ OnTrack(a, "crash", held[g], missing[g], answer[g])
  <2>1. Recorded(new) = Recorded(a) /\ CallStatus(g) \in {"succeeded", "failed"}
    BY <1>4, CallOwn DEF CallStatus
  <2> HIDE DEF accepted
  <2>2. OnTrack(new, "model_cost", held[g], missing[g], answer[g])
    BY <1>1, <1>4, <2>1, MeasuredIsKnown
    DEF OnTrack, Open, Unasked, Asking, Asked, Failing, IsAttempt, NoAttempt, FinishCall,
        Called, InGeneration
  <2>3. OnTrack(a, "crash", held[g], missing[g], answer[g])
    BY <1>1, <1>4 DEF OnTrack, Unasked, Asking, Asked, Failing
  <2> QED BY <2>2, <2>3
<1> HIDE DEF a, new, accepted
<1> QED BY <1>1, <1>2, <1>3, <1>4, EventOwn DEF a

LEMMA RecordModelCostOwn ==
    ASSUME Told, NEW g \in Generators, RecordModelCost(g) PROVE GenerationInv(g)'
<1> DEFINE a == Of(g)
           amount == answer[g].usage
           accepted == MayRecordCost(a, "model", amount)
           new == RecordCost(a, "model", amount)
           next == AfterCost(answer[g].kind)
<1>1. /\ pc[g] = "model_cost" /\ AppendOnly(g, g, accepted, new, next, "crash")
  BY DEF RecordModelCost
<1>2. accepted => Open(a)
  BY DEF MayRecordCost
<1>3. IsAttempt(a) => /\ new.id = a.id /\ new.recovered = a.recovered
                      /\ new.disposition = a.disposition
  BY DEF IsAttempt, NoAttempt, RecordCost
<1>4. ASSUME OnTrack(a, pc[g], held[g], missing[g], answer[g]),
             IsAttempt(a), WellFormed(a), a.id = g, ~barrier
      PROVE  \/ accepted /\ OnTrack(new, next, held[g], missing[g], answer[g])
             \/ ~accepted /\ OnTrack(a, "crash", held[g], missing[g], answer[g])
  <2>1. amount # "absent" /\ ~held[g]
    BY <1>1, <1>4, MeasuredIsKnown DEF OnTrack, Asked, Asking, Failing
  <2>2. /\ new = [a EXCEPT !.costs = new.costs]
        /\ Recorded(new) = {"preparation", "model"}
        /\ new.costs["artifact"] = a.costs["artifact"]
    <3>1. "model" \in Categories /\ "artifact" \in Categories \ {"model"}
      BY DEF Categories, BeforeBarrier
    <3>2. Recorded(a) = {"preparation"}
      BY <1>1, <1>4 DEF OnTrack, Asked, Unasked
    <3> HIDE DEF amount
    <3> QED BY <1>4, <2>1, <3>1, <3>2, CostOwn
  <2>3. \/ next = "end_phase" /\ answer[g].kind = "candidate"
        \/ next \in {"fail", "crash"} /\ answer[g].kind # "candidate"
    BY DEF AfterCost
  <2> HIDE DEF accepted, new, next, amount
  <2>4. OnTrack(new, next, held[g], missing[g], answer[g])
    BY <1>1, <1>4, <2>1, <2>2, <2>3, PriorCosts
    DEF OnTrack, Open, Unasked, Asking, Asked, Failing, IsAttempt, NoAttempt, Called, InGeneration
  <2>5. OnTrack(a, "crash", held[g], missing[g], answer[g])
    BY <1>1, <1>4 DEF OnTrack, Unasked, Asking, Asked, Failing
  <2> QED BY <2>4, <2>5
<1> HIDE DEF a, new, accepted, next
<1> QED BY <1>1, <1>2, <1>3, <1>4, EventOwn DEF a

LEMMA EndGenerationOwn ==
    ASSUME Told, NEW g \in Generators, EndGeneration(g) PROVE GenerationInv(g)'
<1> DEFINE a == Of(g)
           accepted == MayFinishPhase(a, "generation", "succeeded")
           new == FinishPhase(a, "succeeded")
<1>1. /\ pc[g] = "end_phase" /\ AppendOnly(g, g, accepted, new, "check", "fail")
  BY DEF EndGeneration
<1>2. accepted => Open(a)
  BY DEF MayFinishPhase
<1>3. IsAttempt(a) => /\ new.id = a.id /\ new.recovered = a.recovered
                      /\ new.disposition = a.disposition
  BY DEF IsAttempt, NoAttempt, FinishPhase
<1>4. ASSUME OnTrack(a, pc[g], held[g], missing[g], answer[g]),
             IsAttempt(a), WellFormed(a), a.id = g, ~barrier
      PROVE  accepted /\ OnTrack(new, "check", held[g], missing[g], answer[g])
  <2>1. accepted
    BY <1>1, <1>4 DEF OnTrack, MayFinishPhase, InGeneration
  <2>2. /\ new = [a EXCEPT !.phase = "none", !.ended = new.ended, !.generated = new.generated]
        /\ new.phase = "none" /\ new.ended = a.ended \cup {a.phase}
        /\ Recorded(new) = Recorded(a)
    BY <1>4, FinishOwn
  <2> HIDE DEF accepted, new
  <2>3. OnTrack(new, "check", held[g], missing[g], answer[g])
    BY <1>1, <1>4, <2>2
    DEF OnTrack, Open, Unasked, Asking, Asked, Failing, IsAttempt, NoAttempt, PastGeneration,
        InGeneration
  <2> QED BY <2>1, <2>3
<1> HIDE DEF a, new, accepted
<1> QED BY <1>1, <1>2, <1>3, <1>4, EventOwn DEF a

LEMMA RecordArtifactOwn ==
    ASSUME Told, NEW g \in Generators, RecordArtifact(g) PROVE GenerationInv(g)'
<1> DEFINE a == Of(g)
<1>5. PICK amount \in Measures, next \in {"fail", "dispose"} :
          AppendOnly(g, g, MayRecordCost(a, "artifact", amount),
                     RecordCost(a, "artifact", amount), next, "fail")
  BY ArtifactAppends
<1> DEFINE accepted == MayRecordCost(a, "artifact", amount)
           new == RecordCost(a, "artifact", amount)
<1>1. /\ pc[g] = "artifact_cost" /\ AppendOnly(g, g, accepted, new, next, "fail")
      /\ amount \in Measured /\ amount # "absent"
  BY <1>5, MeasuredIsKnown DEF RecordArtifact
<1>2. accepted => Open(a)
  BY DEF MayRecordCost
<1>3. IsAttempt(a) => /\ new.id = a.id /\ new.recovered = a.recovered
                      /\ new.disposition = a.disposition
  BY DEF IsAttempt, NoAttempt, RecordCost
<1>4. ASSUME OnTrack(a, pc[g], held[g], missing[g], answer[g]),
             IsAttempt(a), WellFormed(a), a.id = g, ~barrier
      PROVE  accepted /\ OnTrack(new, next, held[g], missing[g], answer[g])
  <2>1. "artifact" \in Categories /\ {"preparation", "model", "artifact"} = BeforeBarrier
    BY DEF Categories, BeforeBarrier
  <2>2. Open(a) /\ Recorded(a) = {"preparation", "model"} /\ a.costs["artifact"] = "absent"
    BY <1>1, <1>4, <2>1 DEF OnTrack, Recorded
  <2>3. accepted
    BY <1>1, <2>2 DEF MayRecordCost
  <2>4. /\ new = [a EXCEPT !.costs = new.costs] /\ Recorded(new) = BeforeBarrier
        /\ new.costs["artifact"] = amount
    BY <1>1, <1>4, <2>1, <2>2, CostOwn
  <2> HIDE DEF new, accepted
  <2>6. "preparation" \in BeforeBarrier
    BY DEF BeforeBarrier
  <2>5. OnTrack(new, next, held[g], missing[g], answer[g])
    BY <1>1, <1>4, <1>5, <2>4, <2>6
    DEF OnTrack, Open, Unasked, Asking, Asked, Failing, IsAttempt, NoAttempt, PastGeneration
  <2> QED BY <2>3, <2>5
<1> HIDE DEF a, new, accepted
<1> QED BY <1>1, <1>2, <1>3, <1>4, EventOwn DEF a

LEMMA ClosePhaseOwn ==
    ASSUME Told, NEW g \in Generators, ClosePhase(g) PROVE GenerationInv(g)'
<1> DEFINE a == Of(g)
           accepted == MayFinishPhase(a, "generation", "failed")
           new == FinishPhase(a, "failed")
<1>1. /\ pc[g] = "close" /\ AppendOnly(g, g, accepted, new, "ensure", "done")
  BY DEF ClosePhase
<1>2. accepted => Open(a)
  BY DEF MayFinishPhase
<1>3. IsAttempt(a) => /\ new.id = a.id /\ new.recovered = a.recovered
                      /\ new.disposition = a.disposition
  BY DEF IsAttempt, NoAttempt, FinishPhase
<1>4. ASSUME OnTrack(a, pc[g], held[g], missing[g], answer[g]),
             IsAttempt(a), WellFormed(a), a.id = g, ~barrier
      PROVE  accepted /\ OnTrack(new, "ensure", held[g], missing[g], answer[g])
  <2>1. accepted
    BY <1>1, <1>4 DEF OnTrack, MayFinishPhase, InGeneration
  <2>2. /\ new = [a EXCEPT !.phase = "none", !.ended = new.ended, !.generated = new.generated]
        /\ new.phase = "none" /\ new.ended = a.ended \cup {a.phase}
        /\ Recorded(new) = Recorded(a)
    BY <1>4, FinishOwn
  <2> HIDE DEF accepted, new
  <2>3. OnTrack(new, "ensure", held[g], missing[g], answer[g])
    BY <1>1, <1>4, <2>2
    DEF OnTrack, Open, Unasked, Asking, Asked, Failing, IsAttempt, NoAttempt, PastGeneration,
        InGeneration
  <2> QED BY <2>1, <2>3
<1> HIDE DEF a, new, accepted
<1> QED BY <1>1, <1>2, <1>3, <1>4, EventOwn DEF a

\* The steps that append nothing.
LEMMA MoveOwn ==
    ASSUME Told, NEW g \in Generators, NEW label, Goto(g, label), UNCHANGED attempts,
           expired \subseteq expired',
           ASSUME Of(g) # NoAttempt, g \notin expired',
                  OnTrack(Of(g), pc[g], held[g], missing[g], answer[g])
           PROVE  OnTrack(Of(g), label, held'[g], missing'[g], answer'[g])
    PROVE  GenerationInv(g)'
<1> SUFFICES ASSUME Unaccounted(g)'
             PROVE  OnTrack(Of(g), pc[g], held[g], missing[g], answer[g])'
  BY DEF GenerationInv
<1>1. Of(g)' = Of(g) /\ pc'[g] = label
  BY MovesOwn DEF Told
<1>2. Of(g) # NoAttempt /\ g \notin expired'
  BY <1>1 DEF Unaccounted
<1>3. OnTrack(Of(g), pc[g], held[g], missing[g], answer[g])
  BY <1>1, StillUnaccounted
<1>4. OnTrack(Of(g), label, held'[g], missing'[g], answer'[g])
  BY <1>2, <1>3
<1>5. OnTrack(Of(g)', pc'[g], held'[g], missing'[g], answer'[g])
  BY <1>1, <1>4
<1> QED BY <1>5

LEMMA LookOwn ==
    ASSUME Told, NEW g \in Generators, CannotCall(g) \/ LookForArtifact(g) \/ LookForPhase(g)
    PROVE  GenerationInv(g)'
<1> DEFINE a == Of(g)
<1>1. PICK label : /\ Look(g, label)
                   /\ \/ pc[g] = "consume" /\ label = "fail"
                      \/ /\ pc[g] = "artifact"
                         /\ a.costs["artifact"] = "absent" => label = "artifact_cost"
                      \/ /\ pc[g] = "fail"
                         /\ a # NoAttempt =>
                                label = IF a.phase # "none" THEN "close" ELSE "ensure"
  <2>1. CASE CannotCall(g) \/ LookForPhase(g)
    BY <2>1 DEF CannotCall, LookForPhase
  <2>2. CASE LookForArtifact(g)
    <3> DEFINE label == CASE a.costs["artifact"] = "absent" -> "artifact_cost"
                          [] a.costs["artifact"] \in Measured /\ WithinReservation(a)
                                 -> "dispose"
                          [] OTHER -> "fail"
    <3>1. pc[g] = "artifact" /\ Look(g, label)
      BY <2>2 DEF LookForArtifact
    <3>2. a.costs["artifact"] = "absent" => label = "artifact_cost"
      BY MeasuredIsKnown
    <3> HIDE DEF label
    <3> QED BY <3>1, <3>2
  <2> QED BY <2>1, <2>2
<1>2. Goto(g, label) /\ UNCHANGED <<attempts, expired, held, missing, answer>>
  BY <1>1 DEF Look, ledger, locals, world
<1>3. ASSUME a # NoAttempt, OnTrack(a, pc[g], held[g], missing[g], answer[g])
      PROVE  OnTrack(a, label, held[g], missing[g], answer[g])
  <2> HIDE DEF a
  <2>1. CASE pc[g] = "consume" /\ label = "fail"
    BY <1>3, <2>1, PriorCosts DEF OnTrack, Unasked, Asking, Asked, Failing
  <2>2. CASE pc[g] = "artifact" /\ (a.costs["artifact"] = "absent" => label = "artifact_cost")
    <3>1. a.costs["artifact"] = "absent"
      BY <1>3, <2>2 DEF OnTrack, Recorded, Categories, BeforeBarrier
    <3> QED BY <1>3, <2>2, <3>1 DEF OnTrack, Unasked, Asking, Asked, Failing
  <2>3. CASE pc[g] = "fail" /\ label = IF a.phase # "none" THEN "close" ELSE "ensure"
    BY <1>3, <2>3
    DEF OnTrack, Unasked, Asking, Asked, Failing, InGeneration, PastGeneration
  <2> QED BY <1>1, <1>3, <2>1, <2>2, <2>3 DEF a
<1>4. ASSUME a # NoAttempt, g \notin expired',
             OnTrack(a, pc[g], held[g], missing[g], answer[g])
      PROVE  OnTrack(a, label, held'[g], missing'[g], answer'[g])
  BY <1>2, <1>3, <1>4
<1> HIDE DEF a
<1> QED BY <1>2, <1>4, MoveOwn DEF a

LEMMA ConsumeOwn ==
    ASSUME Told, NEW g \in Generators, Consume(g) PROVE GenerationInv(g)'
<1> DEFINE a == Of(g)
<1>1. PICK label \in {"start_call", "crash", "fail"} : Goto(g, label)
  BY DEF Consume
<1>2. pc[g] = "consume" /\ UNCHANGED <<attempts, expired, held, missing, answer>>
  BY DEF Consume, ledger, locals, world
<1>3. ASSUME a # NoAttempt, g \notin expired',
             OnTrack(a, pc[g], held[g], missing[g], answer[g])
      PROVE  OnTrack(a, label, held'[g], missing'[g], answer'[g])
  <2> HIDE DEF a
  <2>1. OnTrack(a, label, held[g], missing[g], answer[g])
    BY <1>1, <1>2, <1>3, PriorCosts DEF OnTrack, Unasked, Asking, Asked, Failing
  <2> QED BY <1>2, <2>1
<1> HIDE DEF a
<1> QED BY <1>1, <1>2, <1>3, MoveOwn DEF a

LEMMA PersistOwn ==
    ASSUME Told, NEW g \in Generators, Persist(g) PROVE GenerationInv(g)'
<1> DEFINE a == Of(g)
<1>1. PICK label \in {"submit", "crash", "fail"} : Goto(g, label)
  BY DEF Persist
<1>2. pc[g] = "persist" /\ UNCHANGED <<attempts, expired, held, missing, answer>>
  BY DEF Persist, ledger, locals, world
<1>3. ASSUME a # NoAttempt, g \notin expired',
             OnTrack(a, pc[g], held[g], missing[g], answer[g])
      PROVE  OnTrack(a, label, held'[g], missing'[g], answer'[g])
  <2> HIDE DEF a
  <2>1. OnTrack(a, label, held[g], missing[g], answer[g])
    BY <1>1, <1>2, <1>3, PriorCosts DEF OnTrack, Unasked, Asking, Asked, Failing
  <2> QED BY <1>2, <2>1
<1> HIDE DEF a
<1> QED BY <1>1, <1>2, <1>3, MoveOwn DEF a

LEMMA ProviderOwn ==
    ASSUME Told, NEW g \in Generators, Provider(g) PROVE GenerationInv(g)'
<1> DEFINE a == Of(g)
<1>1. PICK given \in IF a # NoAttempt THEN Answers[g] ELSE {NotSent} :
          /\ answer' = [answer EXCEPT ![g] = given]
          /\ Goto(g, IF given.kind = "candidate" THEN "persist" ELSE "finish_call")
  BY DEF Provider
<1>2. pc[g] = "provider" /\ UNCHANGED <<attempts, expired, held, missing>>
  BY DEF Provider, ledger
<1>3. given.usage \in Usages /\ answer'[g] = given
  <2>1. Answers[g] \subseteq AnAnswer
    BY RunnerAssumption
  <2> QED BY <1>1, <2>1, MeasuredIsKnown
          DEF AnAnswer, NotSent, Told, Evaluated, FileInv, Shapes
<1> DEFINE label == IF given.kind = "candidate" THEN "persist" ELSE "finish_call"
<1>4. ASSUME a # NoAttempt, g \notin expired',
             OnTrack(a, pc[g], held[g], missing[g], answer[g])
      PROVE  OnTrack(a, label, held'[g], missing'[g], answer'[g])
  <2> HIDE DEF a
  <2>1. \/ label = "persist" /\ given.kind = "candidate"
        \/ label = "finish_call" /\ given.kind # "candidate"
    OBVIOUS
  <2> HIDE DEF label
  <2>2. OnTrack(a, label, held[g], missing[g], given)
    BY <1>2, <1>3, <1>4, <2>1 DEF OnTrack, Unasked, Asking, Asked, Failing
  <2> QED BY <1>2, <1>3, <2>2
<1>5. Goto(g, label)
  BY <1>1
<1> HIDE DEF a, label
<1> QED BY <1>2, <1>4, <1>5, MoveOwn DEF a

LEMMA StartGenerationOwn ==
    ASSUME Told, NEW g \in Generators, StartGeneration(g) PROVE GenerationInv(g)'
<1> DEFINE a == Of(g)
           new == StartPhase(a, "generation")
<1> SUFFICES ASSUME Unaccounted(g)'
             PROVE  OnTrack(Of(g), pc[g], held[g], missing[g], answer[g])'
  BY DEF GenerationInv
<1>1. PICK late \in BOOLEAN :
          /\ Clock(g, late)
          /\ Append(g, g, ~late /\ MayStartPhase(a, "generation"), new, "consume", "fail")
  BY DEF StartGeneration
<1>2. pc[g] = "start_phase" /\ UNCHANGED <<held, missing, answer>>
  BY DEF StartGeneration, locals
<1> DEFINE accepted == ~late /\ MayStartPhase(a, "generation")
<1>3. ~late /\ expired \subseteq expired'
  BY <1>1 DEF Clock, Unaccounted
<1>4. /\ accepted => Open(a)
      /\ IsAttempt(a) => /\ new.id = a.id /\ new.recovered = a.recovered
                         /\ new.disposition = a.disposition
  BY DEF MayStartPhase, StartPhase, IsAttempt, NoAttempt
<1> HIDE DEF new
<1>5. \/ accepted /\ IsAttempt(a) /\ Of(g)' = new /\ pc'[g] = "consume"
      \/ ~accepted /\ Of(g)' = a /\ pc'[g] = "fail"
  <2> HIDE DEF accepted
  <2> QED BY <1>1, <1>4, AppendOwn DEF Told, accepted
<1> HIDE DEF accepted
<1>6. OnTrack(a, pc[g], held[g], missing[g], answer[g]) /\ IsAttempt(a) /\ WellFormed(a)
  BY <1>3, <1>4, <1>5, StillUnaccounted
<1>7. accepted
  BY <1>2, <1>3, <1>6 DEF OnTrack, MayStartPhase, accepted
<1>8. OnTrack(new, "consume", held[g], missing[g], answer[g])
  <2>1. /\ new = [a EXCEPT !.phase = "generation", !.began = new.began]
        /\ new.phase = "generation" /\ Recorded(new) = Recorded(a)
    BY <1>6, PhaseOwn DEF new
  <2> QED
    BY <1>2, <1>6, <2>1
    DEF OnTrack, Open, Unasked, Asking, Asked, Failing, IsAttempt, NoAttempt, InGeneration
<1>9. OnTrack(Of(g)', pc'[g], held'[g], missing'[g], answer'[g])
  BY <1>2, <1>5, <1>7, <1>8
<1> QED BY <1>9

LEMMA CheckGenerationOwn ==
    ASSUME Told, NEW g \in Generators, CheckGeneration(g) PROVE GenerationInv(g)'
<1> DEFINE a == Of(g)
<1>1. /\ pc[g] = "check" /\ UNCHANGED <<attempts, missing, answer>>
      /\ expired \subseteq expired'
  BY DEF CheckGeneration, Clock, ledger
<1>2. PICK label \in {"artifact", "fail"} :
          /\ Goto(g, label)
          /\ a # NoAttempt /\ g \notin expired' => held' = [held EXCEPT ![g] = TRUE]
  <2>1. Clock(g, a # NoAttempt) /\ a # NoAttempt => g \in expired'
    BY DEF Clock
  <2> QED BY <2>1 DEF CheckGeneration
<1>3. ASSUME a # NoAttempt, g \notin expired',
             OnTrack(a, pc[g], held[g], missing[g], answer[g])
      PROVE  OnTrack(a, label, held'[g], missing'[g], answer'[g])
  <2>1. held'[g] = TRUE
    BY <1>2, <1>3 DEF Told, AccountInv
  <2> HIDE DEF a
  <2>2. OnTrack(a, label, TRUE, missing[g], answer[g])
    BY <1>1, <1>2, <1>3, PriorCosts DEF OnTrack, Unasked, Asking, Asked, Failing
  <2> QED BY <1>1, <2>1, <2>2
<1> HIDE DEF a
<1> QED BY <1>1, <1>2, <1>3, MoveOwn DEF a

LEMMA EnsureCostsOwn ==
    ASSUME Told, NEW g \in Generators, EnsureCosts(g) PROVE GenerationInv(g)'
<1> DEFINE a == Of(g)
           todo == {"model", "artifact"} \ Recorded(a)
           label == IF todo = {} THEN "dispose" ELSE "fill"
           found == [k \in todo |-> IF k = "model" THEN ModelCost(a) ELSE "zero"]
<1>1. /\ pc[g] = "ensure" /\ UNCHANGED <<attempts, expired, held, answer>>
      /\ Goto(g, label) /\ missing' = [missing EXCEPT ![g] = found]
  <2>1. FindMissing(g, g, {"model", "artifact"}, ModelCost(a), "zero", "fill", "dispose")
    BY DEF EnsureCosts
  <2>2. pc[g] = "ensure"
    BY DEF EnsureCosts
  <2> QED BY <2>1, <2>2, FoundMissing DEF ledger, world
<1>2. missing'[g] = found
  BY <1>1 DEF Told, Evaluated, OnceInv, Processes
<1>3. ASSUME a # NoAttempt, g \notin expired',
             OnTrack(a, pc[g], held[g], missing[g], answer[g])
      PROVE  OnTrack(a, label, held'[g], missing'[g], answer'[g])
  <2> HIDE DEF a
  <2>1. /\ Open(a) /\ "preparation" \in Recorded(a)
        /\ Recorded(a) \subseteq BeforeBarrier
    BY <1>1, <1>3 DEF OnTrack
  <2>2. todo = BeforeBarrier \ Recorded(a)
    BY <2>1 DEF BeforeBarrier
  <2>3. label \in {"fill", "dispose"} /\ (label = "dispose" => Recorded(a) = BeforeBarrier)
    BY <2>1, <2>2
  <2>4. found = [k \in BeforeBarrier \ Recorded(a) |->
                    IF k = "model" THEN ModelCost(a) ELSE "zero"]
    BY <2>2
  <2> HIDE DEF todo, found, label
  <2>5. OnTrack(a, label, held[g], found, answer[g])
    BY <1>1, <1>3, <2>1, <2>3, <2>4 DEF OnTrack, Unasked, Asking, Asked, Failing
  <2> QED BY <1>1, <1>2, <2>5
<1> HIDE DEF a, todo, found, label
<1> QED BY <1>1, <1>3, MoveOwn DEF a

\* What is filled in is accepted, until nothing is missing.
LEMMA FillOwn ==
    ASSUME Told, NEW g \in Generators, FillGenerationCosts(g) PROVE GenerationInv(g)'
<1> DEFINE a == Of(g)
           todo == missing[g]
           k == NextMissing(g)
           accepted == MayRecordCost(a, k, todo[k])
           new == RecordCost(a, k, todo[k])
           next == IF DOMAIN todo = {k} THEN "dispose" ELSE "fill"
           left == [j \in DOMAIN todo \ {k} |-> todo[j]]
<1> SUFFICES ASSUME Unaccounted(g)'
             PROVE  OnTrack(Of(g), pc[g], held[g], missing[g], answer[g])'
  BY DEF GenerationInv
<1>1. /\ pc[g] = "fill" /\ todo # Nothing /\ UNCHANGED <<held, answer, expired>>
      /\ Append(g, g, accepted, new, next, "done")
      /\ missing' = [missing EXCEPT ![g] = IF accepted THEN left ELSE Nothing]
  BY DEF FillGenerationCosts, AppendMissing, Told, Evaluated, OnceInv, Processes
<1>2. accepted => missing'[g] = left
  <2> HIDE DEF accepted, left
  <2> QED BY <1>1 DEF Told, Evaluated, OnceInv, Processes
<1>3. /\ accepted => Open(a)
      /\ IsAttempt(a) => /\ new.id = a.id /\ new.recovered = a.recovered
                         /\ new.disposition = a.disposition
  BY DEF MayRecordCost, RecordCost, IsAttempt, NoAttempt
<1> HIDE DEF new, accepted, next
<1>4. \/ accepted /\ IsAttempt(a) /\ Of(g)' = new /\ pc'[g] = next
      \/ ~accepted /\ Of(g)' = a /\ pc'[g] = "done"
  BY <1>1, <1>3, AppendOwn DEF Told
<1>5. OnTrack(a, "fill", held[g], todo, answer[g]) /\ IsAttempt(a) /\ WellFormed(a)
  BY <1>1, <1>3, <1>4, StillUnaccounted
<1>6. /\ "preparation" \in Recorded(a) /\ Recorded(a) \subseteq BeforeBarrier /\ Open(a)
      /\ todo = [j \in BeforeBarrier \ Recorded(a) |->
                    IF j = "model" THEN ModelCost(a) ELSE "zero"]
      /\ a.call \in {"none", "started", "succeeded", "failed"} /\ a.usage # "absent"
  BY <1>5 DEF OnTrack
<1> DEFINE D == BeforeBarrier \ Recorded(a)
<1>7. DOMAIN todo = D /\ D \subseteq {"model", "artifact"} /\ D # {}
  <2>1. D \subseteq {"model", "artifact"} /\ DOMAIN todo = D
    BY <1>6 DEF BeforeBarrier
  <2>2. D # {}
    BY <1>1, <1>6 DEF Nothing
  <2> QED BY <2>1, <2>2
<1>8. k \in D
  <2>1. \E i \in D : \A j \in D : Order[i] <= Order[j]
    BY <1>7 DEF Order
  <2> QED BY <1>7, <2>1 DEF NextMissing
<1> HIDE DEF k
<1>9. /\ a.costs[k] = "absent" /\ k \in Categories
      /\ todo[k] = IF k = "model" THEN ModelCost(a) ELSE "zero"
  BY <1>6, <1>8 DEF Recorded, Categories
<1>10. accepted /\ todo[k] # "absent"
  BY <1>6, <1>9, MeasuredIsKnown DEF accepted, MayRecordCost, ModelCost, Called, Unmatched
<1>11. /\ new = [a EXCEPT !.costs = new.costs] /\ new.costs[k] = todo[k]
       /\ \A j \in Categories \ {k} : new.costs[j] = a.costs[j]
       /\ Recorded(new) = Recorded(a) \cup {k}
  BY <1>5, <1>9, <1>10, CostOwn DEF new
<1>12. /\ new.call = a.call /\ new.usage = a.usage /\ new.phase = a.phase
       /\ new.ended = a.ended /\ new.candidate = a.candidate /\ new.status = a.status
       /\ ModelCost(new) = ModelCost(a)
       /\ new.costs["artifact"] \in {"absent", "zero"} \cup Measured
  <2>1. /\ new.call = a.call /\ new.usage = a.usage /\ new.phase = a.phase
        /\ new.ended = a.ended /\ new.candidate = a.candidate /\ new.status = a.status
    BY <1>5, <1>11 DEF IsAttempt, NoAttempt
  <2>2. a.costs["artifact"] \in {"absent", "zero"} \cup Measured
    BY <1>5 DEF OnTrack
  <2>3. \/ new.costs["artifact"] = a.costs["artifact"]
        \/ k = "artifact" /\ new.costs["artifact"] = "zero"
    <3>1. "artifact" \in Categories
      BY DEF Categories, BeforeBarrier
    <3>2. CASE k = "artifact"
      BY <1>9, <1>11, <3>2
    <3>3. CASE k # "artifact"
      BY <1>11, <3>1, <3>3
    <3> QED BY <3>2, <3>3
  <2> QED BY <2>1, <2>2, <2>3 DEF ModelCost, Called, Unmatched
<1>13. left = [j \in BeforeBarrier \ Recorded(new) |->
                  IF j = "model" THEN ModelCost(new) ELSE "zero"]
  <2>1. D \ {k} = BeforeBarrier \ Recorded(new)
    BY <1>11
  <2>2. \A j \in D \ {k} : todo[j] = IF j = "model" THEN ModelCost(new) ELSE "zero"
    BY <1>6, <1>12
  <2> HIDE DEF D
  <2> QED BY <1>7, <2>1, <2>2
<1>14. /\ next = "dispose" => Recorded(new) = BeforeBarrier
       /\ next \in {"dispose", "fill"}
  BY <1>6, <1>7, <1>11 DEF next
<1> HIDE DEF left, D
<1>15. OnTrack(new, next, held[g], left, answer[g])
  <2>1. "preparation" \in Recorded(new) /\ Recorded(new) \subseteq BeforeBarrier
    BY <1>6, <1>7, <1>8, <1>11 DEF D
  <2>2. PastGeneration(new) /\ (held[g] <=> new.candidate) /\ Open(new)
    BY <1>5, <1>12 DEF OnTrack, PastGeneration, Failing, Open
  <2> QED
    BY <1>6, <1>12, <1>13, <1>14, <2>1, <2>2
    DEF OnTrack, Unasked, Asking, Asked, Failing
<1>16. OnTrack(Of(g)', pc'[g], held'[g], missing'[g], answer'[g])
  BY <1>1, <1>2, <1>4, <1>10, <1>15
<1> QED BY <1>16

LEMMA DisposeOwn ==
    ASSUME Told, NEW g \in Generators, DisposeGeneration(g) PROVE GenerationInv(g)'
<1> DEFINE a == Of(g)
           status == IF held[g] THEN "candidate_submitted" ELSE "no_candidate"
           accepted == MayDispose(a, status)
           new == Dispose(a, status)
<1>1. CASE ~Known(a, "model") /\ Look(g, "crash")
  <2>1. Goto(g, "crash") /\ UNCHANGED <<attempts, expired, held, missing, answer>>
    BY <1>1 DEF Look, ledger, locals, world
  <2>2. ASSUME a # NoAttempt, g \notin expired',
               OnTrack(a, pc[g], held[g], missing[g], answer[g])
        PROVE  OnTrack(a, "crash", held'[g], missing'[g], answer'[g])
    <3> HIDE DEF a
    <3>1. OnTrack(a, "crash", held[g], missing[g], answer[g])
      BY <2>2 DEF OnTrack, Unasked, Asking, Asked, Failing
    <3> QED BY <2>1, <3>1
  <2> HIDE DEF a
  <2> QED BY <2>1, <2>2, MoveOwn DEF a
<1>2. CASE Known(a, "model") /\ AppendOnly(g, g, accepted, new, "done", "done")
  <2> SUFFICES ASSUME Unaccounted(g)' PROVE FALSE
    BY DEF GenerationInv
  <2>1. pc[g] = "dispose" /\ UNCHANGED expired
        /\ Append(g, g, accepted, new, "done", "done")
    BY <1>2 DEF DisposeGeneration, AppendOnly
  <2>2. accepted => Open(a)
    BY DEF MayDispose
  <2>3. IsAttempt(a) => new.id = a.id /\ new.disposition # "none"
    BY DEF Dispose, IsAttempt, NoAttempt
  <2> HIDE DEF new, accepted
  <2>4. \/ accepted /\ IsAttempt(a) /\ Of(g)' = new
        \/ ~accepted /\ Of(g)' = a
    BY <2>1, <2>2, <2>3, AppendOwn DEF Told
  <2>5. ~accepted /\ Of(g)' = a
    BY <2>3, <2>4 DEF Unaccounted
  <2>6. /\ OnTrack(a, "dispose", held[g], missing[g], answer[g])
        /\ Unaccounted(g) /\ ~barrier
    BY <2>1, <2>5, StillUnaccounted
  <2>7. /\ Open(a) /\ a.disposition = "none" /\ PastGeneration(a)
        /\ Recorded(a) = BeforeBarrier /\ (held[g] <=> a.candidate)
        /\ a.costs["artifact"] \in {"absent", "zero"} \cup Measured
    BY <2>6 DEF OnTrack, Unaccounted, Failing
  <2>8. Known(a, "artifact")
    BY <2>7, MeasuredIsKnown DEF Known, Recorded, BeforeBarrier
  <2>9. a.candidate <=> status = "candidate_submitted"
    BY <2>7
  <2> HIDE DEF status
  <2> QED BY <1>2, <2>5, <2>6, <2>7, <2>8, <2>9 DEF accepted, MayDispose, PastGeneration
<1> QED BY <1>1, <1>2 DEF DisposeGeneration

LEMMA CrashOwn ==
    ASSUME Told, NEW g \in Generators, CrashGeneration(g) PROVE GenerationInv(g)'
<1> DEFINE a == Of(g)
           accepted == MayCrash(a)
           new == Crash(a)
<1> SUFFICES ASSUME Unaccounted(g)' PROVE FALSE
  BY DEF GenerationInv
<1>1. UNCHANGED expired /\ Append(g, g, accepted, new, "done", "done")
  BY DEF CrashGeneration, AppendOnly
<1>2. /\ accepted => Open(a)
      /\ IsAttempt(a) => new.id = a.id /\ Terminal(new)
  BY DEF MayCrash, Crash, IsAttempt, NoAttempt, Terminal
<1> HIDE DEF new, accepted
<1>3. \/ accepted /\ IsAttempt(a) /\ Of(g)' = new
      \/ ~accepted /\ Of(g)' = a
  BY <1>1, <1>2, AppendOwn DEF Told
<1>4. ~accepted /\ Of(g)' = a
  BY <1>2, <1>3 DEF Unaccounted
<1>5. OnTrack(a, pc[g], held[g], missing[g], answer[g])
  BY <1>1, <1>4, StillUnaccounted
<1> QED BY <1>4, <1>5 DEF OnTrack, accepted, MayCrash

LEMMA GenerateOwn ==
    ASSUME Told, NEW g \in Generators, Generate(g) PROVE GenerationInv(g)'
BY BeginOwn, RecordPreparationOwn, StartGenerationOwn, LookOwn, ConsumeOwn, BeginCallOwn,
   ProviderOwn, PersistOwn, SubmitOwn, EndCallOwn, RecordModelCostOwn, EndGenerationOwn,
   CheckGenerationOwn, RecordArtifactOwn, ClosePhaseOwn, EnsureCostsOwn, FillOwn,
   DisposeOwn, CrashOwn
DEF Generate

-----------------------------------------------------------------------------
(* The steps of the others *)

\* A step of p leaves alone what the others hold, and no clock goes back.
Aside(p) ==
    /\ expired \subseteq expired' /\ held' \in [Generators -> BOOLEAN]
    /\ \A g \in Generators \ {p} :
           pc'[g] = pc[g] /\ held'[g] = held[g] /\ missing'[g] = missing[g]
           /\ answer'[g] = answer[g]
    /\ \A o \in Operators \ {p} : pc'[o] = pc[o] /\ on'[o] = on[o]

LEMMA AsideAccount ==
    ASSUME Told, StayRecovered, NEW p \in Processes, Aside(p),
           \A g \in Generators \ {p} : Unaccounted(g)' => Of(g)' = Of(g),
           p \in Generators => GenerationInv(p)' /\ pc'[p] # "idle",
           p \in Operators => RecoveryInv(p)'
    PROVE  AccountInv'
<1>1. held' \in [Generators -> BOOLEAN] /\ \A g \in Generators : pc'[g] = "idle" => ~held'[g]
  BY DEF Told, AccountInv, Aside
<1>2. ASSUME NEW g \in Generators PROVE GenerationInv(g)'
  <2>1. CASE g = p
    BY <2>1
  <2>2. CASE g # p
    <3> SUFFICES ASSUME Unaccounted(g)'
                 PROVE  OnTrack(Of(g), pc[g], held[g], missing[g], answer[g])'
      BY DEF GenerationInv
    <3>1. /\ Of(g)' = Of(g) /\ expired \subseteq expired' /\ pc'[g] = pc[g]
          /\ held'[g] = held[g] /\ missing'[g] = missing[g] /\ answer'[g] = answer[g]
      BY <2>2 DEF Aside
    <3>2. OnTrack(Of(g), pc[g], held[g], missing[g], answer[g])
      BY <3>1, StillUnaccounted
    <3>3. OnTrack(Of(g)', pc'[g], held'[g], missing'[g], answer'[g])
      BY <3>1, <3>2
    <3> QED BY <3>3
  <2> QED BY <2>1, <2>2
<1>3. ASSUME NEW o \in Operators PROVE RecoveryInv(o)'
  <2>1. CASE o = p
    BY <2>1
  <2>2. CASE o # p
    <3> SUFFICES ASSUME pc[o] \in Recovering, Of(on[o])' # NoAttempt
                 PROVE  Of(on[o])'.recovered
      BY <2>2 DEF Aside, RecoveryInv
    <3>1. PICK g \in Generators : g = on[o] /\ on'[o] = g
      BY <2>2 DEF Aside, Told, Evaluated, FileInv, OperatorInv, Recovering, Replays
    <3>2. pc[g] # "idle"
      BY <3>1 DEF Told, Evaluated, OnceInv, FirstOperator, Recovering, Replays
    <3>3. Of(on[o])' = Of(g)' /\ Of(on[o]) = Of(g)
      BY <3>1 DEF Of
    <3>4. Of(g) # NoAttempt => Of(g).recovered
      BY <3>1 DEF Told, AccountInv, RecoveryInv
    <3> QED BY <3>2, <3>3, <3>4 DEF StayRecovered
  <2> QED BY <2>1, <2>2
<1> QED BY <1>1, <1>2, <1>3 DEF AccountInv

\* The attempts but the one it is about are not touched by an event.
LEMMA OthersKept ==
    ASSUME Told, LedgerOnward, NEW h \in Generators, NEW new, Of(h) # NoAttempt,
           attempts' = [attempts EXCEPT ![CaseOf[h]] = new]
    PROVE  /\ \A g \in Generators \ {h} : Of(g)' = Of(g)
           /\ Of(h)' # NoAttempt => Of(h)' = new
<1>1. /\ CaseOf[h] \in Cases /\ attempts[CaseOf[h]].id = h
      /\ \A g \in Generators : CaseOf[g] \in Cases
  BY AttemptAssumption DEF Of
<1>2. attempts'[CaseOf[h]].id = h
  BY <1>1 DEF LedgerOnward, Onward
<1>3. /\ \A c \in Cases \ {CaseOf[h]} : attempts'[c] = attempts[c]
      /\ attempts'[CaseOf[h]] = new
  BY <1>1 DEF Told, Evaluated, FileInv, Shapes
<1> QED BY <1>1, <1>2, <1>3 DEF Of

LEMMA GenerateKept ==
    ASSUME Told, NEW g \in Generators, Generate(g)
    PROVE  \A h \in Generators \ {g} : Of(h)' = Of(h)
<1>1. CASE Begin(g)
  <2>1. CASE attempts' = attempts
    BY <2>1 DEF Of
  <2>2. CASE /\ attempts[CaseOf[g]] = NoAttempt
             /\ attempts' = [attempts EXCEPT ![CaseOf[g]] = StartAttempt(g)]
    <3>1. StartAttempt(g).id = g /\ NoAttempt.id = NoOne
      BY DEF StartAttempt, NoAttempt
    <3> QED
      BY <2>2, <3>1, AttemptAssumption DEF Of, Told, Evaluated, FileInv, Shapes
  <2> QED BY <1>1, <2>1, <2>2 DEF Begin, AppendOnly, Append, MayStartAttempt
<1>2. CASE ~Begin(g)
  <2>1. LedgerOnward
    BY <1>2, GenerateStep DEF Told, StepOf
  <2>2. \/ attempts' = attempts
        \/ /\ Open(Of(g))
           /\ \E new : attempts' = [attempts EXCEPT ![CaseOf[g]] = new]
    BY <1>2
    DEF Generate, RecordPreparation, StartGeneration, CannotCall, Consume, BeginCall,
        Provider, Persist, SubmitCandidate, EndCall, RecordModelCost, EndGeneration,
        CheckGeneration, LookForArtifact, RecordArtifact, LookForPhase, ClosePhase,
        EnsureCosts, FindMissing, FillGenerationCosts, AppendMissing, DisposeGeneration,
        CrashGeneration, AppendOnly, Append, Look, ledger, MayRecordCost, MayStartPhase,
        MayStartCall, MaySubmit, MayFinishCall, MayFinishPhase, MayDispose, MayCrash
  <2>3. Open(Of(g)) => Of(g) # NoAttempt
    BY DEF Open, NoAttempt
  <2> QED BY <2>1, <2>2, <2>3, OthersKept DEF Of
<1> QED BY <1>1, <1>2

LEMMA GenerateAside ==
    ASSUME Told, NEW g \in Generators, Generate(g)
    PROVE  Aside(g) /\ pc'[g] # "idle"
<1>1. /\ \A q \in Processes \ {g} : pc'[q] = pc[q] /\ missing'[q] = missing[q]
      /\ pc'[g] # "idle"
  <2>1. CASE Begin(g)
    BY <2>1
    DEF Begin, AppendOnly, Append, Goto, locals, Told, Evaluated, FileInv, Shapes, Processes
  <2>2. CASE ~Begin(g)
    BY <2>2, GenerateStep, OthersAlike DEF Told, StepOf, Processes
  <2> QED BY <2>1, <2>2
<1>2. /\ held' = held \/ held' = [held EXCEPT ![g] = TRUE]
      /\ answer' = answer \/ \E a : answer' = [answer EXCEPT ![g] = a]
      /\ expired' = expired \/ \E late \in BOOLEAN : Clock(g, late)
  BY DEF Generate, Begin, RecordPreparation, StartGeneration, CannotCall, Consume, BeginCall,
         Provider, Persist, SubmitCandidate, EndCall, RecordModelCost, EndGeneration,
         CheckGeneration, LookForArtifact, RecordArtifact, LookForPhase, ClosePhase,
         EnsureCosts, FindMissing, FillGenerationCosts, AppendMissing, DisposeGeneration,
         CrashGeneration, AppendOnly, Look, locals, world
<1>3. expired \subseteq expired'
  BY <1>2 DEF Clock
<1>4. /\ held' \in [Generators -> BOOLEAN]
      /\ \A h \in Generators \ {g} : held'[h] = held[h] /\ answer'[h] = answer[h]
  BY <1>2 DEF Told, AccountInv, Evaluated, FileInv, Shapes
<1>5. \A o \in Operators : on'[o] = on[o] /\ o # g
  BY GenerateAlike, RunnerAssumption
<1> QED BY <1>1, <1>3, <1>4, <1>5 DEF Aside, Processes

LEMMA GenerateAccount ==
    ASSUME Told, StayRecovered, NEW g \in Generators, Generate(g)
    PROVE  AccountInv'
<1>1. g \in Processes /\ g \notin Operators
  BY RunnerAssumption DEF Processes
<1> QED BY <1>1, GenerateAside, GenerateKept, GenerateOwn, AsideAccount

\* A step of operator o that goes to label.
LEMMA OperatorAside ==
    ASSUME Told, NEW o \in Operators, NEW label, Goto(o, label),
           UNCHANGED <<answer, held>>, expired \subseteq expired',
           \A g \in Generators : missing'[g] = missing[g],
           on' = on \/ \E g : on' = [on EXCEPT ![o] = g]
    PROVE  Aside(o) /\ pc'[o] = label
<1>1. \A g \in Generators : g # o
  BY RunnerAssumption
<1> QED
  BY <1>1 DEF Aside, Goto, Told, AccountInv, Evaluated, FileInv, Shapes, Processes

\* A recovery touches only an attempt that it has announced.
LEMMA RecoveryAccount ==
    ASSUME Told, StayRecovered, NEW o \in Operators, Recovery(o)
    PROVE  AccountInv'
<1> DEFINE g == on[o]
           a == Of(g)
<1>1. o \in Processes /\ o \notin Generators
  BY RunnerAssumption DEF Processes
<1>2. ASSUME NEW label, Goto(o, label), UNCHANGED <<answer, held, missing, attempts>>,
             expired \subseteq expired', on' = on \/ \E h : on' = [on EXCEPT ![o] = h],
             label \in Recovering => on' = on /\ (a # NoAttempt => a.recovered)
      PROVE  AccountInv'
  <2>1. Aside(o) /\ pc'[o] = label
    BY <1>2, OperatorAside
  <2>2. \A h \in Generators : Of(h)' = Of(h)
    BY <1>2 DEF Of
  <2>3. RecoveryInv(o)'
    BY <1>2, <2>1 DEF RecoveryInv, Of
  <2> QED BY <1>1, <2>1, <2>2, <2>3, AsideAccount
<1>3. ASSUME NEW accepted, NEW new, NEW next, NEW rejected,
             Append(o, g, accepted, new, next, rejected), pc[o] # "idle",
             UNCHANGED <<answer, held, missing, on, expired>>,
             accepted => a # NoAttempt,
             accepted /\ IsAttempt(a) /\ WellFormed(a) => Onward(a, new) /\ new.recovered,
             rejected \notin Recovering
      PROVE  AccountInv'
  <2>1. CASE ~accepted /\ UNCHANGED attempts /\ Goto(o, rejected)
    BY <1>2, <1>3, <2>1
  <2>2. CASE accepted /\ attempts' = [attempts EXCEPT ![CaseOf[g]] = new] /\ Goto(o, next)
    <3>1. PICK h \in Generators : h = g /\ on'[o] = h
      BY <1>3, OperatorIsSomewhere DEF Told, Evaluated
    <3>2. CaseOf[h] \in Cases /\ a = attempts[CaseOf[h]] /\ IsAttempt(a) /\ WellFormed(a)
      BY <1>3, <2>2, <3>1, AttemptAssumption
      DEF Of, Told, Evaluated, OnceInv, FileInv, OnFile
    <3>3. LedgerOnward
      BY <1>3, <2>2, <3>1, AppendOnward DEF Told
    <3>4. /\ \A i \in Generators \ {h} : Of(i)' = Of(i)
          /\ Of(h)' # NoAttempt => Of(h)'.recovered
      BY <1>3, <2>2, <3>1, <3>2, <3>3, OthersKept
    <3>5. Aside(o)
      BY <1>3, <2>2, OperatorAside
    <3>6. \A i \in Generators : Unaccounted(i)' => Of(i)' = Of(i)
      BY <3>4 DEF Unaccounted
    <3>7. RecoveryInv(o)'
      <4>1. Of(on[o])' = Of(h)'
        BY <1>3, <3>1 DEF Of
      <4> QED BY <3>4, <4>1 DEF RecoveryInv
    <3> QED BY <1>1, <3>5, <3>6, <3>7, AsideAccount
  <2> QED BY <1>3, <2>1, <2>2 DEF Append
<1>4. /\ RecoveryInv(o)
      /\ {"recover", "done", "crash_recovery"} \cap Recovering = {} /\ "idle" \notin Recovering
      /\ {"spend", "wall", "reservation", "candidate", "phase", "artifact", "disposition"}
             \subseteq Recovering
      /\ \A event \in DOMAIN Replays : event \in Recovering /\ Replays[event] \in Recovering
  BY DEF Recovering, Replays, Told, AccountInv
<1>5. IsAttempt(a) /\ WellFormed(a) =>
          /\ Onward(a, Crash(a)) /\ Crash(a).recovered = a.recovered
          /\ ~barrier => Onward(a, Recover(a))
          /\ Recover(a).recovered
  BY EventsOnward DEF Crash, Recover, IsAttempt, NoAttempt
<1>6. MayCrash(a) => a # NoAttempt
  BY DEF MayCrash, Open, NoAttempt
<1>7. ASSUME NEW h \in Generators, Enter(o, h, "recover") PROVE AccountInv'
  BY <1>2, <1>4, <1>7 DEF Enter, ledger, world
<1>8. CASE StartRecovery(o)
  <2>1. CASE a.recovered /\ Look(o, "candidate")
    BY <1>2, <2>1 DEF Look, ledger, locals, world
  <2>2. ASSUME NEW accepted, accepted => ~barrier /\ MayRecover(a),
               AppendOnly(o, g, accepted, Recover(a), "candidate", "crash_recovery")
        PROVE  AccountInv'
    <3>1. MayRecover(a) => a # NoAttempt
      BY DEF MayRecover, NoAttempt
    <3>2. pc[o] # "idle"
      BY <1>8 DEF StartRecovery
    <3> QED BY <1>3, <1>4, <1>5, <2>2, <3>1, <3>2 DEF AppendOnly, locals
  <2> QED BY <1>8, <2>1, <2>2 DEF StartRecovery, PreflightRecovery
<1>9. CASE CheckSpend(o)
  <2>1. pc[o] \in Recovering /\ pc[o] # "idle"
    BY <1>4, <1>9 DEF CheckSpend
  <2>2. CASE Look(o, "phase")
    BY <1>2, <1>4, <2>1, <2>2 DEF Look, ledger, locals, world, RecoveryInv
  <2>3. CASE AppendOnly(o, g, MayCrash(a), Crash(a), "done", "done")
    BY <1>3, <1>4, <1>5, <1>6, <2>1, <2>3 DEF AppendOnly, locals, RecoveryInv
  <2> QED BY <1>9, <2>2, <2>3 DEF CheckSpend
<1>10. CASE CheckWall(o)
  <2>1. PICK late \in BOOLEAN, label \in {"crash_recovery", "artifact"} :
             Clock(g, late) /\ Goto(o, label)
    BY <1>10 DEF CheckWall
  <2>2. pc[o] \in Recovering /\ UNCHANGED <<answer, held, missing, on, attempts>>
    BY <1>4, <1>10 DEF CheckWall, ledger, locals
  <2> QED BY <1>2, <1>4, <2>1, <2>2 DEF Clock, RecoveryInv
<1>11. CASE CrashRecovery(o)
  BY <1>3, <1>4, <1>5, <1>6, <1>11 DEF CrashRecovery, AppendOnly, locals
<1>14. CASE CheckReservation(o)
  <2>1. pc[o] \in Recovering
    BY <1>4, <1>14 DEF CheckReservation
  <2>2. PICK label \in {"disposition", "crash_recovery"} : Look(o, label)
    BY <1>14 DEF CheckReservation
  <2> QED BY <1>2, <1>4, <2>1, <2>2 DEF Look, ledger, locals, world, RecoveryInv
<1>12. ASSUME NEW event \in DOMAIN Replays, LookForEvent(o, event) PROVE AccountInv'
  <2>1. PICK label : Look(o, label)
    BY <1>12 DEF LookForEvent
  <2>2. pc[o] \in Recovering
    BY <1>4, <1>12 DEF LookForEvent
  <2> QED BY <1>2, <1>4, <2>1, <2>2 DEF Look, ledger, locals, world, RecoveryInv
<1>13. ASSUME NEW event \in DOMAIN Replays, ReplayEvent(o, event) PROVE AccountInv'
  <2>6. PICK amount : AppendOnly(o, g, Accepted(a, event, amount),
                                 Replayed(a, event, amount), AfterReplay[event],
                                 "crash_recovery")
    BY <1>13, ReplayAppends
  <2> DEFINE accepted == Accepted(a, event, amount)
             new == Replayed(a, event, amount)
  <2>1. /\ Append(o, g, accepted, new, AfterReplay[event], "crash_recovery")
        /\ UNCHANGED <<answer, held, missing, on, expired>>
        /\ pc[o] \in Recovering /\ pc[o] # "idle"
    BY <1>4, <1>13, <2>6, ReplayAppends DEF AppendOnly, locals
  <2>2. accepted => Open(a)
    BY DEF Accepted, Replays, MaySubmit, MayFinishCall, MayRecordCost, MayFinishPhase, MayDispose
  <2>3. accepted => a # NoAttempt
    BY <2>2 DEF Open, NoAttempt
  <2>4. accepted /\ IsAttempt(a) /\ WellFormed(a) => Onward(a, new)
    BY EventsOnward DEF Accepted, Replayed, Replays
  <2> HIDE DEF accepted, new
  <2>5. accepted /\ IsAttempt(a) /\ WellFormed(a) => Onward(a, new) /\ new.recovered
    BY <1>4, <2>1, <2>3, <2>4 DEF Onward, RecoveryInv
  <2> QED BY <1>3, <1>4, <2>1, <2>3, <2>5
<1> QED BY <1>7, <1>8, <1>9, <1>10, <1>11, <1>12, <1>13, <1>14 DEF Recovery

\* An evaluation touches an attempt only after the barrier.
LEMMA EvaluationAccount ==
    ASSUME Told, OnceStep, NEW o \in Operators, Evaluation(o)
    PROVE  AccountInv'
<1>1. o \in Processes /\ o \notin Generators
  BY RunnerAssumption DEF Processes
<1>2. /\ UNCHANGED <<answer, held, barrier>>
      /\ expired' = expired \/ \E late \in BOOLEAN : Clock(on[o], late)
      /\ on' = on \/ \E g : on' = [on EXCEPT ![o] = g]
      /\ missing' = missing \/ \E m : missing' = [missing EXCEPT ![o] = m]
  BY DEF Evaluation, Enter, StartEvaluation, TakeCapability, StartDifferential,
         RunDifferential, EndDifferential, RecordSandbox, RecordStorage, FailEvaluation,
         CloseDifferential, FindCosts, FindMissing, FillCosts, AppendMissing, StartResults,
         WriteResult, WriteRecord, EndResults, EndAttempt, CrashEvaluation,
         AppendEvaluation, Append, Look, ledger, locals, world
<1>3. PICK label \in Evaluating \cup {"done", "evaluate"} : Goto(o, label)
  BY DEF Evaluating, Evaluation, Enter, StartEvaluation, TakeCapability, StartDifferential,
         RunDifferential, EndDifferential, RecordSandbox, RecordStorage, FailEvaluation,
         CloseDifferential, FindCosts, FindMissing, FillCosts, AppendMissing, StartResults,
         WriteResult, WriteRecord, EndResults, EndAttempt, CrashEvaluation,
         AppendEvaluation, Append, Look
<1>4. attempts' = attempts \/ (pc[o] \in Evaluating /\ Open(Of(on[o])))
  BY DEF Evaluating, Evaluation, Enter, StartEvaluation, TakeCapability, StartDifferential,
         RunDifferential, EndDifferential, RecordSandbox, RecordStorage, FailEvaluation,
         CloseDifferential, FindCosts, FindMissing, FillCosts, AppendMissing, StartResults,
         WriteResult, WriteRecord, EndResults, EndAttempt, CrashEvaluation,
         AppendEvaluation, Append, Look, ledger, MayStartPhase, MayFinishPhase,
         MayRecordCost, MayFinishAttempt, MayCrash
<1>5. \A g \in Generators : missing'[g] = missing[g]
  <2>1. missing = [p \in Processes |-> missing[p]] /\ Generators \subseteq Processes
    BY DEF Told, Evaluated, OnceInv, Processes
  <2>2. CASE \E m : missing' = [missing EXCEPT ![o] = m]
    <3>1. PICK m : missing' = [missing EXCEPT ![o] = m]
      BY <2>2
    <3> QED BY <1>1, <2>1, <3>1
  <2> QED BY <1>2, <2>2
<1>6. Aside(o) /\ pc'[o] = label
  BY <1>2, <1>3, <1>5, OperatorAside DEF Clock
<1>7. RecoveryInv(o)'
  BY <1>6 DEF RecoveryInv, Recovering, Replays, Evaluating
<1>8. \A g \in Generators : Unaccounted(g)' => Of(g)' = Of(g)
  <2>1. CASE attempts' = attempts
    BY <2>1 DEF Of
  <2>2. CASE pc[o] \in Evaluating /\ Open(Of(on[o]))
    <3>1. barrier'
      <4>1. FirstOperator(o)
        BY DEF Told, Evaluated, OnceInv
      <4>2. Of(on[o]) # NoAttempt
        BY <2>2 DEF Open, NoAttempt
      <4> QED BY <1>2, <2>2, <4>1, <4>2 DEF FirstOperator
    <3>2. \A g \in Generators : ~Unaccounted(g)'
      BY <3>1, AttemptAssumption DEF OnceStep, OnceInv, AllDisposed, Unaccounted, Of
    <3> QED BY <3>2
  <2> QED BY <1>4, <2>1, <2>2
<1> QED BY <1>1, <1>6, <1>7, <1>8, AsideAccount DEF OnceStep

-----------------------------------------------------------------------------

LEMMA InitAccount == RunnerInit => AccountInv
<1> SUFFICES ASSUME RunnerInit PROVE AccountInv
  OBVIOUS
<1>1. /\ pc = [p \in Processes |-> "idle"] /\ held = [g \in Generators |-> FALSE]
      /\ attempts = [c \in Cases |-> NoAttempt]
  BY DEF RunnerInit, Blank, LedgerInit
<1>2. \A g \in Generators : Of(g) = NoAttempt
  BY <1>1, AttemptAssumption DEF Of
<1>3. \A o \in Operators : RecoveryInv(o)
  BY <1>1 DEF RecoveryInv, Recovering, Replays, Processes
<1> QED BY <1>1, <1>2, <1>3 DEF AccountInv, GenerationInv, Unaccounted

LEMMA RunnerAccount == Told /\ [RunnerNext]_vars => AccountInv'
<1> SUFFICES ASSUME Told, [RunnerNext]_vars PROVE AccountInv'
  OBVIOUS
<1>1. OnceStep
  BY RunnerOnce DEF Told
<1>2. ASSUME NEW p \in Processes, Kill(p) PROVE AccountInv'
  <2>1. /\ Goto(p, "killed") /\ UNCHANGED <<attempts, answer, held, on, expired>>
        /\ missing' = [missing EXCEPT ![p] = Nothing]
    BY <1>2 DEF Kill, ledger
  <2>2. pc'[p] = "killed" /\ \A q \in Processes \ {p} : pc'[q] = pc[q] /\ missing'[q] = missing[q]
    BY <2>1 DEF Goto, Told, Evaluated, FileInv, Shapes, OnceInv
  <2>3. Aside(p)
    BY <2>1, <2>2 DEF Aside, Processes, Told, AccountInv
  <2>4. p \in Generators => GenerationInv(p)'
    <3> SUFFICES ASSUME p \in Generators PROVE GenerationInv(p)'
      OBVIOUS
    <3>1. ASSUME Of(p) # NoAttempt, p \notin expired',
                 OnTrack(Of(p), pc[p], held[p], missing[p], answer[p])
          PROVE  OnTrack(Of(p), "killed", held'[p], missing'[p], answer'[p])
      BY <2>1, <3>1 DEF OnTrack, Unasked, Asking, Asked, Failing
    <3> QED BY <2>1, <3>1, MoveOwn
  <2>5. p \in Operators => RecoveryInv(p)'
    BY <2>2 DEF RecoveryInv, Recovering, Replays
  <2>6. \A g \in Generators : Of(g)' = Of(g)
    BY <2>1 DEF Of
  <2> QED BY <1>1, <2>2, <2>3, <2>4, <2>5, <2>6, AsideAccount DEF OnceStep
<1>3. ASSUME UNCHANGED <<attempts, pc, held, answer, missing, on, expired>> PROVE AccountInv'
  <2>1. \A g \in Generators : Of(g)' = Of(g)
    BY <1>3 DEF Of
  <2>2. \A o \in Operators : Of(on[o])' = Of(on[o])
    BY <1>3 DEF Of
  <2> QED
    BY <1>3, <2>1, <2>2 DEF Told, AccountInv, GenerationInv, Unaccounted, RecoveryInv
<1>4. CASE LoseLedger
  <2>1. /\ attempts' = [c \in Cases |-> NoAttempt]
        /\ UNCHANGED <<pc, held, on>>
    BY <1>4 DEF LoseLedger, locals
  <2>2. \A g \in Generators : Of(g)' = NoAttempt
    BY <2>1, AttemptAssumption DEF Of
  <2>3. ASSUME NEW o \in Operators PROVE RecoveryInv(o)'
    <3> SUFFICES ASSUME pc[o] \in Recovering PROVE Of(on[o])' = NoAttempt
      BY <2>1 DEF RecoveryInv
    <3>1. PICK g \in Generators : g = on[o] /\ on'[o] = g
      BY <2>1 DEF Told, Evaluated, FileInv, OperatorInv, Recovering, Replays
    <3> QED BY <2>2, <3>1 DEF Of
  <2> QED BY <2>1, <2>2, <2>3 DEF Told, AccountInv, GenerationInv, Unaccounted
<1>5. CASE Freeze \/ UNCHANGED vars
  BY <1>3, <1>5 DEF Freeze, vars, ledger, locals, world
<1> QED
  BY <1>1, <1>2, <1>4, <1>5, GenerateAccount, RecoveryAccount, EvaluationAccount
  DEF RunnerNext, OnceStep

\* Whoever returns or raises has left a disposition or a crash in its attempt, or was
\* past its wall-clock cap, or was recovered: no event that generate_v02_scored_case
\* appends on its way out is rejected, nor is one of its failure handlers
\* (_finish_open_phase, _ensure_generation_costs, the freeze of the disposition).
THEOREM GenerationStaysAccounted == RunnerSpec => []GenerationIsAccounted
<1>1. RunnerInit => Told
  BY InitFiles, InitOnce, InitAccount DEF Told, Evaluated
<1>2. Told /\ [RunnerNext]_vars => Told'
  BY StepFiles, RunnerOnce, RunnerAccount DEF Told, Evaluated, OnceStep
<1>3. Told => GenerationIsAccounted
  BY DEF Told, AccountInv, GenerationInv, OnTrack, Unaccounted, GenerationIsAccounted
<1> QED BY <1>1, <1>2, <1>3, PTL DEF RunnerSpec
=============================================================================
