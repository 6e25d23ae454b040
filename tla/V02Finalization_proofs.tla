------------------------- MODULE V02Finalization_proofs -------------------------
(***************************************************************************)
(* Theorems about the exact-image campaign, for any list of cases, any     *)
(* processes and answers, and any number of kills and restarts, and about  *)
(* its finalization, for any processes that finalize beside it.            *)
(*                                                                         *)
(* The controller waits for the one process it called, so that nothing     *)
(* happens to the attempt of the case it is at but the steps of that       *)
(* process, and nothing at all to the others.  What has to be carried is   *)
(* what that process has behind it at each of its labels (EvaluatorInv:    *)
(* which receipt it verified, what the finished phase and the sandbox cost *)
(* rest on, which results it wrote), what it leaves in the attempt         *)
(* (FinishedInv), and what the controller made of it (ProgressInv).        *)
(*                                                                         *)
(* That it halts for a cause on file needs the same again for all that a   *)
(* called process may give up on: what an attempt is like wherever it was  *)
(* left (Lawful), and what is there at each label of a generation          *)
(* (TrackInv), a recovery (ReplayInv) and an evaluation (SealInv).         *)
(*                                                                         *)
(* No lock keeps the campaign from running on while it is finalized.  What *)
(* a finalization read stays because every attempt has ended, and then no  *)
(* step of the campaign changes anything of it (NothingAfterTheEnd); all   *)
(* that it may write is a Bundle, and the one process that created the     *)
(* private record fills it (FilerInv).                                     *)
(***************************************************************************)
EXTENDS V02Finalization, FiniteSetTheorems, TLAPS

-----------------------------------------------------------------------------
(* What an attempt is like, and what an event may do to it *)

Dispositions == {"candidate_submitted", "no_candidate"}
CallStates == {"none", "started", "succeeded", "failed"}

\* A well-formed attempt of case c.  A sandbox cost comes behind the phase that
\* finished it, or is one of an attempt without a candidate.
Sound(a, c) ==
    /\ a = [k \in DOMAIN NoAttempt |-> a[k]]
    /\ a.costs \in [Categories -> Amounts]
    /\ a.status \in {"absent", "open", "crashed", "finished"}
    /\ a.disposition \in Dispositions \cup {"none"}
    /\ a.call \in CallStates
    /\ a.status = "absent" <=> a.id = NoOne
    /\ a.id # NoOne => a.id \in Generators /\ CaseOf[a.id] = c
    /\ a.status = "absent" => a = NoAttempt
    /\ a.ended \subseteq a.began
    /\ a.phase # "none" => a.phase \in a.began
    /\ Called(a) => a.usage \in Usages
    /\ a.costs["sandbox"] # "absent" =>
           "differential" \in a.ended \/ a.disposition = "no_candidate"
    /\ a.status = "finished" => /\ Recorded(a) = Categories /\ a.disposition # "none"
                                /\ a.outcome \in Outcomes

\* Nothing is taken back.
Extends(a, b) ==
    /\ a.disposition # "none" => b.disposition = a.disposition
    /\ a.id # NoOne => b.id = a.id
    /\ a.ended \subseteq b.ended

\* What an event that does not end attempt a of case c makes of it.
Event(a, b, c) == /\ Sound(b, c) /\ Extends(a, b)
                  /\ a.status # "finished" /\ b.status # "finished"

\* What is measured is neither zero nor unknown.
LEMMA MeasuredIsKnown ==
    /\ Measures \subseteq Measured /\ Usages = {"unknown"} \cup Measured
    /\ Measured \cap {"absent", "unknown", "zero", "none"} = {}
  BY RunnerAssumption DEF Measured, AboveReservation, AboveCap, Usages

\* The artifact is measured at any amount.
LEMMA ArtifactAppends ==
    ASSUME NEW g \in Generators, RecordArtifact(g)
    PROVE  \E amount \in Measures, next \in {"fail", "dispose"} :
               AppendOnly(g, g, MayRecordCost(Of(g), "artifact", amount),
                          RecordCost(Of(g), "artifact", amount), next, "fail")
<1>1. PICK amount \in Measures :
          AppendOnly(g, g, MayRecordCost(Of(g), "artifact", amount),
                     RecordCost(Of(g), "artifact", amount),
                     IF amount \in AboveReservation THEN "fail" ELSE "dispose", "fail")
  BY DEF RecordArtifact
<1>2. (IF amount \in AboveReservation THEN "fail" ELSE "dispose") \in {"fail", "dispose"}
  OBVIOUS
<1> QED BY <1>1, <1>2

\* What a generation and what an evaluation find missing.
LEMMA FoundMissing ==
    ASSUME NEW p, NEW g, NEW model, NEW label, NEW none,
           FindMissing(p, g, {"model", "artifact"}, model, "zero", label, none)
    PROVE  LET todo == {"model", "artifact"} \ Recorded(Of(g)) IN
           /\ missing' = [missing EXCEPT ![p] =
                             [k \in todo |-> IF k = "model" THEN model ELSE "zero"]]
           /\ Goto(p, IF todo = {} THEN none ELSE label)
           /\ UNCHANGED <<ledger, files, answer, held, on, verdict, world, evaluators>>
<1> DEFINE todo == {"model", "artifact"} \ Recorded(Of(g))
           amount == [[k \in Categories |-> "zero"] EXCEPT !["model"] = model,
                                                           !["storage"] = "zero"]
           found == [k \in todo |-> amount[k]]
<1>1. found = [k \in todo |-> IF k = "model" THEN model ELSE "zero"]
  <2>1. todo \subseteq Categories /\ "storage" \in Categories
    BY DEF Categories, BeforeBarrier
  <2>2. \A k \in todo : amount[k] = IF k = "model" THEN model ELSE "zero"
    BY <2>1
  <2> HIDE DEF amount, todo
  <2> QED BY <2>2
<1>2. /\ missing' = [missing EXCEPT ![p] = found]
      /\ Goto(p, IF todo = {} THEN none ELSE label)
      /\ UNCHANGED <<ledger, files, answer, held, on, verdict, world, evaluators>>
  BY DEF FindMissing
<1> QED BY <1>1, <1>2

LEMMA CostsFound ==
    ASSUME NEW o \in Operators, FindCosts(o)
    PROVE  LET todo == Categories \ Recorded(Of(on[o])) IN
           /\ pc[o] = "costs"
           /\ Goto(o, IF todo = {} THEN "start_results" ELSE "fill_costs")
           /\ UNCHANGED <<ledger, files, answer, held, on, verdict, world, evaluators>>
           /\ \E found : /\ missing' = [missing EXCEPT ![o] = found]
                         /\ found = [k \in todo |-> found[k]]
                         /\ \A k \in todo :
                               \/ k = "model" /\ found[k] \in {"zero", "unknown"}
                               \/ k = "storage" /\ found[k] \in Measures
                               \/ k \notin {"model", "storage"} /\ found[k] = "zero"
<1> DEFINE g == on[o]
           todo == Categories \ Recorded(Of(g))
           model == IF Of(g).call = "none" THEN "zero" ELSE "unknown"
<1>1. PICK storage \in Measures :
          FindMissing(o, g, Categories, model, storage, "fill_costs", "start_results")
  BY DEF FindCosts
<1> DEFINE amount == [[k \in Categories |-> "zero"] EXCEPT !["model"] = model,
                                                           !["storage"] = storage]
           found == [k \in todo |-> amount[k]]
<1>2. /\ missing' = [missing EXCEPT ![o] = found]
      /\ Goto(o, IF todo = {} THEN "start_results" ELSE "fill_costs")
      /\ UNCHANGED <<ledger, files, answer, held, on, verdict, world, evaluators>>
  BY <1>1 DEF FindMissing
<1>3. ASSUME NEW k \in todo
      PROVE  \/ k = "model" /\ amount[k] \in {"zero", "unknown"}
             \/ k = "storage" /\ amount[k] \in Measures
             \/ k \notin {"model", "storage"} /\ amount[k] = "zero"
  BY DEF Categories, BeforeBarrier
<1>4. pc[o] = "costs"
  BY DEF FindCosts
<1> HIDE DEF amount, todo
<1>5. found = [k \in todo |-> found[k]] /\ \A k \in todo : found[k] = amount[k]
  OBVIOUS
<1> HIDE DEF found
<1> QED BY <1>2, <1>3, <1>4, <1>5 DEF todo

\* What is replayed is measured, or is what the transaction says.
LEMMA ReplayAppends ==
    ASSUME NEW o \in Operators, NEW event \in DOMAIN Replays, ReplayEvent(o, event)
    PROVE  /\ pc[o] = Replays[event]
           /\ \E amount \in IF event = "artifact" THEN Measures ELSE {transaction[on[o]]} :
                  AppendOnly(o, on[o], Accepted(Of(on[o]), event, amount),
                             Replayed(Of(on[o]), event, amount),
                             AfterReplay[event], "crash_recovery")
  BY DEF ReplayEvent

LEMMA NoAttemptIsSound == ASSUME NEW c PROVE Sound(NoAttempt, c)
BY AttemptAssumption DEF CallStates, Sound, NoAttempt, Called, Categories, BeforeBarrier, Amounts

LEMMA StartIsEvent ==
    ASSUME NEW g \in Generators
    PROVE  Event(NoAttempt, StartAttempt(g), CaseOf[g])
BY AttemptAssumption
DEF Event, Extends, CallStates, StartAttempt, Sound, NoAttempt, Called, Categories, BeforeBarrier, Amounts

\* What the begin and the end of a phase leave alone.
SameBut(a, b) == /\ b.id = a.id /\ b.status = a.status /\ b.call = a.call
                 /\ b.usage = a.usage /\ b.costs = a.costs
                 /\ b.disposition = a.disposition

LEMMA PhaseIsEvent ==
    ASSUME NEW c, NEW a, Sound(a, c), NEW phase \in Phases
    PROVE  /\ MayStartPhase(a, phase) => Event(a, StartPhase(a, phase), c)
           /\ \A status : MayFinishPhase(a, phase, status) => Event(a, FinishPhase(a, status), c)
<1> USE DEF Event, Extends, Sound, NoAttempt, Called, Recorded, Open
<1>1. ASSUME MayStartPhase(a, phase) PROVE Event(a, StartPhase(a, phase), c)
  <2> DEFINE b == StartPhase(a, phase)
  <2>1. /\ b = [k \in DOMAIN NoAttempt |-> b[k]]
        /\ b.phase = phase /\ b.began = a.began \cup {phase} /\ SameBut(a, b)
        /\ b.ended = a.ended
    BY DEF StartPhase, SameBut
  <2>2. a.status = "open"
    BY <1>1 DEF MayStartPhase
  <2> HIDE DEF b, NoAttempt
  <2>3. Event(a, b, c)
    BY <2>1, <2>2 DEF SameBut
  <2> QED BY <2>3 DEF b
<1>2. ASSUME NEW status, MayFinishPhase(a, phase, status)
      PROVE  Event(a, FinishPhase(a, status), c)
  <2> DEFINE b == FinishPhase(a, status)
  <2>1. a.phase = phase /\ a.status = "open" /\ phase # "none"
    BY <1>2 DEF MayFinishPhase, Phases
  <2>2. /\ b = [k \in DOMAIN NoAttempt |-> b[k]]
        /\ b.phase = "none" /\ b.ended = a.ended \cup {phase} /\ SameBut(a, b)
        /\ b.began = a.began
    BY <2>1 DEF FinishPhase, SameBut
  <2> HIDE DEF b, NoAttempt
  <2>3. Event(a, b, c)
    BY <2>1, <2>2 DEF SameBut
  <2> QED BY <2>3 DEF b
<1> QED BY <1>1, <1>2

LEMMA CallIsEvent ==
    ASSUME NEW c, NEW a, Sound(a, c)
    PROVE  /\ MayStartCall(a) => Event(a, StartCall(a), c)
           /\ \A usage \in Usages : \A status \in {"succeeded", "failed"} :
                 MayFinishCall(a, status) => Event(a, FinishCall(a, status, usage), c)
           /\ MaySubmit(a) => Event(a, Submit(a), c)
<1> USE DEF Event, Extends, Sound, NoAttempt, Called, Recorded, Open
<1>1. MayStartCall(a) => Event(a, StartCall(a), c)
  BY DEF MayStartCall, StartCall, CallStates
<1>2. ASSUME NEW usage \in Usages, NEW status \in {"succeeded", "failed"},
             MayFinishCall(a, status)
      PROVE  Event(a, FinishCall(a, status, usage), c)
  BY <1>2 DEF CallStates, MayFinishCall, FinishCall
<1>3. MaySubmit(a) => Event(a, Submit(a), c)
  BY DEF MaySubmit, Submit
<1> QED BY <1>1, <1>2, <1>3

LEMMA CostIsEvent ==
    ASSUME NEW c, NEW a, Sound(a, c), NEW k \in Categories, NEW amount \in Amounts,
           MayRecordCost(a, k, amount),
           k = "sandbox" => "differential" \in a.ended \/ a.disposition = "no_candidate"
    PROVE  Event(a, RecordCost(a, k, amount), c)
BY DEF Event, Extends, Sound, NoAttempt, Called, Recorded, Open, MayRecordCost, RecordCost

LEMMA DispositionIsEvent ==
    ASSUME NEW c, NEW a, Sound(a, c)
    PROVE  /\ \A status \in Dispositions : MayDispose(a, status) => Event(a, Dispose(a, status), c)
           /\ MayCrash(a) => Event(a, Crash(a), c)
           /\ MayRecover(a) => Event(a, Recover(a), c)
<1> USE DEF Event, Extends, Sound, NoAttempt, Called, Recorded, Open
<1>1. ASSUME NEW status \in Dispositions, MayDispose(a, status) PROVE Event(a, Dispose(a, status), c)
  <2>1. a.costs["sandbox"] = "absent" /\ a.disposition = "none" /\ a.status = "open"
    BY <1>1 DEF MayDispose, Categories, BeforeBarrier
  <2> QED BY <2>1 DEF Dispose
<1>2. MayCrash(a) => Event(a, Crash(a), c)
  BY DEF MayCrash, Crash
<1>3. MayRecover(a) => Event(a, Recover(a), c)
  BY DEF MayRecover, Recover
<1> QED BY <1>1, <1>2, <1>3

-----------------------------------------------------------------------------
(* The invariant *)

Files == {"private", "public"}

\* The variables are functions on what they are indexed by, and the parts of the
\* progress file.
Shapes ==
    /\ attempts = [c \in Cases |-> attempts[c]]
    /\ pc = [p \in Processes |-> pc[p]]
    /\ results = [g \in Generators |-> [file \in Files |-> results[g][file]]]
    /\ answer = [g \in Generators |-> answer[g]]
    /\ missing = [p \in Processes |-> missing[p]]
    /\ on = [o \in Operators |-> on[o]]
    /\ verdict = [o \in Operators |-> verdict[o]]
    /\ receipts = [g \in Generators |-> receipts[g]]
    /\ evidence = [g \in Generators |-> evidence[g]]
    /\ bill = [g \in Generators |-> bill[g]]
    /\ reported = [g \in Generators |-> [file \in Files |-> reported[g][file]]]
    /\ verified = [o \in Operators |-> verified[o]]
    /\ progress = [status |-> progress.status, phase |-> progress.phase,
                   rows |-> [c \in Cases |-> progress.rows[c]]]

\* Where the transaction and the receipts of an attempt are what they can be.
FilesInv ==
    /\ transaction \in [Generators -> Usages \cup {NoFile}]
    /\ runs \in [Generators -> Nat]
    /\ \A g \in Generators : receipts[g] \in {NoFile, Unverifiable} \cup 1 .. runs[g]

\* The receipt on file is one that was verified, and all rests on it.
Rests(g) == /\ receipts[g] \in 1 .. runs[g]
            /\ evidence[g].current = receipts[g] /\ bill[g] = evidence[g]

\* What a finished attempt has on file.
FinishedInv(c) ==
    LET a == attempts[c] IN
    a.status = "finished" =>
        /\ Whole(a.id, a.outcome)
        /\ a.outcome = "verdict" =>
               Rests(a.id) /\ \A file \in Files : reported[a.id][file] = receipts[a.id]

\* What process p found missing.
MissingInv(p) == /\ missing[p] = [k \in DOMAIN missing[p] |-> missing[p][k]]
                 /\ DOMAIN missing[p] \subseteq Categories
                 /\ \A k \in DOMAIN missing[p] : missing[p][k] \in Amounts

GeneratorInv(g) ==
    /\ pc[g] \in {"persist", "submit", "finish_call", "model_cost"} => answer[g].usage \in Usages
    /\ pc[g] = "fill" => MissingInv(g) /\ DOMAIN missing[g] \subseteq {"model", "artifact"}

\* The labels of recover_v02_scored_case.
BeforeReplay == {"recover", "crash_recovery", "done"}
Replaying == {"spend", "wall", "reservation"} \cup DOMAIN Replays
             \cup {Replays[event] : event \in DOMAIN Replays}

RecoveryInv(o) ==
    /\ on[o] \in Generators /\ CaseOf[on[o]] = Now
    /\ pc[o] \in BeforeReplay \cup Replaying
    /\ pc[o] \in Replaying => Kept(on[o])

\* The labels of evaluate_v02_exact_frozen_case, until the receipt is sealed and after it.
Unsealed == {"capability", "start_differential", "network", "prior", "differential",
             "receipt", "replace", "keep", "sandbox", "seal"}
Concluding == {"costs", "fill_costs", "start_results", "private", "public", "end_results",
               "finish"}
Working == Unsealed \cup Concluding \cup {"crash_evaluation"}

Wrote(o, file) ==
    /\ results[on[o]][file] = verdict[o]
    /\ verdict[o] = "verdict" => reported[on[o]][file] = receipts[on[o]]

\* What an evaluation has behind it at each label; differential is whether the phase is
\* finished.
EvaluatorInv(o) ==
    LET g == on[o]
        a == attempts[Now]
        differential == "differential" \in a.ended IN
    /\ g \in Generators /\ CaseOf[g] = Now /\ a.id = g
    /\ pc[o] \in Working \cup {"evaluate", "done"}
    /\ pc[o] \in Working => Open(a) /\ a.disposition # "none" /\ verdict[o] \in Outcomes
    /\ pc[o] \in Unsealed => verdict[o] # "verdict" /\ a.disposition # "no_candidate"
    /\ pc[o] \in {"network", "differential", "receipt", "replace"} => ~differential
    /\ pc[o] = "prior" => receipts[g] # NoFile
    /\ pc[o] = "receipt" => runs[g] >= 1
    /\ pc[o] = "replace" => verified[o] \in 1 .. runs[g]
    /\ pc[o] \in {"keep", "sandbox", "seal"} =>
           /\ verified[o] = receipts[g] /\ receipts[g] \in 1 .. runs[g]
           /\ differential => /\ evidence[g].current = receipts[g]
                              /\ a.costs["sandbox"] # "absent" => bill[g] = evidence[g]
    /\ pc[o] \in {"sandbox", "seal"} => differential
    /\ pc[o] = "seal" => a.costs["sandbox"] # "absent"
    /\ pc[o] \in Concluding =>
           /\ differential \/ a.disposition = "no_candidate"
           /\ verdict[o] = "verdict" => Rests(g) /\ verified[o] = receipts[g]
    /\ pc[o] = "fill_costs" => MissingInv(o)
    /\ pc[o] \in {"public", "end_results", "finish"} => Wrote(o, "private")
    /\ pc[o] \in {"end_results", "finish"} => Wrote(o, "public")

\* The process that the controller waits for.
CallInv ==
    /\ at = "generating" => GeneratorInv(GeneratorFor(Now))
    /\ at = "recovering" => RecoveryInv(OperatorFor(Now))
    /\ at = "evaluating" => EvaluatorInv(OperatorFor(Now))

InCase == {"generated", "generating", "recovering", "evaluating", "evaluated"}
InEvaluation == {"evaluation", "evaluating", "evaluated"}

ProgressInv ==
    /\ turn \in 1 .. Cardinality(Cases) + 1
    /\ at \in InCase => turn \in DOMAIN CaseList
    /\ at = "generated" => attempts[Now].disposition # "none"
    /\ at = "evaluated" => attempts[Now].status = "finished"
    /\ \A c \in Cases : progress.rows[c] # "pending" => attempts[c].disposition # "none"
    /\ \A c \in Cases : progress.rows[c] = "evaluated" => attempts[c].status = "finished"
    /\ at \in InEvaluation =>
           \A n \in DOMAIN CaseList : n < turn => progress.rows[CaseList[n]] = "evaluated"
    /\ progress.status = "complete" =>
           /\ at \in {"stopped", "preflight"}
           /\ \A c \in Cases : progress.rows[c] = "evaluated" /\ AllKnown(attempts[c])

CampaignInv == /\ Shapes /\ FilesInv /\ CallInv /\ ProgressInv
               /\ \A c \in Cases : Sound(attempts[c], c) /\ FinishedInv(c)

LEMMA NowIsCase ==
    ASSUME turn \in DOMAIN CaseList
    PROVE  /\ Now \in Cases
           /\ GeneratorFor(Now) \in Generators /\ CaseOf[GeneratorFor(Now)] = Now
           /\ OperatorFor(Now) \in Operators /\ CaseFor[OperatorFor(Now)] = Now
<1>1. Now \in Cases
  BY CampaignAssumption DEF Now
<1>2. \E g \in Generators, o \in Operators : CaseOf[g] = Now /\ CaseFor[o] = Now
  BY <1>1, CampaignAssumption
<1> QED BY <1>1, <1>2 DEF GeneratorFor, OperatorFor

LEMMA InitInv == CampaignInit => CampaignInv
<1> SUFFICES ASSUME CampaignInit PROVE CampaignInv
  OBVIOUS
<1> USE DEF CampaignInit, RunnerInit, Blank, LedgerInit
<1>1. Shapes
  BY DEF Shapes, Files, Processes
<1>2. FilesInv
  BY DEF FilesInv
<1>3. CallInv
  BY DEF CallInv
<1>4. IsFiniteSet(Cases) /\ Cardinality(Cases) \in Nat
  BY CampaignAssumption, FS_CardinalityType
<1>5. ProgressInv
  BY <1>4 DEF ProgressInv, InCase, InEvaluation
<1>6. \A c \in Cases : Sound(attempts[c], c) /\ FinishedInv(c)
  BY NoAttemptIsSound DEF FinishedInv, NoAttempt
<1> QED BY <1>1, <1>2, <1>3, <1>5, <1>6 DEF CampaignInv

-----------------------------------------------------------------------------
(* What a step of the called process does to the ledger *)

Advances(c) ==
    \/ attempts' = attempts
    \/ \E b : attempts' = [attempts EXCEPT ![c] = b] /\ Event(attempts[c], b, c)

LEMMA OfIsSound ==
    ASSUME CampaignInv, NEW g \in Generators
    PROVE  /\ CaseOf[g] \in Cases /\ Sound(Of(g), CaseOf[g])
           /\ Of(g).status # "absent" => Of(g) = attempts[CaseOf[g]]
BY AttemptAssumption, NoAttemptIsSound DEF CampaignInv, Of, NoAttempt

\* An event of an attempt that is there, or its start.
LEMMA AppendAdvances ==
    ASSUME CampaignInv, NEW p, NEW g \in Generators, NEW accepted, NEW new, NEW next,
           NEW rejected, Append(p, g, accepted, new, next, rejected),
           accepted => /\ Event(Of(g), new, CaseOf[g])
                       /\ Of(g).status # "absent" \/ attempts[CaseOf[g]] = Of(g)
    PROVE  Advances(CaseOf[g])
BY OfIsSound DEF Append, Advances

\* The attempts that an event leaves, whatever case it is of.
LEMMA AdvancesKeeps ==
    ASSUME CampaignInv, NEW c \in Cases, Advances(c)
    PROVE  /\ attempts' = [d \in Cases |-> attempts'[d]]
           /\ \A d \in Cases :
                  /\ Sound(attempts'[d], d) /\ Extends(attempts[d], attempts'[d])
                  /\ attempts[d].status = "finished" => attempts'[d] = attempts[d]
                  /\ attempts'[d].status = "finished" => attempts'[d] = attempts[d]
<1>1. \A d \in Cases : Sound(attempts[d], d) /\ Extends(attempts[d], attempts[d])
  BY DEF CampaignInv, Extends
<1>2. CASE attempts' = attempts
  BY <1>1, <1>2 DEF CampaignInv, Shapes
<1>3. ASSUME NEW b, attempts' = [attempts EXCEPT ![c] = b], Event(attempts[c], b, c)
      PROVE  /\ attempts' = [d \in Cases |-> attempts'[d]]
             /\ attempts'[c] = b /\ \A d \in Cases \ {c} : attempts'[d] = attempts[d]
  BY <1>3 DEF CampaignInv, Shapes
<1> QED BY <1>1, <1>2, <1>3 DEF Advances, Event

\* The controller waits: what it wrote stays true.
LEMMA WaitingKeeps ==
    ASSUME CampaignInv, UNCHANGED controller, at \in {"generating", "recovering", "evaluating"},
           \A c \in Cases : /\ attempts[c].disposition # "none" => attempts'[c].disposition # "none"
                            /\ attempts[c].status = "finished" => attempts'[c].status = "finished"
    PROVE  ProgressInv'
BY DEF CampaignInv, ProgressInv, controller, InCase, InEvaluation, Now

\* An event while no file of an evaluation changes.
LEMMA AdvancesFinished ==
    ASSUME CampaignInv, NEW c \in Cases, Advances(c),
           UNCHANGED <<results, receipts, runs, evidence, bill, reported>>
    PROVE  \A d \in Cases : Sound(attempts[d], d)' /\ FinishedInv(d)'
<1> SUFFICES ASSUME NEW d \in Cases PROVE Sound(attempts'[d], d) /\ FinishedInv(d)'
  OBVIOUS
<1>1. /\ Sound(attempts'[d], d)
      /\ attempts'[d].status = "finished" => attempts'[d] = attempts[d]
  BY AdvancesKeeps
<1>2. CASE attempts'[d].status # "finished"
  BY <1>1, <1>2 DEF FinishedInv
<1>3. CASE attempts'[d] = attempts[d]
  <2>1. \A g : (Rests(g)' <=> Rests(g))
    BY DEF Rests
  <2>2. \A g, outcome : (Whole(g, outcome)' <=> Whole(g, outcome))
    BY DEF Whole
  <2>3. FinishedInv(d)
    BY DEF CampaignInv
  <2> QED BY <1>1, <1>3, <2>1, <2>2, <2>3 DEF FinishedInv
<1> QED BY <1>1, <1>2, <1>3

-----------------------------------------------------------------------------
(* generate_v02_scored_case, called *)

\* What a step of the called generation g does.
GenerationStep(g) ==
    /\ Advances(CaseOf[g])
    /\ UNCHANGED <<results, on, verdict>>
    /\ pc' = [p \in Processes |-> pc'[p]]
    /\ answer' = [h \in Generators |-> answer'[h]]
    /\ missing' = [p \in Processes |-> missing'[p]]
    /\ transaction' \in [Generators -> Usages \cup {NoFile}]
    /\ GeneratorInv(g)'

\* The labels at which it holds an answer, or what it found missing.
Holding == {"persist", "submit", "finish_call", "model_cost", "fill"}

LEMMA LookGenerates ==
    ASSUME CampaignInv, NEW g \in Generators, NEW label, Goto(g, label),
           label \notin Holding,
           UNCHANGED <<attempts, transaction, results, locals>>
    PROVE  GenerationStep(g)
BY DEF GenerationStep, Advances, GeneratorInv, Holding, Goto, locals, CampaignInv, Shapes,
       FilesInv, Processes

LEMMA AppendGenerates ==
    ASSUME CampaignInv, NEW g \in Generators, NEW accepted, NEW new, NEW next,
           NEW rejected, Append(g, g, accepted, new, next, rejected), UNCHANGED locals,
           next \notin Holding, rejected \notin Holding,
           accepted => /\ Event(Of(g), new, CaseOf[g])
                       /\ Of(g).status # "absent" \/ attempts[CaseOf[g]] = Of(g)
    PROVE  GenerationStep(g)
<1>1. Advances(CaseOf[g])
  BY AppendAdvances
<1>2. /\ \E label : label \notin Holding /\ Goto(g, label)
      /\ UNCHANGED <<transaction, results, locals>>
  BY DEF Append, files
<1> QED BY <1>1, <1>2
        DEF GenerationStep, GeneratorInv, Holding, Goto, locals, CampaignInv, Shapes,
            FilesInv, Processes

LEMMA BeginGenerates ==
    ASSUME CampaignInv, NEW g \in Generators, Begin(g)
    PROVE  GenerationStep(g)
<1>1. CASE PreflightAttempt /\ MayStartAttempt(g)
  <2>1. attempts[CaseOf[g]] = NoAttempt /\ Of(g) = NoAttempt
    BY <1>1, AttemptAssumption DEF MayStartAttempt, Of, NoAttempt
  <2> QED BY <2>1, StartIsEvent, AppendGenerates DEF Begin, AppendOnly, Holding
<1>2. CASE ~(PreflightAttempt /\ MayStartAttempt(g))
  BY <1>2, AppendGenerates DEF Begin, AppendOnly, Holding
<1> QED BY <1>1, <1>2

LEMMA PhaseGenerates ==
    ASSUME CampaignInv, NEW g \in Generators,
           StartGeneration(g) \/ EndGeneration(g) \/ ClosePhase(g)
    PROVE  GenerationStep(g)
<1>1. Sound(Of(g), CaseOf[g]) /\ "generation" \in Phases
  BY OfIsSound DEF Phases
<1>2. /\ MayStartPhase(Of(g), "generation") =>
             Event(Of(g), StartPhase(Of(g), "generation"), CaseOf[g])
      /\ \A status : MayFinishPhase(Of(g), "generation", status) =>
             Event(Of(g), FinishPhase(Of(g), status), CaseOf[g])
  BY <1>1, PhaseIsEvent
<1>3. /\ MayStartPhase(Of(g), "generation") => Of(g).status # "absent"
      /\ \A status : MayFinishPhase(Of(g), "generation", status) => Of(g).status # "absent"
  BY DEF MayStartPhase, MayFinishPhase, Open
<1>4. CASE StartGeneration(g)
  <2>1. PICK late \in BOOLEAN :
            Append(g, g, ~late /\ MayStartPhase(Of(g), "generation"),
                   StartPhase(Of(g), "generation"), "consume", "fail")
    BY <1>4 DEF StartGeneration
  <2>2. UNCHANGED locals /\ "consume" \notin Holding /\ "fail" \notin Holding
    BY <1>4 DEF StartGeneration, Holding
  <2> HIDE DEF Holding
  <2> QED BY <1>2, <1>3, <2>1, <2>2, AppendGenerates
<1>5. CASE EndGeneration(g)
  BY <1>2, <1>3, <1>5, AppendGenerates DEF EndGeneration, AppendOnly, Holding
<1>6. CASE ClosePhase(g)
  BY <1>2, <1>3, <1>6, AppendGenerates DEF ClosePhase, AppendOnly, Holding
<1> QED BY <1>4, <1>5, <1>6

LEMMA CostGenerates ==
    ASSUME CampaignInv, NEW g \in Generators, GeneratorInv(g),
           RecordPreparation(g) \/ RecordArtifact(g) \/ RecordModelCost(g)
    PROVE  GenerationStep(g)
<1>1. \A k \in Categories \ {"sandbox"} : \A amount \in Amounts :
          MayRecordCost(Of(g), k, amount) =>
              /\ Event(Of(g), RecordCost(Of(g), k, amount), CaseOf[g])
              /\ Of(g).status # "absent"
  BY OfIsSound, CostIsEvent DEF MayRecordCost, Open
<1>2. /\ {"preparation", "model", "artifact"} \subseteq Categories \ {"sandbox"}
      /\ "measured" \in Amounts /\ Usages \subseteq Amounts
  BY DEF Categories, BeforeBarrier, Amounts, Usages, Measured
<1>3. CASE RecordPreparation(g)
  BY <1>1, <1>2, <1>3, AppendGenerates DEF RecordPreparation, AppendOnly, Holding
<1>4. CASE RecordArtifact(g)
  <2>1. PICK amount \in Measures, next \in {"fail", "dispose"} :
            AppendOnly(g, g, MayRecordCost(Of(g), "artifact", amount),
                       RecordCost(Of(g), "artifact", amount), next, "fail")
    BY <1>4, ArtifactAppends
  <2>2. amount \in Amounts /\ next \notin Holding /\ "fail" \notin Holding
    BY MeasuredIsKnown DEF Amounts, Holding
  <2>3. MayRecordCost(Of(g), "artifact", amount) =>
            /\ Event(Of(g), RecordCost(Of(g), "artifact", amount), CaseOf[g])
            /\ Of(g).status # "absent"
    BY <1>1, <1>2, <2>2
  <2> QED BY <2>1, <2>2, <2>3, AppendGenerates DEF AppendOnly
<1>5. CASE RecordModelCost(g)
  <2> DEFINE amount == answer[g].usage
  <2>1. amount \in Amounts
    BY <1>2, <1>5 DEF RecordModelCost, GeneratorInv
  <2>2. /\ AfterCost(answer[g].kind) \notin Holding /\ "crash" \notin Holding
    BY DEF AfterCost, Holding
  <2>3. /\ Append(g, g, MayRecordCost(Of(g), "model", amount),
                  RecordCost(Of(g), "model", amount), AfterCost(answer[g].kind), "crash")
        /\ UNCHANGED locals
    BY <1>5 DEF RecordModelCost, AppendOnly
  <2>4. MayRecordCost(Of(g), "model", amount) =>
            /\ Event(Of(g), RecordCost(Of(g), "model", amount), CaseOf[g])
            /\ Of(g).status # "absent"
    BY <1>1, <1>2, <2>1
  <2> QED BY <2>2, <2>3, <2>4, AppendGenerates
<1> QED BY <1>3, <1>4, <1>5

\* It still holds the answer.
LEMMA AppendHolds ==
    ASSUME CampaignInv, NEW g \in Generators, GeneratorInv(g), NEW accepted, NEW new,
           NEW next, NEW rejected, Append(g, g, accepted, new, next, rejected),
           UNCHANGED locals, pc[g] \in Holding \ {"fill"}, next # "fill", rejected # "fill",
           accepted => /\ Event(Of(g), new, CaseOf[g])
                       /\ Of(g).status # "absent" \/ attempts[CaseOf[g]] = Of(g)
    PROVE  GenerationStep(g)
<1>1. Advances(CaseOf[g])
  BY AppendAdvances
<1>2. /\ \E label : label # "fill" /\ Goto(g, label)
      /\ UNCHANGED <<transaction, results, locals>>
  BY DEF Append, files
<1>3. answer[g].usage \in Usages
  BY DEF GeneratorInv, Holding
<1> QED BY <1>1, <1>2, <1>3
        DEF GenerationStep, GeneratorInv, Goto, locals, CampaignInv, Shapes,
            FilesInv, Processes

LEMMA CallGenerates ==
    ASSUME CampaignInv, NEW g \in Generators, GeneratorInv(g),
           BeginCall(g) \/ SubmitCandidate(g) \/ EndCall(g)
    PROVE  GenerationStep(g)
<1>1. Sound(Of(g), CaseOf[g])
  BY OfIsSound
<1>2. /\ MayStartCall(Of(g)) \/ MaySubmit(Of(g)) => Of(g).status # "absent"
      /\ \A status : MayFinishCall(Of(g), status) => Of(g).status # "absent"
  BY DEF MayStartCall, MaySubmit, MayFinishCall, Open
<1>3. CASE BeginCall(g)
  <2>1. MayStartCall(Of(g)) => Event(Of(g), StartCall(Of(g)), CaseOf[g])
    BY <1>1, CallIsEvent
  <2> QED BY <1>2, <1>3, <2>1, AppendGenerates DEF BeginCall, AppendOnly, Holding
<1>4. CASE SubmitCandidate(g)
  <2>1. MaySubmit(Of(g)) => Event(Of(g), Submit(Of(g)), CaseOf[g])
    BY <1>1, CallIsEvent
  <2> QED BY <1>2, <1>4, <2>1, AppendHolds DEF SubmitCandidate, AppendOnly, Holding
<1>5. CASE EndCall(g)
  <2> DEFINE new == FinishCall(Of(g), CallStatus(g), answer[g].usage)
  <2>1. answer[g].usage \in Usages /\ CallStatus(g) \in {"succeeded", "failed"}
    BY <1>5 DEF EndCall, GeneratorInv, CallStatus
  <2>2. MayFinishCall(Of(g), CallStatus(g)) => Event(Of(g), new, CaseOf[g])
    BY <1>1, <2>1, CallIsEvent
  <2>3. /\ Append(g, g, MayFinishCall(Of(g), CallStatus(g)), new, "model_cost", "crash")
        /\ UNCHANGED locals /\ pc[g] \in Holding \ {"fill"}
    BY <1>5 DEF EndCall, AppendOnly, Holding
  <2> QED BY <1>2, <2>2, <2>3, AppendHolds
<1> QED BY <1>3, <1>4, <1>5

LEMMA ProviderGenerates ==
    ASSUME CampaignInv, NEW g \in Generators, Provider(g) \/ Persist(g), GeneratorInv(g)
    PROVE  GenerationStep(g)
<1>1. CASE Provider(g)
  <2>0. NotSent \in AnAnswer /\ Answers[g] \subseteq AnAnswer
    BY RunnerAssumption DEF NotSent, AnAnswer, Usages
  <2>1. PICK a \in AnAnswer : /\ answer' = [answer EXCEPT ![g] = a]
                              /\ \E label : Goto(g, label) /\ label # "fill"
    <3>1. PICK a \in AnAnswer :
              /\ answer' = [answer EXCEPT ![g] = a]
              /\ Goto(g, IF a.kind = "candidate" THEN "persist" ELSE "finish_call")
      BY <1>1, <2>0 DEF Provider
    <3> DEFINE label == IF a.kind = "candidate" THEN "persist" ELSE "finish_call"
    <3>2. Goto(g, label) /\ label # "fill"
      BY <3>1
    <3> HIDE DEF label
    <3> QED BY <3>1, <3>2
  <2>2. a.usage \in Usages
    BY MeasuredIsKnown DEF AnAnswer
  <2>3. UNCHANGED <<attempts, transaction, results, missing, on, verdict>>
    BY <1>1 DEF Provider, ledger, files
  <2>4. answer' = [h \in Generators |-> answer'[h]] /\ answer'[g] = a
    BY <2>1 DEF CampaignInv, Shapes
  <2> QED BY <2>1, <2>2, <2>3, <2>4
          DEF GenerationStep, Advances, GeneratorInv, Goto, CampaignInv, Shapes, FilesInv,
              Processes
<1>2. CASE Persist(g)
  <2>1. /\ UNCHANGED <<attempts, results, locals>>
        /\ \E label : Goto(g, label) /\ label # "fill"
        /\ answer[g].usage \in Usages
    BY <1>2 DEF Persist, ledger, GeneratorInv
  <2>2. transaction' \in [Generators -> Usages \cup {NoFile}]
    BY <1>2, <2>1 DEF Persist, CampaignInv, FilesInv
  <2> QED BY <2>1, <2>2
          DEF GenerationStep, Advances, GeneratorInv, Goto, CampaignInv, Shapes, locals,
              Processes
<1> QED BY <1>1, <1>2

\* A process that records what it found missing takes it off its list, or gives up.
LEMMA FillsMissing ==
    ASSUME CampaignInv, NEW p \in Processes, MissingInv(p), NEW g, NEW next, NEW rejected,
           AppendMissing(p, g, next, rejected)
    PROVE  /\ NextMissing(p) \in DOMAIN missing[p]
           /\ missing' = [q \in Processes |-> missing'[q]]
           /\ MissingInv(p)' /\ DOMAIN missing'[p] \subseteq DOMAIN missing[p]
<1> DEFINE k == NextMissing(p)
           accepted == MayRecordCost(Of(g), k, missing[p][k])
<1>1. k \in DOMAIN missing[p]
  <2> DEFINE D == DOMAIN missing[p]
  <2>1. D # {}
    BY DEF MissingInv, AppendMissing, Nothing
  <2>2. \E i \in D : \A j \in D : Order[i] <= Order[j]
    BY <2>1 DEF MissingInv, Order, Categories, BeforeBarrier
  <2> QED BY <2>2 DEF NextMissing
<1>2. /\ missing' = [q \in Processes |-> missing'[q]]
      /\ missing'[p] = IF accepted THEN [j \in DOMAIN missing[p] \ {k} |-> missing[p][j]]
                                   ELSE Nothing
  <2>1. missing' = [missing EXCEPT ![p] = IF accepted
                        THEN [j \in DOMAIN missing[p] \ {k} |-> missing[p][j]] ELSE Nothing]
    BY DEF AppendMissing, CampaignInv, Shapes
  <2> HIDE DEF accepted, k
  <2> QED BY <2>1 DEF CampaignInv, Shapes
<1> HIDE DEF accepted, k
<1>3. CASE accepted
  <2>1. missing'[p] = [j \in DOMAIN missing[p] \ {k} |-> missing[p][j]]
    BY <1>2, <1>3
  <2>2. /\ DOMAIN missing'[p] = DOMAIN missing[p] \ {k}
        /\ \A j \in DOMAIN missing'[p] : missing'[p][j] = missing[p][j]
        /\ missing'[p] = [j \in DOMAIN missing'[p] |-> missing'[p][j]]
    BY <2>1
  <2>3. MissingInv(p)'
    BY <2>2 DEF MissingInv
  <2> QED BY <1>1, <1>2, <2>2, <2>3 DEF k
<1>4. CASE ~accepted
  <2>1. missing'[p] = Nothing
    BY <1>2, <1>4
  <2>2. DOMAIN missing'[p] = {} /\ missing'[p] = [j \in DOMAIN missing'[p] |-> missing'[p][j]]
    BY <2>1 DEF Nothing
  <2>3. MissingInv(p)'
    BY <2>2 DEF MissingInv
  <2> QED BY <1>1, <1>2, <2>2, <2>3 DEF k
<1> QED BY <1>3, <1>4

LEMMA ModelCostIsAmount ==
    ASSUME NEW a, Called(a) => a.usage \in Usages
    PROVE  ModelCost(a) \in Amounts
BY DEF ModelCost, Amounts, Usages

LEMMA EnsureCostsGenerates ==
    ASSUME CampaignInv, NEW g \in Generators, EnsureCosts(g)
    PROVE  GenerationStep(g)
<1> DEFINE todo == {"model", "artifact"} \ Recorded(Of(g))
           found == [k \in todo |-> IF k = "model" THEN ModelCost(Of(g)) ELSE "zero"]
<1>1. /\ missing' = [missing EXCEPT ![g] = found]
      /\ Goto(g, IF todo = {} THEN "dispose" ELSE "fill")
      /\ UNCHANGED <<attempts, transaction, results, answer, on, verdict>>
  BY FoundMissing DEF EnsureCosts, ledger, files
<1>2. ModelCost(Of(g)) \in Amounts
  <2>1. Called(Of(g)) => Of(g).usage \in Usages
    BY OfIsSound DEF Sound
  <2> QED BY <2>1, ModelCostIsAmount
<1>3. missing' = [p \in Processes |-> missing'[p]] /\ missing'[g] = found
  BY <1>1 DEF CampaignInv, Shapes, Processes
<1>4. DOMAIN found = todo /\ \A k \in todo : found[k] \in Amounts
  BY <1>2 DEF Amounts
<1>5. MissingInv(g)' /\ DOMAIN missing'[g] \subseteq {"model", "artifact"}
  BY <1>3, <1>4 DEF MissingInv, Categories, BeforeBarrier
<1>6. /\ pc' = [p \in Processes |-> pc'[p]] /\ pc'[g] \in {"dispose", "fill"}
      /\ answer' = [h \in Generators |-> answer'[h]]
      /\ transaction' \in [Generators -> Usages \cup {NoFile}]
  BY <1>1 DEF Goto, CampaignInv, Shapes, Processes, FilesInv
<1> QED BY <1>1, <1>3, <1>5, <1>6 DEF GenerationStep, Advances, GeneratorInv

LEMMA FillGenerates ==
    ASSUME CampaignInv, NEW g \in Generators, GeneratorInv(g), FillGenerationCosts(g)
    PROVE  GenerationStep(g)
<1> DEFINE k == NextMissing(g)
           amount == missing[g][k]
           accepted == MayRecordCost(Of(g), k, amount)
           new == RecordCost(Of(g), k, amount)
           next == IF DOMAIN missing[g] = {k} THEN "dispose" ELSE "fill"
<1>1. /\ Append(g, g, accepted, new, next, "done") /\ AppendMissing(g, g, "dispose", "done")
      /\ UNCHANGED <<transaction, results, answer, on, verdict>> /\ g \in Processes
      /\ MissingInv(g) /\ DOMAIN missing[g] \subseteq {"model", "artifact"}
  BY DEF FillGenerationCosts, AppendMissing, Append, files, GeneratorInv, Processes
<1>2. /\ k \in DOMAIN missing[g] /\ missing' = [q \in Processes |-> missing'[q]]
      /\ MissingInv(g)' /\ DOMAIN missing'[g] \subseteq {"model", "artifact"}
  BY <1>1, FillsMissing
<1>3. k \in {"model", "artifact"} /\ k \in Categories /\ amount \in Amounts
  BY <1>1, <1>2 DEF MissingInv
<1>4. accepted => Event(Of(g), new, CaseOf[g]) /\ Of(g).status # "absent"
  <2>1. Sound(Of(g), CaseOf[g]) /\ (accepted => Of(g).status # "absent")
    BY OfIsSound DEF MayRecordCost, Open
  <2> HIDE DEF k, amount
  <2> QED BY <1>3, <2>1, CostIsEvent
<1>5. \E label \in {"dispose", "fill", "done"} : Goto(g, label)
  BY <1>1 DEF Append
<1> HIDE DEF accepted, new, next
<1>6. Advances(CaseOf[g])
  BY <1>1, <1>4, AppendAdvances
<1>7. /\ pc' = [p \in Processes |-> pc'[p]] /\ pc'[g] \in {"dispose", "fill", "done"}
      /\ answer' = [h \in Generators |-> answer'[h]]
      /\ transaction' \in [Generators -> Usages \cup {NoFile}]
  BY <1>1, <1>5 DEF Goto, CampaignInv, Shapes, Processes, FilesInv
<1> QED BY <1>1, <1>2, <1>6, <1>7 DEF GenerationStep, GeneratorInv

LEMMA LeaveGenerates ==
    ASSUME CampaignInv, NEW g \in Generators, DisposeGeneration(g) \/ CrashGeneration(g)
    PROVE  GenerationStep(g)
<1>1. Sound(Of(g), CaseOf[g])
  BY OfIsSound
<1>2. /\ MayCrash(Of(g)) => Of(g).status # "absent" /\ Event(Of(g), Crash(Of(g)), CaseOf[g])
      /\ \A status \in Dispositions : MayDispose(Of(g), status) =>
             /\ Of(g).status # "absent"
             /\ Event(Of(g), Dispose(Of(g), status), CaseOf[g])
  BY <1>1, DispositionIsEvent DEF MayCrash, MayDispose, Open
<1>3. CASE CrashGeneration(g)
  BY <1>2, <1>3, AppendGenerates DEF CrashGeneration, AppendOnly, Holding
<1>4. CASE DisposeGeneration(g)
  <2> DEFINE status == IF held[g] THEN "candidate_submitted" ELSE "no_candidate"
  <2>1. CASE Look(g, "crash")
    BY <2>1, LookGenerates DEF Look, ledger, files, Holding
  <2>2. CASE AppendOnly(g, g, MayDispose(Of(g), status), Dispose(Of(g), status), "done", "done")
    <3>1. status \in Dispositions
      BY DEF Dispositions
    <3> HIDE DEF status
    <3> QED BY <1>2, <2>2, <3>1, AppendGenerates DEF AppendOnly, Holding
  <2> QED BY <1>4, <2>1, <2>2 DEF DisposeGeneration
<1> QED BY <1>3, <1>4

\* A step that changes no attempt.
LEMMA StillGenerates ==
    ASSUME CampaignInv, NEW g \in Generators,
           \/ CannotCall(g) \/ Consume(g) \/ CheckGeneration(g) \/ LookForArtifact(g)
           \/ LookForPhase(g)
    PROVE  GenerationStep(g)
<1>1. CASE CannotCall(g)
  BY <1>1, LookGenerates DEF CannotCall, Look, ledger, files, Holding
<1>2. CASE Consume(g)
  BY <1>2, LookGenerates DEF Consume, ledger, files, Holding
<1>3. CASE CheckGeneration(g)
  <2>1. /\ \E label \in {"artifact", "fail"} : Goto(g, label)
        /\ UNCHANGED <<attempts, transaction, results, answer, missing, on, verdict>>
    BY <1>3, Zenon DEF CheckGeneration, ledger, files
  <2> QED BY <2>1
          DEF GenerationStep, Advances, GeneratorInv, Holding, Goto, CampaignInv, Shapes,
              FilesInv, Processes
<1>4. CASE LookForArtifact(g)
  BY <1>4, LookGenerates DEF LookForArtifact, Look, ledger, files, Holding
<1>5. CASE LookForPhase(g)
  BY <1>5, LookGenerates DEF LookForPhase, Look, ledger, files, Holding
<1> QED BY <1>1, <1>2, <1>3, <1>4, <1>5

LEMMA GenerateSteps ==
    ASSUME CampaignInv, NEW g \in Generators, GeneratorInv(g), Generate(g)
    PROVE  GenerationStep(g)
BY BeginGenerates, PhaseGenerates, CostGenerates, CallGenerates, ProviderGenerates,
   EnsureCostsGenerates, FillGenerates, LeaveGenerates, StillGenerates DEF Generate

LEMMA GeneratingKeeps ==
    ASSUME CampaignInv, Generating
    PROVE  CampaignInv'
<1>1. turn \in DOMAIN CaseList /\ Now' = Now /\ at' = "generating" /\ UNCHANGED controller
  BY DEF Generating, controller, CampaignInv, ProgressInv, InCase, Now
<1>2. PICK g \in Generators : g = GeneratorFor(Now) /\ CaseOf[g] \in Cases
  BY <1>1, NowIsCase
<1>3. GeneratorInv(g) /\ Generate(g)
  BY <1>1, <1>2 DEF Generating, CampaignInv, CallInv
<1>4. GenerationStep(g)
  BY <1>2, <1>3, GenerateSteps
<1>5. Advances(CaseOf[g]) /\ UNCHANGED <<results, receipts, runs, evidence, bill, reported>>
  BY <1>4 DEF GenerationStep, Generating, evaluation
<1>6. \A c \in Cases : Sound(attempts[c], c)' /\ FinishedInv(c)'
  BY <1>2, <1>5, AdvancesFinished
<1>7. ProgressInv'
  BY <1>1, <1>2, <1>5, AdvancesKeeps, WaitingKeeps DEF Extends, Generating
<1>8. Shapes'
  <2>1. attempts' = [c \in Cases |-> attempts'[c]]
    BY <1>2, <1>5, AdvancesKeeps
  <2>2. UNCHANGED <<results, on, verdict, receipts, evidence, bill, reported, verified, progress>>
    BY <1>4 DEF GenerationStep, Generating, evaluation, controller
  <2> QED BY <1>4, <2>1, <2>2 DEF GenerationStep, CampaignInv, Shapes
<1>9. FilesInv'
  BY <1>4, <1>5 DEF GenerationStep, CampaignInv, FilesInv
<1>10. CallInv'
  <2>1. GeneratorInv(g)' /\ g = GeneratorFor(Now)'
    BY <1>1, <1>2, <1>4 DEF GenerationStep
  <2> QED BY <1>1, <2>1 DEF CallInv
<1> QED BY <1>6, <1>7, <1>8, <1>9, <1>10 DEF CampaignInv

-----------------------------------------------------------------------------
(* recover_v02_scored_case, called *)

\* What a step of the called recovery o does.
RecoveryStep(o) ==
    /\ Advances(Now)
    /\ UNCHANGED <<transaction, results, answer, missing, on, verdict>>
    /\ pc' = [pc EXCEPT ![o] = pc'[o]]
    /\ pc'[o] \in BeforeReplay \cup Replaying
    /\ pc'[o] \in Replaying => Kept(on[o])

LEMMA AppendRecovers ==
    ASSUME CampaignInv, NEW o \in Operators, RecoveryInv(o), pc[o] # "done",
           NEW accepted, NEW new, NEW next, NEW rejected,
           AppendOnly(o, on[o], accepted, new, next, rejected),
           next \in BeforeReplay \cup Replaying, rejected \in BeforeReplay,
           accepted /\ next \in Replaying => Kept(on[o]),
           accepted => Event(Of(on[o]), new, Now) /\ Of(on[o]).status # "absent"
    PROVE  RecoveryStep(o)
<1>1. on[o] \in Generators /\ CaseOf[on[o]] = Now
  BY DEF RecoveryInv
<1>2. Append(o, on[o], accepted, new, next, rejected) /\ UNCHANGED locals
  BY DEF AppendOnly
<1>3. Advances(Now)
  BY <1>1, <1>2, AppendAdvances
<1>4. rejected \notin Replaying
  BY DEF BeforeReplay, Replaying, Replays
<1>5. /\ (accepted /\ Goto(o, next)) \/ Goto(o, rejected)
      /\ UNCHANGED <<transaction, results, answer, missing, on, verdict>>
  BY <1>2 DEF Append, files, locals
<1> QED BY <1>3, <1>4, <1>5 DEF RecoveryStep, Goto, CampaignInv, Shapes, Processes

LEMMA LookRecovers ==
    ASSUME CampaignInv, NEW o \in Operators, NEW label, Goto(o, label),
           UNCHANGED <<attempts, transaction, results, locals>>,
           label \in BeforeReplay \cup Replaying, label \in Replaying => Kept(on[o])
    PROVE  RecoveryStep(o)
BY DEF RecoveryStep, Advances, Goto, locals, CampaignInv, Shapes, Processes

\* Where a replay leads to is a label of the recovery.
LEMMA ReplayLabels ==
    /\ \A event \in DOMAIN Replays :
           /\ event \in Replaying /\ Replays[event] \in Replaying
           /\ AfterReplay[event] \in BeforeReplay \cup Replaying
    /\ {"crash_recovery", "done"} \subseteq BeforeReplay
BY DEF Replays, AfterReplay, Replaying, BeforeReplay

LEMMA ReplayIsEvent ==
    ASSUME NEW c, NEW a, Sound(a, c), NEW event \in DOMAIN Replays, NEW usage \in Usages,
           Accepted(a, event, usage)
    PROVE  Event(a, Replayed(a, event, usage), c) /\ a.status # "absent"
<1> DEFINE new == Replayed(a, event, usage)
<1>1. CASE event = "candidate"
  <2>1. MaySubmit(a) /\ new = Submit(a)
    BY <1>1 DEF Accepted, Replayed
  <2> QED BY <2>1, CallIsEvent DEF MaySubmit, Open
<1>2. CASE event = "call"
  <2>1. MayFinishCall(a, "succeeded") /\ new = FinishCall(a, "succeeded", usage)
    BY <1>2 DEF Accepted, Replayed
  <2> QED BY <2>1, CallIsEvent DEF MayFinishCall, Open
<1>3. CASE event = "cost"
  <2>1. MayRecordCost(a, "model", usage) /\ new = RecordCost(a, "model", usage)
    BY <1>3 DEF Accepted, Replayed
  <2>2. "model" \in Categories /\ usage \in Amounts
    BY DEF Categories, BeforeBarrier, Usages, Amounts
  <2> QED BY <2>1, <2>2, CostIsEvent DEF MayRecordCost, Open
<1>4. CASE event = "phase"
  <2>1. MayFinishPhase(a, "generation", "succeeded") /\ new = FinishPhase(a, "succeeded")
    BY <1>4 DEF Accepted, Replayed
  <2>2. "generation" \in Phases
    BY DEF Phases
  <2> QED BY <2>1, <2>2, PhaseIsEvent DEF MayFinishPhase, Open
<1>5. CASE event = "artifact"
  <2>1. MayRecordCost(a, "artifact", usage) /\ new = RecordCost(a, "artifact", usage)
    BY <1>5 DEF Accepted, Replayed
  <2>2. "artifact" \in Categories /\ usage \in Amounts
    BY DEF Categories, BeforeBarrier, Usages, Amounts
  <2> QED BY <2>1, <2>2, CostIsEvent DEF MayRecordCost, Open
<1>6. CASE event = "disposition"
  <2>1. MayDispose(a, "candidate_submitted") /\ new = Dispose(a, "candidate_submitted")
    BY <1>6 DEF Accepted, Replayed
  <2> QED BY <2>1, DispositionIsEvent DEF MayDispose, Open, Dispositions
<1>7. event \in {"candidate", "call", "cost", "phase", "artifact", "disposition"}
  BY DEF Replays
<1> QED BY <1>1, <1>2, <1>3, <1>4, <1>5, <1>6, <1>7

LEMMA RecoverySteps ==
    ASSUME CampaignInv, NEW o \in Operators, RecoveryInv(o), Recovery(o)
    PROVE  RecoveryStep(o)
<1> DEFINE g == on[o]
           a == Of(g)
<1>1. /\ g \in Generators /\ CaseOf[g] = Now /\ Sound(a, Now)
      /\ pc[o] \in BeforeReplay \cup Replaying /\ (pc[o] \in Replaying => Kept(g))
      /\ Kept(g) => transaction[g] \in Usages
  BY OfIsSound DEF RecoveryInv, CampaignInv, FilesInv, Kept
<1>2. \A h : ~Enter(o, h, "recover")
  BY <1>1 DEF Enter, BeforeReplay, Replaying, Replays
<1>3. MayCrash(a) => Event(a, Crash(a), Now) /\ a.status # "absent"
  BY <1>1, DispositionIsEvent DEF MayCrash, Open
<1>4. CASE StartRecovery(o)
  <2> DEFINE recoverable == Kept(g) /\ consumed[CaseOf[g]] = g /\ PreflightRecovery(g)
  <2>1. "candidate" \in Replaying /\ "crash_recovery" \in BeforeReplay /\ pc[o] # "done"
    BY <1>4 DEF Replaying, Replays, BeforeReplay, StartRecovery
  <2>2. CASE recoverable /\ Look(o, "candidate")
    BY <2>1, <2>2, LookRecovers DEF Look, ledger, files
  <2>3. CASE AppendOnly(o, g, recoverable /\ MayRecover(a), Recover(a), "candidate",
                        "crash_recovery")
    <3>1. MayRecover(a) => Event(a, Recover(a), Now) /\ a.status # "absent"
      BY <1>1, DispositionIsEvent DEF MayRecover
    <3> DEFINE accepted == recoverable /\ MayRecover(a)
    <3>2. accepted => Kept(g) /\ Event(a, Recover(a), Now) /\ a.status # "absent"
      BY <3>1
    <3> HIDE DEF accepted, recoverable
    <3> QED BY <2>1, <2>3, <3>2, AppendRecovers DEF accepted
  <2> QED BY <1>4, <2>2, <2>3 DEF StartRecovery
<1>5. ASSUME NEW event \in DOMAIN Replays, LookForEvent(o, event) PROVE RecoveryStep(o)
  <2>1. \E label \in {Replays[event], AfterReplay[event], "crash_recovery"} : Look(o, label)
    BY <1>5 DEF LookForEvent
  <2>2. Kept(g)
    BY <1>1, <1>5, ReplayLabels DEF LookForEvent
  <2> QED BY <2>1, <2>2, ReplayLabels, LookRecovers DEF Look, ledger, files
<1>6. ASSUME NEW event \in DOMAIN Replays, ReplayEvent(o, event) PROVE RecoveryStep(o)
  <2>1. Kept(g) /\ pc[o] # "done"
    BY <1>1, <1>6, ReplayLabels DEF ReplayEvent, Replays
  <2>2. PICK usage \in Measures \cup {transaction[g]} :
            AppendOnly(o, g, Accepted(a, event, usage), Replayed(a, event, usage),
                       AfterReplay[event], "crash_recovery")
    BY <1>6, ReplayAppends
  <2>3. Accepted(a, event, usage) =>
            Event(a, Replayed(a, event, usage), Now) /\ a.status # "absent"
    BY <1>1, <2>1, ReplayIsEvent, MeasuredIsKnown
  <2> QED BY <1>1, <2>1, <2>2, <2>3, ReplayLabels, AppendRecovers
<1>7. CASE CheckSpend(o)
  <2>1. "spend" \in Replaying /\ "phase" \in Replaying /\ "done" \in BeforeReplay
    BY DEF Replaying, Replays, BeforeReplay
  <2>2. pc[o] = "spend"
    BY <1>7 DEF CheckSpend
  <2>3. CASE Look(o, "phase")
    BY <1>1, <2>1, <2>2, <2>3, LookRecovers DEF Look, ledger, files
  <2>4. CASE AppendOnly(o, g, MayCrash(a), Crash(a), "done", "done")
    BY <1>1, <1>3, <2>1, <2>2, <2>4, AppendRecovers DEF Replaying, Replays
  <2> QED BY <1>7, <2>3, <2>4 DEF CheckSpend
<1>8. CASE CheckWall(o)
  <2>1. /\ \E label \in {"crash_recovery", "artifact"} : Goto(o, label)
        /\ UNCHANGED <<attempts, transaction, results, locals>> /\ pc[o] = "wall"
    BY <1>8 DEF CheckWall, ledger, files
  <2>2. "wall" \in Replaying /\ "artifact" \in Replaying /\ "crash_recovery" \in BeforeReplay
    BY DEF Replaying, Replays, BeforeReplay
  <2> QED BY <1>1, <2>1, <2>2, LookRecovers
<1>9. CASE CrashRecovery(o)
  <2>1. AppendOnly(o, g, a.recovered /\ MayCrash(a), Crash(a), "done", "done")
    BY <1>9 DEF CrashRecovery
  <2>2. pc[o] # "done" /\ "done" \in BeforeReplay /\ "done" \notin Replaying
    BY <1>9 DEF CrashRecovery, BeforeReplay, Replaying, Replays
  <2> QED BY <1>3, <2>1, <2>2, AppendRecovers
<1>10. CASE CheckReservation(o)
  <2>1. /\ \E label \in {"crash_recovery", "disposition"} : Look(o, label)
        /\ pc[o] = "reservation"
    BY <1>10 DEF CheckReservation
  <2>2. /\ "reservation" \in Replaying /\ "disposition" \in Replaying
        /\ "crash_recovery" \in BeforeReplay
    BY DEF Replaying, Replays, BeforeReplay
  <2> QED BY <1>1, <2>1, <2>2, LookRecovers DEF Look, ledger, files
<1> QED BY <1>2, <1>4, <1>5, <1>6, <1>7, <1>8, <1>9, <1>10 DEF Recovery

LEMMA RecoveringKeeps ==
    ASSUME CampaignInv, Recovering
    PROVE  CampaignInv'
<1>1. turn \in DOMAIN CaseList /\ Now' = Now /\ at' = "recovering" /\ UNCHANGED controller
  BY DEF Recovering, controller, CampaignInv, ProgressInv, InCase, Now
<1>2. PICK o \in Operators, c \in Cases : o = OperatorFor(Now) /\ c = Now
  BY <1>1, NowIsCase
<1>3. RecoveryInv(o) /\ Recovery(o)
  BY <1>1, <1>2 DEF Recovering, CampaignInv, CallInv
<1>4. RecoveryStep(o)
  BY <1>2, <1>3, RecoverySteps
<1>5. Advances(c) /\ UNCHANGED <<results, receipts, runs, evidence, bill, reported>>
  BY <1>2, <1>4 DEF RecoveryStep, Recovering, evaluation
<1>6. \A d \in Cases : Sound(attempts[d], d)' /\ FinishedInv(d)'
  BY <1>5, AdvancesFinished
<1>7. ProgressInv'
  BY <1>1, <1>5, AdvancesKeeps, WaitingKeeps DEF Extends, Recovering
<1>8. Shapes'
  <2>1. attempts' = [d \in Cases |-> attempts'[d]]
    BY <1>5, AdvancesKeeps
  <2>2. UNCHANGED <<results, answer, missing, on, verdict, receipts, evidence, bill,
                    reported, verified, progress>>
    BY <1>4 DEF RecoveryStep, Recovering, evaluation, controller
  <2>3. pc' = [p \in Processes |-> pc'[p]]
    BY <1>4 DEF RecoveryStep, CampaignInv, Shapes
  <2> QED BY <2>1, <2>2, <2>3 DEF CampaignInv, Shapes
<1>9. FilesInv'
  BY <1>4, <1>5 DEF RecoveryStep, CampaignInv, FilesInv
<1>10. CallInv'
  <2>1. RecoveryInv(o)'
    BY <1>1, <1>3, <1>4 DEF RecoveryStep, RecoveryInv, Kept
  <2> QED BY <1>1, <1>2, <2>1 DEF CallInv
<1> QED BY <1>6, <1>7, <1>8, <1>9, <1>10 DEF CampaignInv

-----------------------------------------------------------------------------
(* evaluate_v02_exact_frozen_case, called *)

\* The called evaluation o changes its own locals and the files of its attempt g.
Touches(o, g) ==
    /\ UNCHANGED <<transaction, answer, on>>
    /\ pc' = [pc EXCEPT ![o] = pc'[o]]
    /\ missing' = [missing EXCEPT ![o] = missing'[o]]
    /\ verdict' = [verdict EXCEPT ![o] = verdict'[o]]
    /\ verified' = [verified EXCEPT ![o] = verified'[o]]
    /\ results' = [results EXCEPT ![g] = [file \in Files |-> results'[g][file]]]
    /\ receipts' = [receipts EXCEPT ![g] = receipts'[g]]
    /\ runs' = [runs EXCEPT ![g] = runs'[g]]
    /\ evidence' = [evidence EXCEPT ![g] = evidence'[g]]
    /\ bill' = [bill EXCEPT ![g] = bill'[g]]
    /\ reported' = [reported EXCEPT ![g] = [file \in Files |-> reported'[g][file]]]

\* The controller waits for evaluation o of attempt g of case c.
Waits(o, g, c) ==
    /\ at = "evaluating" /\ turn \in DOMAIN CaseList /\ UNCHANGED controller
    /\ o \in Operators /\ o = OperatorFor(Now) /\ g \in Generators /\ g = on[o]
    /\ c \in Cases /\ c = Now /\ EvaluatorInv(o)

LEMMA WaitsForOne ==
    ASSUME CampaignInv, Evaluating
    PROVE  \E o \in Operators : \E g \in Generators : \E c \in Cases :
               Waits(o, g, c) /\ ExactEvaluation(o)
<1>1. turn \in DOMAIN CaseList /\ UNCHANGED controller /\ at = "evaluating"
  BY DEF Evaluating, CampaignInv, ProgressInv, InCase
<1>2. PICK o \in Operators, c \in Cases : o = OperatorFor(Now) /\ c = Now
  BY <1>1, NowIsCase
<1>3. EvaluatorInv(o) /\ ExactEvaluation(o)
  BY <1>1, <1>2 DEF Evaluating, CampaignInv, CallInv
<1>4. PICK g \in Generators : g = on[o]
  BY <1>3 DEF EvaluatorInv
<1> QED BY <1>1, <1>2, <1>3, <1>4 DEF Waits

LEMMA AttemptOf ==
    ASSUME CampaignInv, NEW o, NEW g, NEW c, Waits(o, g, c)
    PROVE  /\ CaseOf[g] = c /\ Of(g) = attempts[c] /\ attempts[c].id = g
           /\ Sound(attempts[c], c) /\ o \in Processes
           /\ runs[g] \in Nat /\ receipts[g] \in {NoFile, Unverifiable} \cup 1 .. runs[g]
BY DEF Waits, EvaluatorInv, Of, CampaignInv, FilesInv, Processes

\* A step that changes no file of a finished attempt.
LEMMA EvaluationKeeps ==
    ASSUME CampaignInv, NEW o, NEW g, NEW c, Waits(o, g, c), Touches(o, g), Advances(c),
           \/ attempts[c].status # "finished"
           \/ UNCHANGED <<results, receipts, runs, evidence, bill, reported>>,
           runs'[g] \in Nat, receipts'[g] \in {NoFile, Unverifiable} \cup 1 .. runs'[g],
           EvaluatorInv(o)'
    PROVE  CampaignInv'
<1>1. /\ c \in Cases /\ o \in Operators /\ g \in Generators /\ UNCHANGED controller
      /\ at = "evaluating" /\ o = OperatorFor(Now) /\ Now' = Now /\ c = Now
  BY DEF Waits, controller, Now
<1>2. ProgressInv'
  BY <1>1, AdvancesKeeps, WaitingKeeps DEF Extends
<1>3. Shapes'
  <2>1. attempts' = [d \in Cases |-> attempts'[d]] /\ UNCHANGED progress
    BY <1>1, AdvancesKeeps DEF controller
  <2>2. /\ pc' = [p \in Processes |-> pc'[p]] /\ missing' = [p \in Processes |-> missing'[p]]
        /\ answer' = [h \in Generators |-> answer'[h]] /\ on' = [p \in Operators |-> on'[p]]
        /\ verdict' = [p \in Operators |-> verdict'[p]]
        /\ verified' = [p \in Operators |-> verified'[p]]
    BY <1>1 DEF Touches, CampaignInv, Shapes
  <2>3. /\ receipts' = [h \in Generators |-> receipts'[h]]
        /\ evidence' = [h \in Generators |-> evidence'[h]]
        /\ bill' = [h \in Generators |-> bill'[h]]
    BY <1>1 DEF Touches, CampaignInv, Shapes
  <2>4. results' = [h \in Generators |-> [file \in Files |-> results'[h][file]]]
    <3> DEFINE mine == [file \in Files |-> results'[g][file]]
    <3>1. /\ results = [h \in Generators |-> [file \in Files |-> results[h][file]]]
          /\ results' = [results EXCEPT ![g] = mine]
      BY DEF Touches, CampaignInv, Shapes
    <3>2. results'[g] = mine /\ \A h \in Generators \ {g} : results'[h] = results[h]
      <4> HIDE DEF mine
      <4> QED BY <1>1, <3>1
    <3>3. \A h \in Generators : results'[h] = [file \in Files |-> results'[h][file]]
      BY <3>1, <3>2
    <3> HIDE DEF mine
    <3>4. results' = [h \in Generators |-> results'[h]]
      BY <3>1
    <3> QED BY <3>3, <3>4
  <2>5. reported' = [h \in Generators |-> [file \in Files |-> reported'[h][file]]]
    <3> DEFINE mine == [file \in Files |-> reported'[g][file]]
    <3>1. /\ reported = [h \in Generators |-> [file \in Files |-> reported[h][file]]]
          /\ reported' = [reported EXCEPT ![g] = mine]
      BY DEF Touches, CampaignInv, Shapes
    <3>2. reported'[g] = mine /\ \A h \in Generators \ {g} : reported'[h] = reported[h]
      <4> HIDE DEF mine
      <4> QED BY <1>1, <3>1
    <3>3. \A h \in Generators : reported'[h] = [file \in Files |-> reported'[h][file]]
      BY <3>1, <3>2
    <3> HIDE DEF mine
    <3>4. reported' = [h \in Generators |-> reported'[h]]
      BY <3>1
    <3> QED BY <3>3, <3>4
  <2> QED BY <2>1, <2>2, <2>3, <2>4, <2>5 DEF CampaignInv, Shapes
<1>4. FilesInv'
  <2>1. \A h \in Generators : h # g => receipts'[h] = receipts[h] /\ runs'[h] = runs[h]
    BY DEF Touches, CampaignInv, Shapes, FilesInv
  <2>2. runs' \in [Generators -> Nat] /\ UNCHANGED transaction
    BY <1>1 DEF Touches, CampaignInv, FilesInv
  <2> QED BY <2>1, <2>2 DEF CampaignInv, FilesInv
<1>5. CallInv'
  BY <1>1 DEF CallInv, controller
<1>6. \A d \in Cases : Sound(attempts[d], d)' /\ FinishedInv(d)'
  <2>1. CASE UNCHANGED <<results, receipts, runs, evidence, bill, reported>>
    BY <1>1, <2>1, AdvancesFinished
  <2>2. ASSUME attempts[c].status # "finished", NEW d \in Cases
        PROVE  Sound(attempts'[d], d) /\ FinishedInv(d)'
    <3>1. /\ Sound(attempts'[d], d) /\ Sound(attempts[d], d) /\ FinishedInv(d)
          /\ attempts'[d].status = "finished" =>
                 attempts'[d] = attempts[d] /\ attempts[d].status = "finished"
      BY <1>1, AdvancesKeeps DEF CampaignInv
    <3>2. ASSUME attempts'[d].status = "finished" PROVE FinishedInv(d)'
      <4> DEFINE h == attempts[d].id
      <4>1. h \in Generators /\ h # g /\ attempts'[d] = attempts[d]
        <5>1. d # c
          BY <2>2, <3>1, <3>2
        <5>2. h \in Generators /\ CaseOf[h] = d
          BY <3>1, <3>2 DEF Sound
        <5> QED BY <3>1, <3>2, <5>1, <5>2, AttemptOf
      <4>2. /\ results'[h] = results[h] /\ receipts'[h] = receipts[h] /\ runs'[h] = runs[h]
            /\ evidence'[h] = evidence[h] /\ bill'[h] = bill[h] /\ reported'[h] = reported[h]
        BY <4>1 DEF Touches, CampaignInv, Shapes, FilesInv
      <4> QED BY <3>1, <4>1, <4>2 DEF FinishedInv, Whole, Rests
    <3> QED BY <3>1, <3>2 DEF FinishedInv
  <2> QED BY <2>1, <2>2
<1> QED BY <1>2, <1>3, <1>4, <1>5, <1>6 DEF CampaignInv

\* What it leaves alone, it touches as well.
LEMMA NoTouch ==
    ASSUME CampaignInv, NEW o, NEW g, NEW c, Waits(o, g, c)
    PROVE  /\ missing = [missing EXCEPT ![o] = missing[o]]
           /\ verdict = [verdict EXCEPT ![o] = verdict[o]]
           /\ verified = [verified EXCEPT ![o] = verified[o]]
           /\ results = [results EXCEPT ![g] = [file \in Files |-> results[g][file]]]
           /\ receipts = [receipts EXCEPT ![g] = receipts[g]]
           /\ runs = [runs EXCEPT ![g] = runs[g]]
           /\ evidence = [evidence EXCEPT ![g] = evidence[g]]
           /\ bill = [bill EXCEPT ![g] = bill[g]]
           /\ reported = [reported EXCEPT ![g] = [file \in Files |-> reported[g][file]]]
<1>1. o \in Processes /\ o \in Operators /\ g \in Generators
  BY DEF Waits, Processes
<1>2. /\ missing = [missing EXCEPT ![o] = missing[o]] /\ verdict = [verdict EXCEPT ![o] = verdict[o]]
      /\ verified = [verified EXCEPT ![o] = verified[o]]
  BY DEF CampaignInv, Shapes
<1>3. /\ receipts = [receipts EXCEPT ![g] = receipts[g]] /\ runs = [runs EXCEPT ![g] = runs[g]]
      /\ evidence = [evidence EXCEPT ![g] = evidence[g]] /\ bill = [bill EXCEPT ![g] = bill[g]]
  BY DEF CampaignInv, Shapes, FilesInv
<1>4. /\ results = [results EXCEPT ![g] = [file \in Files |-> results[g][file]]]
      /\ reported = [reported EXCEPT ![g] = [file \in Files |-> reported[g][file]]]
  BY <1>1 DEF CampaignInv, Shapes
<1> QED BY <1>2, <1>3, <1>4

LEMMA Labelled ==
    ASSUME CampaignInv, NEW o, NEW g, NEW c, Waits(o, g, c), NEW label, Goto(o, label)
    PROVE  pc' = [pc EXCEPT ![o] = label] /\ pc'[o] = label
BY DEF Waits, Processes, Goto, CampaignInv, Shapes

\* A step of its program counter alone.
LEMMA LookTouches ==
    ASSUME CampaignInv, NEW o, NEW g, NEW c, Waits(o, g, c), NEW label, Goto(o, label),
           UNCHANGED <<attempts, transaction, results, answer, on, missing, verdict,
                       receipts, runs, evidence, bill, reported, verified>>
    PROVE  /\ Touches(o, g) /\ Advances(c) /\ pc'[o] = label
           /\ runs'[g] \in Nat /\ receipts'[g] \in {NoFile, Unverifiable} \cup 1 .. runs'[g]
BY NoTouch, Labelled, AttemptOf DEF Touches, Advances

\* An evaluation that gives up, whatever it has behind it.
LEMMA GivesUp ==
    ASSUME CampaignInv, NEW o, NEW g, NEW c, Waits(o, g, c), UNCHANGED <<on, verdict>>,
           Advances(c), pc[o] \in Working,
           \/ pc'[o] = "done"
           \/ pc'[o] = "crash_evaluation" /\ attempts' = attempts
    PROVE  EvaluatorInv(o)'
<1>1. c \in Cases /\ g \in Generators /\ g = on[o] /\ c = Now /\ Now' = Now /\ EvaluatorInv(o)
  BY DEF Waits, controller, Now
<1>2. attempts'[c].id = g
  BY <1>1, AttemptOf, AdvancesKeeps, AttemptAssumption DEF Extends
<1> QED BY <1>1, <1>2 DEF EvaluatorInv, Working, Unsealed, Concluding

\* What is known where the evaluation is.
Here(o, g, c) ==
    /\ CaseOf[g] = c /\ Of(g) = attempts[c] /\ attempts[c].id = g /\ Sound(attempts[c], c)
    /\ o \in Processes /\ o \in Operators /\ g \in Generators /\ g = on[o] /\ c \in Cases
    /\ c = Now /\ Now' = Now
    /\ runs[g] \in Nat /\ receipts[g] \in {NoFile, Unverifiable} \cup 1 .. runs[g]
    /\ EvaluatorInv(o)

LEMMA IsHere ==
    ASSUME CampaignInv, NEW o, NEW g, NEW c, Waits(o, g, c)
    PROVE  Here(o, g, c)
BY AttemptOf DEF Here, Waits, controller, Now

LEMMA StartExactKeeps ==
    ASSUME CampaignInv, NEW o, NEW g, NEW c, Waits(o, g, c), StartExact(o)
    PROVE  CampaignInv'
<1> DEFINE a == attempts[c]
<1> USE DEF Here
<1>1. Here(o, g, c)
  BY IsHere
<1>2. /\ UNCHANGED <<attempts, transaction, results, answer, on, missing, receipts, runs,
                     evidence, bill, reported, verified>>
      /\ \E label : Goto(o, label)
      /\ \E outcome : verdict' = [verdict EXCEPT ![o] = outcome]
  BY <1>1 DEF StartExact, ledger, files, evaluation
<1>3. Touches(o, g)
  <2>1. verdict' = [verdict EXCEPT ![o] = verdict'[o]]
    BY <1>1, <1>2 DEF CampaignInv, Shapes
  <2>2. pc' = [pc EXCEPT ![o] = pc'[o]]
    BY <1>2, Labelled
  <2> QED BY <1>2, <2>1, <2>2, NoTouch DEF Touches
<1>4. EvaluatorInv(o)'
  <2>1. CASE pc'[o] = "done"
    BY <1>1, <1>2, <2>1 DEF EvaluatorInv, Working, Unsealed, Concluding
  <2>2. CASE pc'[o] # "done"
    <3>1. /\ a.status # "finished" /\ ~Terminal(a) /\ verdict'[o] = Untested(a)
          /\ a.disposition # "none"
          /\ pc'[o] = IF a.disposition = "no_candidate" THEN "costs" ELSE "capability"
      BY <1>1, <2>2 DEF StartExact, Goto, CampaignInv, Shapes, PreflightEvaluation,
                        PreflightReceiptRecovery
    <3>2. Open(a)
      BY <1>1, <3>1, AttemptAssumption DEF Sound, Terminal, Open
    <3>3. /\ Untested(a) \in Outcomes \ {"verdict"}
      BY DEF Untested, Outcomes
    <3> QED BY <1>1, <1>2, <3>1, <3>2, <3>3
            DEF EvaluatorInv, Working, Unsealed, Concluding, Open
  <2> QED BY <2>1, <2>2
<1>5. Advances(c)
  BY <1>2 DEF Advances
<1> QED BY <1>1, <1>2, <1>3, <1>4, <1>5, EvaluationKeeps

\* A step of the evaluation that gives up is an event at most.
LEMMA LookGivesUp ==
    ASSUME CampaignInv, NEW o, NEW g, NEW c, Waits(o, g, c), pc[o] \in Working,
           Look(o, "crash_evaluation") \/ Look(o, "done"),
           UNCHANGED <<receipts, runs, evidence, bill, reported, verified>>
    PROVE  CampaignInv'
<1>1. PICK label \in {"crash_evaluation", "done"} : Look(o, label)
  OBVIOUS
<1>2. /\ Touches(o, g) /\ Advances(c) /\ pc'[o] = label
      /\ runs'[g] \in Nat /\ receipts'[g] \in {NoFile, Unverifiable} \cup 1 .. runs'[g]
  BY <1>1, LookTouches DEF Look, ledger, files, locals
<1>3. EvaluatorInv(o)'
  BY <1>1, <1>2, GivesUp DEF Look, ledger, locals
<1> QED BY <1>1, <1>2, <1>3, EvaluationKeeps DEF Look, files

LEMMA TakeExactCapabilityKeeps ==
    ASSUME CampaignInv, NEW o, NEW g, NEW c, Waits(o, g, c), TakeExactCapability(o)
    PROVE  CampaignInv'
<1> USE DEF Here
<1>1. Here(o, g, c)
  BY IsHere
<1>2. pc[o] = "capability" /\ pc[o] \in Working
  BY DEF TakeExactCapability, Working, Unsealed
<1>3. CASE Look(o, "crash_evaluation")
  BY <1>2, <1>3, LookGivesUp DEF TakeExactCapability, evaluation
<1>4. ASSUME NEW label \in {"prior", "start_differential"}, Look(o, label),
             label = "prior" => receipts[g] # NoFile
      PROVE  CampaignInv'
  <2>1. /\ Touches(o, g) /\ Advances(c) /\ pc'[o] = label
        /\ runs'[g] \in Nat /\ receipts'[g] \in {NoFile, Unverifiable} \cup 1 .. runs'[g]
    BY <1>4, LookTouches DEF Look, ledger, files, locals, TakeExactCapability, evaluation
  <2>2. UNCHANGED <<attempts, on, verdict, receipts, results, runs, evidence, bill, reported>>
    BY <1>4 DEF Look, ledger, locals, files, TakeExactCapability, evaluation
  <2>3. EvaluatorInv(o)'
    BY <1>1, <1>2, <1>4, <2>1, <2>2 DEF EvaluatorInv, Working, Unsealed, Concluding, Open
  <2> QED BY <2>1, <2>2, <2>3, EvaluationKeeps
<1> QED BY <1>1, <1>3, <1>4 DEF TakeExactCapability

LEMMA ReadReceiptKeeps ==
    ASSUME CampaignInv, NEW o, NEW g, NEW c, Waits(o, g, c), ReadReceipt(o)
    PROVE  CampaignInv'
<1> DEFINE a == attempts[c]
<1> USE DEF Here
<1>1. Here(o, g, c)
  BY IsHere
<1>2. /\ pc[o] = "prior" /\ pc[o] \in Working
      /\ UNCHANGED <<receipts, runs, evidence, bill, reported>>
  BY DEF ReadReceipt, Working, Unsealed
<1>3. CASE Look(o, "crash_evaluation") /\ UNCHANGED verified
  BY <1>2, <1>3, LookGivesUp
<1>4. ASSUME NEW label \in {"keep", "differential"}, Look(o, label),
             verified' = [verified EXCEPT ![o] = verified'[o]],
             receipts[g] # Unverifiable,
             label = "differential" => "differential" \notin a.ended,
             label = "keep" => Agreeing(g) /\ verified'[o] = receipts[g]
      PROVE  CampaignInv'
  <2>1. /\ pc' = [pc EXCEPT ![o] = pc'[o]] /\ pc'[o] = label
        /\ UNCHANGED <<attempts, transaction, results, answer, on, missing, verdict>>
    BY <1>4, Labelled DEF Look, ledger, files, locals, ReadReceipt
  <2>2. Touches(o, g)
    BY <1>2, <1>4, <2>1, NoTouch DEF Touches
  <2>3. EvaluatorInv(o)'
    <3>1. receipts[g] \in 1 .. runs[g]
      BY <1>1, <1>2, <1>4 DEF EvaluatorInv
    <3> QED BY <1>1, <1>2, <1>4, <2>1, <3>1
            DEF EvaluatorInv, Working, Unsealed, Concluding, Open, Agreeing
  <2>4. Advances(c)
    BY <2>1 DEF Advances
  <2> QED BY <1>1, <1>2, <2>1, <2>2, <2>3, <2>4, EvaluationKeeps
<1>5. ReadReceipt(o) =>
          \/ Look(o, "crash_evaluation") /\ UNCHANGED verified
          \/ \E label \in {"keep", "differential"} :
                 /\ Look(o, label) /\ verified' = [verified EXCEPT ![o] = verified'[o]]
                 /\ receipts[g] # Unverifiable
                 /\ label = "differential" => "differential" \notin a.ended
                 /\ label = "keep" => Agreeing(g) /\ verified'[o] = receipts[g]
  <2>1. CASE Look(o, "crash_evaluation") /\ UNCHANGED verified
    BY <2>1
  <2>2. CASE /\ receipts[g] # Unverifiable /\ Agreeing(g) /\ Look(o, "keep")
             /\ verified' = [verified EXCEPT ![o] = receipts[g]]
    <3>1. verified'[o] = receipts[g]
      BY <1>1, <2>2 DEF CampaignInv, Shapes
    <3> QED BY <2>2, <3>1
  <2>3. CASE /\ receipts[g] # Unverifiable /\ "differential" \notin a.ended
             /\ Look(o, "differential") /\ UNCHANGED verified
    <3>1. verified' = [verified EXCEPT ![o] = verified'[o]]
      BY <2>3 DEF CampaignInv, Shapes
    <3> QED BY <2>3, <3>1
  <2> QED BY <1>1, <2>1, <2>2, <2>3 DEF ReadReceipt, Trusted
<1> QED BY <1>3, <1>4, <1>5

LEMMA SealKeeps ==
    ASSUME CampaignInv, NEW o, NEW g, NEW c, Waits(o, g, c), Seal(o)
    PROVE  CampaignInv'
<1> USE DEF Here
<1>1. Here(o, g, c)
  BY IsHere
<1>2. /\ pc[o] = "seal"
      /\ UNCHANGED <<attempts, transaction, results, answer, on, missing, receipts, runs,
                     evidence, bill, reported, verified>>
      /\ \E label \in {"costs", "done"} : Goto(o, label)
  BY DEF Seal, ledger, files, evaluation
<1>3. pc' = [pc EXCEPT ![o] = pc'[o]] /\ pc'[o] \in {"costs", "done"}
  BY <1>2, Labelled
<1>4. /\ verdict' = [verdict EXCEPT ![o] = verdict'[o]] /\ verdict'[o] \in {verdict[o], "verdict"}
      /\ pc'[o] = "costs" => verdict'[o] = "verdict"
  BY <1>1, Labelled DEF Seal, CampaignInv, Shapes
<1>5. Touches(o, g)
  BY <1>2, <1>3, <1>4, NoTouch DEF Touches
<1>6. EvaluatorInv(o)'
  BY <1>1, <1>2, <1>3, <1>4
  DEF EvaluatorInv, Working, Unsealed, Concluding, Open, Rests, Outcomes
<1>7. Advances(c)
  BY <1>2 DEF Advances
<1> QED BY <1>1, <1>2, <1>5, <1>6, <1>7, EvaluationKeeps

\* Writing the receipt, verifying it, putting it in the place of another one: steps
\* that change no attempt.
ReceiptStep(o, g) ==
    /\ UNCHANGED <<attempts, transaction, results, answer, on, missing, verdict, evidence,
                   bill, reported>>
    /\ pc' = [pc EXCEPT ![o] = pc'[o]]
    /\ verified' = [verified EXCEPT ![o] = verified'[o]]
    /\ receipts' = [receipts EXCEPT ![g] = receipts'[g]]
    /\ runs' = [runs EXCEPT ![g] = runs'[g]]
    /\ runs'[g] \in Nat /\ receipts'[g] \in {NoFile, Unverifiable} \cup 1 .. runs'[g]

LEMMA ReceiptKeeps ==
    ASSUME CampaignInv, NEW o, NEW g, NEW c, Waits(o, g, c), ReceiptStep(o, g),
           Open(attempts[c]), EvaluatorInv(o)'
    PROVE  CampaignInv'
<1>1. Touches(o, g)
  BY NoTouch DEF ReceiptStep, Touches
<1>2. Advances(c)
  BY DEF ReceiptStep, Advances
<1> QED BY <1>1, <1>2, EvaluationKeeps DEF ReceiptStep, Open

LEMMA RunExactKeeps ==
    ASSUME CampaignInv, NEW o, NEW g, NEW c, Waits(o, g, c), RunExact(o)
    PROVE  CampaignInv'
<1> USE DEF Here
<1>1. Here(o, g, c)
  BY IsHere
<1>2. pc[o] = "differential" /\ pc[o] \in Working
  BY DEF RunExact, Working, Unsealed
<1>3. CASE Look(o, "crash_evaluation") /\ UNCHANGED <<receipts, runs>>
  BY <1>2, <1>3, LookGivesUp DEF RunExact
<1>4. CASE /\ Look(o, "receipt") /\ runs' = [runs EXCEPT ![g] = @ + 1]
           /\ receipts' = [receipts EXCEPT ![g] = IF prior[o] = None THEN Unverifiable ELSE @]
  <2>1. /\ UNCHANGED <<attempts, transaction, results, answer, on, missing, verdict, evidence,
                       bill, reported, verified>>
        /\ pc' = [pc EXCEPT ![o] = pc'[o]] /\ pc'[o] = "receipt"
    BY <1>4, Labelled DEF Look, ledger, files, locals, RunExact
  <2>2. /\ runs' = [runs EXCEPT ![g] = runs'[g]] /\ runs'[g] = runs[g] + 1
        /\ receipts' = [receipts EXCEPT ![g] = receipts'[g]]
        /\ receipts'[g] \in {Unverifiable, receipts[g]}
    BY <1>1, <1>4 DEF CampaignInv, FilesInv, Shapes
  <2>3. ReceiptStep(o, g)
    BY <1>1, <2>1, <2>2, NoTouch DEF ReceiptStep
  <2>4. Open(attempts[c])
    BY <1>1, <1>2 DEF EvaluatorInv
  <2>5. EvaluatorInv(o)'
    BY <1>1, <1>2, <2>1, <2>2 DEF EvaluatorInv, Working, Unsealed, Concluding, Open
  <2> QED BY <2>3, <2>4, <2>5, ReceiptKeeps
<1> QED BY <1>1, <1>3, <1>4 DEF RunExact

LEMMA VerifyReceiptKeeps ==
    ASSUME CampaignInv, NEW o, NEW g, NEW c, Waits(o, g, c), VerifyReceipt(o)
    PROVE  CampaignInv'
<1> USE DEF Here
<1>1. Here(o, g, c)
  BY IsHere
<1>2. pc[o] = "receipt" /\ pc[o] \in Working /\ runs[g] \in 1 .. runs[g]
  BY <1>1 DEF VerifyReceipt, Working, Unsealed, EvaluatorInv
<1>3. CASE Look(o, "crash_evaluation") /\ UNCHANGED <<receipts, verified>>
  BY <1>2, <1>3, LookGivesUp DEF VerifyReceipt
<1>4. CASE /\ Look(o, IF prior[o] = None THEN "keep" ELSE "replace")
           /\ verified' = [verified EXCEPT ![o] = runs[g]]
           /\ receipts' = [receipts EXCEPT ![g] = IF prior[o] = None THEN runs[g] ELSE @]
  <2>1. /\ UNCHANGED <<attempts, transaction, results, answer, on, missing, verdict, evidence,
                       bill, reported, runs>>
        /\ pc' = [pc EXCEPT ![o] = pc'[o]]
        /\ pc'[o] = IF prior[o] = None THEN "keep" ELSE "replace"
    BY <1>4, Labelled DEF Look, ledger, files, locals, VerifyReceipt
  <2>2. /\ verified' = [verified EXCEPT ![o] = verified'[o]] /\ verified'[o] = runs[g]
        /\ receipts' = [receipts EXCEPT ![g] = receipts'[g]]
        /\ receipts'[g] = IF prior[o] = None THEN runs[g] ELSE receipts[g]
    BY <1>1, <1>4 DEF CampaignInv, Shapes
  <2>3. ReceiptStep(o, g)
    BY <1>1, <1>2, <2>1, <2>2, NoTouch DEF ReceiptStep
  <2>4. Open(attempts[c])
    BY <1>1, <1>2 DEF EvaluatorInv
  <2>5. EvaluatorInv(o)'
    BY <1>1, <1>2, <2>1, <2>2 DEF EvaluatorInv, Working, Unsealed, Concluding, Open
  <2> QED BY <2>3, <2>4, <2>5, ReceiptKeeps
<1> QED BY <1>1, <1>3, <1>4 DEF VerifyReceipt

LEMMA ReplaceReceiptKeeps ==
    ASSUME CampaignInv, NEW o, NEW g, NEW c, Waits(o, g, c), ReplaceReceipt(o)
    PROVE  CampaignInv'
<1> USE DEF Here
<1>1. Here(o, g, c)
  BY IsHere
<1>2. pc[o] = "replace" /\ pc[o] \in Working /\ verified[o] \in 1 .. runs[g]
  BY <1>1 DEF ReplaceReceipt, Working, Unsealed, EvaluatorInv
<1>3. CASE Look(o, "crash_evaluation") /\ UNCHANGED receipts
  BY <1>2, <1>3, LookGivesUp DEF ReplaceReceipt
<1>4. ASSUME NEW label \in {"keep", "crash_evaluation"}, Look(o, label),
             receipts' = [receipts EXCEPT ![g] = verified[o]]
      PROVE  CampaignInv'
  <2>1. /\ UNCHANGED <<attempts, transaction, results, answer, on, missing, verdict, evidence,
                       bill, reported, runs, verified>>
        /\ pc' = [pc EXCEPT ![o] = pc'[o]] /\ pc'[o] = label
    BY <1>4, Labelled DEF Look, ledger, files, locals, ReplaceReceipt
  <2>2. receipts' = [receipts EXCEPT ![g] = receipts'[g]] /\ receipts'[g] = verified[o]
    BY <1>1, <1>4 DEF CampaignInv, Shapes
  <2>3. ReceiptStep(o, g)
    BY <1>1, <1>2, <2>1, <2>2, NoTouch DEF ReceiptStep
  <2>4. Open(attempts[c])
    BY <1>1, <1>2 DEF EvaluatorInv
  <2>5. EvaluatorInv(o)'
    BY <1>1, <1>2, <2>1, <2>2 DEF EvaluatorInv, Working, Unsealed, Concluding, Open
  <2> QED BY <2>3, <2>4, <2>5, ReceiptKeeps
<1> QED BY <1>1, <1>3, <1>4 DEF ReplaceReceipt

\* What the evaluation appends: the event is accepted, or it gives up.
LEMMA AppendTouches ==
    ASSUME CampaignInv, NEW o, NEW g, NEW c, Waits(o, g, c), NEW accepted, NEW new,
           NEW next, NEW rejected, Append(o, g, accepted, new, next, rejected),
           accepted => Event(attempts[c], new, c)
    PROVE  /\ Advances(c) /\ UNCHANGED <<transaction, results>>
           /\ pc' = [pc EXCEPT ![o] = pc'[o]]
           /\ accepted => pc'[o] = next /\ attempts'[c] = new
           /\ ~accepted => pc'[o] = rejected /\ attempts' = attempts
<1>1. /\ CaseOf[g] = c /\ c \in Cases
  BY AttemptOf DEF Waits
<1>2. CASE accepted /\ attempts' = [attempts EXCEPT ![c] = new] /\ Goto(o, next)
  <2>1. attempts'[c] = new
    BY <1>1, <1>2 DEF CampaignInv, Shapes
  <2>2. pc' = [pc EXCEPT ![o] = pc'[o]] /\ pc'[o] = next
    BY <1>2, Labelled
  <2> QED BY <1>2, <2>1, <2>2 DEF Advances, Append, files
<1>3. CASE ~accepted /\ UNCHANGED attempts /\ Goto(o, rejected)
  <2>1. pc' = [pc EXCEPT ![o] = pc'[o]] /\ pc'[o] = rejected
    BY <1>3, Labelled
  <2> QED BY <1>3, <2>1 DEF Advances, Append, files
<1> QED BY <1>1, <1>2, <1>3 DEF Append

\* A begin or an end of a phase is all that changes in the attempt.
LEMMA PhaseChanges ==
    ASSUME NEW c, NEW a, Sound(a, c), NEW phase \in Phases
    PROVE  /\ SameBut(a, StartPhase(a, phase)) /\ StartPhase(a, phase).ended = a.ended
           /\ \A status : MayFinishPhase(a, phase, status) =>
                  /\ SameBut(a, FinishPhase(a, status))
                  /\ FinishPhase(a, status).ended = a.ended \cup {phase}
BY DEF StartPhase, FinishPhase, MayFinishPhase, SameBut, Sound, NoAttempt, Phases

\* An append that leaves the files and the other locals alone.
LEMMA EventKeeps ==
    ASSUME CampaignInv, NEW o, NEW g, NEW c, Waits(o, g, c), NEW accepted, NEW new,
           NEW next, NEW rejected, Append(o, g, accepted, new, next, rejected),
           accepted => Event(attempts[c], new, c),
           UNCHANGED <<answer, on, verdict, verified, receipts, runs, reported>>,
           missing' = [missing EXCEPT ![o] = missing'[o]],
           evidence' = [evidence EXCEPT ![g] = evidence'[g]],
           bill' = [bill EXCEPT ![g] = bill'[g]],
           pc[o] \in Working, rejected \in {"crash_evaluation", "done"},
           accepted /\ pc'[o] = next /\ attempts'[c] = new => EvaluatorInv(o)'
    PROVE  CampaignInv'
<1>1. /\ Advances(c) /\ UNCHANGED <<transaction, results>>
      /\ pc' = [pc EXCEPT ![o] = pc'[o]]
      /\ accepted => pc'[o] = next /\ attempts'[c] = new
      /\ ~accepted => pc'[o] = rejected /\ attempts' = attempts
  BY AppendTouches
<1>2. Touches(o, g)
  BY <1>1, NoTouch DEF Touches
<1>3. EvaluatorInv(o)'
  BY <1>1, GivesUp
<1>4. Open(attempts[c]) /\ runs[g] \in Nat
      /\ receipts[g] \in {NoFile, Unverifiable} \cup 1 .. runs[g]
  BY IsHere DEF Here, EvaluatorInv
<1> QED BY <1>1, <1>2, <1>3, <1>4, EvaluationKeeps DEF Open

LEMMA StartExactDifferentialKeeps ==
    ASSUME CampaignInv, NEW o, NEW g, NEW c, Waits(o, g, c), StartExactDifferential(o)
    PROVE  CampaignInv'
<1> DEFINE a == attempts[c]
           new == StartPhase(a, "differential")
           next == IF CaseFor[o] \in NetworkCases THEN "network" ELSE "differential"
<1>1. Here(o, g, c)
  BY IsHere
<1>2. PICK late \in BOOLEAN :
          Append(o, g, ~late /\ MayStartPhase(a, "differential"), new, next,
                 "crash_evaluation")
  BY <1>1 DEF Here, StartExactDifferential, AppendEvaluation
<1>3. /\ pc[o] = "start_differential" /\ pc[o] \in Working
      /\ UNCHANGED <<answer, on, missing, verdict, verified, receipts, runs, evidence, bill,
                     reported>>
  BY DEF StartExactDifferential, Working, Unsealed, locals, evaluation
<1>4. MayStartPhase(a, "differential") =>
          /\ Event(a, new, c) /\ SameBut(a, new) /\ new.ended = a.ended
          /\ "differential" \notin a.ended
  <2>1. Sound(a, c) /\ "differential" \in Phases
    BY <1>1 DEF Here, Phases
  <2>2. MayStartPhase(a, "differential") => "differential" \notin a.ended
    BY <2>1 DEF MayStartPhase, Sound
  <2> QED BY <2>1, <2>2, PhaseIsEvent, PhaseChanges
<1>5. ASSUME MayStartPhase(a, "differential"), pc'[o] = next, attempts'[c] = new
      PROVE  EvaluatorInv(o)'
  <2> HIDE DEF new
  <2>1. SameBut(a, new) /\ new.ended = a.ended /\ "differential" \notin a.ended
    BY <1>4, <1>5
  <2> QED BY <1>1, <1>3, <1>5, <2>1
          DEF Here, EvaluatorInv, Working, Unsealed, Concluding, Open, SameBut
<1> HIDE DEF new, next, a
<1>6. /\ evidence' = [evidence EXCEPT ![g] = evidence'[g]] /\ bill' = [bill EXCEPT ![g] = bill'[g]]
      /\ missing' = [missing EXCEPT ![o] = missing'[o]]
  BY <1>3, NoTouch
<1> QED BY <1>2, <1>3, <1>4, <1>5, <1>6, EventKeeps DEF a

LEMMA FailForNetworkKeeps ==
    ASSUME CampaignInv, NEW o, NEW g, NEW c, Waits(o, g, c), FailForNetwork(o)
    PROVE  CampaignInv'
<1> DEFINE a == attempts[c]
           new == FinishPhase(a, "failed")
<1>1. Here(o, g, c)
  BY IsHere
<1>2. /\ pc[o] = "network" /\ pc[o] \in Working
      /\ UNCHANGED <<verified, receipts, runs, evidence, bill, reported>>
  BY DEF FailForNetwork, Working, Unsealed, evaluation
<1>7. CASE Look(o, "crash_evaluation")
  BY <1>2, <1>7, LookGivesUp
<1>8. SUFFICES ASSUME AppendEvaluation(o, MayFinishPhase(Of(g), "differential", "failed"),
                                       FinishPhase(Of(g), "failed"), "costs",
                                       "crash_evaluation"),
                      UNCHANGED locals
               PROVE  CampaignInv'
  BY <1>1, <1>7 DEF Here, FailForNetwork
<1>9. Append(o, g, MayFinishPhase(a, "differential", "failed"), new, "costs",
             "crash_evaluation")
  BY <1>1, <1>8 DEF Here, AppendEvaluation
<1>3. UNCHANGED <<answer, on, missing, verdict, verified, receipts, runs, evidence, bill,
                  reported>>
  BY <1>2, <1>8 DEF locals
<1>4. MayFinishPhase(a, "differential", "failed") =>
          /\ Event(a, new, c) /\ SameBut(a, new) /\ new.ended = a.ended \cup {"differential"}
  <2>1. Sound(a, c) /\ "differential" \in Phases
    BY <1>1 DEF Here, Phases
  <2> QED BY <2>1, PhaseIsEvent, PhaseChanges
<1>5. ASSUME MayFinishPhase(a, "differential", "failed"), pc'[o] = "costs",
             attempts'[c] = new
      PROVE  EvaluatorInv(o)'
  <2> HIDE DEF new
  <2>1. SameBut(a, new) /\ "differential" \in new.ended
    BY <1>4, <1>5
  <2> QED BY <1>1, <1>2, <1>3, <1>5, <2>1
          DEF Here, EvaluatorInv, Working, Unsealed, Concluding, Open, SameBut
<1> HIDE DEF new, a
<1>6. /\ evidence' = [evidence EXCEPT ![g] = evidence'[g]] /\ bill' = [bill EXCEPT ![g] = bill'[g]]
      /\ missing' = [missing EXCEPT ![o] = missing'[o]]
  BY <1>3, NoTouch
<1> QED BY <1>2, <1>9, <1>3, <1>4, <1>5, <1>6, EventKeeps DEF a

LEMMA EndExactDifferentialKeeps ==
    ASSUME CampaignInv, NEW o, NEW g, NEW c, Waits(o, g, c), EndExactDifferential(o)
    PROVE  CampaignInv'
<1> DEFINE a == attempts[c]
           new == FinishPhase(a, "succeeded")
           accepted == MayFinishPhase(a, "differential", "succeeded")
<1>1. Here(o, g, c)
  BY IsHere
<1>2. /\ pc[o] = "keep" /\ pc[o] \in Working
      /\ UNCHANGED <<receipts, runs, bill, reported, verified>>
  BY DEF EndExactDifferential, Working, Unsealed
<1>3. CASE "differential" \in a.ended /\ Look(o, "sandbox") /\ UNCHANGED evidence
  <2>1. /\ Touches(o, g) /\ Advances(c) /\ pc'[o] = "sandbox"
        /\ runs'[g] \in Nat /\ receipts'[g] \in {NoFile, Unverifiable} \cup 1 .. runs'[g]
    BY <1>2, <1>3, LookTouches DEF Look, ledger, files, locals
  <2>2. UNCHANGED <<attempts, on, verdict, receipts, results, runs, evidence, bill, reported,
                    verified>>
    BY <1>2, <1>3 DEF Look, ledger, locals, files
  <2>3. EvaluatorInv(o)'
    BY <1>1, <1>2, <1>3, <2>1, <2>2
    DEF Here, EvaluatorInv, Working, Unsealed, Concluding, Open
  <2> QED BY <2>1, <2>2, <2>3, EvaluationKeeps
<1>4. CASE /\ "differential" \notin a.ended
           /\ AppendEvaluation(o, accepted, new, "sandbox", "done")
           /\ evidence' = [evidence EXCEPT ![g] = IF accepted THEN Basis(o) ELSE @]
           /\ UNCHANGED locals
  <2>1. Append(o, g, accepted, new, "sandbox", "done")
    BY <1>1, <1>4 DEF AppendEvaluation, Here
  <2>2. UNCHANGED <<answer, on, missing, verdict>>
    BY <1>4 DEF locals
  <2>3. accepted => /\ Event(a, new, c) /\ SameBut(a, new)
                    /\ new.ended = a.ended \cup {"differential"}
    <3>1. Sound(a, c) /\ "differential" \in Phases
      BY <1>1 DEF Here, Phases
    <3> QED BY <3>1, PhaseIsEvent, PhaseChanges
  <2>4. /\ evidence' = [evidence EXCEPT ![g] = evidence'[g]]
        /\ accepted => evidence'[g].current = verified[o]
    <3>1. g \in Generators
      BY <1>1 DEF Here
    <3> HIDE DEF accepted
    <3> QED BY <1>4, <3>1 DEF Basis, CampaignInv, Shapes
  <2>5. ASSUME accepted, pc'[o] = "sandbox", attempts'[c] = new
        PROVE  EvaluatorInv(o)'
    <3>1. a.costs["sandbox"] = "absent"
      BY <1>1, <1>2, <1>4 DEF Here, EvaluatorInv, Unsealed, Sound
    <3> HIDE DEF new, accepted
    <3>2. SameBut(a, new) /\ "differential" \in new.ended /\ evidence'[g].current = verified[o]
      BY <2>3, <2>4, <2>5
    <3> QED BY <1>1, <1>2, <2>2, <2>5, <3>1, <3>2
            DEF Here, EvaluatorInv, Working, Unsealed, Concluding, Open, SameBut
  <2> HIDE DEF new, accepted, a
  <2>6. /\ bill' = [bill EXCEPT ![g] = bill'[g]] /\ missing' = [missing EXCEPT ![o] = missing'[o]]
    BY <1>2, <2>2, NoTouch
  <2> QED BY <1>2, <2>1, <2>2, <2>3, <2>4, <2>5, <2>6, EventKeeps DEF a
<1>5. Of(g) = a /\ g = on[o]
  BY <1>1 DEF Here
<1> QED BY <1>3, <1>4, <1>5 DEF EndExactDifferential

\* A recorded cost is all that changes in the attempt.
LEMMA CostChanges ==
    ASSUME NEW c, NEW a, Sound(a, c), NEW k \in Categories, NEW amount
    PROVE  LET b == RecordCost(a, k, amount) IN
           /\ b.id = a.id /\ b.status = a.status /\ b.ended = a.ended
           /\ b.disposition = a.disposition /\ b.costs[k] = amount
           /\ \A j \in Categories \ {k} : b.costs[j] = a.costs[j]
<1> DEFINE b == RecordCost(a, k, amount)
<1>1. b = [a EXCEPT !.costs = [a.costs EXCEPT ![k] = amount]]
  BY DEF RecordCost
<1>2. a = [j \in DOMAIN NoAttempt |-> a[j]] /\ a.costs \in [Categories -> Amounts]
  BY DEF Sound
<1>3. b.id = a.id /\ b.status = a.status /\ b.ended = a.ended /\ b.disposition = a.disposition
      /\ b.costs = [a.costs EXCEPT ![k] = amount]
  BY <1>1, <1>2 DEF NoAttempt
<1> HIDE DEF b
<1>4. b.costs[k] = amount /\ \A j \in Categories \ {k} : b.costs[j] = a.costs[j]
  BY <1>2, <1>3
<1> QED BY <1>3, <1>4 DEF b

LEMMA RecordExactSandboxKeeps ==
    ASSUME CampaignInv, NEW o, NEW g, NEW c, Waits(o, g, c), RecordExactSandbox(o)
    PROVE  CampaignInv'
<1> DEFINE a == attempts[c]
           new(amount) == RecordCost(a, "sandbox", amount)
           accepted(amount) == MayRecordCost(a, "sandbox", amount)
<1>1. Here(o, g, c)
  BY IsHere
<1>2. /\ pc[o] = "sandbox" /\ pc[o] \in Working
      /\ UNCHANGED <<receipts, runs, evidence, reported, verified>>
  BY DEF RecordExactSandbox, Working, Unsealed
<1>6. CASE Look(o, "done") /\ UNCHANGED bill
  BY <1>2, <1>6, LookGivesUp
<1>3. CASE a.costs["sandbox"] # "absent" /\ Look(o, "seal") /\ UNCHANGED bill
  <2>1. /\ Touches(o, g) /\ Advances(c) /\ pc'[o] = "seal"
        /\ runs'[g] \in Nat /\ receipts'[g] \in {NoFile, Unverifiable} \cup 1 .. runs'[g]
    BY <1>2, <1>3, LookTouches DEF Look, ledger, files, locals
  <2>2. UNCHANGED <<attempts, on, verdict, receipts, results, runs, evidence, bill, reported,
                    verified>>
    BY <1>2, <1>3 DEF Look, ledger, locals, files
  <2>3. EvaluatorInv(o)'
    BY <1>1, <1>2, <1>3, <2>1, <2>2
    DEF Here, EvaluatorInv, Working, Unsealed, Concluding, Open
  <2> QED BY <2>1, <2>2, <2>3, EvaluationKeeps
<1>4. ASSUME NEW amount \in Measures, NEW next \in {"seal", "done"},
             AppendEvaluation(o, accepted(amount), new(amount), next, "done"),
             bill' = [bill EXCEPT ![g] = IF accepted(amount) THEN evidence[g] ELSE @],
             UNCHANGED locals
      PROVE  CampaignInv'
  <2>1. Append(o, g, accepted(amount), new(amount), next, "done")
    BY <1>1, <1>4 DEF AppendEvaluation, Here
  <2>2. UNCHANGED <<answer, on, missing, verdict>>
    BY <1>4 DEF locals
  <2>3. /\ Sound(a, c) /\ "sandbox" \in Categories
        /\ amount \in Amounts /\ amount # "absent" /\ "differential" \in a.ended
    BY <1>1, <1>2, MeasuredIsKnown DEF Here, EvaluatorInv, Categories, BeforeBarrier, Amounts
  <2>4. accepted(amount) => Event(a, new(amount), c)
    BY <2>3, CostIsEvent
  <2>5. /\ new(amount).id = a.id /\ new(amount).status = a.status
        /\ new(amount).ended = a.ended /\ new(amount).disposition = a.disposition
        /\ new(amount).costs["sandbox"] = amount
    BY <2>3, CostChanges
  <2>6. /\ bill' = [bill EXCEPT ![g] = bill'[g]]
        /\ accepted(amount) => bill'[g] = evidence[g]
    <3>1. g \in Generators
      BY <1>1 DEF Here
    <3> HIDE DEF accepted
    <3> QED BY <1>4, <3>1 DEF CampaignInv, Shapes
  <2>7. ASSUME accepted(amount), pc'[o] = next, attempts'[c] = new(amount)
        PROVE  EvaluatorInv(o)'
    <3> HIDE DEF new, accepted
    <3> QED BY <1>1, <1>2, <2>2, <2>3, <2>5, <2>6, <2>7
            DEF Here, EvaluatorInv, Working, Unsealed, Concluding, Open
  <2> HIDE DEF new, accepted, a
  <2>8. /\ evidence' = [evidence EXCEPT ![g] = evidence'[g]]
        /\ missing' = [missing EXCEPT ![o] = missing'[o]]
    BY <1>2, <2>2, NoTouch
  <2> QED BY <1>2, <2>1, <2>2, <2>4, <2>6, <2>7, <2>8, EventKeeps DEF a
<1>5. Of(g) = a /\ g = on[o]
  BY <1>1 DEF Here
<1>7. CASE /\ a.costs["sandbox"] # "absent" /\ UNCHANGED bill
           /\ Look(o, IF WithinReservation(a) THEN "seal" ELSE "done")
  BY <1>3, <1>6, <1>7
<1>8. ASSUME NEW amount \in Measures, UNCHANGED locals,
             AppendEvaluation(o, accepted(amount), new(amount),
                              IF WithinReservation(new(amount)) THEN "seal" ELSE "done", "done"),
             bill' = [bill EXCEPT ![g] = IF accepted(amount) THEN evidence[g] ELSE @]
      PROVE  CampaignInv'
  <2>1. (IF WithinReservation(new(amount)) THEN "seal" ELSE "done") \in {"seal", "done"}
    OBVIOUS
  <2> HIDE DEF new, accepted, a
  <2> QED BY <1>4, <1>8, <2>1
<1> QED BY <1>5, <1>7, <1>8 DEF RecordExactSandbox

LEMMA FindCostsKeeps ==
    ASSUME CampaignInv, NEW o, NEW g, NEW c, Waits(o, g, c), FindCosts(o), UNCHANGED evaluation
    PROVE  CampaignInv'
<1> DEFINE a == attempts[c]
           todo == Categories \ Recorded(a)
<1>1. Here(o, g, c)
  BY IsHere
<1>2. /\ \E label \in {"fill_costs", "start_results"} : Goto(o, label)
      /\ UNCHANGED <<attempts, transaction, results, answer, on, verdict, verified, receipts,
                     runs, evidence, bill, reported>>
      /\ pc[o] = "costs"
  BY <1>1, CostsFound DEF Here, ledger, files, evaluation
<1>9. PICK found : /\ missing' = [missing EXCEPT ![o] = found]
                   /\ found = [k \in todo |-> found[k]]
                   /\ \A k \in todo : found[k] \in Measures \cup {"zero", "unknown"}
  <2>1. o \in Operators /\ Of(on[o]) = a
    BY <1>1 DEF Here
  <2>2. PICK found : /\ missing' = [missing EXCEPT ![o] = found]
                     /\ found = [k \in Categories \ Recorded(Of(on[o])) |-> found[k]]
                     /\ \A k \in Categories \ Recorded(Of(on[o])) :
                            found[k] \in Measures \cup {"zero", "unknown"}
    <3> HIDE DEF a
    <3>1. PICK found : /\ missing' = [missing EXCEPT ![o] = found]
                       /\ found = [k \in Categories \ Recorded(Of(on[o])) |-> found[k]]
                       /\ \A k \in Categories \ Recorded(Of(on[o])) :
                             \/ k = "model" /\ found[k] \in {"zero", "unknown"}
                             \/ k = "storage" /\ found[k] \in Measures
                             \/ k \notin {"model", "storage"} /\ found[k] = "zero"
      BY <2>1, CostsFound, Zenon
    <3>2. \A k \in Categories \ Recorded(Of(on[o])) :
              found[k] \in Measures \cup {"zero", "unknown"}
      BY <3>1
    <3> QED BY <3>1, <3>2
  <2> HIDE DEF a
  <2>3. todo = Categories \ Recorded(Of(on[o]))
    BY <2>1
  <2> QED BY <2>2, <2>3
<1>3. pc' = [pc EXCEPT ![o] = pc'[o]] /\ pc'[o] \in {"fill_costs", "start_results"}
  BY <1>2, Labelled
<1>4. DOMAIN found = todo /\ \A k \in todo : found[k] \in Amounts
  BY <1>9, MeasuredIsKnown DEF Amounts
<1>5. missing' = [missing EXCEPT ![o] = missing'[o]] /\ MissingInv(o)'
  <2>1. missing'[o] = found /\ missing' = [missing EXCEPT ![o] = missing'[o]]
    <3> QED BY <1>1, <1>9 DEF Here, CampaignInv, Shapes
  <2> QED BY <1>4, <1>9, <2>1 DEF MissingInv
<1>6. Touches(o, g)
  BY <1>2, <1>3, <1>5, NoTouch DEF Touches
<1>7. EvaluatorInv(o)'
  BY <1>1, <1>2, <1>3, <1>5 DEF Here, EvaluatorInv, Working, Unsealed, Concluding, Open, Rests
<1>8. Advances(c)
  BY <1>2 DEF Advances
<1> QED BY <1>1, <1>2, <1>6, <1>7, <1>8, EvaluationKeeps DEF Here

LEMMA FillCostsKeeps ==
    ASSUME CampaignInv, NEW o, NEW g, NEW c, Waits(o, g, c), FillCosts(o), UNCHANGED evaluation
    PROVE  CampaignInv'
<1> DEFINE a == attempts[c]
           k == NextMissing(o)
           amount == missing[o][k]
           accepted == MayRecordCost(a, k, amount)
           new == RecordCost(a, k, amount)
           next == IF DOMAIN missing[o] = {k} THEN "start_results" ELSE "fill_costs"
<1>1. Here(o, g, c)
  BY IsHere
<1>2. /\ pc[o] = "fill_costs" /\ pc[o] \in Working
      /\ AppendMissing(o, g, "start_results", "crash_evaluation")
      /\ UNCHANGED <<answer, on, verdict, verified, receipts, runs, evidence, bill, reported>>
  BY <1>1 DEF Here, FillCosts, AppendMissing, evaluation, Working, Concluding
<1>3. Append(o, g, accepted, new, next, "crash_evaluation")
  BY <1>1, <1>2 DEF Here, AppendMissing
<1>4. MissingInv(o)
  BY <1>1, <1>2 DEF Here, EvaluatorInv
<1>5. /\ k \in DOMAIN missing[o] /\ missing' = [q \in Processes |-> missing'[q]]
      /\ MissingInv(o)'
  BY <1>1, <1>2, <1>4, FillsMissing DEF Here
<1>6. k \in Categories /\ amount \in Amounts
  BY <1>4, <1>5 DEF MissingInv
<1>7. missing' = [missing EXCEPT ![o] = missing'[o]]
  <2>1. \E x : missing' = [missing EXCEPT ![o] = x]
    BY <1>2 DEF AppendMissing
  <2> QED BY <1>1, <2>1 DEF Here, CampaignInv, Shapes
<1>8. Sound(a, c) /\ ("differential" \in a.ended \/ a.disposition = "no_candidate")
  BY <1>1, <1>2 DEF Here, EvaluatorInv, Concluding
<1>9. accepted => Event(a, new, c)
  <2> HIDE DEF k, amount
  <2> QED BY <1>6, <1>8, CostIsEvent
<1>10. /\ new.id = a.id /\ new.status = a.status /\ new.ended = a.ended
       /\ new.disposition = a.disposition
  <2> HIDE DEF k, amount
  <2> QED BY <1>6, <1>8, CostChanges
<1>11. ASSUME accepted, pc'[o] = next, attempts'[c] = new
       PROVE  EvaluatorInv(o)'
  <2>1. pc'[o] \in {"start_results", "fill_costs"}
    BY <1>11
  <2> HIDE DEF new, accepted, k
  <2> QED BY <1>1, <1>2, <1>5, <1>8, <1>10, <1>11, <2>1
          DEF Here, EvaluatorInv, Working, Unsealed, Concluding, Open, Rests
<1> HIDE DEF new, accepted, next, a
<1>12. /\ evidence' = [evidence EXCEPT ![g] = evidence'[g]] /\ bill' = [bill EXCEPT ![g] = bill'[g]]
  BY <1>2, NoTouch
<1> QED BY <1>2, <1>3, <1>7, <1>9, <1>11, <1>12, EventKeeps DEF a

LEMMA StartResultsKeeps ==
    ASSUME CampaignInv, NEW o, NEW g, NEW c, Waits(o, g, c), StartResults(o),
           UNCHANGED evaluation
    PROVE  CampaignInv'
<1> DEFINE a == attempts[c]
           new == StartPhase(a, "result_write")
<1>1. Here(o, g, c)
  BY IsHere
<1>2. PICK late \in BOOLEAN :
          Append(o, g, ~late /\ MayStartPhase(a, "result_write"), new, "private",
                 "crash_evaluation")
  BY <1>1 DEF Here, StartResults, AppendEvaluation
<1>3. /\ pc[o] = "start_results" /\ pc[o] \in Working
      /\ UNCHANGED <<answer, on, missing, verdict, verified, receipts, runs, evidence, bill,
                     reported>>
  BY DEF StartResults, Working, Concluding, locals, evaluation
<1>4. MayStartPhase(a, "result_write") =>
          Event(a, new, c) /\ SameBut(a, new) /\ new.ended = a.ended
  <2>1. Sound(a, c) /\ "result_write" \in Phases
    BY <1>1 DEF Here, Phases
  <2> QED BY <2>1, PhaseIsEvent, PhaseChanges
<1>5. ASSUME MayStartPhase(a, "result_write"), pc'[o] = "private", attempts'[c] = new
      PROVE  EvaluatorInv(o)'
  <2> HIDE DEF new
  <2>1. SameBut(a, new) /\ new.ended = a.ended
    BY <1>4, <1>5
  <2> QED BY <1>1, <1>3, <1>5, <2>1
          DEF Here, EvaluatorInv, Working, Unsealed, Concluding, Open, SameBut, Rests
<1> HIDE DEF new, a
<1>6. /\ evidence' = [evidence EXCEPT ![g] = evidence'[g]] /\ bill' = [bill EXCEPT ![g] = bill'[g]]
      /\ missing' = [missing EXCEPT ![o] = missing'[o]]
  BY <1>3, NoTouch
<1> QED BY <1>2, <1>3, <1>4, <1>5, <1>6, EventKeeps DEF a

LEMMA WriteExactResultKeeps ==
    ASSUME CampaignInv, NEW o, NEW g, NEW c, Waits(o, g, c), NEW file \in Files,
           WriteExactResult(o, file)
    PROVE  CampaignInv'
<1>1. Here(o, g, c)
  BY IsHere
<1>2. /\ pc[o] = file /\ pc[o] \in Working /\ Open(attempts[c])
      /\ UNCHANGED <<attempts, transaction, answer, on, missing, verdict, verified, receipts,
                     runs, evidence, bill>>
  BY <1>1 DEF WriteExactResult, WriteRecord, Working, Concluding, Files, Here, EvaluatorInv,
              ledger, locals
<1>3. CASE Goto(o, "crash_evaluation") /\ UNCHANGED results
  <2>1. reported' = reported
    <3>1. reported' = [reported EXCEPT ![g][file] = reported[g][file]]
      BY <1>1, <1>3 DEF Here, WriteExactResult
    <3>2. reported = [h \in Generators |-> [f \in Files |-> reported[h][f]]]
      BY DEF CampaignInv, Shapes
    <3> QED BY <3>1, <3>2
  <2>2. /\ Touches(o, g) /\ Advances(c) /\ pc'[o] = "crash_evaluation"
        /\ runs'[g] \in Nat /\ receipts'[g] \in {NoFile, Unverifiable} \cup 1 .. runs'[g]
    BY <1>2, <1>3, <2>1, LookTouches
  <2>3. EvaluatorInv(o)'
    BY <1>2, <2>2, GivesUp
  <2> QED BY <1>2, <2>2, <2>3, EvaluationKeeps DEF Open
<1>4. CASE /\ results[g][file] = NoFile /\ results' = [results EXCEPT ![g][file] = verdict[o]]
           /\ Goto(o, IF file = "private" THEN "public" ELSE "end_results")
  <2> DEFINE next == IF file = "private" THEN "public" ELSE "end_results"
  <2>1. pc' = [pc EXCEPT ![o] = pc'[o]] /\ pc'[o] = next
    BY <1>4, Labelled
  <2>2. /\ results = [h \in Generators |-> [f \in Files |-> results[h][f]]]
        /\ reported = [h \in Generators |-> [f \in Files |-> reported[h][f]]]
        /\ g \in Generators /\ g = on[o]
    BY <1>1 DEF Here, CampaignInv, Shapes
  <2>3. /\ results' = [results EXCEPT ![g] = [f \in Files |-> results'[g][f]]]
        /\ results'[g][file] = verdict[o]
        /\ \A f \in Files \ {file} : results'[g][f] = results[g][f]
    BY <1>4, <2>2
  <2>4. results' # results
    <3>1. verdict[o] # NoFile
      BY <1>1, <1>2, RunnerAssumption DEF Here, EvaluatorInv
    <3> QED BY <1>4, <2>3, <3>1
  <2>5. reported' = [reported EXCEPT ![g][file] = verified[o]]
    BY <1>1, <2>4 DEF Here, WriteExactResult
  <2>6. /\ reported' = [reported EXCEPT ![g] = [f \in Files |-> reported'[g][f]]]
        /\ reported'[g][file] = verified[o]
        /\ \A f \in Files \ {file} : reported'[g][f] = reported[g][f]
    BY <2>2, <2>5
  <2>7. Touches(o, g)
    BY <1>2, <2>1, <2>3, <2>6, NoTouch DEF Touches
  <2>8. EvaluatorInv(o)'
    <3>1. CASE file = "private"
      BY <1>1, <1>2, <2>1, <2>3, <2>6, <3>1
      DEF Here, EvaluatorInv, Working, Unsealed, Concluding, Open, Rests, Wrote
    <3>2. CASE file = "public"
      <4>1. results'[g]["private"] = results[g]["private"] /\ reported'[g]["private"] = reported[g]["private"]
        BY <2>3, <2>6, <3>2 DEF Files
      <4> QED BY <1>1, <1>2, <2>1, <2>3, <2>6, <3>2, <4>1
              DEF Here, EvaluatorInv, Working, Unsealed, Concluding, Open, Rests, Wrote
    <3> QED BY <3>1, <3>2 DEF Files
  <2>9. Advances(c) /\ runs[g] \in Nat /\ receipts[g] \in {NoFile, Unverifiable} \cup 1 .. runs[g]
    BY <1>1, <1>2 DEF Advances, Here
  <2> QED BY <1>2, <2>7, <2>8, <2>9, EvaluationKeeps DEF Open
<1>5. g = on[o]
  BY <1>1 DEF Here
<1> QED BY <1>3, <1>4, <1>5 DEF WriteExactResult, WriteRecord

LEMMA EndExactResultsKeeps ==
    ASSUME CampaignInv, NEW o, NEW g, NEW c, Waits(o, g, c), EndExactResults(o)
    PROVE  CampaignInv'
<1> DEFINE a == attempts[c]
           new == FinishPhase(a, "succeeded")
<1>1. Here(o, g, c)
  BY IsHere
<1>2. CASE pc[o] = "end_results" /\ Look(o, "crash_evaluation")
  BY <1>2, LookGivesUp DEF EndExactResults, evaluation, Working, Concluding
<1>3. CASE EndResults(o)
  <2>1. Append(o, g, MayFinishPhase(a, "result_write", "succeeded"), new, "finish",
               "crash_evaluation")
    BY <1>1, <1>3 DEF Here, EndResults, AppendEvaluation
  <2>2. /\ pc[o] = "end_results" /\ pc[o] \in Working
        /\ UNCHANGED <<results, answer, on, missing, verdict, verified, receipts, runs,
                       evidence, bill, reported>>
    BY <1>3, <2>1 DEF EndResults, EndExactResults, Working, Concluding, locals, evaluation,
                      Append, files
  <2>3. MayFinishPhase(a, "result_write", "succeeded") =>
            /\ Event(a, new, c) /\ SameBut(a, new) /\ new.ended = a.ended \cup {"result_write"}
    <3>1. Sound(a, c) /\ "result_write" \in Phases
      BY <1>1 DEF Here, Phases
    <3> QED BY <3>1, PhaseIsEvent, PhaseChanges
  <2>4. ASSUME MayFinishPhase(a, "result_write", "succeeded"), pc'[o] = "finish",
               attempts'[c] = new
        PROVE  EvaluatorInv(o)'
    <3> HIDE DEF new
    <3>1. SameBut(a, new) /\ a.ended \subseteq new.ended
      BY <2>3, <2>4
    <3> QED BY <1>1, <2>2, <2>4, <3>1
            DEF Here, EvaluatorInv, Working, Unsealed, Concluding, Open, SameBut, Rests, Wrote
  <2> HIDE DEF new, a
  <2>5. /\ evidence' = [evidence EXCEPT ![g] = evidence'[g]] /\ bill' = [bill EXCEPT ![g] = bill'[g]]
        /\ missing' = [missing EXCEPT ![o] = missing'[o]]
    BY <2>2, NoTouch
  <2> QED BY <2>1, <2>2, <2>3, <2>4, <2>5, EventKeeps DEF a
<1> QED BY <1>2, <1>3 DEF EndExactResults

LEMMA LeaveOrCrashKeeps ==
    ASSUME CampaignInv, NEW o, NEW g, NEW c, Waits(o, g, c), LeaveOrCrash(o)
    PROVE  CampaignInv'
<1> DEFINE a == attempts[c]
<1>1. Here(o, g, c)
  BY IsHere
<1>2. CASE pc[o] = "crash_evaluation" /\ Look(o, "done")
  BY <1>2, LookGivesUp DEF LeaveOrCrash, evaluation, Working
<1>3. CASE CrashEvaluation(o)
  <2>1. Append(o, g, MayCrash(a), Crash(a), "done", "done")
    BY <1>1, <1>3 DEF Here, CrashEvaluation, AppendEvaluation
  <2>2. /\ pc[o] = "crash_evaluation" /\ pc[o] \in Working
        /\ UNCHANGED <<answer, on, missing, verdict, verified, receipts, runs, evidence, bill,
                       reported>>
    BY <1>3 DEF CrashEvaluation, LeaveOrCrash, Working, locals, evaluation
  <2>3. MayCrash(a) => Event(a, Crash(a), c)
    BY <1>1, DispositionIsEvent DEF Here
  <2>4. Advances(c) /\ pc'[o] = "done"
    BY <2>1, <2>3, AppendTouches
  <2>5. EvaluatorInv(o)'
    BY <2>2, <2>4, GivesUp
  <2> HIDE DEF a
  <2>6. /\ evidence' = [evidence EXCEPT ![g] = evidence'[g]] /\ bill' = [bill EXCEPT ![g] = bill'[g]]
        /\ missing' = [missing EXCEPT ![o] = missing'[o]]
    BY <2>2, NoTouch
  <2> QED BY <2>1, <2>2, <2>3, <2>5, <2>6, EventKeeps DEF a
<1> QED BY <1>2, <1>3 DEF LeaveOrCrash

\* The end of the attempt: what is on file becomes what the campaign reports.
LEMMA EndAttemptKeeps ==
    ASSUME CampaignInv, NEW o, NEW g, NEW c, Waits(o, g, c), EndAttempt(o),
           UNCHANGED evaluation
    PROVE  CampaignInv'
<1> DEFINE a == attempts[c]
           new == FinishAttempt(a, verdict[o])
<1>1. Here(o, g, c)
  BY IsHere
<1>2. /\ pc[o] = "finish" /\ pc[o] \in Working
      /\ Append(o, g, MayFinishAttempt(a), new, "done", "crash_evaluation")
      /\ UNCHANGED <<transaction, results, answer, on, missing, verdict, verified, receipts,
                     runs, evidence, bill, reported>>
  BY <1>1 DEF Here, EndAttempt, AppendEvaluation, Append, files, locals, evaluation, Working,
              Concluding
<1>3. CASE ~MayFinishAttempt(a)
  <2>1. Append(o, g, FALSE, new, "done", "crash_evaluation")
    BY <1>2, <1>3 DEF Append
  <2> HIDE DEF new, a
  <2>2. /\ evidence' = [evidence EXCEPT ![g] = evidence'[g]] /\ bill' = [bill EXCEPT ![g] = bill'[g]]
        /\ missing' = [missing EXCEPT ![o] = missing'[o]]
    BY <1>2, NoTouch
  <2> QED BY <1>2, <2>1, <2>2, EventKeeps
<1>4. CASE MayFinishAttempt(a)
  <2>1. /\ a.status = "open" /\ Recorded(a) = Categories /\ verdict[o] \in Outcomes
        /\ a.disposition # "none"
        /\ Wrote(o, "private") /\ Wrote(o, "public")
        /\ verdict[o] = "verdict" => Rests(g)
    BY <1>1, <1>2, <1>4 DEF Here, EvaluatorInv, Working, Concluding, MayFinishAttempt, Open
  <2>2. /\ new = [k \in DOMAIN NoAttempt |-> new[k]] /\ new.status = "finished"
        /\ new.outcome = verdict[o]
        /\ \A k \in DOMAIN NoAttempt \ {"status", "outcome"} : new[k] = a[k]
    BY <1>1 DEF Here, FinishAttempt, Sound, NoAttempt
  <2>3. attempts' = [attempts EXCEPT ![c] = new] /\ Goto(o, "done")
    BY <1>1, <1>2, <1>4 DEF Here, Append
  <2> HIDE DEF new
  <2>4. Sound(new, c) /\ new.id = g /\ new.disposition = a.disposition
    <3>1. DOMAIN NoAttempt = {"id", "status", "phase", "began", "ended", "generated", "call",
                              "usage", "candidate", "costs", "disposition", "recovered",
                              "outcome"}
      BY DEF NoAttempt
    <3> HIDE DEF NoAttempt
    <3>2. /\ new.id = a.id /\ new.phase = a.phase /\ new.began = a.began /\ new.ended = a.ended
          /\ new.call = a.call /\ new.usage = a.usage /\ new.costs = a.costs
          /\ new.disposition = a.disposition
      BY <2>2, <3>1
    <3> QED BY <1>1, <2>1, <2>2, <3>2 DEF Here, Sound, Called, Recorded
  <2>5. /\ attempts' = [d \in Cases |-> attempts'[d]] /\ attempts'[c] = new
        /\ \A d \in Cases \ {c} : attempts'[d] = attempts[d]
    BY <1>1, <2>3 DEF Here, CampaignInv, Shapes
  <2>6. pc' = [pc EXCEPT ![o] = "done"] /\ pc'[o] = "done"
    BY <2>3, Labelled
  <2>7. UNCHANGED controller /\ at = "evaluating" /\ o = OperatorFor(Now) /\ Now' = Now
    BY DEF Waits, controller, Now
  <2>8. Shapes'
    <3>1. UNCHANGED progress
      BY <2>7 DEF controller
    <3> QED BY <1>2, <2>5, <2>6, <3>1 DEF CampaignInv, Shapes
  <2>9. FilesInv'
    BY <1>2 DEF CampaignInv, FilesInv
  <2>10. CallInv'
    <3>1. EvaluatorInv(o)'
      BY <1>1, <1>2, <2>4, <2>5, <2>6 DEF Here, EvaluatorInv, Working, Unsealed, Concluding
    <3> QED BY <2>7, <3>1 DEF CallInv, controller
  <2>11. ProgressInv'
    <3>1. \A d \in Cases :
              /\ attempts[d].disposition # "none" => attempts'[d].disposition # "none"
              /\ attempts[d].status = "finished" => attempts'[d].status = "finished"
      BY <2>2, <2>4, <2>5
    <3> QED BY <2>7, <3>1, WaitingKeeps
  <2>12. \A d \in Cases : Sound(attempts[d], d)' /\ FinishedInv(d)'
    <3>1. \A h : (Rests(h)' <=> Rests(h))
      BY <1>2 DEF Rests
    <3>2. \A h, outcome : (Whole(h, outcome)' <=> Whole(h, outcome))
      BY <1>2 DEF Whole
    <3>3. ASSUME NEW d \in Cases \ {c} PROVE Sound(attempts'[d], d) /\ FinishedInv(d)'
      <4>1. Sound(attempts[d], d) /\ FinishedInv(d)
        BY DEF CampaignInv
      <4> QED BY <1>2, <2>5, <3>1, <3>2, <3>3, <4>1 DEF FinishedInv
    <3>4. FinishedInv(c)'
      <4>1. Whole(g, verdict[o])
        <5>1. results[g] = [file \in Files |-> results[g][file]]
          BY <1>1 DEF Here, CampaignInv, Shapes
        <5> QED BY <1>1, <2>1, <5>1 DEF Here, Whole, Wrote, Files
      <4>2. verdict[o] = "verdict" =>
                Rests(g) /\ \A file \in Files : reported[g][file] = receipts[g]
        BY <1>1, <2>1 DEF Here, Wrote, Files
      <4> QED BY <1>2, <2>2, <2>4, <2>5, <3>1, <3>2, <4>1, <4>2 DEF FinishedInv
    <3>5. Sound(attempts'[c], c)
      BY <2>4, <2>5
    <3> QED BY <3>3, <3>4, <3>5
  <2> QED BY <2>8, <2>9, <2>10, <2>11, <2>12 DEF CampaignInv
<1> QED BY <1>3, <1>4

LEMMA EvaluatingKeeps ==
    ASSUME CampaignInv, Evaluating
    PROVE  CampaignInv'
<1>1. PICK o \in Operators, g \in Generators, c \in Cases :
          Waits(o, g, c) /\ ExactEvaluation(o)
  BY WaitsForOne
<1>2. \A file \in {"private", "public"} : WriteExactResult(o, file) => CampaignInv'
  BY <1>1, WriteExactResultKeeps DEF Files
<1> QED
  BY <1>1, <1>2, StartExactKeeps, TakeExactCapabilityKeeps, StartExactDifferentialKeeps,
     FailForNetworkKeeps, ReadReceiptKeeps, RunExactKeeps, VerifyReceiptKeeps,
     ReplaceReceiptKeeps, EndExactDifferentialKeeps, RecordExactSandboxKeeps, SealKeeps,
     FindCostsKeeps, FillCostsKeeps, StartResultsKeeps, EndAttemptKeeps,
     EndExactResultsKeeps, LeaveOrCrashKeeps
  DEF ExactEvaluation

-----------------------------------------------------------------------------
(* The steps of the controller *)

\* A step that leaves every attempt and its files alone.
LEMMA ControlKeeps ==
    ASSUME CampaignInv, UNCHANGED <<attempts, transaction, results, answer, receipts, runs,
                                    evidence, bill, reported>>,
           /\ pc' = [p \in Processes |-> pc'[p]] /\ missing' = [p \in Processes |-> missing'[p]]
           /\ on' = [o \in Operators |-> on'[o]] /\ verdict' = [o \in Operators |-> verdict'[o]]
           /\ verified' = [o \in Operators |-> verified'[o]],
           progress' = [status |-> progress'.status, phase |-> progress'.phase,
                        rows |-> [c \in Cases |-> progress'.rows[c]]],
           CallInv', ProgressInv'
    PROVE  CampaignInv'
<1>1. Shapes'
  BY DEF CampaignInv, Shapes
<1>2. FilesInv'
  BY DEF CampaignInv, FilesInv
<1>3. \A c \in Cases : Sound(attempts[c], c)' /\ FinishedInv(c)'
  <2>1. \A g : (Rests(g)' <=> Rests(g))
    BY DEF Rests
  <2>2. \A g, outcome : (Whole(g, outcome)' <=> Whole(g, outcome))
    BY DEF Whole
  <2> QED BY <2>1, <2>2 DEF CampaignInv, FinishedInv
<1> QED BY <1>1, <1>2, <1>3 DEF CampaignInv

\* The operator is an invocation that is over, or the process of the generation is.
LEMMA ReleasedShapes ==
    ASSUME CampaignInv, NEW o, NEW label, Released(o, label)
    PROVE  /\ pc' = [p \in Processes |-> pc'[p]] /\ missing' = [p \in Processes |-> missing'[p]]
           /\ on' = [q \in Operators |-> on'[q]] /\ verdict' = [q \in Operators |-> verdict'[q]]
           /\ verified' = [q \in Operators |-> verified'[q]]
           /\ UNCHANGED <<receipts, runs, evidence, bill, reported>>
BY DEF Released, CampaignInv, Shapes

\* The progress file, field by field.
LEMMA ProgressFields ==
    ASSUME CampaignInv
    PROVE  /\ DOMAIN progress = {"status", "phase", "rows"}
           /\ progress = [k \in {"status", "phase", "rows"} |-> progress[k]]
           /\ progress.rows = [c \in Cases |-> progress.rows[c]]
BY DEF CampaignInv, Shapes

LEMMA ProgressFrom ==
    ASSUME NEW p, p = [k \in {"status", "phase", "rows"} |-> p[k]],
           p.rows = [c \in Cases |-> p.rows[c]]
    PROVE  p = [status |-> p.status, phase |-> p.phase, rows |-> [c \in Cases |-> p.rows[c]]]
OBVIOUS

\* What an exception leaves: the controller is stopped, its campaign halted.
LEMMA HaltKeeps ==
    ASSUME CampaignInv, NEW cause, Halt(cause), UNCHANGED attempts
    PROVE  /\ CallInv' /\ ProgressInv'
           /\ progress' = [status |-> progress'.status, phase |-> progress'.phase,
                           rows |-> [c \in Cases |-> progress'.rows[c]]]
<1>1. /\ at' = "stopped" /\ turn' = turn /\ progress'.status = "halted"
      /\ progress'.rows = progress.rows
      /\ progress' = [status |-> progress'.status, phase |-> progress'.phase,
                      rows |-> [c \in Cases |-> progress'.rows[c]]]
  BY DEF Halt, CampaignInv, Shapes
<1> QED BY <1>1 DEF CallInv, CampaignInv, ProgressInv, InCase, InEvaluation

\* A step that writes nothing, to where nothing more than here is asked for.
LEMMA ContinueKeeps ==
    ASSUME CampaignInv, NEW label, Continue(label), UNCHANGED attempts,
           at # "stopped", at # "preflight",
           label \in InCase => turn \in DOMAIN CaseList,
           label \in InEvaluation => at \in InEvaluation,
           label = "generated" => attempts[Now].disposition # "none",
           label = "evaluated" => attempts[Now].status = "finished"
    PROVE  /\ ProgressInv'
           /\ progress' = [status |-> progress'.status, phase |-> progress'.phase,
                           rows |-> [c \in Cases |-> progress'.rows[c]]]
<1>1. at' = label /\ UNCHANGED <<turn, progress>> /\ Now' = Now
  BY DEF Continue, Now
<1>2. ProgressInv'
  BY <1>1 DEF CampaignInv, ProgressInv
<1> QED BY <1>1, <1>2 DEF CampaignInv, Shapes

LEMMA SameShapes ==
    ASSUME CampaignInv
    PROVE  /\ pc = [p \in Processes |-> pc[p]] /\ missing = [p \in Processes |-> missing[p]]
           /\ on = [o \in Operators |-> on[o]] /\ verdict = [o \in Operators |-> verdict[o]]
           /\ verified = [o \in Operators |-> verified[o]]
BY DEF CampaignInv, Shapes

LEMMA ControlsUnchanged ==
    ASSUME CampaignInv, Controls
    PROVE  /\ UNCHANGED <<attempts, transaction, results, answer, receipts, runs, evidence,
                          bill, reported>>
           /\ pc' = [p \in Processes |-> pc'[p]] /\ missing' = [p \in Processes |-> missing'[p]]
           /\ on' = [o \in Operators |-> on'[o]] /\ verdict' = [o \in Operators |-> verdict'[o]]
           /\ verified' = [o \in Operators |-> verified'[o]]
BY SameShapes DEF Controls, vars, ledger, files, locals, evaluation

LEMMA StartControllerKeeps ==
    ASSUME CampaignInv, StartController \/ Preflight
    PROVE  CampaignInv'
<1>1. Controls
  BY DEF StartController, Preflight
<1>2. UNCHANGED attempts
  BY <1>1, ControlsUnchanged
<1>3. CASE StartController
  <2>1. at' = "preflight" /\ UNCHANGED <<turn, progress>>
    BY <1>3 DEF StartController, Continue
  <2>2. CallInv' /\ ProgressInv'
    BY <1>2, <2>1 DEF CallInv, CampaignInv, ProgressInv, InCase, InEvaluation
  <2>3. progress' = [status |-> progress'.status, phase |-> progress'.phase,
                     rows |-> [c \in Cases |-> progress'.rows[c]]]
    BY <2>1 DEF CampaignInv, Shapes
  <2> QED BY <1>1, <2>2, <2>3, ControlsUnchanged, ControlKeeps
<1>4. CASE \E cause : Halt(cause)
  BY <1>1, <1>2, <1>4, HaltKeeps, ControlsUnchanged, ControlKeeps
<1>5. CASE /\ at' = "generation" /\ turn' = 1
           /\ progress' = [progress EXCEPT !.status = "running", !.phase = "generation"]
  <2>1. /\ progress'.status = "running" /\ progress'.rows = progress.rows
        /\ progress' = [status |-> progress'.status, phase |-> progress'.phase,
                        rows |-> [c \in Cases |-> progress'.rows[c]]]
    <3>1. /\ progress' = [k \in {"status", "phase", "rows"} |-> progress'[k]]
          /\ progress'.status = "running" /\ progress'.rows = progress.rows
      BY <1>5, ProgressFields
    <3> QED BY <3>1, ProgressFields, ProgressFrom
  <2>2. 1 \in 1 .. Cardinality(Cases) + 1
    BY CampaignAssumption, FS_CardinalityType
  <2>3. CallInv' /\ ProgressInv'
    BY <1>2, <1>5, <2>1, <2>2 DEF CallInv, CampaignInv, ProgressInv, InCase, InEvaluation
  <2> QED BY <1>1, <2>1, <2>3, ControlsUnchanged, ControlKeeps
<1> QED BY <1>3, <1>4, <1>5 DEF Preflight

LEMMA MarkKeeps ==
    ASSUME CampaignInv, MarkGenerated \/ MarkEvaluated
    PROVE  CampaignInv'
<1>1. Controls
  BY DEF MarkGenerated, MarkEvaluated, Mark
<1>2. UNCHANGED attempts
  BY <1>1, ControlsUnchanged
<1>3. CASE \E cause : Halt(cause)
  BY <1>1, <1>2, <1>3, HaltKeeps, ControlsUnchanged, ControlKeeps
<1>4. ASSUME NEW row, NEW next, progress' = [progress EXCEPT !.rows[Now] = row],
             at' = next, turn' = turn + 1,
             \/ at = "generated" /\ row = "generation_frozen" /\ next = "generation"
             \/ at = "evaluated" /\ row = "evaluated" /\ next = "evaluation"
      PROVE  CampaignInv'
  <2>1. /\ turn \in DOMAIN CaseList /\ Now \in Cases /\ Now = CaseList[turn]
        /\ progress.status # "complete"
    BY <1>4, NowIsCase DEF CampaignInv, ProgressInv, InCase, Now
  <2>2. turn \in Nat /\ turn' \in 1 .. Cardinality(Cases) + 1
    BY <1>4, <2>1, CampaignAssumption, FS_CardinalityType
  <2>3. /\ progress' = [status |-> progress'.status, phase |-> progress'.phase,
                        rows |-> [c \in Cases |-> progress'.rows[c]]]
        /\ progress'.status = progress.status /\ progress'.rows[Now] = row
        /\ \A c \in Cases : c # Now => progress'.rows[c] = progress.rows[c]
    <3> DEFINE rows == [progress.rows EXCEPT ![Now] = row]
    <3>1. /\ rows = [c \in Cases |-> rows[c]] /\ rows[Now] = row
          /\ \A c \in Cases : c # Now => rows[c] = progress.rows[c]
      BY <2>1, ProgressFields
    <3>2. progress' = [progress EXCEPT !.rows = rows]
      BY <1>4
    <3> HIDE DEF rows
    <3>3. /\ progress' = [k \in {"status", "phase", "rows"} |-> progress'[k]]
          /\ progress'.status = progress.status /\ progress'.rows = rows
      BY <3>2, ProgressFields
    <3> QED BY <3>1, <3>3, ProgressFrom
  <2>4. /\ attempts[Now].disposition # "none"
        /\ row = "evaluated" => attempts[Now].status = "finished"
    BY <1>4, <2>1 DEF CampaignInv, ProgressInv, Sound
  <2>5. ASSUME at = "evaluated" PROVE
            \A n \in DOMAIN CaseList : n < turn' => progress'.rows[CaseList[n]] = "evaluated"
    <3> SUFFICES ASSUME NEW n \in DOMAIN CaseList, n < turn'
                 PROVE  progress'.rows[CaseList[n]] = "evaluated"
      OBVIOUS
    <3>1. n \in Nat /\ CaseList[n] \in Cases
      BY CampaignAssumption, FS_CardinalityType
    <3>2. CASE n = turn
      BY <1>4, <2>1, <2>3, <2>5, <3>2
    <3>3. CASE n < turn
      <4>1. progress.rows[CaseList[n]] = "evaluated"
        BY <2>5, <3>3 DEF CampaignInv, ProgressInv, InEvaluation
      <4> QED BY <1>4, <2>3, <2>5, <3>1, <4>1
    <3> QED BY <1>4, <2>2, <3>1, <3>2, <3>3
  <2>6. CallInv'
    BY <1>4 DEF CallInv
  <2>7. ProgressInv'
    BY <1>2, <1>4, <2>1, <2>2, <2>3, <2>4, <2>5
    DEF CampaignInv, ProgressInv, InCase, InEvaluation
  <2> QED BY <1>1, <2>3, <2>6, <2>7, ControlsUnchanged, ControlKeeps
<1> QED BY <1>3, <1>4 DEF MarkGenerated, MarkEvaluated, Mark

\* The controller calls: the process is at its start.
LEMMA CallGenerateKeeps ==
    ASSUME CampaignInv, CallGenerate
    PROVE  CampaignInv'
<1>1. /\ at = "generation" /\ turn \in DOMAIN CaseList
      /\ UNCHANGED <<attempts, transaction, results, answer, missing, on, verdict, verified,
                     receipts, runs, evidence, bill, reported>>
  BY DEF CallGenerate, ledger, files, locals, evaluation
<1>2. CASE Halt("none") /\ UNCHANGED pc
  BY <1>1, <1>2, HaltKeeps, SameShapes, ControlKeeps
<1>3. CASE DirectoryIsNew(Now) /\ Continue("generating") /\ UNCHANGED pc
  <2>1. PICK g \in Generators : g = GeneratorFor(Now)
    BY <1>1, NowIsCase
  <2>2. pc' = [p \in Processes |-> pc'[p]] /\ pc'[g] = "idle" /\ Now' = Now
        /\ at' = "generating"
    BY <1>3, <2>1 DEF DirectoryIsNew, CampaignInv, Shapes, Continue, Now
  <2>3. CallInv'
    <3>1. GeneratorInv(g)'
      BY <2>2 DEF GeneratorInv
    <3> QED BY <2>1, <2>2, <3>1 DEF CallInv
  <2>4. /\ ProgressInv'
        /\ progress' = [status |-> progress'.status, phase |-> progress'.phase,
                        rows |-> [c \in Cases |-> progress'.rows[c]]]
    BY <1>1, <1>3, ContinueKeeps DEF InCase, InEvaluation
  <2> QED BY <1>1, <2>2, <2>3, <2>4, SameShapes, ControlKeeps
<1>4. CASE Halt("outside") /\ Goto(GeneratorFor(Now), "done")
  <2>1. pc' = [p \in Processes |-> pc'[p]]
    BY <1>4 DEF Goto, CampaignInv, Shapes
  <2> QED BY <1>1, <1>4, <2>1, HaltKeeps, SameShapes, ControlKeeps
<1> QED BY <1>2, <1>3, <1>4 DEF CallGenerate

LEMMA EnterStarts ==
    ASSUME CampaignInv, turn \in DOMAIN CaseList, NEW o \in Operators, o = OperatorFor(Now),
           NEW g, g = attempts[Now].id, NEW label, Enter(o, g, label)
    PROVE  /\ g \in Generators /\ CaseOf[g] = Now
           /\ UNCHANGED <<attempts, transaction, results, answer, missing, verdict>>
           /\ pc' = [p \in Processes |-> pc'[p]] /\ on' = [p \in Operators |-> on'[p]]
           /\ pc'[o] = label /\ on'[o] = g
<1>1. Now \in Cases /\ CaseOf[g] = Now /\ Sound(attempts[Now], Now) /\ Of(g) # NoAttempt
  BY NowIsCase DEF Enter, CampaignInv
<1>2. g \in Generators
  BY <1>1, AttemptAssumption DEF Of, Sound
<1> QED BY <1>1, <1>2 DEF Enter, Goto, ledger, files, CampaignInv, Shapes, Processes

LEMMA CallRecoverKeeps ==
    ASSUME CampaignInv, CallRecover \/ CallEvaluate
    PROVE  CampaignInv'
<1>1. turn \in DOMAIN CaseList /\ UNCHANGED evaluation
  BY DEF CallRecover, CallEvaluate
<1>2. PICK o \in Operators : o = OperatorFor(Now)
  BY <1>1, NowIsCase
<1> DEFINE g == attempts[Now].id
<1>3. PICK label \in {"recover", "evaluate"} :
          /\ Enter(o, g, label)
          /\ label = "recover" => at = "generation" /\ Continue("recovering")
          /\ label = "evaluate" => at = "evaluation" /\ Continue("evaluating")
  BY <1>2 DEF CallRecover, CallEvaluate
<1>4. /\ g \in Generators /\ CaseOf[g] = Now
      /\ UNCHANGED <<attempts, transaction, results, answer, missing, verdict>>
      /\ pc' = [p \in Processes |-> pc'[p]] /\ on' = [p \in Operators |-> on'[p]]
      /\ pc'[o] = label /\ on'[o] = g
  BY <1>1, <1>2, <1>3, EnterStarts
<1>5. Now' = Now
  BY <1>3 DEF Continue, Now
<1>6. CallInv'
  <2>1. CASE label = "recover"
    <3>1. RecoveryInv(o)'
      BY <1>4, <1>5, <2>1 DEF RecoveryInv, BeforeReplay, Replaying, Replays
    <3>2. at' = "recovering" /\ o = OperatorFor(Now')
      BY <1>2, <1>3, <1>5, <2>1 DEF Continue
    <3> QED BY <3>1, <3>2 DEF CallInv
  <2>2. CASE label = "evaluate"
    <3>1. EvaluatorInv(o)'
      BY <1>2, <1>4, <1>5, <2>2 DEF EvaluatorInv, Working, Unsealed, Concluding
    <3>2. at' = "evaluating" /\ o = OperatorFor(Now')
      BY <1>2, <1>3, <1>5, <2>2 DEF Continue
    <3> QED BY <3>1, <3>2 DEF CallInv
  <2> QED BY <2>1, <2>2
<1>7. /\ ProgressInv'
      /\ progress' = [status |-> progress'.status, phase |-> progress'.phase,
                      rows |-> [c \in Cases |-> progress'.rows[c]]]
  <2>1. PICK next \in {"recovering", "evaluating"} :
            /\ Continue(next) /\ at \in {"generation", "evaluation"}
            /\ next = "evaluating" => at = "evaluation"
    BY <1>3
  <2> QED BY <1>1, <1>4, <2>1, ContinueKeeps DEF InCase, InEvaluation
<1> QED BY <1>1, <1>4, <1>6, <1>7, SameShapes, ControlKeeps DEF evaluation

\* The call is over; what it did not do halts the campaign.
LEMMA EndsKeeps ==
    ASSUME CampaignInv, GenerateEnds \/ RecoverEnds \/ EvaluateEnds \/ SkipGenerated
    PROVE  CampaignInv'
<1>1. /\ UNCHANGED <<attempts, transaction, results, answer, receipts, runs, evidence, bill,
                     reported>>
      /\ pc' = [p \in Processes |-> pc'[p]] /\ missing' = [p \in Processes |-> missing'[p]]
      /\ on' = [o \in Operators |-> on'[o]] /\ verdict' = [o \in Operators |-> verdict'[o]]
      /\ verified' = [o \in Operators |-> verified'[o]]
  <2>1. CASE Controls
    BY <2>1, ControlsUnchanged
  <2>2. ASSUME NEW o, Released(o, "idle"), UNCHANGED <<ledger, files, answer>>
        PROVE  /\ UNCHANGED <<attempts, transaction, results, answer, receipts, runs, evidence,
                              bill, reported>>
               /\ pc' = [p \in Processes |-> pc'[p]] /\ missing' = [p \in Processes |-> missing'[p]]
               /\ on' = [q \in Operators |-> on'[q]] /\ verdict' = [q \in Operators |-> verdict'[q]]
               /\ verified' = [q \in Operators |-> verified'[q]]
    BY <2>2, ReleasedShapes DEF ledger, files
  <2> QED BY <2>1, <2>2 DEF GenerateEnds, RecoverEnds, EvaluateEnds, SkipGenerated
<1>2. CASE Halt("none")
  BY <1>1, <1>2, HaltKeeps, ControlKeeps
<1>3. ASSUME NEW label \in {"generated", "evaluated"}, Continue(label),
             at \in {"generation", "generating", "recovering", "evaluating"},
             turn \in DOMAIN CaseList,
             label = "evaluated" => at = "evaluating" /\ attempts[Now].status = "finished",
             label = "generated" => attempts[Now].disposition # "none"
      PROVE  CampaignInv'
  <2>1. CallInv'
    BY <1>3 DEF CallInv, Continue
  <2>2. /\ ProgressInv'
        /\ progress' = [status |-> progress'.status, phase |-> progress'.phase,
                        rows |-> [c \in Cases |-> progress'.rows[c]]]
    BY <1>1, <1>3, ContinueKeeps DEF InEvaluation
  <2> QED BY <1>1, <2>1, <2>2, ControlKeeps
<1>4. at \in InCase => turn \in DOMAIN CaseList
  BY DEF CampaignInv, ProgressInv
<1>5. CASE GenerateEnds \/ RecoverEnds
  BY <1>2, <1>3, <1>4, <1>5 DEF GenerateEnds, RecoverEnds, InCase
<1>6. CASE EvaluateEnds
  BY <1>2, <1>3, <1>4, <1>6 DEF EvaluateEnds, Returned, InCase
<1>7. CASE SkipGenerated
  BY <1>3, <1>7 DEF SkipGenerated
<1> QED BY <1>5, <1>6, <1>7

LEMMA FreezeBarrierKeeps ==
    ASSUME CampaignInv, FreezeBarrier
    PROVE  CampaignInv'
<1>1. /\ UNCHANGED <<attempts, transaction, results, answer, pc, missing, on, verdict,
                     verified, receipts, runs, evidence, bill, reported>>
      /\ at = "generation"
  BY DEF FreezeBarrier, Freeze, vars, ledger, files, locals, evaluation
<1>2. CASE Continue("barrier")
  <2>1. CallInv'
    BY <1>2 DEF CallInv, Continue
  <2>2. /\ ProgressInv'
        /\ progress' = [status |-> progress'.status, phase |-> progress'.phase,
                        rows |-> [c \in Cases |-> progress'.rows[c]]]
    BY <1>1, <1>2, ContinueKeeps DEF InCase, InEvaluation
  <2> QED BY <1>1, <2>1, <2>2, SameShapes, ControlKeeps
<1>3. CASE Halt("none")
  BY <1>1, <1>3, HaltKeeps, SameShapes, ControlKeeps
<1> QED BY <1>2, <1>3 DEF FreezeBarrier

LEMMA TakeAuthoritiesKeeps ==
    ASSUME CampaignInv, TakeAuthorities
    PROVE  CampaignInv'
<1>1. Controls /\ at = "barrier"
  BY DEF TakeAuthorities
<1>2. UNCHANGED attempts
  BY <1>1, ControlsUnchanged
<1>3. /\ progress' = [k \in {"status", "phase", "rows"} |-> progress'[k]]
      /\ progress'.rows = progress.rows /\ progress'.status \in {progress.status, "halted"}
  BY ProgressFields DEF TakeAuthorities
<1>4. progress' = [status |-> progress'.status, phase |-> progress'.phase,
                   rows |-> [c \in Cases |-> progress'.rows[c]]]
  BY <1>3, ProgressFields, ProgressFrom
<1>5. /\ at' \in {"stopped", "evaluation"} /\ (at' = "evaluation" => turn' = 1)
      /\ at' = "stopped" => turn' = turn
  BY DEF TakeAuthorities
<1>6. /\ 1 \in 1 .. Cardinality(Cases) + 1
      /\ \A n \in DOMAIN CaseList : ~(n < 1)
  BY CampaignAssumption, FS_CardinalityType
<1>7. CallInv' /\ ProgressInv'
  BY <1>1, <1>2, <1>3, <1>5, <1>6 DEF CallInv, CampaignInv, ProgressInv, InCase, InEvaluation
<1> QED BY <1>1, <1>4, <1>7, ControlsUnchanged, ControlKeeps

\* The campaign is complete: the controller has seen the last case evaluated.
LEMMA CompleteKeeps ==
    ASSUME CampaignInv, Complete
    PROVE  CampaignInv'
<1>1. Controls /\ at = "evaluation" /\ turn \notin DOMAIN CaseList /\ at' = "stopped"
      /\ turn' = turn
  BY DEF Complete
<1>2. UNCHANGED attempts
  BY <1>1, ControlsUnchanged
<1>3. /\ progress' = [k \in {"status", "phase", "rows"} |-> progress'[k]]
      /\ progress'.rows = progress.rows
      /\ progress'.status = "complete" => ~AuditFails
  BY ProgressFields DEF Complete
<1>4. progress' = [status |-> progress'.status, phase |-> progress'.phase,
                   rows |-> [c \in Cases |-> progress'.rows[c]]]
  BY <1>3, ProgressFields, ProgressFrom
<1>5. ASSUME NEW c \in Cases PROVE progress.rows[c] = "evaluated"
  <2>1. PICK n \in DOMAIN CaseList : CaseList[n] = c
    BY CampaignAssumption
  <2>2. n < turn
    BY <1>1, CampaignAssumption, FS_CardinalityType DEF CampaignInv, ProgressInv
  <2> QED BY <1>1, <2>1, <2>2 DEF CampaignInv, ProgressInv, InEvaluation
<1>6. ASSUME NEW c \in Cases, ~AuditFails PROVE AllKnown(attempts[c])
  <2>1. attempts[c].status = "finished" /\ Sound(attempts[c], c)
    BY <1>5 DEF CampaignInv, ProgressInv
  <2>2. \A k \in Categories : attempts[c].costs[k] \in Amounts \ {"absent", "unknown"}
    BY <1>6, <2>1 DEF Sound, Recorded, AuditFails, Unaffordable
  <2> QED BY <2>2 DEF AllKnown, Known, Amounts
<1>7. CallInv'
  BY <1>1 DEF CallInv
<1>8. ProgressInv'
  BY <1>1, <1>2, <1>3, <1>5, <1>6 DEF CampaignInv, ProgressInv, InCase, InEvaluation
<1> QED BY <1>1, <1>4, <1>7, <1>8, ControlsUnchanged, ControlKeeps

LEMMA KillControllerKeeps ==
    ASSUME CampaignInv, KillController
    PROVE  CampaignInv'
<1>1. /\ UNCHANGED <<attempts, transaction, results, answer, turn, progress>>
      /\ at' = "stopped" /\ at # "stopped"
  BY DEF KillController, ledger, files
<1>2. /\ UNCHANGED <<receipts, runs, evidence, bill, reported>>
      /\ pc' = [p \in Processes |-> pc'[p]] /\ missing' = [p \in Processes |-> missing'[p]]
      /\ on' = [q \in Operators |-> on'[q]] /\ verdict' = [q \in Operators |-> verdict'[q]]
      /\ verified' = [q \in Operators |-> verified'[q]]
  <2>1. CASE at \in {"recovering", "evaluating"}
    BY <2>1, ReleasedShapes DEF KillController
  <2>2. CASE at = "generating"
    <3>1. /\ Goto(GeneratorFor(Now), "killed") /\ UNCHANGED <<on, verdict, evaluation>>
          /\ missing' = [missing EXCEPT ![GeneratorFor(Now)] = Nothing]
      BY <2>2 DEF KillController
    <3> QED BY <3>1 DEF Goto, evaluation, CampaignInv, Shapes
  <2>3. CASE at \notin {"recovering", "evaluating", "generating"}
    <3>1. UNCHANGED <<pc, on, verdict, missing, evaluation>>
      BY <2>3 DEF KillController
    <3> QED BY <3>1, SameShapes DEF evaluation
  <2> QED BY <2>1, <2>2, <2>3
<1>3. CallInv' /\ ProgressInv'
  BY <1>1 DEF CallInv, CampaignInv, ProgressInv, InCase, InEvaluation
<1> QED BY <1>1, <1>2, <1>3, ControlKeeps DEF CampaignInv, Shapes

\* What is not of the campaign is refused: in the controller, or in the call that it is in.
LEMMA RefusalKeeps ==
    ASSUME CampaignInv, OutsideIsRefused \/ CallIsRefused
    PROVE  CampaignInv'
<1>1. Halt("outside") /\ UNCHANGED <<attempts, transaction, results, answer>>
  BY DEF OutsideIsRefused, CallIsRefused, Controls, vars, ledger, files, locals
<1>2. /\ UNCHANGED <<receipts, runs, evidence, bill, reported>>
      /\ pc' = [p \in Processes |-> pc'[p]] /\ missing' = [p \in Processes |-> missing'[p]]
      /\ on' = [q \in Operators |-> on'[q]] /\ verdict' = [q \in Operators |-> verdict'[q]]
      /\ verified' = [q \in Operators |-> verified'[q]]
  BY ControlsUnchanged, ReleasedShapes DEF OutsideIsRefused, CallIsRefused
<1> QED BY <1>1, <1>2, HaltKeeps, ControlKeeps

\* A step that leaves the campaign alone, but for what is counted of it.
LEMMA NothingKeeps ==
    ASSUME CampaignInv, UNCHANGED <<ledger, files, pc, locals, controller, evaluation>>
    PROVE  CampaignInv'
<1>1. /\ UNCHANGED <<attempts, transaction, results, answer, receipts, runs, evidence, bill,
                     reported, pc, missing, on, verdict, verified, progress, at, turn>>
      /\ Now' = Now
  BY DEF controller, evaluation, ledger, files, locals, Now
<1>2. CallInv'
  <2>1. \A g : GeneratorInv(g) => GeneratorInv(g)'
    BY <1>1 DEF GeneratorInv, MissingInv
  <2>2. \A o : RecoveryInv(o) => RecoveryInv(o)'
    BY <1>1 DEF RecoveryInv, Kept
  <2>3. \A o : EvaluatorInv(o) => EvaluatorInv(o)'
    BY <1>1 DEF EvaluatorInv, MissingInv, Rests, Wrote
  <2> QED BY <1>1, <2>1, <2>2, <2>3 DEF CampaignInv, CallInv
<1>3. ProgressInv'
  BY <1>1 DEF CampaignInv, ProgressInv
<1> QED BY <1>1, <1>2, <1>3, SameShapes, ControlKeeps DEF CampaignInv, Shapes

LEMMA StepInv == CampaignInv /\ [CampaignNext]_campaignVars => CampaignInv'
<1> SUFFICES ASSUME CampaignInv, [CampaignNext]_campaignVars PROVE CampaignInv'
  OBVIOUS
<1>1. CASE UNCHANGED campaignVars
  BY <1>1, NothingKeeps DEF campaignVars, vars
<1>2. CASE CampaignNext
  BY <1>2, StartControllerKeeps, CallGenerateKeeps, GeneratingKeeps, EndsKeeps,
     CallRecoverKeeps, RecoveringKeeps, MarkKeeps, FreezeBarrierKeeps, TakeAuthoritiesKeeps,
     EvaluatingKeeps, CompleteKeeps, KillControllerKeeps, RefusalKeeps
  DEF CampaignNext
<1> QED BY <1>1, <1>2

LEMMA InvariantHolds == CampaignSpec => []CampaignInv
<1>1. CampaignInit => CampaignInv
  BY InitInv
<1>2. CampaignInv /\ [CampaignNext]_campaignVars => CampaignInv'
  BY StepInv
<1> QED BY <1>1, <1>2, PTL DEF CampaignSpec

-----------------------------------------------------------------------------
(* What it establishes *)

\* What _mark_case and _write_progress put into the progress file stays true through
\* every kill, halt and later run of the controller: a frozen generation has its
\* disposition, an evaluated case is finished with both of its results on file, and a
\* complete campaign has nothing else and knows every cost.
THEOREM ProgressStaysTrue == CampaignSpec => []ProgressIsTrue
<1>1. CampaignInv => ProgressIsTrue
  <2> SUFFICES ASSUME CampaignInv, NEW c \in Cases
               PROVE  LET a == attempts[c]
                          row == progress.rows[c] IN
                      /\ row # "pending" => a.disposition # "none"
                      /\ row = "evaluated" => a.status = "finished" /\ Whole(a.id, a.outcome)
                      /\ progress.status = "complete" => row = "evaluated" /\ AllKnown(a)
    BY DEF ProgressIsTrue
  <2>1. FinishedInv(c) /\ ProgressInv
    BY DEF CampaignInv
  <2> QED BY <2>1 DEF FinishedInv, ProgressInv
<1> QED BY <1>1, InvariantHolds, PTL

\* However often an evaluation was interrupted and continued from the receipt that it
\* left: what evaluate_v02_exact_frozen_case reports in the end, in both results, is the
\* receipt on file, of one run that came to write it, and the finished phase and the
\* sandbox cost rest on the same run.
THEOREM SealedResultsAgree == CampaignSpec => []SealedResultAgrees
<1>1. CampaignInv => SealedResultAgrees
  <2> SUFFICES ASSUME CampaignInv, NEW c \in Cases, attempts[c].status = "finished",
                      attempts[c].outcome = "verdict"
               PROVE  LET g == attempts[c].id
                          run == receipts[g] IN
                      /\ run \in 1 .. runs[g]
                      /\ reported[g] = [private |-> run, public |-> run]
                      /\ evidence[g].current = run /\ bill[g] = evidence[g]
    BY DEF SealedResultAgrees
  <2> DEFINE g == attempts[c].id
  <2>1. g \in Generators
    BY DEF CampaignInv, Sound
  <2>2. Rests(g) /\ \A file \in Files : reported[g][file] = receipts[g]
    BY DEF CampaignInv, FinishedInv
  <2>3. reported[g] = [file \in Files |-> reported[g][file]]
    BY <2>1 DEF CampaignInv, Shapes
  <2>4. reported[g] = [private |-> receipts[g], public |-> receipts[g]]
    BY <2>2, <2>3 DEF Files
  <2> QED BY <2>2, <2>4 DEF Rests
<1> QED BY <1>1, InvariantHolds, PTL

\* The steps that write a receipt are steps of an evaluation that has not finished the
\* phase of its attempt, and they touch the receipt of that attempt only.
LEMMA ReceiptIsOwn ==
    ASSUME CampaignInv, NEW o, NEW g, NEW c, Waits(o, g, c), ExactEvaluation(o),
           "differential" \in attempts[c].ended
    PROVE  receipts' = receipts
<1>1. Here(o, g, c)
  BY IsHere
<1>2. pc[o] \notin {"differential", "receipt", "replace"}
  BY <1>1 DEF Here, EvaluatorInv
<1> QED BY <1>2
        DEF ExactEvaluation, StartExact, TakeExactCapability, StartExactDifferential,
            FailForNetwork, ReadReceipt, RunExact, VerifyReceipt, ReplaceReceipt,
            EndExactDifferential, RecordExactSandbox, Seal, WriteExactResult,
            EndExactResults, LeaveOrCrash, evaluation

LEMMA ReceiptsOfOthers ==
    ASSUME CampaignInv, NEW o, NEW g, NEW c, Waits(o, g, c), ExactEvaluation(o),
           NEW h \in Generators, h # g
    PROVE  receipts'[h] = receipts[h]
<1>1. Here(o, g, c) /\ receipts = [i \in Generators |-> receipts[i]]
  BY IsHere DEF CampaignInv, Shapes
<1>2. receipts' = receipts \/ \E receipt : receipts' = [receipts EXCEPT ![on[o]] = receipt]
  BY DEF ExactEvaluation, StartExact, TakeExactCapability, StartExactDifferential,
         FailForNetwork, ReadReceipt, RunExact, VerifyReceipt, ReplaceReceipt,
         EndExactDifferential, RecordExactSandbox, Seal, WriteExactResult,
         EndExactResults, LeaveOrCrash, evaluation
<1> QED BY <1>1, <1>2 DEF Here

\* The receipt that a finished differential phase rests on is never replaced, neither by
\* the evaluation that finished it nor by one that finds it after a kill.
THEOREM SealedReceiptsStay == CampaignSpec => SealedReceiptStays
<1> DEFINE Stays == \A g \in Generators :
                        "differential" \in Of(g).ended => receipts'[g] = receipts[g]
<1>1. CampaignInv /\ [CampaignNext]_campaignVars => [Stays]_campaignVars
  <2> SUFFICES ASSUME CampaignInv, CampaignNext, NEW h \in Generators,
                      "differential" \in Of(h).ended
               PROVE  receipts'[h] = receipts[h]
    OBVIOUS
  <2>1. CASE Evaluating
    <3>1. PICK o \in Operators, g \in Generators, c \in Cases :
              Waits(o, g, c) /\ ExactEvaluation(o)
      BY <2>1, WaitsForOne
    <3>2. CASE h = g
      BY <3>1, <3>2, ReceiptIsOwn, AttemptOf
    <3>3. CASE h # g
      BY <3>1, <3>3, ReceiptsOfOthers
    <3> QED BY <3>2, <3>3
  <2>2. CASE ~Evaluating
    <3>1. receipts' = receipts
      BY <2>2
      DEF CampaignNext, StartController, Preflight, CallGenerate, Generating, GenerateEnds,
          CallRecover, Recovering, RecoverEnds, SkipGenerated, MarkGenerated, FreezeBarrier,
          TakeAuthorities, CallEvaluate, EvaluateEnds, MarkEvaluated, Complete,
          OutsideIsRefused, CallIsRefused, KillController, Controls, Mark, Released,
          evaluation
    <3> QED BY <3>1
  <2> QED BY <2>1, <2>2
<1> QED BY <1>1, InvariantHolds, PTL DEF CampaignSpec, SealedReceiptStays

-----------------------------------------------------------------------------
(* Why a campaign halts *)

\* What an attempt is like in every state of the ledger.
Regular(a) ==
    /\ a.began \subseteq Phases /\ a.phase \in Phases \cup {"none"}
    /\ a.candidate \in BOOLEAN /\ a.recovered \in BOOLEAN
    /\ a.phase \notin a.ended
    /\ \A phase \in a.began \ a.ended : a.phase = phase
    /\ a.costs["preparation"] \in {"absent", "measured"} /\ a.costs["artifact"] # "unknown"
    /\ Unmatched(a) => a.costs["model"] \in {"absent", "unknown"}
    /\ "differential" \in a.began => a.disposition = "candidate_submitted"
    /\ "result_write" \in a.began => a.disposition # "none"
    /\ a.disposition = "none" => Recorded(a) \subseteq BeforeBarrier
    /\ a.disposition # "none" =>
           /\ "generation" \in a.ended /\ BeforeBarrier \subseteq Recorded(a)
           /\ Known(a, "model") /\ (a.candidate <=> a.disposition = "candidate_submitted")

\* What a generation or a recovery that was cut short leaves to the next one.
Left(a) ==
    LET usage == transaction[a.id] IN
    a.disposition = "none" /\ Kept(a.id) =>
        /\ consumed[CaseOf[a.id]] = a.id
        /\ a.call = "started" \/ (a.call = "succeeded" /\ a.usage = usage)
        /\ a.costs["model"] \in {"absent", "unknown", usage}
        /\ a.costs["preparation"] # "absent"
        /\ "generation" \in a.began

\* An attempt that waits for the barrier.
Waiting(a) == /\ Open(a) /\ Recorded(a) = BeforeBarrier
              /\ a.began \cap {"differential", "result_write"} = {}

\* What the code makes of an attempt, whatever process runs and wherever it stops.
Lawful(a) == /\ Regular(a)
             /\ a.status # "absent" => Left(a) /\ (a.candidate => Kept(a.id))

Disposed(c) == attempts[c].disposition # "none"

AttemptInv(c) ==
    /\ Lawful(attempts[c])
    /\ Disposed(c) /\ ~barrier => Waiting(attempts[c])
    /\ barrier => Disposed(c)

\* A file is of an attempt that is there, and an evaluation began before its receipt.
OwnInv(g) == /\ Kept(g) \/ held[g] => Of(g) # NoAttempt
             /\ receipts[g] # NoFile => "differential" \in Of(g).began

InGeneration == {"generation", "generating", "recovering", "generated"}

OrderInv ==
    /\ \A m, n \in DOMAIN CaseList :
           m < n /\ ~Fresh(CaseList[n]) => Disposed(CaseList[m])
    /\ at \in InGeneration =>
           \A n \in DOMAIN CaseList : n < turn => Disposed(CaseList[n])

SomeBlocked == \E c \in Cases : Blocked(c)

\* Only what was prepared is recorded.
Unbilled(a) == Recorded(a) = {"preparation"}
Failing == {"fail", "close", "ensure", "fill", "dispose"}

\* The attempt of the called generation g at each of its labels.
TrackInv(g) ==
    LET a == attempts[CaseOf[g]]
        late == g \in expired
        candidate == answer[g].kind = "candidate" IN
    /\ ~barrier
    /\ pc[g] = "idle" => Fresh(CaseOf[g])
    /\ pc[g] = "done" => Disposed(CaseOf[g]) \/ SomeBlocked
    /\ pc[g] \notin {"idle", "done", "killed"} => a.id = g /\ Open(a) /\ ~Disposed(CaseOf[g])
    /\ pc[g] = "prepare" => a = StartAttempt(g) /\ ~Kept(g)
    /\ pc[g] = "start_phase" => a.began = {}
    /\ pc[g] \in {"consume", "start_call", "provider", "persist", "submit", "finish_call",
                  "model_cost", "end_phase"} => a.phase = "generation"
    /\ pc[g] \in {"start_phase", "consume", "start_call"} => a.call = "none"
    /\ pc[g] \in {"start_call", "provider", "persist"} => consumed[CaseOf[g]] = g
    /\ pc[g] \in {"provider", "persist", "submit", "finish_call"} => a.call = "started"
    /\ pc[g] \in {"start_phase", "consume", "start_call", "provider", "persist"} => ~Kept(g)
    /\ pc[g] \in {"start_phase", "consume", "start_call", "provider", "persist", "submit"} =>
           ~a.candidate
    /\ pc[g] \in {"start_phase", "consume", "start_call", "provider", "persist", "submit",
                  "finish_call", "model_cost"} => Unbilled(a)
    /\ pc[g] \in {"persist", "submit"} => candidate
    /\ pc[g] \in {"submit", "finish_call", "model_cost"} =>
           (candidate => Kept(g) /\ transaction[g] = answer[g].usage)
    /\ pc[g] \in {"finish_call", "model_cost"} => (a.candidate <=> candidate)
                                                  /\ (candidate <=> Kept(g))
    /\ pc[g] = "model_cost" => a.call = CallStatus(g) /\ a.usage = answer[g].usage
    /\ pc[g] \in {"end_phase", "check", "artifact", "artifact_cost"} =>
           /\ a.candidate /\ a.call = "succeeded"
           /\ Recorded(a) = {"preparation", "model"}
    /\ pc[g] \in {"check", "artifact", "artifact_cost"} =>
           a.phase = "none" /\ "generation" \in a.ended
    /\ pc[g] \in {"artifact", "artifact_cost"} => held[g]
    /\ pc[g] \notin {"artifact", "artifact_cost", "crash", "done", "killed"} \cup Failing => ~held[g]
    /\ pc[g] \in Failing =>
           /\ "preparation" \in Recorded(a) /\ a.began \subseteq {"generation"}
           /\ Kept(g) => Called(a)
           /\ late \/ ("generation" \in a.began /\ (a.candidate <=> held[g]))
    /\ pc[g] = "close" => a.phase = "generation"
    /\ pc[g] \in {"ensure", "fill", "dispose"} => a.phase = "none"
    /\ pc[g] = "fill" =>
           /\ DOMAIN missing[g] = {"model", "artifact"} \ Recorded(a)
           /\ DOMAIN missing[g] # {}
           /\ \A k \in DOMAIN missing[g] :
                  missing[g][k] = IF k = "model" THEN ModelCost(a) ELSE "zero"
    /\ pc[g] = "dispose" => Recorded(a) = BeforeBarrier

\* The attempt of the called recovery o.
ReplayInv(o) ==
    LET a == attempts[CaseFor[o]] IN
    /\ ~barrier /\ a.id = on[o] /\ a.status \in {"open", "crashed"}
    /\ pc[o] \in {"recover", "crash_recovery"} \cup Replaying => ~Disposed(CaseFor[o])
    /\ pc[o] \in Replaying => Open(a) /\ a.recovered
    /\ pc[o] = "crash_recovery" => (Open(a) /\ a.recovered) \/ Blocked(CaseFor[o])
    /\ pc[o] = "done" => Disposed(CaseFor[o]) \/ Blocked(CaseFor[o])

\* The attempt of the called evaluation o.
SealInv(o) ==
    LET a == attempts[CaseFor[o]] IN
    /\ barrier
    /\ pc[o] \in {"evaluate", "capability", "start_differential", "network", "prior",
                  "differential", "receipt", "replace", "keep"} => ~kept[o]
    /\ pc[o] \in {"network", "differential", "receipt", "replace"} => a.phase = "differential"
    /\ pc[o] = "keep" => a.phase = "differential" \/ "differential" \in a.ended
    /\ pc[o] = "fill_costs" =>
           /\ DOMAIN missing[o] = Categories \ Recorded(a) /\ DOMAIN missing[o] # {}
           /\ \A k \in DOMAIN missing[o] : missing[o][k] \in {"zero"} \cup Measures
    /\ pc[o] = "start_results" => Recorded(a) = Categories
    /\ pc[o] \in {"private", "public", "end_results", "finish"} => "result_write" \in a.began
    /\ pc[o] = "crash_evaluation" => ~kept[o] \/ Blocked(CaseFor[o])
    /\ pc[o] = "done" => a.status = "finished" \/ Blocked(CaseFor[o])

WorkInv ==
    /\ at = "generating" => TrackInv(GeneratorFor(Now))
    /\ at = "recovering" => ReplayInv(OperatorFor(Now))
    /\ at = "evaluating" => SealInv(OperatorFor(Now))
    /\ at \in InEvaluation \cup {"barrier"} => barrier
    /\ \A o \in Operators : kept[o] => at = "evaluating" /\ o = OperatorFor(Now)

HaltInv ==
    /\ held = [g \in Generators |-> held[g]] /\ consumed = [c \in Cases |-> consumed[c]]
    /\ kept = [o \in Operators |-> kept[o]]
    /\ \A c \in Cases : AttemptInv(c)
    /\ \A g \in Generators : OwnInv(g)
    /\ OrderInv /\ WorkInv
    /\ progress.status = "halted" =>
           at \in {"stopped", "preflight"} /\ (why = "none" => SomeBlocked)

-----------------------------------------------------------------------------
(* Each event makes a lawful attempt of a lawful one *)

\* What an event that is not a cost, a call or a candidate leaves of what was spent.
SameSpend(a, b) == /\ b.id = a.id /\ b.call = a.call /\ b.usage = a.usage
                   /\ b.candidate = a.candidate /\ b.costs = a.costs

LEMMA StartFields ==
    ASSUME NEW c, NEW a, Sound(a, c), NEW phase
    PROVE  LET b == StartPhase(a, phase) IN
           /\ SameSpend(a, b) /\ b.status = a.status /\ b.disposition = a.disposition
           /\ b.recovered = a.recovered /\ b.ended = a.ended
           /\ b.phase = phase /\ b.began = a.began \cup {phase}
BY DEF SameSpend, StartPhase, Sound, NoAttempt

LEMMA EndFields ==
    ASSUME NEW c, NEW a, Sound(a, c), NEW status
    PROVE  LET b == FinishPhase(a, status) IN
           /\ SameSpend(a, b) /\ b.status = a.status /\ b.disposition = a.disposition
           /\ b.recovered = a.recovered /\ b.began = a.began
           /\ b.phase = "none" /\ b.ended = a.ended \cup {a.phase}
BY DEF SameSpend, FinishPhase, Sound, NoAttempt

\* What an event of the call, of its candidate or a cost leaves alone.
SamePhases(a, b) ==
    /\ b.id = a.id /\ b.status = a.status /\ b.phase = a.phase /\ b.began = a.began
    /\ b.ended = a.ended /\ b.disposition = a.disposition /\ b.recovered = a.recovered

LEMMA CallFields ==
    ASSUME NEW c, NEW a, Sound(a, c)
    PROVE  /\ LET b == StartCall(a) IN
              /\ SamePhases(a, b) /\ b.costs = a.costs /\ b.candidate = a.candidate
              /\ b.call = "started" /\ b.usage = a.usage
           /\ LET b == Submit(a) IN
              /\ SamePhases(a, b) /\ b.costs = a.costs /\ b.candidate = TRUE
              /\ b.call = a.call /\ b.usage = a.usage
BY DEF SamePhases, StartCall, Submit, Sound, NoAttempt

LEMMA EndCallFields ==
    ASSUME NEW c, NEW a, Sound(a, c), NEW status, NEW usage
    PROVE  LET b == FinishCall(a, status, usage) IN
           /\ SamePhases(a, b) /\ b.costs = a.costs /\ b.candidate = a.candidate
           /\ b.call = status /\ b.usage = usage
BY DEF SamePhases, FinishCall, Sound, NoAttempt

LEMMA CostFields ==
    ASSUME NEW c, NEW a, Sound(a, c), NEW k \in Categories, NEW amount \in Amounts \ {"absent"}
    PROVE  LET b == RecordCost(a, k, amount) IN
           /\ SamePhases(a, b) /\ b.call = a.call /\ b.usage = a.usage
           /\ b.candidate = a.candidate
           /\ b.costs[k] = amount /\ \A j \in Categories \ {k} : b.costs[j] = a.costs[j]
           /\ Recorded(b) = Recorded(a) \cup {k}
<1> DEFINE b == RecordCost(a, k, amount)
<1>1. /\ SamePhases(a, b) /\ b.call = a.call /\ b.usage = a.usage /\ b.candidate = a.candidate
      /\ b.costs = [a.costs EXCEPT ![k] = amount]
  BY DEF SamePhases, RecordCost, Sound, NoAttempt
<1>2. b.costs[k] = amount /\ \A j \in Categories \ {k} : b.costs[j] = a.costs[j]
  BY <1>1 DEF Sound
<1> HIDE DEF b
<1>3. Recorded(b) = Recorded(a) \cup {k}
  BY <1>2 DEF Recorded
<1> QED BY <1>1, <1>2, <1>3 DEF b

\* What an event that begins or ends no phase leaves of them.
SameCourse(a, b) == b.phase = a.phase /\ b.began = a.began /\ b.ended = a.ended

LEMMA DisposeFields ==
    ASSUME NEW c, NEW a, Sound(a, c), NEW status
    PROVE  LET b == Dispose(a, status) IN
           /\ SameSpend(a, b) /\ SameCourse(a, b) /\ b.status = a.status
           /\ b.recovered = a.recovered /\ b.disposition = status
BY DEF SameSpend, SameCourse, Dispose, Sound, NoAttempt

LEMMA CrashFields ==
    ASSUME NEW c, NEW a, Sound(a, c)
    PROVE  LET b == Crash(a) IN
           /\ SameSpend(a, b) /\ SameCourse(a, b) /\ b.status = "crashed"
           /\ b.recovered = a.recovered /\ b.disposition = a.disposition
BY DEF SameSpend, SameCourse, Crash, Sound, NoAttempt

LEMMA RecoverFields ==
    ASSUME NEW c, NEW a, Sound(a, c)
    PROVE  LET b == Recover(a) IN
           /\ SameSpend(a, b) /\ SameCourse(a, b) /\ b.status = "open"
           /\ b.recovered = TRUE /\ b.disposition = a.disposition
BY DEF SameSpend, SameCourse, Recover, Sound, NoAttempt

LEMMA FinishFields ==
    ASSUME NEW c, NEW a, Sound(a, c), NEW outcome
    PROVE  LET b == FinishAttempt(a, outcome) IN
           /\ SameSpend(a, b) /\ SameCourse(a, b) /\ b.status = "finished"
           /\ b.recovered = a.recovered /\ b.disposition = a.disposition
BY DEF SameSpend, SameCourse, FinishAttempt, Sound, NoAttempt

LEMMA StartIsLawful ==
    ASSUME NEW c, NEW a, Sound(a, c), Lawful(a), NEW phase \in Phases, MayStartPhase(a, phase),
           phase # "generation" => a.disposition # "none"
    PROVE  Lawful(StartPhase(a, phase))
<1> DEFINE b == StartPhase(a, phase)
<1>1. /\ SameSpend(a, b) /\ b.status = a.status /\ b.disposition = a.disposition
      /\ b.recovered = a.recovered /\ b.ended = a.ended
      /\ b.phase = phase /\ b.began = a.began \cup {phase}
  BY StartFields
<1> HIDE DEF b
<1>2. Regular(b)
  BY <1>1 DEF Lawful, Regular, SameSpend, MayStartPhase, Phases, Sound, Recorded, Unmatched, Known
<1>3. b.status # "absent" => Left(b) /\ (b.candidate => Kept(b.id))
  BY <1>1 DEF Lawful, Left, SameSpend
<1> QED BY <1>2, <1>3 DEF Lawful, b

LEMMA EndIsLawful ==
    ASSUME NEW c, NEW a, Sound(a, c), Lawful(a), NEW phase \in Phases, NEW status,
           MayFinishPhase(a, phase, status)
    PROVE  Lawful(FinishPhase(a, status))
<1> DEFINE b == FinishPhase(a, status)
<1>1. /\ SameSpend(a, b) /\ b.status = a.status /\ b.disposition = a.disposition
      /\ b.recovered = a.recovered /\ b.began = a.began
      /\ b.phase = "none" /\ b.ended = a.ended \cup {a.phase}
  BY EndFields
<1> HIDE DEF b
<1>2. Regular(b)
  BY <1>1 DEF Lawful, Regular, SameSpend, MayFinishPhase, Phases, Sound, Recorded, Unmatched, Known
<1>3. b.status # "absent" => Left(b) /\ (b.candidate => Kept(b.id))
  BY <1>1 DEF Lawful, Left, SameSpend
<1> QED BY <1>2, <1>3 DEF Lawful, b

\* A call begins where no transaction is, and with a candidate it ends as that says.
LEMMA CallIsLawful ==
    ASSUME NEW c, NEW a, Sound(a, c), Lawful(a)
    PROVE  /\ MayStartCall(a) /\ a.costs["model"] = "absent" => Lawful(StartCall(a))
           /\ \A status \in {"succeeded", "failed"} : \A usage :
                  /\ MayFinishCall(a, status)
                  /\ Kept(a.id) => status = "succeeded" /\ usage = transaction[a.id]
                  => Lawful(FinishCall(a, status, usage))
           /\ MaySubmit(a) /\ Kept(a.id) => Lawful(Submit(a))
<1>1. Regular(a) /\ (a.status = "open" => Left(a) /\ (a.candidate => Kept(a.id)))
  BY DEF Lawful
<1>2. a.phase = "generation" => a.disposition = "none"
  BY <1>1 DEF Regular
<1>3. ASSUME MayStartCall(a), a.costs["model"] = "absent" PROVE Lawful(StartCall(a))
  <2> DEFINE b == StartCall(a)
  <2>1. /\ SamePhases(a, b) /\ b.costs = a.costs /\ b.candidate = a.candidate
        /\ b.call = "started" /\ b.usage = a.usage
    BY CallFields
  <2>2. a.disposition = "none" /\ a.status = "open" /\ ~Kept(a.id)
    BY <1>1, <1>2, <1>3 DEF MayStartCall, Open, Left
  <2> HIDE DEF b
  <2> QED BY <1>1, <1>3, <2>1, <2>2
          DEF Lawful, Regular, Left, SamePhases, Recorded, Unmatched, Known, b
<1>4. ASSUME NEW status \in {"succeeded", "failed"}, NEW usage, MayFinishCall(a, status),
             Kept(a.id) => status = "succeeded" /\ usage = transaction[a.id]
      PROVE  Lawful(FinishCall(a, status, usage))
  <2> DEFINE b == FinishCall(a, status, usage)
  <2>1. /\ SamePhases(a, b) /\ b.costs = a.costs /\ b.candidate = a.candidate
        /\ b.call = status /\ b.usage = usage
    BY EndCallFields
  <2>2. a.disposition = "none" /\ a.status = "open"
    BY <1>2, <1>4 DEF MayFinishCall, Open
  <2> HIDE DEF b
  <2> QED BY <1>1, <1>4, <2>1, <2>2
          DEF Lawful, Regular, Left, SamePhases, Recorded, Unmatched, Known, b
<1>5. ASSUME MaySubmit(a), Kept(a.id) PROVE Lawful(Submit(a))
  <2> DEFINE b == Submit(a)
  <2>1. /\ SamePhases(a, b) /\ b.costs = a.costs /\ b.candidate = TRUE
        /\ b.call = a.call /\ b.usage = a.usage
    BY CallFields
  <2>2. a.disposition = "none" /\ a.status = "open"
    BY <1>2, <1>5 DEF MaySubmit, Open
  <2> HIDE DEF b
  <2> QED BY <1>1, <1>5, <2>1, <2>2
          DEF Lawful, Regular, Left, SamePhases, Recorded, Unmatched, Known, b
<1> QED BY <1>3, <1>4, <1>5

LEMMA CostIsLawful ==
    ASSUME NEW c, NEW a, Sound(a, c), Lawful(a), NEW k \in Categories,
           NEW amount \in Amounts \ {"absent"}, MayRecordCost(a, k, amount),
           k = "preparation" => amount = "measured", k = "artifact" => amount # "unknown",
           k \in {"sandbox", "storage"} => a.disposition # "none",
           k = "model" /\ Kept(a.id) => amount \in {"unknown", transaction[a.id]}
    PROVE  Lawful(RecordCost(a, k, amount))
<1> DEFINE b == RecordCost(a, k, amount)
<1>1. /\ SamePhases(a, b) /\ b.call = a.call /\ b.usage = a.usage /\ b.candidate = a.candidate
      /\ b.costs[k] = amount /\ \A j \in Categories \ {k} : b.costs[j] = a.costs[j]
      /\ Recorded(b) = Recorded(a) \cup {k}
  BY CostFields
<1>2. /\ Regular(a) /\ a.status = "open" /\ Left(a) /\ (a.candidate => Kept(a.id))
      /\ a.costs[k] = "absent" /\ k \notin Recorded(a)
  BY DEF Lawful, MayRecordCost, Open, Recorded
<1>3. {"preparation", "model", "artifact"} = BeforeBarrier /\ BeforeBarrier \subseteq Categories
      /\ Categories = BeforeBarrier \cup {"sandbox", "storage"}
  BY DEF Categories, BeforeBarrier
<1>4. a.disposition # "none" => k \in {"sandbox", "storage"}
  BY <1>2, <1>3 DEF Regular
<1>5. Unmatched(b) => b.costs["model"] \in {"absent", "unknown"}
  BY <1>1, <1>2, <1>3 DEF Regular, Unmatched, MayRecordCost, Called
<1> HIDE DEF b
<1>6. Regular(b)
  <2>1. /\ b.costs["preparation"] \in {"absent", "measured"} /\ b.costs["artifact"] # "unknown"
    BY <1>1, <1>2, <1>3 DEF Regular
  <2>2. b.disposition = "none" => Recorded(b) \subseteq BeforeBarrier
    BY <1>1, <1>2, <1>3 DEF Regular, SamePhases
  <2>3. b.disposition # "none" => BeforeBarrier \subseteq Recorded(b) /\ Known(b, "model")
    BY <1>1, <1>2, <1>3, <1>4 DEF Regular, SamePhases, Known
  <2> QED BY <1>1, <1>2, <1>5, <2>1, <2>2, <2>3 DEF Regular, SamePhases
<1>7. Left(b) /\ (b.candidate => Kept(b.id))
  BY <1>1, <1>2, <1>3 DEF Left, SamePhases
<1> QED BY <1>6, <1>7 DEF Lawful, b

LEMMA LastIsLawful ==
    ASSUME NEW c, NEW a, Sound(a, c), Lawful(a)
    PROVE  /\ \A status \in Dispositions : MayDispose(a, status) => Lawful(Dispose(a, status))
           /\ MayCrash(a) => Lawful(Crash(a))
           /\ MayRecover(a) => Lawful(Recover(a))
           /\ \A outcome : MayFinishAttempt(a) => Lawful(FinishAttempt(a, outcome))
<1>1. ASSUME NEW status \in Dispositions, MayDispose(a, status) PROVE Lawful(Dispose(a, status))
  <2> DEFINE b == Dispose(a, status)
  <2>1. /\ SameSpend(a, b) /\ SameCourse(a, b) /\ b.status = a.status
        /\ b.recovered = a.recovered /\ b.disposition = status
    BY DisposeFields
  <2> HIDE DEF b
  <2>2. Regular(b)
    BY <1>1, <2>1 DEF Lawful, Regular, SameSpend, SameCourse, MayDispose, Recorded, Unmatched,
                      Known, Dispositions
  <2> QED BY <1>1, <2>1, <2>2 DEF Lawful, Left, SameSpend, Dispositions, b
<1>2. ASSUME NEW b, SameSpend(a, b), SameCourse(a, b), b.recovered \in BOOLEAN,
             b.disposition = a.disposition, a.status # "absent"
      PROVE  Lawful(b)
  <2>1. Regular(b)
    BY <1>2 DEF Lawful, Regular, SameSpend, SameCourse, Recorded, Unmatched, Known
  <2>2. Left(b) /\ (b.candidate => Kept(b.id))
    BY <1>2 DEF Lawful, Left, SameSpend, SameCourse
  <2> QED BY <2>1, <2>2 DEF Lawful
<1>3. a.recovered \in BOOLEAN
  BY DEF Lawful, Regular
<1>4. MayCrash(a) => Lawful(Crash(a))
  <2> DEFINE b == Crash(a)
  <2>1. /\ SameSpend(a, b) /\ SameCourse(a, b) /\ b.recovered \in BOOLEAN
        /\ b.disposition = a.disposition
    BY <1>3, CrashFields
  <2> HIDE DEF b
  <2> QED BY <1>2, <2>1 DEF MayCrash, Open, b
<1>5. MayRecover(a) => Lawful(Recover(a))
  <2> DEFINE b == Recover(a)
  <2>1. /\ SameSpend(a, b) /\ SameCourse(a, b) /\ b.recovered \in BOOLEAN
        /\ b.disposition = a.disposition
    BY RecoverFields
  <2> HIDE DEF b
  <2> QED BY <1>2, <2>1 DEF MayRecover, b
<1>6. ASSUME NEW outcome, MayFinishAttempt(a) PROVE Lawful(FinishAttempt(a, outcome))
  <2> DEFINE b == FinishAttempt(a, outcome)
  <2>1. /\ SameSpend(a, b) /\ SameCourse(a, b) /\ b.recovered \in BOOLEAN
        /\ b.disposition = a.disposition
    BY <1>3, FinishFields
  <2> HIDE DEF b
  <2> QED BY <1>2, <1>6, <2>1 DEF MayFinishAttempt, Open, b
<1> QED BY <1>1, <1>4, <1>5, <1>6

LEMMA NoAttemptIsLawful ==
    /\ Lawful(NoAttempt)
    /\ \A g \in Generators : ~Kept(g) => Lawful(StartAttempt(g))
<1> USE DEF Lawful, Regular, Left, NoAttempt, StartAttempt, Recorded, Unmatched, Known,
            Categories, BeforeBarrier
<1>1. Lawful(NoAttempt)
  OBVIOUS
<1>2. ASSUME NEW g \in Generators, ~Kept(g) PROVE Lawful(StartAttempt(g))
  BY <1>2
<1> QED BY <1>1, <1>2

-----------------------------------------------------------------------------
(* A step of the called process is one of the attempt of its case *)

LEMMA CaseListIsInjective ==
    \A m, n \in DOMAIN CaseList : CaseList[m] = CaseList[n] => m = n
<1> DEFINE S == 1 .. Cardinality(Cases)
<1>1. Cardinality(Cases) \in Nat
  BY CampaignAssumption, FS_CardinalityType
<1>2. CaseList \in Surjection(S, Cases)
  BY CampaignAssumption DEF Surjection
<1>3. IsFiniteSet(S) /\ Cardinality(S) = Cardinality(Cases) /\ CaseList \in [S -> Cases]
  BY <1>1, FS_Interval, CampaignAssumption
<1> HIDE DEF S
<1>4. CaseList \in Injection(S, Cases)
  BY <1>2, <1>3, FS_SurjSameCardinalityImpliesInj
<1> QED BY <1>3, <1>4 DEF Injection, IsInjective

\* The reservation of one case fits below the cap, whichever others are reserved.
LEMMA ReservationFits ==
    ASSUME NEW c \in Cases, NEW S, S \subseteq Cases \ {c}
    PROVE  Cardinality(S) + 1 <= Cap
<1>1. IsFiniteSet(Cases)
  BY CampaignAssumption
<1>2. /\ IsFiniteSet(Cases \ {c}) /\ Cardinality(Cases \ {c}) = Cardinality(Cases) - 1
      /\ Cardinality(Cases) \in Nat
  BY <1>1, FS_RemoveElement, FS_CardinalityType
<1>3. Cardinality(S) <= Cardinality(Cases \ {c}) /\ Cardinality(S) \in Nat
  BY <1>2, FS_Subset, FS_CardinalityType
<1> QED BY <1>2, <1>3, ReserveAssumption, RunnerAssumption

\* What a step of the called process leaves of everything but attempt g of case c.
CallStep(c, g) ==
    /\ Extends(attempts[c], attempts'[c]) /\ attempts[c].began \subseteq attempts'[c].began
    /\ \A d \in Cases \ {c} : attempts'[d] = attempts[d]
    /\ UNCHANGED <<barrier, controller>>
    /\ consumed' = [d \in Cases |-> consumed'[d]]
    /\ held' = [h \in Generators |-> held'[h]]
    /\ \A d \in Cases \ {c} : consumed'[d] = consumed[d]
    /\ \A h \in Generators \ {g} :
           /\ transaction'[h] = transaction[h] /\ held'[h] = held[h]
           /\ receipts'[h] = receipts[h]

LEMMA AdvancesOne ==
    ASSUME CampaignInv, NEW c \in Cases, Advances(c)
    PROVE  /\ Extends(attempts[c], attempts'[c])
           /\ \A d \in Cases \ {c} : attempts'[d] = attempts[d]
<1>1. Extends(attempts[c], attempts'[c])
  BY AdvancesKeeps
<1>2. \A d \in Cases \ {c} : attempts'[d] = attempts[d]
  BY DEF Advances, CampaignInv, Shapes
<1> QED BY <1>1, <1>2

LEMMA CallKeeps ==
    ASSUME CampaignInv, HaltInv, NEW c \in Cases, NEW g \in Generators, c = Now,
           CaseOf[g] = c, turn \in DOMAIN CaseList, CallStep(c, g),
           \/ at \in {"recovering", "evaluating"} /\ ~Fresh(c)
           \/ at = "generating",
           AttemptInv(c)', OwnInv(g)', WorkInv',
           kept' = [o \in Operators |-> kept'[o]]
    PROVE  HaltInv'
<1>1. /\ \A d \in Cases : /\ Sound(attempts[d], d)
                          /\ Extends(attempts[d], attempts'[d])
                          /\ d # c => attempts'[d] = attempts[d]
      /\ at' = at /\ turn' = turn /\ progress' = progress /\ barrier' = barrier /\ why' = why
  <2>1. \A d \in Cases : d # c => attempts'[d] = attempts[d]
    BY DEF CallStep
  <2>2. \A d \in Cases : /\ Sound(attempts[d], d) /\ Extends(attempts[d], attempts'[d])
    BY <2>1 DEF CallStep, CampaignInv, Extends
  <2> QED BY <2>1, <2>2 DEF CallStep, controller
<1>2. \A d \in Cases : AttemptInv(d)'
  <2> SUFFICES ASSUME NEW d \in Cases, d # c PROVE AttemptInv(d)'
    OBVIOUS
  <2>1. attempts'[d] = attempts[d] /\ barrier' = barrier /\ AttemptInv(d)
    BY <1>1 DEF HaltInv
  <2>2. attempts[d].status # "absent" =>
            LET h == attempts[d].id IN
            /\ transaction'[h] = transaction[h] /\ consumed'[CaseOf[h]] = consumed[CaseOf[h]]
    <3>1. Sound(attempts[d], d) /\ d # c
      BY <1>1
    <3>2. attempts[d].status # "absent" =>
              attempts[d].id \in Generators \ {g} /\ CaseOf[attempts[d].id] = d
      BY <3>1 DEF Sound
    <3> QED BY <3>2, <3>1 DEF CallStep
  <2>3. Lawful(attempts[d])'
    <3> DEFINE a == attempts[d]
    <3>1. Lawful(a) /\ Regular(a)' /\ a' = a
      BY <2>1 DEF AttemptInv, Lawful, Regular, Recorded, Unmatched, Known
    <3>2. a.status # "absent" => (Left(a)' <=> Left(a)) /\ (Kept(a.id)' <=> Kept(a.id))
      BY <2>1, <2>2 DEF Left, Kept
    <3> HIDE DEF a
    <3>3. Lawful(a)'
      BY <3>1, <3>2 DEF Lawful
    <3> QED BY <3>3 DEF a
  <2>4. Waiting(attempts[d])' <=> Waiting(attempts[d])
    BY <2>1 DEF Waiting, Open, Recorded
  <2> QED BY <2>1, <2>3, <2>4 DEF AttemptInv, Disposed
<1>3. \A h \in Generators : OwnInv(h)'
  <2> SUFFICES ASSUME NEW h \in Generators, h # g PROVE OwnInv(h)'
    OBVIOUS
  <2> DEFINE d == CaseOf[h]
  <2>1. d \in Cases /\ NoAttempt.id = NoOne /\ NoAttempt.began = {} /\ h # NoOne
    BY AttemptAssumption DEF NoAttempt
  <2>2. /\ Extends(attempts[d], attempts'[d]) /\ attempts[d].began \subseteq attempts'[d].began
        /\ transaction'[h] = transaction[h] /\ held'[h] = held[h] /\ receipts'[h] = receipts[h]
    BY <1>1, <2>1 DEF CallStep
  <2>3. OwnInv(h)
    BY DEF HaltInv
  <2>4. attempts[d].id = h => /\ attempts'[d].id = h /\ Of(h) = attempts[d]
                              /\ Of(h)' = attempts'[d]
    BY <2>1, <2>2 DEF Extends, Of
  <2>5. attempts[d].id # h => Of(h) = NoAttempt
    BY DEF Of
  <2>6. (Kept(h) <=> Kept(h)') /\ (held[h] <=> held'[h])
    BY <2>2 DEF Kept
  <2>7. attempts'[d].id = h => attempts'[d] # NoAttempt
    BY <2>1
  <2> HIDE DEF d
  <2> QED BY <2>1, <2>2, <2>3, <2>4, <2>5, <2>6, <2>7 DEF OwnInv
<1>4. OrderInv'
  <2>1. \A n \in DOMAIN CaseList : CaseList[n] \in Cases
    BY CampaignAssumption
  <2>2. \A d \in Cases : Disposed(d) => Disposed(d)'
    BY <1>1 DEF Extends, Disposed
  <2>3. OrderInv
    BY DEF HaltInv
  <2>4. ASSUME NEW m \in DOMAIN CaseList, NEW n \in DOMAIN CaseList, m < n,
               ~Fresh(CaseList[n])'
        PROVE  Disposed(CaseList[m])'
    <3>1. CASE ~Fresh(CaseList[n])
      BY <2>1, <2>2, <2>3, <2>4, <3>1 DEF OrderInv, InGeneration
    <3>2. CASE Fresh(CaseList[n])
      <4>1. CaseList[n] = c
        BY <1>1, <2>1, <2>4, <3>2 DEF Fresh
      <4>2. at = "generating" /\ n = turn
        BY <3>2, <4>1, CaseListIsInjective DEF Now
      <4> QED BY <2>1, <2>2, <2>3, <2>4, <4>2 DEF OrderInv, InGeneration
    <3> QED BY <3>1, <3>2
  <2> QED BY <1>1, <2>1, <2>2, <2>3, <2>4 DEF OrderInv, InGeneration
<1>5. held' = [h \in Generators |-> held'[h]] /\ consumed' = [d \in Cases |-> consumed'[d]]
  BY DEF CallStep
<1>6. progress'.status # "halted"
  BY <1>1 DEF HaltInv
<1> QED BY <1>2, <1>3, <1>4, <1>5, <1>6 DEF HaltInv

-----------------------------------------------------------------------------
(* generate_v02_scored_case, followed to what it leaves *)

\* What is known of the attempt of the called generation g.
Tracked(g) ==
    /\ CampaignInv /\ g \in Generators /\ CaseOf[g] \in Cases /\ g \in Processes /\ g # NoOne
    /\ Sound(attempts[CaseOf[g]], CaseOf[g]) /\ Lawful(attempts[CaseOf[g]])
    /\ attempts[CaseOf[g]].id = g => Of(g) = attempts[CaseOf[g]]
    /\ TrackInv(g) /\ GeneratorInv(g) /\ OwnInv(g)
    /\ consumed = [d \in Cases |-> consumed[d]] /\ held = [h \in Generators |-> held[h]]

\* What its step is: the attempt becomes b, the process goes to label.
Moves(g, b, label) ==
    /\ attempts'[CaseOf[g]] = b /\ pc'[g] = label /\ barrier' = barrier

TrackStep(g) ==
    /\ TrackInv(g)' /\ AttemptInv(CaseOf[g])'
    /\ attempts[CaseOf[g]].began \subseteq attempts'[CaseOf[g]].began
    /\ attempts'[CaseOf[g]].id = g \/ (attempts' = attempts /\ UNCHANGED <<transaction, held>>)
    /\ barrier' = barrier
    /\ consumed' = [d \in Cases |-> consumed'[d]]
    /\ held' = [h \in Generators |-> held'[h]]
    /\ \A d \in Cases \ {CaseOf[g]} : consumed'[d] = consumed[d]
    /\ \A h \in Generators \ {g} : transaction'[h] = transaction[h] /\ held'[h] = held[h]

LEMMA AppendMoves ==
    ASSUME CampaignInv, NEW g \in Generators, NEW accepted, NEW new, NEW next, NEW rejected,
           Append(g, g, accepted, new, next, rejected)
    PROVE  /\ accepted => Moves(g, new, next)
           /\ ~accepted => Moves(g, attempts[CaseOf[g]], rejected) /\ attempts' = attempts
           /\ UNCHANGED <<consumed, transaction>>
BY AttemptAssumption DEF Append, Moves, Goto, files, CampaignInv, Shapes, Processes

LEMMA LookMoves ==
    ASSUME CampaignInv, NEW g \in Generators, NEW label, Goto(g, label),
           UNCHANGED <<attempts, barrier>>
    PROVE  Moves(g, attempts[CaseOf[g]], label)
BY DEF Moves, Goto, CampaignInv, Shapes, Processes

\* What its attempt stays or becomes is lawful; it waits if it has its disposition.
LEMMA MoveIsLawful ==
    ASSUME NEW g, Tracked(g), NEW b, NEW label, Moves(g, b, label),
           UNCHANGED <<consumed, transaction>>, Lawful(b), b.disposition # "none" => Waiting(b)
    PROVE  AttemptInv(CaseOf[g])'
<1> DEFINE c == CaseOf[g]
<1>1. attempts'[c] = b /\ ~barrier'
  BY DEF Moves, Tracked, TrackInv
<1>2. Lawful(attempts[c])'
  BY <1>1 DEF Lawful, Left, Kept, Regular, Recorded, Unmatched, Known
<1>3. Disposed(c)' => Waiting(attempts[c])'
  BY <1>1 DEF Disposed, Waiting, Open, Recorded
<1> QED BY <1>1, <1>2, <1>3 DEF AttemptInv

\* A step to a label where nothing but the attempt changed.
LEMMA MoveTracks ==
    ASSUME NEW g, Tracked(g), NEW b, NEW label, Moves(g, b, label),
           UNCHANGED <<consumed, transaction, held>>, Lawful(b),
           b.disposition # "none" => Waiting(b),
           attempts[CaseOf[g]].began \subseteq b.began,
           b.id = g \/ attempts' = attempts, TrackInv(g)'
    PROVE  TrackStep(g)
<1>1. AttemptInv(CaseOf[g])'
  BY MoveIsLawful
<1> QED BY <1>1 DEF TrackStep, Moves, Tracked

\* The attempt of a generation that is on its way.
LEMMA OnItsWay ==
    ASSUME NEW g, Tracked(g), pc[g] \notin {"idle", "done", "killed"}
    PROVE  LET a == attempts[CaseOf[g]] IN
           /\ a.id = g /\ Open(a) /\ a.disposition = "none" /\ Of(g) = a /\ a # NoAttempt
           /\ a.began \subseteq {"generation"} /\ a.ended \subseteq a.began
           /\ a.phase \in {"none", "generation"}
           /\ a.phase = "generation" => "generation" \in a.began
           /\ "generation" \in a.began /\ a.phase = "none" => "generation" \in a.ended
           /\ Recorded(a) \subseteq BeforeBarrier
           /\ Regular(a) /\ Left(a) /\ (a.candidate => Kept(g))
<1> DEFINE a == attempts[CaseOf[g]]
<1>1. a.id = g /\ Open(a) /\ a.disposition = "none" /\ Of(g) = a
  BY DEF Tracked, TrackInv, Disposed
<1>2. a # NoAttempt
  BY <1>1 DEF Tracked, NoAttempt
<1>3. Regular(a) /\ Left(a) /\ (a.candidate => Kept(g))
  BY <1>1 DEF Tracked, Lawful, Open
<1>4. a.began \subseteq {"generation"} /\ a.ended \subseteq a.began
  BY <1>1, <1>3 DEF Tracked, Regular, Sound, Phases
<1>5. /\ a.phase \in {"none", "generation"} /\ (a.phase = "generation" => "generation" \in a.began)
  BY <1>3, <1>4 DEF Tracked, Regular, Sound, Phases
<1>6. /\ "generation" \in a.began /\ a.phase = "none" => "generation" \in a.ended
      /\ Recorded(a) \subseteq BeforeBarrier
  BY <1>1, <1>3 DEF Regular
<1> QED BY <1>1, <1>2, <1>3, <1>4, <1>5, <1>6

\* The capacity is there, so that only what blocks a campaign keeps one from beginning.
LEMMA BeginTracks ==
    ASSUME NEW g, Tracked(g), UNCHANGED receipts, Begin(g)
    PROVE  TrackStep(g)
<1> DEFINE c == CaseOf[g]
           a == attempts[c]
           accepted == PreflightAttempt /\ MayStartAttempt(g)
<1>1. /\ pc[g] = "idle" /\ a = NoAttempt /\ ~barrier /\ Of(g) = NoAttempt /\ ~Kept(g) /\ ~held[g]
      /\ g \in Generators /\ c \in Cases /\ CampaignInv
  BY DEF Begin, Tracked, TrackInv, Fresh, OwnInv, Of, NoAttempt
<1>2. /\ Append(g, g, accepted, StartAttempt(g), "prepare", "done")
      /\ UNCHANGED <<locals, expired>>
  BY DEF Begin, AppendOnly
<1>3. /\ accepted => Moves(g, StartAttempt(g), "prepare")
      /\ ~accepted => Moves(g, a, "done") /\ attempts' = attempts
      /\ UNCHANGED <<consumed, transaction, answer, held, missing>>
  BY <1>1, <1>2, AppendMoves DEF locals
<1>4. CASE accepted
  <2> DEFINE b == StartAttempt(g)
  <2>1. Lawful(b) /\ b.disposition = "none" /\ b.id = g /\ b.status = "open"
    BY <1>1, NoAttemptIsLawful DEF StartAttempt, NoAttempt
  <2>2. a.began \subseteq b.began
    BY <1>1 DEF StartAttempt, NoAttempt
  <2>3. Moves(g, b, "prepare")
    BY <1>3, <1>4
  <2> HIDE DEF b
  <2>4. TrackInv(g)'
    BY <1>1, <1>3, <2>1, <2>3 DEF b, Moves, TrackInv, Failing, Kept, Open, Disposed, StartAttempt
  <2> QED BY <1>3, <2>1, <2>2, <2>3, <2>4, MoveTracks
<1>5. CASE ~accepted
  <2>1. \E d \in Cases : attempts[d].status = "crashed" \/ Unaffordable(attempts[d])
    <3>1. PICK d \in Cases : Terminal(attempts[d]) /\ ~AllKnown(attempts[d])
      <4>1. MayStartAttempt(g)
        BY <1>1 DEF MayStartAttempt
      <4> DEFINE S == {d \in Cases : Open(attempts[d])}
      <4>2. S \subseteq Cases \ {c}
        BY <1>1 DEF Open, NoAttempt
      <4>3. Cardinality(S) + 1 <= Cap
        BY <1>1, <4>2, ReservationFits
      <4> QED BY <1>5, <4>1, <4>3 DEF PreflightAttempt
    <3>2. CASE attempts[d].status = "crashed"
      BY <3>2
    <3>3. CASE attempts[d].status = "finished"
      <4>1. Sound(attempts[d], d)
        BY <1>1 DEF CampaignInv
      <4>2. PICK k \in Categories : attempts[d].costs[k] \notin {"zero"} \cup Measured
        BY <3>1 DEF AllKnown, Known
      <4>3. attempts[d].costs[k] = "unknown"
        BY <3>3, <4>1, <4>2 DEF Sound, Recorded, Amounts
      <4> QED BY <4>3 DEF Unaffordable
    <3> QED BY <3>1, <3>2, <3>3 DEF Terminal
  <2>2. UNCHANGED <<attempts, transaction, expired, receipts, consumed, held>>
    BY <1>2, <1>3, <1>5
  <2>3. SomeBlocked'
    BY <2>1, <2>2 DEF SomeBlocked, Blocked
  <2>4. Moves(g, a, "done") /\ Lawful(a) /\ a.disposition = "none"
    BY <1>1, <1>3, <1>5 DEF Tracked, NoAttempt
  <2>5. TrackInv(g)'
    BY <1>1, <2>2, <2>3, <2>4 DEF Moves, TrackInv, Failing
  <2> QED BY <2>2, <2>4, <2>5, MoveTracks
<1> QED BY <1>4, <1>5

\* An append that is accepted.
LEMMA AcceptedMoves ==
    ASSUME NEW g, Tracked(g), NEW accepted, NEW new, NEW next, NEW rejected,
           AppendOnly(g, g, accepted, new, next, rejected), accepted
    PROVE  /\ Moves(g, new, next)
           /\ UNCHANGED <<consumed, transaction, answer, held, missing, expired>>
BY AppendMoves DEF AppendOnly, Tracked, locals

\* The labels, and what is known at each of them.
LEMMA RecordPreparationTracks ==
    ASSUME NEW g, Tracked(g), RecordPreparation(g)
    PROVE  TrackStep(g)
<1> DEFINE c == CaseOf[g]
           a == attempts[c]
           b == RecordCost(a, "preparation", "measured")
<1>1. /\ pc[g] = "prepare" /\ a = StartAttempt(g) /\ Of(g) = a /\ a.id = g /\ Sound(a, c)
      /\ Lawful(a) /\ ~Kept(g) /\ ~held[g]
      /\ "preparation" \in Categories /\ "measured" \in Amounts \ {"absent"}
  BY OnItsWay DEF RecordPreparation, Tracked, TrackInv, Failing, Categories, BeforeBarrier, Amounts,
         Measured
<1>2. MayRecordCost(a, "preparation", "measured")
  BY <1>1 DEF MayRecordCost, StartAttempt, NoAttempt, Open, Categories, BeforeBarrier
<1>3. /\ Moves(g, b, "start_phase")
      /\ UNCHANGED <<consumed, transaction, answer, held, missing, expired>>
  BY <1>1, <1>2, AcceptedMoves DEF RecordPreparation
<1>4. /\ SamePhases(a, b) /\ b.call = a.call /\ b.candidate = a.candidate
      /\ Recorded(b) = Recorded(a) \cup {"preparation"}
  BY <1>1, CostFields
<1>5. Lawful(b)
  BY <1>1, <1>2, CostIsLawful
<1>6. /\ a.began = {} /\ a.call = "none" /\ a.candidate = FALSE /\ Recorded(a) = {}
      /\ a.status = "open" /\ a.disposition = "none"
  BY <1>1 DEF StartAttempt, NoAttempt, Recorded
<1> HIDE DEF b
<1>7. TrackInv(g)'
  BY <1>1, <1>3, <1>4, <1>6
  DEF Tracked, Moves, TrackInv, Failing, Kept, Open, Disposed, SamePhases, Unbilled, Recorded
<1> QED BY <1>1, <1>3, <1>4, <1>5, <1>6, <1>7, MoveTracks DEF SamePhases

LEMMA StartGenerationTracks ==
    ASSUME NEW g, Tracked(g), StartGeneration(g)
    PROVE  TrackStep(g)
<1> DEFINE c == CaseOf[g]
           a == attempts[c]
           b == StartPhase(a, "generation")
<1>1. /\ pc[g] = "start_phase" /\ Of(g) = a /\ a.id = g /\ Sound(a, c) /\ Open(a)
      /\ Lawful(a) /\ ~Kept(g) /\ ~held[g] /\ a.began = {} /\ a.ended = {} /\ a.phase = "none"
      /\ a.disposition = "none" /\ a.call = "none" /\ ~a.candidate /\ Unbilled(a)
      /\ ~barrier /\ "generation" \in Phases /\ CampaignInv /\ g \in Generators
  BY OnItsWay DEF StartGeneration, Tracked, TrackInv, Failing, Phases
<1>2. MayStartPhase(a, "generation")
  BY <1>1 DEF MayStartPhase
<1>3. PICK late \in BOOLEAN :
          /\ Clock(g, late)
          /\ Append(g, g, ~late /\ MayStartPhase(a, "generation"), b, "consume", "fail")
  BY <1>1 DEF StartGeneration
<1>4. UNCHANGED <<consumed, transaction, answer, held, missing>>
  BY <1>1, <1>3, AppendMoves DEF StartGeneration, locals
<1>5. CASE late
  <2>1. Moves(g, a, "fail") /\ attempts' = attempts /\ g \in expired'
    BY <1>1, <1>3, <1>5, AppendMoves DEF Clock
  <2>2. TrackInv(g)'
    BY <1>1, <1>4, <2>1 DEF Moves, TrackInv, Failing, Kept, Open, Disposed, Unbilled, Recorded
  <2> QED BY <1>1, <1>4, <2>1, <2>2, MoveTracks
<1>6. CASE ~late
  <2>1. Moves(g, b, "consume")
    BY <1>1, <1>2, <1>3, <1>6, AppendMoves
  <2>2. /\ SameSpend(a, b) /\ b.status = a.status /\ b.disposition = a.disposition
        /\ b.phase = "generation" /\ b.began = a.began \cup {"generation"}
    BY <1>1, StartFields
  <2>3. Lawful(b)
    BY <1>1, <1>2, StartIsLawful
  <2> HIDE DEF b
  <2>4. TrackInv(g)'
    BY <1>1, <1>4, <2>1, <2>2
    DEF Moves, TrackInv, Failing, Kept, Open, Disposed, SameSpend, Unbilled, Recorded
  <2> QED BY <1>1, <1>4, <2>1, <2>2, <2>3, <2>4, MoveTracks DEF SameSpend
<1> QED BY <1>5, <1>6

LEMMA ConsumeTracks ==
    ASSUME NEW g, Tracked(g), CannotCall(g) \/ Consume(g)
    PROVE  TrackStep(g)
<1> DEFINE c == CaseOf[g]
           a == attempts[c]
<1>1. /\ pc[g] = "consume" /\ Of(g) = a /\ a.id = g /\ Sound(a, c) /\ Open(a)
      /\ Lawful(a) /\ ~Kept(g) /\ ~held[g] /\ a.phase = "generation"
      /\ a.began = {"generation"} /\ a.disposition = "none"
      /\ a.call = "none" /\ ~a.candidate /\ Unbilled(a)
      /\ ~barrier /\ CampaignInv /\ g \in Generators
  BY OnItsWay DEF CannotCall, Consume, Tracked, TrackInv, Failing
<1>2. /\ UNCHANGED <<attempts, barrier, transaction, answer, held, missing, expired>>
      /\ \/ \E label \in {"fail", "crash"} : Goto(g, label)
         \/ Goto(g, "start_call") /\ consumed' = [consumed EXCEPT ![c] = g]
      /\ consumed' = consumed \/ consumed' = [consumed EXCEPT ![c] = g]
  BY DEF CannotCall, Consume, Look, ledger, files, locals, world
<1>3. PICK label \in {"fail", "crash", "start_call"} :
          Moves(g, a, label) /\ (label = "start_call" => consumed'[c] = g)
  BY <1>1, <1>2, LookMoves DEF Tracked
<1>4. /\ consumed' = [d \in Cases |-> consumed'[d]]
      /\ \A d \in Cases \ {c} : consumed'[d] = consumed[d]
  BY <1>2 DEF Tracked
<1>5. TrackInv(g)'
  BY <1>1, <1>2, <1>3 DEF Moves, TrackInv, Failing, Kept, Open, Disposed, Unbilled, Recorded
<1>6. AttemptInv(c)'
  <2>1. ~Kept(a.id)' /\ Regular(a)' /\ a' = a /\ ~Disposed(c)' /\ ~barrier'
    BY <1>1, <1>2 DEF Kept, Lawful, Regular, Disposed, Recorded, Unmatched, Known
  <2>2. Lawful(a)'
    BY <1>1, <2>1 DEF Lawful, Left
  <2> QED BY <2>1, <2>2 DEF AttemptInv
<1> QED BY <1>1, <1>2, <1>4, <1>5, <1>6 DEF TrackStep, Tracked

LEMMA BeginCallTracks ==
    ASSUME NEW g, Tracked(g), BeginCall(g)
    PROVE  TrackStep(g)
<1> DEFINE c == CaseOf[g]
           a == attempts[c]
           b == StartCall(a)
           accepted == PreflightCall(g) /\ MayStartCall(a)
<1>1. /\ pc[g] = "start_call" /\ Of(g) = a /\ a.id = g /\ Sound(a, c) /\ Open(a)
      /\ Lawful(a) /\ ~Kept(g) /\ ~held[g] /\ a.phase = "generation" /\ consumed[c] = g
      /\ a.began = {"generation"} /\ a.disposition = "none"
      /\ a.call = "none" /\ ~a.candidate /\ Unbilled(a)
      /\ ~barrier /\ CampaignInv /\ g \in Generators
  BY OnItsWay DEF BeginCall, Tracked, TrackInv, Failing
<1>2. /\ Append(g, g, accepted, b, "provider", "fail")
      /\ UNCHANGED <<answer, held, missing, expired>>
  BY <1>1 DEF BeginCall, AppendOnly, locals
<1>3. /\ accepted => Moves(g, b, "provider")
      /\ ~accepted => Moves(g, a, "fail") /\ attempts' = attempts
      /\ UNCHANGED <<consumed, transaction>>
  BY <1>1, <1>2, AppendMoves
<1>4. CASE ~accepted
  <2>1. TrackInv(g)'
    BY <1>1, <1>2, <1>3, <1>4
    DEF Moves, TrackInv, Failing, Kept, Open, Disposed, Unbilled, Recorded
  <2> QED BY <1>1, <1>2, <1>3, <1>4, <2>1, MoveTracks
<1>5. CASE accepted
  <2>1. /\ SamePhases(a, b) /\ b.costs = a.costs /\ b.candidate = a.candidate
        /\ b.call = "started"
    <3>1. Sound(a, c)
      BY <1>1
    <3> QED BY <3>1, CallFields
  <2>2. a.costs["model"] = "absent"
    BY <1>1 DEF Unbilled, Recorded, Categories, BeforeBarrier
  <2>3. Lawful(b)
    BY <1>1, <1>5, <2>2, CallIsLawful
  <2>4. Moves(g, b, "provider")
    BY <1>3, <1>5
  <2> HIDE DEF b
  <2>5. TrackInv(g)'
    BY <1>1, <1>2, <1>3, <2>1, <2>4
    DEF Moves, TrackInv, Failing, Kept, Open, Disposed, SamePhases, Unbilled, Recorded
  <2> QED BY <1>1, <1>2, <1>3, <2>1, <2>3, <2>4, <2>5, MoveTracks DEF SamePhases
<1> QED BY <1>4, <1>5

\* The labels of a call that is made.
LEMMA InCall ==
    ASSUME NEW g, Tracked(g),
           pc[g] \in {"provider", "persist", "submit", "finish_call", "model_cost"}
    PROVE  LET a == attempts[CaseOf[g]] IN
           /\ Of(g) = a /\ a.id = g /\ Sound(a, CaseOf[g]) /\ Open(a) /\ a.status = "open"
           /\ Lawful(a) /\ ~held[g] /\ a.phase = "generation" /\ a.disposition = "none"
           /\ a.began = {"generation"} /\ Unbilled(a) /\ a.costs["model"] = "absent"
           /\ "preparation" \in Recorded(a)
           /\ ~barrier /\ CampaignInv /\ g \in Generators /\ CaseOf[g] \in Cases
<1> DEFINE a == attempts[CaseOf[g]]
<1>1. /\ Of(g) = a /\ a.id = g /\ Sound(a, CaseOf[g]) /\ Open(a) /\ Lawful(a) /\ ~held[g]
      /\ a.phase = "generation" /\ a.disposition = "none" /\ a.began = {"generation"}
      /\ Unbilled(a) /\ ~barrier /\ CampaignInv /\ g \in Generators /\ CaseOf[g] \in Cases
  BY OnItsWay DEF Tracked, TrackInv, Failing
<1>2. /\ a.costs["model"] = "absent" /\ "preparation" \in Recorded(a)
  BY <1>1 DEF Unbilled, Recorded, Categories, BeforeBarrier
<1> QED BY <1>1, <1>2 DEF Open

LEMMA ProviderTracks ==
    ASSUME NEW g, Tracked(g), Provider(g)
    PROVE  TrackStep(g)
<1> DEFINE c == CaseOf[g]
           a == attempts[c]
<1>0. pc[g] = "provider"
  BY DEF Provider
<1>1. /\ Of(g) = a /\ a.id = g /\ Sound(a, c) /\ Open(a) /\ Lawful(a) /\ ~held[g]
      /\ a.phase = "generation" /\ a.disposition = "none" /\ a.began = {"generation"}
      /\ Unbilled(a) /\ ~barrier /\ CampaignInv /\ g \in Generators
  BY <1>0, InCall
<1>2. a.call = "started" /\ ~Kept(g) /\ ~a.candidate /\ consumed[c] = g
  BY <1>0 DEF Tracked, TrackInv
<1>3. PICK reply :
          /\ answer' = [answer EXCEPT ![g] = reply]
          /\ Goto(g, IF reply.kind = "candidate" THEN "persist" ELSE "finish_call")
          /\ UNCHANGED <<attempts, barrier, consumed, transaction, held, missing, expired>>
  BY DEF Provider, ledger, files
<1>4. answer'[g] = reply
  BY <1>1, <1>3 DEF CampaignInv, Shapes
<1>5. Moves(g, a, IF reply.kind = "candidate" THEN "persist" ELSE "finish_call")
  BY <1>1, <1>3, LookMoves
<1>6. TrackInv(g)'
  <2>1. CASE reply.kind = "candidate"
    BY <1>1, <1>2, <1>3, <1>4, <1>5, <2>1
    DEF Moves, TrackInv, Failing, Kept, Open, Disposed, Unbilled, Recorded
  <2>2. CASE reply.kind # "candidate"
    BY <1>1, <1>2, <1>3, <1>4, <1>5, <2>2
    DEF Moves, TrackInv, Failing, Kept, Open, Disposed, Unbilled, Recorded
  <2> QED BY <2>1, <2>2
<1> QED BY <1>1, <1>3, <1>5, <1>6, MoveTracks

\* With the transaction on file, a recovery has all it needs.
LEMMA PersistTracks ==
    ASSUME NEW g, Tracked(g), Persist(g)
    PROVE  TrackStep(g)
<1> DEFINE c == CaseOf[g]
           a == attempts[c]
<1>0. pc[g] = "persist"
  BY DEF Persist
<1>1. /\ Of(g) = a /\ a.id = g /\ Sound(a, c) /\ Open(a) /\ Lawful(a) /\ ~held[g]
      /\ a.phase = "generation" /\ a.disposition = "none" /\ a.began = {"generation"}
      /\ Unbilled(a) /\ ~barrier /\ CampaignInv /\ g \in Generators
      /\ a.costs["model"] = "absent" /\ "preparation" \in Recorded(a)
  BY <1>0, InCall
<1>2. /\ a.call = "started" /\ ~Kept(g) /\ ~a.candidate /\ consumed[c] = g
      /\ answer[g].kind = "candidate" /\ answer[g].usage \in Usages
  BY <1>0 DEF Tracked, TrackInv, GeneratorInv
<1>3. UNCHANGED <<attempts, barrier, consumed, answer, held, missing, expired>>
  BY DEF Persist, ledger, locals, world
<1>4. CASE UNCHANGED transaction /\ \E label \in {"fail", "crash"} : Goto(g, label)
  <2>1. PICK label \in {"fail", "crash"} : Moves(g, a, label)
    BY <1>1, <1>3, <1>4, LookMoves
  <2>2. TrackInv(g)'
    BY <1>1, <1>2, <1>3, <1>4, <2>1
    DEF Moves, TrackInv, Failing, Kept, Open, Disposed, Unbilled, Recorded
  <2> QED BY <1>1, <1>3, <1>4, <2>1, <2>2, MoveTracks
<1>5. CASE transaction' = [transaction EXCEPT ![g] = answer[g].usage] /\ Goto(g, "submit")
  <2>1. Moves(g, a, "submit")
    BY <1>1, <1>3, <1>5, LookMoves
  <2>2. /\ transaction'[g] = answer[g].usage
        /\ \A h \in Generators \ {g} : transaction'[h] = transaction[h]
    BY <1>1, <1>5 DEF CampaignInv, FilesInv
  <2>3. Kept(g)'
    BY <1>2, <2>2, RunnerAssumption DEF Kept
  <2>4. TrackInv(g)'
    BY <1>1, <1>2, <1>3, <2>1, <2>2, <2>3
    DEF Moves, TrackInv, Failing, Open, Disposed, Unbilled, Recorded
  <2>5. AttemptInv(c)'
    <3>1. Regular(a)' /\ a' = a /\ ~Disposed(c)' /\ ~barrier'
      BY <1>1, <1>3 DEF Lawful, Regular, Disposed, Recorded, Unmatched, Known
    <3>2. Left(a)' /\ Kept(a.id)'
      BY <1>1, <1>2, <1>3, <2>3 DEF Left, Recorded
    <3>3. Lawful(a)'
      BY <3>1, <3>2 DEF Lawful
    <3> QED BY <3>1, <3>3 DEF AttemptInv
  <2> QED BY <1>1, <1>3, <2>2, <2>4, <2>5 DEF TrackStep, Tracked
<1> QED BY <1>4, <1>5 DEF Persist

LEMMA SubmitTracks ==
    ASSUME NEW g, Tracked(g), SubmitCandidate(g)
    PROVE  TrackStep(g)
<1> DEFINE c == CaseOf[g]
           a == attempts[c]
           b == Submit(a)
<1>0. pc[g] = "submit"
  BY DEF SubmitCandidate
<1>1. /\ Of(g) = a /\ a.id = g /\ Sound(a, c) /\ Open(a) /\ Lawful(a) /\ ~held[g]
      /\ a.phase = "generation" /\ a.disposition = "none" /\ a.began = {"generation"}
      /\ Unbilled(a) /\ ~barrier
  BY <1>0, InCall
<1>2. /\ a.call = "started" /\ ~a.candidate /\ answer[g].kind = "candidate"
      /\ Kept(g) /\ transaction[g] = answer[g].usage
  BY <1>0 DEF Tracked, TrackInv
<1>3. MaySubmit(a)
  BY <1>1, <1>2 DEF MaySubmit, Unmatched
<1>4. /\ Moves(g, b, "finish_call")
      /\ UNCHANGED <<consumed, transaction, answer, held, missing, expired>>
  BY <1>1, <1>3, AcceptedMoves DEF SubmitCandidate
<1>5. Sound(a, c)
  BY <1>1
<1>6. /\ SamePhases(a, b) /\ b.costs = a.costs /\ b.candidate = TRUE /\ b.call = a.call
      /\ b.usage = a.usage
  BY <1>5, CallFields
<1>7. Lawful(b)
  BY <1>1, <1>2, <1>3, CallIsLawful
<1> HIDE DEF b
<1>8. TrackInv(g)'
  BY <1>1, <1>2, <1>4, <1>6
  DEF Moves, TrackInv, Failing, Kept, Open, Disposed, SamePhases, Unbilled, Recorded
<1> QED BY <1>1, <1>4, <1>6, <1>7, <1>8, MoveTracks DEF SamePhases

LEMMA EndCallTracks ==
    ASSUME NEW g, Tracked(g), EndCall(g)
    PROVE  TrackStep(g)
<1> DEFINE c == CaseOf[g]
           a == attempts[c]
           status == CallStatus(g)
           usage == answer[g].usage
           b == FinishCall(a, status, usage)
<1>0. pc[g] = "finish_call"
  BY DEF EndCall
<1>1. /\ Of(g) = a /\ a.id = g /\ Sound(a, c) /\ Open(a) /\ Lawful(a) /\ ~held[g]
      /\ a.phase = "generation" /\ a.disposition = "none" /\ a.began = {"generation"}
      /\ Unbilled(a) /\ ~barrier
  BY <1>0, InCall
<1>2. /\ a.call = "started" /\ (a.candidate <=> answer[g].kind = "candidate")
      /\ answer[g].kind = "candidate" => Kept(g) /\ transaction[g] = usage
      /\ Kept(g) => answer[g].kind = "candidate"
  BY <1>0 DEF Tracked, TrackInv
<1>3. /\ status \in {"succeeded", "failed"}
      /\ status = "succeeded" <=> answer[g].kind = "candidate"
  BY DEF CallStatus
<1>4. MayFinishCall(a, status)
  BY <1>1, <1>2, <1>3 DEF MayFinishCall, Unmatched
<1>5. /\ Moves(g, b, "model_cost")
      /\ UNCHANGED <<consumed, transaction, answer, held, missing, expired>>
  BY <1>1, <1>4, AcceptedMoves DEF EndCall
<1>6. Sound(a, c)
  BY <1>1
<1>7. /\ SamePhases(a, b) /\ b.costs = a.costs /\ b.candidate = a.candidate /\ b.call = status
      /\ b.usage = usage
  BY <1>6, EndCallFields
<1>8. Lawful(b)
  <2>1. Kept(a.id) => status = "succeeded" /\ usage = transaction[a.id]
    BY <1>1, <1>2, <1>3
  <2> HIDE DEF status, usage
  <2> QED BY <1>1, <1>3, <1>4, <2>1, CallIsLawful
<1>9. CallStatus(g)' = status
  BY <1>5 DEF CallStatus
<1> HIDE DEF b, status
<1>10. TrackInv(g)'
  BY <1>1, <1>2, <1>3, <1>5, <1>7, <1>9
  DEF Moves, TrackInv, Failing, Kept, Open, Disposed, SamePhases, Unbilled, Recorded
<1> QED BY <1>1, <1>5, <1>7, <1>8, <1>10, MoveTracks DEF SamePhases

LEMMA RecordModelCostTracks ==
    ASSUME NEW g, Tracked(g), RecordModelCost(g)
    PROVE  TrackStep(g)
<1> DEFINE c == CaseOf[g]
           a == attempts[c]
           usage == answer[g].usage
           label == AfterCost(answer[g].kind)
           b == RecordCost(a, "model", usage)
<1>0. pc[g] = "model_cost"
  BY DEF RecordModelCost
<1>1. /\ Of(g) = a /\ a.id = g /\ Sound(a, c) /\ Open(a) /\ Lawful(a) /\ ~held[g]
      /\ a.phase = "generation" /\ a.disposition = "none" /\ a.began = {"generation"}
      /\ Unbilled(a) /\ ~barrier /\ a.costs["model"] = "absent"
  BY <1>0, InCall
<1>2. /\ a.call = CallStatus(g) /\ (a.candidate <=> answer[g].kind = "candidate")
      /\ answer[g].kind = "candidate" <=> Kept(g)
      /\ answer[g].kind = "candidate" => transaction[g] = usage
      /\ usage \in Usages
  BY <1>0 DEF Tracked, TrackInv, GeneratorInv
<1>3. /\ a.call \in {"succeeded", "failed"}
      /\ answer[g].kind = "candidate" => a.call = "succeeded"
  BY <1>2 DEF CallStatus
<1>4. /\ "model" \in Categories /\ usage \in Amounts \ {"absent"}
  BY <1>2, MeasuredIsKnown DEF Categories, BeforeBarrier, Amounts
<1>5. MayRecordCost(a, "model", usage)
  BY <1>1, <1>3 DEF MayRecordCost, Called
<1>6. /\ Moves(g, b, label)
      /\ UNCHANGED <<consumed, transaction, answer, held, missing, expired>>
  BY <1>1, <1>5, AcceptedMoves DEF RecordModelCost
<1>7. /\ SamePhases(a, b) /\ b.candidate = a.candidate /\ b.call = a.call
      /\ Recorded(b) = {"preparation", "model"}
  <2>1. /\ SamePhases(a, b) /\ b.candidate = a.candidate /\ b.call = a.call
        /\ Recorded(b) = Recorded(a) \cup {"model"}
    BY <1>1, <1>4, CostFields
  <2> QED BY <1>1, <2>1 DEF Unbilled
<1>8. Lawful(b)
  BY <1>1, <1>2, <1>4, <1>5, CostIsLawful
<1>9. /\ label \in {"end_phase", "fail", "crash"}
      /\ label = "end_phase" <=> answer[g].kind = "candidate"
  BY DEF AfterCost
<1> HIDE DEF b, label
<1>10. TrackInv(g)'
  BY <1>1, <1>2, <1>3, <1>6, <1>7, <1>9
  DEF Moves, TrackInv, Failing, Kept, Open, Disposed, SamePhases, Called
<1> QED BY <1>1, <1>6, <1>7, <1>8, <1>10, MoveTracks DEF SamePhases

\* The labels of a generation whose candidate and costs of the call are recorded.
LEMMA BehindCall ==
    ASSUME NEW g, Tracked(g), pc[g] \in {"end_phase", "check", "artifact", "artifact_cost"}
    PROVE  LET a == attempts[CaseOf[g]] IN
           /\ Of(g) = a /\ a.id = g /\ a # NoAttempt /\ Sound(a, CaseOf[g]) /\ Open(a)
           /\ Lawful(a) /\ a.disposition = "none" /\ a.began = {"generation"} /\ ~barrier
           /\ a.candidate /\ a.call = "succeeded" /\ Recorded(a) = {"preparation", "model"}
           /\ Kept(g) /\ CampaignInv /\ g \in Generators
<1> DEFINE a == attempts[CaseOf[g]]
<1>1. /\ Of(g) = a /\ a.id = g /\ a # NoAttempt /\ Sound(a, CaseOf[g]) /\ Open(a)
      /\ Lawful(a) /\ a.disposition = "none" /\ a.began \subseteq {"generation"} /\ ~barrier
      /\ CampaignInv /\ g \in Generators /\ (a.candidate => Kept(g))
      /\ a.ended \subseteq a.began /\ (a.phase = "generation" => "generation" \in a.began)
  BY OnItsWay DEF Tracked, TrackInv
<1>2. a.candidate /\ a.call = "succeeded" /\ Recorded(a) = {"preparation", "model"}
  BY DEF Tracked, TrackInv
<1>3. a.phase = "generation" \/ "generation" \in a.ended
  BY DEF Tracked, TrackInv
<1> QED BY <1>1, <1>2, <1>3

LEMMA EndGenerationTracks ==
    ASSUME NEW g, Tracked(g), EndGeneration(g)
    PROVE  TrackStep(g)
<1> DEFINE c == CaseOf[g]
           a == attempts[c]
           b == FinishPhase(a, "succeeded")
<1>0. pc[g] = "end_phase"
  BY DEF EndGeneration
<1>1. /\ Of(g) = a /\ a.id = g /\ Sound(a, c) /\ Open(a) /\ Lawful(a)
      /\ a.disposition = "none" /\ a.began = {"generation"} /\ ~barrier
      /\ a.candidate /\ a.call = "succeeded" /\ Recorded(a) = {"preparation", "model"}
  BY <1>0, BehindCall
<1>2. a.phase = "generation" /\ ~held[g]
  BY <1>0 DEF Tracked, TrackInv, Failing
<1>3. MayFinishPhase(a, "generation", "succeeded") /\ "generation" \in Phases
  BY <1>1, <1>2 DEF MayFinishPhase, Called, Phases
<1>4. /\ Moves(g, b, "check")
      /\ UNCHANGED <<consumed, transaction, answer, held, missing, expired>>
  BY <1>1, <1>3, AcceptedMoves DEF EndGeneration
<1>5. Sound(a, c)
  BY <1>1
<1>6. /\ SameSpend(a, b) /\ b.status = a.status /\ b.disposition = a.disposition
      /\ b.began = a.began /\ b.phase = "none" /\ b.ended = a.ended \cup {a.phase}
  BY <1>5, EndFields
<1>7. Lawful(b)
  BY <1>1, <1>3, EndIsLawful
<1> HIDE DEF b
<1>8. TrackInv(g)'
  BY <1>1, <1>2, <1>4, <1>6
  DEF Moves, TrackInv, Failing, Open, Disposed, SameSpend, Recorded
<1> QED BY <1>1, <1>4, <1>6, <1>7, <1>8, MoveTracks DEF SameSpend

LEMMA CheckGenerationTracks ==
    ASSUME NEW g, Tracked(g), CheckGeneration(g)
    PROVE  TrackStep(g)
<1> DEFINE c == CaseOf[g]
           a == attempts[c]
<1>0. pc[g] = "check"
  BY DEF CheckGeneration
<1>1. /\ Of(g) = a /\ a.id = g /\ a # NoAttempt /\ Sound(a, c) /\ Open(a) /\ Lawful(a)
      /\ a.disposition = "none" /\ a.began = {"generation"} /\ ~barrier
      /\ a.candidate /\ a.call = "succeeded" /\ Recorded(a) = {"preparation", "model"}
      /\ Kept(g) /\ CampaignInv /\ g \in Generators
  BY <1>0, BehindCall
<1>2. a.phase = "none" /\ "generation" \in a.ended /\ ~held[g]
  BY <1>0 DEF Tracked, TrackInv, Failing
<1>3. UNCHANGED <<attempts, barrier, consumed, transaction, answer, missing>>
  BY DEF CheckGeneration, ledger, files
<1>4. CASE Clock(g, TRUE) /\ Goto(g, "fail") /\ UNCHANGED held
  <2>1. Moves(g, a, "fail") /\ g \in expired'
    BY <1>1, <1>3, <1>4, LookMoves DEF Clock
  <2>2. TrackInv(g)'
    BY <1>1, <1>2, <1>3, <1>4, <2>1 DEF Moves, TrackInv, Failing, Open, Disposed, Called, Recorded
  <2> QED BY <1>1, <1>3, <1>4, <2>1, <2>2, MoveTracks
<1>5. ASSUME held' = [held EXCEPT ![g] = TRUE], NEW label \in {"artifact", "fail"},
             Goto(g, label)
      PROVE  TrackStep(g)
  <2>1. Moves(g, a, label)
    BY <1>1, <1>3, <1>5, LookMoves
  <2>2. /\ held'[g] = TRUE /\ held' = [h \in Generators |-> held'[h]]
        /\ \A h \in Generators \ {g} : held'[h] = held[h]
    BY <1>1, <1>5 DEF Tracked
  <2>3. Kept(g)'
    BY <1>1, <1>3 DEF Kept
  <2>4. TrackInv(g)'
    BY <1>1, <1>2, <1>3, <1>5, <2>1, <2>2, <2>3
    DEF Moves, TrackInv, Failing, Open, Disposed, Called, Recorded
  <2>5. AttemptInv(c)'
    BY <1>1, <1>3, <2>1, MoveIsLawful
  <2> QED BY <1>1, <1>3, <2>2, <2>4, <2>5 DEF TrackStep, Tracked
<1>6. \/ Clock(g, TRUE) /\ Goto(g, "fail") /\ UNCHANGED held
      \/ /\ held' = [held EXCEPT ![g] = TRUE]
         /\ \E label \in {"artifact", "fail"} : Goto(g, label)
  <2>1. Clock(g, a # NoAttempt) => Clock(g, TRUE)
    BY <1>1
  <2>2. CASE Clock(g, a # NoAttempt) /\ Goto(g, "fail") /\ UNCHANGED held
    BY <2>1, <2>2
  <2>3. CASE /\ held' = [held EXCEPT ![g] = TRUE]
             /\ Goto(g, IF Known(a, "model") /\ WithinReservation(a) THEN "artifact"
                                                                    ELSE "fail")
    BY <2>3
  <2>4. \/ Clock(g, a # NoAttempt) /\ Goto(g, "fail") /\ UNCHANGED held
        \/ /\ held' = [held EXCEPT ![g] = TRUE]
           /\ Goto(g, IF Known(a, "model") /\ WithinReservation(a) THEN "artifact"
                                                                  ELSE "fail")
    BY <1>1, Zenon DEF CheckGeneration
  <2> QED BY <2>2, <2>3, <2>4
<1> QED BY <1>4, <1>5, <1>6

LEMMA ArtifactTracks ==
    ASSUME NEW g, Tracked(g), LookForArtifact(g) \/ RecordArtifact(g)
    PROVE  TrackStep(g)
<1> DEFINE c == CaseOf[g]
           a == attempts[c]
           b(amount) == RecordCost(a, "artifact", amount)
<1>0. pc[g] \in {"artifact", "artifact_cost"}
  BY DEF LookForArtifact, RecordArtifact
<1>1. /\ Of(g) = a /\ a.id = g /\ Sound(a, c) /\ Open(a) /\ Lawful(a)
      /\ a.disposition = "none" /\ a.began = {"generation"} /\ ~barrier
      /\ a.candidate /\ a.call = "succeeded" /\ Recorded(a) = {"preparation", "model"}
      /\ CampaignInv /\ g \in Generators
  BY <1>0, BehindCall
<1>2. a.phase = "none" /\ "generation" \in a.ended /\ held[g]
  BY <1>0 DEF Tracked, TrackInv
<1>3. /\ a.costs["artifact"] = "absent" /\ "artifact" \in Categories
      /\ BeforeBarrier = {"preparation", "model", "artifact"}
      /\ \A amount \in Measures : amount \in Amounts \ {"absent", "unknown"}
  BY <1>1, MeasuredIsKnown DEF Recorded, Categories, BeforeBarrier, Amounts
<1>4. CASE LookForArtifact(g)
  <2>1. Goto(g, "artifact_cost")
    <3>1. /\ Of(g) = a
          /\ Goto(g, CASE Of(g).costs["artifact"] = "absent" -> "artifact_cost"
                       [] Of(g).costs["artifact"] \in Measured /\ WithinReservation(Of(g))
                              -> "dispose"
                       [] OTHER -> "fail")
      BY <1>1, <1>4 DEF LookForArtifact, Look
    <3>2. a.costs["artifact"] = "absent" /\ "absent" \notin Measured
      BY <1>3, MeasuredIsKnown
    <3> HIDE DEF a
    <3> QED BY <3>1, <3>2
  <2>2. UNCHANGED <<attempts, barrier, consumed, transaction, answer, held, missing, expired>>
    BY <1>4 DEF LookForArtifact, Look, ledger, files, locals, world
  <2>3. Moves(g, a, "artifact_cost")
    BY <1>1, <2>1, <2>2, LookMoves
  <2>4. TrackInv(g)'
    BY <1>1, <1>2, <2>2, <2>3 DEF Moves, TrackInv, Failing, Open, Disposed, Recorded
  <2> QED BY <1>1, <2>2, <2>3, <2>4, MoveTracks
<1>5. CASE RecordArtifact(g)
  <2>0. PICK amount \in Measures, next \in {"fail", "dispose"} :
            AppendOnly(g, g, MayRecordCost(a, "artifact", amount), b(amount), next, "fail")
    BY <1>1, <1>5, ArtifactAppends
  <2>1. MayRecordCost(a, "artifact", amount)
    BY <1>1, <1>3 DEF MayRecordCost
  <2>2. /\ Moves(g, b(amount), next)
        /\ UNCHANGED <<consumed, transaction, answer, held, missing, expired>>
    BY <2>0, <2>1, AcceptedMoves
  <2>3. /\ SamePhases(a, b(amount)) /\ b(amount).candidate = a.candidate
        /\ b(amount).call = a.call /\ Recorded(b(amount)) = Recorded(a) \cup {"artifact"}
    <3>1. Sound(a, c) /\ "artifact" \in Categories /\ amount \in Amounts \ {"absent"}
      BY <1>1, <1>3
    <3> QED BY <3>1, CostFields
  <2>4. Lawful(b(amount))
    <3>1. amount \in Amounts \ {"absent"} /\ amount # "unknown" /\ Sound(a, c) /\ Lawful(a)
      BY <1>1, <1>3
    <3> QED BY <1>3, <2>1, <3>1, CostIsLawful
  <2> HIDE DEF b
  <2>5. Recorded(b(amount)) = BeforeBarrier
    BY <1>1, <1>3, <2>3
  <2>6. TrackInv(g)'
    BY <1>1, <1>2, <1>3, <2>2, <2>3, <2>5
    DEF Moves, TrackInv, Failing, Open, Disposed, SamePhases, Called
  <2> QED BY <1>1, <2>2, <2>3, <2>4, <2>6, MoveTracks DEF SamePhases
<1> QED BY <1>4, <1>5

\* The labels of a generation that failed.
LEMMA InFailure ==
    ASSUME NEW g, Tracked(g), pc[g] \in Failing
    PROVE  LET a == attempts[CaseOf[g]] IN
           /\ Of(g) = a /\ a.id = g /\ a # NoAttempt /\ Sound(a, CaseOf[g]) /\ Open(a)
           /\ Lawful(a) /\ Regular(a) /\ a.disposition = "none" /\ ~barrier
           /\ CampaignInv /\ g \in Generators /\ CaseOf[g] \in Cases
           /\ "preparation" \in Recorded(a) /\ a.began \subseteq {"generation"}
           /\ Recorded(a) \subseteq BeforeBarrier
           /\ Kept(g) => Called(a) /\ a.usage = transaction[g]
           /\ \/ g \in expired
              \/ "generation" \in a.began /\ (a.candidate <=> held[g])
           /\ a.phase \in {"none", "generation"}
           /\ "generation" \in a.began /\ a.phase = "none" => "generation" \in a.ended
<1> DEFINE a == attempts[CaseOf[g]]
<1>1. pc[g] \notin {"idle", "done", "killed"}
  BY DEF Failing
<1>2. /\ Of(g) = a /\ a.id = g /\ a # NoAttempt /\ Open(a) /\ Regular(a) /\ Left(a)
      /\ a.disposition = "none" /\ a.phase \in {"none", "generation"}
      /\ Recorded(a) \subseteq BeforeBarrier
      /\ "generation" \in a.began /\ a.phase = "none" => "generation" \in a.ended
  BY <1>1, OnItsWay
<1>3. /\ "preparation" \in Recorded(a) /\ a.began \subseteq {"generation"} /\ ~barrier
      /\ Kept(g) => Called(a)
      /\ \/ g \in expired
         \/ "generation" \in a.began /\ (a.candidate <=> held[g])
  BY DEF Tracked, TrackInv
<1>4. Kept(g) => a.usage = transaction[g]
  BY <1>2, <1>3 DEF Left, Called
<1> QED BY <1>2, <1>3, <1>4 DEF Tracked

LEMMA LookForPhaseTracks ==
    ASSUME NEW g, Tracked(g), LookForPhase(g)
    PROVE  TrackStep(g)
<1> DEFINE c == CaseOf[g]
           a == attempts[c]
           label == IF a.phase # "none" THEN "close" ELSE "ensure"
<1>0. pc[g] \in Failing
  BY DEF LookForPhase, Failing
<1>1. /\ Of(g) = a /\ a.id = g /\ a # NoAttempt /\ Open(a) /\ Lawful(a)
      /\ a.disposition = "none" /\ ~barrier /\ CampaignInv /\ g \in Generators
      /\ "preparation" \in Recorded(a) /\ a.began \subseteq {"generation"}
      /\ Kept(g) => Called(a)
      /\ \/ g \in expired
         \/ "generation" \in a.began /\ (a.candidate <=> held[g])
      /\ a.phase \in {"none", "generation"}
  BY <1>0, InFailure
<1>2. Goto(g, label)
  BY <1>1 DEF LookForPhase, Look
<1>3. UNCHANGED <<attempts, barrier, consumed, transaction, answer, held, missing, expired>>
  BY DEF LookForPhase, Look, ledger, files, locals, world
<1>4. label \in {"close", "ensure"} /\ (label = "close" <=> a.phase = "generation")
  BY <1>1
<1> HIDE DEF label
<1>5. Moves(g, a, label)
  BY <1>1, <1>2, <1>3, LookMoves
<1>6. TrackInv(g)'
  BY <1>1, <1>3, <1>4, <1>5 DEF Moves, TrackInv, Failing, Kept, Open, Disposed, Called, Recorded
<1> QED BY <1>1, <1>3, <1>5, <1>6, MoveTracks

LEMMA ClosePhaseTracks ==
    ASSUME NEW g, Tracked(g), ClosePhase(g)
    PROVE  TrackStep(g)
<1> DEFINE c == CaseOf[g]
           a == attempts[c]
           b == FinishPhase(a, "failed")
<1>0. pc[g] = "close" /\ pc[g] \in Failing
  BY DEF ClosePhase, Failing
<1>1. /\ Of(g) = a /\ a.id = g /\ Sound(a, c) /\ Open(a) /\ Lawful(a)
      /\ a.disposition = "none" /\ ~barrier
      /\ "preparation" \in Recorded(a) /\ a.began \subseteq {"generation"}
      /\ Kept(g) => Called(a)
      /\ \/ g \in expired
         \/ "generation" \in a.began /\ (a.candidate <=> held[g])
  BY <1>0, InFailure
<1>2. a.phase = "generation"
  BY <1>0 DEF Tracked, TrackInv
<1>3. MayFinishPhase(a, "generation", "failed") /\ "generation" \in Phases
  BY <1>1, <1>2 DEF MayFinishPhase, Phases
<1>4. /\ Moves(g, b, "ensure")
      /\ UNCHANGED <<consumed, transaction, answer, held, missing, expired>>
  BY <1>1, <1>3, AcceptedMoves DEF ClosePhase
<1>5. Sound(a, c)
  BY <1>1
<1>6. /\ SameSpend(a, b) /\ b.status = a.status /\ b.disposition = a.disposition
      /\ b.began = a.began /\ b.phase = "none"
  BY <1>5, EndFields
<1>7. Lawful(b)
  BY <1>1, <1>3, EndIsLawful
<1> HIDE DEF b
<1>8. TrackInv(g)'
  BY <1>1, <1>2, <1>4, <1>6
  DEF Moves, TrackInv, Failing, Kept, Open, Disposed, SameSpend, Called, Recorded
<1> QED BY <1>1, <1>4, <1>6, <1>7, <1>8, MoveTracks DEF SameSpend

LEMMA EnsureCostsTracks ==
    ASSUME NEW g, Tracked(g), EnsureCosts(g)
    PROVE  TrackStep(g)
<1> DEFINE c == CaseOf[g]
           a == attempts[c]
           todo == {"model", "artifact"} \ Recorded(a)
           found == [k \in todo |-> IF k = "model" THEN ModelCost(a) ELSE "zero"]
           label == IF todo = {} THEN "dispose" ELSE "fill"
<1>0. pc[g] = "ensure" /\ pc[g] \in Failing
  BY DEF EnsureCosts, Failing
<1>1. /\ Of(g) = a /\ a.id = g /\ Sound(a, c) /\ Open(a) /\ Lawful(a)
      /\ a.disposition = "none" /\ ~barrier /\ CampaignInv /\ g \in Generators
      /\ "preparation" \in Recorded(a) /\ a.began \subseteq {"generation"}
      /\ Recorded(a) \subseteq BeforeBarrier
      /\ Kept(g) => Called(a)
      /\ \/ g \in expired
         \/ "generation" \in a.began /\ (a.candidate <=> held[g])
  BY <1>0, InFailure
<1>2. a.phase = "none"
  BY <1>0 DEF Tracked, TrackInv
<1>3. /\ missing' = [missing EXCEPT ![g] = found] /\ Goto(g, label)
      /\ UNCHANGED <<attempts, barrier, consumed, transaction, answer, held, expired>>
  <2>1. FindMissing(g, g, {"model", "artifact"}, ModelCost(a), "zero", "fill", "dispose")
    <3> HIDE DEF a
    <3> QED BY <1>1 DEF EnsureCosts
  <2>2. todo = {"model", "artifact"} \ Recorded(Of(g))
    BY <1>1
  <2> HIDE DEF a
  <2>3. /\ missing' = [missing EXCEPT ![g] = found]
        /\ Goto(g, IF todo = {} THEN "dispose" ELSE "fill")
        /\ UNCHANGED <<ledger, files, answer, held, on, verdict, world, evaluators>>
    BY <2>1, <2>2, FoundMissing
  <2> QED BY <2>3 DEF ledger, files, world
<1>4. missing'[g] = found
  BY <1>1, <1>3 DEF CampaignInv, Shapes, Processes
<1>5. DOMAIN found = todo /\ \A k \in todo : found[k] = IF k = "model" THEN ModelCost(a) ELSE "zero"
  OBVIOUS
<1>6. /\ label \in {"dispose", "fill"} /\ (label = "fill" <=> todo # {})
      /\ todo = {} => Recorded(a) = BeforeBarrier
  BY <1>1 DEF BeforeBarrier
<1>7. Moves(g, a, label)
  BY <1>1, <1>3, LookMoves
<1> HIDE DEF label, found
<1>8. TrackInv(g)'
  <2>1. /\ CaseOf[g]' = c /\ attempts'[c] = a /\ pc'[g] = label /\ ~barrier'
        /\ (Kept(g)' <=> Kept(g)) /\ UNCHANGED <<held, expired>>
    BY <1>1, <1>3, <1>7 DEF Moves, Kept
  <2>2. DOMAIN missing'[g] = todo
        /\ \A k \in todo : missing'[g][k] = IF k = "model" THEN ModelCost(a) ELSE "zero"
    BY <1>4, <1>5
  <2> HIDE DEF todo
  <2>3. CASE label = "dispose"
    BY <1>1, <1>2, <1>6, <2>1, <2>3 DEF TrackInv, Failing, Open, Disposed, Called, Recorded
  <2>4. CASE label = "fill"
    <3>1. Recorded(a)' = Recorded(a) /\ ModelCost(a)' = ModelCost(a)
      BY <2>1 DEF Recorded, ModelCost, Called, Unmatched
    <3>2. Recorded(attempts'[c]) = Recorded(a) /\ ModelCost(attempts'[c]) = ModelCost(a)
      BY <2>1
    <3> QED BY <1>1, <1>2, <1>6, <2>1, <2>2, <2>4, <3>2
            DEF TrackInv, Failing, Open, Disposed, Called, todo
  <2> QED BY <1>6, <2>3, <2>4
<1> QED BY <1>1, <1>3, <1>7, <1>8, MoveTracks

LEMMA FillTracks ==
    ASSUME NEW g, Tracked(g), FillGenerationCosts(g)
    PROVE  TrackStep(g)
<1> DEFINE c == CaseOf[g]
           a == attempts[c]
           k == NextMissing(g)
           amount == missing[g][k]
           b == RecordCost(a, k, amount)
           label == IF DOMAIN missing[g] = {k} THEN "dispose" ELSE "fill"
<1>0. pc[g] = "fill" /\ pc[g] \in Failing
  BY DEF FillGenerationCosts, Failing
<1>1. /\ Of(g) = a /\ a.id = g /\ Sound(a, c) /\ Open(a) /\ Lawful(a)
      /\ a.disposition = "none" /\ ~barrier /\ CampaignInv /\ g \in Generators
      /\ g \in Processes /\ GeneratorInv(g)
      /\ "preparation" \in Recorded(a) /\ a.began \subseteq {"generation"}
      /\ Recorded(a) \subseteq BeforeBarrier
      /\ Kept(g) => Called(a) /\ a.usage = transaction[g]
      /\ \/ g \in expired
         \/ "generation" \in a.began /\ (a.candidate <=> held[g])
  BY <1>0, InFailure DEF Tracked
<1>2. /\ a.phase = "none" /\ DOMAIN missing[g] = {"model", "artifact"} \ Recorded(a)
      /\ \A j \in DOMAIN missing[g] :
             missing[g][j] = IF j = "model" THEN ModelCost(a) ELSE "zero"
  BY <1>0 DEF Tracked, TrackInv
<1>3. AppendMissing(g, g, "dispose", "done") /\ MissingInv(g)
  BY <1>0, <1>1 DEF FillGenerationCosts, GeneratorInv
<1>4. k \in DOMAIN missing[g]
  BY <1>1, <1>3, FillsMissing
<1>5. /\ k \in {"model", "artifact"} /\ k \notin Recorded(a) /\ k \in Categories
      /\ a.costs[k] = "absent" /\ amount = IF k = "model" THEN ModelCost(a) ELSE "zero"
  BY <1>2, <1>4 DEF Recorded, Categories, BeforeBarrier
<1>6. amount \in Amounts \ {"absent"}
  BY <1>1, <1>5, MeasuredIsKnown DEF ModelCost, Amounts, Sound
<1>7. MayRecordCost(a, k, amount)
  BY <1>1, <1>5 DEF MayRecordCost, ModelCost, Called, Unmatched, Sound, CallStates
<1> HIDE DEF k, amount
<1>8. /\ missing' = [missing EXCEPT ![g] = [j \in DOMAIN missing[g] \ {k} |-> missing[g][j]]]
      /\ Append(g, g, TRUE, b, label, "done")
      /\ UNCHANGED <<answer, held, expired>>
  BY <1>0, <1>1, <1>3, <1>7 DEF AppendMissing, k, amount
<1>9. Moves(g, b, label) /\ UNCHANGED <<consumed, transaction>>
  BY <1>1, <1>8, AppendMoves
<1>10. /\ DOMAIN missing'[g] = DOMAIN missing[g] \ {k}
       /\ \A j \in DOMAIN missing'[g] : missing'[g][j] = missing[g][j]
  BY <1>1, <1>8 DEF CampaignInv, Shapes
<1>11. /\ SamePhases(a, b) /\ b.call = a.call /\ b.usage = a.usage
       /\ b.candidate = a.candidate /\ Recorded(b) = Recorded(a) \cup {k}
  <2>1. Sound(a, c) /\ k \in Categories /\ amount \in Amounts \ {"absent"}
    BY <1>1, <1>5, <1>6
  <2> QED BY <2>1, CostFields
<1>12. Lawful(b)
  <2>1. /\ k # "preparation" /\ k \notin {"sandbox", "storage"}
        /\ k = "artifact" => amount # "unknown"
        /\ k = "model" /\ Kept(a.id) => amount \in {"unknown", transaction[a.id]}
    BY <1>1, <1>5 DEF ModelCost
  <2>2. Sound(a, c) /\ k \in Categories /\ amount \in Amounts \ {"absent"}
    BY <1>1, <1>5, <1>6
  <2> QED BY <1>1, <1>7, <2>1, <2>2, CostIsLawful
<1>13. /\ label \in {"dispose", "fill"} /\ (label = "fill" <=> DOMAIN missing'[g] # {})
       /\ DOMAIN missing'[g] = {"model", "artifact"} \ Recorded(b)
       /\ DOMAIN missing'[g] = {} => Recorded(b) = BeforeBarrier
  BY <1>1, <1>2, <1>4, <1>5, <1>10, <1>11 DEF BeforeBarrier
<1>14. \A j \in DOMAIN missing'[g] :
           missing'[g][j] = IF j = "model" THEN ModelCost(b) ELSE "zero"
  BY <1>2, <1>10, <1>11 DEF ModelCost, Called, Unmatched
<1> HIDE DEF b, label
<1>15. TrackInv(g)'
  <2>1. /\ CaseOf[g]' = c /\ attempts'[c] = b /\ pc'[g] = label /\ ~barrier'
        /\ (Kept(g)' <=> Kept(g)) /\ UNCHANGED <<held, expired>>
    BY <1>1, <1>8, <1>9 DEF Moves, Kept
  <2>2. /\ b.id = g /\ Open(b) /\ b.disposition = "none" /\ b.phase = "none"
        /\ "preparation" \in Recorded(b) /\ b.began \subseteq {"generation"}
        /\ Kept(g) => Called(b)
        /\ \/ g \in expired
           \/ "generation" \in b.began /\ (b.candidate <=> held[g])
    BY <1>1, <1>2, <1>11 DEF SamePhases, Open, Called
  <2>3. CASE label = "dispose"
    BY <1>13, <2>1, <2>2, <2>3 DEF TrackInv, Failing, Disposed
  <2>4. CASE label = "fill"
    BY <1>13, <1>14, <2>1, <2>2, <2>4 DEF TrackInv, Failing, Disposed
  <2> QED BY <1>13, <2>3, <2>4
<1> QED BY <1>1, <1>8, <1>9, <1>11, <1>12, <1>15, MoveTracks DEF SamePhases

\* With unknown spend, or past the wall-clock cap, something is on file that blocks.
LEMMA DisposeTracks ==
    ASSUME NEW g, Tracked(g), DisposeGeneration(g)
    PROVE  TrackStep(g)
<1> DEFINE c == CaseOf[g]
           a == attempts[c]
           status == IF held[g] THEN "candidate_submitted" ELSE "no_candidate"
           accepted == MayDispose(a, status)
           b == Dispose(a, status)
<1>0. pc[g] = "dispose" /\ pc[g] \in Failing
  BY DEF DisposeGeneration, Failing
<1>1. /\ Of(g) = a /\ a.id = g /\ Sound(a, c) /\ Open(a) /\ Lawful(a) /\ Regular(a)
      /\ a.disposition = "none" /\ ~barrier /\ CampaignInv /\ g \in Generators
      /\ a.began \subseteq {"generation"} /\ c \in Cases
      /\ \/ g \in expired
         \/ "generation" \in a.began /\ (a.candidate <=> held[g])
      /\ "generation" \in a.began /\ a.phase = "none" => "generation" \in a.ended
  BY <1>0, InFailure
<1>2. a.phase = "none" /\ Recorded(a) = BeforeBarrier
  BY <1>0 DEF Tracked, TrackInv
<1>3. CASE ~Known(a, "model") /\ Look(g, "crash")
  <2>1. UNCHANGED <<attempts, barrier, consumed, transaction, answer, held, missing, expired>>
    BY <1>3 DEF Look, ledger, files, locals, world
  <2>2. Moves(g, a, "crash")
    BY <1>1, <1>3, <2>1, LookMoves DEF Look
  <2>3. TrackInv(g)'
    BY <1>1, <2>1, <2>2 DEF Moves, TrackInv, Failing, Open, Disposed
  <2> QED BY <1>1, <2>1, <2>2, <2>3, MoveTracks
<1>4. CASE Known(a, "model") /\ AppendOnly(g, g, accepted, b, "done", "done")
  <2>1. status \in Dispositions /\ (status = "candidate_submitted" <=> held[g])
    BY DEF Dispositions
  <2>2. g \in expired \/ accepted
    <3>1. Known(a, "artifact")
      <4>1. a.costs["artifact"] \in Amounts
        BY <1>1 DEF Sound, Categories, BeforeBarrier
      <4>2. a.costs["artifact"] \notin {"absent", "unknown"}
        BY <1>1, <1>2 DEF Recorded, BeforeBarrier, Regular
      <4> QED BY <4>1, <4>2 DEF Known, Amounts
    <3> QED BY <1>1, <1>2, <1>4, <2>1, <3>1 DEF MayDispose
  <2> HIDE DEF status
  <2>3. CASE accepted
    <3>1. /\ Moves(g, b, "done")
          /\ UNCHANGED <<consumed, transaction, answer, held, missing, expired>>
      <4>1. AppendOnly(g, g, accepted, b, "done", "done") /\ accepted
        BY <1>4, <2>3
      <4> HIDE DEF accepted, b
      <4> QED BY <4>1, AcceptedMoves
    <3>2. /\ SameSpend(a, b) /\ SameCourse(a, b) /\ b.status = a.status
          /\ b.disposition = status
      BY <1>1, DisposeFields
    <3>3. Lawful(b)
      BY <1>1, <2>1, <2>3, LastIsLawful
    <3> HIDE DEF b
    <3>4. Waiting(b) /\ b.disposition # "none"
      BY <1>1, <1>2, <2>1, <3>2
      DEF Waiting, Open, SameSpend, SameCourse, Recorded, Dispositions
    <3>5. TrackInv(g)'
      BY <1>1, <3>1, <3>4 DEF Moves, TrackInv, Failing, Disposed
    <3> QED BY <1>1, <3>1, <3>2, <3>3, <3>4, <3>5, MoveTracks DEF SameSpend, SameCourse
  <2>4. CASE ~accepted
    <3>1. /\ Moves(g, a, "done") /\ attempts' = attempts
          /\ UNCHANGED <<consumed, transaction, held, expired>>
      <4>1. Append(g, g, accepted, b, "done", "done") /\ UNCHANGED <<held, expired>>
        BY <1>4 DEF AppendOnly, locals
      <4> HIDE DEF accepted, b
      <4> QED BY <1>1, <2>4, <4>1, AppendMoves
    <3>2. SomeBlocked'
      BY <1>1, <2>2, <2>4, <3>1 DEF SomeBlocked, Blocked
    <3>3. TrackInv(g)'
      BY <1>1, <3>1, <3>2 DEF Moves, TrackInv, Failing
    <3> QED BY <1>1, <3>1, <3>3, MoveTracks
  <2> QED BY <2>3, <2>4
<1> QED BY <1>1, <1>3, <1>4 DEF DisposeGeneration

LEMMA CrashTracks ==
    ASSUME NEW g, Tracked(g), CrashGeneration(g)
    PROVE  TrackStep(g)
<1> DEFINE c == CaseOf[g]
           a == attempts[c]
           b == Crash(a)
<1>1. /\ pc[g] = "crash" /\ Of(g) = a /\ a.id = g /\ Sound(a, c) /\ Open(a) /\ Lawful(a)
      /\ a.disposition = "none" /\ ~barrier /\ CampaignInv /\ g \in Generators /\ c \in Cases
  BY OnItsWay DEF CrashGeneration, Tracked, TrackInv
<1>2. MayCrash(a)
  BY <1>1 DEF MayCrash
<1>3. /\ Moves(g, b, "done")
      /\ UNCHANGED <<consumed, transaction, answer, held, missing, expired>>
  BY <1>1, <1>2, AcceptedMoves DEF CrashGeneration
<1>4. Sound(a, c)
  BY <1>1
<1>5. /\ SameSpend(a, b) /\ SameCourse(a, b) /\ b.status = "crashed"
      /\ b.disposition = a.disposition
  BY <1>4, CrashFields
<1>6. Lawful(b)
  BY <1>1, <1>2, LastIsLawful
<1> HIDE DEF b
<1>7. SomeBlocked'
  BY <1>1, <1>3, <1>5 DEF SomeBlocked, Blocked, Moves
<1>8. TrackInv(g)'
  BY <1>1, <1>3, <1>7 DEF Moves, TrackInv, Failing
<1> QED BY <1>1, <1>3, <1>5, <1>6, <1>8, MoveTracks DEF SameSpend, SameCourse

LEMMA GenerateTracks ==
    ASSUME NEW g, Tracked(g), UNCHANGED receipts, Generate(g)
    PROVE  TrackStep(g)
BY BeginTracks, RecordPreparationTracks, StartGenerationTracks, ConsumeTracks, BeginCallTracks,
   ProviderTracks, PersistTracks, SubmitTracks, EndCallTracks, RecordModelCostTracks,
   EndGenerationTracks, CheckGenerationTracks, ArtifactTracks, LookForPhaseTracks,
   ClosePhaseTracks, EnsureCostsTracks, FillTracks, DisposeTracks, CrashTracks
DEF Generate

LEMMA GeneratingHalts ==
    ASSUME CampaignInv, HaltInv, Generating
    PROVE  HaltInv'
<1>1. turn \in DOMAIN CaseList /\ Now' = Now /\ at = "generating" /\ UNCHANGED controller
  BY DEF Generating, controller, CampaignInv, ProgressInv, InCase, Now
<1>2. PICK g \in Generators : g = GeneratorFor(Now) /\ CaseOf[g] = Now /\ CaseOf[g] \in Cases
  BY <1>1, NowIsCase
<1> DEFINE c == CaseOf[g]
<1>3. GeneratorInv(g) /\ Generate(g) /\ TrackInv(g) /\ UNCHANGED evaluation
  BY <1>1, <1>2 DEF Generating, CampaignInv, CallInv, HaltInv, WorkInv
<1>4. Tracked(g)
  <2>1. g \in Processes /\ g # NoOne /\ AttemptInv(c) /\ OwnInv(g) /\ Sound(attempts[c], c)
    BY <1>2, AttemptAssumption DEF Processes, HaltInv, CampaignInv
  <2>2. attempts[c].id = g => Of(g) = attempts[c]
    BY DEF Of
  <2> QED BY <1>2, <1>3, <2>1, <2>2 DEF Tracked, AttemptInv, HaltInv
<1>5. TrackStep(g) /\ GenerationStep(g)
  BY <1>2, <1>3, <1>4, GenerateTracks, GenerateSteps DEF evaluation
<1>6. CallStep(c, g)
  <2>1. /\ Extends(attempts[c], attempts'[c])
        /\ \A d \in Cases \ {c} : attempts'[d] = attempts[d]
    BY <1>2, <1>5, AdvancesOne DEF GenerationStep
  <2> QED BY <1>1, <1>3, <1>5, <2>1 DEF CallStep, TrackStep, evaluation
<1>7. OwnInv(g)'
  <2>1. OwnInv(g) /\ receipts' = receipts /\ g # NoOne /\ NoAttempt.id = NoOne
    BY <1>3, <1>4 DEF Tracked, evaluation, NoAttempt
  <2>2. CASE attempts'[c].id = g
    <3>1. Of(g)' = attempts'[c] /\ Of(g)' # NoAttempt
      BY <2>1, <2>2 DEF Of
    <3>2. attempts[c].began \subseteq attempts'[c].began
      BY <1>5 DEF TrackStep
    <3>3. receipts[g] # NoFile => "differential" \in attempts[c].began
      <4>1. Of(g).began \subseteq attempts[c].began
        BY DEF Of, NoAttempt
      <4> QED BY <2>1, <4>1 DEF OwnInv
    <3> QED BY <2>1, <3>1, <3>2, <3>3 DEF OwnInv
  <2>3. CASE attempts' = attempts /\ UNCHANGED <<transaction, held>>
    BY <2>1, <2>3 DEF OwnInv, Of, Kept
  <2> QED BY <1>5, <2>2, <2>3 DEF TrackStep
<1>8. WorkInv'
  <2>1. /\ at' = "generating" /\ TrackInv(g)' /\ g = GeneratorFor(Now)' /\ kept' = kept
        /\ \A o \in Operators : ~kept[o]
    BY <1>1, <1>2, <1>3, <1>5 DEF TrackStep, evaluation, controller, HaltInv, WorkInv
  <2> QED BY <2>1 DEF WorkInv, InEvaluation
<1>9. AttemptInv(c)' /\ kept' = [o \in Operators |-> kept'[o]]
  BY <1>3, <1>5 DEF TrackStep, evaluation, HaltInv
<1> QED BY <1>1, <1>2, <1>6, <1>7, <1>8, <1>9, CallKeeps

-----------------------------------------------------------------------------
(* recover_v02_scored_case, followed to what it leaves *)

\* The controller waits for recovery o of attempt g of case c.
Followed(o, g, c) ==
    /\ CampaignInv /\ HaltInv /\ at = "recovering" /\ UNCHANGED <<controller, evaluation>>
    /\ turn \in DOMAIN CaseList /\ o \in Operators /\ o = OperatorFor(Now) /\ CaseFor[o] = c
    /\ g \in Generators /\ g = on[o] /\ CaseOf[g] = c /\ c \in Cases /\ c = Now
    /\ RecoveryInv(o) /\ ReplayInv(o) /\ RecoveryStep(o)
    /\ Of(g) = attempts[c] /\ attempts[c].id = g /\ Sound(attempts[c], c) /\ Lawful(attempts[c])

\* What its step is.
Replayer(o, b, label) ==
    /\ attempts'[Now] = b /\ pc'[o] = label
    /\ UNCHANGED <<barrier, consumed, held>> /\ expired \subseteq expired'

\* What the attempt is like where the recovery goes to.
Reached(b, c, label) ==
    /\ b.status \in {"open", "crashed"}
    /\ label \in {"recover", "crash_recovery"} \cup Replaying => b.disposition = "none"
    /\ label \in Replaying => Open(b) /\ b.recovered
    /\ label = "crash_recovery" => (Open(b) /\ b.recovered) \/ Blocked(c)'
    /\ label = "done" => b.disposition # "none" \/ Blocked(c)'

LEMMA ReplayKeeps ==
    ASSUME NEW o, NEW g, NEW c, Followed(o, g, c), NEW b, NEW label, Replayer(o, b, label),
           Lawful(b), b.id = g, attempts[c].began \subseteq b.began,
           b.disposition # "none" => Waiting(b), Reached(b, c, label)
    PROVE  HaltInv'
<1>1. /\ attempts'[c] = b /\ Of(g)' = b /\ b # NoAttempt /\ ~barrier' /\ Now' = Now
      /\ UNCHANGED <<transaction, consumed, held, receipts, kept, on>>
  BY AttemptAssumption
  DEF Followed, Replayer, ReplayInv, RecoveryStep, Of, NoAttempt, evaluation, controller, Now
<1>2. AttemptInv(c)'
  <2>1. Lawful(attempts[c])'
    BY <1>1 DEF Lawful, Left, Kept, Regular, Recorded, Unmatched, Known
  <2>2. Disposed(c)' => Waiting(attempts[c])'
    BY <1>1 DEF Disposed, Waiting, Open, Recorded
  <2> QED BY <1>1, <2>1, <2>2 DEF AttemptInv
<1>3. OwnInv(g)'
  BY <1>1 DEF Followed, HaltInv, OwnInv
<1>4. WorkInv'
  <2>1. ReplayInv(o)'
    BY <1>1 DEF ReplayInv, Replayer, Reached, Followed, Disposed, Open
  <2>2. \A p \in Operators : ~kept[p]
    BY DEF Followed, HaltInv, WorkInv
  <2>3. at' = "recovering" /\ o = OperatorFor(Now)'
    BY <1>1 DEF Followed, controller
  <2> QED BY <1>1, <2>1, <2>2, <2>3 DEF WorkInv, InEvaluation
<1>5. CallStep(c, g)
  <2>1. /\ Extends(attempts[c], attempts'[c])
        /\ \A d \in Cases \ {c} : attempts'[d] = attempts[d]
    BY AdvancesOne DEF Followed, RecoveryStep
  <2> QED BY <1>1, <2>1 DEF CallStep, Followed, Replayer, HaltInv
<1>6. ~Fresh(c)
  BY AttemptAssumption DEF Fresh, Followed, NoAttempt
<1>7. kept' = [p \in Operators |-> kept'[p]]
  BY <1>1 DEF Followed, HaltInv
<1> QED BY <1>2, <1>3, <1>4, <1>5, <1>6, <1>7, CallKeeps DEF Followed

LEMMA LookReplays ==
    ASSUME NEW o, NEW g, NEW c, Followed(o, g, c), NEW label, Look(o, label)
    PROVE  Replayer(o, attempts[c], label)
BY DEF Replayer, Look, Goto, ledger, files, locals, world, Followed, CampaignInv, Shapes,
       Processes

LEMMA AppendReplays ==
    ASSUME NEW o, NEW g, NEW c, Followed(o, g, c), NEW accepted, NEW new, NEW next,
           NEW rejected, AppendOnly(o, g, accepted, new, next, rejected)
    PROVE  /\ accepted => Replayer(o, new, next)
           /\ ~accepted => Replayer(o, attempts[c], rejected)
           /\ UNCHANGED expired /\ (~accepted => attempts' = attempts)
BY DEF Replayer, AppendOnly, Append, Goto, files, locals, Followed, CampaignInv, Shapes,
       Processes

\* A step that changes no attempt.
LEMMA StillReplays ==
    ASSUME NEW o, NEW g, NEW c, Followed(o, g, c), NEW label,
           Replayer(o, attempts[c], label), ~Disposed(c),
           \/ label \in Replaying /\ Open(attempts[c]) /\ attempts[c].recovered
           \/ label = "crash_recovery" /\ Open(attempts[c]) /\ attempts[c].recovered
           \/ label \in {"crash_recovery", "done"} /\ Blocked(c)'
    PROVE  HaltInv'
<1>1. attempts[c].status \in {"open", "crashed"} /\ attempts[c].disposition = "none"
  BY DEF Followed, ReplayInv, Disposed
<1>2. "crash_recovery" \notin Replaying /\ "done" \notin Replaying
  BY DEF Replaying, Replays
<1>3. Reached(attempts[c], c, label)
  BY <1>1, <1>2 DEF Reached
<1>4. Lawful(attempts[c]) /\ attempts[c].id = g
  BY DEF Followed
<1> QED BY <1>1, <1>3, <1>4, ReplayKeeps

\* What blocks a case stays on file.
LEMMA BlockedStays ==
    ASSUME NEW c, Blocked(c), UNCHANGED <<attempts, transaction>>, expired \subseteq expired',
           receipts' = receipts,
           attempts[c].id # NoOne \/ (DirectoryIsNew(c)' => DirectoryIsNew(c))
    PROVE  Blocked(c)'
<1> DEFINE a == attempts[c]
<1>1. CASE Unaffordable(a)
  BY <1>1 DEF Blocked, Unaffordable
<1>2. CASE a.status = "crashed" \/ a.id \in expired
  BY <1>2 DEF Blocked
<1>3. CASE a = NoAttempt /\ ~DirectoryIsNew(c)
  <2>1. attempts'[c] = NoAttempt /\ ~DirectoryIsNew(c)'
    BY <1>3 DEF NoAttempt
  <2> QED BY <2>1 DEF Blocked
<1>4. CASE a.status = "open" /\ a.disposition = "none" /\ ~Kept(a.id)
  BY <1>4 DEF Blocked, Kept
<1>5. CASE a.status = "open" /\ a.disposition = "candidate_submitted" /\ ~WithinReservation(a)
  BY <1>5 DEF Blocked, WithinReservation
<1>6. CASE /\ a.status = "open" /\ a.disposition # "none"
           /\ \/ "result_write" \in a.began
              \/ /\ receipts[a.id] \in {NoFile, Unverifiable}
                 /\ "differential" \in a.began \/ Recorded(a) # BeforeBarrier
  BY <1>6 DEF Blocked, Recorded
<1> QED BY <1>1, <1>2, <1>3, <1>4, <1>5, <1>6 DEF Blocked

\* Nothing is in doubt of the others, and they fit below the cap.
LEMMA OthersAreReconciled ==
    ASSUME NEW o, NEW g, NEW c, Followed(o, g, c), ~Disposed(c)
    PROVE  OthersReconciled(g)
<1>1. ASSUME NEW d \in Cases \ {c}
      PROVE  /\ ~Unmatched(attempts[d]) /\ (Called(attempts[d]) => Known(attempts[d], "model"))
             /\ ~Terminal(attempts[d])
  <2>1. PICK n \in DOMAIN CaseList : CaseList[n] = d
    BY CampaignAssumption
  <2>2. n # turn /\ n \in Nat /\ turn \in Nat
    <3>1. Cardinality(Cases) \in Nat /\ DOMAIN CaseList = 1 .. Cardinality(Cases)
      BY CampaignAssumption, FS_CardinalityType
    <3> QED BY <2>1, <3>1 DEF Followed, Now
  <2>3. OrderInv /\ AttemptInv(d) /\ ~barrier /\ ~Fresh(c)
    BY AttemptAssumption DEF Followed, HaltInv, ReplayInv, Fresh, NoAttempt
  <2>4. CASE n < turn
    <3>1. Disposed(d)
      BY <2>1, <2>3, <2>4 DEF OrderInv, InGeneration, Followed, Now
    <3>2. Known(attempts[d], "model") /\ Open(attempts[d])
      BY <2>3, <3>1 DEF AttemptInv, Lawful, Regular, Waiting, Disposed
    <3>3. ~Unmatched(attempts[d])
      <4>1. Unmatched(attempts[d]) => attempts[d].costs["model"] \in {"absent", "unknown"}
        BY <2>3 DEF AttemptInv, Lawful, Regular
      <4> QED BY <3>2, <4>1, MeasuredIsKnown DEF Known
    <3> QED BY <3>2, <3>3 DEF Open, Terminal
  <2>5. CASE n > turn
    <3>1. attempts[d] = NoAttempt
      BY <2>1, <2>3, <2>5 DEF OrderInv, InGeneration, Followed, Now, Fresh
    <3> QED BY <3>1 DEF NoAttempt, Unmatched, Called, Terminal
  <2> QED BY <2>2, <2>4, <2>5
<1>2. Cardinality({d \in Cases \ {c} : Open(attempts[d])}) + 1 <= Cap
  <2> DEFINE S == {d \in Cases \ {c} : Open(attempts[d])}
  <2>1. S \subseteq Cases \ {c} /\ c \in Cases
    BY DEF Followed
  <2> HIDE DEF S
  <2>2. Cardinality(S) + 1 <= Cap
    BY <2>1, ReservationFits
  <2> QED BY <2>2 DEF S
<1>3. CaseOf[g] = c
  BY DEF Followed
<1> QED BY <1>1, <1>2, <1>3 DEF OthersReconciled

\* What is not recoverable is blocked: an attempt that is open, with its transaction and
\* no cost that nobody knows, is accepted for recovery.
LEMMA StartRecoveryReplays ==
    ASSUME NEW o, NEW g, NEW c, Followed(o, g, c), StartRecovery(o)
    PROVE  HaltInv'
<1> DEFINE a == attempts[c]
           recoverable == Kept(g) /\ consumed[c] = g /\ PreflightRecovery(g)
           accepted == recoverable /\ MayRecover(a)
           b == Recover(a)
<1>1. /\ pc[o] = "recover" /\ Of(g) = a /\ a.id = g /\ Sound(a, c) /\ Lawful(a) /\ ~barrier
      /\ a.status \in {"open", "crashed"} /\ a.disposition = "none" /\ ~Disposed(c)
      /\ CaseOf[g] = c /\ on[o] = g /\ Now = c
  BY DEF StartRecovery, Followed, ReplayInv, Disposed
<1>2. Regular(a) /\ Left(a)
  BY <1>1 DEF Lawful
<1>3. "candidate" \in Replaying
  BY DEF Replaying, Replays
<1>4. CASE recoverable /\ a.recovered /\ Look(o, "candidate")
  <2>1. Open(a)
    BY <1>1, <1>4 DEF PreflightRecovery
  <2> QED BY <1>1, <1>3, <1>4, <2>1, LookReplays, StillReplays
<1>5. ASSUME ~(recoverable /\ a.recovered), AppendOnly(o, g, accepted, b, "candidate", "crash_recovery")
      PROVE  HaltInv'
  <2>1. CASE accepted
    <3>1. Replayer(o, b, "candidate")
      <4> HIDE DEF accepted, b
      <4> QED BY <1>5, <2>1, AppendReplays
    <3>2. /\ SameSpend(a, b) /\ SameCourse(a, b) /\ b.status = "open" /\ b.recovered = TRUE
          /\ b.disposition = a.disposition
      BY <1>1, RecoverFields
    <3>3. Lawful(b)
      BY <1>1, <2>1, LastIsLawful
    <3> HIDE DEF b
    <3>4. Reached(b, c, "candidate")
      BY <1>1, <1>3, <3>2 DEF Reached, Open
    <3> QED BY <1>1, <3>1, <3>2, <3>3, <3>4, ReplayKeeps DEF SameSpend, SameCourse
  <2>2. CASE ~accepted
    <3>1. Replayer(o, a, "crash_recovery") /\ UNCHANGED <<attempts, expired>>
      <4> HIDE DEF accepted, b
      <4> QED BY <1>5, <2>2, AppendReplays
    <3>2. Blocked(c)
      <4> SUFFICES ASSUME ~Blocked(c) PROVE FALSE
        OBVIOUS
      <4>1. a.status = "open" /\ Kept(g) /\ \A k \in Categories : a.costs[k] # "unknown"
        <5>1. ~Unaffordable(a) /\ a.status # "crashed"
              /\ ~(a.status = "open" /\ a.disposition = "none" /\ ~Kept(a.id))
          BY DEF Blocked
        <5> HIDE DEF a
        <5>2. \A k \in Categories : a.costs[k] # "unknown"
          BY <5>1 DEF Unaffordable
        <5> QED BY <1>1, <5>1, <5>2
      <4>2. OthersReconciled(g)
        BY <1>1, OthersAreReconciled
      <4>3. /\ consumed[c] = g /\ "generation" \in a.began
            /\ a.call = "started" \/ (a.call = "succeeded" /\ a.usage = transaction[g])
            /\ a.costs["model"] \in {"absent", transaction[g]} /\ "preparation" \in Recorded(a)
        BY <1>1, <1>2, <4>1 DEF Left, Recorded, Categories, BeforeBarrier
      <4>4. \A event \in {"call", "cost"} :
                Found(a, event) => Agrees(a, event, transaction[g])
        BY <4>3 DEF Found, Agrees, Called
      <4>5. a.began \cap {"differential", "result_write"} = {} /\ Recorded(a) \subseteq BeforeBarrier
        BY <1>1, <1>2 DEF Regular
      <4>6. recoverable
        BY <1>1, <4>1, <4>2, <4>3, <4>4, <4>5 DEF PreflightRecovery, Open
      <4>7. MayRecover(a)
        <5>1. ~a.recovered
          BY <1>2, <1>5, <4>6 DEF Regular
        <5> QED BY <1>2, <4>1, <4>3, <5>1 DEF MayRecover, Regular
      <4> QED BY <2>2, <4>6, <4>7
    <3>3. UNCHANGED <<transaction, receipts>>
      BY DEF Followed, RecoveryStep, evaluation
    <3>4. Blocked(c)'
      BY <1>1, <3>1, <3>2, <3>3, BlockedStays, AttemptAssumption DEF Followed
    <3> QED BY <1>1, <3>1, <3>4, StillReplays
  <2> QED BY <2>1, <2>2
<1>6. \/ recoverable /\ a.recovered /\ Look(o, "candidate")
      \/ /\ ~(recoverable /\ a.recovered)
         /\ AppendOnly(o, g, accepted, b, "candidate", "crash_recovery")
  BY <1>1 DEF StartRecovery
<1> QED BY <1>4, <1>5, <1>6

\* What is known of a recovery that replays.
LEMMA InReplay ==
    ASSUME NEW o, NEW g, NEW c, Followed(o, g, c), pc[o] \in Replaying
    PROVE  LET a == attempts[c] IN
           /\ Of(g) = a /\ a.id = g /\ Sound(a, c) /\ Lawful(a) /\ Regular(a)
           /\ Open(a) /\ a.recovered /\ a.disposition = "none" /\ ~Disposed(c)
           /\ Kept(g) /\ transaction[g] \in Usages /\ c \in Cases /\ c = Now /\ on[o] = g
<1> DEFINE a == attempts[c]
<1>1. /\ Of(g) = a /\ a.id = g /\ Sound(a, c) /\ Lawful(a) /\ Regular(a)
      /\ c \in Cases /\ c = Now /\ on[o] = g /\ g \in Generators
  BY DEF Followed, Lawful
<1>2. Open(a) /\ a.recovered /\ a.disposition = "none" /\ ~Disposed(c) /\ Kept(g)
  BY DEF Followed, ReplayInv, RecoveryInv, Disposed
<1>3. transaction[g] \in Usages
  BY <1>1, <1>2 DEF Followed, CampaignInv, FilesInv, Kept
<1> QED BY <1>1, <1>2, <1>3

LEMMA LookForEventReplays ==
    ASSUME NEW o, NEW g, NEW c, Followed(o, g, c), NEW event \in DOMAIN Replays,
           LookForEvent(o, event)
    PROVE  HaltInv'
<1> DEFINE a == attempts[c]
<1>1. pc[o] \in Replaying
  BY ReplayLabels DEF LookForEvent
<1>2. /\ Of(g) = a /\ Open(a) /\ a.recovered /\ a.disposition = "none" /\ ~Disposed(c)
      /\ on[o] = g
  BY <1>1, InReplay
<1>3. PICK label \in {Replays[event], AfterReplay[event], "crash_recovery"} :
          Look(o, label) /\ (label = AfterReplay[event] => Found(a, event))
  <2>1. CASE ~Found(a, event)
    <3>1. Look(o, Replays[event])
      BY <1>2, <2>1 DEF LookForEvent
    <3>2. Replays[event] # AfterReplay[event]
      BY DEF Replays, AfterReplay
    <3> QED BY <3>1, <3>2
  <2>2. CASE Found(a, event)
    BY <1>2, <2>2 DEF LookForEvent
  <2> QED BY <2>1, <2>2
<1>4. label \in Replaying \/ label = "crash_recovery"
  <2>1. event = "disposition" => ~Found(a, event)
    BY <1>2 DEF Found
  <2>2. event # "disposition" => AfterReplay[event] \in Replaying
    BY DEF AfterReplay, Replaying, Replays
  <2> QED BY <1>3, <2>1, <2>2, ReplayLabels
<1>5. Replayer(o, a, label)
  BY <1>3, LookReplays
<1> QED BY <1>2, <1>4, <1>5, StillReplays

\* What is replayed makes a lawful attempt, which is disposed of at the end.
LEMMA ReplayIsLawful ==
    ASSUME NEW c, NEW a, Sound(a, c), Lawful(a), Open(a), Kept(a.id),
           a.disposition = "none", transaction[a.id] \in Usages,
           NEW event \in DOMAIN Replays,
           NEW usage \in IF event = "artifact" THEN Measures ELSE {transaction[a.id]},
           Accepted(a, event, usage)
    PROVE  LET b == Replayed(a, event, usage) IN
           /\ Lawful(b) /\ b.id = a.id /\ a.began \subseteq b.began /\ Open(b)
           /\ b.recovered = a.recovered
           /\ b.disposition = IF event = "disposition" THEN "candidate_submitted" ELSE "none"
           /\ b.disposition # "none" => Waiting(b)
<1> DEFINE b == Replayed(a, event, usage)
<1>0. /\ event # "artifact" => usage = transaction[a.id]
      /\ event = "artifact" => usage \in Measures
      /\ usage \in Usages /\ Measures \subseteq Measured
      /\ Usages \subseteq Amounts \ {"absent"} /\ "unknown" \notin Measured
  BY MeasuredIsKnown DEF Amounts
<1>1. CASE event = "candidate"
  <2>1. MaySubmit(a) /\ b = Submit(a)
    BY <1>1 DEF Accepted, Replayed
  <2>2. Lawful(b) /\ SamePhases(a, b)
    BY <2>1, CallIsLawful, CallFields
  <2> QED BY <1>1, <2>2 DEF SamePhases, Open
<1>2. CASE event = "call"
  <2>1. MayFinishCall(a, "succeeded") /\ b = FinishCall(a, "succeeded", usage)
    BY <1>2 DEF Accepted, Replayed
  <2>2. Lawful(b)
    BY <1>0, <1>2, <2>1, CallIsLawful
  <2>3. SamePhases(a, b)
    BY <1>0, <2>1, EndCallFields
  <2> QED BY <1>2, <2>2, <2>3 DEF SamePhases, Open
<1>3. ASSUME NEW k \in {"model", "artifact"}, NEW amount \in Usages, MayRecordCost(a, k, amount),
             k = "model" => amount = transaction[a.id], k = "artifact" => amount \in Measured,
             b = RecordCost(a, k, amount), event # "disposition"
      PROVE  /\ Lawful(b) /\ b.id = a.id /\ a.began \subseteq b.began /\ Open(b)
             /\ b.recovered = a.recovered /\ b.disposition = "none"
  <2>1. k \in Categories /\ amount \in Amounts \ {"absent"} /\ k # "preparation"
        /\ k \notin {"sandbox", "storage"}
    BY <1>0 DEF Categories, BeforeBarrier
  <2>2. SamePhases(a, b)
    BY <1>3, <2>1, CostFields
  <2>3. Lawful(b)
    BY <1>0, <1>3, <2>1, CostIsLawful
  <2> HIDE DEF b
  <2> QED BY <2>2, <2>3 DEF SamePhases, Open
<1>4. CASE event = "cost"
  <2>1. MayRecordCost(a, "model", usage) /\ b = RecordCost(a, "model", usage)
    BY <1>4 DEF Accepted, Replayed
  <2> HIDE DEF b
  <2> QED BY <1>0, <1>3, <1>4, <2>1 DEF b
<1>5. CASE event = "artifact"
  <2>1. MayRecordCost(a, "artifact", usage) /\ b = RecordCost(a, "artifact", usage)
    BY <1>5 DEF Accepted, Replayed
  <2> HIDE DEF b
  <2> QED BY <1>0, <1>3, <1>5, <2>1 DEF b
<1>6. CASE event = "phase"
  <2>1. MayFinishPhase(a, "generation", "succeeded") /\ b = FinishPhase(a, "succeeded")
        /\ "generation" \in Phases
    BY <1>6 DEF Accepted, Replayed, Phases
  <2>2. Lawful(b)
    BY <2>1, EndIsLawful
  <2>3. /\ SameSpend(a, b) /\ b.status = a.status /\ b.disposition = a.disposition
        /\ b.recovered = a.recovered /\ b.began = a.began
    BY <2>1, EndFields
  <2> QED BY <1>6, <2>2, <2>3 DEF SameSpend, Open
<1>7. CASE event = "disposition"
  <2>1. MayDispose(a, "candidate_submitted") /\ b = Dispose(a, "candidate_submitted")
        /\ "candidate_submitted" \in Dispositions
    BY <1>7 DEF Accepted, Replayed, Dispositions
  <2>2. Lawful(b)
    BY <2>1, LastIsLawful
  <2>3. /\ SameSpend(a, b) /\ SameCourse(a, b) /\ b.status = a.status
        /\ b.recovered = a.recovered /\ b.disposition = "candidate_submitted"
    BY <2>1, DisposeFields
  <2>4. Recorded(a) = BeforeBarrier /\ a.began \cap {"differential", "result_write"} = {}
    BY <2>1 DEF MayDispose, Lawful, Regular
  <2> HIDE DEF b
  <2>5. Waiting(b)
    <3>1. b.status = "open" /\ b.costs = a.costs /\ b.began = a.began
      BY <2>3 DEF SameSpend, SameCourse, Open
    <3>2. Recorded(b) = Recorded(a)
      BY <3>1 DEF Recorded
    <3> QED BY <2>4, <3>1, <3>2 DEF Waiting, Open
  <2>6. /\ b.id = a.id /\ a.began \subseteq b.began /\ Open(b) /\ b.recovered = a.recovered
        /\ b.disposition = "candidate_submitted"
    BY <2>3 DEF SameSpend, SameCourse, Open
  <2> QED BY <1>7, <2>2, <2>5, <2>6 DEF b
<1>8. event \in {"candidate", "call", "cost", "phase", "artifact", "disposition"}
  BY DEF Replays
<1> HIDE DEF b
<1> QED BY <1>1, <1>2, <1>4, <1>5, <1>6, <1>7, <1>8 DEF b

LEMMA ReplayEventReplays ==
    ASSUME NEW o, NEW g, NEW c, Followed(o, g, c), NEW event \in DOMAIN Replays,
           ReplayEvent(o, event)
    PROVE  HaltInv'
<1> DEFINE a == attempts[c]
<1>1. pc[o] \in Replaying
  BY ReplayLabels DEF ReplayEvent
<1>2. /\ Of(g) = a /\ a.id = g /\ Sound(a, c) /\ Lawful(a) /\ Open(a) /\ a.recovered
      /\ a.disposition = "none" /\ ~Disposed(c) /\ Kept(g) /\ transaction[g] \in Usages
      /\ on[o] = g
  BY <1>1, InReplay
<1>3. PICK amount \in IF event = "artifact" THEN Measures ELSE {transaction[g]} :
          AppendOnly(o, g, Accepted(a, event, amount), Replayed(a, event, amount),
                     AfterReplay[event], "crash_recovery")
  <2>1. o \in Operators
    BY DEF Followed
  <2> HIDE DEF a
  <2> QED BY <1>2, <2>1, ReplayAppends
<1> DEFINE accepted == Accepted(a, event, amount)
           b == Replayed(a, event, amount)
<1>6. AppendOnly(o, g, accepted, b, AfterReplay[event], "crash_recovery")
  BY <1>3
<1>4. CASE ~accepted
  <2>1. Replayer(o, a, "crash_recovery")
    <3> HIDE DEF accepted, b
    <3> QED BY <1>4, <1>6, AppendReplays
  <2> QED BY <1>2, <2>1, StillReplays
<1>5. CASE accepted
  <2>1. Replayer(o, b, AfterReplay[event])
    <3> HIDE DEF accepted, b
    <3> QED BY <1>5, <1>6, AppendReplays
  <2>2. /\ Lawful(b) /\ b.id = g /\ a.began \subseteq b.began /\ Open(b) /\ b.recovered
        /\ b.disposition = IF event = "disposition" THEN "candidate_submitted" ELSE "none"
        /\ b.disposition # "none" => Waiting(b)
    BY <1>2, <1>5, ReplayIsLawful
  <2> HIDE DEF b
  <2>3. /\ event = "disposition" <=> AfterReplay[event] = "done"
        /\ AfterReplay[event] \in Replaying \cup {"done"}
        /\ {"done", "crash_recovery", "recover"} \cap Replaying = {}
    BY DEF AfterReplay, Replaying, Replays
  <2>4. Reached(b, c, AfterReplay[event])
    BY <2>2, <2>3 DEF Reached, Open
  <2> QED BY <2>1, <2>2, <2>4, ReplayKeeps
<1> QED BY <1>4, <1>5

LEMMA CrashReplays ==
    ASSUME NEW o, NEW g, NEW c, Followed(o, g, c), Open(attempts[c]),
           Replayer(o, Crash(attempts[c]), "done"), ~Disposed(c)
    PROVE  HaltInv'
<1> DEFINE a == attempts[c]
           b == Crash(a)
<1>1. Sound(a, c) /\ Lawful(a) /\ MayCrash(a) /\ a.id = g /\ a.disposition = "none"
      /\ c \in Cases /\ c = Now
  BY DEF Followed, MayCrash, Disposed
<1>2. /\ SameSpend(a, b) /\ SameCourse(a, b) /\ b.status = "crashed"
      /\ b.disposition = a.disposition
  BY <1>1, CrashFields
<1>3. Lawful(b)
  BY <1>1, LastIsLawful
<1> HIDE DEF b
<1>4. attempts'[c] = b
  BY <1>1 DEF Replayer, b
<1>5. Blocked(c)'
  BY <1>2, <1>4 DEF Blocked
<1>6. Reached(b, c, "done")
  BY <1>1, <1>2, <1>5 DEF Reached, Replaying, Replays
<1> QED BY <1>1, <1>2, <1>3, <1>6, ReplayKeeps DEF SameSpend, SameCourse, b

LEMMA CheckReplays ==
    ASSUME NEW o, NEW g, NEW c, Followed(o, g, c),
           CheckSpend(o) \/ CheckWall(o) \/ CheckReservation(o)
    PROVE  HaltInv'
<1> DEFINE a == attempts[c]
<1>1. pc[o] \in Replaying
  BY DEF CheckSpend, CheckWall, CheckReservation, Replaying
<1>2. /\ Of(g) = a /\ a.id = g /\ Open(a) /\ a.recovered /\ ~Disposed(c) /\ on[o] = g
      /\ g # NoOne /\ {"phase", "artifact", "disposition"} \subseteq Replaying /\ c = Now /\ CampaignInv
      /\ o \in Operators
  BY <1>1, InReplay, AttemptAssumption DEF Followed, Replaying, Replays
<1>3. CASE CheckWall(o)
  <2>1. PICK label \in {"crash_recovery", "artifact"} :
            /\ Goto(o, label) /\ expired \subseteq expired'
            /\ UNCHANGED <<attempts, barrier, consumed, held>>
    BY <1>3 DEF CheckWall, Clock, ledger, files, locals
  <2>2. Replayer(o, a, label)
    BY <1>2, <2>1 DEF Replayer, Goto, CampaignInv, Shapes, Processes
  <2> QED BY <1>2, <2>2, StillReplays
<1>4. CASE CheckSpend(o)
  <2>1. CASE Look(o, "phase")
    BY <1>2, <2>1, LookReplays, StillReplays
  <2>2. CASE AppendOnly(o, g, MayCrash(a), Crash(a), "done", "done")
    <3>1. MayCrash(a)
      BY <1>2 DEF MayCrash
    <3>2. Replayer(o, Crash(a), "done")
      BY <2>2, <3>1, AppendReplays
    <3> QED BY <1>2, <3>2, CrashReplays
  <2> QED BY <1>2, <1>4, <2>1, <2>2 DEF CheckSpend
<1>5. CASE CheckReservation(o)
  <2>1. PICK label \in {"crash_recovery", "disposition"} : Look(o, label)
    BY <1>5 DEF CheckReservation
  <2> QED BY <1>2, <2>1, LookReplays, StillReplays
<1> QED BY <1>3, <1>4, <1>5

LEMMA CrashRecoveryReplays ==
    ASSUME NEW o, NEW g, NEW c, Followed(o, g, c), CrashRecovery(o)
    PROVE  HaltInv'
<1> DEFINE a == attempts[c]
           accepted == a.recovered /\ MayCrash(a)
<1>1. /\ pc[o] = "crash_recovery" /\ Of(g) = a /\ on[o] = g /\ ~Disposed(c)
      /\ (Open(a) /\ a.recovered) \/ Blocked(c)
  BY DEF CrashRecovery, Followed, ReplayInv
<1>2. AppendOnly(o, g, accepted, Crash(a), "done", "done")
  BY <1>1 DEF CrashRecovery
<1>3. CASE accepted
  <2>1. Replayer(o, Crash(a), "done")
    BY <1>2, <1>3, AppendReplays
  <2> QED BY <1>1, <1>3, <2>1, CrashReplays DEF MayCrash
<1>4. CASE ~accepted
  <2>1. Replayer(o, a, "done") /\ UNCHANGED <<attempts, expired>> /\ Blocked(c)
    <3>1. Blocked(c)
      BY <1>1, <1>4 DEF MayCrash
    <3> HIDE DEF accepted
    <3> QED BY <1>2, <1>4, <3>1, AppendReplays
  <2>2. UNCHANGED <<transaction, receipts>>
    BY DEF Followed, RecoveryStep, evaluation
  <2>3. Blocked(c)'
    BY <1>1, <2>1, <2>2, BlockedStays, AttemptAssumption DEF Followed
  <2> QED BY <1>1, <2>1, <2>3, StillReplays
<1> QED BY <1>3, <1>4

LEMMA RecoveringHalts ==
    ASSUME CampaignInv, HaltInv, Recovering
    PROVE  HaltInv'
<1>1. turn \in DOMAIN CaseList /\ at = "recovering" /\ UNCHANGED <<controller, evaluation>>
  BY DEF Recovering, CampaignInv, ProgressInv, InCase
<1>2. PICK o \in Operators : o = OperatorFor(Now) /\ CaseFor[o] = Now
  BY <1>1, NowIsCase
<1>3. PICK c \in Cases : c = Now
  BY <1>1, NowIsCase
<1>4. RecoveryInv(o) /\ ReplayInv(o) /\ Recovery(o)
  BY <1>1, <1>2 DEF Recovering, CampaignInv, CallInv, HaltInv, WorkInv
<1>5. PICK g \in Generators : g = on[o] /\ CaseOf[g] = c
  BY <1>3, <1>4 DEF RecoveryInv
<1>6. Followed(o, g, c)
  <2>1. attempts[c].id = g /\ Of(g) = attempts[c]
    BY <1>2, <1>3, <1>4, <1>5 DEF ReplayInv, Of
  <2>2. Sound(attempts[c], c) /\ Lawful(attempts[c])
    BY DEF CampaignInv, HaltInv, AttemptInv
  <2> QED BY <1>1, <1>2, <1>3, <1>4, <1>5, <2>1, <2>2, RecoverySteps DEF Followed
<1>7. \A h \in Generators : ~Enter(o, h, "recover")
  BY <1>4 DEF Enter, RecoveryInv, BeforeReplay, Replaying, Replays
<1> QED BY <1>4, <1>6, <1>7, StartRecoveryReplays, LookForEventReplays, ReplayEventReplays,
           CheckReplays, CrashRecoveryReplays DEF Recovery

-----------------------------------------------------------------------------
(* evaluate_v02_exact_frozen_case, followed to what it leaves *)

\* The controller waits for evaluation o of attempt g of case c.
Sealing(o, g, c) ==
    /\ CampaignInv /\ HaltInv /\ Waits(o, g, c) /\ Here(o, g, c) /\ ExactEvaluation(o)
    /\ SealInv(o) /\ CaseFor[o] = c /\ barrier
    /\ Lawful(attempts[c]) /\ Regular(attempts[c]) /\ Disposed(c) /\ OwnInv(g)

LEMMA IsSealing ==
    ASSUME CampaignInv, HaltInv, NEW o, NEW g, NEW c, Waits(o, g, c), ExactEvaluation(o)
    PROVE  Sealing(o, g, c)
<1>1. Here(o, g, c) /\ at = "evaluating" /\ turn \in DOMAIN CaseList /\ c = Now /\ c \in Cases
      /\ g \in Generators /\ o = OperatorFor(Now)
  BY IsHere DEF Waits
<1>2. SealInv(o) /\ barrier
  BY <1>1 DEF HaltInv, WorkInv, SealInv
<1>3. CaseFor[o] = c
  BY <1>1, NowIsCase
<1>4. AttemptInv(c) /\ OwnInv(g)
  BY <1>1 DEF HaltInv
<1> QED BY <1>1, <1>2, <1>3, <1>4 DEF Sealing, AttemptInv, Lawful

\* What every step of it leaves alone.
LEMMA SealingFrame ==
    ASSUME NEW o, NEW g, NEW c, Sealing(o, g, c)
    PROVE  /\ UNCHANGED <<barrier, consumed, transaction, held, on>>
           /\ expired \subseteq expired'
           /\ kept' = kept \/ (pc[o] = "keep" /\ kept' = [kept EXCEPT ![o] = TRUE])
<1> USE DEF Look, AppendEvaluation, Append, AppendMissing, FindMissing, Clock, WriteRecord,
            ledger, files, locals, world, evaluation
<1>1. CASE StartExact(o) \/ TakeExactCapability(o) \/ StartExactDifferential(o)
  BY <1>1 DEF StartExact, TakeExactCapability, StartExactDifferential
<1>2. CASE FailForNetwork(o) \/ ReadReceipt(o) \/ RunExact(o) \/ VerifyReceipt(o)
  BY <1>2 DEF FailForNetwork, ReadReceipt, RunExact, VerifyReceipt
<1>3. CASE ReplaceReceipt(o) \/ EndExactDifferential(o) \/ RecordExactSandbox(o) \/ Seal(o)
  BY <1>3 DEF ReplaceReceipt, EndExactDifferential, RecordExactSandbox, Seal
<1>4. CASE (FindCosts(o) \/ FillCosts(o) \/ StartResults(o) \/ EndAttempt(o))
           /\ UNCHANGED evaluation
  BY <1>4 DEF FindCosts, FillCosts, StartResults, EndAttempt
<1>5. CASE \E file \in {"private", "public"} : WriteExactResult(o, file)
  BY <1>5 DEF WriteExactResult
<1>6. CASE EndExactResults(o) \/ LeaveOrCrash(o)
  BY <1>6 DEF EndExactResults, EndResults, LeaveOrCrash, CrashEvaluation
<1> QED BY <1>1, <1>2, <1>3, <1>4, <1>5, <1>6 DEF Sealing, ExactEvaluation

\* What a step of it is: its attempt becomes b, it goes to label.
Sealer(o, g, c, b, label) ==
    /\ attempts'[c] = b /\ Extends(attempts[c], b) /\ attempts[c].began \subseteq b.began
    /\ \A d \in Cases \ {c} : attempts'[d] = attempts[d]
    /\ pc'[o] = label

LEMMA SealerKeeps ==
    ASSUME NEW o, NEW g, NEW c, Sealing(o, g, c), NEW b, NEW label,
           Sealer(o, g, c, b, label), Lawful(b), SealInv(o)',
           receipts'[g] # NoFile => receipts[g] # NoFile \/ "differential" \in b.began
    PROVE  HaltInv'
<1>1. /\ UNCHANGED <<barrier, consumed, transaction, held, on>>
      /\ kept' = kept \/ (pc[o] = "keep" /\ kept' = [kept EXCEPT ![o] = TRUE])
  BY SealingFrame
<1>2. /\ CampaignInv /\ HaltInv /\ c \in Cases /\ g \in Generators /\ o \in Operators
      /\ c = Now /\ Now' = Now /\ turn \in DOMAIN CaseList /\ CaseOf[g] = c
      /\ at = "evaluating" /\ UNCHANGED controller /\ o = OperatorFor(Now)
      /\ Of(g) = attempts[c] /\ attempts[c].id = g /\ barrier /\ g # NoOne
  BY AttemptAssumption DEF Sealing, Waits, Here
<1>3. attempts'[c] = b /\ b.id = g /\ Of(g)' = b /\ b # NoAttempt
  BY <1>2 DEF Sealer, Extends, Of, NoAttempt
<1>4. AttemptInv(c)'
  <2>1. Lawful(attempts[c])'
    BY <1>1, <1>3 DEF Lawful, Left, Kept, Regular, Recorded, Unmatched, Known
  <2>2. b.disposition # "none"
    BY DEF Sealing, Sealer, Extends, Disposed
  <2> QED BY <1>1, <1>2, <1>3, <2>1, <2>2 DEF AttemptInv, Disposed
<1>5. OwnInv(g)'
  <2>1. receipts'[g] # NoFile => "differential" \in b.began
    BY <1>2 DEF Sealing, OwnInv, Sealer
  <2> QED BY <1>3, <2>1 DEF OwnInv
<1>6. WorkInv'
  <2>1. at' = "evaluating" /\ o = OperatorFor(Now)' /\ barrier'
    BY <1>1, <1>2 DEF controller
  <2>2. \A p \in Operators : kept'[p] => p = o
    BY <1>1, <1>2 DEF HaltInv, WorkInv
  <2> QED BY <2>1, <2>2 DEF WorkInv
<1>7. CallStep(c, g)
  <2>1. \A h \in Generators \ {g} : receipts'[h] = receipts[h]
    BY <1>2, ReceiptsOfOthers DEF Sealing
  <2> QED BY <1>1, <1>2, <1>3, <2>1 DEF CallStep, Sealer, HaltInv
<1>8. ~Fresh(c)
  BY <1>2 DEF Fresh, NoAttempt
<1>9. kept' = [p \in Operators |-> kept'[p]]
  BY <1>1, <1>2 DEF HaltInv
<1> QED BY <1>2, <1>4, <1>5, <1>6, <1>7, <1>8, <1>9, CallKeeps

\* A step that changes no attempt.
LEMMA StillSeals ==
    ASSUME NEW o, NEW g, NEW c, Sealing(o, g, c), NEW label, attempts' = attempts,
           Goto(o, label), SealInv(o)',
           receipts'[g] # NoFile => receipts[g] # NoFile \/ "differential" \in attempts[c].began
    PROVE  HaltInv'
<1>1. pc'[o] = label
  BY Labelled DEF Sealing
<1>2. Sealer(o, g, c, attempts[c], label)
  BY <1>1 DEF Sealer, Extends
<1> QED BY <1>2, SealerKeeps DEF Sealing

\* An evaluation of a blocked case may end.
LEMMA GivesUpBlocked ==
    ASSUME NEW o, NEW g, NEW c, Sealing(o, g, c), Blocked(c), UNCHANGED <<attempts, receipts>>,
           NEW label \in {"crash_evaluation", "done"}, Goto(o, label)
    PROVE  HaltInv'
<1>1. Blocked(c)' /\ UNCHANGED barrier
  BY SealingFrame, BlockedStays, AttemptAssumption DEF Sealing, Here
<1>2. pc'[o] = label /\ barrier /\ CaseFor[o] = c
  BY Labelled DEF Sealing
<1>3. SealInv(o)'
  BY <1>1, <1>2 DEF SealInv
<1> QED BY <1>3, StillSeals

LEMMA StartExactSeals ==
    ASSUME NEW o, NEW g, NEW c, Sealing(o, g, c), StartExact(o)
    PROVE  HaltInv'
<1> DEFINE a == attempts[c]
<1>1. /\ pc[o] = "evaluate" /\ ~kept[o] /\ on[o] = g /\ Of(g) = a /\ a.id = g /\ Sound(a, c)
      /\ Lawful(a) /\ Regular(a) /\ a.disposition # "none" /\ barrier /\ g # NoOne
      /\ CaseFor[o] = c /\ OwnInv(g)
  BY AttemptAssumption DEF StartExact, Sealing, SealInv, Here, Disposed
<1>2. PICK label \in {"done", "costs", "capability"} :
          /\ Goto(o, label)
          /\ label = "done" => \/ a.status = "finished"
                               \/ ~(IF receipts[g] # NoFile THEN PreflightReceiptRecovery(a)
                                                            ELSE PreflightEvaluation(a))
                               \/ /\ a.disposition # "no_candidate"
                                  /\ ~(Kept(g) /\ WithinReservation(a))
  <2> DEFINE abstains == a.disposition = "no_candidate"
             evaluable == /\ a.status # "finished" /\ barrier /\ a.disposition # "none"
                          /\ IF receipts[g] # NoFile THEN PreflightReceiptRecovery(a)
                                                     ELSE PreflightEvaluation(a)
                          /\ abstains \/ (Kept(g) /\ WithinReservation(a))
  <2>1. Goto(o, IF ~evaluable THEN "done" ELSE IF abstains THEN "costs" ELSE "capability")
    BY <1>1 DEF StartExact
  <2>2. CASE ~evaluable
    BY <1>1, <2>1, <2>2
  <2>3. CASE evaluable
    BY <2>1, <2>3
  <2> QED BY <2>2, <2>3
<1>3. UNCHANGED <<attempts, transaction, kept, receipts>> /\ expired \subseteq expired'
  BY <1>1 DEF StartExact, ledger, files, world, evaluation
<1>4. pc'[o] = label
  BY <1>2, Labelled DEF Sealing
<1>5. label = "done" => a.status = "finished" \/ Blocked(c)
  <2> SUFFICES ASSUME label = "done", a.status = "open" PROVE Blocked(c)
    BY <1>1 DEF Sound, Blocked
  <2>1. ~Terminal(a)
    BY DEF Terminal
  <2>2. CASE receipts[g] # NoFile /\ ~PreflightReceiptRecovery(a)
    <3>1. "result_write" \in a.began
      BY <1>1, <2>1, <2>2 DEF OwnInv, PreflightReceiptRecovery
    <3> QED BY <1>1, <3>1 DEF Blocked
  <2>3. CASE receipts[g] = NoFile /\ ~PreflightEvaluation(a)
    BY <1>1, <2>1, <2>3 DEF PreflightEvaluation, Blocked
  <2>4. CASE a.disposition # "no_candidate" /\ ~(Kept(g) /\ WithinReservation(a))
    <3>1. a.disposition = "candidate_submitted"
      BY <1>1, <2>4 DEF Sound, Dispositions
    <3>2. Kept(g)
      BY <1>1, <3>1 DEF Lawful, Regular
    <3> QED BY <2>4, <3>1, <3>2 DEF Blocked
  <2> QED BY <1>2, <2>2, <2>3, <2>4
<1>6. SealInv(o)'
  <2>1. label = "done" => a.status = "finished" \/ Blocked(c)'
    BY <1>1, <1>3, <1>5, BlockedStays
  <2>2. barrier'
    BY <1>1, SealingFrame
  <2> QED BY <1>1, <1>2, <1>3, <1>4, <2>1, <2>2 DEF SealInv
<1> QED BY <1>2, <1>3, <1>6, StillSeals

LEMMA TakeExactCapabilitySeals ==
    ASSUME NEW o, NEW g, NEW c, Sealing(o, g, c), TakeExactCapability(o)
    PROVE  HaltInv'
<1>1. PICK label \in {"crash_evaluation", "prior", "start_differential"} : Look(o, label)
  BY DEF TakeExactCapability
<1>2. /\ pc[o] = "capability" /\ ~kept[o] /\ barrier /\ CaseFor[o] = c
      /\ UNCHANGED <<attempts, kept, receipts, barrier>> /\ Goto(o, label)
  BY <1>1 DEF TakeExactCapability, Sealing, SealInv, Look, ledger, evaluation
<1>3. pc'[o] = label
  BY <1>2, Labelled DEF Sealing
<1>4. SealInv(o)'
  BY <1>1, <1>2, <1>3 DEF SealInv
<1> QED BY <1>2, <1>4, StillSeals

LEMMA StartExactDifferentialSeals ==
    ASSUME NEW o, NEW g, NEW c, Sealing(o, g, c), StartExactDifferential(o)
    PROVE  HaltInv'
<1> DEFINE a == attempts[c]
           b == StartPhase(a, "differential")
           next == IF c \in NetworkCases THEN "network" ELSE "differential"
<1>1. /\ pc[o] = "start_differential" /\ ~kept[o] /\ on[o] = g /\ Of(g) = a /\ Sound(a, c)
      /\ Lawful(a) /\ a.disposition # "none" /\ barrier /\ CaseFor[o] = c
      /\ UNCHANGED <<kept, receipts>> /\ "differential" \in Phases /\ CampaignInv
      /\ Waits(o, g, c) /\ CaseOf[g] = c /\ c \in Cases
  BY DEF StartExactDifferential, Sealing, SealInv, Here, Disposed, evaluation, Phases
<1>2. PICK accepted \in BOOLEAN : /\ Append(o, g, accepted, b, next, "crash_evaluation")
                                  /\ accepted => MayStartPhase(a, "differential")
  BY <1>1 DEF StartExactDifferential, AppendEvaluation
<1>3. CASE ~accepted
  <2>1. attempts' = attempts /\ Goto(o, "crash_evaluation") /\ UNCHANGED barrier
    BY <1>2, <1>3 DEF Append
  <2>2. pc'[o] = "crash_evaluation"
    BY <1>1, <2>1, Labelled
  <2>3. SealInv(o)'
    BY <1>1, <2>1, <2>2 DEF SealInv
  <2> QED BY <1>1, <2>1, <2>3, StillSeals
<1>4. CASE accepted
  <2>1. Lawful(b)
    BY <1>1, <1>2, <1>4, StartIsLawful
  <2>2. Event(a, b, c)
    BY <1>1, <1>2, <1>4, PhaseIsEvent
  <2>3. b.phase = "differential" /\ b.began = a.began \cup {"differential"}
    BY <1>1, StartFields
  <2> HIDE DEF b, next
  <2>4. attempts'[c] = b /\ pc'[o] = next /\ Advances(c) /\ UNCHANGED barrier
    <3>1. CampaignInv /\ Waits(o, g, c) /\ Append(o, g, accepted, b, next, "crash_evaluation")
      BY <1>1, <1>2
    <3>2. attempts'[c] = b /\ pc'[o] = next /\ Advances(c)
      BY <1>4, <2>2, <3>1, AppendTouches
    <3> QED BY <3>1, <3>2 DEF Append
  <2>5. Sealer(o, g, c, b, next)
    BY <1>1, <2>3, <2>4, AdvancesOne DEF Sealer
  <2>6. next \in {"network", "differential"}
    BY DEF next
  <2>7. SealInv(o)'
    BY <1>1, <2>3, <2>4, <2>6 DEF SealInv
  <2> QED BY <1>1, <2>1, <2>5, <2>7, SealerKeeps
<1> QED BY <1>3, <1>4

\* An append to the attempt that is accepted.
LEMMA AcceptedSeals ==
    ASSUME NEW o, NEW g, NEW c, Sealing(o, g, c), NEW b, NEW next, NEW rejected,
           Append(o, g, TRUE, b, next, rejected), Event(attempts[c], b, c)
    PROVE  /\ attempts'[c] = b /\ pc'[o] = next /\ Extends(attempts[c], b)
           /\ \A d \in Cases \ {c} : attempts'[d] = attempts[d]
<1>1. CampaignInv /\ Waits(o, g, c) /\ c \in Cases
  BY DEF Sealing, Waits
<1>2. attempts'[c] = b /\ pc'[o] = next /\ Advances(c)
  BY <1>1, AppendTouches
<1> QED BY <1>1, <1>2, AdvancesOne

\* What is known where it works.
LEMMA AtWork ==
    ASSUME NEW o, NEW g, NEW c, Sealing(o, g, c), pc[o] \in Working
    PROVE  LET a == attempts[c] IN
           /\ Open(a) /\ a.status = "open" /\ a.id = g /\ on[o] = g /\ Of(g) = a /\ Sound(a, c)
           /\ Lawful(a) /\ Regular(a) /\ a.disposition # "none" /\ CaseFor[o] = c
           /\ CaseOf[g] = c /\ c \in Cases /\ barrier /\ SealInv(o) /\ OwnInv(g)
           /\ EvaluatorInv(o) /\ c = Now /\ g \in Generators /\ o \in Processes
           /\ o \in Operators /\ CampaignInv
BY DEF Sealing, Here, EvaluatorInv, Disposed, Open

LEMMA FailForNetworkSeals ==
    ASSUME NEW o, NEW g, NEW c, Sealing(o, g, c), FailForNetwork(o)
    PROVE  HaltInv'
<1> DEFINE a == attempts[c]
           b == FinishPhase(a, "failed")
           accepted == MayFinishPhase(a, "differential", "failed")
<1>1. pc[o] = "network" /\ pc[o] \in Working /\ UNCHANGED receipts /\ "differential" \in Phases
  BY DEF FailForNetwork, Working, Unsealed, evaluation, Phases
<1>2. /\ Open(a) /\ Sound(a, c) /\ Lawful(a) /\ on[o] = g /\ Of(g) = a /\ CaseFor[o] = c
      /\ a.phase = "differential" /\ barrier
  BY <1>1, AtWork DEF SealInv
<1>3. accepted
  BY <1>2 DEF MayFinishPhase
<1>10. CASE Look(o, "crash_evaluation")
  <2>1. UNCHANGED <<attempts, barrier, receipts, kept>> /\ Goto(o, "crash_evaluation")
    BY <1>10 DEF FailForNetwork, Look, ledger, evaluation
  <2>2. pc'[o] = "crash_evaluation"
    BY <2>1, Labelled DEF Sealing
  <2>3. ~kept[o]
    BY <1>1, AtWork DEF SealInv
  <2>4. SealInv(o)'
    BY <1>2, <2>1, <2>2, <2>3 DEF SealInv
  <2> QED BY <2>1, <2>4, StillSeals
<1>11. CASE AppendEvaluation(o, accepted, b, "costs", "crash_evaluation")
  <2>1. Append(o, g, TRUE, b, "costs", "crash_evaluation") /\ UNCHANGED barrier
    BY <1>2, <1>3, <1>11 DEF AppendEvaluation, Append
  <2>2. Lawful(b)
    BY <1>1, <1>2, <1>3, EndIsLawful
  <2>3. Event(a, b, c)
    BY <1>1, <1>2, <1>3, PhaseIsEvent
  <2>4. b.began = a.began
    BY <1>2, EndFields
  <2> HIDE DEF b
  <2>5. Sealer(o, g, c, b, "costs") /\ pc'[o] = "costs"
    <3>1. Append(o, g, TRUE, b, "costs", "crash_evaluation")
      BY <2>1
    <3>2. /\ attempts'[c] = b /\ pc'[o] = "costs" /\ Extends(a, b)
          /\ \A d \in Cases \ {c} : attempts'[d] = attempts[d]
      BY <2>3, <3>1, AcceptedSeals
    <3> QED BY <2>4, <3>2 DEF Sealer
  <2>6. SealInv(o)'
    BY <1>2, <2>1, <2>5 DEF SealInv
  <2> QED BY <1>1, <2>2, <2>5, <2>6, SealerKeeps
<1> QED BY <1>2, <1>10, <1>11 DEF FailForNetwork

\* A receipt on file is one of a phase that was begun.
LEMMA ReadReceiptSeals ==
    ASSUME NEW o, NEW g, NEW c, Sealing(o, g, c), ReadReceipt(o)
    PROVE  HaltInv'
<1> DEFINE a == attempts[c]
<1>1. pc[o] = "prior" /\ pc[o] \in Working /\ UNCHANGED <<receipts, kept>>
  BY DEF ReadReceipt, Working, Unsealed
<1>2. /\ Sound(a, c) /\ Regular(a) /\ on[o] = g /\ Of(g) = a /\ CaseFor[o] = c /\ barrier
      /\ receipts[g] # NoFile /\ ~kept[o] /\ "differential" \in a.began
  BY <1>1, AtWork DEF SealInv, EvaluatorInv, OwnInv
<1>3. PICK label \in {"crash_evaluation", "keep", "differential"} :
          /\ Look(o, label)
          /\ label = "keep" => "differential" \in a.ended
          /\ label = "differential" => "differential" \notin a.ended
  BY <1>2 DEF ReadReceipt, Trusted
<1>4. UNCHANGED <<attempts, barrier>> /\ Goto(o, label)
  BY <1>3 DEF Look, ledger
<1>5. pc'[o] = label
  BY <1>4, Labelled DEF Sealing
<1>6. label = "differential" => a.phase = "differential"
  BY <1>2, <1>3 DEF Regular
<1>7. SealInv(o)'
  BY <1>1, <1>2, <1>3, <1>4, <1>5, <1>6 DEF SealInv
<1> QED BY <1>1, <1>4, <1>7, StillSeals

LEMMA ReceiptSeals ==
    ASSUME NEW o, NEW g, NEW c, Sealing(o, g, c),
           RunExact(o) \/ VerifyReceipt(o) \/ ReplaceReceipt(o)
    PROVE  HaltInv'
<1> DEFINE a == attempts[c]
<1>1. /\ pc[o] \in {"differential", "receipt", "replace"} /\ pc[o] \in Working /\ UNCHANGED kept
  BY DEF RunExact, VerifyReceipt, ReplaceReceipt, Working, Unsealed
<1>2. /\ Sound(a, c) /\ CaseFor[o] = c /\ barrier /\ ~kept[o] /\ a.phase = "differential"
      /\ "differential" \in a.began
  BY <1>1, AtWork DEF SealInv, Sound
<1>3. PICK label \in {"crash_evaluation", "receipt", "replace", "keep"} : Look(o, label)
  BY DEF RunExact, VerifyReceipt, ReplaceReceipt
<1>4. UNCHANGED <<attempts, barrier>> /\ Goto(o, label)
  BY <1>3 DEF Look, ledger
<1>5. pc'[o] = label
  BY <1>4, Labelled DEF Sealing
<1>6. SealInv(o)'
  BY <1>1, <1>2, <1>4, <1>5 DEF SealInv
<1> QED BY <1>2, <1>4, <1>6, StillSeals

LEMMA EndExactDifferentialSeals ==
    ASSUME NEW o, NEW g, NEW c, Sealing(o, g, c), EndExactDifferential(o)
    PROVE  HaltInv'
<1> DEFINE a == attempts[c]
           b == FinishPhase(a, "succeeded")
           accepted == MayFinishPhase(a, "differential", "succeeded")
<1>1. pc[o] = "keep" /\ pc[o] \in Working /\ UNCHANGED receipts /\ "differential" \in Phases
  BY DEF EndExactDifferential, Working, Unsealed, Phases
<1>2. /\ Open(a) /\ Sound(a, c) /\ Lawful(a) /\ on[o] = g /\ Of(g) = a /\ CaseFor[o] = c
      /\ a.phase = "differential" \/ "differential" \in a.ended
      /\ barrier
  BY <1>1, AtWork DEF SealInv
<1>3. CASE "differential" \in a.ended /\ Look(o, "sandbox")
  <2>1. UNCHANGED <<attempts, barrier>> /\ Goto(o, "sandbox")
    BY <1>3 DEF Look, ledger
  <2>2. pc'[o] = "sandbox"
    BY <2>1, Labelled DEF Sealing
  <2>3. SealInv(o)'
    BY <1>2, <2>1, <2>2 DEF SealInv
  <2> QED BY <1>1, <2>1, <2>3, StillSeals
<1>4. CASE "differential" \notin a.ended /\ AppendEvaluation(o, accepted, b, "sandbox", "done")
  <2>1. accepted
    BY <1>2, <1>4 DEF MayFinishPhase
  <2>2. Append(o, g, TRUE, b, "sandbox", "done") /\ UNCHANGED barrier
    BY <1>2, <1>4, <2>1 DEF AppendEvaluation, Append
  <2>3. Lawful(b)
    BY <1>1, <1>2, <2>1, EndIsLawful
  <2>4. Event(a, b, c)
    BY <1>1, <1>2, <2>1, PhaseIsEvent
  <2>5. b.began = a.began
    BY <1>2, EndFields
  <2> HIDE DEF b
  <2>6. Sealer(o, g, c, b, "sandbox") /\ pc'[o] = "sandbox"
    <3>1. Append(o, g, TRUE, b, "sandbox", "done")
      BY <2>2
    <3>2. /\ attempts'[c] = b /\ pc'[o] = "sandbox" /\ Extends(a, b)
          /\ \A d \in Cases \ {c} : attempts'[d] = attempts[d]
      BY <2>4, <3>1, AcceptedSeals
    <3> QED BY <2>5, <3>2 DEF Sealer
  <2>7. SealInv(o)'
    BY <1>2, <2>2, <2>6 DEF SealInv
  <2> QED BY <1>1, <2>3, <2>6, <2>7, SealerKeeps
<1> QED BY <1>2, <1>3, <1>4 DEF EndExactDifferential

\* A candidate that cost more than was reserved is evaluated no further, and blocks.
LEMMA RecordExactSandboxSeals ==
    ASSUME NEW o, NEW g, NEW c, Sealing(o, g, c), RecordExactSandbox(o)
    PROVE  HaltInv'
<1> DEFINE a == attempts[c]
           new(amount) == RecordCost(a, "sandbox", amount)
           accepted(amount) == MayRecordCost(a, "sandbox", amount)
           label(b) == IF WithinReservation(b) THEN "seal" ELSE "done"
<1>1. /\ pc[o] = "sandbox" /\ pc[o] \in Working /\ UNCHANGED receipts
      /\ "sandbox" \in Categories
  BY DEF RecordExactSandbox, Working, Unsealed, Categories
<1>2. /\ Open(a) /\ Sound(a, c) /\ Lawful(a) /\ on[o] = g /\ Of(g) = a /\ CaseFor[o] = c
      /\ a.disposition = "candidate_submitted" /\ barrier /\ "differential" \in a.ended
      /\ CampaignInv /\ Waits(o, g, c)
  <2>1. "differential" \in a.ended
    BY <1>1, AtWork DEF EvaluatorInv
  <2>2. a.ended \subseteq a.began /\ Regular(a)
    BY <1>1, AtWork DEF Sound
  <2>3. a.disposition = "candidate_submitted"
    BY <2>1, <2>2 DEF Regular
  <2> QED BY <1>1, <2>1, <2>3, AtWork DEF Sealing
<1>3. CASE Look(o, label(a))
  <2>1. UNCHANGED <<attempts, barrier>> /\ Goto(o, label(a))
    BY <1>3 DEF Look, ledger
  <2>2. pc'[o] = label(a)
    BY <1>2, <2>1, Labelled
  <2>3. CASE WithinReservation(a)
    <3>1. SealInv(o)'
      BY <1>2, <2>1, <2>2, <2>3 DEF SealInv
    <3> QED BY <1>1, <2>1, <3>1, StillSeals
  <2>4. CASE ~WithinReservation(a)
    <3>1. Blocked(c)
      BY <1>2, <2>4 DEF Blocked, Open
    <3>2. Goto(o, "done")
      BY <2>1, <2>4
    <3> QED BY <1>1, <2>1, <3>1, <3>2, GivesUpBlocked
  <2> QED BY <2>3, <2>4
<1>4. ASSUME NEW amount \in Measures, a.costs["sandbox"] = "absent",
             AppendEvaluation(o, accepted(amount), new(amount), label(new(amount)), "done")
      PROVE  HaltInv'
  <2> DEFINE b == new(amount)
             next == label(b)
  <2>0. amount \in Amounts \ {"absent"}
    BY MeasuredIsKnown DEF Amounts
  <2>1. accepted(amount)
    BY <1>2, <1>4 DEF MayRecordCost
  <2>2. Append(o, g, TRUE, b, next, "done") /\ UNCHANGED barrier
    BY <1>2, <1>4, <2>1 DEF AppendEvaluation, Append
  <2>3. Lawful(b)
    BY <1>1, <1>2, <2>0, <2>1, CostIsLawful
  <2>4. Event(a, b, c)
    BY <1>1, <1>2, <2>0, <2>1, CostIsEvent
  <2>5. b.began = a.began /\ b.status = a.status /\ b.disposition = a.disposition
    <3>1. SamePhases(a, b)
      BY <1>1, <1>2, <2>0, CostFields
    <3> QED BY <3>1 DEF SamePhases
  <2> HIDE DEF b
  <2>6. Sealer(o, g, c, b, next) /\ pc'[o] = next
    <3>1. Append(o, g, TRUE, b, next, "done")
      BY <2>2
    <3> HIDE DEF next
    <3>2. /\ attempts'[c] = b /\ pc'[o] = next /\ Extends(a, b)
          /\ \A d \in Cases \ {c} : attempts'[d] = attempts[d]
      BY <2>4, <3>1, AcceptedSeals
    <3> QED BY <2>5, <3>2 DEF Sealer
  <2>7. next = "done" => Blocked(c)'
    <3> SUFFICES ASSUME ~WithinReservation(b) PROVE Blocked(c)'
      OBVIOUS
    <3>1. /\ attempts'[c] = b /\ b.status = "open" /\ b.disposition = "candidate_submitted"
          /\ ~WithinReservation(b)
      BY <1>2, <2>5, <2>6 DEF Sealer, Open
    <3> QED BY <3>1 DEF Blocked
  <2>8. SealInv(o)'
    BY <1>2, <2>2, <2>6, <2>7 DEF SealInv
  <2> QED BY <1>1, <2>3, <2>6, <2>8, SealerKeeps
<1> HIDE DEF a
<1>5. \/ Look(o, label(a))
      \/ \E amount \in Measures :
             /\ a.costs["sandbox"] = "absent"
             /\ AppendEvaluation(o, accepted(amount), new(amount), label(new(amount)), "done")
  BY <1>2 DEF RecordExactSandbox
<1> QED BY <1>3, <1>4, <1>5

\* The receipt is the one that it verified: nobody else writes one.
LEMMA SealSeals ==
    ASSUME NEW o, NEW g, NEW c, Sealing(o, g, c), Seal(o)
    PROVE  HaltInv'
<1>1. pc[o] = "seal" /\ pc[o] \in Working
  BY DEF Seal, Working, Unsealed
<1>2. receipts[g] = verified[o] /\ on[o] = g /\ CaseFor[o] = c /\ barrier
  BY <1>1, AtWork DEF EvaluatorInv
<1>3. Goto(o, "costs") /\ UNCHANGED <<attempts, barrier, receipts>>
  BY <1>2 DEF Seal, ledger, evaluation
<1>4. pc'[o] = "costs"
  BY <1>3, Labelled DEF Sealing
<1>5. SealInv(o)'
  BY <1>2, <1>3, <1>4 DEF SealInv
<1> QED BY <1>3, <1>5, StillSeals

LEMMA FindCostsSeals ==
    ASSUME NEW o, NEW g, NEW c, Sealing(o, g, c), FindCosts(o), UNCHANGED evaluation
    PROVE  HaltInv'
<1> DEFINE a == attempts[c]
           todo == Categories \ Recorded(a)
           label == IF todo = {} THEN "start_results" ELSE "fill_costs"
<1>1. pc[o] = "costs" /\ pc[o] \in Working /\ UNCHANGED <<receipts, kept>>
  BY DEF FindCosts, Working, Concluding, evaluation
<1>2. /\ Regular(a) /\ on[o] = g /\ Of(g) = a /\ CaseFor[o] = c /\ a.disposition # "none"
      /\ barrier /\ o \in Processes /\ CampaignInv
  BY <1>1, AtWork
<1>3. PICK found : /\ Goto(o, label) /\ missing' = [missing EXCEPT ![o] = found]
                   /\ UNCHANGED <<attempts, barrier>>
                   /\ DOMAIN found = todo
                   /\ \A k \in todo : k # "model" => found[k] \in {"zero"} \cup Measures
  <2>0. o \in Operators
    BY <1>1, AtWork
  <2>1. PICK found : /\ missing' = [missing EXCEPT ![o] = found]
                     /\ found = [k \in Categories \ Recorded(Of(on[o])) |-> found[k]]
                     /\ \A k \in Categories \ Recorded(Of(on[o])) :
                           \/ k = "model" /\ found[k] \in {"zero", "unknown"}
                           \/ k = "storage" /\ found[k] \in Measures
                           \/ k \notin {"model", "storage"} /\ found[k] = "zero"
    BY <2>0, CostsFound, Zenon
  <2>2. /\ Goto(o, IF Categories \ Recorded(Of(on[o])) = {} THEN "start_results"
                                                            ELSE "fill_costs")
        /\ UNCHANGED <<attempts, barrier>>
    BY <2>0, CostsFound DEF ledger
  <2>3. todo = Categories \ Recorded(Of(on[o]))
    BY <1>2
  <2> HIDE DEF a, todo
  <2>4. \A k \in todo : k # "model" => found[k] \in {"zero"} \cup Measures
    BY <2>1, <2>3
  <2>5. DOMAIN found = todo
    BY <2>1, <2>3
  <2> QED BY <2>1, <2>2, <2>3, <2>4, <2>5
<1>4. missing'[o] = found
  BY <1>2, <1>3 DEF CampaignInv, Shapes
<1>5. "model" \notin todo /\ Recorded(a) \subseteq Categories
  BY <1>2 DEF Regular, BeforeBarrier, Recorded
<1>6. /\ DOMAIN missing'[o] = todo
      /\ \A k \in DOMAIN missing'[o] : missing'[o][k] \in {"zero"} \cup Measures
  <2> HIDE DEF todo
  <2> QED BY <1>3, <1>4, <1>5
<1>7. Recorded(a)' = Recorded(a)
  BY <1>3 DEF Recorded
<1>8. pc'[o] = label
  BY <1>3, Labelled DEF Sealing
<1>9. SealInv(o)'
  BY <1>2, <1>3, <1>5, <1>6, <1>7, <1>8 DEF SealInv
<1> QED BY <1>1, <1>3, <1>9, StillSeals

\* What is missing is neither the cost of the model nor one that nobody knows.
LEMMA FillCostsSeals ==
    ASSUME NEW o, NEW g, NEW c, Sealing(o, g, c), FillCosts(o), UNCHANGED evaluation
    PROVE  HaltInv'
<1> DEFINE a == attempts[c]
           k == NextMissing(o)
           amount == missing[o][k]
           b == RecordCost(a, k, amount)
           label == IF DOMAIN missing[o] = {k} THEN "start_results" ELSE "fill_costs"
<1>1. pc[o] = "fill_costs" /\ pc[o] \in Working /\ UNCHANGED <<receipts, kept>>
  BY DEF FillCosts, Working, Concluding, evaluation
<1>2. /\ Open(a) /\ Sound(a, c) /\ Lawful(a) /\ Regular(a) /\ on[o] = g /\ Of(g) = a
      /\ CaseFor[o] = c /\ a.disposition # "none" /\ barrier /\ o \in Processes /\ CampaignInv
      /\ "differential" \in a.ended \/ a.disposition = "no_candidate"
  BY <1>1, AtWork DEF EvaluatorInv, Concluding
<1>3. /\ DOMAIN missing[o] = Categories \ Recorded(a) /\ DOMAIN missing[o] # {}
      /\ \A j \in DOMAIN missing[o] : missing[o][j] \in {"zero"} \cup Measures
      /\ MissingInv(o)
  BY <1>1, <1>2, AtWork DEF SealInv, EvaluatorInv
<1>4. AppendMissing(o, g, "start_results", "crash_evaluation")
  BY <1>2 DEF FillCosts
<1>5. k \in DOMAIN missing[o]
  BY <1>2, <1>3, <1>4, FillsMissing
<1>6. /\ k \in Categories \ BeforeBarrier /\ a.costs[k] = "absent"
      /\ k # "model" /\ k # "preparation" /\ k # "artifact"
      /\ amount \in Amounts \ {"absent"} /\ amount # "unknown"
  <2>1. amount \in {"zero"} \cup Measures
    BY <1>3, <1>5
  <2> QED BY <1>2, <1>3, <1>5, <2>1, MeasuredIsKnown
          DEF Regular, Recorded, BeforeBarrier, Amounts
<1>7. MayRecordCost(a, k, amount)
  BY <1>2, <1>6 DEF MayRecordCost
<1> HIDE DEF k, amount
<1>8. /\ missing' = [missing EXCEPT ![o] = [j \in DOMAIN missing[o] \ {k} |-> missing[o][j]]]
      /\ Append(o, g, TRUE, b, label, "crash_evaluation")
      /\ UNCHANGED barrier
  BY <1>1, <1>2, <1>4, <1>6, <1>7 DEF AppendMissing, Append, k, amount
<1>9. /\ DOMAIN missing'[o] = DOMAIN missing[o] \ {k}
      /\ \A j \in DOMAIN missing'[o] : missing'[o][j] \in {"zero"} \cup Measures
  BY <1>2, <1>3, <1>8 DEF CampaignInv, Shapes
<1>10. Lawful(b)
  <2>1. k \in Categories
    BY <1>6
  <2> QED BY <1>2, <1>6, <1>7, <2>1, CostIsLawful
<1>11. SamePhases(a, b) /\ Recorded(b) = Recorded(a) \cup {k}
  <2>1. k \in Categories
    BY <1>6
  <2> QED BY <1>2, <1>6, <2>1, CostFields
<1>12. Event(a, b, c)
  <2>1. k \in Categories /\ amount \in Amounts
    BY <1>6
  <2> QED BY <1>2, <1>7, <2>1, CostIsEvent
<1> HIDE DEF b, label
<1>13. /\ attempts'[c] = b /\ pc'[o] = label /\ Extends(a, b)
       /\ \A d \in Cases \ {c} : attempts'[d] = attempts[d]
  <2>1. Append(o, g, TRUE, b, label, "crash_evaluation")
    BY <1>8
  <2> QED BY <1>12, <2>1, AcceptedSeals
<1>14. Sealer(o, g, c, b, label)
  BY <1>11, <1>13 DEF Sealer, SamePhases
<1>15. /\ label \in {"start_results", "fill_costs"}
       /\ DOMAIN missing'[o] = Categories \ Recorded(b)
       /\ (label = "start_results" <=> DOMAIN missing'[o] = {})
       /\ Recorded(b) \subseteq Categories /\ Recorded(attempts[c])' = Recorded(b)
  BY <1>3, <1>5, <1>9, <1>11, <1>13 DEF Recorded, label
<1>16. SealInv(o)'
  BY <1>2, <1>8, <1>9, <1>13, <1>15 DEF SealInv
<1> QED BY <1>1, <1>10, <1>14, <1>16, SealerKeeps

\* Once its results were begun, an evaluation that ends otherwise blocks the campaign.
LEMMA Begun ==
    ASSUME NEW o, NEW g, NEW c, Sealing(o, g, c), Open(attempts[c]),
           "result_write" \in attempts[c].began
    PROVE  Blocked(c)
BY DEF Sealing, Blocked, Open, Disposed

LEMMA StartResultsSeals ==
    ASSUME NEW o, NEW g, NEW c, Sealing(o, g, c), StartResults(o), UNCHANGED evaluation
    PROVE  HaltInv'
<1> DEFINE a == attempts[c]
           b == StartPhase(a, "result_write")
<1>1. /\ pc[o] = "start_results" /\ pc[o] \in Working /\ UNCHANGED <<receipts, kept>>
      /\ "result_write" \in Phases
  BY DEF StartResults, Working, Concluding, evaluation, Phases
<1>2. /\ Open(a) /\ a.status = "open" /\ Sound(a, c) /\ Lawful(a) /\ Regular(a) /\ on[o] = g
      /\ Of(g) = a /\ a.id = g /\ CaseFor[o] = c /\ a.disposition # "none" /\ barrier
      /\ Recorded(a) = Categories
      /\ "differential" \in a.ended \/ a.disposition = "no_candidate"
  BY <1>1, AtWork DEF EvaluatorInv, Concluding, SealInv
<1>3. MayStartPhase(a, "result_write") \/ "result_write" \in a.began
  <2> SUFFICES ASSUME "result_write" \notin a.began PROVE a.phase = "none"
    BY <1>2 DEF MayStartPhase
  <2>1. a.phase # "none" => a.phase \in Phases /\ a.phase \in a.began /\ a.phase \notin a.ended
    BY <1>2 DEF Regular, Sound
  <2>2. a.phase # "generation" /\ a.phase # "differential"
    BY <1>2, <2>1 DEF Regular
  <2> QED BY <2>1, <2>2 DEF Phases
<1>4. PICK late \in BOOLEAN :
          /\ Append(o, g, ~late /\ MayStartPhase(a, "result_write"), b, "private",
                    "crash_evaluation")
          /\ late => g \in expired'
  BY <1>2 DEF StartResults, AppendEvaluation, Clock
<1>5. CASE ~late /\ MayStartPhase(a, "result_write")
  <2>1. Append(o, g, TRUE, b, "private", "crash_evaluation") /\ UNCHANGED barrier
    BY <1>4, <1>5 DEF Append
  <2>2. Lawful(b)
    BY <1>1, <1>2, <1>5, StartIsLawful
  <2>3. Event(a, b, c)
    BY <1>1, <1>2, <1>5, PhaseIsEvent
  <2>4. b.began = a.began \cup {"result_write"}
    BY <1>2, StartFields
  <2> HIDE DEF b
  <2>5. /\ attempts'[c] = b /\ pc'[o] = "private" /\ Extends(a, b)
        /\ \A d \in Cases \ {c} : attempts'[d] = attempts[d]
    <3>1. Append(o, g, TRUE, b, "private", "crash_evaluation")
      BY <2>1
    <3> QED BY <2>3, <3>1, AcceptedSeals
  <2>6. Sealer(o, g, c, b, "private")
    BY <2>4, <2>5 DEF Sealer
  <2>7. SealInv(o)'
    BY <1>2, <2>1, <2>4, <2>5 DEF SealInv
  <2> QED BY <1>1, <2>2, <2>6, <2>7, SealerKeeps
<1>6. CASE ~(~late /\ MayStartPhase(a, "result_write"))
  <2>1. attempts' = attempts /\ Goto(o, "crash_evaluation") /\ UNCHANGED barrier
    BY <1>4, <1>6 DEF Append
  <2>2. CASE late
    <3>1. Blocked(c)'
      BY <1>2, <1>4, <2>1, <2>2 DEF Blocked
    <3>2. pc'[o] = "crash_evaluation"
      BY <2>1, Labelled DEF Sealing
    <3>3. SealInv(o)'
      BY <1>2, <2>1, <3>1, <3>2 DEF SealInv
    <3> QED BY <1>1, <2>1, <3>3, StillSeals
  <2>3. CASE ~late
    <3>1. Blocked(c)
      BY <1>2, <1>3, <1>6, <2>3, Begun
    <3> QED BY <1>1, <2>1, <3>1, GivesUpBlocked
  <2> QED BY <2>2, <2>3
<1> QED BY <1>5, <1>6

LEMMA WriteExactResultSeals ==
    ASSUME NEW o, NEW g, NEW c, Sealing(o, g, c), NEW file \in {"private", "public"},
           WriteExactResult(o, file)
    PROVE  HaltInv'
<1> DEFINE a == attempts[c]
<1>1. /\ pc[o] = file /\ pc[o] \in Working /\ UNCHANGED <<attempts, barrier, receipts, kept>>
      /\ \E label \in {"public", "end_results", "crash_evaluation"} : Goto(o, label)
  BY DEF WriteExactResult, WriteRecord, Working, Concluding, ledger
<1>2. Open(a) /\ "result_write" \in a.began /\ CaseFor[o] = c /\ barrier
  BY <1>1, AtWork DEF SealInv
<1>3. Blocked(c)
  BY <1>2, Begun
<1>4. PICK label \in {"public", "end_results", "crash_evaluation"} : Goto(o, label)
  BY <1>1
<1>5. CASE label = "crash_evaluation"
  BY <1>1, <1>3, <1>4, <1>5, GivesUpBlocked
<1>6. CASE label # "crash_evaluation"
  <2>1. pc'[o] = label
    BY <1>4, Labelled DEF Sealing
  <2>2. SealInv(o)'
    BY <1>1, <1>2, <1>6, <2>1 DEF SealInv
  <2> QED BY <1>1, <1>4, <2>2, StillSeals
<1> QED BY <1>5, <1>6

LEMMA EndExactResultsSeals ==
    ASSUME NEW o, NEW g, NEW c, Sealing(o, g, c), EndExactResults(o)
    PROVE  HaltInv'
<1> DEFINE a == attempts[c]
           b == FinishPhase(a, "succeeded")
           accepted == MayFinishPhase(a, "result_write", "succeeded")
<1>1. /\ pc[o] = "end_results" /\ pc[o] \in Working /\ UNCHANGED <<receipts, kept>>
      /\ "result_write" \in Phases
  BY DEF EndExactResults, EndResults, Working, Concluding, evaluation, Phases
<1>2. /\ Open(a) /\ Sound(a, c) /\ Lawful(a) /\ on[o] = g /\ Of(g) = a /\ CaseFor[o] = c
      /\ "result_write" \in a.began /\ barrier
  BY <1>1, AtWork DEF SealInv
<1>3. Blocked(c)
  BY <1>2, Begun
<1>4. CASE Look(o, "crash_evaluation")
  BY <1>1, <1>3, <1>4, GivesUpBlocked DEF Look, ledger
<1>5. CASE EndResults(o)
  <2>1. Append(o, g, accepted, b, "finish", "crash_evaluation") /\ UNCHANGED barrier
    BY <1>2, <1>5 DEF EndResults, AppendEvaluation, Append
  <2>2. CASE ~accepted
    <3>1. attempts' = attempts /\ Goto(o, "crash_evaluation")
      BY <2>1, <2>2 DEF Append
    <3> QED BY <1>1, <1>3, <3>1, GivesUpBlocked
  <2>3. CASE accepted
    <3>1. Append(o, g, TRUE, b, "finish", "crash_evaluation")
      BY <2>1, <2>3 DEF Append
    <3>2. Lawful(b)
      BY <1>1, <1>2, <2>3, EndIsLawful
    <3>3. Event(a, b, c)
      BY <1>1, <1>2, <2>3, PhaseIsEvent
    <3>4. b.began = a.began
      BY <1>2, EndFields
    <3> HIDE DEF b
    <3>5. /\ attempts'[c] = b /\ pc'[o] = "finish" /\ Extends(a, b)
          /\ \A d \in Cases \ {c} : attempts'[d] = attempts[d]
      BY <3>1, <3>3, AcceptedSeals
    <3>6. Sealer(o, g, c, b, "finish")
      BY <3>4, <3>5 DEF Sealer
    <3>7. SealInv(o)'
      BY <1>2, <2>1, <3>4, <3>5 DEF SealInv
    <3> QED BY <1>1, <3>2, <3>6, <3>7, SealerKeeps
  <2> QED BY <2>2, <2>3
<1> QED BY <1>4, <1>5 DEF EndExactResults

LEMMA EndAttemptSeals ==
    ASSUME NEW o, NEW g, NEW c, Sealing(o, g, c), EndAttempt(o), UNCHANGED evaluation
    PROVE  HaltInv'
<1> DEFINE a == attempts[c]
           outcome == verdict[o]
           b == FinishAttempt(a, outcome)
<1>1. /\ pc[o] = "finish" /\ pc[o] \in Working /\ UNCHANGED <<receipts, kept>>
  BY DEF EndAttempt, Working, Concluding, evaluation
<1>2. /\ Open(a) /\ Sound(a, c) /\ Lawful(a) /\ on[o] = g /\ Of(g) = a /\ CaseFor[o] = c
      /\ "result_write" \in a.began /\ barrier /\ CaseOf[g] = c /\ CampaignInv /\ c \in Cases
  BY <1>1, AtWork DEF SealInv
<1>3. Append(o, g, MayFinishAttempt(a), b, "done", "crash_evaluation") /\ UNCHANGED barrier
  BY <1>2 DEF EndAttempt, AppendEvaluation, Append
<1>4. CASE ~MayFinishAttempt(a)
  <2>1. attempts' = attempts /\ Goto(o, "crash_evaluation")
    BY <1>3, <1>4 DEF Append
  <2> QED BY <1>1, <1>2, <2>1, Begun, GivesUpBlocked
<1>5. CASE MayFinishAttempt(a)
  <2>1. Lawful(b)
    BY <1>2, <1>5, LastIsLawful
  <2>2. /\ SameSpend(a, b) /\ SameCourse(a, b) /\ b.status = "finished"
        /\ b.disposition = a.disposition
    BY <1>2, FinishFields
  <2>3. attempts' = [attempts EXCEPT ![c] = b] /\ Goto(o, "done")
    BY <1>2, <1>3, <1>5 DEF Append
  <2> HIDE DEF b
  <2>4. attempts'[c] = b /\ \A d \in Cases \ {c} : attempts'[d] = attempts[d]
    BY <1>2, <2>3 DEF CampaignInv, Shapes
  <2>5. pc'[o] = "done"
    BY <2>3, Labelled DEF Sealing
  <2>6. Sealer(o, g, c, b, "done")
    BY <2>2, <2>4, <2>5 DEF Sealer, Extends, SameSpend, SameCourse
  <2>7. SealInv(o)'
    BY <1>2, <1>3, <2>2, <2>4, <2>5 DEF SealInv
  <2> QED BY <1>1, <2>1, <2>6, <2>7, SealerKeeps
<1> QED BY <1>4, <1>5

LEMMA LeaveOrCrashSeals ==
    ASSUME NEW o, NEW g, NEW c, Sealing(o, g, c), LeaveOrCrash(o)
    PROVE  HaltInv'
<1> DEFINE a == attempts[c]
           b == Crash(a)
<1>1. /\ pc[o] = "crash_evaluation" /\ pc[o] \in Working /\ UNCHANGED <<receipts, kept>>
  BY DEF LeaveOrCrash, CrashEvaluation, Working, evaluation
<1>2. /\ Open(a) /\ Sound(a, c) /\ Lawful(a) /\ on[o] = g /\ Of(g) = a /\ CaseFor[o] = c
      /\ barrier /\ (~kept[o] \/ Blocked(c))
  BY <1>1, AtWork DEF SealInv
<1>3. CASE kept[o] /\ Look(o, "done")
  BY <1>1, <1>2, <1>3, GivesUpBlocked DEF Look, ledger
<1>4. CASE CrashEvaluation(o)
  <2>1. MayCrash(a)
    BY <1>2 DEF MayCrash
  <2>2. Append(o, g, TRUE, b, "done", "done") /\ UNCHANGED barrier
    BY <1>2, <1>4, <2>1 DEF CrashEvaluation, AppendEvaluation, Append
  <2>3. Lawful(b)
    BY <1>2, <2>1, LastIsLawful
  <2>4. Event(a, b, c)
    BY <1>2, <2>1, DispositionIsEvent
  <2>5. SameCourse(a, b) /\ b.status = "crashed"
    BY <1>2, CrashFields
  <2> HIDE DEF b
  <2>6. /\ attempts'[c] = b /\ pc'[o] = "done" /\ Extends(a, b)
        /\ \A d \in Cases \ {c} : attempts'[d] = attempts[d]
    <3>1. Append(o, g, TRUE, b, "done", "done")
      BY <2>2
    <3> QED BY <2>4, <3>1, AcceptedSeals
  <2>7. Sealer(o, g, c, b, "done")
    BY <2>5, <2>6 DEF Sealer, SameCourse
  <2>8. Blocked(c)'
    BY <2>5, <2>6 DEF Blocked
  <2>9. SealInv(o)'
    <3>1. barrier' /\ pc'[o] = "done" /\ CaseFor[o] = c
      BY <1>2, <2>2, <2>6
    <3>2. Blocked(CaseFor[o])'
      BY <2>8, <3>1
    <3> QED BY <3>1, <3>2 DEF SealInv
  <2> QED BY <1>1, <2>3, <2>7, <2>9, SealerKeeps
<1> QED BY <1>3, <1>4 DEF LeaveOrCrash

LEMMA EvaluatingHalts ==
    ASSUME CampaignInv, HaltInv, Evaluating
    PROVE  HaltInv'
<1>1. PICK o \in Operators, g \in Generators, c \in Cases :
          Waits(o, g, c) /\ ExactEvaluation(o)
  BY WaitsForOne
<1>2. Sealing(o, g, c)
  BY <1>1, IsSealing
<1>3. \A file \in {"private", "public"} : WriteExactResult(o, file) => HaltInv'
  BY <1>2, WriteExactResultSeals
<1> QED
  BY <1>1, <1>2, <1>3, StartExactSeals, TakeExactCapabilitySeals, StartExactDifferentialSeals,
     FailForNetworkSeals, ReadReceiptSeals, ReceiptSeals, EndExactDifferentialSeals,
     RecordExactSandboxSeals, SealSeals, FindCostsSeals, FillCostsSeals, StartResultsSeals,
     EndAttemptSeals, EndExactResultsSeals, LeaveOrCrashSeals
  DEF ExactEvaluation

-----------------------------------------------------------------------------
(* The steps of the controller, and what they leave *)

\* What a step of the controller leaves alone.
Quiet == /\ UNCHANGED <<attempts, barrier, consumed, transaction, held, receipts, expired>>
         /\ \A g \in Generators : pc'[g] = "idle" => pc[g] = "idle"

LEMMA DirectoriesStay ==
    ASSUME Quiet, NEW c \in Cases
    PROVE  DirectoryIsNew(c)' => DirectoryIsNew(c)
<1>1. GeneratorFor(c) \in Generators
  BY CampaignAssumption DEF GeneratorFor
<1> QED BY <1>1 DEF Quiet, DirectoryIsNew

\* A step of an invocation of recovery or evaluation alone.
LEMMA OperatorsLeaveDirectories ==
    ASSUME CampaignInv, NEW o \in Operators, NEW label, pc' = [pc EXCEPT ![o] = label]
    PROVE  \A g \in Generators : pc'[g] = "idle" => pc[g] = "idle"
BY RunnerAssumption DEF CampaignInv, Shapes, Processes

LEMMA QuietKeeps ==
    ASSUME HaltInv, Quiet, kept' = [o \in Operators |-> kept'[o]], WorkInv',
           at' \in InGeneration =>
               \A n \in DOMAIN CaseList : n < turn' => Disposed(CaseList[n]),
           progress'.status = "halted" =>
               at' \in {"stopped", "preflight"} /\ (why' = "none" => SomeBlocked)
    PROVE  HaltInv'
<1>1. UNCHANGED <<attempts, barrier, consumed, transaction, held, receipts, expired>>
  BY DEF Quiet
<1>2. \A c \in Cases : AttemptInv(c)'
  <2> SUFFICES ASSUME NEW c \in Cases PROVE AttemptInv(c)'
    OBVIOUS
  <2>1. AttemptInv(c)
    BY DEF HaltInv
  <2>2. Lawful(attempts[c])'
    BY <1>1, <2>1 DEF AttemptInv, Lawful, Left, Kept, Regular, Recorded, Unmatched, Known
  <2>3. Waiting(attempts[c])' <=> Waiting(attempts[c])
    BY <1>1 DEF Waiting, Open, Recorded
  <2> QED BY <1>1, <2>1, <2>2, <2>3 DEF AttemptInv, Disposed
<1>3. \A g \in Generators : OwnInv(g)'
  BY <1>1 DEF HaltInv, OwnInv, Of, Kept
<1>4. OrderInv'
  BY <1>1 DEF HaltInv, OrderInv, Fresh, Disposed
<1>5. SomeBlocked => SomeBlocked'
  BY <1>1, BlockedStays, DirectoriesStay DEF SomeBlocked
<1> QED BY <1>1, <1>2, <1>3, <1>4, <1>5 DEF HaltInv

\* Where the controller waits for nobody.
LEMMA NobodyWorks ==
    ASSUME at' \notin {"generating", "recovering", "evaluating"},
           at' \in InEvaluation \cup {"barrier"} => barrier',
           \A o \in Operators : ~kept'[o]
    PROVE  WorkInv'
BY DEF WorkInv

LEMMA NothingKept ==
    ASSUME HaltInv, at # "evaluating"
    PROVE  /\ \A o \in Operators : ~kept[o]
           /\ kept = [o \in Operators |-> kept[o]]
BY DEF HaltInv, WorkInv

\* What the controller finds unknown blocks the case it is of.
LEMMA UnknownBlocks == AuditFails => SomeBlocked
BY DEF AuditFails, SomeBlocked, Blocked

LEMMA ControlsQuiet ==
    ASSUME Controls
    PROVE  Quiet /\ UNCHANGED <<kept, pc, on>>
BY DEF Controls, Quiet, vars, ledger, files, locals, world, evaluation

\* An exception whose cause is on file, or for one outside.
LEMMA HaltIsLawful ==
    ASSUME CampaignInv, HaltInv, Quiet, NEW cause, Halt(cause), cause = "none" => SomeBlocked,
           \A o \in Operators : ~kept'[o], kept' = [o \in Operators |-> kept'[o]]
    PROVE  HaltInv'
<1>1. at' = "stopped" /\ why' = cause
  BY DEF Halt
<1>2. WorkInv'
  BY <1>1, NobodyWorks DEF InEvaluation
<1> QED BY <1>1, <1>2, QuietKeeps DEF InGeneration

LEMMA StartControllerIsLawful ==
    ASSUME CampaignInv, HaltInv, StartController \/ Preflight
    PROVE  HaltInv'
<1>1. Controls /\ at \in {"stopped", "preflight"}
  BY DEF StartController, Preflight
<1>2. /\ Quiet /\ kept' = kept /\ (\A o \in Operators : ~kept'[o])
      /\ kept' = [o \in Operators |-> kept'[o]]
  BY <1>1, ControlsQuiet, NothingKept
<1>3. CASE StartController
  <2>1. at = "stopped" /\ at' = "preflight" /\ UNCHANGED <<progress, why>>
    BY <1>3 DEF StartController, Continue
  <2>2. WorkInv'
    BY <1>2, <2>1, NobodyWorks DEF InEvaluation
  <2>3. progress'.status = "halted" =>
            at' \in {"stopped", "preflight"} /\ (why' = "none" => SomeBlocked)
    BY <2>1 DEF HaltInv
  <2> QED BY <1>2, <2>1, <2>2, <2>3, QuietKeeps DEF InGeneration
<1>4. CASE Halt("outside") \/ (AuditFails /\ Halt("none"))
  BY <1>2, <1>4, HaltIsLawful, UnknownBlocks
<1>5. CASE /\ at' = "generation" /\ turn' = 1
           /\ progress' = [progress EXCEPT !.status = "running", !.phase = "generation"]
  <2>1. progress'.status = "running"
    BY <1>5, ProgressFields
  <2>2. WorkInv'
    BY <1>2, <1>5, NobodyWorks DEF InEvaluation
  <2>3. \A n \in DOMAIN CaseList : ~(n < turn')
    BY <1>5, CampaignAssumption, FS_CardinalityType
  <2> QED BY <1>2, <2>1, <2>2, <2>3, QuietKeeps
<1> QED BY <1>3, <1>4, <1>5 DEF Preflight

\* The campaign runs on, with the case it is at.
LEMMA ContinueIsLawful ==
    ASSUME HaltInv, Quiet, NEW label, Continue(label), at \notin {"stopped", "preflight"},
           kept' = [o \in Operators |-> kept'[o]], WorkInv',
           label \in InGeneration => at \in InGeneration
    PROVE  HaltInv'
<1>1. at' = label /\ UNCHANGED <<turn, progress, why>>
  BY DEF Continue
<1>2. progress'.status # "halted"
  BY <1>1 DEF HaltInv
<1>3. at' \in InGeneration => \A n \in DOMAIN CaseList : n < turn' => Disposed(CaseList[n])
  BY <1>1 DEF HaltInv, OrderInv
<1> QED BY <1>2, <1>3, QuietKeeps

LEMMA CallGenerateIsLawful ==
    ASSUME CampaignInv, HaltInv, CallGenerate
    PROVE  HaltInv'
<1>0. PICK g \in Generators : g = GeneratorFor(Now) /\ CaseOf[g] = Now /\ CaseOf[g] \in Cases
  BY NowIsCase DEF CallGenerate
<1>1. /\ at = "generation" /\ turn \in DOMAIN CaseList /\ Fresh(Now) /\ Quiet /\ kept' = kept
      /\ UNCHANGED <<attempts, barrier, held>>
  <2>1. UNCHANGED pc \/ Goto(g, "done")
    BY <1>0 DEF CallGenerate
  <2>2. \A h \in Generators : pc'[h] = "idle" => pc[h] = "idle"
    BY <1>0, <2>1 DEF Goto, CampaignInv, Shapes, Processes
  <2> QED BY <2>2 DEF CallGenerate, Quiet, ledger, files, locals, world, evaluation
<1>2. (\A o \in Operators : ~kept'[o]) /\ kept' = [o \in Operators |-> kept'[o]]
  BY <1>1, NothingKept
<1>3. CASE (AuditFails \/ ~DirectoryIsNew(Now)) /\ Halt("none")
  <2>1. Now \in Cases /\ (~DirectoryIsNew(Now) => Blocked(Now))
    BY <1>0, <1>1 DEF Fresh, Blocked
  <2>2. SomeBlocked
    BY <1>3, <2>1, UnknownBlocks DEF SomeBlocked
  <2> QED BY <1>1, <1>2, <1>3, <2>2, HaltIsLawful
<1>5. CASE Halt("outside")
  BY <1>1, <1>2, <1>5, HaltIsLawful
<1>4. CASE Continue("generating") /\ DirectoryIsNew(Now) /\ UNCHANGED pc
  <2>1. g = GeneratorFor(Now) /\ CaseOf[g] = Now /\ CaseOf[g] \in Cases
    BY <1>0
  <2>2. /\ pc'[g] = "idle" /\ Now' = Now /\ at' = "generating"
    BY <1>4, <2>1 DEF DirectoryIsNew, Continue, Now
  <2>3. ~barrier /\ Of(g) = NoAttempt
    BY <1>1, <2>1 DEF HaltInv, AttemptInv, Disposed, Fresh, NoAttempt, Of
  <2>4. ~held[g]
    BY <2>1, <2>3 DEF HaltInv, OwnInv
  <2>5. TrackInv(g)'
    BY <1>1, <2>1, <2>2, <2>3, <2>4 DEF TrackInv, Fresh, Failing
  <2>6. WorkInv'
    BY <1>2, <2>1, <2>2, <2>5 DEF WorkInv, InEvaluation
  <2> QED BY <1>1, <1>2, <1>4, <2>6, ContinueIsLawful DEF InGeneration
<1> QED BY <1>3, <1>4, <1>5 DEF CallGenerate

LEMMA CallRecoverIsLawful ==
    ASSUME CampaignInv, HaltInv, CallRecover \/ CallEvaluate
    PROVE  HaltInv'
<1>1. turn \in DOMAIN CaseList /\ UNCHANGED evaluation /\ at \in {"generation", "evaluation"}
  BY DEF CallRecover, CallEvaluate
<1>2. PICK o \in Operators : o = OperatorFor(Now) /\ CaseFor[o] = Now
  BY <1>1, NowIsCase
<1> DEFINE g == attempts[Now].id
           a == attempts[Now]
<1>3. PICK label \in {"recover", "evaluate"} :
          /\ Enter(o, g, label)
          /\ label = "recover" => /\ at = "generation" /\ Continue("recovering")
                                  /\ ~Fresh(Now) /\ a.disposition = "none"
          /\ label = "evaluate" => at = "evaluation" /\ Continue("evaluating")
  BY <1>2 DEF CallRecover, CallEvaluate
<1>4. pc'[o] = label /\ on'[o] = g
  BY <1>1, <1>2, <1>3, EnterStarts
<1>5. /\ Now' = Now /\ Quiet /\ kept' = kept /\ barrier' = barrier /\ attempts' = attempts
  <2>1. \A h \in Generators : pc'[h] = "idle" => pc[h] = "idle"
    BY <1>2, <1>3, OperatorsLeaveDirectories DEF Enter, Goto
  <2> QED BY <1>1, <1>3, <2>1 DEF Continue, Now, Enter, Quiet, ledger, files, world, evaluation
<1>6. (\A p \in Operators : ~kept'[p]) /\ kept' = [p \in Operators |-> kept'[p]]
  BY <1>1, <1>5, NothingKept
<1>7. Now \in Cases /\ AttemptInv(Now) /\ Sound(a, Now)
  BY <1>1, NowIsCase DEF HaltInv, CampaignInv
<1>8. CASE label = "recover"
  <2>1. ~barrier /\ a.status \in {"open", "crashed"}
    BY <1>3, <1>7, <1>8 DEF AttemptInv, Disposed, Sound, Fresh
  <2>2. ReplayInv(o)'
    BY <1>2, <1>3, <1>4, <1>5, <1>8, <2>1 DEF ReplayInv, Replaying, Replays, Disposed
  <2>3. at' = "recovering" /\ o = OperatorFor(Now)'
    BY <1>2, <1>3, <1>5, <1>8 DEF Continue
  <2>4. WorkInv'
    BY <1>6, <2>2, <2>3 DEF WorkInv, InEvaluation
  <2> QED BY <1>3, <1>5, <1>6, <1>8, <2>4, ContinueIsLawful DEF InGeneration
<1>9. CASE label = "evaluate"
  <2>1. barrier
    BY <1>3, <1>9 DEF HaltInv, WorkInv, InEvaluation
  <2>2. SealInv(o)'
    BY <1>2, <1>4, <1>5, <1>6, <1>9, <2>1 DEF SealInv
  <2>3. at' = "evaluating" /\ o = OperatorFor(Now)' /\ barrier'
    BY <1>2, <1>3, <1>5, <1>9, <2>1 DEF Continue
  <2>4. WorkInv'
    BY <1>6, <2>2, <2>3 DEF WorkInv, InEvaluation
  <2> QED BY <1>3, <1>5, <1>6, <1>9, <2>4, ContinueIsLawful DEF InGeneration
<1> QED BY <1>8, <1>9

\* An invocation that is over keeps nothing.
LEMMA ReleasedKeepsNothing ==
    ASSUME HaltInv, NEW o, o = OperatorFor(Now), NEW label, Released(o, label)
    PROVE  (\A p \in Operators : ~kept'[p]) /\ kept' = [p \in Operators |-> kept'[p]]
BY DEF HaltInv, WorkInv, Released

\* What the campaign does not own is refused before a case is called, or by its call.
LEMMA RefusalIsLawful ==
    ASSUME CampaignInv, HaltInv, OutsideIsRefused \/ CallIsRefused
    PROVE  HaltInv'
<1>1. Quiet /\ (\A p \in Operators : ~kept'[p]) /\ kept' = [p \in Operators |-> kept'[p]]
  <2>1. CASE OutsideIsRefused
    BY <2>1, ControlsQuiet, NothingKept DEF OutsideIsRefused
  <2>2. CASE CallIsRefused
    <3>1. turn \in DOMAIN CaseList
      BY <2>2 DEF CallIsRefused, CampaignInv, ProgressInv, InCase
    <3>2. OperatorFor(Now) \in Operators /\ Released(OperatorFor(Now), "idle")
      BY <2>2, <3>1, NowIsCase DEF CallIsRefused
    <3>3. \A g \in Generators : pc'[g] = "idle" => pc[g] = "idle"
      BY <3>2, OperatorsLeaveDirectories DEF Released
    <3>4. Quiet
      BY <2>2, <3>2, <3>3 DEF CallIsRefused, Released, Quiet, ledger, files, world
    <3> QED BY <3>2, <3>4, ReleasedKeepsNothing
  <2> QED BY <2>1, <2>2
<1> QED BY <1>1, HaltIsLawful DEF OutsideIsRefused, CallIsRefused

\* A call that did not return what it should leaves what blocks its case.
LEMMA EndsAreLawful ==
    ASSUME CampaignInv, HaltInv, GenerateEnds \/ RecoverEnds \/ EvaluateEnds \/ SkipGenerated
    PROVE  HaltInv'
<1>1. at \in {"generation", "generating", "recovering", "evaluating"} /\ turn \in DOMAIN CaseList
  BY DEF GenerateEnds, RecoverEnds, EvaluateEnds, SkipGenerated, CampaignInv, ProgressInv, InCase
<1>2. Now \in Cases /\ OperatorFor(Now) \in Operators /\ CaseFor[OperatorFor(Now)] = Now
      /\ GeneratorFor(Now) \in Generators /\ CaseOf[GeneratorFor(Now)] = Now
  BY <1>1, NowIsCase
<1>3. Quiet /\ (\A p \in Operators : ~kept'[p]) /\ kept' = [p \in Operators |-> kept'[p]]
  <2>1. CASE Controls /\ at # "evaluating"
    BY <2>1, ControlsQuiet, NothingKept
  <2>2. CASE Released(OperatorFor(Now), "idle") /\ UNCHANGED <<ledger, files, held, world>>
    <3>1. Quiet
      <4>1. \A h \in Generators : pc'[h] = "idle" => pc[h] = "idle"
        BY <1>2, <2>2, OperatorsLeaveDirectories DEF Released
      <4> QED BY <2>2, <4>1 DEF Released, Quiet, ledger, files, world
    <3> QED BY <2>2, <3>1, ReleasedKeepsNothing
  <2> QED BY <2>1, <2>2 DEF GenerateEnds, RecoverEnds, EvaluateEnds, SkipGenerated
<1>4. CASE Halt("none")
  <2>1. SomeBlocked
    <3>1. CASE GenerateEnds
      <4>1. attempts[Now].disposition = "none"
        BY <1>4, <3>1 DEF GenerateEnds, Halt, Continue
      <4> QED BY <1>2, <3>1, <4>1 DEF GenerateEnds, HaltInv, WorkInv, TrackInv, Disposed
    <3>2. CASE RecoverEnds
      <4>1. attempts[Now].disposition = "none"
        BY <1>4, <3>2 DEF RecoverEnds, Halt, Continue
      <4> QED BY <1>2, <3>2, <4>1
              DEF RecoverEnds, HaltInv, WorkInv, ReplayInv, Disposed, SomeBlocked
    <3>3. CASE EvaluateEnds
      <4>1. attempts[Now].status # "finished"
        BY <1>4, <3>3 DEF EvaluateEnds, Returned, Halt, Continue
      <4> QED BY <1>2, <3>3, <4>1 DEF EvaluateEnds, HaltInv, WorkInv, SealInv, SomeBlocked
    <3>4. CASE SkipGenerated
      BY <1>4, <3>4 DEF SkipGenerated, Halt, Continue
    <3> QED BY <3>1, <3>2, <3>3, <3>4
  <2> QED BY <1>3, <1>4, <2>1, HaltIsLawful
<1>5. CASE Continue("generated") /\ at # "evaluating"
  <2>1. at' = "generated"
    BY <1>5 DEF Continue
  <2>2. WorkInv'
    BY <1>3, <2>1, NobodyWorks DEF InEvaluation
  <2> QED BY <1>1, <1>3, <1>5, <2>2, ContinueIsLawful DEF InGeneration
<1>6. CASE Continue("evaluated") /\ at = "evaluating"
  <2>1. at' = "evaluated" /\ barrier /\ barrier' = barrier
    BY <1>3, <1>6 DEF Continue, HaltInv, WorkInv, InEvaluation, Quiet
  <2>2. WorkInv'
    BY <1>3, <2>1, NobodyWorks
  <2> QED BY <1>1, <1>3, <1>6, <2>2, ContinueIsLawful DEF InGeneration
<1> QED BY <1>4, <1>5, <1>6 DEF GenerateEnds, RecoverEnds, EvaluateEnds, SkipGenerated

LEMMA MarkIsLawful ==
    ASSUME CampaignInv, HaltInv, MarkGenerated \/ MarkEvaluated
    PROVE  HaltInv'
<1>1. Controls /\ at \in {"generated", "evaluated"}
  BY DEF MarkGenerated, MarkEvaluated, Mark
<1>2. /\ Quiet /\ barrier' = barrier /\ (\A o \in Operators : ~kept'[o])
      /\ kept' = [o \in Operators |-> kept'[o]]
  BY <1>1, ControlsQuiet, NothingKept DEF Quiet
<1>3. CASE AuditFails /\ Halt("none")
  BY <1>2, <1>3, HaltIsLawful, UnknownBlocks
<1>4. ASSUME NEW row, NEW next, progress' = [progress EXCEPT !.rows[Now] = row],
             at' = next, turn' = turn + 1,
             \/ at = "generated" /\ next = "generation"
             \/ at = "evaluated" /\ next = "evaluation"
      PROVE  HaltInv'
  <2>1. progress'.status # "halted"
    <3> DEFINE rows == [progress.rows EXCEPT ![Now] = row]
    <3>1. progress' = [progress EXCEPT !.rows = rows]
      BY <1>4
    <3> HIDE DEF rows
    <3>2. progress'.status = progress.status
      BY <3>1, ProgressFields
    <3> QED BY <1>4, <3>2 DEF HaltInv
  <2>2. WorkInv'
    <3>1. at = "evaluated" => barrier
      BY DEF HaltInv, WorkInv, InEvaluation
    <3> QED BY <1>2, <1>4, <3>1, NobodyWorks DEF InEvaluation
  <2>3. ASSUME at' \in InGeneration, NEW n \in DOMAIN CaseList, n < turn'
        PROVE  Disposed(CaseList[n])
    <3>1. at = "generated" /\ turn \in DOMAIN CaseList /\ Disposed(Now) /\ at \in InGeneration
      BY <1>4, <2>3 DEF InGeneration, CampaignInv, ProgressInv, InCase, Disposed
    <3>2. n \in Nat /\ turn \in Nat
      BY <3>1, CampaignAssumption, FS_CardinalityType
    <3>3. n < turn \/ n = turn
      BY <1>4, <2>3, <3>2
    <3> QED BY <3>1, <3>3 DEF Now, HaltInv, OrderInv
  <2> QED BY <1>2, <2>1, <2>2, <2>3, QuietKeeps
<1> QED BY <1>3, <1>4 DEF MarkGenerated, MarkEvaluated, Mark

\* With every case taken through, nothing keeps the barrier from being frozen.
LEMMA BarrierIsFree ==
    ASSUME CampaignInv, HaltInv, at = "generation", turn \notin DOMAIN CaseList, ~barrier
    PROVE  MayFreeze
<1> SUFFICES ASSUME NEW c \in Cases
             PROVE  LET a == attempts[c] IN
                    /\ a.disposition # "none" /\ "differential" \notin a.began
                    /\ Recorded(a) = BeforeBarrier /\ \A k \in BeforeBarrier : Known(a, k)
  BY DEF MayFreeze
<1> DEFINE a == attempts[c]
<1>1. PICK n \in DOMAIN CaseList : CaseList[n] = c
  BY CampaignAssumption
<1>2. n < turn
  BY CampaignAssumption, FS_CardinalityType DEF CampaignInv, ProgressInv
<1>3. Disposed(c)
  BY <1>1, <1>2 DEF HaltInv, OrderInv, InGeneration
<1>4. AttemptInv(c) /\ Sound(a, c)
  BY DEF HaltInv, CampaignInv
<1>5. Waiting(a) /\ Regular(a)
  BY <1>3, <1>4 DEF AttemptInv, Lawful
<1>6. a.disposition # "none" /\ "differential" \notin a.began /\ Recorded(a) = BeforeBarrier
  BY <1>3, <1>5 DEF Waiting, Disposed
<1>7. \A k \in BeforeBarrier : a.costs[k] \in Amounts \ {"absent"}
  BY <1>4, <1>6 DEF Sound, Recorded
<1>8. Known(a, "preparation") /\ Known(a, "model") /\ Known(a, "artifact")
  BY <1>5, <1>6, <1>7 DEF Regular, Known, Amounts, BeforeBarrier
<1> QED BY <1>6, <1>8 DEF BeforeBarrier

LEMMA FreezeBarrierIsLawful ==
    ASSUME CampaignInv, HaltInv, FreezeBarrier
    PROVE  HaltInv'
<1>1. /\ at = "generation" /\ turn \notin DOMAIN CaseList
      /\ UNCHANGED <<attempts, consumed, transaction, held, receipts, expired, kept>>
  BY DEF FreezeBarrier, Freeze, vars, ledger, files, locals, world, evaluation
<1>2. (\A o \in Operators : ~kept'[o]) /\ kept' = [o \in Operators |-> kept'[o]]
  BY <1>1, NothingKept
<1>3. barrier' /\ Continue("barrier")
  BY <1>1, BarrierIsFree DEF FreezeBarrier, Freeze, vars, ledger
<1>4. at' = "barrier" /\ UNCHANGED <<turn, progress, why>>
  BY <1>3 DEF Continue
<1>5. \A c \in Cases : Disposed(c)
  <2>1. CASE barrier
    BY <2>1 DEF HaltInv, AttemptInv
  <2>2. CASE ~barrier
    <3>1. MayFreeze
      BY <1>1, <2>2, BarrierIsFree
    <3> QED BY <3>1 DEF MayFreeze, Disposed
  <2> QED BY <2>1, <2>2
<1>6. \A c \in Cases : AttemptInv(c)'
  <2> SUFFICES ASSUME NEW c \in Cases PROVE AttemptInv(c)'
    OBVIOUS
  <2>1. AttemptInv(c)
    BY DEF HaltInv
  <2>2. Lawful(attempts[c])'
    BY <1>1, <2>1 DEF AttemptInv, Lawful, Left, Kept, Regular, Recorded, Unmatched, Known
  <2> QED BY <1>1, <1>3, <1>5, <2>2 DEF AttemptInv, Disposed
<1>7. \A g \in Generators : OwnInv(g)'
  BY <1>1 DEF HaltInv, OwnInv, Of, Kept
<1>8. OrderInv'
  BY <1>1, <1>4 DEF HaltInv, OrderInv, Fresh, Disposed, InGeneration
<1>9. WorkInv'
  BY <1>2, <1>3, <1>4, NobodyWorks
<1>10. progress'.status # "halted"
  BY <1>1, <1>4 DEF HaltInv
<1> QED BY <1>1, <1>2, <1>6, <1>7, <1>8, <1>9, <1>10 DEF HaltInv

LEMMA TakeAuthoritiesIsLawful ==
    ASSUME CampaignInv, HaltInv, TakeAuthorities
    PROVE  HaltInv'
<1>1. Controls /\ at = "barrier" /\ barrier
  BY DEF TakeAuthorities, HaltInv, WorkInv
<1>2. /\ Quiet /\ barrier' /\ (\A o \in Operators : ~kept'[o])
      /\ kept' = [o \in Operators |-> kept'[o]]
  BY <1>1, ControlsQuiet, NothingKept DEF Quiet
<1>3. CASE at' = "stopped" /\ why' = "outside"
  <2>1. WorkInv'
    BY <1>2, <1>3, NobodyWorks
  <2> QED BY <1>2, <1>3, <2>1, QuietKeeps DEF InGeneration
<1>4. CASE at' = "evaluation" /\ progress' = [progress EXCEPT !.phase = "evaluation"]
  <2>1. WorkInv'
    BY <1>2, <1>4, NobodyWorks
  <2>2. progress'.status = progress.status
    BY <1>4, ProgressFields
  <2>3. progress'.status # "halted"
    BY <1>1, <2>2 DEF HaltInv
  <2> QED BY <1>2, <1>4, <2>1, <2>3, QuietKeeps DEF InGeneration
<1> QED BY <1>3, <1>4 DEF TakeAuthorities

LEMMA CompleteIsLawful ==
    ASSUME CampaignInv, HaltInv, Complete
    PROVE  HaltInv'
<1>1. Controls /\ at = "evaluation" /\ at' = "stopped"
  BY DEF Complete
<1>2. /\ Quiet /\ (\A o \in Operators : ~kept'[o]) /\ kept' = [o \in Operators |-> kept'[o]]
  BY <1>1, ControlsQuiet, NothingKept
<1>3. WorkInv'
  BY <1>1, <1>2, NobodyWorks DEF InEvaluation
<1>4. progress'.status = "halted" => AuditFails
  BY ProgressFields DEF Complete
<1> QED BY <1>1, <1>2, <1>3, <1>4, UnknownBlocks, QuietKeeps DEF InGeneration

\* A kill writes nothing.
LEMMA KillControllerIsLawful ==
    ASSUME CampaignInv, HaltInv, KillController
    PROVE  HaltInv'
<1>1. Quiet /\ UNCHANGED <<progress, why>> /\ at # "stopped" /\ at' = "stopped"
  <2>1. receipts' = receipts
    BY DEF KillController, Released, evaluation
  <2>2. \A h \in Generators : pc'[h] = "idle" => pc[h] = "idle"
    <3>1. CASE at \in {"recovering", "evaluating"}
      <4>1. turn \in DOMAIN CaseList
        BY <3>1 DEF CampaignInv, ProgressInv, InCase
      <4>2. OperatorFor(Now) \in Operators /\ Released(OperatorFor(Now), "idle")
        BY <3>1, <4>1, NowIsCase DEF KillController
      <4> QED BY <4>2, OperatorsLeaveDirectories DEF Released
    <3>2. CASE at = "generating"
      <4>1. Goto(GeneratorFor(Now), "killed")
        BY <3>2 DEF KillController
      <4> QED BY <4>1 DEF Goto, CampaignInv, Shapes, Processes
    <3>3. CASE at \notin {"recovering", "evaluating", "generating"}
      BY <3>3 DEF KillController
    <3> QED BY <3>1, <3>2, <3>3
  <2> QED BY <2>1, <2>2 DEF KillController, Quiet, ledger, files
<1>2. (\A o \in Operators : ~kept'[o]) /\ kept' = [o \in Operators |-> kept'[o]]
  <2>1. CASE at \in {"recovering", "evaluating"}
    BY <2>1, ReleasedKeepsNothing DEF KillController
  <2>2. CASE at \notin {"recovering", "evaluating"}
    <3>1. kept' = kept
      BY <2>2 DEF KillController, evaluation
    <3> QED BY <2>2, <3>1, NothingKept
  <2> QED BY <2>1, <2>2
<1>3. WorkInv'
  BY <1>1, <1>2, NobodyWorks DEF InEvaluation
<1>4. progress'.status = "halted" =>
          at' \in {"stopped", "preflight"} /\ (why' = "none" => SomeBlocked)
  BY <1>1 DEF HaltInv
<1> QED BY <1>1, <1>2, <1>3, <1>4, QuietKeeps DEF InGeneration

LEMMA NothingHalts ==
    ASSUME HaltInv, UNCHANGED campaignVars
    PROVE  HaltInv'
<1>1. /\ Quiet /\ UNCHANGED <<pc, on, answer, missing, kept, at, turn, progress, why>>
      /\ Now' = Now
      /\ UNCHANGED <<attempts, barrier, consumed, transaction, held, receipts, expired>>
  BY DEF campaignVars, vars, controller, evaluation, ledger, files, locals, world, Quiet, Now
<1>6. \A c : Blocked(c) => Blocked(c)'
  BY <1>1, BlockedStays DEF DirectoryIsNew
<1>2. SomeBlocked => SomeBlocked'
  BY <1>6 DEF SomeBlocked
<1>3. WorkInv'
  <2>1. \A g : TrackInv(g) => TrackInv(g)'
    BY <1>1, <1>2 DEF TrackInv, Fresh, Disposed, Open, Recorded, Kept, Unbilled, Called,
                      CallStatus, ModelCost, Unmatched, StartAttempt
  <2>3. \A o : ReplayInv(o) => ReplayInv(o)'
    BY <1>1, <1>6 DEF ReplayInv, Disposed, Open
  <2>4. \A o : SealInv(o) => SealInv(o)'
    BY <1>1, <1>6 DEF SealInv, Recorded
  <2> QED BY <1>1, <2>1, <2>3, <2>4 DEF HaltInv, WorkInv
<1>4. progress'.status = "halted" =>
          at' \in {"stopped", "preflight"} /\ (why' = "none" => SomeBlocked)
  BY <1>1 DEF HaltInv
<1>5. at' \in InGeneration => \A n \in DOMAIN CaseList : n < turn' => Disposed(CaseList[n])
  BY <1>1 DEF HaltInv, OrderInv
<1> QED BY <1>1, <1>3, <1>4, <1>5, QuietKeeps DEF HaltInv

LEMMA HaltInit == CampaignInit => HaltInv
<1> SUFFICES ASSUME CampaignInit PROVE HaltInv
  OBVIOUS
<1> USE DEF CampaignInit, RunnerInit, Blank, LedgerInit
<1>1. \A c \in Cases : attempts[c] = NoAttempt /\ ~Disposed(c)
  BY DEF Disposed, NoAttempt
<1>2. \A c \in Cases : AttemptInv(c)
  <2>1. Lawful(NoAttempt) /\ ~barrier
    BY NoAttemptIsLawful
  <2> QED BY <1>1, <2>1 DEF AttemptInv
<1>3. \A g \in Generators : OwnInv(g)
  BY DEF OwnInv, Kept
<1>4. OrderInv
  BY <1>1, CampaignAssumption DEF OrderInv, Fresh, InGeneration
<1>5. WorkInv
  BY DEF WorkInv, InEvaluation
<1> QED BY <1>2, <1>3, <1>4, <1>5 DEF HaltInv

LEMMA HaltStep ==
    CampaignInv /\ HaltInv /\ [CampaignNext]_campaignVars => HaltInv'
<1> SUFFICES ASSUME CampaignInv, HaltInv, [CampaignNext]_campaignVars PROVE HaltInv'
  OBVIOUS
<1>1. CASE UNCHANGED campaignVars
  BY <1>1, NothingHalts
<1>2. CASE CampaignNext
  BY <1>2, StartControllerIsLawful, CallGenerateIsLawful, GeneratingHalts, EndsAreLawful,
     CallRecoverIsLawful, RecoveringHalts, MarkIsLawful, FreezeBarrierIsLawful,
     TakeAuthoritiesIsLawful, EvaluatingHalts, CompleteIsLawful, RefusalIsLawful,
     KillControllerIsLawful
  DEF CampaignNext
<1> QED BY <1>1, <1>2

\* A campaign that run_v02_exact_campaign halted for no cause outside of it has on file
\* what blocks one of its cases: neither a kill at any step, of the controller or of the
\* call it waits for, nor a recovery or an evaluation after it, halts it for nothing.
THEOREM HaltsStayExplained == CampaignSpec => []HaltIsExplained
<1>1. HaltInv => HaltIsExplained
  BY DEF HaltInv, HaltIsExplained, SomeBlocked
<1>2. CampaignSpec => []CampaignInv
  BY InvariantHolds
<1>3. CampaignInit => HaltInv
  BY HaltInit
<1>4. CampaignInv /\ HaltInv /\ [CampaignNext]_campaignVars => HaltInv'
  BY HaltStep
<1> QED BY <1>1, <1>2, <1>3, <1>4, PTL DEF CampaignSpec

-----------------------------------------------------------------------------
(* The provider calls that the ledger knows of *)

\* What generation g knows of its call where it is.
Calling(g) ==
    /\ pc[g] = "provider" => Unmatched(Of(g))
    /\ pc[g] \in {"persist", "submit", "finish_call"} => calls[CaseOf[g]] > 0

\* A call that has an end in the ledger was made, as was one with a transaction, which a
\* recovery gives it an end for; what was made was begun.
CallsInv ==
    /\ calls \in [Cases -> Nat]
    /\ \A g \in Generators : Kept(g) => calls[CaseOf[g]] > 0
    /\ \A c \in Cases : /\ Called(attempts[c]) => calls[c] > 0
                        /\ calls[c] > 0 => attempts[c].call # "none"
    /\ at = "generating" => Calling(GeneratorFor(Now))

\* No attempt is at its end while its generation runs or is recovered.
UnfinishedInv ==
    at \in {"generating", "recovering"} => attempts[Now].status # "finished"

SameCalls == \A c \in Cases : attempts'[c].call = attempts[c].call

LEMMA CallsStay ==
    ASSUME CallsInv, SameCalls, UNCHANGED <<transaction, calls>>,
           at' = "generating" => Calling(GeneratorFor(Now))'
    PROVE  CallsInv'
BY DEF CallsInv, SameCalls, Kept, Called

LEMMA AppendKeepsCall ==
    ASSUME CampaignInv, NEW p, NEW g \in Generators, NEW accepted, NEW new, NEW next,
           NEW rejected, Append(p, g, accepted, new, next, rejected),
           accepted => new.call = attempts[CaseOf[g]].call
    PROVE  SameCalls
BY OfIsSound DEF Append, SameCalls, CampaignInv, Shapes

\* What the other events leave.
LEMMA OtherEventsKeepCall ==
    ASSUME NEW c, NEW a, Sound(a, c)
    PROVE  /\ \A phase : StartPhase(a, phase).call = a.call
           /\ \A status : FinishPhase(a, status).call = a.call
           /\ \A k, amount : RecordCost(a, k, amount).call = a.call
           /\ \A status : Dispose(a, status).call = a.call
           /\ \A outcome : FinishAttempt(a, outcome).call = a.call
           /\ Submit(a).call = a.call /\ Crash(a).call = a.call /\ Recover(a).call = a.call
<1>1. DOMAIN NoAttempt = {"id", "status", "phase", "began", "ended", "generated", "call",
                          "usage", "candidate", "costs", "disposition", "recovered",
                          "outcome"}
  BY DEF NoAttempt
<1>2. DOMAIN a = DOMAIN NoAttempt
  BY DEF Sound
<1> QED BY <1>1, <1>2
        DEF StartPhase, FinishPhase, RecordCost, Dispose, FinishAttempt, Submit, Crash, Recover

\* An event of an attempt is one of the attempt of its case.
LEMMA EventIsOfCase ==
    ASSUME CampaignInv, NEW g \in Generators
    PROVE  /\ \A phase : MayStartPhase(Of(g), phase) => Of(g) = attempts[CaseOf[g]]
           /\ \A phase, status : MayFinishPhase(Of(g), phase, status) => Of(g) = attempts[CaseOf[g]]
           /\ MayStartCall(Of(g)) => Of(g) = attempts[CaseOf[g]]
           /\ MaySubmit(Of(g)) => Of(g) = attempts[CaseOf[g]]
           /\ \A status : MayFinishCall(Of(g), status) => Of(g) = attempts[CaseOf[g]]
           /\ \A k, amount : MayRecordCost(Of(g), k, amount) => Of(g) = attempts[CaseOf[g]]
           /\ \A status : MayDispose(Of(g), status) => Of(g) = attempts[CaseOf[g]]
           /\ MayFinishAttempt(Of(g)) => Of(g) = attempts[CaseOf[g]]
           /\ MayCrash(Of(g)) => Of(g) = attempts[CaseOf[g]]
           /\ MayRecover(Of(g)) => Of(g) = attempts[CaseOf[g]]
BY OfIsSound DEF MayStartPhase, MayFinishPhase, MayStartCall, MaySubmit, MayFinishCall,
   MayRecordCost, MayDispose, MayFinishAttempt, MayCrash, MayRecover, Open

\* The call of an attempt that is begun by process g, or not there.
LEMMA StartKeepsCall ==
    ASSUME CampaignInv, NEW g \in Generators, MayStartAttempt(g)
    PROVE  StartAttempt(g).call = attempts[CaseOf[g]].call
BY DEF MayStartAttempt, StartAttempt, NoAttempt

LEMMA EvaluatingKeepsCalls ==
    ASSUME CampaignInv, CallsInv, Evaluating
    PROVE  CallsInv' /\ UNCHANGED <<transaction, calls>>
<1>1. PICK o \in Operators, g \in Generators, c \in Cases :
          Waits(o, g, c) /\ ExactEvaluation(o)
  BY WaitsForOne
<1>2. Here(o, g, c)
  BY <1>1, IsHere
<1> DEFINE a == attempts[c]
<1>3. SameCalls /\ UNCHANGED <<transaction, calls>>
  <2> USE OtherEventsKeepCall, AppendKeepsCall DEF Here, AppendEvaluation
  <2>1. CASE StartExactDifferential(o)
    BY <1>2, <2>1 DEF StartExactDifferential, Append, files
  <2>2. CASE FailForNetwork(o)
    <3>1. CASE Look(o, "crash_evaluation")
      BY <3>1 DEF Look, ledger, files, world, SameCalls
    <3>2. CASE Append(o, g, MayFinishPhase(a, "differential", "failed"),
                      FinishPhase(a, "failed"), "costs", "crash_evaluation")
      BY <1>2, <3>2 DEF Append, files
    <3> QED BY <1>2, <2>2, <3>1, <3>2 DEF FailForNetwork
  <2>3. CASE EndExactDifferential(o)
    <3>1. CASE Look(o, "sandbox")
      BY <3>1 DEF Look, ledger, files, world, SameCalls
    <3>2. CASE Append(o, g, MayFinishPhase(a, "differential", "succeeded"),
                      FinishPhase(a, "succeeded"), "sandbox", "done")
      BY <1>2, <3>2 DEF Append, files
    <3> QED BY <1>2, <2>3, <3>1, <3>2 DEF EndExactDifferential
  <2>4. CASE RecordExactSandbox(o)
    <3> DEFINE new(amount) == RecordCost(a, "sandbox", amount)
               label(b) == IF WithinReservation(b) THEN "seal" ELSE "done"
    <3>1. CASE Look(o, label(a))
      BY <3>1 DEF Look, ledger, files, world, SameCalls
    <3>2. ASSUME NEW amount,
                 Append(o, g, MayRecordCost(a, "sandbox", amount), new(amount),
                        label(new(amount)), "done")
          PROVE  SameCalls /\ UNCHANGED <<transaction, calls>>
      <4>1. g \in Generators /\ new(amount).call = attempts[CaseOf[g]].call
        BY <1>2
      <4> HIDE DEF new, label
      <4>2. SameCalls
        BY <3>2, <4>1
      <4> QED BY <3>2, <4>2 DEF Append, files
    <3>3. Of(on[o]) = a /\ on[o] = g
      BY <1>2
    <3> HIDE DEF a
    <3>4. \/ Look(o, label(a))
          \/ \E amount \in Measures :
                 Append(o, g, MayRecordCost(a, "sandbox", amount), new(amount),
                        label(new(amount)), "done")
      BY <2>4, <3>3 DEF RecordExactSandbox
    <3> QED BY <3>1, <3>2, <3>4
  <2>5. CASE FillCosts(o)
    <3> DEFINE k == NextMissing(o)
               amount == missing[o][k]
               next == IF DOMAIN missing[o] = {k} THEN "start_results" ELSE pc[o]
    <3>1. Append(o, g, MayRecordCost(a, k, amount), RecordCost(a, k, amount), next,
                 "crash_evaluation")
      BY <1>2, <2>5 DEF FillCosts, AppendMissing
    <3> HIDE DEF k, amount, next
    <3>2. UNCHANGED <<transaction, calls>>
      BY <3>1 DEF Append, files
    <3> QED BY <1>2, <3>1, <3>2
  <2>6. CASE StartResults(o)
    BY <1>2, <2>6 DEF StartResults, Append, files
  <2>7. CASE EndExactResults(o)
    BY <1>2, <2>7 DEF EndExactResults, EndResults, Append, files, Look, ledger, world, SameCalls
  <2>8. CASE EndAttempt(o)
    BY <1>2, <2>8 DEF EndAttempt, Append, files
  <2>9. CASE LeaveOrCrash(o)
    BY <1>2, <2>9 DEF LeaveOrCrash, CrashEvaluation, Append, files, Look, ledger, world, SameCalls
  <2>10. CASE \/ StartExact(o) \/ TakeExactCapability(o) \/ ReadReceipt(o) \/ RunExact(o)
              \/ VerifyReceipt(o) \/ ReplaceReceipt(o) \/ Seal(o) \/ FindCosts(o)
              \/ \E file \in {"private", "public"} : WriteExactResult(o, file)
    <3>1. UNCHANGED <<ledger, transaction, calls>>
      BY <2>10
      DEF StartExact, TakeExactCapability, ReadReceipt, RunExact, VerifyReceipt,
          ReplaceReceipt, Seal, FindCosts, FindMissing, WriteExactResult, WriteRecord, Look,
          files, world
    <3> QED BY <3>1 DEF ledger, SameCalls
  <2> QED BY <1>1, <2>1, <2>2, <2>3, <2>4, <2>5, <2>6, <2>7, <2>8, <2>9, <2>10
          DEF ExactEvaluation
<1> QED BY <1>3, CallsStay DEF Evaluating, controller

LEMMA RecoveringKeepsCalls ==
    ASSUME CampaignInv, CallsInv, Recovering
    PROVE  CallsInv' /\ UNCHANGED <<transaction, calls>>
<1>1. turn \in DOMAIN CaseList /\ at' = "recovering"
  BY DEF Recovering, controller, CampaignInv, ProgressInv, InCase
<1>2. PICK o \in Operators, c \in Cases : o = OperatorFor(Now) /\ c = Now
  BY <1>1, NowIsCase
<1>3. RecoveryInv(o) /\ Recovery(o)
  BY <1>1, <1>2 DEF Recovering, CampaignInv, CallInv
<1> DEFINE g == on[o]
           a == Of(g)
           usage == transaction[g]
<1>4. g \in Generators /\ CaseOf[g] = c /\ Sound(a, c)
  BY <1>2, <1>3, OfIsSound DEF RecoveryInv
<1>5. UNCHANGED <<transaction, calls>>
  BY <1>3
  DEF Recovery, Enter, StartRecovery, LookForEvent, ReplayEvent, CheckSpend, CheckWall,
      CheckReservation, CrashRecovery, AppendOnly, Append, Look, files, world
<1>6. ASSUME ReplayEvent(o, "call"), Accepted(a, "call", usage) PROVE CallsInv'
  <2>1. /\ MayFinishCall(a, "succeeded")
        /\ attempts' = [attempts EXCEPT ![c] = FinishCall(a, "succeeded", usage)]
           \/ attempts' = attempts
    BY <1>4, <1>6 DEF ReplayEvent, Accepted, Replayed, AppendOnly, Append
  <2>2. Kept(g)
    BY <1>3, <1>6 DEF RecoveryInv, ReplayEvent, BeforeReplay, Replaying, Replays
  <2>3. FinishCall(a, "succeeded", usage).call = "succeeded"
    BY <1>4 DEF FinishCall, Sound, NoAttempt
  <2>4. /\ attempts'[c].call \in {"succeeded", attempts[c].call}
        /\ \A d \in Cases \ {c} : attempts'[d].call = attempts[d].call
    BY <2>1, <2>3 DEF CampaignInv, Shapes
  <2>5. calls[c] > 0
    BY <1>4, <2>2 DEF CallsInv
  <2> QED BY <1>1, <1>5, <2>4, <2>5 DEF CallsInv, Kept, Called
<1>7. ASSUME ~(ReplayEvent(o, "call") /\ Accepted(a, "call", usage)) PROVE SameCalls
  <2> USE OtherEventsKeepCall, EventIsOfCase, AppendKeepsCall DEF AppendOnly
  <2>1. CASE StartRecovery(o)
    <3>1. CASE Look(o, "candidate")
      BY <3>1 DEF Look, ledger, SameCalls
    <3> DEFINE accepted == /\ Kept(g) /\ consumed[CaseOf[g]] = g /\ PreflightRecovery(g)
                           /\ MayRecover(a)
    <3>2. CASE Append(o, g, accepted, Recover(a), "candidate", "crash_recovery")
      <4>1. accepted => Recover(a).call = attempts[CaseOf[g]].call
        BY <1>4
      <4> HIDE DEF accepted
      <4> QED BY <1>4, <3>2, <4>1
    <3>3. \/ Look(o, "candidate")
          \/ Append(o, g, accepted, Recover(a), "candidate", "crash_recovery")
      BY <2>1 DEF StartRecovery
    <3> QED BY <3>1, <3>2, <3>3
  <2>2. ASSUME NEW event \in DOMAIN Replays, ReplayEvent(o, event)
        PROVE  SameCalls
    <3>1. PICK amount \in IF event = "artifact" THEN Measures ELSE {usage} :
              Append(o, g, Accepted(a, event, amount), Replayed(a, event, amount),
                     AfterReplay[event], "crash_recovery")
      BY <2>2 DEF ReplayEvent
    <3> DEFINE new == Replayed(a, event, amount)
    <3>2. Accepted(a, event, amount) => new.call = attempts[CaseOf[g]].call
      <4>1. event \in {"candidate", "call", "cost", "phase", "artifact", "disposition"}
        BY DEF Replays
      <4>2. CASE event = "call"
        BY <1>7, <2>2, <3>1, <4>2
      <4>3. CASE event = "candidate"
        BY <1>4, <4>3 DEF Accepted, Replayed
      <4>4. ASSUME NEW k, MayRecordCost(a, k, amount)
            PROVE  RecordCost(a, k, amount).call = attempts[CaseOf[g]].call
        BY <1>4, <4>4
      <4>7. CASE event = "cost"
        BY <4>4, <4>7 DEF Accepted, Replayed
      <4>8. CASE event = "artifact"
        BY <4>4, <4>8 DEF Accepted, Replayed
      <4>5. CASE event = "phase"
        BY <1>4, <4>5 DEF Accepted, Replayed
      <4>6. CASE event = "disposition"
        BY <1>4, <4>6 DEF Accepted, Replayed
      <4> QED BY <4>1, <4>2, <4>3, <4>5, <4>6, <4>7, <4>8
    <3>3. Append(o, g, Accepted(a, event, amount), new, AfterReplay[event], "crash_recovery")
      BY <3>1
    <3> HIDE DEF new
    <3> QED BY <1>4, <3>2, <3>3
  <2>3. CASE CheckSpend(o)
    BY <1>4, <2>3 DEF CheckSpend, Look, ledger, SameCalls
  <2>4. CASE CrashRecovery(o)
    BY <1>4, <2>4 DEF CrashRecovery
  <2>5. CASE \/ \E h \in Generators : Enter(o, h, "recover") \/ CheckWall(o)
             \/ \E event \in DOMAIN Replays : LookForEvent(o, event)
    BY <2>5 DEF Enter, CheckWall, LookForEvent, Look, ledger, SameCalls
  <2>6. CASE CheckWall(o) \/ CheckReservation(o)
    BY <2>6 DEF CheckWall, CheckReservation, Look, ledger, SameCalls
  <2> QED BY <1>3, <2>1, <2>2, <2>3, <2>4, <2>5, <2>6 DEF Recovery
<1> QED BY <1>1, <1>5, <1>6, <1>7, CallsStay

\* A step of a generation that is no step of its call.
LEMMA OtherStepsKeepCalls ==
    ASSUME CampaignInv, NEW g \in Generators,
           \/ Begin(g) \/ RecordPreparation(g) \/ StartGeneration(g) \/ CannotCall(g)
           \/ Consume(g) \/ RecordModelCost(g) \/ EndGeneration(g) \/ CheckGeneration(g)
           \/ LookForArtifact(g) \/ RecordArtifact(g) \/ LookForPhase(g) \/ ClosePhase(g)
           \/ EnsureCosts(g) \/ FillGenerationCosts(g) \/ DisposeGeneration(g)
           \/ CrashGeneration(g)
    PROVE  /\ SameCalls /\ UNCHANGED <<transaction, calls>>
           /\ pc'[g] \notin {"provider", "persist", "submit", "finish_call"}
<1>1. UNCHANGED <<transaction, calls>>
  BY DEF Begin, RecordPreparation, StartGeneration, CannotCall, Consume, RecordModelCost,
         EndGeneration, CheckGeneration, LookForArtifact, RecordArtifact, LookForPhase,
         ClosePhase, EnsureCosts, FindMissing, FillGenerationCosts, AppendMissing,
         DisposeGeneration, CrashGeneration, AppendOnly, Append, Look, files, world
<1>2. \E label : Goto(g, label) /\ label \notin {"provider", "persist", "submit", "finish_call"}
  <2>1. CASE FillGenerationCosts(g)
    <3>1. pc[g] = "fill"
      BY <2>1 DEF FillGenerationCosts
    <3>2. \E label \in {"dispose", "done", pc[g]} : Goto(g, label)
      BY <2>1 DEF FillGenerationCosts, AppendMissing, Append
    <3> QED BY <3>1, <3>2
  <2>2. CASE RecordModelCost(g)
    <3>1. \E label \in {AfterCost(answer[g].kind), "crash"} : Goto(g, label)
      BY <2>2 DEF RecordModelCost, AppendOnly, Append
    <3> QED BY <3>1 DEF AfterCost
  <2>3. CASE Begin(g) \/ RecordPreparation(g) \/ StartGeneration(g) \/ CannotCall(g)
    BY <2>3 DEF Begin, RecordPreparation, StartGeneration, CannotCall, AppendOnly, Append, Look
  <2>4. CASE Consume(g) \/ EndGeneration(g)
    BY <2>4 DEF Consume, EndGeneration, AppendOnly, Append
  <2>7. CASE CheckGeneration(g)
    <3>1. \E label \in {"artifact", "fail"} : Goto(g, label)
      BY <2>7, Zenon DEF CheckGeneration
    <3> QED BY <3>1
  <2>8. CASE LookForArtifact(g)
    <3>1. \E label \in {"dispose", "artifact_cost", "fail"} : Goto(g, label)
      BY <2>8 DEF LookForArtifact, Look
    <3> QED BY <3>1
  <2>5. CASE RecordArtifact(g) \/ LookForPhase(g) \/ ClosePhase(g)
    BY <2>5 DEF RecordArtifact, LookForPhase, ClosePhase, AppendOnly, Append, Look
  <2>6. CASE EnsureCosts(g) \/ DisposeGeneration(g) \/ CrashGeneration(g)
    BY <2>6 DEF EnsureCosts, FindMissing, DisposeGeneration, CrashGeneration, AppendOnly,
                Append, Look
  <2> QED BY <2>1, <2>2, <2>3, <2>4, <2>5, <2>6, <2>7, <2>8
<1>3. pc'[g] \notin {"provider", "persist", "submit", "finish_call"}
  BY <1>2 DEF Goto, CampaignInv, Shapes, Processes
<1>4. SameCalls
  <2> DEFINE a == Of(g)
             c == CaseOf[g]
  <2>1. Sound(a, c)
    BY OfIsSound
  <2> USE AppendKeepsCall DEF AppendOnly
  <2>2. ASSUME NEW k, NEW amount, MayRecordCost(a, k, amount)
        PROVE  RecordCost(a, k, amount).call = attempts[c].call
    BY <2>1, <2>2, EventIsOfCase, OtherEventsKeepCall
  <2>3. ASSUME NEW phase, NEW status, MayFinishPhase(a, phase, status)
        PROVE  FinishPhase(a, status).call = attempts[c].call
    BY <2>1, <2>3, EventIsOfCase, OtherEventsKeepCall
  <2>4. CASE Begin(g)
    BY <2>4, StartKeepsCall DEF Begin
  <2>5. CASE StartGeneration(g)
    <3>1. PICK late \in BOOLEAN :
              Append(g, g, ~late /\ MayStartPhase(a, "generation"),
                     StartPhase(a, "generation"), "consume", "fail")
      BY <2>5 DEF StartGeneration
    <3>2. MayStartPhase(a, "generation") => StartPhase(a, "generation").call = attempts[c].call
      BY <2>1, EventIsOfCase, OtherEventsKeepCall
    <3> QED BY <3>1, <3>2
  <2>6. CASE RecordPreparation(g) \/ RecordModelCost(g) \/ RecordArtifact(g)
    BY <2>2, <2>6 DEF RecordPreparation, RecordModelCost, RecordArtifact
  <2>7. CASE EndGeneration(g) \/ ClosePhase(g)
    BY <2>3, <2>7 DEF EndGeneration, ClosePhase
  <2>8. CASE FillGenerationCosts(g)
    <3> DEFINE k == NextMissing(g)
               amount == missing[g][k]
               accepted == MayRecordCost(a, k, amount)
               new == RecordCost(a, k, amount)
               next == IF DOMAIN missing[g] = {k} THEN "dispose" ELSE pc[g]
    <3>1. Append(g, g, accepted, new, next, "done")
      BY <2>8 DEF FillGenerationCosts, AppendMissing
    <3>2. accepted => new.call = attempts[c].call
      BY <2>2
    <3> HIDE DEF accepted, new, next
    <3> QED BY <3>1, <3>2
  <2>9. CASE CrashGeneration(g)
    BY <2>1, <2>9, EventIsOfCase, OtherEventsKeepCall DEF CrashGeneration
  <2>10. CASE DisposeGeneration(g)
    <3> DEFINE status == IF held[g] THEN "candidate_submitted" ELSE "no_candidate"
    <3>1. CASE Look(g, "crash")
      BY <3>1 DEF Look, ledger, SameCalls
    <3>2. CASE Append(g, g, MayDispose(a, status), Dispose(a, status), "done", "done")
      <4> HIDE DEF status
      <4> QED BY <2>1, <3>2, EventIsOfCase, OtherEventsKeepCall
    <3> QED BY <2>10, <3>1, <3>2 DEF DisposeGeneration
  <2>11. CASE \/ CannotCall(g) \/ Consume(g) \/ CheckGeneration(g) \/ LookForArtifact(g)
              \/ LookForPhase(g) \/ EnsureCosts(g)
    BY <2>11 DEF CannotCall, Consume, CheckGeneration, LookForArtifact, LookForPhase,
                 EnsureCosts, FindMissing, Look, ledger, SameCalls
  <2> QED BY <2>4, <2>5, <2>6, <2>7, <2>8, <2>9, <2>10, <2>11
<1> QED BY <1>1, <1>3, <1>4

LEMMA CallStepsKeepCalls ==
    ASSUME CampaignInv, CallsInv, NEW g \in Generators, Calling(g),
           at = "generating", at' = "generating", g = GeneratorFor(Now'),
           \/ BeginCall(g) \/ Provider(g) \/ Persist(g) \/ SubmitCandidate(g) \/ EndCall(g)
    PROVE  CallsInv'
<1> DEFINE c == CaseOf[g]
           a == Of(g)
<1>1. c \in Cases /\ Sound(a, c) /\ pc = [p \in Processes |-> pc[p]] /\ g \in Processes
  BY OfIsSound DEF CampaignInv, Shapes, Processes
<1>2. CASE BeginCall(g)
  <2>1. /\ pc[g] = "start_call" /\ UNCHANGED <<transaction, calls>>
        /\ Append(g, g, PreflightCall(g) /\ MayStartCall(a), StartCall(a), "provider", "fail")
    BY <1>2 DEF BeginCall, AppendOnly, Append, files
  <2>2. CASE MayStartCall(a) /\ attempts' = [attempts EXCEPT ![c] = StartCall(a)]
    <3>1. a = attempts[c] /\ StartCall(a).call = "started" /\ a.call = "none"
      BY <1>1, <2>2, EventIsOfCase DEF MayStartCall, StartCall, Sound, NoAttempt
    <3>2. StartCall(a).id = g
      BY <1>1, <2>2, <3>1, AttemptAssumption DEF StartCall, Sound, NoAttempt, Of, MayStartCall, Open
    <3>3. attempts'[c] = StartCall(a) /\ \A d \in Cases \ {c} : attempts'[d] = attempts[d]
      BY <1>1, <2>2 DEF CampaignInv, Shapes
    <3>4. Calling(g)'
      <4>1. Of(g)' = StartCall(a)
        BY <3>2, <3>3 DEF Of
      <4>2. pc'[g] \in {"provider", "fail"}
        BY <1>1, <2>1 DEF Append, Goto
      <4> QED BY <3>1, <4>1, <4>2 DEF Calling, Unmatched
    <3> QED BY <2>1, <3>1, <3>3, <3>4 DEF CallsInv, Kept, Called
  <2>3. CASE attempts' = attempts /\ Goto(g, "fail")
    <3>1. Calling(g)' /\ SameCalls
      BY <1>1, <2>3 DEF Calling, Goto, SameCalls
    <3> QED BY <2>1, <3>1, CallsStay
  <2> QED BY <2>1, <2>2, <2>3 DEF Append
<1>3. CASE Provider(g)
  <2>1. Unmatched(a) /\ a = attempts[c] /\ a # NoAttempt
    BY <1>1, <1>3, OfIsSound DEF Provider, Calling, Unmatched, NoAttempt, Sound
  <2>2. /\ calls' = [calls EXCEPT ![c] = @ + 1] /\ UNCHANGED <<attempts, transaction>>
        /\ \E label \in {"persist", "finish_call"} : Goto(g, label)
    BY <1>3, <2>1 DEF Provider, ledger, files
  <2>3. calls' \in [Cases -> Nat] /\ calls'[c] > 0 /\ \A d \in Cases : calls'[d] >= calls[d]
    BY <1>1, <2>2 DEF CallsInv
  <2>4. \A d \in Cases : calls'[d] > 0 => attempts[d].call # "none"
    BY <2>1, <2>2 DEF CallsInv, Unmatched
  <2>5. Calling(g)'
    BY <1>1, <2>2, <2>3 DEF Calling, Goto
  <2>6. \A h \in Generators : CaseOf[h] \in Cases
    BY AttemptAssumption
  <2>7. \A d \in Cases : calls[d] > 0 => calls'[d] > 0
    BY <2>3 DEF CallsInv
  <2> QED BY <2>2, <2>3, <2>4, <2>5, <2>6, <2>7 DEF CallsInv, Kept
<1>4. CASE Persist(g)
  <2>1. /\ calls[c] > 0 /\ UNCHANGED <<attempts, calls>>
        /\ \E label \in {"submit", "fail", "crash"} : Goto(g, label)
        /\ \A h \in Generators \ {g} : transaction'[h] = transaction[h]
    BY <1>4 DEF Persist, Calling, ledger, world, CampaignInv, FilesInv
  <2>2. Calling(g)'
    BY <1>1, <2>1 DEF Calling, Goto
  <2> QED BY <2>1, <2>2 DEF CallsInv, Kept
<1>5. CASE SubmitCandidate(g)
  <2>1. /\ Append(g, g, MaySubmit(a), Submit(a), "finish_call", "crash")
        /\ UNCHANGED <<transaction, calls>> /\ calls[c] > 0
    BY <1>5 DEF SubmitCandidate, AppendOnly, Append, files, Calling
  <2>2. SameCalls
    BY <1>1, <2>1, AppendKeepsCall, EventIsOfCase, OtherEventsKeepCall
  <2>3. Calling(g)'
    BY <1>1, <2>1 DEF Calling, Append, Goto
  <2> QED BY <2>1, <2>2, <2>3, CallsStay
<1>6. CASE EndCall(g)
  <2> DEFINE new == FinishCall(a, CallStatus(g), answer[g].usage)
  <2>1. /\ Append(g, g, MayFinishCall(a, CallStatus(g)), new, "model_cost", "crash")
        /\ UNCHANGED <<transaction, calls>> /\ calls[c] > 0
    BY <1>6 DEF EndCall, AppendOnly, Append, files, Calling
  <2>2. new.call \in {"succeeded", "failed"}
    BY <1>1 DEF FinishCall, CallStatus, Sound, NoAttempt
  <2> HIDE DEF new
  <2>3. /\ attempts'[c].call \in {"succeeded", "failed", attempts[c].call}
        /\ \A d \in Cases \ {c} : attempts'[d].call = attempts[d].call
    BY <1>1, <2>1, <2>2 DEF Append, CampaignInv, Shapes
  <2>4. Calling(g)'
    BY <1>1, <2>1 DEF Calling, Append, Goto
  <2> QED BY <2>1, <2>3, <2>4 DEF CallsInv, Kept, Called
<1> QED BY <1>2, <1>3, <1>4, <1>5, <1>6

LEMMA GeneratingKeepsCalls ==
    ASSUME CampaignInv, CallsInv, Generating
    PROVE  CallsInv'
<1>1. /\ turn \in DOMAIN CaseList /\ Now' = Now /\ at = "generating" /\ at' = "generating"
  BY DEF Generating, controller, CampaignInv, ProgressInv, InCase, Now
<1>2. PICK g \in Generators : g = GeneratorFor(Now)
  BY <1>1, NowIsCase
<1>3. Generate(g) /\ Calling(g) /\ g = GeneratorFor(Now')
  BY <1>1, <1>2 DEF Generating, CallsInv
<1>4. CASE BeginCall(g) \/ Provider(g) \/ Persist(g) \/ SubmitCandidate(g) \/ EndCall(g)
  BY <1>1, <1>3, <1>4, CallStepsKeepCalls
<1>5. CASE ~(BeginCall(g) \/ Provider(g) \/ Persist(g) \/ SubmitCandidate(g) \/ EndCall(g))
  <2>1. /\ SameCalls /\ UNCHANGED <<transaction, calls>>
        /\ pc'[g] \notin {"provider", "persist", "submit", "finish_call"}
    BY <1>3, <1>5, OtherStepsKeepCalls DEF Generate
  <2>2. Calling(g)'
    BY <2>1 DEF Calling
  <2> QED BY <1>3, <2>1, <2>2, CallsStay
<1> QED BY <1>4, <1>5

\* The steps of the controller make no call.
LEMMA ControllerKeepsCalls ==
    ASSUME CampaignInv, CallsInv, CampaignNext, ~Generating, ~Recovering, ~Evaluating
    PROVE  CallsInv' /\ UNCHANGED <<attempts, transaction, calls>>
<1>1. UNCHANGED <<attempts, transaction, calls>>
  BY DEF CampaignNext, StartController, Preflight, CallGenerate, GenerateEnds, CallRecover,
         RecoverEnds, SkipGenerated, MarkGenerated, MarkEvaluated, Mark, FreezeBarrier, Freeze,
         TakeAuthorities, CallEvaluate, EvaluateEnds, Complete, OutsideIsRefused,
         CallIsRefused, KillController, Controls, Enter, vars, ledger, files, world
<1>2. at' = "generating" => Calling(GeneratorFor(Now))'
  <2> SUFFICES ASSUME at' = "generating" PROVE Calling(GeneratorFor(Now))'
    OBVIOUS
  <2>1. CallGenerate
    BY DEF CampaignNext, StartController, Preflight, CallGenerate, GenerateEnds, CallRecover,
           RecoverEnds, SkipGenerated, MarkGenerated, MarkEvaluated, Mark, FreezeBarrier,
           TakeAuthorities, CallEvaluate, EvaluateEnds, Complete, OutsideIsRefused,
           CallIsRefused, KillController, Continue, Halt
  <2>2. /\ turn \in DOMAIN CaseList /\ DirectoryIsNew(Now) /\ UNCHANGED pc /\ Now' = Now
    BY <2>1 DEF CallGenerate, Continue, Halt, Now
  <2>3. PICK g \in Generators : g = GeneratorFor(Now) /\ g = GeneratorFor(Now')
    BY <2>2, NowIsCase
  <2>4. pc'[g] = "idle"
    BY <2>2, <2>3 DEF DirectoryIsNew
  <2>5. Calling(g)'
    BY <2>4 DEF Calling
  <2> QED BY <2>3, <2>5
<1>3. SameCalls
  BY <1>1 DEF SameCalls
<1> QED BY <1>1, <1>2, <1>3, CallsStay

LEMMA CallsInvSteps ==
    ASSUME CampaignInv, CallsInv, [CampaignNext]_campaignVars
    PROVE  CallsInv'
<1>1. CASE UNCHANGED campaignVars
  <2>1. /\ UNCHANGED <<attempts, transaction, calls, pc, at>> /\ Now' = Now
    BY <1>1 DEF campaignVars, vars, controller, ledger, files, world, Now
  <2>2. \A g : Calling(g) => Calling(g)'
    BY <2>1 DEF Calling, Of
  <2>3. SameCalls
    BY <2>1 DEF SameCalls
  <2> QED BY <2>1, <2>2, <2>3, CallsStay DEF CallsInv
<1> QED BY <1>1, GeneratingKeepsCalls, RecoveringKeepsCalls, EvaluatingKeepsCalls,
           ControllerKeepsCalls

\* A generation and its recovery do not end an attempt, and start with one that has not
\* ended.
LEMMA UnfinishedSteps ==
    ASSUME CampaignInv, UnfinishedInv, [CampaignNext]_campaignVars
    PROVE  UnfinishedInv'
<1>1. CASE UNCHANGED campaignVars
  BY <1>1 DEF campaignVars, vars, controller, ledger, UnfinishedInv, Now
<1>2. ASSUME at' \in {"generating", "recovering"}, at' = at, turn' = turn,
             NEW c \in Cases, c = Now, Advances(c)
      PROVE  UnfinishedInv'
  BY <1>2, AdvancesKeeps DEF UnfinishedInv, Now
<1>3. CASE Generating
  <2>1. /\ turn \in DOMAIN CaseList /\ at = "generating" /\ UNCHANGED controller
    BY <1>3 DEF Generating, CampaignInv, ProgressInv, InCase
  <2>2. PICK g \in Generators : g = GeneratorFor(Now) /\ CaseOf[g] \in Cases /\ CaseOf[g] = Now
    BY <2>1, NowIsCase
  <2>3. GeneratorInv(g) /\ Generate(g)
    BY <1>3, <2>1, <2>2 DEF Generating, CampaignInv, CallInv
  <2>4. Advances(CaseOf[g])
    BY <2>2, <2>3, GenerateSteps DEF GenerationStep
  <2> QED BY <1>2, <2>1, <2>2, <2>4 DEF controller
<1>4. CASE Recovering
  <2>1. turn \in DOMAIN CaseList /\ at = "recovering" /\ UNCHANGED controller
    BY <1>4 DEF Recovering, CampaignInv, ProgressInv, InCase
  <2>2. PICK o \in Operators, c \in Cases : o = OperatorFor(Now) /\ c = Now
    BY <2>1, NowIsCase
  <2>3. RecoveryInv(o) /\ Recovery(o)
    BY <1>4, <2>1, <2>2 DEF Recovering, CampaignInv, CallInv
  <2>4. Advances(c)
    BY <2>2, <2>3, RecoverySteps DEF RecoveryStep
  <2> QED BY <1>2, <2>1, <2>2, <2>4 DEF controller
<1>5. CASE CallGenerate
  BY <1>5 DEF CallGenerate, Fresh, NoAttempt, ledger, UnfinishedInv, Continue, Halt, Now
<1>6. CASE CallRecover
  <2>1. turn \in DOMAIN CaseList /\ attempts[Now].disposition = "none" /\ UNCHANGED attempts
        /\ Now' = Now
    BY <1>6 DEF CallRecover, Enter, ledger, Continue, Now
  <2>2. Sound(attempts[Now], Now)
    BY <2>1, NowIsCase DEF CampaignInv
  <2> QED BY <2>1, <2>2 DEF UnfinishedInv, Sound
<1>7. CASE CampaignNext /\ ~(Generating \/ Recovering \/ CallGenerate \/ CallRecover)
  <2>1. at' \notin {"generating", "recovering"}
    BY <1>7
    DEF CampaignNext, StartController, Preflight, GenerateEnds, RecoverEnds, SkipGenerated,
        MarkGenerated, MarkEvaluated, Mark, FreezeBarrier, TakeAuthorities, CallEvaluate,
        Evaluating, EvaluateEnds, Complete, OutsideIsRefused, CallIsRefused, KillController,
        Continue, Halt, controller
  <2> QED BY <2>1 DEF UnfinishedInv
<1> QED BY <1>1, <1>3, <1>4, <1>5, <1>6, <1>7

\* Once every attempt is at its end the campaign may run again, and changes nothing that
\* a finalization reads.
LEMMA NothingAfterTheEnd ==
    ASSUME CampaignInv, UnfinishedInv, Ended, [CampaignNext]_campaignVars
    PROVE  /\ UNCHANGED <<attempts, results, receipts, reported, calls>>
           /\ barrier => UNCHANGED ledger
<1>1. CASE UNCHANGED campaignVars
  BY <1>1 DEF campaignVars, vars, ledger, files, world, evaluation
<1>2. ~Generating /\ ~Recovering
  <2> SUFFICES ASSUME Generating \/ Recovering PROVE FALSE
    OBVIOUS
  <2>1. at \in {"generating", "recovering"} /\ turn \in DOMAIN CaseList
    BY DEF Generating, Recovering, CampaignInv, ProgressInv, InCase
  <2>2. Now \in Cases
    BY <2>1, NowIsCase
  <2> QED BY <2>1, <2>2 DEF UnfinishedInv, Ended
<1>3. CASE Evaluating
  <2>1. PICK o \in Operators, g \in Generators, c \in Cases :
            Waits(o, g, c) /\ ExactEvaluation(o)
    BY <1>3, WaitsForOne
  <2>2. pc[o] \in {"evaluate", "done"}
    BY <2>1, IsHere DEF Here, EvaluatorInv, Ended, Open
  <2>3. StartExact(o)
    BY <2>1, <2>2
    DEF ExactEvaluation, TakeExactCapability, StartExactDifferential, FailForNetwork,
        ReadReceipt, RunExact, VerifyReceipt, ReplaceReceipt, EndExactDifferential,
        RecordExactSandbox, Seal, FindCosts, FillCosts, StartResults, EndAttempt,
        WriteExactResult, WriteRecord, EndExactResults, EndResults, LeaveOrCrash,
        CrashEvaluation
  <2> QED BY <2>3 DEF StartExact, ledger, files, world, evaluation
<1>4. CASE CampaignNext /\ ~Evaluating
  <2>1. UNCHANGED <<attempts, results, receipts, reported, calls>>
    BY <1>2, <1>4
    DEF CampaignNext, StartController, Preflight, CallGenerate, GenerateEnds, CallRecover,
        RecoverEnds, SkipGenerated, MarkGenerated, MarkEvaluated, Mark, FreezeBarrier, Freeze,
        TakeAuthorities, CallEvaluate, EvaluateEnds, Complete, OutsideIsRefused,
        CallIsRefused, KillController, Controls, Enter, Released, vars, ledger, files, world, evaluation
  <2>2. barrier => UNCHANGED barrier
    BY <1>2, <1>4
    DEF CampaignNext, StartController, Preflight, CallGenerate, GenerateEnds, CallRecover,
        RecoverEnds, SkipGenerated, MarkGenerated, MarkEvaluated, Mark, FreezeBarrier, Freeze,
        MayFreeze, TakeAuthorities, CallEvaluate, EvaluateEnds, Complete, OutsideIsRefused,
        CallIsRefused, KillController, Controls, Enter, vars, ledger
  <2> QED BY <2>1, <2>2 DEF ledger
<1> QED BY <1>1, <1>3, <1>4

-----------------------------------------------------------------------------
(* What a finalization rests on and what it writes *)

Drafted(d) == d = [part \in DOMAIN Unread |-> d[part]]

\* A record is no mark.
MarksAreNoRecords == NoFile # CutShort /\ \A d : Drafted(d) => d \notin {NoFile, CutShort}

\* What a review in the sealed set says of attempt a.
ReviewIs(a, review) ==
    /\ review.status = IF a.disposition = "no_candidate" THEN "no_candidate"
                       ELSE IF a.outcome = "infrastructure" THEN "infrastructure"
                       ELSE "consensus"
    /\ review.status = "consensus" \/ review.verdict = NoVerdict
    /\ review.verdict.valid => review.verdict.two

SetsInv == ReviewSetReads => Ended /\ \A c \in Cases : ReviewIs(attempts[c], reviewSet[c])

\* The ledger that draft d was read from is the one on file, and at its end.
LedgerRead(d) ==
    /\ Drafted(d) /\ d.attempts = attempts /\ d.barrier = barrier
    /\ barrier /\ Ended /\ \A c \in Cases : ~Unmatched(attempts[c])

ResultsRead(d, file) == d.results = ResultsOf(d, file)

\* Only an execution on the run that is on file has made a record pass.
RecordIsOwn(d, c) ==
    LET control == d.records[c] IN
    control.passed => /\ Mechanical(d, c)
                      /\ control.receipt \in DOMAIN controls
                      /\ controls[control.receipt].case = c
                      /\ controls[control.receipt].run = d.results[c].run
                      /\ controls[control.receipt].passed

ControlsRead(d) == /\ ControlSetReads /\ d.controls = controlSet
                   /\ \A c \in Cases : RecordIsOwn(d, c)

\* What L2IsEarned says of the row of case c.
Earned(c, row) ==
    row.l2 => /\ receipts[attempts[c].id] \in accepting
              /\ row.control \in DOMAIN controls
              /\ controls[row.control].case = c
              /\ controls[row.control].run = receipts[attempts[c].id]
              /\ controls[row.control].passed
              /\ row.review.two

\* A private record of what is on file.
Bundle(d) ==
    /\ d \notin {NoFile, CutShort}
    /\ LedgerRead(d) /\ ResultsRead(d, "public") /\ ResultsRead(d, "private")
    /\ ControlsRead(d)
    /\ ReviewSetReads /\ d.reviews = reviewSet
    /\ d.public.run = RunConfiguration(d)
    /\ d.public.summary = Summary(d.public.cases)
    /\ \A c \in Cases : RowVerifies(d.public.cases[c]) /\ Earned(c, d.public.cases[c])

\* What a process has read when it is at label.
Tasks == {"idle", "public_results", "private_results", "controls", "reviews",
          "private", "fill_private", "public", "fill_public"}
HasRead(d, label) ==
    /\ label # "idle" => LedgerRead(d)
    /\ label \notin {"idle", "public_results"} => ResultsRead(d, "public")
    /\ label \notin {"idle", "public_results", "private_results"} => ResultsRead(d, "private")
    /\ label \notin {"idle", "public_results", "private_results", "controls"} => ControlsRead(d)
    /\ label \in {"private", "fill_private", "public", "fill_public"} => Bundle(d)

FinalShapes ==
    /\ task = [f \in Finalizers |-> task[f]]
    /\ draft = [f \in Finalizers |-> draft[f]]
    /\ authorities = [f \in Finalizers |-> authorities[f]]
    /\ final = [private |-> final.private, public |-> final.public]

ControlsInv == /\ \E n \in Nat : DOMAIN controls = 1 .. n
               /\ \A f \in Finalizers : authorities[f] \subseteq DOMAIN controls

\* Only the process that created the private record fills it, and nobody has it or the
\* public one before.
FilerInv(f) ==
    /\ task[f] \in Tasks
    /\ HasRead(draft[f], task[f])
    /\ task[f] \in {"public", "fill_public"} => final.private = draft[f]
    /\ task[f] = "fill_private" => /\ final.private = CutShort
                                   /\ \A e \in Finalizers : task[e] = "fill_private" => e = f

FinalInv ==
    /\ FinalShapes /\ ControlsInv /\ SetsInv
    /\ \A f \in Finalizers : FilerInv(f)
    /\ final.private \in {NoFile, CutShort} \/ Bundle(final.private)
    /\ final.public # NoFile => /\ final.private \notin {NoFile, CutShort}
                                /\ final.public \in {CutShort, final.private.public}

EndInv == CampaignInv /\ CallsInv /\ UnfinishedInv /\ FinalInv

LEMMA InitIsFinal ==
    ASSUME FinalizationInit
    PROVE  EndInv
<1>1. CampaignInv
  BY InitInv DEF FinalizationInit
<1>2. CallsInv
  <2>1. /\ calls = [c \in Cases |-> 0] /\ transaction = [g \in Generators |-> NoFile]
        /\ attempts = [c \in Cases |-> NoAttempt] /\ at = "stopped"
    BY DEF FinalizationInit, CampaignInit, RunnerInit, Blank, LedgerInit
  <2> QED BY <2>1 DEF CallsInv, Kept, Called, NoAttempt
<1>3. UnfinishedInv
  BY DEF FinalizationInit, CampaignInit, UnfinishedInv
<1>4. FinalInv
  <2> USE DEF FinalizationInit
  <2>1. FinalShapes /\ SetsInv
    BY DEF FinalShapes, SetsInv, ReviewSetReads
  <2>2. ControlsInv
    <3>1. DOMAIN controls = 1 .. 0
      OBVIOUS
    <3> QED BY <3>1 DEF ControlsInv
  <2>3. \A f \in Finalizers : FilerInv(f)
    BY DEF FilerInv, Tasks, HasRead
  <2> QED BY <2>1, <2>2, <2>3 DEF FinalInv
<1> QED BY <1>1, <1>2, <1>3, <1>4 DEF EndInv

\* From the end of the attempts on the campaign changes nothing that is read, a set that
\* reads is never written again, and executions are only added.
Preserved ==
    /\ barrier /\ Ended => UNCHANGED <<ledger, results, receipts, reported>>
    /\ ControlSetReads => UNCHANGED controlSet
    /\ ReviewSetReads => UNCHANGED reviewSet
    /\ UNCHANGED accepting
    /\ \A n \in DOMAIN controls : n \in DOMAIN controls' /\ controls'[n] = controls[n]

LEMMA LedgerReadStays ==
    ASSUME NEW d, LedgerRead(d), Preserved
    PROVE  /\ LedgerRead(d)'
           /\ \A file : ResultsRead(d, file) => ResultsRead(d, file)'
           /\ ControlsRead(d) => ControlsRead(d)'
<1>1. UNCHANGED <<attempts, barrier, results, receipts, reported, accepting>>
  BY DEF LedgerRead, Preserved, ledger
<1>2. LedgerRead(d)'
  BY <1>1 DEF LedgerRead, Ended
<1>3. \A file : ResultsRead(d, file) => ResultsRead(d, file)'
  BY <1>1 DEF ResultsRead, ResultsOf
<1>4. ControlsRead(d) => ControlsRead(d)'
  BY <1>1 DEF Preserved, ControlsRead, ControlSetReads, RecordIsOwn, Mechanical
<1> QED BY <1>2, <1>3, <1>4

LEMMA BundleStays ==
    ASSUME NEW d, Bundle(d), Preserved
    PROVE  Bundle(d)'
<1>1. LedgerRead(d)' /\ ResultsRead(d, "public")' /\ ResultsRead(d, "private")'
      /\ ControlsRead(d)'
  BY LedgerReadStays DEF Bundle
<1>2. UNCHANGED <<attempts, receipts, accepting, reviewSet>>
  BY DEF Bundle, LedgerRead, Preserved, ledger
<1>3. \A c \in Cases : Earned(c, d.public.cases[c])'
  BY <1>2 DEF Bundle, Preserved, Earned
<1>4. ReviewSetReads' /\ d.reviews = reviewSet'
  BY <1>2 DEF Bundle, ReviewSetReads
<1> QED BY <1>1, <1>3, <1>4 DEF Bundle

LEMMA HasReadStays ==
    ASSUME NEW d, NEW label, HasRead(d, label), Preserved
    PROVE  HasRead(d, label)'
BY LedgerReadStays, BundleStays DEF HasRead

\* What holds of d holds of a draft or a record that is d.
LEMMA HasReadFollows ==
    ASSUME NEW d, NEW label, HasRead(d, label)'
    PROVE  \A f : draft'[f] = d /\ task'[f] = label => HasRead(draft[f], task[f])'
BY DEF HasRead

LEMMA BundleFollows ==
    ASSUME NEW d, Bundle(d)'
    PROVE  final'.private = d => Bundle(final.private)'
BY DEF Bundle

-----------------------------------------------------------------------------
(* What was read makes rows that verify and are earned *)

LEMMA VerdictNeedsTwo ==
    ASSUME NEW v \in Verdicts \cup {NoVerdict}, v.valid
    PROVE  v.two
<1>1. PICK votes \in Rounds : /\ WellFormed(votes)
                              /\ v = [valid |-> Consensus(votes),
                                      two |-> Cardinality({n \in DOMAIN votes : votes[n].valid}) >= 2]
  <2>1. v \in Verdicts
    BY DEF NoVerdict
  <2> QED BY <2>1 DEF Verdicts
<1>2. PICK k \in {2, 3} : votes \in [1 .. k -> Votes]
  BY <1>1 DEF Rounds
<1> DEFINE S == {n \in 1 .. k : votes[n].valid}
<1>3. /\ Cardinality(1 .. k) = k
      /\ IsFiniteSet(1 .. k)
  <2>1. IsFiniteSet(1 .. k) /\ Cardinality(1 .. k) = IF 1 > k THEN 0 ELSE k - 1 + 1
    BY <1>2, FS_Interval
  <2> QED BY <1>2, <2>1
<1>4. votes[k].valid
  BY <1>1, <1>2, <1>3 DEF Consensus
<1>5. \A n \in 1 .. k : votes[n].valid \in BOOLEAN
  BY <1>2 DEF Votes
<1>6. PICK m \in 1 .. k : m # k /\ votes[m].valid
  <2>1. CASE k = 2
    <3>1. 3 \notin DOMAIN votes
      BY <1>2, <2>1
    <3>2. votes[1].valid = votes[2].valid
      BY <1>1, <1>5, <2>1, <3>1 DEF WellFormed
    <3> QED BY <1>4, <2>1, <3>2
  <2>2. CASE k = 3
    <3>1. votes[1].valid # votes[2].valid
      BY <1>1, <1>2, <2>2 DEF WellFormed
    <3> QED BY <1>5, <2>2, <3>1
  <2> QED BY <1>2, <2>1, <2>2
<1>7. IsFiniteSet(S) /\ {m, k} \subseteq S
  BY <1>2, <1>3, <1>4, <1>6, FS_Subset
<1>8. Cardinality({m, k}) = 2
  <2>1. Cardinality({m}) = 1 /\ IsFiniteSet({m})
    BY FS_Singleton
  <2>2. Cardinality({m} \cup {k}) = Cardinality({m}) + 1
    BY <1>6, <2>1, FS_AddElement
  <2>3. {m} \cup {k} = {m, k}
    OBVIOUS
  <2> QED BY <2>1, <2>2, <2>3
<1>9. Cardinality(S) >= 2 /\ Cardinality(S) \in Nat
  BY <1>7, <1>8, FS_Subset, FS_CardinalityType
<1> QED BY <1>1, <1>2, <1>9

LEMMA SealedReviewIs ==
    ASSUME NEW c, NEW review \in ReviewsOf(c)
    PROVE  ReviewIs(attempts[c], review)
<1> DEFINE a == attempts[c]
<1>1. CASE a.disposition = "no_candidate"
  <2>1. review = NotReviewed("no_candidate")
    BY <1>1 DEF ReviewsOf
  <2> QED BY <1>1, <2>1 DEF ReviewIs, NotReviewed, NoVerdict
<1>2. CASE a.disposition # "no_candidate" /\ a.outcome = "infrastructure"
  <2>1. review = NotReviewed("infrastructure")
    BY <1>2 DEF ReviewsOf
  <2> QED BY <1>2, <2>1 DEF ReviewIs, NotReviewed, NoVerdict
<1>3. CASE a.disposition # "no_candidate" /\ a.outcome # "infrastructure"
  <2>1. review.status = "consensus" /\ review.verdict \in Verdicts
    BY <1>3 DEF ReviewsOf
  <2> QED BY <1>3, <2>1, VerdictNeedsTwo DEF ReviewIs
<1> QED BY <1>1, <1>2, <1>3

\* All that is read has been read.
AllRead(seen) == /\ LedgerRead(seen) /\ ResultsRead(seen, "public")
                 /\ ResultsRead(seen, "private") /\ ControlsRead(seen)
                 /\ ReviewSetReads /\ seen.reviews = reviewSet

LEMMA ReadOfCase ==
    ASSUME EndInv, NEW seen, AllRead(seen), NEW c \in Cases
    PROVE  LET a == seen.attempts[c] IN
           /\ a = attempts[c]
           /\ a.disposition \in Dispositions /\ a.outcome \in Outcomes
           /\ a.outcome = "verdict" => seen.results[c].run = receipts[a.id]
           /\ ReviewIs(a, seen.reviews[c])
<1> DEFINE a == attempts[c]
<1>1. /\ seen.attempts = attempts /\ a.status = "finished"
      /\ seen.results = ResultsOf(seen, "public") /\ seen.reviews = reviewSet
  BY DEF AllRead, LedgerRead, ResultsRead, Ended
<1>2. Sound(a, c) /\ FinishedInv(c)
  BY DEF EndInv, CampaignInv
<1>3. ReviewIs(a, reviewSet[c])
  BY DEF EndInv, FinalInv, SetsInv, AllRead
<1>4. a.disposition \in Dispositions /\ a.outcome \in Outcomes
  BY <1>1, <1>2 DEF Sound
<1>5. seen.results[c].run = reported[a.id]["public"]
  BY <1>1 DEF ResultsOf
<1>6. a.outcome = "verdict" => reported[a.id]["public"] = receipts[a.id]
  BY <1>1, <1>2 DEF FinishedInv, Files
<1> QED BY <1>1, <1>3, <1>4, <1>5, <1>6

\* A row that is made of them verifies.
LEMMA RowsVerify ==
    ASSUME EndInv, NEW seen, AllRead(seen), NEW c \in Cases
    PROVE  RowVerifies(Row(seen, c))
<1> DEFINE a == seen.attempts[c]
           row == Row(seen, c)
           control == seen.records[c]
           review == seen.reviews[c]
           mechanical == Mechanical(seen, c)
           l2 == mechanical /\ control.passed /\ review.verdict.valid
           candidate == a.disposition = "candidate_submitted"
<1>1. /\ a.disposition \in Dispositions /\ a.outcome \in Outcomes /\ ReviewIs(a, review)
  BY ReadOfCase
<1>2. /\ row.candidate = candidate
      /\ row.outcome = TerminalOf(seen, c)[1] /\ row.claim = TerminalOf(seen, c)[2]
      /\ row.passed = control.passed
      /\ row.reviewed = review.status /\ row.review = review.verdict
      /\ row.provisional = (mechanical /\ review.verdict.valid) /\ row.l2 = l2
      /\ row.validation = Validation(candidate, mechanical, l2)
  BY DEF Row
<1>3. ClaimsMechanical(row) = mechanical
  <2>1. mechanical => a.outcome = "verdict"
    BY DEF Mechanical
  <2> HIDE DEF row, mechanical
  <2>5. ClaimsMechanical(row) \in BOOLEAN /\ mechanical \in BOOLEAN
    BY DEF ClaimsMechanical, Mechanical, mechanical
  <2>2. CASE mechanical
    <3>1. TerminalOf(seen, c) = <<"verified_reproduction", "differential_reproduction">>
      BY <2>1, <2>2 DEF TerminalOf, mechanical
    <3> QED BY <1>2, <2>2, <3>1 DEF ClaimsMechanical
  <2>3. CASE ~mechanical /\ a.outcome = "verdict"
    <3>1. TerminalOf(seen, c) = <<"rejected_reproduction", "rejected">>
      BY <2>3 DEF TerminalOf, mechanical, Mechanical
    <3>2. TerminalOf(seen, c)[2] = "rejected"
      BY <3>1
    <3> QED BY <1>2, <2>3, <2>5, <3>2 DEF ClaimsMechanical
  <2>4. CASE ~mechanical /\ a.outcome \in {"no_output", "infrastructure"}
    <3>1. TerminalOf(seen, c) = Terminals[a.outcome]
      BY <2>4 DEF TerminalOf
    <3>2. /\ Terminals["no_output"][2] = "rejected"
          /\ Terminals["infrastructure"][2] = "rejected"
      BY DEF Terminals
    <3>3. TerminalOf(seen, c)[2] = "rejected"
      BY <2>4, <3>1, <3>2
    <3> QED BY <1>2, <2>4, <2>5, <3>3 DEF ClaimsMechanical
  <2> QED BY <1>1, <2>2, <2>3, <2>4, <2>5 DEF Outcomes
<1>4. a.outcome = "infrastructure" => row.outcome = "benchmark_infrastructure_error"
  BY <1>2 DEF TerminalOf, Terminals
<1>5. /\ row.reviewed = "consensus" \/ row.review = NoVerdict
      /\ row.reviewed = "no_candidate" <=> ~row.candidate
      /\ row.reviewed = "infrastructure" =>
             row.candidate /\ row.outcome = "benchmark_infrastructure_error"
  BY <1>1, <1>2, <1>4 DEF ReviewIs, Dispositions
<1>6. /\ row.provisional = (ClaimsMechanical(row) /\ row.review.valid)
      /\ l2 = (ClaimsMechanical(row) /\ row.passed /\ row.review.valid)
  BY <1>2, <1>3
<1>7. /\ row.l2 = (ClaimsMechanical(row) /\ row.passed /\ row.review.valid)
      /\ row.validation = Validation(row.candidate, ClaimsMechanical(row),
                               ClaimsMechanical(row) /\ row.passed /\ row.review.valid)
  <2> HIDE DEF row, l2, mechanical, candidate
  <2>1. row.l2 = (ClaimsMechanical(row) /\ row.passed /\ row.review.valid)
    BY <1>2, <1>6
  <2>2. row.validation = Validation(row.candidate, ClaimsMechanical(row), row.l2)
    BY <1>2, <1>3 DEF Validation
  <2>3. row.validation = Validation(row.candidate, ClaimsMechanical(row),
                              ClaimsMechanical(row) /\ row.passed /\ row.review.valid)
    BY <2>1, <2>2 DEF Validation
  <2> QED BY <2>1, <2>3
<1> HIDE DEF row
<1>8. RowVerifies(row)
  BY <1>5, <1>6, <1>7 DEF RowVerifies
<1> QED BY <1>8 DEF row

\* What it claims is earned: no authority was taken for another case or another run.
LEMMA RowsAreEarned ==
    ASSUME EndInv, NEW seen, AllRead(seen), NEW c \in Cases
    PROVE  Earned(c, Row(seen, c))
<1> DEFINE a == seen.attempts[c]
           row == Row(seen, c)
           control == seen.records[c]
           review == seen.reviews[c]
<1> SUFFICES ASSUME row.l2 PROVE Earned(c, row)
  BY DEF Earned
<1>1. Mechanical(seen, c) /\ control.passed /\ review.verdict.valid
  BY DEF Row
<1>2. row.control = control.receipt /\ row.review = review.verdict
  BY DEF Row
<1>3. /\ a.outcome = "verdict" /\ seen.results[c].run \in accepting
      /\ a = attempts[c] /\ seen.results[c].run = receipts[a.id] /\ ReviewIs(a, review)
  BY <1>1, ReadOfCase DEF Mechanical
<1>4. RecordIsOwn(seen, c)
  BY DEF AllRead, ControlsRead
<1> HIDE DEF row, control
<1> QED BY <1>1, <1>2, <1>3, <1>4 DEF Earned, ReviewIs, RecordIsOwn, control

LEMMA DraftIsBundle ==
    ASSUME EndInv, MarksAreNoRecords, NEW seen, AllRead(seen)
    PROVE  Bundle([seen EXCEPT !.public = Published(seen)])
<1> DEFINE d == [seen EXCEPT !.public = Published(seen)]
           rows == [c \in Cases |-> Row(seen, c)]
<1>1. Drafted(seen) /\ seen.attempts = attempts
  BY DEF AllRead, LedgerRead
<1>2. /\ d.public = Published(seen) /\ Drafted(d)
      /\ d.attempts = seen.attempts /\ d.barrier = seen.barrier /\ d.results = seen.results
      /\ d.controls = seen.controls /\ d.records = seen.records /\ d.reviews = seen.reviews
  BY <1>1 DEF Drafted, Unread
<1> HIDE DEF d
<1>3. /\ d.public.run = RunConfiguration(d) /\ d.public.cases = rows
      /\ d.public.summary = Summary(rows)
  BY <1>2 DEF Published, RunConfiguration
<1>4. \A c \in Cases : RowVerifies(rows[c]) /\ Earned(c, rows[c])
  BY RowsVerify, RowsAreEarned
<1>5. LedgerRead(d)
  BY <1>2 DEF AllRead, LedgerRead
<1>6. \A file \in Files : ResultsRead(d, file)
  <2>1. \A file : ResultsOf(d, file) = ResultsOf(seen, file)
    BY <1>2 DEF ResultsOf
  <2> QED BY <1>2, <2>1 DEF AllRead, ResultsRead, Files
<1>7. ControlsRead(d)
  <2>1. \A c \in Cases : Mechanical(d, c) = Mechanical(seen, c)
    BY <1>2 DEF Mechanical
  <2> QED BY <1>2, <2>1 DEF AllRead, ControlsRead, RecordIsOwn
<1>8. ReviewSetReads /\ d.reviews = reviewSet
  BY <1>2 DEF AllRead
<1>9. d \notin {NoFile, CutShort}
  BY <1>2 DEF MarksAreNoRecords
<1> HIDE DEF rows
<1>10. Bundle(d)
  BY <1>3, <1>4, <1>5, <1>6, <1>7, <1>8, <1>9 DEF Bundle, Files
<1> QED BY <1>10 DEF d

-----------------------------------------------------------------------------
(* The steps keep it *)

\* What a step that leaves the processes alone, and the two records, keeps.
LEMMA FinalStays ==
    ASSUME FinalInv, Preserved, UNCHANGED <<final, task, draft>>,
           FinalShapes', ControlsInv', SetsInv'
    PROVE  FinalInv'
<1>1. ASSUME NEW f \in Finalizers PROVE FilerInv(f)'
  <2>1. FilerInv(f) /\ task'[f] = task[f] /\ draft'[f] = draft[f]
    BY DEF FinalInv
  <2>2. PICK d : d = draft[f]
    OBVIOUS
  <2>3. HasRead(d, task[f]) => HasRead(d, task[f])'
    <3>1. PICK label : label = task[f]
      OBVIOUS
    <3>2. HasRead(d, label) => HasRead(d, label)'
      BY HasReadStays
    <3> QED BY <2>1, <3>1, <3>2
  <2>4. HasRead(draft[f], task[f]) => HasRead(draft[f], task[f])'
    BY <2>1, <2>2, <2>3
  <2> QED BY <2>1, <2>4 DEF FilerInv
<1>2. Bundle(final.private) => Bundle(final.private)'
  <2>1. PICK d : d = final.private
    OBVIOUS
  <2>2. Bundle(d) => Bundle(d)'
    BY BundleStays
  <2> QED BY <2>1, <2>2, BundleFollows
<1> QED BY <1>1, <1>2 DEF FinalInv

LEMMA RunControlsKeeps ==
    ASSUME FinalInv, NEW f \in Finalizers, NEW c \in Cases, RunControls(f, c)
    PROVE  FinalInv'
<1>1. PICK n \in Nat : DOMAIN controls = 1 .. n
  BY DEF FinalInv, ControlsInv
<1>2. Executed = n
  <2>1. Cardinality(1 .. n) = IF 1 > n THEN 0 ELSE n - 1 + 1
    BY <1>1, FS_Interval
  <2> QED BY <1>1, <2>1 DEF Executed
<1>3. /\ DOMAIN controls' = 1 .. n + 1
      /\ \A m \in DOMAIN controls : controls'[m] = controls[m]
  BY <1>1, <1>2 DEF RunControls
<1>4. /\ authorities' = [authorities EXCEPT ![f] = @ \cup {n + 1}]
      /\ UNCHANGED <<controlSet, reviewSet, final, task, draft>> /\ Beside
  BY <1>2 DEF RunControls
<1>5. Preserved
  BY <1>1, <1>3, <1>4 DEF Preserved, Beside, files, evaluation
<1>6. FinalShapes' /\ SetsInv'
  BY <1>4 DEF FinalInv, FinalShapes, SetsInv, ReviewSetReads, Ended, ReviewIs, Beside, ledger
<1>7. ControlsInv'
  <2>1. \A e \in Finalizers : authorities'[e] \subseteq authorities[e] \cup {n + 1}
    BY <1>4 DEF FinalInv, FinalShapes
  <2>2. \A e \in Finalizers : authorities[e] \subseteq 1 .. n
    BY <1>1 DEF FinalInv, ControlsInv
  <2>3. n + 1 \in Nat /\ 1 .. n \cup {n + 1} \subseteq 1 .. n + 1
    OBVIOUS
  <2> QED BY <1>3, <2>1, <2>2, <2>3 DEF ControlsInv
<1> QED BY <1>4, <1>5, <1>6, <1>7, FinalStays

LEMMA SealingKeeps ==
    ASSUME FinalInv, NEW f \in Finalizers, SealControls(f) \/ SealReviews(f)
    PROVE  FinalInv'
<1>1. /\ Ended /\ UNCHANGED <<controls, authorities, final, task, draft>> /\ Beside
      /\ UNCHANGED controlSet \/ UNCHANGED reviewSet
  BY DEF SealControls, SealReviews
<1>2. Preserved
  BY <1>1 DEF SealControls, SealReviews, IsNew, Preserved, ControlSetReads, ReviewSetReads,
              Beside, files, evaluation
<1>3. FinalShapes' /\ ControlsInv'
  BY <1>1 DEF FinalInv, FinalShapes, ControlsInv
<1>4. SetsInv'
  <2>1. Ended' /\ attempts' = attempts
    BY <1>1 DEF Ended, Beside, ledger
  <2>2. CASE UNCHANGED reviewSet
    BY <2>1, <2>2 DEF FinalInv, SetsInv, ReviewSetReads, ReviewIs
  <2>3. CASE SealReviews(f) /\ reviewSet' \in ReviewSets
    <3>1. \A c \in Cases : reviewSet'[c] \in ReviewsOf(c)
      BY <2>3 DEF ReviewSets
    <3>2. \A c \in Cases : ReviewIs(attempts[c], reviewSet'[c])
      BY <3>1, SealedReviewIs
    <3> QED BY <2>1, <3>2 DEF SetsInv, ReviewIs
  <2>4. CASE reviewSet' = CutShort
    BY <2>4 DEF SetsInv, ReviewSetReads
  <2> QED BY <1>1, <2>2, <2>3, <2>4 DEF SealControls, SealReviews
<1> QED BY <1>1, <1>2, <1>3, <1>4, FinalStays

\* What a step of process f, which may write, leaves for the others.
LEMMA OthersStay ==
    ASSUME FinalInv, Preserved, NEW f \in Finalizers, NEW new, Turn(f, new),
           NEW e \in Finalizers \ {f}, draft'[e] = draft[e],
           task[e] \in {"public", "fill_public", "fill_private"} => final'.private = final.private,
           task[e] = "fill_private" => new # "fill_private"
    PROVE  FilerInv(e)'
<1>1. FilerInv(e) /\ FinalShapes
  BY DEF FinalInv
<1>2. \A h \in Finalizers \ {f} : task'[h] = task[h]
  BY <1>1 DEF Turn, FinalShapes
<1>3. task'[f] = new
  BY <1>1 DEF Turn, FinalShapes
<1>4. HasRead(draft[e], task[e])'
  <2>1. PICK d, label : d = draft[e] /\ label = task[e]
    OBVIOUS
  <2>2. HasRead(d, label)
    BY <1>1, <2>1 DEF FilerInv
  <2>3. HasRead(d, label)'
    BY <2>2, HasReadStays
  <2>4. draft'[e] = d /\ task'[e] = label
    BY <1>2, <2>1
  <2> QED BY <2>3, <2>4, HasReadFollows
<1> QED BY <1>1, <1>2, <1>3, <1>4 DEF FilerInv

\* The rest of a step that changes nothing of the two records.
LEMMA RecordsStay ==
    ASSUME FinalInv, Preserved, UNCHANGED final
    PROVE  /\ final'.private \in {NoFile, CutShort} \/ Bundle(final.private)'
           /\ final'.public # NoFile => /\ final'.private \notin {NoFile, CutShort}
                                       /\ final'.public \in {CutShort, final'.private.public}
<1>1. Bundle(final.private) => Bundle(final.private)'
  <2>1. PICK d : d = final.private
    OBVIOUS
  <2>2. Bundle(d) => Bundle(d)'
    BY BundleStays
  <2> QED BY <2>1, <2>2, BundleFollows
<1> QED BY <1>1 DEF FinalInv

\* What Beside and the finalizer's own UNCHANGED leave.
LEMMA NothingReadChanges ==
    ASSUME UNCHANGED <<controls, controlSet, reviewSet>>, Beside
    PROVE  Preserved
BY DEF Preserved, Beside, files, evaluation

LEMMA SetsStay ==
    ASSUME FinalInv, UNCHANGED <<controls, reviewSet>>, Beside,
           \A f \in Finalizers : authorities'[f] \subseteq authorities[f]
    PROVE  ControlsInv' /\ SetsInv'
BY DEF FinalInv, ControlsInv, SetsInv, ReviewSetReads, Ended, ReviewIs, Beside, ledger

\* What process f goes on to with d; before "public" the private record is its own.
LEMMA TurnKeeps ==
    ASSUME FinalInv, NEW f \in Finalizers, NEW label \in Tasks \ {"fill_private", "fill_public"},
           NEW d, HasRead(d, label), Turn(f, label), draft' = [draft EXCEPT ![f] = d],
           label = "public" => final.private = d,
           UNCHANGED <<controls, controlSet, reviewSet, final>>, Beside,
           authorities' = [e \in Finalizers |-> authorities'[e]],
           \A e \in Finalizers : authorities'[e] \subseteq authorities[e]
    PROVE  FinalInv'
<1>1. FinalShapes /\ Preserved /\ ControlsInv' /\ SetsInv'
  BY NothingReadChanges, SetsStay DEF FinalInv
<1>2. /\ FinalShapes' /\ task'[f] = label /\ draft'[f] = d
      /\ \A e \in Finalizers \ {f} : draft'[e] = draft[e]
  BY <1>1 DEF FinalShapes, Turn
<1>3. \A e \in Finalizers \ {f} : FilerInv(e)'
  BY <1>1, <1>2, OthersStay
<1>4. FilerInv(f)'
  <2>1. HasRead(draft[f], task[f])'
    BY <1>1, <1>2, HasReadStays, HasReadFollows
  <2> QED BY <1>2, <2>1 DEF FilerInv, Tasks
<1> QED BY <1>1, <1>2, <1>3, <1>4, RecordsStay DEF FinalInv

LEMMA LeaveKeeps ==
    ASSUME FinalInv, NEW f \in Finalizers, NEW label \in {"idle", "public"},
           LeaveFor(f, label), UNCHANGED <<controls, controlSet, reviewSet, final>>, Beside,
           label = "public" => task[f] = "private" /\ final.private = draft[f],
           authorities' = [e \in Finalizers |-> authorities'[e]],
           \A e \in Finalizers : authorities'[e] \subseteq authorities[e]
    PROVE  FinalInv'
<1>1. Turn(f, label) /\ label \in Tasks \ {"fill_private", "fill_public"}
  BY DEF LeaveFor, Tasks
<1>2. CASE label = "idle"
  <2>1. draft' = [draft EXCEPT ![f] = NoFile] /\ HasRead(NoFile, label)
    BY <1>2 DEF LeaveFor, HasRead
  <2> QED BY <1>1, <1>2, <2>1, TurnKeeps
<1>3. CASE label = "public"
  <2>1. PICK d : d = draft[f]
    OBVIOUS
  <2>2. HasRead(d, label)
    BY <1>3, <2>1 DEF FinalInv, FilerInv, HasRead
  <2>3. draft' = [draft EXCEPT ![f] = d]
    BY <1>3, <2>1 DEF LeaveFor, FinalInv, FinalShapes
  <2> QED BY <1>1, <1>3, <2>1, <2>2, <2>3, TurnKeeps
<1> QED BY <1>2, <1>3

\* A part is read, or the process gives up.
LEMMA ReadPartKeeps ==
    ASSUME FinalInv, NEW f \in Finalizers,
           NEW part \in {"idle", "public_results", "private_results", "controls", "reviews"},
           NEW fits, NEW seen, ReadPart(f, part, fits, seen),
           fits => HasRead(seen, Following[part])
    PROVE  FinalInv'
<1>1. /\ Beside /\ UNCHANGED <<controls, authorities, controlSet, reviewSet, final>>
      /\ authorities' = [e \in Finalizers |-> authorities'[e]]
      /\ \A e \in Finalizers : authorities'[e] \subseteq authorities[e]
  BY DEF ReadPart, FinalInv, FinalShapes
<1>2. CASE fits /\ Turn(f, Following[part]) /\ draft' = [draft EXCEPT ![f] = seen]
  <2>1. Following[part] \in Tasks \ {"fill_private", "fill_public", "public"}
    BY DEF Following, Tasks
  <2> QED BY <1>1, <1>2, <2>1, TurnKeeps
<1>3. CASE LeaveFor(f, "idle")
  BY <1>1, <1>3, LeaveKeeps
<1> QED BY <1>2, <1>3 DEF ReadPart

LEMMA ReadLedgerKeeps ==
    ASSUME EndInv, NEW f \in Finalizers, ReadLedger(f)
    PROVE  FinalInv'
<1> DEFINE fits == BarrierBinds /\ \A c \in Cases : Accounted(attempts[c])
           seen == [Unread EXCEPT !.attempts = attempts, !.barrier = barrier]
<1>1. ASSUME fits PROVE LedgerRead(seen)
  <2>1. barrier /\ Ended /\ \A c \in Cases : ~Unmatched(attempts[c])
    BY <1>1 DEF BarrierBinds, Accounted, Ended
  <2>2. Drafted(seen) /\ seen.attempts = attempts /\ seen.barrier = barrier
    BY DEF Drafted, Unread
  <2> HIDE DEF seen
  <2> QED BY <2>1, <2>2 DEF LedgerRead
<1>2. ReadPart(f, "idle", fits, seen)
  BY DEF ReadLedger
<1>3. Following["idle"] = "public_results"
  BY DEF Following
<1> HIDE DEF fits, seen
<1>4. fits => HasRead(seen, Following["idle"])
  BY <1>1, <1>3 DEF HasRead
<1> QED BY <1>2, <1>4, ReadPartKeeps DEF EndInv

LEMMA FreezePublicKeeps ==
    ASSUME EndInv, NEW f \in Finalizers, FreezePublic(f)
    PROVE  FinalInv'
<1> DEFINE was == draft[f]
           seen == [was EXCEPT !.results = ResultsOf(was, "public")]
<1>1. PICK fits \in BOOLEAN : ReadPart(f, "public_results", fits, seen)
  BY DEF FreezePublic
<1>2. Following["public_results"] = "private_results" /\ task[f] = "public_results"
  BY <1>1 DEF Following, ReadPart
<1>3. LedgerRead(was)
  BY <1>2 DEF EndInv, FinalInv, FilerInv, HasRead
<1>4. /\ seen.attempts = was.attempts /\ seen.barrier = was.barrier /\ Drafted(seen)
      /\ seen.results = ResultsOf(was, "public")
  BY <1>3 DEF LedgerRead, Drafted, Unread
<1> HIDE DEF seen
<1>5. LedgerRead(seen) /\ ResultsRead(seen, "public")
  BY <1>3, <1>4 DEF LedgerRead, ResultsRead, ResultsOf
<1>6. HasRead(seen, Following["public_results"])
  BY <1>2, <1>5 DEF HasRead
<1> QED BY <1>1, <1>6, ReadPartKeeps DEF EndInv

LEMMA OpenPrivateKeeps ==
    ASSUME EndInv, NEW f \in Finalizers, OpenPrivate(f)
    PROVE  FinalInv'
<1> DEFINE seen == draft[f]
           fits == ResultsOf(seen, "private") = seen.results
<1>1. ReadPart(f, "private_results", fits, seen)
  BY DEF OpenPrivate
<1>2. Following["private_results"] = "controls" /\ task[f] = "private_results"
  BY <1>1 DEF Following, ReadPart
<1>3. LedgerRead(seen) /\ ResultsRead(seen, "public")
  BY <1>2 DEF EndInv, FinalInv, FilerInv, HasRead
<1>4. fits => ResultsRead(seen, "private")
  BY DEF ResultsRead
<1> HIDE DEF seen, fits
<1>5. fits => HasRead(seen, Following["private_results"])
  BY <1>2, <1>3, <1>4 DEF HasRead
<1> QED BY <1>1, <1>5, ReadPartKeeps DEF EndInv

LEMMA ReadControlsKeeps ==
    ASSUME EndInv, NEW f \in Finalizers, ReadControls(f)
    PROVE  FinalInv'
<1> DEFINE was == draft[f]
<1>1. PICK given \in [Cases -> authorities[f] \cup {None}] :
          ReadPart(f, "controls",
                   ControlSetReads /\ \A c \in Cases : ControlFits(was, c, given[c]),
                   [was EXCEPT !.controls = controlSet,
                               !.records = [c \in Cases |-> ControlOf(was, c, given[c])]])
  BY DEF ReadControls
<1> DEFINE fits == ControlSetReads /\ \A c \in Cases : ControlFits(was, c, given[c])
           records == [c \in Cases |-> ControlOf(was, c, given[c])]
           seen == [was EXCEPT !.controls = controlSet, !.records = records]
<1>2. ReadPart(f, "controls", fits, seen)
  BY <1>1
<1>3. Following["controls"] = "reviews" /\ task[f] = "controls"
  BY <1>2 DEF Following, ReadPart
<1>4. LedgerRead(was) /\ \A file \in Files : ResultsRead(was, file)
  BY <1>3 DEF EndInv, FinalInv, FilerInv, HasRead, Files
<1>5. /\ seen.attempts = was.attempts /\ seen.barrier = was.barrier /\ Drafted(seen)
      /\ seen.results = was.results /\ seen.controls = controlSet /\ seen.records = records
  BY <1>4 DEF LedgerRead, Drafted, Unread
<1> HIDE DEF seen
<1>6. LedgerRead(seen) /\ \A file \in Files : ResultsRead(seen, file)
  BY <1>4, <1>5 DEF LedgerRead, ResultsRead, ResultsOf
<1>7. ASSUME fits PROVE ControlsRead(seen)
  <2>1. ASSUME NEW c \in Cases, records[c].passed
        PROVE  /\ Mechanical(seen, c) /\ records[c].receipt \in DOMAIN controls
               /\ controls[records[c].receipt].case = c
               /\ controls[records[c].receipt].run = seen.results[c].run
               /\ controls[records[c].receipt].passed
    <3>1. records[c] = ControlOf(was, c, given[c])
      OBVIOUS
    <3> HIDE DEF records
    <3>2. Takes(was, c, given[c])
      BY <2>1, <3>1 DEF ControlOf, WithoutAuthority
    <3>3. records[c] = [receipt |-> given[c], passed |-> controls[given[c]].passed]
      BY <3>1, <3>2 DEF ControlOf
    <3>4. given[c] \in DOMAIN controls
      BY <3>2 DEF Takes, EndInv, FinalInv, ControlsInv
    <3>5. controls[given[c]].case = c /\ controls[given[c]].run = was.results[c].run
      BY <1>7, <3>2 DEF ControlFits, FitsEvaluation
    <3>6. Mechanical(seen, c)
      BY <1>5, <3>2 DEF Takes, Mechanical
    <3> QED BY <1>5, <2>1, <3>3, <3>4, <3>5, <3>6
  <2> HIDE DEF records
  <2> QED BY <1>5, <1>7, <2>1 DEF ControlsRead, RecordIsOwn
<1> HIDE DEF fits
<1>8. fits => HasRead(seen, Following["controls"])
  BY <1>3, <1>6, <1>7 DEF HasRead, Files
<1> QED BY <1>2, <1>8, ReadPartKeeps DEF EndInv

LEMMA ReadReviewsKeeps ==
    ASSUME EndInv, MarksAreNoRecords, NEW f \in Finalizers, ReadReviews(f)
    PROVE  FinalInv'
<1> DEFINE was == draft[f]
           seen == [was EXCEPT !.reviews = reviewSet]
           d == [seen EXCEPT !.public = Published(seen)]
           fits == ReviewSetReads /\ \A c \in Cases : ReviewFits(seen, c)
<1>1. ReadPart(f, "reviews", fits, d)
  BY DEF ReadReviews
<1>2. Following["reviews"] = "private" /\ task[f] = "reviews"
  BY <1>1 DEF Following, ReadPart
<1>3. /\ LedgerRead(was) /\ ControlsRead(was) /\ \A file \in Files : ResultsRead(was, file)
  BY <1>2 DEF EndInv, FinalInv, FilerInv, HasRead, Files
<1>4. /\ seen.attempts = was.attempts /\ seen.barrier = was.barrier /\ Drafted(seen)
      /\ seen.results = was.results /\ seen.controls = was.controls
      /\ seen.records = was.records /\ seen.reviews = reviewSet
  BY <1>3 DEF LedgerRead, Drafted, Unread
<1>5. ASSUME fits PROVE AllRead(seen)
  <2>1. ReviewSetReads
    BY <1>5
  <2> HIDE DEF seen
  <2>2. LedgerRead(seen) /\ \A file \in Files : ResultsRead(seen, file)
    BY <1>3, <1>4 DEF LedgerRead, ResultsRead, ResultsOf
  <2>3. ControlsRead(seen)
    BY <1>3, <1>4 DEF ControlsRead, RecordIsOwn, Mechanical
  <2> QED BY <1>4, <2>1, <2>2, <2>3 DEF AllRead, Files
<1> HIDE DEF seen, fits
<1>6. fits => Bundle(d)
  BY <1>5, DraftIsBundle
<1> HIDE DEF d
<1>7. fits => HasRead(d, Following["reviews"])
  BY <1>2, <1>6 DEF HasRead, Bundle
<1> QED BY <1>1, <1>7, ReadPartKeeps DEF EndInv

LEMMA FollowingFiles == Following["private"] = "public" /\ Following["public"] = "idle"
BY DEF Following

LEMMA CreateOrMatchKeeps ==
    ASSUME FinalInv, NoFile # CutShort, NEW f \in Finalizers, NEW file \in Files,
           CreateOrMatch(f, file)
    PROVE  FinalInv'
<1>1. /\ task[f] = file /\ Beside
      /\ UNCHANGED <<controls, authorities, controlSet, reviewSet, kills>>
  BY DEF CreateOrMatch
<1>2. FinalShapes /\ Preserved /\ ControlsInv' /\ SetsInv' /\ FilerInv(f)
  BY <1>1, NothingReadChanges, SetsStay DEF FinalInv
<1>3. CASE ~IsNew(final[file])
  <2> DEFINE label == IF Matches(f, file) THEN Following[file] ELSE "idle"
  <2>1. /\ LeaveFor(f, label) /\ UNCHANGED final
        /\ label \in {"idle", "public"}
    BY <1>3, FollowingFiles DEF CreateOrMatch, Files
  <2>2. label = "public" => task[f] = "private" /\ final.private = draft[f]
    BY <1>1, FollowingFiles DEF Matches, Content, Files
  <2>3. authorities' = [e \in Finalizers |-> authorities'[e]]
    BY <1>1, <1>2 DEF FinalShapes
  <2> HIDE DEF label
  <2> QED BY <1>1, <2>1, <2>2, <2>3, LeaveKeeps DEF Files
<1>4. CASE IsNew(final[file])
  <2> DEFINE label == IF file = "private" THEN "fill_private" ELSE "fill_public"
  <2>1. /\ final' = [final EXCEPT ![file] = CutShort] /\ Turn(f, label) /\ UNCHANGED draft
        /\ final[file] = NoFile
    BY <1>4 DEF CreateOrMatch, IsNew
  <2>2. /\ FinalShapes' /\ task'[f] = label
        /\ \A e \in Finalizers \ {f} : task'[e] = task[e]
    BY <1>1, <1>2, <2>1 DEF Turn, FinalShapes, Files
  <2>3. PICK d : d = draft[f]
    OBVIOUS
  <2>4. Bundle(d)' /\ Bundle(draft[f])' /\ d \notin {NoFile, CutShort}
    <3>1. Bundle(d)
      BY <1>1, <1>2, <2>3 DEF FilerInv, HasRead, Files
    <3> QED BY <1>2, <2>1, <2>3, <3>1, BundleStays, BundleFollows DEF Bundle
  <2>5. CASE file = "private"
    <3>1. final'.private = CutShort /\ final'.public = final.public /\ final.private = NoFile
      BY <1>2, <2>1, <2>5 DEF FinalShapes
    <3>2. final.public = NoFile
      BY <3>1 DEF FinalInv
    <3>3. \A e \in Finalizers : task[e] \notin {"public", "fill_public", "fill_private"}
      <4>1. \A e \in Finalizers : FilerInv(e)
        BY DEF FinalInv
      <4> QED BY <3>1, <4>1 DEF FilerInv, HasRead, Bundle
    <3>4. \A e \in Finalizers \ {f} : FilerInv(e)'
      BY <1>2, <2>1, <3>3, OthersStay
    <3>5. FilerInv(f)'
      BY <2>2, <2>4, <2>5, <3>1, <3>3 DEF FilerInv, HasRead, Bundle, Tasks
    <3> QED BY <1>2, <2>2, <3>1, <3>2, <3>4, <3>5 DEF FinalInv
  <2>6. CASE file = "public"
    <3>1. final'.private = final.private /\ final'.public = CutShort /\ final.private = d
      BY <1>1, <1>2, <2>1, <2>3, <2>6 DEF FinalShapes, FilerInv
    <3>2. \A e \in Finalizers \ {f} : FilerInv(e)'
      BY <1>2, <2>1, <2>6, <3>1, OthersStay
    <3>3. FilerInv(f)'
      BY <2>1, <2>2, <2>3, <2>4, <2>6, <3>1 DEF FilerInv, HasRead, Bundle, Tasks
    <3>4. Bundle(final.private)'
      BY <2>4, <3>1, BundleFollows
    <3> QED BY <1>2, <2>2, <2>4, <3>1, <3>2, <3>3, <3>4 DEF FinalInv
  <2> QED BY <2>5, <2>6 DEF Files
<1> QED BY <1>3, <1>4

LEMMA FillKeeps ==
    ASSUME FinalInv, NEW f \in Finalizers, NEW file \in Files, Fill(f, file)
    PROVE  FinalInv'
<1>1. /\ task[f] = IF file = "private" THEN "fill_private" ELSE "fill_public"
      /\ final' = [final EXCEPT ![file] = Content(f, file)]
      /\ LeaveFor(f, Following[file]) /\ Beside
      /\ UNCHANGED <<controls, authorities, controlSet, reviewSet, kills>>
  BY DEF Fill
<1>2. FinalShapes /\ Preserved /\ ControlsInv' /\ SetsInv' /\ FilerInv(f)
  BY <1>1, NothingReadChanges, SetsStay DEF FinalInv
<1>3. /\ Turn(f, Following[file]) /\ FinalShapes' /\ task'[f] = Following[file]
      /\ \A e \in Finalizers \ {f} : task'[e] = task[e] /\ draft'[e] = draft[e]
      /\ file = "private" => draft' = draft
  BY <1>1, <1>2, FollowingFiles DEF Turn, LeaveFor, FinalShapes, Files
<1>4. PICK d : d = draft[f]
  OBVIOUS
<1>5. Bundle(d) /\ Bundle(d)' /\ d \notin {NoFile, CutShort}
  <2>1. Bundle(d)
    BY <1>1, <1>2, <1>4 DEF FilerInv, HasRead, Files
  <2> QED BY <1>2, <2>1, BundleStays DEF Bundle
<1>6. CASE file = "private"
  <2>1. /\ final'.private = d /\ final'.public = final.public /\ final.private = CutShort
        /\ task[f] = "fill_private"
    BY <1>1, <1>2, <1>4, <1>6 DEF FinalShapes, Content, FilerInv
  <2>2. final.public = NoFile
    BY <2>1 DEF FinalInv
  <2>3. \A e \in Finalizers \ {f} : task[e] \notin {"public", "fill_public", "fill_private"}
    <3>1. \A e \in Finalizers : FilerInv(e)
      BY DEF FinalInv
    <3> QED BY <1>2, <2>1, <3>1 DEF FilerInv, HasRead, Bundle
  <2>4. \A e \in Finalizers \ {f} : FilerInv(e)'
    BY <1>2, <1>3, <2>3, OthersStay
  <2>5. FilerInv(f)'
    <3>1. Bundle(draft[f])'
      BY <1>3, <1>4, <1>5, <1>6, BundleFollows
    <3> QED BY <1>3, <1>4, <1>6, <2>1, <3>1, FollowingFiles DEF FilerInv, HasRead, Bundle, Tasks
  <2>6. Bundle(final.private)'
    BY <1>5, <2>1, BundleFollows
  <2> QED BY <1>2, <1>3, <2>1, <2>2, <2>4, <2>5, <2>6 DEF FinalInv
<1>7. CASE file = "public"
  <2>1. /\ final'.private = final.private /\ final'.public = d.public /\ final.private = d
    BY <1>1, <1>2, <1>4, <1>7 DEF FinalShapes, Content, FilerInv
  <2>2. \A e \in Finalizers \ {f} : FilerInv(e)'
    BY <1>2, <1>3, <1>7, <2>1, OthersStay, FollowingFiles
  <2>3. FilerInv(f)'
    BY <1>3, <1>7, FollowingFiles DEF FilerInv, HasRead, Tasks
  <2>4. Bundle(final.private)'
    BY <1>5, <2>1, BundleFollows
  <2> QED BY <1>2, <1>3, <1>5, <2>1, <2>2, <2>3, <2>4 DEF FinalInv
<1> QED BY <1>6, <1>7 DEF Files

LEMMA KillFinalizerKeeps ==
    ASSUME FinalInv, NEW f \in Finalizers, KillFinalizer(f)
    PROVE  FinalInv'
<1>1. /\ LeaveFor(f, "idle") /\ authorities' = [authorities EXCEPT ![f] = {}]
      /\ UNCHANGED <<controls, controlSet, reviewSet, final>> /\ Beside
  BY DEF KillFinalizer
<1>2. /\ authorities' = [e \in Finalizers |-> authorities'[e]]
      /\ \A e \in Finalizers : authorities'[e] \subseteq authorities[e]
  BY <1>1 DEF FinalInv, FinalShapes
<1> QED BY <1>1, <1>2, LeaveKeeps

\* A process that finalizes leaves the campaign alone, but for the kills.
LEMMA BesideKeeps ==
    ASSUME CampaignInv, CallsInv, UnfinishedInv, Beside
    PROVE  CampaignInv' /\ CallsInv' /\ UnfinishedInv'
<1>1. CampaignInv'
  BY NothingKeeps DEF Beside
<1>2. UNCHANGED <<attempts, transaction, calls, pc, at>> /\ Now' = Now
  BY DEF Beside, controller, ledger, files, Now
<1>3. CallsInv'
  <2>1. \A g : Calling(g) => Calling(g)'
    BY <1>2 DEF Calling, Of
  <2>2. SameCalls
    BY <1>2 DEF SameCalls
  <2> QED BY <1>2, <2>1, <2>2, CallsStay DEF CallsInv
<1>4. UnfinishedInv'
  BY <1>2 DEF UnfinishedInv
<1> QED BY <1>1, <1>3, <1>4

LEMMA FinalizerKeeps ==
    ASSUME EndInv, MarksAreNoRecords, NEW f \in Finalizers, FinalizerNext(f)
    PROVE  EndInv'
<1>1. Beside
  BY DEF FinalizerNext, RunControls, SealControls, SealReviews, StartFinalization, ReadPart,
         ReadLedger, FreezePublic, OpenPrivate, ReadControls, ReadReviews, CreateOrMatch, Fill, KillFinalizer
<1>2. FinalInv /\ NoFile # CutShort
  BY DEF EndInv, MarksAreNoRecords
<1>3. FinalInv'
  BY <1>2, RunControlsKeeps, SealingKeeps, ReadLedgerKeeps, FreezePublicKeeps,
     OpenPrivateKeeps, ReadControlsKeeps, ReadReviewsKeeps, CreateOrMatchKeeps, FillKeeps,
     KillFinalizerKeeps DEF FinalizerNext, StartFinalization, Files
<1> QED BY <1>1, <1>3, BesideKeeps DEF EndInv

\* The campaign may run on: before the end there is nothing to keep, and from then on it
\* changes nothing of it.
LEMMA CampaignKeeps ==
    ASSUME EndInv, [CampaignNext]_campaignVars, UNCHANGED <<accepting, finalization>>
    PROVE  EndInv'
<1>1. CampaignInv' /\ CallsInv' /\ UnfinishedInv'
  BY StepInv, CallsInvSteps, UnfinishedSteps DEF EndInv
<1>2. FinalInv /\ FinalShapes'
  BY DEF EndInv, FinalInv, FinalShapes, finalization
<1>3. Ended => /\ UNCHANGED <<attempts, results, receipts, reported>>
               /\ barrier => UNCHANGED ledger
  BY NothingAfterTheEnd DEF EndInv
<1>4. Preserved
  BY <1>3 DEF Preserved, finalization
<1>5. SetsInv' /\ ControlsInv'
  BY <1>2, <1>3
  DEF FinalInv, SetsInv, ControlsInv, ReviewSetReads, Ended, ReviewIs, finalization
<1>6. FinalInv'
  BY <1>2, <1>4, <1>5, FinalStays DEF finalization
<1> QED BY <1>1, <1>6 DEF EndInv

LEMMA EndInvariant ==
    ASSUME MarksAreNoRecords
    PROVE  FinalizationSpec => []EndInv
<1>1. EndInv /\ [FinalizationNext]_finalizationVars => EndInv'
  BY FinalizerKeeps, CampaignKeeps DEF FinalizationNext, finalizationVars
<1> QED BY <1>1, InitIsFinal, PTL DEF FinalizationSpec

-----------------------------------------------------------------------------
(* What a finalization publishes *)

\* finalize_v02_campaign counts a case as L2 only for an accepted run, of which the
\* receipt is on file, with controls that were executed on that very run and passed, and
\* with two valid reviews; whoever finalizes, however often the campaign runs again.
THEOREM SemanticVerdictsAreEarned ==
    ASSUME MarksAreNoRecords
    PROVE  FinalizationSpec => []L2IsEarned
<1>1. EndInv => L2IsEarned
  <2> SUFFICES ASSUME EndInv, Written("public"), NEW c \in Cases,
                      final.public.cases[c].l2
               PROVE  LET row == final.public.cases[c]
                          run == receipts[attempts[c].id] IN
                      /\ run \in accepting
                      /\ row.control \in DOMAIN controls
                      /\ controls[row.control].case = c /\ controls[row.control].run = run
                      /\ controls[row.control].passed
                      /\ row.review.two
    BY DEF L2IsEarned
  <2>1. Bundle(final.private) /\ final.public = final.private.public
    BY DEF EndInv, FinalInv, Written
  <2> QED BY <2>1 DEF Bundle, Earned
<1> QED BY <1>1, EndInvariant, PTL

\* Whoever dies or finalizes with other authorities: _write_or_match_fsync never lets
\* the public record get ahead of the private one that names it, and the two pass
\* verify_v02_campaign_output_structure.
THEOREM FinalPairStaysTrue ==
    ASSUME MarksAreNoRecords
    PROVE  FinalizationSpec => []FinalPairAgrees
<1>1. EndInv => FinalPairAgrees
  <2> SUFFICES ASSUME EndInv, final.public # NoFile
               PROVE  Written("private") /\ (Written("public") => OutputVerifies)
    BY DEF FinalPairAgrees
  <2>1. Written("private") /\ Bundle(final.private)
    BY DEF EndInv, FinalInv, Written
  <2>2. ASSUME Written("public") PROVE OutputVerifies
    <3>1. final.public = final.private.public
      BY <2>2 DEF EndInv, FinalInv, Written
    <3>2. DisclosureVerifies(RunConfiguration(final.private))
      <4>1. \A S \in SUBSET Cases : Cardinality(S) \in Nat
        BY CampaignAssumption, FS_Subset, FS_CardinalityType
      <4> QED BY <4>1 DEF DisclosureVerifies, RunConfiguration
    <3> QED BY <2>1, <3>1, <3>2 DEF OutputVerifies, Bundle
  <2> QED BY <2>1, <2>2
<1> QED BY <1>1, EndInvariant, PTL

\* What the private record binds by digests is what is on file, for good, and the calls
\* of its _public_run_configuration are the ones that a provider was asked.
THEOREM BundlesStayTrue ==
    ASSUME MarksAreNoRecords
    PROVE  FinalizationSpec => []BundleStaysTrue
<1>1. EndInv => BundleStaysTrue
  <2> SUFFICES ASSUME EndInv, Written("private") PROVE BundleStaysTrue
    BY DEF BundleStaysTrue
  <2>1. Bundle(final.private)
    BY DEF EndInv, FinalInv, Written
  <2>2. ASSUME NEW c \in Cases PROVE calls[c] > 0 <=> attempts[c].call # "none"
    <3>1. ~Unmatched(attempts[c])
      BY <2>1 DEF Bundle, LedgerRead
    <3>2. attempts[c].call \in CallStates
      BY DEF EndInv, CampaignInv, Sound
    <3>3. /\ Called(attempts[c]) => calls[c] > 0
          /\ calls[c] > 0 => attempts[c].call # "none"
      BY DEF EndInv, CallsInv
    <3> QED BY <3>1, <3>2, <3>3 DEF CallStates, Called, Unmatched
  <2>3. {c \in Cases : calls[c] > 0} = {c \in Cases : attempts[c].call # "none"}
    BY <2>2
  <2>4. /\ LedgerRead(final.private) /\ ControlsRead(final.private)
        /\ \A file \in Files : ResultsRead(final.private, file)
        /\ final.private.reviews = reviewSet
    BY <2>1 DEF Bundle, Files
  <2>5. final.private.public.run.calls = Cardinality({c \in Cases : calls[c] > 0})
    <3>1. final.private.public.run = RunConfiguration(final.private)
      BY <2>1 DEF Bundle
    <3>2. RunConfiguration(final.private).calls
              = Cardinality({c \in Cases : attempts[c].call # "none"})
      BY <2>4 DEF RunConfiguration, LedgerRead
    <3> QED BY <2>3, <3>1, <3>2
  <2> QED BY <2>4, <2>5 DEF LedgerRead, ControlsRead, ResultsRead, BundleStaysTrue, Files
<1> QED BY <1>1, EndInvariant, PTL
===============================================================================
