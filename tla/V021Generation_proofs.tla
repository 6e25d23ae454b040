------------------------ MODULE V021Generation_proofs ------------------------
(***************************************************************************)
(* Proofs about the generation campaign: any number of controllers and of  *)
(* cases, any assignment of progress directories, with lines that may be   *)
(* cut short and a clock that may be set back; and that the campaign       *)
(* implements the one-shot budget.                                         *)
(*                                                                         *)
(* The second half is about the order the campaign keeps: the ledger is at *)
(* every moment a beginning of the log the public inspector asks for, what *)
(* it binds is on file, it stays readable while no clock is set back, and  *)
(* a run that reaches the barrier leaves one the inspector accepts.  For   *)
(* controllers that share a progress directory, a halt is final and every  *)
(* run that is rejected is rejected for a reason the code means.  All of   *)
(* it rests on one observation: the length of the log says which cases are *)
(* in which state.  Lines 3c - 1, 3c and 3c + 1 are those of case c,       *)
(* whoever wrote them.                                                     *)
(***************************************************************************)
EXTENDS V021GenerationRefinement, V021SpendLedger_proofs

\* The ledger only ever binds responses as results.
ResultsAreResponses ==
    \A i \in 1 .. Len(log) :
        log[i].type = "case_completed" => log[i].result \in Responses

\* Where a controller holds a response, or a response or the halt.
HoldsResponse == {"fill_response", "create_response", "record", "complete"}
HoldsOutcome == {"compare", "create_result", "fill_result"}

\* The types, in parts: the files and the clock, and the runs of the controllers.
FileTypes == /\ now \in Nat
             /\ response \in [Cases -> Contents]
             /\ result \in [Cases -> Contents \cup {Halt}]
             /\ temporary \in [Controllers -> BOOLEAN]
             /\ progress \in [Controllers -> {"none", "generation", "unknown_spend_halt",
                                              "generation_complete"}]
             /\ calls \in [Cases -> Nat]

RunTypes == /\ holder \in [Locks -> Controllers \cup {NoOne}]
            /\ pc \in [Controllers -> Labels]
            /\ case \in [Controllers -> Cases]
            /\ seen \in [Controllers -> {"available", "reserved_unknown_spend",
                                         "response_durable"}]
            /\ since \in [Controllers -> Nat]
            /\ got \in [Controllers -> Responses \cup {NoResponse, Halt}]
            /\ issued \in [Controllers -> Seq(Responses \cup {Halt})]
            /\ status \in [Controllers -> {"generation", "unknown_spend_halt",
                                           "generation_complete"}]
            /\ why \in [Controllers -> Reasons]

\* What the types do not say of a controller's locals.
Holding == \A p \in Controllers :
              /\ pc[p] \in HoldsResponse => got[p] \in Responses
              /\ pc[p] \in HoldsOutcome => got[p] \in Responses \cup {Halt}

TypeInv == LedgerTypeOK /\ ResultsAreResponses /\ FileTypes /\ RunTypes /\ Holding

LEMMA TypeInvTypes == TypeInv => GenTypeOK
BY DEF TypeInv, FileTypes, RunTypes, GenTypeOK

LEMMA GenInitType == GenInit => TypeInv /\ SoundInv
<1> SUFFICES ASSUME GenInit PROVE TypeInv /\ SoundInv
  OBVIOUS
<1>0. PICK t \in Nat : LedgerClaimed(t) /\ t >= AuthorizedAt /\ now \in Nat
  BY TimeAssumption DEF GenInit
<1>1. LedgerTypeOK /\ SoundInv
  BY <1>0, ClaimedType, SoundClaimed
<1>2. 1 \in Cases
  BY CasesAssumption DEF Cases
<1>3. FileTypes /\ RunTypes /\ Holding
  BY <1>0, <1>2 DEF GenInit, FileTypes, RunTypes, Holding, Contents, Labels, Reasons,
              HoldsResponse, HoldsOutcome
<1>4. ResultsAreResponses
  BY DEF GenInit, LedgerClaimed, ClaimLine, Event, ResultsAreResponses
<1> QED BY <1>1, <1>3, <1>4 DEF TypeInv
-----------------------------------------------------------------------------
(* What a step of the campaign does to the ledger. *)

\* The steps that leave the ledger alone.
Elsewhere(p) ==
    \/ Start(p) \/ ReadLedger(p) \/ CallProvider(p) \/ ProviderAnswers(p)
    \/ CreateResponse(p) \/ FillResponse(p) \/ CheckResponse(p) \/ LoadResponse(p)
    \/ CompareResult(p) \/ CreateResult(p) \/ FillResult(p) \/ RecordHalt(p)
    \/ WriteTemporary(p) \/ ReplaceProgress(p) \/ Crash(p)

LEMMA ElsewhereUnchanged ==
    ASSUME NEW p \in Controllers, Elsewhere(p) PROVE UNCHANGED ledgerVars
BY DEF Elsewhere, Start, ReadLedger, CallProvider, ProviderAnswers, CreateResponse,
       FillResponse, CheckResponse, LoadResponse, CompareResult, CreateResult, FillResult,
       RecordHalt, WriteTemporary, ReplaceProgress, Crash

\* Which step a step of the campaign is.
LEMMA NextCases ==
    ASSUME [GenNext]_vars
    PROVE  \/ \E p \in Controllers : \/ Elsewhere(p) \/ ReserveCase(p)
                                     \/ RecordCaseResponse(p) \/ RecordCaseResult(p)
                                     \/ KilledInAppend(p)
           \/ Tick
           \/ UNCHANGED vars
BY DEF GenNext, Run, Elsewhere

LEMMA StampsAreTimes == ASSUME TypeInv, NEW p \in Controllers PROVE Stamps(p) \subseteq Nat
BY DEF TypeInv, FileTypes, RunTypes, Stamps

LEMMA GenLedgerStep == ASSUME TypeInv, [GenNext]_vars PROVE LedgerStep
<1> USE DEF TypeInv, FileTypes, RunTypes, Holding
<1>1. ASSUME UNCHANGED ledgerVars PROVE LedgerStep
  BY <1>1 DEF LedgerStep, ledgerVars, LedgerTypeOK
<1>2. ASSUME torn' = TRUE, UNCHANGED <<log, spent>> PROVE LedgerStep
  BY <1>2 DEF LedgerStep
<1>3. ASSUME NEW p \in Controllers, ReserveCase(p) PROVE LedgerStep
  <2>1. CASE \E t \in Stamps(p) : Reserve(case[p], t)
    BY <2>1, StampsAreTimes DEF LedgerStep
  <2> QED BY <1>1, <1>2, <1>3, <2>1 DEF ReserveCase, ShortWrite
<1>4. ASSUME NEW p \in Controllers, RecordCaseResponse(p) PROVE LedgerStep
  <2>1. CASE \E t \in Stamps(p) : RecordResponse(case[p], got[p], t)
    <3>1. got[p] \in Responses
      BY <1>4 DEF RecordCaseResponse, HoldsResponse
    <3> QED BY <2>1, <3>1, StampsAreTimes DEF LedgerStep
  <2> QED BY <1>1, <1>2, <1>4, <2>1 DEF RecordCaseResponse, ShortWrite
<1>5. ASSUME NEW p \in Controllers, RecordCaseResult(p) PROVE LedgerStep
  <2>1. CASE \E t \in Stamps(p) : RecordResult(case[p], got[p], got[p], t)
    <3>1. got[p] \in Responses
      BY <1>5 DEF RecordCaseResult, HoldsResponse
    <3> QED BY <2>1, <3>1, StampsAreTimes DEF LedgerStep
  <2> QED BY <1>1, <1>2, <1>5, <2>1 DEF RecordCaseResult, ShortWrite
<1>6. ASSUME NEW p \in Controllers, KilledInAppend(p) PROVE LedgerStep
  BY <1>2, <1>6 DEF KilledInAppend
<1>7. CASE Tick
  BY <1>1, <1>7 DEF Tick
<1>8. CASE UNCHANGED vars
  BY <1>1, <1>8 DEF vars
<1> QED BY <1>1, <1>3, <1>4, <1>5, <1>6, <1>7, <1>8, NextCases, ElsewhereUnchanged
-----------------------------------------------------------------------------
(* The types are preserved. *)

LEMMA ResultsStep ==
    ASSUME LedgerTypeOK, ResultsAreResponses, LedgerStep PROVE ResultsAreResponses'
<1>1. ASSUME NEW e \in Events, log' = Append(log, e),
             e.type = "case_completed" => e.result \in Responses
      PROVE  ResultsAreResponses'
  BY <1>1 DEF LedgerTypeOK, ResultsAreResponses
<1>2. ASSUME NEW c \in Cases, NEW t \in Nat, Reserve(c, t)
      PROVE  ResultsAreResponses'
  <2>1. /\ Event("case_reserved", c, NoResponse, NoResponse, t) \in Events
        /\ Event("case_reserved", c, NoResponse, NoResponse, t).type = "case_reserved"
    BY DEF Event, Events, EventTypes
  <2> QED BY <1>1, <1>2, <2>1 DEF Reserve, Append1
<1>3. ASSUME NEW c \in Cases, NEW r \in Responses, NEW t \in Nat, RecordResponse(c, r, t)
      PROVE  ResultsAreResponses'
  <2> DEFINE e == Event("provider_response_durable", c, r, NoResponse, t)
  <2>1. e \in Events /\ e.type = "provider_response_durable"
    BY DEF Event, Events, EventTypes
  <2> QED BY <1>1, <1>3, <2>1 DEF RecordResponse, Append1
<1>4. ASSUME NEW c \in Cases, NEW r \in Responses, NEW s \in Responses, NEW t \in Nat,
             RecordResult(c, r, s, t)
      PROVE  ResultsAreResponses'
  <2> DEFINE e == Event("case_completed", c, r, s, t)
  <2>1. e \in Events /\ e.result \in Responses
    BY DEF Event, Events, EventTypes
  <2> QED BY <1>1, <1>4, <2>1 DEF RecordResult, Append1
<1> QED BY <1>2, <1>3, <1>4 DEF LedgerStep, ResultsAreResponses

\* The shared ends of the actions.
LEMMA RejectTypes ==
    ASSUME RunTypes, Holding, NEW p \in Controllers, NEW reason \in Reasons,
           Reject(p, reason)
    PROVE  RunTypes' /\ Holding'
<1>1. RunTypes'
  <2>1. 1 \in Cases
    BY CasesAssumption DEF Cases
  <2>2. holder' \in [Locks -> Controllers \cup {NoOne}]
    BY DEF Reject, Release, RunTypes
  <2>3. issued' \in [Controllers -> Seq(Responses \cup {Halt})]
    BY DEF Reject, ForgetRun, RunTypes
  <2> QED BY <2>1, <2>2, <2>3
          DEF RunTypes, Reject, Goto, ForgetRun, ForgetCase, Labels
<1>2. Holding'
  BY DEF RunTypes, Holding, Reject, Goto, ForgetRun, ForgetCase, HoldsResponse, HoldsOutcome
<1> QED BY <1>1, <1>2

LEMMA DieTypes ==
    ASSUME RunTypes, Holding, NEW p \in Controllers, Die(p)
    PROVE  RunTypes' /\ Holding'
<1>1. RunTypes'
  <2>1. 1 \in Cases
    BY CasesAssumption DEF Cases
  <2>2. holder' \in [Locks -> Controllers \cup {NoOne}]
    BY DEF Die, Release, RunTypes
  <2>3. issued' \in [Controllers -> Seq(Responses \cup {Halt})]
    BY DEF Die, ForgetRun, RunTypes
  <2> QED BY <2>1, <2>2, <2>3
          DEF RunTypes, Die, Goto, ForgetRun, ForgetCase, Labels
<1>2. Holding'
  BY DEF RunTypes, Holding, Die, Goto, ForgetRun, ForgetCase, HoldsResponse, HoldsOutcome
<1> QED BY <1>1, <1>2

LEMMA ContinueTypes ==
    ASSUME RunTypes, Holding, NEW p \in Controllers, NEW label \in Labels,
           Continue(p, label),
           label \in HoldsResponse => got[p] \in Responses,
           label \in HoldsOutcome => got[p] \in Responses \cup {Halt}
    PROVE  RunTypes' /\ Holding'
BY DEF RunTypes, Holding, Continue, Goto, local

LEMMA IssueTypes ==
    ASSUME RunTypes, Holding, NEW p \in Controllers, Goto(p, "progress"),
           NEW x \in Responses \cup {Halt}, issued' = [issued EXCEPT ![p] = Append(@, x)],
           UNCHANGED <<case, seen, since, got, status, why, holder>>
    PROVE  RunTypes' /\ Holding'
<1>1. issued' \in [Controllers -> Seq(Responses \cup {Halt})]
  BY DEF RunTypes
<1> QED BY <1>1 DEF RunTypes, Holding, Goto, HoldsResponse, HoldsOutcome, Labels

LEMMA PublishedTypes ==
    ASSUME RunTypes, Holding, NEW p \in Controllers, now \in Nat, Published(p),
           got[p] \in Responses \cup {Halt}
    PROVE  RunTypes' /\ Holding'
<1>1. CASE got[p] = Halt
  BY <1>1, IssueTypes DEF Published
<1>2. CASE got[p] # Halt
  BY <1>2 DEF RunTypes, Holding, Published, Approach, Goto, HoldsResponse, HoldsOutcome, Labels
<1> QED BY <1>1, <1>2

\* What a controller reads as the result the ledger binds is a response.
LEMMA BoundResultIsResponse ==
    ASSUME ResultsAreResponses, NEW c, NEW s, BindsResult(c, s) PROVE s \in Responses
BY DEF ResultsAreResponses, BindsResult

LEMMA TypeStep == TypeInv /\ [GenNext]_vars => TypeInv'
<1> SUFFICES ASSUME TypeInv, [GenNext]_vars PROVE TypeInv'
  OBVIOUS
<1> USE DEF TypeInv
<1>1. LedgerTypeOK' /\ ResultsAreResponses'
  BY GenLedgerStep, LedgerTypeStep, ResultsStep
<1> USE <1>1
<1>2. ASSUME NEW p \in Controllers, Start(p) PROVE TypeInv'
  <2>1. FileTypes'
    BY <1>2 DEF Start, FileTypes, files
  <2> SUFFICES RunTypes' /\ Holding'
    BY <2>1
  <2>2. CASE \E reason \in {"ledger", "locked"} : Reject(p, reason)
    BY <2>2, RejectTypes DEF Reasons
  <2>3. CASE /\ holder' = [holder EXCEPT ![LockOf[p]] = p] /\ Goto(p, "read")
             /\ ForgetRun(p) /\ why' = [why EXCEPT ![p] = "none"]
    <3>1. 1 \in Cases
      BY CasesAssumption DEF Cases
    <3>2. holder' \in [Locks -> Controllers \cup {NoOne}]
      BY <2>3 DEF RunTypes
    <3>3. issued' \in [Controllers -> Seq(Responses \cup {Halt})]
      BY <2>3 DEF ForgetRun, RunTypes
    <3>4. RunTypes'
      BY <2>3, <3>1, <3>2, <3>3 DEF RunTypes, Goto, ForgetRun, ForgetCase, Labels, Reasons
    <3>5. Holding'
      BY <2>3 DEF RunTypes, Holding, Goto, ForgetRun, ForgetCase, HoldsResponse, HoldsOutcome
    <3> QED BY <3>4, <3>5
  <2> QED BY <1>2, <2>2, <2>3 DEF Start
<1>3. ASSUME NEW p \in Controllers, ReadLedger(p) PROVE TypeInv'
  <2>1. FileTypes'
    BY <1>3 DEF ReadLedger, FileTypes, files
  <2> SUFFICES RunTypes' /\ Holding'
    BY <2>1
  <2>2. CASE \E reason \in {"ledger", "result"} : Reject(p, reason)
    BY <2>2, RejectTypes DEF Reasons
  <2>3. CASE /\ BindsResult(case[p], result[case[p]]) /\ Goto(p, "progress")
             /\ issued' = [issued EXCEPT ![p] = Append(@, result[case[p]])]
             /\ UNCHANGED <<case, seen, since, got, status, why, holder>>
    <3>1. result[case[p]] \in Responses
      BY <2>3, BoundResultIsResponse
    <3> QED BY <2>3, <3>1, IssueTypes
  <2>4. CASE /\ StateOf(case[p]) # "completed"
             /\ seen' = [seen EXCEPT ![p] = StateOf(case[p])]
             /\ \E label \in {"reserve", "check", "load"} : Approach(p, label)
             /\ UNCHANGED <<case, got, issued, status, why, holder>>
    BY <2>4, StateRange DEF Approach, Goto, FileTypes, RunTypes, Holding, HoldsResponse, HoldsOutcome, Labels, Reasons
  <2> QED BY <1>3, <2>2, <2>3, <2>4, StateRange DEF ReadLedger
<1>4. ASSUME NEW p \in Controllers, CallProvider(p) PROVE TypeInv'
  <2>1. FileTypes'
    BY <1>4 DEF CallProvider, FileTypes, RunTypes, files
  <2> SUFFICES RunTypes' /\ Holding'
    BY <2>1
  <2> QED BY <1>4, ContinueTypes
       DEF CallProvider, Holding, HoldsResponse, HoldsOutcome, Labels
<1>5. ASSUME NEW p \in Controllers, ProviderAnswers(p) PROVE TypeInv'
  <2>1. FileTypes'
    BY <1>5 DEF ProviderAnswers, FileTypes, files
  <2> SUFFICES RunTypes' /\ Holding'
    BY <2>1
  <2>2. CASE Goto(p, "halt") /\ UNCHANGED got
    BY <1>5, <2>2
    DEF ProviderAnswers, Goto, RunTypes, Holding, HoldsResponse, HoldsOutcome, Labels
  <2>3. ASSUME NEW r \in Responses, got' = [got EXCEPT ![p] = r], Goto(p, "create_response")
        PROVE  RunTypes' /\ Holding'
    BY <1>5, <2>3
    DEF ProviderAnswers, Goto, RunTypes, Holding, HoldsResponse, HoldsOutcome, Labels
  <2> QED BY <1>5, <2>2, <2>3 DEF ProviderAnswers
<1>6. ASSUME NEW p \in Controllers, CreateResponse(p) PROVE TypeInv'
  <2>1. FileTypes'
    BY <1>6 DEF CreateResponse, FileTypes, Contents
  <2> SUFFICES RunTypes' /\ Holding'
    BY <2>1
  <2> QED BY <1>6, RejectTypes, ContinueTypes
       DEF CreateResponse, Holding, HoldsResponse, HoldsOutcome, Labels, Reasons
<1>7. ASSUME NEW p \in Controllers, FillResponse(p) PROVE TypeInv'
  <2>1. FileTypes'
    BY <1>7 DEF FillResponse, FileTypes, RunTypes, Holding, HoldsResponse, Contents
  <2> SUFFICES RunTypes' /\ Holding'
    BY <2>1
  <2> QED BY <1>7, ContinueTypes
       DEF FillResponse, Holding, HoldsResponse, HoldsOutcome, Labels
<1>8. ASSUME NEW p \in Controllers, CheckResponse(p) PROVE TypeInv'
  <2>1. FileTypes'
    BY <1>8 DEF CheckResponse, FileTypes, files
  <2> SUFFICES RunTypes' /\ Holding'
    BY <2>1
  <2> QED BY <1>8, ContinueTypes
       DEF CheckResponse, Holding, HoldsResponse, HoldsOutcome, Labels
<1>9. ASSUME NEW p \in Controllers, LoadResponse(p) PROVE TypeInv'
  <2>1. FileTypes'
    BY <1>9 DEF LoadResponse, FileTypes, files
  <2> SUFFICES RunTypes' /\ Holding'
    BY <2>1
  <2>2. CASE Reject(p, "response")
    BY <2>2, RejectTypes DEF Reasons
  <2>3. CASE /\ response[case[p]] \in Responses
             /\ got' = [got EXCEPT ![p] = response[case[p]]]
             /\ \E label \in {"record", "compare"} : Approach(p, label)
             /\ UNCHANGED <<case, seen, issued, status, why, holder>>
    BY <2>3 DEF Approach, Goto, FileTypes, RunTypes, Holding, HoldsResponse, HoldsOutcome, Labels, Reasons
  <2> QED BY <1>9, <2>2, <2>3 DEF LoadResponse
<1>10. ASSUME NEW p \in Controllers, CompareResult(p) PROVE TypeInv'
  <2>1. FileTypes'
    BY <1>10 DEF CompareResult, FileTypes, files
  <2> SUFFICES RunTypes' /\ Holding'
    BY <2>1
  <2>2. CASE Published(p)
    BY <1>10, <2>2, PublishedTypes DEF CompareResult, FileTypes, Holding, HoldsOutcome
  <2>3. CASE Continue(p, "create_result")
    BY <1>10, <2>3, ContinueTypes DEF CompareResult, Holding, HoldsOutcome, HoldsResponse, Labels
  <2>4. CASE Reject(p, "conflict")
    BY <2>4, RejectTypes DEF Reasons
  <2> QED BY <1>10, <2>2, <2>3, <2>4 DEF CompareResult
<1>11. ASSUME NEW p \in Controllers, CreateResult(p) PROVE TypeInv'
  <2>1. FileTypes'
    BY <1>11 DEF CreateResult, FileTypes, Contents
  <2> SUFFICES RunTypes' /\ Holding'
    BY <2>1
  <2> QED BY <1>11, RejectTypes, ContinueTypes
       DEF CreateResult, Holding, HoldsResponse, HoldsOutcome, Labels, Reasons
<1>12. ASSUME NEW p \in Controllers, FillResult(p) PROVE TypeInv'
  <2>1. FileTypes'
    BY <1>12 DEF FillResult, FileTypes, RunTypes, Holding, HoldsOutcome, Contents
  <2> SUFFICES RunTypes' /\ Holding'
    BY <2>1
  <2> QED BY <1>12, PublishedTypes DEF FillResult, FileTypes, Holding, HoldsOutcome
<1>13. ASSUME NEW p \in Controllers, RecordHalt(p) PROVE TypeInv'
  <2>1. FileTypes'
    BY <1>13 DEF RecordHalt, FileTypes, files
  <2> SUFFICES RunTypes' /\ Holding'
    BY <2>1
  <2>2. CASE \E reason \in {"halt", "ledger"} : Reject(p, reason)
    BY <2>2, RejectTypes DEF Reasons
  <2>3. CASE /\ Goto(p, "compare") /\ got' = [got EXCEPT ![p] = Halt]
             /\ UNCHANGED <<case, seen, since, issued, status, why, holder>>
    BY <2>3 DEF Goto, RunTypes, Holding, HoldsResponse, HoldsOutcome, Labels, Reasons
  <2> QED BY <1>13, <2>2, <2>3 DEF RecordHalt
<1>14. ASSUME NEW p \in Controllers, WriteTemporary(p) PROVE TypeInv'
  <2>1. FileTypes'
    BY <1>14 DEF WriteTemporary, FileTypes
  <2> SUFFICES RunTypes' /\ Holding'
    BY <2>1
  <2> QED BY <1>14, RejectTypes, ContinueTypes
       DEF WriteTemporary, Holding, HoldsResponse, HoldsOutcome, Labels, Reasons
<1>15. ASSUME NEW p \in Controllers, ReplaceProgress(p) PROVE TypeInv'
  <2>1. FileTypes'
    BY <1>15 DEF ReplaceProgress, FileTypes, RunTypes
  <2> SUFFICES RunTypes' /\ Holding'
    BY <2>1
  <2>2. CASE /\ \E s \in {"unknown_spend_halt", "generation_complete"} :
                     status' = [status EXCEPT ![p] = s]
             /\ Goto(p, "progress")
             /\ UNCHANGED <<case, seen, since, got, issued, why, holder>>
    BY <2>2 DEF Goto, RunTypes, Holding, HoldsResponse, HoldsOutcome, Labels, Reasons
  <2>3. CASE /\ case[p] < NumCases /\ case' = [case EXCEPT ![p] = @ + 1]
             /\ ForgetCase(p) /\ Goto(p, "read")
             /\ UNCHANGED <<issued, status, why, holder>>
    <3>1. case[p] + 1 \in Cases
      BY <2>3, CasesAssumption DEF RunTypes, Cases
    <3> QED BY <2>3, <3>1 DEF ForgetCase, Goto, RunTypes, Holding, HoldsResponse, HoldsOutcome, Labels, Reasons
  <2>4. CASE Goto(p, "done") /\ Release(p) /\ UNCHANGED local
    <3>1. holder' \in [Locks -> Controllers \cup {NoOne}]
      BY <2>4 DEF Release, RunTypes
    <3> QED BY <2>4, <3>1 DEF Goto, local, RunTypes, Holding, HoldsResponse, HoldsOutcome, Labels, Reasons
  <2> QED BY <1>15, <2>2, <2>3, <2>4 DEF ReplaceProgress
<1>16. ASSUME NEW p \in Controllers, Crash(p) PROVE TypeInv'
  <2>1. FileTypes'
    BY <1>16 DEF Crash, Die, FileTypes, files
  <2> SUFFICES RunTypes' /\ Holding'
    BY <2>1
  <2> QED BY <1>16, DieTypes
       DEF Crash
<1>17. ASSUME NEW p \in Controllers, ReserveCase(p) PROVE TypeInv'
  <2>1. FileTypes'
    BY <1>17 DEF ReserveCase, FileTypes, files
  <2> SUFFICES RunTypes' /\ Holding'
    BY <2>1
  <2>2. CASE \E reason \in {"reservation", "ledger"} : Reject(p, reason)
    BY <2>2, RejectTypes DEF Reasons
  <2>3. CASE /\ Goto(p, "call")
             /\ seen' = [seen EXCEPT ![p] = "reserved_unknown_spend"]
             /\ UNCHANGED <<case, since, got, issued, status, why, holder>>
    BY <2>3 DEF Goto, RunTypes, Holding, HoldsResponse, HoldsOutcome, Labels, Reasons
  <2> QED BY <1>17, <2>2, <2>3 DEF ReserveCase
<1>18. ASSUME NEW p \in Controllers, RecordCaseResponse(p) PROVE TypeInv'
  <2>1. FileTypes'
    BY <1>18 DEF RecordCaseResponse, FileTypes, files
  <2> SUFFICES RunTypes' /\ Holding'
    BY <2>1
  <2> QED BY <1>18, RejectTypes, ContinueTypes
       DEF RecordCaseResponse, Holding, HoldsResponse, HoldsOutcome, Labels, Reasons
<1>19. ASSUME NEW p \in Controllers, RecordCaseResult(p) PROVE TypeInv'
  <2>1. FileTypes'
    BY <1>19 DEF RecordCaseResult, FileTypes, files
  <2> SUFFICES RunTypes' /\ Holding'
    BY <2>1
  <2>2. got[p] \in Responses
    BY <1>19 DEF RecordCaseResult, Holding, HoldsResponse
  <2>3. CASE \E reason \in {"refused", "ledger"} : Reject(p, reason)
    BY <2>3, RejectTypes DEF Reasons
  <2>4. CASE /\ Goto(p, "progress")
             /\ issued' = [issued EXCEPT ![p] = Append(@, got[p])]
             /\ UNCHANGED <<case, seen, since, got, status, why, holder>>
    BY <2>2, <2>4, IssueTypes
  <2> QED BY <1>19, <2>3, <2>4 DEF RecordCaseResult
<1>20. ASSUME NEW p \in Controllers, KilledInAppend(p) PROVE TypeInv'
  <2>1. FileTypes'
    BY <1>20 DEF KilledInAppend, Die, FileTypes, files
  <2> SUFFICES RunTypes' /\ Holding'
    BY <2>1
  <2> QED BY <1>20, DieTypes
       DEF KilledInAppend
<1>21. CASE Tick
  BY <1>21, TimeAssumption DEF Tick, files, local, FileTypes, RunTypes, Holding
<1>22. CASE UNCHANGED vars
  BY <1>22 DEF vars, files, local, FileTypes, RunTypes, Holding
<1> QED BY <1>2, <1>3, <1>4, <1>5, <1>6, <1>7, <1>8, <1>9, <1>10, <1>11, <1>12, <1>13, <1>14, <1>15, <1>16, <1>17, <1>18, <1>19, <1>20, <1>21, <1>22, NextCases DEF Elsewhere

\* Every value of the campaign's state is one the code can mean, with any number
\* of controllers and over any number of crashes.
THEOREM GenTypeCorrect == GenSpec => []GenTypeOK
<1> QED BY GenInitType, TypeStep, TypeInvTypes, PTL DEF GenSpec

\* Controllers that do not exclude one another never have two reservations in
\* doubt, and what is in doubt still fits under the cap: no response that was
\* paid for is refused for its cost.
THEOREM CampaignFits == GenSpec => [](OneUnresolved /\ ReservationsFit)
<1> DEFINE Inv == TypeInv /\ CapInv
<1>1. GenInit => Inv
  BY GenInitType DEF SoundInv
<1>2. Inv /\ [GenNext]_vars => Inv'
  BY TypeStep, GenLedgerStep, CapStep
<1>3. Inv => OneUnresolved /\ ReservationsFit
  BY CapFits
<1> QED BY <1>1, <1>2, <1>3, PTL DEF GenSpec
-----------------------------------------------------------------------------
(* At most one call.  The ledger is the only thing controllers share that  *)
(* can stop a second call: whoever is about to call holds a reservation,   *)
(* or a line that was cut short in its place, that nobody else can make.   *)

\* The ledger will not admit another reservation of case c.
Admitted(c) == torn \/ StateOf(c) # "available"

AboutToCall(p, c) == pc[p] = "call" /\ case[p] = c

CallsFollow == \A c \in Cases : calls[c] > 0 => Admitted(c)
CallerIsFirst == \A p \in Controllers, c \in Cases :
                    AboutToCall(p, c) => Admitted(c) /\ calls[c] = 0
CallerIsAlone == \A p, q \in Controllers, c \in Cases :
                    AboutToCall(p, c) /\ AboutToCall(q, c) => p = q

CallInv == TypeInv /\ AtMostOneCall /\ CallsFollow /\ CallerIsFirst /\ CallerIsAlone

LEMMA CallInit == GenInit => CallInv
BY GenInitType DEF CallInv, GenInit, AtMostOneCall, CallsFollow, CallerIsFirst,
                   CallerIsAlone, AboutToCall

LEMMA AdmittedStable ==
    ASSUME TypeInv, [GenNext]_vars, NEW c \in Cases, Admitted(c) PROVE Admitted(c)'
BY GenLedgerStep, LedgerStable DEF Admitted, TypeInv

\* A step that calls nobody, and after which nobody is about to call who was not.
LEMMA QuietStep ==
    ASSUME CallInv, [GenNext]_vars, UNCHANGED calls,
           \A p \in Controllers, c \in Cases : AboutToCall(p, c)' => AboutToCall(p, c)
    PROVE  CallInv'
<1>1. TypeInv'
  BY TypeStep DEF CallInv
<1>2. \A c \in Cases : Admitted(c) => Admitted(c)'
  BY AdmittedStable DEF CallInv
<1> QED BY <1>1, <1>2 DEF CallInv, AtMostOneCall, CallsFollow, CallerIsFirst, CallerIsAlone

\* Every step but a reservation and a call is quiet.
LEMMA QuietSteps ==
    ASSUME TypeInv, NEW p \in Controllers,
           \/ Elsewhere(p) /\ ~CallProvider(p)
           \/ RecordCaseResponse(p) \/ RecordCaseResult(p) \/ KilledInAppend(p)
    PROVE  /\ UNCHANGED calls
           /\ pc' = [pc EXCEPT ![p] = pc'[p]] /\ pc'[p] # "call"
           /\ \A q \in Controllers : q # p => case'[q] = case[q]
<1>1. CASE Start(p)
  BY <1>1 DEF Start, Reject, ForgetRun, ForgetCase, Goto, TypeInv, RunTypes
<1>2. CASE ReadLedger(p)
  BY <1>2, StateRange DEF ReadLedger, Approach, Reject, ForgetRun, Goto, TypeInv, RunTypes
<1>9. CASE LoadResponse(p)
  BY <1>9 DEF LoadResponse, Approach, Reject, ForgetRun, Goto, TypeInv, RunTypes
<1>3. CASE ProviderAnswers(p) \/ RecordHalt(p)
  BY <1>3 DEF ProviderAnswers, RecordHalt, Reject, ForgetRun, Goto, TypeInv, RunTypes
<1>4. CASE \/ CreateResponse(p) \/ FillResponse(p) \/ CheckResponse(p)
           \/ CreateResult(p) \/ WriteTemporary(p) \/ RecordCaseResponse(p)
  BY <1>4 DEF CreateResponse, FillResponse, CheckResponse, CreateResult, WriteTemporary,
              RecordCaseResponse, Continue, local, Reject, ForgetRun, Goto, TypeInv, RunTypes
<1>5. CASE CompareResult(p) \/ FillResult(p)
  BY <1>5 DEF CompareResult, FillResult, Published, Approach, Continue, local, Reject,
              ForgetRun, Goto, TypeInv, RunTypes
<1>6. CASE RecordCaseResult(p)
  BY <1>6 DEF RecordCaseResult, Reject, ForgetRun, Goto, TypeInv, RunTypes
<1>7. CASE ReplaceProgress(p)
  BY <1>7 DEF ReplaceProgress, local, Goto, TypeInv, RunTypes
<1>8. CASE Crash(p) \/ KilledInAppend(p)
  BY <1>8 DEF Crash, KilledInAppend, Die, ForgetRun, Goto, TypeInv, RunTypes
<1> QED BY <1>1, <1>2, <1>3, <1>4, <1>5, <1>6, <1>7, <1>8, <1>9 DEF Elsewhere

LEMMA CallStep == CallInv /\ [GenNext]_vars => CallInv'
<1> SUFFICES ASSUME CallInv, [GenNext]_vars PROVE CallInv'
  OBVIOUS
<1>1. TypeInv /\ TypeInv'
  BY TypeStep DEF CallInv
<1>2. \A c \in Cases : Admitted(c) => Admitted(c)'
  BY <1>1, AdmittedStable
<1>3. ASSUME NEW p \in Controllers,
             \/ Elsewhere(p) /\ ~CallProvider(p)
             \/ RecordCaseResponse(p) \/ RecordCaseResult(p) \/ KilledInAppend(p)
      PROVE  CallInv'
  <2>1. ASSUME NEW q \in Controllers, NEW c \in Cases, AboutToCall(q, c)'
        PROVE  AboutToCall(q, c)
    BY <1>1, <1>3, <2>1, QuietSteps DEF AboutToCall, TypeInv, RunTypes
  <2> QED BY <1>1, <1>3, <2>1, QuietSteps, QuietStep
<1>4. ASSUME NEW p \in Controllers, ReserveCase(p) PROVE CallInv'
  <2>1. CASE pc'[p] # "call"
    <3>1. ASSUME NEW q \in Controllers, NEW c \in Cases, AboutToCall(q, c)'
          PROVE  AboutToCall(q, c)
      BY <1>1, <1>4, <2>1, <3>1
         DEF AboutToCall, ReserveCase, Reject, Goto, ForgetRun, TypeInv, RunTypes
    <3> QED BY <1>4, <3>1, QuietStep DEF ReserveCase
  <2>2. CASE pc'[p] = "call"
    <3>1. /\ MayReserve(case[p])
          /\ (\E t \in Stamps(p) : Reserve(case[p], t)) \/ torn'
          /\ pc' = [pc EXCEPT ![p] = "call"] /\ UNCHANGED <<case, calls>>
      BY <1>1, <1>4, <2>2
         DEF ReserveCase, Reserve, ShortWrite, Reject, Goto, TypeInv, RunTypes
    <3>2. case[p] \in Cases /\ ~Admitted(case[p])
      BY <1>1, <3>1 DEF MayReserve, Verifies, Admitted, TypeInv, RunTypes
    <3>3. Admitted(case[p])'
      <4>1. CASE torn'
        BY <4>1 DEF Admitted
      <4>2. CASE \E t \in Stamps(p) : Reserve(case[p], t)
        <5>1. PICK t \in Nat : Reserve(case[p], t)
          BY <1>1, <4>2, StampsAreTimes
        <5>2. Unresolved' = {case[p]}
          BY <1>1, <3>2, <5>1, ReserveStates DEF TypeInv
        <5> QED BY <5>2, <3>1 DEF Unresolved, Admitted
      <4> QED BY <3>1, <4>1, <4>2
    <3>4. calls[case[p]] = 0 /\ \A q \in Controllers : ~AboutToCall(q, case[p])
      BY <1>1, <3>2 DEF CallInv, CallsFollow, CallerIsFirst, TypeInv, FileTypes
    <3>5. \A q \in Controllers, c \in Cases :
             AboutToCall(q, c)' <=> AboutToCall(q, c) \/ (q = p /\ c = case[p])
      BY <1>1, <1>4, <3>1 DEF AboutToCall, TypeInv, RunTypes, ReserveCase
    <3> QED BY <1>1, <1>2, <3>1, <3>3, <3>4, <3>5
            DEF CallInv, AtMostOneCall, CallsFollow, CallerIsFirst, CallerIsAlone
  <2> QED BY <2>1, <2>2
<1>5. ASSUME NEW p \in Controllers, CallProvider(p) PROVE CallInv'
  <2>1. /\ AboutToCall(p, case[p]) /\ case[p] \in Cases
        /\ calls' = [calls EXCEPT ![case[p]] = @ + 1]
        /\ pc' = [pc EXCEPT ![p] = "calling"] /\ UNCHANGED case
    BY <1>1, <1>5 DEF CallProvider, Continue, Goto, local, AboutToCall, TypeInv, RunTypes
  <2>2. \A q \in Controllers, c \in Cases :
           AboutToCall(q, c)' <=> AboutToCall(q, c) /\ q # p
    BY <1>1, <2>1 DEF AboutToCall, TypeInv, RunTypes
  <2>3. calls[case[p]] = 0 /\ Admitted(case[p])
    BY <2>1 DEF CallInv, CallerIsFirst
  <2>4. calls'[case[p]] = 1 /\ \A c \in Cases : c # case[p] => calls'[c] = calls[c]
    BY <1>1, <2>1, <2>3 DEF TypeInv, FileTypes
  <2> QED BY <1>1, <1>2, <2>1, <2>2, <2>3, <2>4
          DEF CallInv, AtMostOneCall, CallsFollow, CallerIsFirst, CallerIsAlone
<1>6. CASE Tick \/ UNCHANGED vars
  <2>1. UNCHANGED <<calls, pc, case>>
    BY <1>6 DEF Tick, vars, local
  <2> QED BY <2>1, QuietStep DEF AboutToCall
<1> QED BY <1>3, <1>4, <1>5, <1>6, NextCases

\* The provider is called at most once for a case: with any number of
\* controllers, whether or not a lock excludes them, over crashes at any point,
\* lines cut short and clocks set back (_execute reserves before it calls, and
\* reserve_v021_case never reserves a case twice).
THEOREM CalledAtMostOnce == GenSpec => []AtMostOneCall
<1>1. CallInv => AtMostOneCall
  BY DEF CallInv
<1> QED BY <1>1, CallInit, CallStep, PTL DEF GenSpec

-----------------------------------------------------------------------------
(***************************************************************************)
(* The campaign implements the one-shot budget, while no append is cut     *)
(* short.  A process may still be killed inside one.                       *)
(***************************************************************************)

\* Where the case a controller works on was called.
AfterCall == {"calling", "create_response", "fill_response", "record"}

\* A call comes after the reservation, and whatever tells of an answer after the
\* call: the ledger, the response file, the controller itself.
CallOrder ==
    /\ \A c \in Cases : calls[c] > 0 => StateOf(c) # "available"
    /\ \A c \in Cases : StateOf(c) \in {"response_durable", "completed"} => calls[c] > 0
    /\ \A c \in Cases : response[c] # NoFile => calls[c] > 0
    /\ \A p \in Controllers : pc[p] = "call" => StateOf(case[p]) # "available"
    /\ \A p \in Controllers : pc[p] \in AfterCall => calls[case[p]] > 0

OrderInv == ~ShortWrites /\ CallInv /\ CallOrder

LEMMA OrderInit == ~ShortWrites /\ GenInit => OrderInv
<1> SUFFICES ASSUME ~ShortWrites, GenInit PROVE OrderInv
  OBVIOUS
<1>1. \A c \in Cases : StateOf(c) = "available"
  BY DEF GenInit, LedgerClaimed, ClaimLine, StateOf, StateAfter, Logged, Event
<1>2. CallOrder
  BY <1>1 DEF CallOrder, GenInit, AfterCall
<1> QED BY <1>2, CallInit DEF OrderInv

\* A step that appends nothing and calls nobody.
RestStep(p) == \/ Elsewhere(p) /\ ~CallProvider(p)
               \/ KilledInAppend(p)

LEMMA RestChanges ==
    ASSUME TypeInv, CallOrder, NEW p \in Controllers, RestStep(p)
    PROVE  /\ UNCHANGED <<log, spent, calls>>
           /\ pc'[p] \in AfterCall => case'[p] = case[p] /\ calls[case[p]] > 0
           /\ \A c \in Cases : response'[c] # NoFile => calls[c] > 0
<1> USE DEF AfterCall, CallOrder, TypeInv, RunTypes, FileTypes
<1>1. UNCHANGED <<log, spent, calls>>
  BY ElsewhereUnchanged, QuietSteps DEF RestStep, ledgerVars, KilledInAppend
<1>2. CASE Start(p) \/ ReadLedger(p)
  BY <1>1, <1>2, StateRange
     DEF Start, ReadLedger, Approach, Reject, ForgetRun, Goto, files
<1>3. CASE ProviderAnswers(p) \/ RecordHalt(p)
  BY <1>1, <1>3 DEF ProviderAnswers, RecordHalt, Reject, ForgetRun, Goto, files
<1>4. CASE CreateResponse(p) \/ FillResponse(p)
  BY <1>1, <1>4 DEF CreateResponse, FillResponse, Continue, local, Reject, ForgetRun, Goto
<1>5. CASE CheckResponse(p) \/ CreateResult(p) \/ WriteTemporary(p)
  BY <1>1, <1>5 DEF CheckResponse, CreateResult, WriteTemporary, Continue, local, Reject,
                    ForgetRun, Goto, files
<1>6. CASE LoadResponse(p)
  <2>1. NoFile \notin Responses /\ case[p] \in Cases
    BY ControllerAssumption
  <2> QED BY <1>1, <1>6, <2>1 DEF LoadResponse, Approach, Reject, ForgetRun, Goto, files
<1>7. CASE CompareResult(p) \/ FillResult(p)
  BY <1>1, <1>7 DEF CompareResult, FillResult, Published, Approach, Continue, local,
                    Reject, ForgetRun, Goto, files
<1>8. CASE ReplaceProgress(p)
  BY <1>1, <1>8 DEF ReplaceProgress, local, Goto
<1>9. CASE Crash(p) \/ KilledInAppend(p)
  BY <1>1, <1>9 DEF Crash, KilledInAppend, Die, ForgetRun, Goto, files
<1> QED BY <1>2, <1>3, <1>4, <1>5, <1>6, <1>7, <1>8, <1>9 DEF RestStep, Elsewhere
-----------------------------------------------------------------------------
(* What the appends do to the states of the cases. *)

Moves(c, from, to) == /\ StateOf(c) = from /\ StateOf(c)' = to
                      /\ \A d \in Cases : d # c => StateOf(d)' = StateOf(d)

LEMMA ReserveMoves ==
    ASSUME LedgerTypeOK, NEW c \in Cases, NEW t \in Nat, Reserve(c, t)
    PROVE  Moves(c, "available", "reserved_unknown_spend")
<1> DEFINE e == Event("case_reserved", c, NoResponse, NoResponse, t)
<1>1. e \in Events /\ e.case = c /\ e.type = "case_reserved"
  BY DEF Event, Events, EventTypes
<1>2. log' = Append(log, e) /\ StateOf(c) = "available"
  BY DEF Reserve, MayReserve, Append1
<1> HIDE DEF e
<1> QED BY <1>1, <1>2, StateAppend DEF Moves

LEMMA ResponseMoves ==
    ASSUME LedgerTypeOK, NEW c \in Cases, NEW r \in Responses, NEW t \in Nat,
           RecordResponse(c, r, t)
    PROVE  Moves(c, "reserved_unknown_spend", "response_durable")
<1> DEFINE e == Event("provider_response_durable", c, r, NoResponse, t)
<1>1. e \in Events /\ e.case = c /\ e.type = "provider_response_durable"
  BY DEF Event, Events, EventTypes
<1>2. log' = Append(log, e) /\ StateOf(c) = "reserved_unknown_spend"
  BY DEF RecordResponse, MayRecordResponse, Append1
<1> HIDE DEF e
<1> QED BY <1>1, <1>2, StateAppend DEF Moves

LEMMA ResultMoves ==
    ASSUME LedgerTypeOK, NEW c \in Cases, NEW r \in Responses, NEW s \in Responses,
           NEW t \in Nat, RecordResult(c, r, s, t)
    PROVE  Moves(c, "response_durable", "completed")
<1> DEFINE e == Event("case_completed", c, r, s, t)
<1>1. e \in Events /\ e.case = c /\ e.type = "case_completed"
  BY DEF Event, Events, EventTypes
<1>2. log' = Append(log, e) /\ StateOf(c) = "response_durable"
  BY DEF RecordResult, MayRecordResult, Append1
<1> HIDE DEF e
<1> QED BY <1>1, <1>2, StateAppend DEF Moves
-----------------------------------------------------------------------------
(* The order is kept. *)

LEMMA OrderStep == OrderInv /\ [GenNext]_vars => OrderInv'
<1> SUFFICES ASSUME OrderInv, [GenNext]_vars PROVE CallOrder'
  BY CallStep DEF OrderInv
<1>1. TypeInv /\ TypeInv' /\ LedgerTypeOK /\ CallOrder
  BY TypeStep DEF OrderInv, CallInv, TypeInv
<1> USE DEF AfterCall
<1>2. ASSUME NEW p \in Controllers, RestStep(p) PROVE CallOrder'
  <2>1. /\ pc' = [pc EXCEPT ![p] = pc'[p]] /\ pc'[p] # "call"
        /\ \A q \in Controllers : q # p => case'[q] = case[q]
    BY <1>1, <1>2, QuietSteps DEF RestStep
  <2>2. \A c : StateOf(c)' = StateOf(c)
    BY <1>1, <1>2, RestChanges, StateUnchanged
  <2> QED BY <1>1, <1>2, <2>1, <2>2, RestChanges DEF CallOrder, TypeInv, RunTypes
<1>3. ASSUME NEW p \in Controllers, ReserveCase(p) PROVE CallOrder'
  <2>1. CASE \E t \in Stamps(p) : Reserve(case[p], t)
    <3>1. PICK t \in Nat : Reserve(case[p], t)
      BY <1>1, <2>1, StampsAreTimes
    <3>2. case[p] \in Cases /\ Moves(case[p], "available", "reserved_unknown_spend")
      BY <1>1, <3>1, ReserveMoves DEF TypeInv, RunTypes
    <3>3. UNCHANGED <<case, calls, response>> /\ pc' = [pc EXCEPT ![p] = "call"]
      BY <1>1, <1>3, <3>1 DEF ReserveCase, Reserve, Goto, files
    <3> QED BY <1>1, <3>2, <3>3 DEF CallOrder, Moves, TypeInv, RunTypes
  <2>2. CASE Reject(p, IF Readable THEN "reservation" ELSE "ledger") /\ UNCHANGED ledgerVars
    <3>1. \A c : StateOf(c)' = StateOf(c)
      BY <2>2, StateUnchanged DEF ledgerVars
    <3> QED BY <1>1, <1>3, <2>2, <3>1
            DEF CallOrder, ReserveCase, Reject, Goto, ForgetRun, files, TypeInv, RunTypes
  <2> QED BY <1>3, <2>1, <2>2 DEF ReserveCase, ShortWrite, OrderInv
<1>4. ASSUME NEW p \in Controllers, RecordCaseResponse(p) \/ RecordCaseResult(p)
      PROVE  CallOrder'
  <2>1. /\ UNCHANGED calls /\ pc' = [pc EXCEPT ![p] = pc'[p]] /\ pc'[p] # "call"
        /\ \A q \in Controllers : q # p => case'[q] = case[q]
    BY <1>1, <1>4, QuietSteps
  <2>2. pc'[p] \notin AfterCall /\ UNCHANGED response
    BY <1>1, <1>4 DEF RecordCaseResponse, RecordCaseResult, Continue, Reject, Goto, files,
                      TypeInv, RunTypes
  <2>3. /\ \A c \in Cases : StateOf(c) # "available" => StateOf(c)' # "available"
        /\ \A c \in Cases : StateOf(c)' \in {"response_durable", "completed"} =>
                               calls[c] > 0
    <3>1. CASE UNCHANGED log
      BY <1>1, <3>1, StateUnchanged DEF CallOrder
    <3>2. CASE \E t \in Stamps(p) : RecordResponse(case[p], got[p], t) /\ pc[p] = "record"
      <4>1. PICK t \in Nat : RecordResponse(case[p], got[p], t)
        BY <1>1, <3>2, StampsAreTimes
      <4>2. case[p] \in Cases /\ got[p] \in Responses /\ pc[p] = "record"
        BY <1>1, <3>2 DEF TypeInv, RunTypes, Holding, HoldsResponse
      <4> QED BY <1>1, <4>1, <4>2, ResponseMoves DEF Moves, CallOrder
    <3>3. CASE \E t \in Stamps(p) : /\ RecordResult(case[p], got[p], got[p], t)
                                    /\ pc[p] = "complete"
      <4>1. PICK t \in Nat : RecordResult(case[p], got[p], got[p], t)
        BY <1>1, <3>3, StampsAreTimes
      <4>2. case[p] \in Cases /\ got[p] \in Responses
        BY <1>1, <3>3 DEF TypeInv, RunTypes, Holding, HoldsResponse
      <4> QED BY <1>1, <4>1, <4>2, ResultMoves DEF Moves, CallOrder
    <3> QED BY <1>4, <3>1, <3>2, <3>3
            DEF RecordCaseResponse, RecordCaseResult, ShortWrite, ledgerVars
  <2>4. /\ \A q \in Controllers : pc'[q] = "call" => q # p /\ pc[q] = "call"
        /\ \A q \in Controllers : pc'[q] \in AfterCall => q # p /\ pc[q] \in AfterCall
    BY <1>1, <2>1, <2>2 DEF TypeInv, RunTypes
  <2>5. \A q \in Controllers : (pc[q] = "call" => StateOf(case[q]) # "available")'
    BY <1>1, <2>1, <2>3, <2>4 DEF CallOrder, TypeInv, RunTypes
  <2>6. \A q \in Controllers : pc'[q] \in AfterCall => calls'[case'[q]] > 0
    BY <1>1, <2>1, <2>4 DEF CallOrder
  <2>7. \A c \in Cases : (calls[c] > 0 => StateOf(c) # "available")'
    BY <1>1, <2>1, <2>3 DEF CallOrder
  <2>8. /\ \A c \in Cases : (StateOf(c) \in {"response_durable", "completed"} => calls[c] > 0)'
        /\ \A c \in Cases : response'[c] # NoFile => calls'[c] > 0
    BY <1>1, <2>1, <2>2, <2>3 DEF CallOrder
  <2> QED BY <2>5, <2>6, <2>7, <2>8 DEF CallOrder
<1>5. ASSUME NEW p \in Controllers, CallProvider(p) PROVE CallOrder'
  <2>1. /\ pc[p] = "call" /\ pc' = [pc EXCEPT ![p] = "calling"] /\ UNCHANGED <<case, response>>
        /\ case[p] \in Cases /\ calls' = [calls EXCEPT ![case[p]] = @ + 1]
        /\ \A c : StateOf(c)' = StateOf(c)
    BY <1>1, <1>5, StateUnchanged
       DEF CallProvider, Continue, Goto, local, ledgerVars, files, TypeInv, RunTypes
  <2>2. calls'[case[p]] > 0 /\ \A c \in Cases : calls[c] > 0 => calls'[c] > 0
    BY <1>1, <2>1 DEF TypeInv, FileTypes
  <2>3. \A c \in Cases : c # case[p] => calls'[c] = calls[c]
    BY <1>1, <2>1 DEF TypeInv, FileTypes
  <2>4. \A c \in Cases : calls'[c] > 0 => StateOf(c)' # "available"
    <3>1. StateOf(case[p]) # "available"
      BY <1>1, <2>1 DEF CallOrder
    <3> QED BY <1>1, <2>1, <2>3, <3>1 DEF CallOrder
  <2>5. \A q \in Controllers : pc'[q] = IF q = p THEN "calling" ELSE pc[q]
    BY <1>1, <2>1 DEF TypeInv, RunTypes
  <2>6. \A q \in Controllers : (pc[q] = "call" => StateOf(case[q]) # "available")'
    BY <1>1, <2>1, <2>5 DEF CallOrder, TypeInv, RunTypes
  <2>7. \A q \in Controllers : pc'[q] \in AfterCall => calls'[case'[q]] > 0
    <3> SUFFICES ASSUME NEW q \in Controllers, pc'[q] \in AfterCall
                 PROVE  calls'[case[q]] > 0
      BY <2>1
    <3>1. CASE q = p
      BY <2>2, <3>1
    <3>2. CASE q # p
      <4>1. case[q] \in Cases /\ calls[case[q]] > 0
        BY <1>1, <2>5, <3>2 DEF CallOrder, TypeInv, RunTypes, Holding, HoldsResponse
      <4> QED BY <2>2, <4>1
    <3> QED BY <3>1, <3>2
  <2>8. /\ \A c \in Cases : StateOf(c)' \in {"response_durable", "completed"} => calls'[c] > 0
        /\ \A c \in Cases : response'[c] # NoFile => calls'[c] > 0
    BY <1>1, <2>1, <2>2 DEF CallOrder
  <2> QED BY <2>4, <2>6, <2>7, <2>8 DEF CallOrder
<1>6. CASE Tick \/ UNCHANGED vars
  <2>1. UNCHANGED <<calls, pc, case, response, log>>
    BY <1>6 DEF Tick, vars, local, ledgerVars, files
  <2> QED BY <1>1, <2>1, StateUnchanged DEF CallOrder
<1> QED BY <1>2, <1>3, <1>4, <1>5, <1>6, NextCases DEF RestStep
-----------------------------------------------------------------------------
(* The refinement. *)

\* The phase of a case, without the order of the tests in its definition.
LEMMA PhaseIs ==
    ASSUME OrderInv, NEW c \in Cases
    PROVE  /\ StateOf(c) = "available" => calls[c] = 0 /\ Phase(c) = "available"
           /\ StateOf(c) = "reserved_unknown_spend" =>
                 /\ calls[c] = 0 => Phase(c) = "reserved"
                 /\ calls[c] # 0 => Phase(c) = "called"
           /\ StateOf(c) = "response_durable" => calls[c] # 0 /\ Phase(c) = "settled"
           /\ StateOf(c) = "completed" => calls[c] # 0 /\ Phase(c) = "done"
<1>1. calls[c] \in {0, 1}
  BY DEF OrderInv, CallInv, AtMostOneCall, TypeInv, FileTypes
<1> QED BY <1>1, StateRange DEF OrderInv, CallOrder, Phase

\* A case whose state and calls stay keeps its phase.
LEMMA PhaseStays ==
    ASSUME NEW c \in Cases, StateOf(c)' = StateOf(c), calls'[c] = calls[c]
    PROVE  Phase(c)' = Phase(c)
BY DEF Phase

\* What a step can do to the money and the calls.
LEMMA BudgetCases ==
    ASSUME TypeInv, [GenNext]_vars
    PROVE  \/ UNCHANGED <<log, spent, calls>>
           \/ \E p \in Controllers : CallProvider(p)
           \/ /\ UNCHANGED calls
              /\ \/ \E c \in Cases, t \in Nat : Reserve(c, t)
                 \/ \E c \in Cases, r \in Responses, t \in Nat : RecordResponse(c, r, t)
                 \/ \E c \in Cases, r, s \in Responses, t \in Nat : RecordResult(c, r, s, t)
<1>1. UNCHANGED calls \/ \E p \in Controllers : CallProvider(p)
  <2>1. ASSUME NEW p \in Controllers, ReserveCase(p) PROVE UNCHANGED calls
    BY <2>1 DEF ReserveCase
  <2>2. CASE Tick \/ UNCHANGED vars
    BY <2>2 DEF Tick, vars
  <2> QED BY <2>1, <2>2, NextCases, QuietSteps
<1> QED BY <1>1, GenLedgerStep DEF LedgerStep

LEMMA MoneyTypes ==
    ASSUME TypeInv, NEW r \in Responses
    PROVE  spent \in Nat /\ CostOf[r] \in Nat /\ PerCaseCap \in Nat /\ TotalCap \in Nat
BY ResponseAssumption, CapAssumption DEF TypeInv, LedgerTypeOK

LEMMA InitMaps == ~ShortWrites /\ GenInit => Budget!Init
<1> SUFFICES ASSUME ~ShortWrites, GenInit PROVE Budget!Init
  OBVIOUS
<1>1. \A c \in Cases : StateOf(c) = "available"
  BY DEF GenInit, LedgerClaimed, ClaimLine, StateOf, StateAfter, Logged, Event
<1>2. \A c \in Cases : Phase(c) = "available"
  BY <1>1, OrderInit, PhaseIs
<1> QED BY <1>2 DEF Budget!Init, GenInit, LedgerClaimed

LEMMA StepMaps == OrderInv /\ OrderInv' /\ [GenNext]_vars => [Budget!Next]_(Budget!budgetVars)
<1> SUFFICES ASSUME OrderInv, OrderInv', [GenNext]_vars
             PROVE  [Budget!Next]_(Budget!budgetVars)
  OBVIOUS
<1>1. TypeInv /\ LedgerTypeOK
  BY DEF OrderInv, CallInv, TypeInv
<1>2. ASSUME NEW c \in Cases, NEW from, NEW to, Phase(c) = from, Phase(c)' = to,
             \A d \in Cases : d # c => Phase(d)' = Phase(d)
      PROVE  Budget!Advance(c, from, to)
  BY <1>2 DEF Budget!Advance
<1>3. CASE UNCHANGED <<log, spent, calls>>
  <2>1. \A c \in Cases : Phase(c)' = Phase(c)
    BY <1>3, StateUnchanged, PhaseStays
  <2> QED BY <1>3, <2>1 DEF Budget!budgetVars
<1>4. ASSUME NEW p \in Controllers, CallProvider(p) PROVE Budget!Next
  <2>1. PICK c \in Cases : /\ AboutToCall(p, c) /\ calls' = [calls EXCEPT ![c] = @ + 1]
                          /\ UNCHANGED <<log, spent>>
    BY <1>1, <1>4 DEF CallProvider, AboutToCall, ledgerVars, TypeInv, RunTypes
  <2>2. calls[c] = 0 /\ calls'[c] = 1 /\ \A d \in Cases : d # c => calls'[d] = calls[d]
    BY <1>1, <2>1 DEF OrderInv, CallInv, CallerIsFirst, TypeInv, FileTypes
  <2>3. StateOf(c) = "reserved_unknown_spend"
    BY <2>1, <2>2, StateRange DEF OrderInv, CallOrder, AboutToCall
  <2>4. Phase(c) = "reserved" /\ Phase(c)' = "called"
    BY <2>1, <2>2, <2>3, StateUnchanged, PhaseIs DEF Phase
  <2>5. \A d \in Cases : d # c => Phase(d)' = Phase(d)
    BY <2>1, <2>2, StateUnchanged, PhaseStays
  <2> QED BY <1>2, <2>1, <2>4, <2>5 DEF Budget!Next, Budget!Call
<1>5. ASSUME UNCHANGED calls, NEW c \in Cases, NEW from, NEW to, Moves(c, from, to)
      PROVE  \A d \in Cases : d # c => Phase(d)' = Phase(d)
  BY <1>5, PhaseStays DEF Moves
<1>6. ASSUME UNCHANGED calls, NEW c \in Cases, NEW t \in Nat, Reserve(c, t)
      PROVE  Budget!Next
  <2>1. Moves(c, "available", "reserved_unknown_spend")
    BY <1>1, <1>6, ReserveMoves
  <2>2. Phase(c) = "available" /\ Phase(c)' = "reserved"
    BY <1>6, <2>1, PhaseIs DEF Moves, Phase
  <2>3. \A d \in Cases : Phase(d) \notin {"reserved", "called"}
    <3>1. \A d \in Cases : StateOf(d) # "reserved_unknown_spend"
      BY <1>6 DEF Reserve, MayReserve, Unresolved
    <3> QED BY <3>1, StateRange, PhaseIs
  <2>4. \A d \in Cases : ~Budget!InDoubt(d)
    BY <2>3 DEF Budget!InDoubt
  <2> QED BY <1>2, <1>5, <1>6, <2>1, <2>2, <2>4 DEF Budget!Next, Budget!Reserve, Reserve
<1>7. ASSUME UNCHANGED calls, NEW c \in Cases, NEW r \in Responses, NEW t \in Nat,
             RecordResponse(c, r, t)
      PROVE  Budget!Next
  <2>1. Moves(c, "reserved_unknown_spend", "response_durable")
    BY <1>1, <1>7, ResponseMoves
  <2>2. calls'[c] # 0 /\ Phase(c)' = "settled"
    <3>1. StateOf(c)' = "response_durable"
      BY <2>1 DEF Moves
    <3>2. StateOf(c)' = "response_durable" => calls'[c] # 0 /\ Phase(c)' = "settled"
      <4>1. calls'[c] \in {0, 1} /\ (StateOf(c)' = "response_durable" => calls'[c] > 0)
        BY DEF OrderInv, CallInv, AtMostOneCall, TypeInv, FileTypes, CallOrder
      <4> QED BY <4>1 DEF Phase
    <3> QED BY <3>1, <3>2
  <2>3. Phase(c) = "called"
    BY <1>7, <2>1, <2>2, PhaseIs DEF Moves
  <2>4. /\ \E cost \in 0 .. PerCaseCap : spent' = spent + cost
        /\ spent' <= TotalCap
    BY <1>1, <1>7, MoneyTypes DEF RecordResponse, MayRecordResponse
  <2> QED BY <1>2, <1>5, <1>7, <2>1, <2>2, <2>3, <2>4 DEF Budget!Next, Budget!Settle
<1>8. ASSUME UNCHANGED calls, NEW c \in Cases, NEW r \in Responses, NEW s \in Responses,
             NEW t \in Nat, RecordResult(c, r, s, t)
      PROVE  Budget!Next
  <2>1. Moves(c, "response_durable", "completed")
    BY <1>1, <1>8, ResultMoves
  <2>2. Phase(c) = "settled" /\ calls[c] # 0
    BY <2>1, PhaseIs DEF Moves
  <2>3. Phase(c)' = "done"
    <3>1. calls[c] = 1
      BY <2>2 DEF OrderInv, CallInv, AtMostOneCall, TypeInv, FileTypes
    <3> QED BY <1>8, <2>1, <3>1 DEF Moves, Phase
  <2> QED BY <1>2, <1>5, <1>8, <2>1, <2>2, <2>3 DEF Budget!Next, Budget!Finish, RecordResult
<1> QED BY <1>1, <1>3, <1>4, <1>6, <1>7, <1>8, BudgetCases

\* While no append is cut short, every behaviour of the campaign is one of the
\* one-shot budget: each case is paid for at most once, after its reservation, one
\* case at a time is in doubt, and the total stays under the cap (_execute and the
\* three operations of the spend ledger).
THEOREM CampaignIsOneShot == ~ShortWrites /\ GenSpec => ImplementsOneShotSpend
<1>1. ~ShortWrites /\ GenInit => OrderInv /\ Budget!Init
  BY OrderInit, InitMaps
<1>2. OrderInv /\ [GenNext]_vars => OrderInv' /\ [Budget!Next]_(Budget!budgetVars)
  BY OrderStep, StepMaps
<1> QED BY <1>1, <1>2, PTL DEF GenSpec, ImplementsOneShotSpend, Budget!Spec

-----------------------------------------------------------------------------
(* The order of the log *)

\* The log: the lines are in place, and a completion repeats the response before it.
LogInv ==
    /\ PublishablePrefix
    /\ log[1].type = "ledger_claimed"
    /\ \A c \in Cases : 3 * c <= Len(log) =>
          /\ log[3 * c].response \in Responses
          /\ CostOf[log[3 * c].response] <= PerCaseCap
    /\ \A c \in Cases : 3 * c + 1 <= Len(log) =>
          /\ log[3 * c + 1].result \in Responses
          /\ log[3 * c + 1].response = log[3 * c].response

\* The files: what the ledger binds is on file, a response is affordable, a result is
\* the response, and there is no file of a case before its reservation.
FilesInv ==
    \A c \in Cases :
       /\ 3 * c <= Len(log) => response[c] = log[3 * c].response
       /\ 3 * c + 1 <= Len(log) => result[c] = log[3 * c + 1].result
       /\ response[c] \in Responses => CostOf[response[c]] <= PerCaseCap
       /\ result[c] \in Responses => response[c] = result[c]
       /\ response[c] # NoFile \/ result[c] # NoFile => torn \/ 3 * c - 1 <= Len(log)

\* Where the case a controller works on has its response in the ledger, has a response,
\* has none that was read back yet, and has its reservation.
Recorded == {"compare", "create_result", "fill_result", "complete"}
Answered == {"record"} \cup Recorded
Unanswered == {"call", "calling", "create_response", "fill_response", "check"}
Reserved == {"load", "halt"} \cup Unanswered \cup Answered

\* A controller: every case before its own is completed, and what it knows of its own
\* case is so.  None of it needs a lock: others only ever add to it.
RunInv(p) ==
    /\ 3 * case[p] - 2 <= Len(log)
    /\ pc[p] = "fill_response" => response[case[p]] = Torn
    /\ pc[p] = "fill_result" => result[case[p]] = Torn
    /\ pc[p] \in {"create_response", "fill_response"} => CostOf[got[p]] <= PerCaseCap
    /\ pc[p] \in Answered /\ got[p] # Halt => response[case[p]] = got[p]
    /\ pc[p] = "complete" => result[case[p]] = got[p] /\ got[p] # Halt
    /\ pc[p] \in Reserved => torn \/ 3 * case[p] - 1 <= Len(log)
    /\ pc[p] \in Recorded /\ got[p] # Halt => torn \/ 3 * case[p] <= Len(log)
    /\ pc[p] \in Unanswered => seen[p] = "reserved_unknown_spend"
    /\ pc[p] = "load" /\ seen[p] # "reserved_unknown_spend" => 3 * case[p] <= Len(log)

\* A file is filled by the one controller that created it.
OneFiller ==
    \A p, q \in Controllers :
       /\ case[p] = case[q] /\ pc[p] = pc[q]
       /\ pc[p] \in {"fill_response", "fill_result"}
       => p = q

Issuing == {"progress", "replace", "done"}

\* The results a run has issued: one for each case it is through with, each of them
\* bound by the ledger, but for a halt, which is the last word.
IssuedInv(p) ==
    pc[p] \notin {"idle", "rejected"} =>
      /\ Len(issued[p]) = IF pc[p] \in Issuing THEN case[p] ELSE case[p] - 1
      /\ \A i \in 1 .. Len(issued[p]) :
            \/ issued[p][i] = Halt /\ i = Len(issued[p]) /\ pc[p] \in Issuing
            \/ 3 * i + 1 <= Len(log) /\ issued[p][i] = log[3 * i + 1].result
      /\ pc[p] \notin Issuing => status[p] = "generation"
      /\ pc[p] = "done" => status[p] # "generation"
      /\ status[p] = "generation_complete" =>
            case[p] = NumCases /\ Halt \notin Range(issued[p])

InOrderInv == /\ TypeInv /\ LogInv /\ FilesInv /\ OneFiller
              /\ \A p \in Controllers : RunInv(p) /\ IssuedInv(p)
-----------------------------------------------------------------------------
(* The length of the log, and the state of every case. *)

LEMMA CaseNumbers == \A c \in Cases : c \in Int /\ 1 <= c /\ c <= NumCases /\ NumCases \in Nat
BY CasesAssumption DEF Cases

LEMMA LogIsLog ==
    ASSUME LedgerTypeOK
    PROVE  /\ Len(log) \in Nat /\ Len(log) >= 1
           /\ \A i \in 1 .. Len(log) : log[i] \in Events
           /\ \A e : /\ Len(Append(log, e)) = Len(log) + 1
                     /\ Append(log, e)[Len(log) + 1] = e
                     /\ \A i \in 1 .. Len(log) : Append(log, e)[i] = log[i]
BY DEF LedgerTypeOK

\* The place of a line.
LEMMA PrefixLines ==
    ASSUME LedgerTypeOK, LogInv, NEW c \in Cases, NEW i \in 1 .. Len(log)
    PROVE  /\ log[i].type = "case_reserved" /\ log[i].case = c <=> i = 3 * c - 1
           /\ log[i].type = "provider_response_durable" /\ log[i].case = c <=> i = 3 * c
           /\ log[i].type = "case_completed" /\ log[i].case = c <=> i = 3 * c + 1
<1> USE CaseNumbers, LogIsLog
<1>1. CASE i = 1
  BY <1>1 DEF LogInv
<1>2. CASE i # 1
  <2>1. i \in 2 .. Len(log)
    BY <1>2
  <2> DEFINE k == (i - 2) \div 3
             m == (i - 2) % 3
  <2>2. k \in Int /\ m \in {0, 1, 2} /\ i - 2 = 3 * k + m
    BY <2>1
  <2>3. log[i].case = k + 1
    BY <2>1 DEF LogInv, PublishablePrefix
  <2>4. log[i].type = CASE m = 0 -> "case_reserved"
                        [] m = 1 -> "provider_response_durable"
                        [] m = 2 -> "case_completed"
    BY <2>1, Zenon DEF LogInv, PublishablePrefix
  <2> HIDE DEF k, m
  <2>5. CASE m = 0
    <3>1. log[i].type = "case_reserved"
      BY <2>4, <2>5
    <3>2. /\ i # 3 * c /\ i # 3 * c + 1
          /\ i = 3 * c - 1 <=> k + 1 = c
      BY <2>2, <2>5
    <3> QED BY <2>3, <3>1, <3>2
  <2>6. CASE m = 1
    <3>1. log[i].type = "provider_response_durable"
      BY <2>4, <2>6
    <3>2. /\ i # 3 * c - 1 /\ i # 3 * c + 1
          /\ i = 3 * c <=> k + 1 = c
      BY <2>2, <2>6
    <3> QED BY <2>3, <3>1, <3>2
  <2>7. CASE m = 2
    <3>1. log[i].type = "case_completed"
      BY <2>4, <2>7
    <3>2. /\ i # 3 * c - 1 /\ i # 3 * c
          /\ i = 3 * c + 1 <=> k + 1 = c
      BY <2>2, <2>7
    <3> QED BY <2>3, <3>1, <3>2
  <2> QED BY <2>2, <2>5, <2>6, <2>7
<1> QED BY <1>1, <1>2

LEMMA PrefixLength == ASSUME LedgerTypeOK, LogInv PROVE Len(log) <= 3 * NumCases + 1
<1> SUFFICES ASSUME Len(log) >= 3 * NumCases + 2 PROVE FALSE
  BY LogIsLog, CasesAssumption
<1> DEFINE i == 3 * NumCases + 2
<1>1. i \in 2 .. Len(log) /\ (i - 2) \div 3 = NumCases
  BY LogIsLog, CasesAssumption
<1>2. log[i].case = NumCases + 1
  BY <1>1 DEF LogInv, PublishablePrefix
<1>3. log[i].case \in Cases \cup {0}
  BY <1>1, LogIsLog DEF Events
<1> QED BY <1>2, <1>3, CasesAssumption DEF Cases

LEMMA PrefixLogged ==
    ASSUME LedgerTypeOK, LogInv, NEW c \in Cases, NEW n \in 0 .. Len(log)
    PROVE  /\ Logged(log, n, "case_reserved", c) <=> 3 * c - 1 <= n
           /\ Logged(log, n, "provider_response_durable", c) <=> 3 * c <= n
           /\ Logged(log, n, "case_completed", c) <=> 3 * c + 1 <= n
<1>1. n \in Int /\ \A i \in 1 .. n : i \in 1 .. Len(log)
  BY LogIsLog
<1>2. \A i \in 1 .. n :
          /\ log[i].type = "case_reserved" /\ log[i].case = c <=> i = 3 * c - 1
          /\ log[i].type = "provider_response_durable" /\ log[i].case = c <=> i = 3 * c
          /\ log[i].type = "case_completed" /\ log[i].case = c <=> i = 3 * c + 1
  BY <1>1, PrefixLines
<1>3. Logged(log, n, "case_reserved", c) <=> 3 * c - 1 \in 1 .. n
  BY <1>2 DEF Logged
<1>4. Logged(log, n, "provider_response_durable", c) <=> 3 * c \in 1 .. n
  BY <1>2 DEF Logged
<1>5. Logged(log, n, "case_completed", c) <=> 3 * c + 1 \in 1 .. n
  BY <1>2 DEF Logged
<1> QED BY <1>1, <1>3, <1>4, <1>5, CaseNumbers

\* The state of a case is a matter of the length of the log.
LEMMA PrefixStates ==
    ASSUME LedgerTypeOK, LogInv, NEW c \in Cases, NEW n \in 0 .. Len(log)
    PROVE  /\ StateAfter(log, n, c) = "available" <=> n < 3 * c - 1
           /\ StateAfter(log, n, c) = "reserved_unknown_spend" <=> n = 3 * c - 1
           /\ StateAfter(log, n, c) = "response_durable" <=> n = 3 * c
           /\ StateAfter(log, n, c) = "completed" <=> 3 * c + 1 <= n
<1>1. n \in Int /\ c \in Int
  BY LogIsLog, CaseNumbers
<1>2. /\ StateAfter(log, n, c) = "completed" <=> 3 * c + 1 <= n
      /\ StateAfter(log, n, c) = "response_durable" <=> 3 * c <= n /\ ~(3 * c + 1 <= n)
      /\ StateAfter(log, n, c) = "reserved_unknown_spend" <=>
            3 * c - 1 <= n /\ ~(3 * c <= n) /\ ~(3 * c + 1 <= n)
      /\ StateAfter(log, n, c) = "available" <=>
            ~(3 * c - 1 <= n) /\ ~(3 * c <= n) /\ ~(3 * c + 1 <= n)
  BY PrefixLogged DEF StateAfter
<1> QED BY <1>1, <1>2

LEMMA StatesAre ==
    ASSUME LedgerTypeOK, LogInv, NEW c \in Cases
    PROVE  /\ StateOf(c) = "available" <=> Len(log) < 3 * c - 1
           /\ StateOf(c) = "reserved_unknown_spend" <=> Len(log) = 3 * c - 1
           /\ StateOf(c) = "response_durable" <=> Len(log) = 3 * c
           /\ StateOf(c) = "completed" <=> 3 * c + 1 <= Len(log)
BY PrefixStates, LogIsLog DEF StateOf

\* So is what it binds.
LEMMA BindingsAre ==
    ASSUME LedgerTypeOK, LogInv, NEW c \in Cases
    PROVE  /\ \A r : BindsResponse(c, r) <=> 3 * c <= Len(log) /\ log[3 * c].response = r
           /\ \A s : BindsResult(c, s) <=>
                        3 * c + 1 <= Len(log) /\ log[3 * c + 1].result = s
<1>1. \A i \in 1 .. Len(log) :
          /\ log[i].type = "provider_response_durable" /\ log[i].case = c <=> i = 3 * c
          /\ log[i].type = "case_completed" /\ log[i].case = c <=> i = 3 * c + 1
  BY PrefixLines
<1>2. /\ 3 * c <= Len(log) <=> 3 * c \in 1 .. Len(log)
      /\ 3 * c + 1 <= Len(log) <=> 3 * c + 1 \in 1 .. Len(log)
  BY LogIsLog, CaseNumbers
<1>3. ASSUME NEW r
      PROVE  BindsResponse(c, r) <=> 3 * c <= Len(log) /\ log[3 * c].response = r
  BY <1>1, <1>2 DEF BindsResponse
<1>4. ASSUME NEW s
      PROVE  BindsResult(c, s) <=> 3 * c + 1 <= Len(log) /\ log[3 * c + 1].result = s
  BY <1>1, <1>2 DEF BindsResult
<1> QED BY <1>3, <1>4

\* The log verifies unless it is cut short or its times go backwards.
LEMMA VerifiesUnless ==
    ASSUME LedgerTypeOK, LogInv, SoundInv
    PROVE  Verifies(log, torn) <=> ~torn /\ Chronological(log)
<1>0. log[1].at >= AuthorizedAt /\ Total(log) <= TotalCap
  BY SoundFits DEF SoundInv
<1>1. log # << >> /\ log[1].type = "ledger_claimed"
  BY DEF LedgerTypeOK, LogInv
<1>2. ASSUME NEW i \in 2 .. Len(log) PROVE Follows(log, i)
  <2> DEFINE c == (i - 2) \div 3 + 1
  <2>1. c \in Int /\ i \in {3 * c - 1, 3 * c, 3 * c + 1} /\ c >= 1
    BY LogIsLog
  <2>2. c \in Cases
    BY <2>1, LogIsLog, PrefixLength, CasesAssumption DEF Cases
  <2>3. i - 1 \in 0 .. Len(log) /\ i \in 1 .. Len(log)
    BY LogIsLog
  <2> HIDE DEF c
  <2>4. CASE i = 3 * c - 1
    <3>1. log[i].type = "case_reserved" /\ log[i].case = c
      BY <2>2, <2>3, <2>4, PrefixLines
    <3>2. StateAfter(log, i - 1, c) = "available"
      BY <2>2, <2>3, <2>4, PrefixStates, CaseNumbers
    <3> QED BY <2>2, <3>1, <3>2 DEF Follows
  <2>5. CASE i = 3 * c
    <3>1. log[i].type = "provider_response_durable" /\ log[i].case = c
      BY <2>2, <2>3, <2>5, PrefixLines
    <3>2. StateAfter(log, i - 1, c) = "reserved_unknown_spend"
      BY <2>2, <2>3, <2>5, PrefixStates, CaseNumbers
    <3>3. CostOf[log[i].response] <= PerCaseCap
      BY <2>3, <3>1 DEF SoundInv, CostsFit
    <3> QED BY <2>2, <3>1, <3>2, <3>3 DEF Follows
  <2>6. CASE i = 3 * c + 1
    <3>1. log[i].type = "case_completed" /\ log[i].case = c
      BY <2>2, <2>3, <2>6, PrefixLines
    <3>2. StateAfter(log, i - 1, c) = "response_durable"
      BY <2>2, <2>3, <2>6, PrefixStates, CaseNumbers
    <3>3. 3 * c \in 1 .. i - 1 /\ 3 * c \in 1 .. Len(log)
      BY <2>2, <2>3, <2>6, CaseNumbers, LogIsLog
    <3>4. log[3 * c].type = "provider_response_durable" /\ log[3 * c].case = c
      BY <2>2, <3>3, PrefixLines
    <3>5. log[i].response = log[3 * c].response
      BY <2>2, <2>3, <2>6, LogIsLog DEF LogInv
    <3> QED BY <2>2, <3>1, <3>2, <3>3, <3>4, <3>5 DEF Follows
  <2> QED BY <2>1, <2>4, <2>5, <2>6
<1> QED BY <1>0, <1>1, <1>2 DEF Verifies
-----------------------------------------------------------------------------
(* What an append does to the log. *)

\* One more line, after all the lines that were there.
Appends(e) == /\ log' = Append(log, e) /\ e \in Events
              /\ Len(log') = Len(log) + 1 /\ log'[Len(log) + 1] = e
              /\ \A i \in 1 .. Len(log) : log'[i] = log[i]
              /\ ~torn /\ torn' = torn

LEMMA AppendsLine ==
    ASSUME LedgerTypeOK, NEW e \in Events, log' = Append(log, e), ~torn, torn' = torn
    PROVE  Appends(e)
BY LogIsLog DEF Appends

\* The lines of the responses and results the ledger has do not change.
LEMMA LinesStay ==
    ASSUME LedgerTypeOK, LogInv, NEW e, Appends(e), NEW d \in Cases
    PROVE  /\ log'[1].type = "ledger_claimed"
           /\ 3 * d <= Len(log) => /\ log'[3 * d] = log[3 * d]
                                  /\ log'[3 * d].response \in Responses
                                  /\ CostOf[log'[3 * d].response] <= PerCaseCap
           /\ 3 * d + 1 <= Len(log) =>
                  /\ log'[3 * d + 1].result \in Responses
                  /\ log'[3 * d + 1].response = log'[3 * d].response
<1>1. \A i \in 1 .. Len(log) : log'[i] = log[i]
  BY DEF Appends
<1>2. 1 \in 1 .. Len(log) /\ 3 * d \in Int /\ 3 * d >= 1
  BY LogIsLog, CaseNumbers
<1>3. 3 * d <= Len(log) => 3 * d \in 1 .. Len(log)
  BY <1>2
<1>4. 3 * d + 1 <= Len(log) => 3 * d + 1 \in 1 .. Len(log) /\ 3 * d <= Len(log)
  BY <1>2, LogIsLog
<1> QED BY <1>1, <1>2, <1>3, <1>4 DEF LogInv

LEMMA Thirds ==
    ASSUME NEW a \in Int, NEW k \in {0, 1, 2}
    PROVE  (3 * a + k) \div 3 = a /\ (3 * a + k) % 3 = k
<1>1. CASE k = 0
  BY <1>1
<1>2. CASE k = 1
  BY <1>2
<1>3. CASE k = 2
  BY <1>3
<1> QED BY <1>1, <1>2, <1>3

\* The line of the case whose turn it is, in its place.
LEMMA InPlace ==
    ASSUME LedgerTypeOK, LogInv, NEW e, Appends(e), NEW c \in Cases, NEW k \in {0, 1, 2},
           Len(log) = 3 * c - 2 + k, e.case = c,
           k = 0 => e.type = "case_reserved",
           k = 1 => e.type = "provider_response_durable",
           k = 2 => e.type = "case_completed"
    PROVE  PublishablePrefix'
<1> USE LogIsLog, CaseNumbers DEF Appends
<1> SUFFICES ASSUME NEW i \in 2 .. Len(log')
             PROVE  /\ log'[i].case = (i - 2) \div 3 + 1
                    /\ log'[i].type =
                          CASE (i - 2) % 3 = 0 -> "case_reserved"
                            [] (i - 2) % 3 = 1 -> "provider_response_durable"
                            [] (i - 2) % 3 = 2 -> "case_completed"
  BY Zenon DEF PublishablePrefix
<1>1. CASE i \in 2 .. Len(log)
  <2>1. log'[i] = log[i]
    BY <1>1
  <2> QED BY <1>1, <2>1, Zenon DEF LogInv, PublishablePrefix
<1>2. CASE i = Len(log) + 1
  <2>1. i - 2 = 3 * (c - 1) + k /\ c - 1 \in Int /\ (c - 1) + 1 = c
    BY <1>2
  <2>2. (i - 2) \div 3 = c - 1 /\ (i - 2) % 3 = k
    <3>1. (3 * (c - 1) + k) \div 3 = c - 1 /\ (3 * (c - 1) + k) % 3 = k
      BY <2>1, Thirds, Zenon
    <3> QED BY <2>1, <3>1, Zenon
  <2>3. log'[i] = e
    BY <1>2
  <2>4. CASE k = 0
    BY <2>1, <2>2, <2>3, <2>4
  <2>5. CASE k = 1
    BY <2>1, <2>2, <2>3, <2>5
  <2>6. CASE k = 2
    BY <2>1, <2>2, <2>3, <2>6
  <2> QED BY <2>4, <2>5, <2>6
<1>3. i \in 2 .. Len(log) \/ i = Len(log) + 1
  OBVIOUS
<1> QED BY <1>1, <1>2, <1>3, Zenon

LEMMA ReserveAppends ==
    ASSUME LedgerTypeOK, LogInv, NEW c \in Cases, NEW t \in Nat, Reserve(c, t),
           3 * c - 2 <= Len(log)
    PROVE  /\ LogInv' /\ Len(log) = 3 * c - 2
           /\ Appends(Event("case_reserved", c, NoResponse, NoResponse, t))
<1> USE LogIsLog, CaseNumbers
<1> DEFINE e == Event("case_reserved", c, NoResponse, NoResponse, t)
<1>1. e \in Events /\ e.case = c /\ e.type = "case_reserved"
  BY DEF Event, Events, EventTypes
<1>2. log' = Append(log, e) /\ torn' = torn /\ ~torn /\ StateOf(c) = "available"
  BY DEF Reserve, MayReserve, Append1, Verifies
<1> HIDE DEF e
<1>3. Len(log) = 3 * c - 2
  BY <1>2, StatesAre
<1>4. Appends(e)
  BY <1>1, <1>2, AppendsLine
<1>5. PublishablePrefix'
  BY <1>1, <1>3, <1>4, InPlace
<1>6. LogInv'
  <2>1. \A d \in Cases : /\ 3 * d <= Len(log') => 3 * d <= Len(log)
                         /\ 3 * d + 1 <= Len(log') => 3 * d + 1 <= Len(log)
    BY <1>3, <1>4 DEF Appends
  <2> QED BY <1>4, <1>5, <2>1, LinesStay DEF LogInv
<1> QED BY <1>3, <1>4, <1>6 DEF e

LEMMA ResponseAppends ==
    ASSUME LedgerTypeOK, LogInv, NEW c \in Cases, NEW r \in Responses, NEW t \in Nat,
           RecordResponse(c, r, t)
    PROVE  /\ LogInv' /\ Len(log) = 3 * c - 1
           /\ Appends(Event("provider_response_durable", c, r, NoResponse, t))
<1> USE LogIsLog, CaseNumbers
<1> DEFINE e == Event("provider_response_durable", c, r, NoResponse, t)
<1>1. e \in Events /\ e.case = c /\ e.type = "provider_response_durable" /\ e.response = r
  BY DEF Event, Events, EventTypes
<1>2. /\ log' = Append(log, e) /\ torn' = torn /\ ~torn
      /\ StateOf(c) = "reserved_unknown_spend" /\ CostOf[r] <= PerCaseCap
  BY DEF RecordResponse, MayRecordResponse, Append1, Verifies
<1> HIDE DEF e
<1>3. Len(log) = 3 * c - 1
  BY <1>2, StatesAre
<1>4. Appends(e)
  BY <1>1, <1>2, AppendsLine
<1>5. PublishablePrefix'
  BY <1>1, <1>3, <1>4, InPlace
<1>6. LogInv'
  <2>1. log'[1].type = "ledger_claimed"
    BY <1>4 DEF Appends, LogInv
  <2>2. ASSUME NEW d \in Cases, 3 * d <= Len(log')
        PROVE  log'[3 * d].response \in Responses /\ CostOf[log'[3 * d].response] <= PerCaseCap
    <3>1. 3 * d <= Len(log) \/ 3 * d = Len(log) + 1
      BY <1>3, <1>4, <2>2 DEF Appends
    <3>2. log'[Len(log) + 1] = e
      BY <1>4 DEF Appends
    <3> QED BY <1>1, <1>2, <1>4, <3>1, <3>2, LinesStay
  <2>3. ASSUME NEW d \in Cases, 3 * d + 1 <= Len(log')
        PROVE  /\ log'[3 * d + 1].result \in Responses
               /\ log'[3 * d + 1].response = log'[3 * d].response
    <3>1. 3 * d + 1 <= Len(log)
      BY <1>3, <1>4, <2>3 DEF Appends
    <3> QED BY <1>4, <3>1, LinesStay
  <2> QED BY <1>5, <2>1, <2>2, <2>3 DEF LogInv
<1> QED BY <1>3, <1>4, <1>6 DEF e

LEMMA ResultAppends ==
    ASSUME LedgerTypeOK, LogInv, NEW c \in Cases, NEW r \in Responses,
           NEW s \in Responses, NEW t \in Nat, RecordResult(c, r, s, t)
    PROVE  /\ LogInv' /\ Len(log) = 3 * c
           /\ Appends(Event("case_completed", c, r, s, t))
<1> USE LogIsLog, CaseNumbers
<1> DEFINE e == Event("case_completed", c, r, s, t)
<1>1. /\ e \in Events /\ e.case = c /\ e.type = "case_completed"
      /\ e.response = r /\ e.result = s
  BY DEF Event, Events, EventTypes
<1>2. /\ log' = Append(log, e) /\ torn' = torn /\ ~torn
      /\ StateOf(c) = "response_durable" /\ BindsResponse(c, r)
  BY DEF RecordResult, MayRecordResult, Append1, Verifies
<1> HIDE DEF e
<1>3. Len(log) = 3 * c /\ log[3 * c].response = r
  BY <1>2, StatesAre, BindingsAre
<1>4. Appends(e)
  BY <1>1, <1>2, AppendsLine
<1>5. PublishablePrefix'
  BY <1>1, <1>3, <1>4, InPlace
<1>6. LogInv'
  <2>1. log'[1].type = "ledger_claimed"
    BY <1>4 DEF Appends, LogInv
  <2>2. ASSUME NEW d \in Cases, 3 * d <= Len(log')
        PROVE  log'[3 * d].response \in Responses /\ CostOf[log'[3 * d].response] <= PerCaseCap
    <3>1. 3 * d <= Len(log)
      BY <1>3, <1>4, <2>2 DEF Appends
    <3> QED BY <1>4, <3>1, LinesStay
  <2>3. ASSUME NEW d \in Cases, 3 * d + 1 <= Len(log')
        PROVE  /\ log'[3 * d + 1].result \in Responses
               /\ log'[3 * d + 1].response = log'[3 * d].response
    <3>1. 3 * d + 1 <= Len(log) \/ d = c
      BY <1>3, <1>4, <2>3 DEF Appends
    <3>2. log'[3 * c + 1] = e /\ log'[3 * c] = log[3 * c]
      BY <1>3, <1>4, LinesStay DEF Appends
    <3> QED BY <1>1, <1>3, <1>4, <3>1, <3>2, LinesStay
  <2> QED BY <1>5, <2>1, <2>2, <2>3 DEF LogInv
<1> QED BY <1>3, <1>4, <1>6 DEF e
-----------------------------------------------------------------------------
(* What a step of a controller does to what is shared, and to the others. *)

Step(p) == \/ Elsewhere(p) \/ ReserveCase(p) \/ RecordCaseResponse(p)
           \/ RecordCaseResult(p) \/ KilledInAppend(p)

OthersStay(p) ==
    \A q \in Controllers \ {p} :
       /\ pc'[q] = pc[q] /\ case'[q] = case[q] /\ seen'[q] = seen[q] /\ since'[q] = since[q]
       /\ got'[q] = got[q] /\ issued'[q] = issued[q] /\ status'[q] = status[q]
       /\ why'[q] = why[q] /\ temporary'[q] = temporary[q]

LEMMA StepOthers == ASSUME TypeInv, NEW p \in Controllers, Step(p) PROVE OthersStay(p)
<1> USE DEF OthersStay, TypeInv, RunTypes, FileTypes
<1>1. CASE Start(p)
  BY <1>1 DEF Start, Reject, ForgetRun, ForgetCase, Goto, files
<1>2. CASE ReadLedger(p)
  BY <1>2 DEF ReadLedger, Approach, Reject, ForgetRun, ForgetCase, Goto, files
<1>3. CASE CallProvider(p) \/ CreateResponse(p) \/ FillResponse(p) \/ CheckResponse(p)
  BY <1>3 DEF CallProvider, CreateResponse, FillResponse, CheckResponse, Continue, local,
              Reject, ForgetRun, ForgetCase, Goto, files
<1>4. CASE ProviderAnswers(p) \/ RecordHalt(p)
  BY <1>4 DEF ProviderAnswers, RecordHalt, Reject, ForgetRun, ForgetCase, Goto, files
<1>5. CASE LoadResponse(p)
  BY <1>5 DEF LoadResponse, Approach, Reject, ForgetRun, ForgetCase, Goto, files
<1>6. CASE CompareResult(p) \/ FillResult(p)
  BY <1>6 DEF CompareResult, FillResult, Published, Approach, Continue, local, Reject,
              ForgetRun, ForgetCase, Goto, files
<1>7. CASE CreateResult(p) \/ WriteTemporary(p) \/ RecordCaseResponse(p)
  BY <1>7 DEF CreateResult, WriteTemporary, RecordCaseResponse, Continue, local, Reject,
              ForgetRun, ForgetCase, Goto, files
<1>8. CASE ReplaceProgress(p)
  BY <1>8 DEF ReplaceProgress, ForgetCase, Goto, local
<1>9. CASE Crash(p) \/ KilledInAppend(p)
  BY <1>9 DEF Crash, KilledInAppend, Die, ForgetRun, ForgetCase, Goto, files
<1>10. CASE ReserveCase(p)
  BY <1>10 DEF ReserveCase, Reject, ForgetRun, ForgetCase, Goto, files
<1>11. CASE RecordCaseResult(p)
  BY <1>11 DEF RecordCaseResult, Reject, ForgetRun, ForgetCase, Goto, files
<1> QED BY <1>1, <1>2, <1>3, <1>4, <1>5, <1>6, <1>7, <1>8, <1>9, <1>10, <1>11
        DEF Step, Elsewhere

\* The log stays, or it grows by a line while it is not torn.
LogGrows == /\ \/ log' = log
               \/ ~torn /\ \E e : Appends(e)
            /\ torn => torn'

\* A file of a case is created where there was none, or filled by who created it.
FilesGrow(p) ==
    \A c \in Cases :
       /\ \/ response'[c] = response[c]
          \/ c = case[p] /\ (response[c] = NoFile \/ pc[p] = "fill_response")
       /\ \/ result'[c] = result[c]
          \/ c = case[p] /\ (result[c] = NoFile \/ pc[p] = "fill_result")

\* Whoever creates a file finds none.
Creates(p) ==
    /\ pc'[p] = "fill_response" => case'[p] = case[p] /\ response[case[p]] = NoFile
    /\ pc'[p] = "fill_result" => case'[p] = case[p] /\ result[case[p]] = NoFile

LEMMA LogKeeps ==
    ASSUME LedgerTypeOK, LogGrows
    PROVE  /\ Len(log) \in Nat /\ Len(log') \in Nat /\ Len(log) <= Len(log')
           /\ \A i \in 1 .. Len(log) : log'[i] = log[i]
           /\ torn => log' = log /\ torn'
BY LogIsLog DEF LogGrows, Appends

LEMMA OthersKeep ==
    ASSUME InOrderInv, NEW p \in Controllers, NEW q \in Controllers \ {p},
           OthersStay(p), LogGrows, FilesGrow(p)
    PROVE  RunInv(q)' /\ IssuedInv(q)'
<1> USE DEF InOrderInv
<1>1. /\ pc'[q] = pc[q] /\ case'[q] = case[q] /\ seen'[q] = seen[q] /\ got'[q] = got[q]
      /\ issued'[q] = issued[q] /\ status'[q] = status[q]
  BY DEF OthersStay
<1>2. LedgerTypeOK /\ RunInv(q) /\ IssuedInv(q)
  BY DEF TypeInv
<1>3. /\ Len(log) \in Nat /\ Len(log') \in Nat /\ Len(log) <= Len(log')
      /\ \A i \in 1 .. Len(log) : log'[i] = log[i]
      /\ torn => log' = log /\ torn'
  BY <1>2, LogKeeps
<1>4. case[q] \in Cases /\ case[q] \in Int
  BY CaseNumbers DEF TypeInv, RunTypes
<1>5. /\ pc[q] = "fill_response" => response'[case[q]] = Torn
      /\ pc[q] \in Answered /\ got[q] # Halt => response'[case[q]] = got[q]
  <2>1. CASE response'[case[q]] = response[case[q]]
    BY <1>2, <2>1 DEF RunInv
  <2>2. CASE response'[case[q]] # response[case[q]]
    <3>1. case[q] = case[p] /\ (response[case[q]] = NoFile \/ pc[p] = "fill_response")
      BY <1>4, <2>2 DEF FilesGrow
    <3>2. CASE response[case[q]] = NoFile
      <4>1. pc[q] \in Answered => got[q] \in Responses \cup {Halt}
        BY DEF TypeInv, Holding, Answered, Recorded, HoldsResponse, HoldsOutcome
      <4> QED BY <1>2, <3>2, <4>1, ControllerAssumption DEF RunInv
    <3>3. CASE pc[p] = "fill_response"
      <4>1. pc[q] # "fill_response"
        BY <3>1, <3>3 DEF OneFiller
      <4>2. response[case[q]] = Torn
        BY <3>1, <3>3 DEF RunInv
      <4>3. pc[q] \in Answered => got[q] \in Responses \cup {Halt}
        BY DEF TypeInv, Holding, Answered, Recorded, HoldsResponse, HoldsOutcome
      <4> QED BY <1>2, <4>1, <4>2, <4>3, ControllerAssumption DEF RunInv
    <3> QED BY <3>1, <3>2, <3>3
  <2> QED BY <2>1, <2>2
<1>6. /\ pc[q] = "fill_result" => result'[case[q]] = Torn
      /\ pc[q] = "complete" => result'[case[q]] = got[q]
  <2>1. CASE result'[case[q]] = result[case[q]]
    BY <1>2, <2>1 DEF RunInv
  <2>2. CASE result'[case[q]] # result[case[q]]
    <3>1. case[q] = case[p] /\ (result[case[q]] = NoFile \/ pc[p] = "fill_result")
      BY <1>4, <2>2 DEF FilesGrow
    <3>2. pc[q] = "complete" => got[q] \in Responses
      BY DEF TypeInv, Holding, HoldsResponse
    <3>3. CASE result[case[q]] = NoFile
      BY <1>2, <3>2, <3>3, ControllerAssumption DEF RunInv
    <3>4. CASE pc[p] = "fill_result"
      <4>1. pc[q] # "fill_result"
        BY <3>1, <3>4 DEF OneFiller
      <4>2. result[case[q]] = Torn
        BY <3>1, <3>4 DEF RunInv
      <4> QED BY <1>2, <3>2, <4>1, <4>2, ControllerAssumption DEF RunInv
    <3> QED BY <3>1, <3>3, <3>4
  <2> QED BY <2>1, <2>2
<1>7. RunInv(q)'
  BY <1>1, <1>2, <1>3, <1>4, <1>5, <1>6 DEF RunInv, Unanswered
<1>8. IssuedInv(q)'
  <2>1. ASSUME NEW i \in 1 .. Len(issued[q]), 3 * i + 1 <= Len(log)
        PROVE  3 * i + 1 <= Len(log') /\ log'[3 * i + 1] = log[3 * i + 1]
    <3>1. issued[q] \in Seq(Responses \cup {Halt})
      BY DEF TypeInv, RunTypes
    <3>2. i \in Nat
      BY <3>1
    <3> QED BY <1>3, <2>1, <3>2
  <2> QED BY <1>1, <1>2, <2>1 DEF IssuedInv
<1> QED BY <1>7, <1>8

LEMMA OneFillerKeeps ==
    ASSUME InOrderInv, NEW p \in Controllers, OthersStay(p), Creates(p)
    PROVE  OneFiller'
<1> USE DEF InOrderInv
<1>1. ASSUME NEW q \in Controllers \ {p}, case'[p] = case'[q], pc'[p] = pc'[q],
             pc'[p] \in {"fill_response", "fill_result"}
      PROVE  FALSE
  <2>1. pc[q] = pc'[p] /\ case[q] = case[p] /\ RunInv(q)
    BY <1>1 DEF OthersStay, Creates
  <2> QED BY <1>1, <2>1, ControllerAssumption DEF Creates, RunInv
<1>2. ASSUME NEW q \in Controllers \ {p}, NEW x \in Controllers \ {p},
             case'[x] = case'[q], pc'[x] = pc'[q],
             pc'[x] \in {"fill_response", "fill_result"}
      PROVE  x = q
  BY <1>2 DEF OthersStay, OneFiller
<1> QED BY <1>1, <1>2 DEF OneFiller

\* What is left to show of a step: the controller's own invariant, and the log and the
\* files it touched.
LEMMA InOrderKeeps ==
    ASSUME InOrderInv, TypeInv', NEW p \in Controllers, Step(p), LogGrows, FilesGrow(p),
           Creates(p), LogInv', FilesInv', RunInv(p)', IssuedInv(p)'
    PROVE  InOrderInv'
<1>1. OthersStay(p)
  BY StepOthers DEF InOrderInv
<1>2. \A q \in Controllers \ {p} : RunInv(q)' /\ IssuedInv(q)'
  BY <1>1, OthersKeep
<1>3. OneFiller'
  BY <1>1, OneFillerKeeps
<1> QED BY <1>2, <1>3 DEF InOrderInv

\* The same of a step that leaves the log and the two files of every case alone.
LEMMA LocalKeeps ==
    ASSUME InOrderInv, TypeInv', NEW p \in Controllers, Step(p),
           UNCHANGED <<log, response, result>>, torn => torn',
           pc'[p] \notin {"fill_response", "fill_result"}, RunInv(p)', IssuedInv(p)'
    PROVE  InOrderInv'
<1>1. LogGrows /\ FilesGrow(p) /\ Creates(p)
  BY DEF LogGrows, FilesGrow, Creates
<1>2. LogInv'
  BY DEF InOrderInv, LogInv, PublishablePrefix
<1>3. FilesInv'
  BY DEF InOrderInv, FilesInv
<1> QED BY <1>1, <1>2, <1>3, InOrderKeeps
-----------------------------------------------------------------------------
(* The order is kept, action by action. *)

\* A run that ends keeps nothing.
LEMMA RunEnds ==
    ASSUME TypeInv, LedgerTypeOK', NEW p \in Controllers,
           Die(p) \/ \E reason : Reject(p, reason)
    PROVE  /\ RunInv(p)' /\ IssuedInv(p)'
           /\ pc'[p] \in {"idle", "rejected"} /\ case'[p] = 1
<1>1. pc'[p] \in {"idle", "rejected"} /\ case'[p] = 1
  BY DEF Reject, Die, Goto, ForgetRun, TypeInv, RunTypes
<1>2. Len(log') \in Nat /\ Len(log') >= 1
  BY DEF LedgerTypeOK
<1> QED BY <1>1, <1>2 DEF RunInv, IssuedInv, Reserved, Unanswered, Answered, Recorded

\* A case a run has no more than begun with: nothing is issued for it yet.
LEMMA IssuedStays ==
    ASSUME InOrderInv, NEW p \in Controllers, LogGrows,
           pc[p] \notin {"idle", "rejected"} \cup Issuing,
           pc'[p] \notin {"idle", "rejected"} \cup Issuing,
           case'[p] = case[p], issued'[p] = issued[p], status'[p] = status[p]
    PROVE  IssuedInv(p)'
<1>1. IssuedInv(p) /\ issued[p] \in Seq(Responses \cup {Halt}) /\ LedgerTypeOK
  BY DEF InOrderInv, TypeInv, RunTypes
<1>2. /\ Len(log) \in Nat /\ Len(log') \in Nat /\ Len(log) <= Len(log')
      /\ \A i \in 1 .. Len(log) : log'[i] = log[i]
  BY <1>1, LogKeeps
<1>3. \A i \in 1 .. Len(issued[p]) : i \in Nat
  BY <1>1
<1>4. ASSUME NEW i \in 1 .. Len(issued[p]), 3 * i + 1 <= Len(log)
      PROVE  3 * i + 1 <= Len(log') /\ log'[3 * i + 1] = log[3 * i + 1]
  BY <1>2, <1>3, <1>4
<1> QED BY <1>1, <1>4 DEF IssuedInv, Issuing

\* A case a run is through with: its result, or the halt, is issued.
Issued(p, x) ==
    /\ x \in Responses \cup {Halt} /\ issued'[p] = Append(issued[p], x)
    /\ \/ x = Halt
       \/ 3 * case[p] + 1 <= Len(log') /\ x = log'[3 * case[p] + 1].result

LEMMA Issues ==
    ASSUME InOrderInv, NEW p \in Controllers, LogGrows,
           pc[p] \notin {"idle", "rejected"} \cup Issuing, pc'[p] = "progress",
           case'[p] = case[p], status'[p] = status[p], NEW x, Issued(p, x)
    PROVE  RunInv(p)' /\ IssuedInv(p)'
<1>1. IssuedInv(p) /\ issued[p] \in Seq(Responses \cup {Halt}) /\ LedgerTypeOK
  BY DEF InOrderInv, TypeInv, RunTypes
<1>2. /\ Len(log) \in Nat /\ Len(log') \in Nat /\ Len(log) <= Len(log')
      /\ \A i \in 1 .. Len(log) : log'[i] = log[i]
  BY <1>1, LogKeeps
<1>3. case[p] \in Int /\ case[p] >= 1 /\ 3 * case[p] - 2 <= Len(log)
  BY CaseNumbers DEF InOrderInv, TypeInv, RunTypes, RunInv
<1>4. RunInv(p)'
  BY <1>2, <1>3 DEF RunInv, Reserved, Unanswered, Answered, Recorded
<1>5. Len(issued[p]) = case[p] - 1 /\ status[p] = "generation"
  BY <1>1 DEF IssuedInv
<1>6. /\ Len(issued'[p]) = case[p] /\ issued'[p][case[p]] = x
      /\ \A i \in 1 .. case[p] - 1 : issued'[p][i] = issued[p][i]
  BY <1>1, <1>3, <1>5 DEF Issued
<1>7. ASSUME NEW i \in 1 .. case[p] - 1
      PROVE  3 * i + 1 <= Len(log') /\ issued'[p][i] = log'[3 * i + 1].result
  <2>1. 3 * i + 1 <= Len(log) /\ issued[p][i] = log[3 * i + 1].result
    BY <1>1, <1>3, <1>5 DEF IssuedInv, Issuing
  <2>2. i \in Int /\ 3 * i + 1 \in 1 .. Len(log)
    BY <1>2, <1>3, <2>1
  <2>3. log'[3 * i + 1] = log[3 * i + 1] /\ 3 * i + 1 <= Len(log')
    BY <1>2, <2>1, <2>2
  <2> QED BY <1>6, <2>1, <2>3
<1>8. \A i \in 1 .. case[p] : i \in 1 .. case[p] - 1 \/ i = case[p]
  BY <1>3
<1> QED BY <1>4, <1>5, <1>6, <1>7, <1>8 DEF IssuedInv, Issuing, Issued

LEMMA StartInOrder ==
    ASSUME InOrderInv, TypeInv', NEW p \in Controllers, Start(p) PROVE InOrderInv'
<1>1. UNCHANGED <<log, response, result, torn>> /\ Step(p)
  BY DEF Start, Step, Elsewhere, ledgerVars, files
<1>2. LedgerTypeOK' /\ TypeInv
  BY DEF TypeInv, InOrderInv
<1>3. CASE \E reason : Reject(p, reason)
  BY <1>1, <1>2, <1>3, RunEnds, LocalKeeps
<1>4. CASE Goto(p, "read") /\ ForgetRun(p)
  <2>1. /\ pc'[p] = "read" /\ case'[p] = 1 /\ issued'[p] = << >>
        /\ status'[p] = "generation"
    BY <1>2, <1>4 DEF Goto, ForgetRun, TypeInv, RunTypes
  <2>2. Len(log') \in Nat /\ Len(log') >= 1
    BY <1>2 DEF LedgerTypeOK
  <2>3. RunInv(p)'
    BY <2>1, <2>2 DEF RunInv, Reserved, Unanswered, Answered, Recorded
  <2>4. IssuedInv(p)'
    BY <2>1, <2>2 DEF IssuedInv, Issuing
  <2> QED BY <1>1, <2>1, <2>3, <2>4, LocalKeeps
<1> QED BY <1>3, <1>4 DEF Start

LEMMA ReadLedgerInOrder ==
    ASSUME InOrderInv, TypeInv', NEW p \in Controllers, ReadLedger(p) PROVE InOrderInv'
<1> DEFINE c == case[p]
<1>1. /\ UNCHANGED <<log, response, result, torn>> /\ Step(p) /\ LogGrows
      /\ pc[p] = "read"
  BY DEF ReadLedger, Step, Elsewhere, ledgerVars, files, LogGrows
<1>2. /\ LedgerTypeOK' /\ TypeInv /\ LedgerTypeOK /\ LogInv /\ c \in Cases
      /\ RunInv(p)
  BY DEF TypeInv, InOrderInv, RunTypes
<1>3. CASE \E reason : Reject(p, reason)
  BY <1>1, <1>2, <1>3, RunEnds, LocalKeeps
<1>4. CASE /\ BindsResult(c, result[c]) /\ Goto(p, "progress")
           /\ issued' = [issued EXCEPT ![p] = Append(@, result[c])]
           /\ UNCHANGED <<case, seen, since, got, status, why, holder>>
  <2>1. /\ 3 * c + 1 <= Len(log') /\ result[c] = log'[3 * c + 1].result
        /\ result[c] \in Responses
    BY <1>1, <1>2, <1>4, BindingsAre DEF LogInv
  <2>2. /\ pc'[p] = "progress" /\ issued'[p] = Append(issued[p], result[c])
        /\ case'[p] = c /\ status'[p] = status[p]
    BY <1>2, <1>4 DEF Goto, TypeInv, RunTypes
  <2>3. Issued(p, result[c])
    BY <2>1, <2>2 DEF Issued
  <2>4. RunInv(p)' /\ IssuedInv(p)'
    BY <1>1, <2>2, <2>3, Issues DEF Issuing
  <2> QED BY <1>1, <2>2, <2>4, LocalKeeps
<1>5. CASE /\ StateOf(c) # "completed"
           /\ seen' = [seen EXCEPT ![p] = StateOf(c)]
           /\ Approach(p, CASE StateOf(c) = "available" -> "reserve"
                            [] StateOf(c) = "reserved_unknown_spend" -> "check"
                            [] StateOf(c) = "response_durable" -> "load")
           /\ UNCHANGED <<case, got, issued, status, why, holder>>
  <2>1. /\ \/ StateOf(c) = "available" /\ pc'[p] = "reserve"
           \/ StateOf(c) = "reserved_unknown_spend" /\ pc'[p] = "check"
           \/ StateOf(c) = "response_durable" /\ pc'[p] = "load"
        /\ seen'[p] = StateOf(c) /\ case'[p] = c /\ issued'[p] = issued[p]
        /\ status'[p] = status[p]
    BY <1>2, <1>5, StateRange DEF Approach, Goto, TypeInv, RunTypes
  <2>2. Len(log) \in Nat /\ c \in Int
    BY <1>2, LogIsLog, CaseNumbers
  <2>3. RunInv(p)'
    <3>1. 3 * c - 2 <= Len(log)
      BY <1>2 DEF RunInv
    <3>2. CASE StateOf(c) = "available"
      BY <1>1, <2>1, <3>1, <3>2 DEF RunInv, Reserved, Unanswered, Answered, Recorded
    <3>3. CASE StateOf(c) = "reserved_unknown_spend"
      <4>1. 3 * c - 1 <= Len(log)
        BY <1>2, <2>2, <3>3, StatesAre
      <4> QED BY <1>1, <2>1, <3>1, <3>3, <4>1
              DEF RunInv, Reserved, Unanswered, Answered, Recorded
    <3>4. CASE StateOf(c) = "response_durable"
      <4>1. 3 * c - 1 <= Len(log) /\ 3 * c <= Len(log)
        BY <1>2, <2>2, <3>4, StatesAre
      <4> QED BY <1>1, <2>1, <3>1, <3>4, <4>1
              DEF RunInv, Reserved, Unanswered, Answered, Recorded
    <3> QED BY <2>1, <3>2, <3>3, <3>4
  <2>4. IssuedInv(p)'
    BY <1>1, <2>1, IssuedStays DEF Issuing
  <2> QED BY <1>1, <2>1, <2>3, <2>4, LocalKeeps
<1> QED BY <1>3, <1>4, <1>5 DEF ReadLedger

\* The steps that keep the locals but for the label.
LEMMA ContinuesInOrder ==
    ASSUME InOrderInv, TypeInv', NEW p \in Controllers,
           CallProvider(p) \/ CheckResponse(p) \/ ProviderAnswers(p)
    PROVE  InOrderInv'
<1> USE DEF InOrderInv, TypeInv, RunTypes
<1>1. /\ UNCHANGED <<log, response, result, torn>> /\ Step(p) /\ LogGrows
      /\ case'[p] = case[p] /\ issued'[p] = issued[p] /\ status'[p] = status[p]
  BY DEF CallProvider, CheckResponse, ProviderAnswers, Continue, local, Step, Elsewhere,
         ledgerVars, files, LogGrows
<1>2. RunInv(p)
  OBVIOUS
<1>3. CASE CallProvider(p)
  <2>1. pc[p] = "call" /\ pc'[p] = "calling"
    BY <1>3 DEF CallProvider, Continue, Goto
  <2>0. seen'[p] = seen[p]
    BY <1>3 DEF CallProvider, Continue, local
  <2>2. RunInv(p)' /\ IssuedInv(p)'
    BY <1>1, <1>2, <2>0, <2>1, IssuedStays
       DEF RunInv, Reserved, Unanswered, Answered, Recorded, Issuing
  <2> QED BY <1>1, <2>1, <2>2, LocalKeeps
<1>4. CASE CheckResponse(p)
  <2>1. /\ pc[p] = "check" /\ seen'[p] = seen[p]
        /\ \/ pc'[p] = "halt"
           \/ pc'[p] = "load" /\ response[case[p]] # NoFile
    BY <1>4 DEF CheckResponse, Continue, Goto, local
  <2>2. CASE pc'[p] = "halt"
    <3>1. RunInv(p)' /\ IssuedInv(p)'
      BY <1>1, <1>2, <2>1, <2>2, IssuedStays
         DEF RunInv, Reserved, Unanswered, Answered, Recorded, Issuing
    <3> QED BY <1>1, <2>2, <3>1, LocalKeeps
  <2>3. CASE pc'[p] = "load"
    <3>1. RunInv(p)' /\ IssuedInv(p)'
      BY <1>1, <1>2, <2>1, <2>3, IssuedStays
         DEF RunInv, Reserved, Unanswered, Answered, Recorded, Issuing
    <3> QED BY <1>1, <2>3, <3>1, LocalKeeps
  <2> QED BY <2>1, <2>2, <2>3
<1>5. CASE ProviderAnswers(p)
  <2>1. /\ pc[p] = "calling" /\ seen'[p] = seen[p]
        /\ \/ pc'[p] = "halt"
           \/ pc'[p] = "create_response" /\ CostOf[got'[p]] <= PerCaseCap
    BY <1>5 DEF ProviderAnswers, Goto
  <2>2. RunInv(p)'
    BY <1>1, <1>2, <2>1 DEF RunInv, Reserved, Unanswered, Answered, Recorded
  <2>3. IssuedInv(p)'
    BY <1>1, <2>1, IssuedStays DEF Issuing
  <2> QED BY <1>1, <2>1, <2>2, <2>3, LocalKeeps
<1> QED BY <1>3, <1>4, <1>5

LEMMA CreateResponseInOrder ==
    ASSUME InOrderInv, TypeInv', NEW p \in Controllers, CreateResponse(p) PROVE InOrderInv'
<1> DEFINE c == case[p]
<1>1. /\ UNCHANGED <<log, result, torn>> /\ Step(p) /\ LogGrows
      /\ pc[p] = "create_response"
  BY DEF CreateResponse, Step, Elsewhere, ledgerVars, LogGrows
<1>2. TypeInv /\ LedgerTypeOK' /\ c \in Cases /\ RunInv(p) /\ FilesInv
  BY DEF InOrderInv, TypeInv, RunTypes
<1>3. CASE UNCHANGED response /\ \E reason : Reject(p, reason)
  BY <1>1, <1>2, <1>3, RunEnds, LocalKeeps
<1>4. CASE /\ response[c] = NoFile /\ response' = [response EXCEPT ![c] = Torn]
           /\ Continue(p, "fill_response")
  <2>1. /\ pc'[p] = "fill_response" /\ case'[p] = c /\ got'[p] = got[p]
        /\ seen'[p] = seen[p] /\ issued'[p] = issued[p] /\ status'[p] = status[p]
    BY <1>2, <1>4 DEF Continue, Goto, local, TypeInv, RunTypes
  <2>2. response'[c] = Torn /\ \A d \in Cases \ {c} : response'[d] = response[d]
    BY <1>2, <1>4 DEF TypeInv, FileTypes
  <2>3. FilesGrow(p) /\ Creates(p)
    BY <1>1, <1>4, <2>1, <2>2 DEF FilesGrow, Creates
  <2>4. RunInv(p)'
    BY <1>1, <1>2, <2>1, <2>2 DEF RunInv, Reserved, Unanswered, Answered, Recorded
  <2>5. IssuedInv(p)'
    BY <1>1, <2>1, IssuedStays DEF Issuing
  <2>6. LogInv'
    BY <1>1 DEF InOrderInv, LogInv, PublishablePrefix
  <2>7. FilesInv'
    <3>1. torn' \/ 3 * c - 1 <= Len(log')
      BY <1>1, <1>2 DEF RunInv, Reserved, Unanswered
    <3>2. Torn \notin Responses /\ NoFile \notin Responses
      BY ControllerAssumption
    <3>3. 3 * c <= Len(log) => log[3 * c].response \in Responses
      BY <1>2 DEF InOrderInv, LogInv
    <3>4. ~(3 * c <= Len(log)) /\ result[c] \notin Responses
      BY <1>2, <1>4, <3>2, <3>3 DEF FilesInv
    <3> QED BY <1>1, <1>2, <2>2, <3>1, <3>2, <3>4 DEF FilesInv
  <2> QED BY <1>1, <2>3, <2>4, <2>5, <2>6, <2>7, InOrderKeeps
<1> QED BY <1>3, <1>4 DEF CreateResponse

LEMMA FillResponseInOrder ==
    ASSUME InOrderInv, TypeInv', NEW p \in Controllers, FillResponse(p) PROVE InOrderInv'
<1> DEFINE c == case[p]
<1>1. /\ UNCHANGED <<log, result, torn>> /\ Step(p) /\ LogGrows
      /\ pc[p] = "fill_response"
  BY DEF FillResponse, Step, Elsewhere, ledgerVars, LogGrows
<1>2. TypeInv /\ c \in Cases /\ RunInv(p) /\ FilesInv /\ got[p] \in Responses
  BY <1>1 DEF InOrderInv, TypeInv, RunTypes, Holding, HoldsResponse
<1>3. /\ pc'[p] = "load" /\ case'[p] = c /\ got'[p] = got[p]
      /\ seen'[p] = seen[p] /\ issued'[p] = issued[p] /\ status'[p] = status[p]
  BY <1>2 DEF FillResponse, Continue, Goto, local, TypeInv, RunTypes
<1>4. response'[c] = got[p] /\ \A d \in Cases \ {c} : response'[d] = response[d]
  BY <1>2 DEF FillResponse, TypeInv, FileTypes
<1>5. FilesGrow(p) /\ Creates(p)
  BY <1>1, <1>3, <1>4 DEF FilesGrow, Creates
<1>6. RunInv(p)'
  BY <1>1, <1>2, <1>3, <1>4 DEF RunInv, Reserved, Unanswered, Answered, Recorded
<1>7. IssuedInv(p)'
  BY <1>1, <1>3, IssuedStays DEF Issuing
<1>8. LogInv'
  BY <1>1 DEF InOrderInv, LogInv, PublishablePrefix
<1>9. FilesInv'
  <2>1. /\ torn \/ 3 * c - 1 <= Len(log)
        /\ CostOf[got[p]] <= PerCaseCap /\ response[c] = Torn
    BY <1>1, <1>2 DEF RunInv, Reserved, Unanswered
  <2>2. Torn \notin Responses
    BY ControllerAssumption
  <2>3. 3 * c <= Len(log) => log[3 * c].response \in Responses
    BY <1>2 DEF InOrderInv, LogInv
  <2>4. ~(3 * c <= Len(log)) /\ result[c] \notin Responses
    BY <1>2, <2>1, <2>2, <2>3 DEF FilesInv
  <2> QED BY <1>1, <1>2, <1>4, <2>1, <2>4 DEF FilesInv
<1> QED BY <1>1, <1>5, <1>6, <1>7, <1>8, <1>9, InOrderKeeps

LEMMA LoadResponseInOrder ==
    ASSUME InOrderInv, TypeInv', NEW p \in Controllers, LoadResponse(p) PROVE InOrderInv'
<1> DEFINE c == case[p]
<1>1. /\ UNCHANGED <<log, response, result, torn>> /\ Step(p) /\ LogGrows
      /\ pc[p] = "load"
  BY DEF LoadResponse, Step, Elsewhere, ledgerVars, files, LogGrows
<1>2. TypeInv /\ LedgerTypeOK' /\ c \in Cases /\ RunInv(p)
  BY DEF InOrderInv, TypeInv, RunTypes
<1>3. CASE Reject(p, "response")
  BY <1>1, <1>2, <1>3, RunEnds, LocalKeeps
<1>4. CASE /\ response[c] \in Responses /\ got' = [got EXCEPT ![p] = response[c]]
           /\ Approach(p, IF seen[p] = "reserved_unknown_spend" THEN "record"
                                                                ELSE "compare")
           /\ UNCHANGED <<case, seen, issued, status, why, holder>>
  <2>1. /\ pc'[p] \in {"record", "compare"}
        /\ pc'[p] = "compare" => seen[p] # "reserved_unknown_spend"
        /\ case'[p] = c /\ got'[p] = response[c] /\ seen'[p] = seen[p]
        /\ issued'[p] = issued[p] /\ status'[p] = status[p]
    BY <1>2, <1>4 DEF Approach, Goto, TypeInv, RunTypes
  <2>2. RunInv(p)'
    BY <1>1, <1>2, <2>1 DEF RunInv, Reserved, Unanswered, Answered, Recorded
  <2>3. IssuedInv(p)'
    BY <1>1, <2>1, IssuedStays DEF Issuing
  <2> QED BY <1>1, <2>1, <2>2, <2>3, LocalKeeps
<1> QED BY <1>3, <1>4 DEF LoadResponse

\* The case has its result on file.
LEMMA PublishedInOrder ==
    ASSUME InOrderInv, NEW p \in Controllers, LogGrows, UNCHANGED <<log, response>>,
           torn' = torn, pc[p] \in {"compare", "fill_result"}, Published(p),
           result'[case[p]] = got[p]
    PROVE  /\ RunInv(p)' /\ IssuedInv(p)'
           /\ pc'[p] \in {"progress", "complete"} /\ case'[p] = case[p]
<1>1. TypeInv /\ RunInv(p)
  BY DEF InOrderInv
<1>2. CASE got[p] = Halt
  <2>1. /\ pc'[p] = "progress" /\ case'[p] = case[p] /\ status'[p] = status[p]
        /\ issued'[p] = Append(issued[p], Halt)
    BY <1>1, <1>2 DEF Published, Goto, TypeInv, RunTypes
  <2>2. pc[p] \notin {"idle", "rejected"} \cup Issuing
    BY DEF Issuing
  <2>3. Issued(p, Halt)
    BY <2>1 DEF Issued
  <2>4. RunInv(p)' /\ IssuedInv(p)'
    BY <2>1, <2>2, <2>3, Issues
  <2> QED BY <2>1, <2>4
<1>3. CASE got[p] # Halt
  <2>1. /\ pc'[p] = "complete" /\ case'[p] = case[p] /\ status'[p] = status[p]
        /\ issued'[p] = issued[p] /\ got'[p] = got[p]
    BY <1>1, <1>3 DEF Published, Approach, Goto, TypeInv, RunTypes
  <2>2. RunInv(p)'
    BY <1>1, <1>3, <2>1 DEF RunInv, Reserved, Unanswered, Answered, Recorded
  <2>3. IssuedInv(p)'
    BY <2>1, IssuedStays DEF Issuing
  <2> QED BY <2>1, <2>2, <2>3
<1> QED BY <1>2, <1>3

LEMMA CompareResultInOrder ==
    ASSUME InOrderInv, TypeInv', NEW p \in Controllers, CompareResult(p) PROVE InOrderInv'
<1>1. /\ UNCHANGED <<log, response, result, torn>> /\ Step(p) /\ LogGrows
      /\ pc[p] = "compare"
  BY DEF CompareResult, Step, Elsewhere, ledgerVars, files, LogGrows
<1>2. TypeInv /\ LedgerTypeOK' /\ RunInv(p)
  BY DEF InOrderInv, TypeInv
<1>3. CASE Reject(p, "conflict")
  BY <1>1, <1>2, <1>3, RunEnds, LocalKeeps
<1>4. CASE result[case[p]] = got[p] /\ Published(p)
  BY <1>1, <1>4, PublishedInOrder, LocalKeeps
<1>5. CASE Continue(p, "create_result")
  <2>1. /\ pc'[p] = "create_result" /\ case'[p] = case[p] /\ got'[p] = got[p]
        /\ issued'[p] = issued[p] /\ status'[p] = status[p]
    BY <1>2, <1>5 DEF Continue, Goto, local, TypeInv, RunTypes
  <2>2. RunInv(p)'
    BY <1>1, <1>2, <2>1 DEF RunInv, Reserved, Unanswered, Answered, Recorded
  <2>3. IssuedInv(p)'
    BY <1>1, <2>1, IssuedStays DEF Issuing
  <2> QED BY <1>1, <2>1, <2>2, <2>3, LocalKeeps
<1> QED BY <1>3, <1>4, <1>5 DEF CompareResult

LEMMA CreateResultInOrder ==
    ASSUME InOrderInv, TypeInv', NEW p \in Controllers, CreateResult(p) PROVE InOrderInv'
<1> DEFINE c == case[p]
<1>1. /\ UNCHANGED <<log, response, torn>> /\ Step(p) /\ LogGrows
      /\ pc[p] = "create_result"
  BY DEF CreateResult, Step, Elsewhere, ledgerVars, LogGrows
<1>2. TypeInv /\ LedgerTypeOK' /\ c \in Cases /\ RunInv(p) /\ FilesInv
  BY DEF InOrderInv, TypeInv, RunTypes
<1>3. CASE UNCHANGED result /\ \E reason : Reject(p, reason)
  BY <1>1, <1>2, <1>3, RunEnds, LocalKeeps
<1>4. CASE /\ result[c] = NoFile /\ result' = [result EXCEPT ![c] = Torn]
           /\ Continue(p, "fill_result")
  <2>1. /\ pc'[p] = "fill_result" /\ case'[p] = c /\ got'[p] = got[p]
        /\ issued'[p] = issued[p] /\ status'[p] = status[p]
    BY <1>2, <1>4 DEF Continue, Goto, local, TypeInv, RunTypes
  <2>2. result'[c] = Torn /\ \A d \in Cases \ {c} : result'[d] = result[d]
    BY <1>2, <1>4 DEF TypeInv, FileTypes
  <2>3. FilesGrow(p) /\ Creates(p)
    BY <1>1, <1>4, <2>1, <2>2 DEF FilesGrow, Creates
  <2>4. RunInv(p)'
    BY <1>1, <1>2, <2>1, <2>2 DEF RunInv, Reserved, Unanswered, Answered, Recorded
  <2>5. IssuedInv(p)'
    BY <1>1, <2>1, IssuedStays DEF Issuing
  <2>6. LogInv'
    BY <1>1 DEF InOrderInv, LogInv, PublishablePrefix
  <2>7. FilesInv'
    <3>1. torn' \/ 3 * c - 1 <= Len(log')
      BY <1>1, <1>2 DEF RunInv, Reserved, Answered, Recorded
    <3>2. Torn \notin Responses /\ NoFile \notin Responses
      BY ControllerAssumption
    <3>3. 3 * c + 1 <= Len(log) => log[3 * c + 1].result \in Responses
      BY <1>2 DEF InOrderInv, LogInv
    <3>4. ~(3 * c + 1 <= Len(log))
      BY <1>2, <1>4, <3>2, <3>3 DEF FilesInv
    <3> QED BY <1>1, <1>2, <2>2, <3>1, <3>2, <3>4 DEF FilesInv
  <2> QED BY <1>1, <2>3, <2>4, <2>5, <2>6, <2>7, InOrderKeeps
<1> QED BY <1>3, <1>4 DEF CreateResult

LEMMA FillResultInOrder ==
    ASSUME InOrderInv, TypeInv', NEW p \in Controllers, FillResult(p) PROVE InOrderInv'
<1> DEFINE c == case[p]
<1>1. /\ UNCHANGED <<log, response, torn>> /\ Step(p) /\ LogGrows
      /\ pc[p] = "fill_result" /\ Published(p)
  BY DEF FillResult, Step, Elsewhere, ledgerVars, LogGrows
<1>2. /\ TypeInv /\ c \in Cases /\ RunInv(p) /\ FilesInv
      /\ got[p] \in Responses \cup {Halt}
  BY <1>1 DEF InOrderInv, TypeInv, RunTypes, Holding, HoldsOutcome
<1>3. result'[c] = got[p] /\ \A d \in Cases \ {c} : result'[d] = result[d]
  BY <1>2 DEF FillResult, TypeInv, FileTypes
<1>4. /\ RunInv(p)' /\ IssuedInv(p)'
      /\ pc'[p] \in {"progress", "complete"} /\ case'[p] = c
  BY <1>1, <1>3, PublishedInOrder
<1>5. FilesGrow(p) /\ Creates(p)
  BY <1>1, <1>3, <1>4 DEF FilesGrow, Creates
<1>6. LogInv'
  BY <1>1 DEF InOrderInv, LogInv, PublishablePrefix
<1>7. FilesInv'
  <2>1. /\ torn \/ 3 * c - 1 <= Len(log)
        /\ got[p] # Halt => response[c] = got[p]
        /\ result[c] = Torn
    BY <1>1, <1>2 DEF RunInv, Reserved, Answered, Recorded
  <2>2. Torn \notin Responses /\ Halt \notin Responses
    BY ControllerAssumption
  <2>3. 3 * c + 1 <= Len(log) => log[3 * c + 1].result \in Responses
    BY <1>2 DEF InOrderInv, LogInv
  <2>4. ~(3 * c + 1 <= Len(log))
    BY <1>2, <2>1, <2>2, <2>3 DEF FilesInv
  <2> QED BY <1>1, <1>2, <1>3, <2>1, <2>2, <2>4 DEF FilesInv
<1> QED BY <1>1, <1>4, <1>5, <1>6, <1>7, InOrderKeeps

LEMMA RecordHaltInOrder ==
    ASSUME InOrderInv, TypeInv', NEW p \in Controllers, RecordHalt(p) PROVE InOrderInv'
<1>1. /\ UNCHANGED <<log, response, result, torn>> /\ Step(p) /\ LogGrows
      /\ pc[p] = "halt"
  BY DEF RecordHalt, Step, Elsewhere, ledgerVars, files, LogGrows
<1>2. TypeInv /\ LedgerTypeOK' /\ RunInv(p)
  BY DEF InOrderInv, TypeInv
<1>3. CASE \E reason : Reject(p, reason)
  BY <1>1, <1>2, <1>3, RunEnds, LocalKeeps
<1>4. CASE /\ Goto(p, "compare") /\ got' = [got EXCEPT ![p] = Halt]
           /\ UNCHANGED <<case, seen, since, issued, status, why, holder>>
  <2>1. /\ pc'[p] = "compare" /\ case'[p] = case[p] /\ got'[p] = Halt
        /\ issued'[p] = issued[p] /\ status'[p] = status[p]
    BY <1>2, <1>4 DEF Goto, TypeInv, RunTypes
  <2>2. RunInv(p)'
    BY <1>1, <1>2, <2>1 DEF RunInv, Reserved, Unanswered, Answered, Recorded
  <2>3. IssuedInv(p)'
    BY <1>1, <2>1, IssuedStays DEF Issuing
  <2> QED BY <1>1, <2>1, <2>2, <2>3, LocalKeeps
<1> QED BY <1>3, <1>4 DEF RecordHalt

\* The steps of the progress file.
LEMMA WriteTemporaryInOrder ==
    ASSUME InOrderInv, TypeInv', NEW p \in Controllers, WriteTemporary(p) PROVE InOrderInv'
<1>1. /\ UNCHANGED <<log, response, result, torn>> /\ Step(p)
      /\ pc[p] = "progress"
  BY DEF WriteTemporary, Step, Elsewhere, ledgerVars
<1>2. TypeInv /\ LedgerTypeOK' /\ RunInv(p) /\ IssuedInv(p)
  BY DEF InOrderInv, TypeInv
<1>3. CASE \E reason : Reject(p, reason)
  BY <1>1, <1>2, <1>3, RunEnds, LocalKeeps
<1>4. CASE Continue(p, "replace")
  <2>1. /\ pc'[p] = "replace" /\ case'[p] = case[p]
        /\ issued'[p] = issued[p] /\ status'[p] = status[p]
    BY <1>2, <1>4 DEF Continue, Goto, local, TypeInv, RunTypes
  <2>2. RunInv(p)'
    BY <1>1, <1>2, <2>1 DEF RunInv, Reserved, Unanswered, Answered, Recorded
  <2>3. IssuedInv(p)'
    BY <1>1, <1>2, <2>1 DEF IssuedInv, Issuing
  <2> QED BY <1>1, <2>1, <2>2, <2>3, LocalKeeps
<1> QED BY <1>3, <1>4 DEF WriteTemporary

LEMMA ReplaceProgressInOrder ==
    ASSUME InOrderInv, TypeInv', NEW p \in Controllers, ReplaceProgress(p) PROVE InOrderInv'
<1> DEFINE c == case[p]
<1>1. /\ UNCHANGED <<log, response, result, torn>> /\ Step(p)
      /\ pc[p] = "replace"
  BY DEF ReplaceProgress, Step, Elsewhere, ledgerVars
<1>2. /\ TypeInv /\ LedgerTypeOK /\ RunInv(p) /\ IssuedInv(p)
      /\ issued[p] \in Seq(Responses \cup {Halt}) /\ c \in Int /\ c >= 1
  BY CaseNumbers DEF InOrderInv, TypeInv, RunTypes
<1>3. /\ Len(issued[p]) = c
      /\ \A i \in 1 .. c : \/ issued[p][i] = Halt /\ i = c
                           \/ 3 * i + 1 <= Len(log) /\ issued[p][i] = log[3 * i + 1].result
  BY <1>1, <1>2 DEF IssuedInv, Issuing
<1>4. \A i \in 1 .. c : issued[p][i] = Halt => Halted(p)
  BY <1>2, <1>3 DEF Halted, Range
<1>5. CASE /\ Halted(p) \/ c = NumCases
           /\ status' = [status EXCEPT ![p] = IF Halted(p) THEN "unknown_spend_halt"
                                              ELSE "generation_complete"]
           /\ Goto(p, "progress")
           /\ UNCHANGED <<case, seen, since, got, issued, why, holder>>
  <2>1. /\ pc'[p] = "progress" /\ case'[p] = c /\ issued'[p] = issued[p]
        /\ status'[p] = "generation_complete" => c = NumCases /\ Halt \notin Range(issued[p])
    BY <1>2, <1>5 DEF Goto, Halted, TypeInv, RunTypes
  <2>2. RunInv(p)'
    BY <1>1, <1>2, <2>1 DEF RunInv, Reserved, Unanswered, Answered, Recorded
  <2>3. IssuedInv(p)'
    BY <1>1, <1>3, <2>1 DEF IssuedInv, Issuing
  <2> QED BY <1>1, <2>1, <2>2, <2>3, LocalKeeps
<1>6. CASE /\ status[p] = "generation" /\ ~Halted(p) /\ c < NumCases
           /\ case' = [case EXCEPT ![p] = @ + 1] /\ ForgetCase(p) /\ Goto(p, "read")
           /\ UNCHANGED <<issued, status, why, holder>>
  <2>1. /\ pc'[p] = "read" /\ case'[p] = c + 1 /\ issued'[p] = issued[p]
        /\ status'[p] = "generation"
    BY <1>2, <1>6 DEF Goto, TypeInv, RunTypes
  <2>2. \A i \in 1 .. c : 3 * i + 1 <= Len(log) /\ issued[p][i] = log[3 * i + 1].result
    BY <1>3, <1>4, <1>6
  <2>3. c \in 1 .. c /\ 3 * (c + 1) - 2 = 3 * c + 1 /\ c + 1 - 1 = c
    BY <1>2
  <2>4. RunInv(p)'
    BY <1>1, <2>1, <2>2, <2>3 DEF RunInv, Reserved, Unanswered, Answered, Recorded
  <2>5. /\ Len(issued'[p]) = case'[p] - 1
        /\ \A i \in 1 .. Len(issued'[p]) :
              3 * i + 1 <= Len(log') /\ issued'[p][i] = log'[3 * i + 1].result
    <3>1. Len(issued'[p]) = c /\ case'[p] - 1 = c /\ log' = log
      BY <1>1, <1>2, <1>3, <2>1, <2>3 DEF ledgerVars
    <3>2. \A i \in 1 .. c : 3 * i + 1 <= Len(log') /\ issued'[p][i] = log'[3 * i + 1].result
      BY <2>1, <2>2, <3>1
    <3> QED BY <3>1, <3>2
  <2>6. IssuedInv(p)'
    BY <2>1, <2>5 DEF IssuedInv, Issuing
  <2> QED BY <1>1, <2>1, <2>4, <2>6, LocalKeeps
<1>7. CASE status[p] # "generation" /\ Goto(p, "done") /\ UNCHANGED local
  <2>1. /\ pc'[p] = "done" /\ case'[p] = c
        /\ issued'[p] = issued[p] /\ status'[p] = status[p]
    BY <1>2, <1>7 DEF Goto, local, TypeInv, RunTypes
  <2>2. RunInv(p)'
    BY <1>1, <1>2, <2>1 DEF RunInv, Reserved, Unanswered, Answered, Recorded
  <2>3. IssuedInv(p)'
    BY <1>1, <1>2, <1>7, <2>1 DEF IssuedInv, Issuing
  <2> QED BY <1>1, <2>1, <2>2, <2>3, LocalKeeps
<1> QED BY <1>5, <1>6, <1>7 DEF ReplaceProgress

LEMMA DiesInOrder ==
    ASSUME InOrderInv, TypeInv', NEW p \in Controllers, Crash(p) \/ KilledInAppend(p)
    PROVE  InOrderInv'
<1>1. /\ UNCHANGED <<log, response, result>> /\ (torn => torn') /\ Step(p) /\ Die(p)
  BY DEF Crash, KilledInAppend, Die, Step, Elsewhere, ledgerVars, files
<1>2. TypeInv /\ LedgerTypeOK'
  BY DEF InOrderInv, TypeInv
<1> QED BY <1>1, <1>2, RunEnds, LocalKeeps

\* The appends.  A case that is at or after the controller's own has its lines after
\* the end of the log.
LEMMA FilesOfAppend ==
    ASSUME InOrderInv, NEW e, Appends(e), UNCHANGED <<response, result>>,
           NEW c \in Cases, NEW k \in {0, 1, 2}, Len(log) = 3 * c - 2 + k,
           k = 1 => response[c] = e.response,
           k = 2 => result[c] = e.result
    PROVE  FilesInv'
<1> USE CaseNumbers, LogIsLog
<1>1. FilesInv /\ LedgerTypeOK
  BY DEF InOrderInv, TypeInv
<1>2. /\ Len(log) \in Nat /\ Len(log') = Len(log) + 1 /\ log'[Len(log) + 1] = e
      /\ \A i \in 1 .. Len(log) : log'[i] = log[i] /\ torn' = torn
  BY <1>1 DEF Appends
<1>3. ASSUME NEW d \in Cases, 3 * d <= Len(log') PROVE response[d] = log'[3 * d].response
  <2>1. CASE 3 * d <= Len(log)
    BY <1>1, <1>2, <2>1 DEF FilesInv
  <2>2. CASE 3 * d = Len(log) + 1
    <3>1. k = 1 /\ d = c
      BY <2>2
    <3> QED BY <1>2, <2>2, <3>1
  <2> QED BY <1>2, <1>3, <2>1, <2>2
<1>4. ASSUME NEW d \in Cases, 3 * d + 1 <= Len(log')
      PROVE  result[d] = log'[3 * d + 1].result
  <2>1. CASE 3 * d + 1 <= Len(log)
    BY <1>1, <1>2, <2>1 DEF FilesInv
  <2>2. CASE 3 * d + 1 = Len(log) + 1
    <3>1. k = 2 /\ d = c
      BY <2>2
    <3> QED BY <1>2, <2>2, <3>1
  <2> QED BY <1>2, <1>4, <2>1, <2>2
<1>5. \A d \in Cases : 3 * d - 1 <= Len(log) => 3 * d - 1 <= Len(log')
  BY <1>2
<1>6. torn' = torn
  BY DEF Appends
<1> QED BY <1>1, <1>3, <1>4, <1>5, <1>6 DEF FilesInv

LEMMA ReserveCaseInOrder ==
    ASSUME InOrderInv, TypeInv', NEW p \in Controllers, ReserveCase(p) PROVE InOrderInv'
<1> DEFINE c == case[p]
<1>1. UNCHANGED <<response, result>> /\ Step(p) /\ pc[p] = "reserve"
  BY DEF ReserveCase, Step, files
<1>2. /\ TypeInv /\ LedgerTypeOK /\ LedgerTypeOK' /\ LogInv /\ c \in Cases /\ RunInv(p)
      /\ c \in Int
  BY CaseNumbers DEF InOrderInv, TypeInv, RunTypes
<1>3. CASE UNCHANGED ledgerVars /\ \E reason : Reject(p, reason)
  BY <1>1, <1>2, <1>3, RunEnds, LocalKeeps DEF ledgerVars
<1>4. CASE /\ (\E t \in Stamps(p) : Reserve(c, t)) \/ ShortWrite
           /\ Goto(p, "call")
           /\ seen' = [seen EXCEPT ![p] = "reserved_unknown_spend"]
           /\ UNCHANGED <<case, since, got, issued, status, why, holder>>
  <2>1. /\ pc'[p] = "call" /\ case'[p] = c /\ seen'[p] = "reserved_unknown_spend"
        /\ issued'[p] = issued[p] /\ status'[p] = status[p] /\ Creates(p) /\ FilesGrow(p)
    BY <1>1, <1>2, <1>4 DEF Goto, Creates, FilesGrow, TypeInv, RunTypes
  <2>2. CASE ShortWrite
    <3>1. torn' /\ UNCHANGED log
      BY <2>2 DEF ShortWrite
    <3>2. LogGrows
      BY <3>1 DEF LogGrows
    <3>3. RunInv(p)'
      BY <1>2, <2>1, <3>1 DEF RunInv, Reserved, Unanswered, Answered, Recorded
    <3>4. IssuedInv(p)'
      BY <1>1, <2>1, <3>2, IssuedStays DEF Issuing
    <3> QED BY <1>1, <2>1, <3>1, <3>3, <3>4, LocalKeeps
  <2>3. CASE \E t \in Stamps(p) : Reserve(c, t)
    <3>1. PICK t \in Nat : Reserve(c, t)
      BY <1>2, <2>3, StampsAreTimes
    <3> DEFINE e == Event("case_reserved", c, NoResponse, NoResponse, t)
    <3>2. LogInv' /\ Len(log) = 3 * c - 2 /\ Appends(e)
      BY <1>2, <3>1, ReserveAppends DEF RunInv
    <3> HIDE DEF e
    <3>3. LogGrows
      BY <3>2 DEF LogGrows, Appends
    <3>4. FilesInv'
      <4>1. Len(log) = 3 * c - 2 + 0
        BY <1>2, <3>2
      <4> QED BY <1>1, <1>2, <3>2, <4>1, FilesOfAppend
    <3>5. RunInv(p)'
      BY <1>2, <2>1, <3>2 DEF Appends, RunInv, Reserved, Unanswered, Answered, Recorded
    <3>6. IssuedInv(p)'
      BY <1>1, <2>1, <3>3, IssuedStays DEF Issuing
    <3> QED BY <1>1, <2>1, <3>2, <3>3, <3>4, <3>5, <3>6, InOrderKeeps
  <2> QED BY <1>4, <2>2, <2>3
<1> QED BY <1>3, <1>4 DEF ReserveCase

LEMMA RecordResponseInOrder ==
    ASSUME InOrderInv, TypeInv', NEW p \in Controllers, RecordCaseResponse(p)
    PROVE  InOrderInv'
<1> DEFINE c == case[p]
           r == got[p]
<1>1. UNCHANGED <<response, result>> /\ Step(p) /\ pc[p] = "record"
  BY DEF RecordCaseResponse, Step, files
<1>2. /\ TypeInv /\ LedgerTypeOK /\ LedgerTypeOK' /\ LogInv /\ c \in Cases /\ RunInv(p)
      /\ c \in Int /\ r \in Responses
  BY <1>1, CaseNumbers DEF InOrderInv, TypeInv, RunTypes, Holding, HoldsResponse
<1>3. response[c] = r /\ r # Halt
  BY <1>1, <1>2, ControllerAssumption DEF RunInv, Answered
\* What follows an append that is accepted or refused, and a response that is bound.
<1>4. ASSUME LogGrows, LogInv', FilesInv',
             \/ \E reason : Reject(p, reason)
             \/ Continue(p, "compare") /\ 3 * c <= Len(log')
      PROVE  InOrderInv'
  <2>1. CASE \E reason : Reject(p, reason)
    <3>1. /\ RunInv(p)' /\ IssuedInv(p)' /\ pc'[p] \in {"idle", "rejected"}
      BY <1>2, <2>1, RunEnds
    <3>2. FilesGrow(p) /\ Creates(p)
      BY <1>1, <3>1 DEF FilesGrow, Creates
    <3> QED BY <1>1, <1>4, <3>1, <3>2, InOrderKeeps
  <2>2. CASE Continue(p, "compare") /\ 3 * c <= Len(log')
    <3>1. /\ pc'[p] = "compare" /\ case'[p] = c /\ got'[p] = r
          /\ issued'[p] = issued[p] /\ status'[p] = status[p]
      BY <1>2, <2>2 DEF Continue, Goto, local, TypeInv, RunTypes
    <3>2. Len(log) \in Nat /\ Len(log') \in Nat /\ Len(log) <= Len(log')
      BY <1>2, <1>4, LogKeeps
    <3>3. RunInv(p)'
      BY <1>1, <1>2, <1>3, <2>2, <3>1, <3>2
         DEF RunInv, Reserved, Unanswered, Answered, Recorded
    <3>4. IssuedInv(p)'
      BY <1>1, <1>4, <3>1, IssuedStays DEF Issuing
    <3>5. FilesGrow(p) /\ Creates(p)
      BY <1>1, <3>1 DEF FilesGrow, Creates
    <3> QED BY <1>1, <1>4, <3>3, <3>4, <3>5, InOrderKeeps
  <2> QED BY <1>4, <2>1, <2>2
<1>5. ASSUME UNCHANGED log, torn => torn' PROVE LogGrows /\ LogInv' /\ FilesInv'
  BY <1>1, <1>5 DEF LogGrows, InOrderInv, LogInv, PublishablePrefix, FilesInv
<1>6. CASE SameResponse(c, r) /\ Continue(p, "compare") /\ UNCHANGED ledgerVars
  <2>1. 3 * c <= Len(log')
    BY <1>2, <1>6, BindingsAre DEF SameResponse, ledgerVars
  <2> QED BY <1>4, <1>5, <1>6, <2>1 DEF ledgerVars
<1>7. CASE UNCHANGED ledgerVars /\ \E reason : Reject(p, reason)
  BY <1>4, <1>5, <1>7 DEF ledgerVars
<1>8. CASE /\ ShortWrite
           /\ IF Verifies(log', torn') THEN Continue(p, "compare") ELSE Reject(p, "ledger")
  BY <1>4, <1>5, <1>8 DEF ShortWrite, Verifies
<1>9. CASE /\ \E t \in Stamps(p) : RecordResponse(c, r, t)
           /\ IF Verifies(log', torn') THEN Continue(p, "compare") ELSE Reject(p, "ledger")
  <2>1. PICK t \in Nat : RecordResponse(c, r, t)
    BY <1>2, <1>9, StampsAreTimes
  <2> DEFINE e == Event("provider_response_durable", c, r, NoResponse, t)
  <2>2. LogInv' /\ Len(log) = 3 * c - 1 /\ Appends(e)
    BY <1>2, <2>1, ResponseAppends
  <2>3. e.response = r
    BY DEF Event
  <2> HIDE DEF e
  <2>4. LogGrows /\ 3 * c <= Len(log')
    BY <1>2, <2>2 DEF LogGrows, Appends
  <2>5. FilesInv'
    <3>1. Len(log) = 3 * c - 2 + 1
      BY <1>2, <2>2
    <3> QED BY <1>1, <1>2, <1>3, <2>2, <2>3, <3>1, FilesOfAppend
  <2> QED BY <1>4, <1>9, <2>2, <2>4, <2>5
<1> QED BY <1>6, <1>7, <1>8, <1>9 DEF RecordCaseResponse

LEMMA RecordResultInOrder ==
    ASSUME InOrderInv, TypeInv', NEW p \in Controllers, RecordCaseResult(p)
    PROVE  InOrderInv'
<1> DEFINE c == case[p]
           r == got[p]
           Issue == /\ Goto(p, "progress")
                    /\ issued' = [issued EXCEPT ![p] = Append(@, r)]
                    /\ UNCHANGED <<case, seen, since, got, status, why, holder>>
<1>1. UNCHANGED <<response, result>> /\ Step(p) /\ pc[p] = "complete"
  BY DEF RecordCaseResult, Step, files
<1>2. /\ TypeInv /\ LedgerTypeOK /\ LedgerTypeOK' /\ LogInv /\ c \in Cases /\ RunInv(p)
      /\ c \in Int /\ r \in Responses
  BY <1>1, CaseNumbers DEF InOrderInv, TypeInv, RunTypes, Holding, HoldsResponse
<1>3. result[c] = r
  BY <1>1, <1>2 DEF RunInv
<1>4. ASSUME LogGrows, LogInv', FilesInv',
             \/ \E reason : Reject(p, reason)
             \/ Issue /\ 3 * c + 1 <= Len(log') /\ log'[3 * c + 1].result = r
      PROVE  InOrderInv'
  <2>1. RunInv(p)' /\ IssuedInv(p)' /\ pc'[p] \in {"idle", "rejected", "progress"}
    <3>1. CASE \E reason : Reject(p, reason)
      BY <1>2, <3>1, RunEnds
    <3>2. CASE Issue /\ 3 * c + 1 <= Len(log') /\ log'[3 * c + 1].result = r
      <4>1. /\ pc'[p] = "progress" /\ case'[p] = c /\ issued'[p] = Append(issued[p], r)
            /\ status'[p] = status[p]
        BY <1>2, <3>2 DEF Goto, TypeInv, RunTypes
      <4>2. pc[p] \notin {"idle", "rejected"} \cup Issuing
        BY <1>1 DEF Issuing
      <4>3. Issued(p, r)
        BY <1>2, <3>2, <4>1 DEF Issued
      <4> QED BY <1>4, <4>1, <4>2, <4>3, Issues
    <3> QED BY <1>4, <3>1, <3>2
  <2>2. FilesGrow(p) /\ Creates(p)
    BY <1>1, <2>1 DEF FilesGrow, Creates
  <2> QED BY <1>1, <1>4, <2>1, <2>2, InOrderKeeps
<1>5. ASSUME UNCHANGED log, torn => torn' PROVE LogGrows /\ LogInv' /\ FilesInv'
  BY <1>1, <1>5 DEF LogGrows, InOrderInv, LogInv, PublishablePrefix, FilesInv
<1>6. CASE SameResult(c, r, r) /\ Issue /\ UNCHANGED ledgerVars
  <2>1. 3 * c + 1 <= Len(log') /\ log'[3 * c + 1].result = r
    BY <1>2, <1>6, BindingsAre DEF SameResult, ledgerVars
  <2> QED BY <1>4, <1>5, <1>6, <2>1 DEF ledgerVars
<1>7. CASE UNCHANGED ledgerVars /\ \E reason : Reject(p, reason)
  BY <1>4, <1>5, <1>7 DEF ledgerVars
<1>8. CASE ShortWrite /\ IF Verifies(log', torn') THEN Issue ELSE Reject(p, "ledger")
  BY <1>4, <1>5, <1>8 DEF ShortWrite, Verifies
<1>9. CASE /\ \E t \in Stamps(p) : RecordResult(c, r, r, t)
           /\ IF Verifies(log', torn') THEN Issue ELSE Reject(p, "ledger")
  <2>1. PICK t \in Nat : RecordResult(c, r, r, t)
    BY <1>2, <1>9, StampsAreTimes
  <2> DEFINE e == Event("case_completed", c, r, r, t)
  <2>2. LogInv' /\ Len(log) = 3 * c /\ Appends(e)
    BY <1>2, <2>1, ResultAppends
  <2>3. e.result = r
    BY DEF Event
  <2> HIDE DEF e
  <2>4. LogGrows /\ 3 * c + 1 <= Len(log') /\ log'[3 * c + 1].result = r
    BY <1>2, <2>2, <2>3 DEF LogGrows, Appends
  <2>5. FilesInv'
    <3>1. Len(log) = 3 * c - 2 + 2
      BY <1>2, <2>2
    <3> QED BY <1>1, <1>2, <1>3, <2>2, <2>3, <3>1, FilesOfAppend
  <2> QED BY <1>4, <1>9, <2>2, <2>4, <2>5
<1> QED BY <1>6, <1>7, <1>8, <1>9 DEF RecordCaseResult

LEMMA InOrderInit == GenInit => InOrderInv
<1> SUFFICES ASSUME GenInit PROVE InOrderInv
  OBVIOUS
<1>1. TypeInv
  BY GenInitType
<1>2. Len(log) = 1 /\ log[1].type = "ledger_claimed"
  BY DEF GenInit, LedgerClaimed, ClaimLine, Event
<1>3. LogInv
  BY <1>2, CaseNumbers DEF LogInv, PublishablePrefix
<1>4. FilesInv
  BY <1>2, CaseNumbers, ControllerAssumption DEF FilesInv, GenInit
<1>5. OneFiller /\ \A p \in Controllers : IssuedInv(p)
  BY DEF GenInit, OneFiller, IssuedInv
<1>6. \A p \in Controllers : RunInv(p)
  BY <1>2 DEF GenInit, RunInv, Reserved, Unanswered, Answered, Recorded
<1> QED BY <1>1, <1>3, <1>4, <1>5, <1>6 DEF InOrderInv

LEMMA InOrderStep == InOrderInv /\ [GenNext]_vars => InOrderInv'
<1> SUFFICES ASSUME InOrderInv, [GenNext]_vars PROVE InOrderInv'
  OBVIOUS
<1>1. TypeInv'
  BY TypeStep DEF InOrderInv
<1>2. CASE Tick \/ UNCHANGED vars
  <2>1. UNCHANGED <<log, torn, response, result, pc, case, seen, got, issued, status>>
    BY <1>2 DEF Tick, vars, ledgerVars, files, local
  <2>2. LogInv' /\ FilesInv' /\ OneFiller'
    BY <2>1 DEF InOrderInv, LogInv, PublishablePrefix, FilesInv, OneFiller
  <2>3. \A p \in Controllers : RunInv(p)' /\ IssuedInv(p)'
    BY <2>1 DEF InOrderInv, RunInv, IssuedInv
  <2> QED BY <1>1, <2>2, <2>3 DEF InOrderInv
<1> QED BY <1>1, <1>2, NextCases, StartInOrder, ReadLedgerInOrder, ContinuesInOrder,
           CreateResponseInOrder, FillResponseInOrder, LoadResponseInOrder,
           CompareResultInOrder, CreateResultInOrder, FillResultInOrder, RecordHaltInOrder,
           WriteTemporaryInOrder, ReplaceProgressInOrder, DiesInOrder, ReserveCaseInOrder,
           RecordResponseInOrder, RecordResultInOrder
        DEF Elsewhere

\* What the ledger binds is on file, whole: over any number of controllers, with or
\* without a common lock, with lines and files cut short (write_v021_private_bytes
\* before record_v021_provider_response and record_v021_case_result).
THEOREM BoundStaysDurable == GenSpec => []BoundIsDurable
<1>1. InOrderInv => BoundIsDurable
  BY BindingsAre DEF InOrderInv, TypeInv, FilesInv, BoundIsDurable
<1> QED BY <1>1, InOrderInit, InOrderStep, PTL DEF GenSpec
-----------------------------------------------------------------------------
(* The times, for a clock that is never set back. *)

\* The next line of the log is the one controller p is about to append.
Waiting(p) == \/ pc[p] = "reserve" /\ Len(log) = 3 * case[p] - 2
              \/ pc[p] = "record" /\ Len(log) = 3 * case[p] - 1
              \/ pc[p] = "complete" /\ Len(log) = 3 * case[p]

\* Whoever may append next read what is the last line before it read the clock.
TimeInv == /\ Chronological(log) /\ log[Len(log)].at <= now
           /\ \A p \in Controllers :
                 since[p] <= now /\ (Waiting(p) => log[Len(log)].at <= since[p])

\* What is appended, and when.
LEMMA StepWrites ==
    ASSUME InOrderInv, NEW p \in Controllers, Step(p)
    PROVE  /\ torn => torn' /\ log' = log
           /\ \/ log' = log
              \/ Waiting(p) /\ \E t \in Stamps(p) : \E e : Appends(e) /\ e.at = t
<1> USE DEF InOrderInv, TypeInv, RunTypes
<1> DEFINE c == case[p]
           r == got[p]
<1>1. c \in Cases /\ Stamps(p) \subseteq Nat /\ RunInv(p)
  BY StampsAreTimes
<1>2. CASE Elsewhere(p)
  BY <1>2, ElsewhereUnchanged DEF ledgerVars
<1>3. CASE UNCHANGED <<log, spent>> /\ torn' = TRUE
  BY <1>3
<1>4. CASE UNCHANGED ledgerVars
  BY <1>4 DEF ledgerVars
<1>5. CASE pc[p] = "reserve" /\ \E t \in Stamps(p) : Reserve(c, t)
  <2>1. PICK t \in Stamps(p) : Reserve(c, t)
    BY <1>5
  <2>2. 3 * c - 2 <= Len(log)
    BY <1>1 DEF RunInv
  <2> DEFINE e == Event("case_reserved", c, NoResponse, NoResponse, t)
  <2>3. Len(log) = 3 * c - 2 /\ Appends(e)
    BY <1>1, <2>1, <2>2, ReserveAppends
  <2>4. e.at = t /\ ~torn
    BY <2>3 DEF Event, Appends
  <2> HIDE DEF e
  <2> QED BY <1>5, <2>3, <2>4 DEF Waiting
<1>6. CASE pc[p] = "record" /\ \E t \in Stamps(p) : RecordResponse(c, r, t)
  <2>1. PICK t \in Stamps(p) : RecordResponse(c, r, t)
    BY <1>6
  <2>2. r \in Responses
    BY <1>6 DEF Holding, HoldsResponse
  <2> DEFINE e == Event("provider_response_durable", c, r, NoResponse, t)
  <2>3. Len(log) = 3 * c - 1 /\ Appends(e)
    BY <1>1, <2>1, <2>2, ResponseAppends
  <2>4. e.at = t /\ ~torn
    BY <2>3 DEF Event, Appends
  <2> HIDE DEF e
  <2> QED BY <1>6, <2>3, <2>4 DEF Waiting
<1>7. CASE pc[p] = "complete" /\ \E t \in Stamps(p) : RecordResult(c, r, r, t)
  <2>1. PICK t \in Stamps(p) : RecordResult(c, r, r, t)
    BY <1>7
  <2>2. r \in Responses
    BY <1>7 DEF Holding, HoldsResponse
  <2> DEFINE e == Event("case_completed", c, r, r, t)
  <2>3. Len(log) = 3 * c /\ Appends(e)
    BY <1>1, <2>1, <2>2, ResultAppends
  <2>4. e.at = t /\ ~torn
    BY <2>3 DEF Event, Appends
  <2> HIDE DEF e
  <2> QED BY <1>7, <2>3, <2>4 DEF Waiting
<1> QED BY <1>2, <1>3, <1>4, <1>5, <1>6, <1>7
        DEF Step, ReserveCase, RecordCaseResponse, RecordCaseResult, KilledInAppend,
            ShortWrite

\* A controller that goes to wait at the ledger takes note of the time.
LEMMA StepTimes ==
    ASSUME TypeInv, NEW p \in Controllers, Step(p)
    PROVE  /\ now' = now
           /\ \/ since'[p] = now /\ log' = log
              \/ /\ since'[p] \in {0, since[p]}
                 /\ pc'[p] \notin {"reserve", "record", "complete"}
<1> USE DEF TypeInv, RunTypes
<1>1. CASE Start(p)
  BY <1>1 DEF Start, Reject, ForgetRun, ForgetCase, Goto
<1>2. CASE ReadLedger(p)
  BY <1>2, StateRange
     DEF ReadLedger, Approach, Reject, ForgetRun, ForgetCase, Goto, ledgerVars
<1>3. CASE CallProvider(p) \/ CreateResponse(p) \/ FillResponse(p) \/ CheckResponse(p)
  BY <1>3 DEF CallProvider, CreateResponse, FillResponse, CheckResponse, Continue, local,
              Reject, ForgetRun, ForgetCase, Goto
<1>4. CASE ProviderAnswers(p) \/ RecordHalt(p)
  BY <1>4 DEF ProviderAnswers, RecordHalt, Reject, ForgetRun, ForgetCase, Goto
<1>5. CASE LoadResponse(p)
  BY <1>5 DEF LoadResponse, Approach, Reject, ForgetRun, ForgetCase, Goto, ledgerVars
<1>6. CASE CompareResult(p) \/ FillResult(p)
  BY <1>6 DEF CompareResult, FillResult, Published, Approach, Continue, local, Reject,
              ForgetRun, ForgetCase, Goto, ledgerVars
<1>7. CASE CreateResult(p) \/ WriteTemporary(p) \/ RecordCaseResponse(p)
  BY <1>7 DEF CreateResult, WriteTemporary, RecordCaseResponse, Continue, local, Reject,
              ForgetRun, ForgetCase, Goto
<1>8. CASE ReplaceProgress(p)
  BY <1>8 DEF ReplaceProgress, ForgetCase, Goto, local
<1>9. CASE Crash(p) \/ KilledInAppend(p)
  BY <1>9 DEF Crash, KilledInAppend, Die, ForgetRun, ForgetCase, Goto
<1>10. CASE ReserveCase(p)
  BY <1>10 DEF ReserveCase, Reject, ForgetRun, ForgetCase, Goto
<1>11. CASE RecordCaseResult(p)
  BY <1>11 DEF RecordCaseResult, Reject, ForgetRun, ForgetCase, Goto
<1> QED BY <1>1, <1>2, <1>3, <1>4, <1>5, <1>6, <1>7, <1>8, <1>9, <1>10, <1>11
        DEF Step, Elsewhere

\* Nobody else comes to be the next one by an append: what the others know of their own
\* case they know of this log.
LEMMA OthersWait ==
    ASSUME InOrderInv, NEW p \in Controllers, NEW q \in Controllers \ {p}, OthersStay(p),
           NEW e, Appends(e)
    PROVE  ~Waiting(q)'
<1> USE DEF InOrderInv, TypeInv, RunTypes
<1>1. /\ RunInv(q) /\ case[q] \in Int /\ Len(log) \in Nat /\ ~torn
      /\ Len(log') = Len(log) + 1 /\ pc'[q] = pc[q] /\ case'[q] = case[q]
  BY LogIsLog, CaseNumbers DEF Appends, OthersStay
<1> QED BY <1>1 DEF Waiting, RunInv, Reserved, Answered, Recorded

LEMMA TimeStep ==
    ASSUME ~ClockStepsBack, InOrderInv, TimeInv, [GenNext]_vars PROVE TimeInv'
<1> USE DEF InOrderInv, TypeInv, FileTypes, RunTypes
<1>1. CASE Tick
  <2>1. now' >= now /\ UNCHANGED <<log, pc, case, since>>
    BY <1>1 DEF Tick, ledgerVars, local
  <2>2. log[Len(log)].at \in Nat /\ now' \in Nat
    BY <1>1, LogIsLog DEF Events, Tick
  <2> QED BY <2>1, <2>2 DEF TimeInv, Waiting
<1>2. CASE UNCHANGED vars
  BY <1>2 DEF vars, local, ledgerVars, TimeInv, Waiting
<1>3. ASSUME NEW p \in Controllers, Step(p) PROVE TimeInv'
  <2>1. OthersStay(p)
    BY <1>3, StepOthers
  <2>2. /\ now' = now
        /\ \/ since'[p] = now /\ log' = log
           \/ since'[p] \in {0, since[p]} /\ pc'[p] \notin {"reserve", "record", "complete"}
    BY <1>3, StepTimes
  <2>3. log[Len(log)].at \in Nat /\ Len(log) \in Nat /\ Len(log) >= 1
    BY LogIsLog DEF Events
  <2>4. since'[p] <= now'
    BY <2>2 DEF TimeInv
  <2>5. CASE log' = log
    <3>1. \A q \in Controllers \ {p} :
             since'[q] = since[q] /\ (Waiting(q)' <=> Waiting(q))
      BY <2>1, <2>5 DEF OthersStay, Waiting
    <3>2. Waiting(p)' => log'[Len(log')].at <= since'[p]
      BY <2>2, <2>5 DEF Waiting, TimeInv
    <3> QED BY <2>2, <2>4, <2>5, <3>1, <3>2 DEF TimeInv
  <2>6. CASE log' # log
    <3>0. PICK t \in Stamps(p) : \E e : Waiting(p) /\ Appends(e) /\ e.at = t
      BY <1>3, <2>6, StepWrites
    <3>1. PICK e : Waiting(p) /\ Appends(e) /\ e.at = t
      BY <3>0
    <3>2. t \in Nat /\ t <= now /\ log[Len(log)].at <= t
      BY <2>3, <3>1, StampsAreTimes DEF Stamps, TimeInv
    <3>3. /\ Len(log') = Len(log) + 1 /\ log'[Len(log')] = e
          /\ \A i \in 1 .. Len(log) : log'[i] = log[i]
      BY <3>1 DEF Appends
    <3>4. Chronological(log')
      <4> SUFFICES ASSUME NEW i \in 1 .. Len(log') - 1 PROVE log'[i].at <= log'[i + 1].at
        BY DEF Chronological
      <4>1. CASE i = Len(log)
        BY <2>3, <3>1, <3>2, <3>3, <4>1
      <4>2. CASE i # Len(log)
        <5>1. i \in 1 .. Len(log) - 1 /\ i + 1 \in 1 .. Len(log) /\ i \in 1 .. Len(log)
          BY <2>3, <3>3, <4>2
        <5> QED BY <3>3, <5>1 DEF TimeInv, Chronological
      <4> QED BY <4>1, <4>2
    <3>5. \A q \in Controllers \ {p} : since'[q] = since[q] /\ ~Waiting(q)'
      BY <2>1, <3>1, OthersWait DEF OthersStay
    <3>6. ~Waiting(p)'
      BY <2>2, <2>6 DEF Waiting
    <3> QED BY <2>2, <2>4, <3>1, <3>2, <3>3, <3>4, <3>5, <3>6 DEF TimeInv
  <2> QED BY <2>5, <2>6
<1> QED BY <1>1, <1>2, <1>3, NextCases DEF Step

LEMMA TimeInit == ASSUME GenInit PROVE TimeInv
<1> USE TimeAssumption
<1>1. PICK t \in AuthorizedAt .. now : LedgerClaimed(t)
  BY DEF GenInit
<1>2. Len(log) = 1 /\ log[1].at = t /\ t <= now /\ now \in Nat
  BY <1>1 DEF LedgerClaimed, ClaimLine, Event, GenInit
<1>3. Chronological(log)
  BY <1>2 DEF Chronological
<1>4. ASSUME NEW p \in Controllers PROVE since[p] <= now /\ ~Waiting(p)
  BY <1>2, <1>4 DEF GenInit, Waiting
<1> QED BY <1>2, <1>3, <1>4 DEF TimeInv

\* With a clock that is not set back, nothing but a cut line makes the ledger unreadable,
\* whatever controllers append to it and with whatever locks: _append compares no
\* timestamp with the last line's, and _now is read before the guard is held.
THEOREM LedgerStaysReadable ==
    ASSUME ~ClockStepsBack PROVE GenSpec => []StaysReadable
<1>1. InOrderInv /\ SoundInv /\ TimeInv => StaysReadable
  BY VerifiesUnless DEF InOrderInv, TypeInv, LogInv, TimeInv, StaysReadable
<1>2. GenInit => InOrderInv /\ SoundInv /\ TimeInv
  BY InOrderInit, GenInitType, TimeInit
<1>3. InOrderInv /\ SoundInv /\ TimeInv /\ [GenNext]_vars
         => (InOrderInv /\ SoundInv /\ TimeInv)'
  BY InOrderStep, TimeStep, GenLedgerStep, SoundStep DEF InOrderInv
<1> QED BY <1>1, <1>2, <1>3, PTL DEF GenSpec
-----------------------------------------------------------------------------
(* The barrier. *)

\* A run that issued its last result without a halt had verified the ledger with it:
\* the clock may be set back afterwards, but not behind the lines that were there.
TimelyInv ==
    \A p \in Controllers :
       pc[p] \in Issuing /\ Halt \notin Range(issued[p]) =>
          \A i \in 1 .. 3 * case[p] : log[i].at <= log[i + 1].at

\* How a run comes to issue.
LEMMA StepIssues ==
    ASSUME InOrderInv, NEW p \in Controllers, Step(p), pc'[p] \in Issuing
    PROVE  \/ /\ pc[p] \in Issuing /\ case'[p] = case[p] /\ issued'[p] = issued[p]
              /\ log' = log
           \/ Chronological(log')
           \/ issued'[p] = Append(issued[p], Halt)
<1> USE DEF InOrderInv, TypeInv, RunTypes, Issuing
<1>1. CASE Start(p)
  BY <1>1 DEF Start, Reject, Goto
<1>2. CASE ReadLedger(p)
  BY <1>2, StateRange DEF ReadLedger, Approach, Reject, Goto, ledgerVars, Readable, Verifies
<1>3. CASE CallProvider(p) \/ CreateResponse(p) \/ FillResponse(p) \/ CheckResponse(p)
  BY <1>3 DEF CallProvider, CreateResponse, FillResponse, CheckResponse, Continue, Reject, Goto
<1>4. CASE ProviderAnswers(p) \/ RecordHalt(p)
  BY <1>4 DEF ProviderAnswers, RecordHalt, Reject, Goto
<1>5. CASE LoadResponse(p)
  BY <1>5 DEF LoadResponse, Approach, Reject, Goto
<1>6. CASE CompareResult(p) \/ FillResult(p)
  BY <1>6 DEF CompareResult, FillResult, Published, Approach, Continue, Reject, Goto
<1>7. CASE CreateResult(p) \/ RecordCaseResponse(p)
  BY <1>7 DEF CreateResult, RecordCaseResponse, Continue, Reject, Goto
<1>8. CASE WriteTemporary(p) \/ ReplaceProgress(p)
  BY <1>8 DEF WriteTemporary, ReplaceProgress, Continue, Reject, Goto, local, ledgerVars
<1>9. CASE Crash(p) \/ KilledInAppend(p)
  BY <1>9 DEF Crash, KilledInAppend, Die, Goto
<1>10. CASE ReserveCase(p)
  BY <1>10 DEF ReserveCase, Reject, Goto
<1>11. CASE RecordCaseResult(p)
  BY <1>11 DEF RecordCaseResult, Reject, Goto, SameResult, Verifies, ledgerVars
<1> QED BY <1>1, <1>2, <1>3, <1>4, <1>5, <1>6, <1>7, <1>8, <1>9, <1>10, <1>11
        DEF Step, Elsewhere

\* A run that issued no halt issued its last case from the ledger.
LEMMA IssuedIsLogged ==
    ASSUME LedgerTypeOK, RunTypes, NEW p \in Controllers, IssuedInv(p), pc[p] \in Issuing,
           Halt \notin Range(issued[p])
    PROVE  /\ 3 * case[p] + 1 <= Len(log) /\ Len(issued[p]) = case[p]
           /\ \A c \in 1 .. case[p] :
                 3 * c + 1 <= Len(log) /\ issued[p][c] = log[3 * c + 1].result
<1>1. /\ Len(issued[p]) = case[p] /\ case[p] \in Nat /\ case[p] >= 1
      /\ issued[p] \in Seq(Responses \cup {Halt})
  BY CaseNumbers DEF IssuedInv, Issuing, RunTypes
<1>2. \A c \in 1 .. case[p] : issued[p][c] # Halt
  BY <1>1 DEF Range
<1>3. \A c \in 1 .. case[p] :
         3 * c + 1 <= Len(log) /\ issued[p][c] = log[3 * c + 1].result
  BY <1>1, <1>2 DEF IssuedInv, Issuing
<1>4. case[p] \in 1 .. case[p]
  BY <1>1
<1> QED BY <1>1, <1>3, <1>4

LEMMA HaltIsInRange ==
    ASSUME NEW s \in Seq(Responses \cup {Halt}) PROVE Halt \in Range(Append(s, Halt))
<1>1. Append(s, Halt)[Len(s) + 1] = Halt /\ Len(s) + 1 \in DOMAIN Append(s, Halt)
  OBVIOUS
<1> QED BY <1>1 DEF Range

LEMMA TimelyStep ==
    ASSUME InOrderInv, InOrderInv', TimelyInv, [GenNext]_vars PROVE TimelyInv'
<1> USE DEF InOrderInv, TypeInv
<1>1. CASE Tick \/ UNCHANGED vars
  BY <1>1 DEF Tick, vars, ledgerVars, local, TimelyInv
<1>2. ASSUME NEW p \in Controllers, Step(p) PROVE TimelyInv'
  <2>1. OthersStay(p) /\ LogGrows
    BY <1>2, StepOthers, StepWrites DEF LogGrows, Appends
  <2>2. /\ Len(log) \in Nat /\ Len(log') \in Nat /\ Len(log) <= Len(log')
        /\ \A i \in 1 .. Len(log) : log'[i] = log[i]
    BY <2>1, LogKeeps
  <2>3. ASSUME NEW q \in Controllers, pc'[q] \in Issuing, Halt \notin Range(issued'[q]),
               pc[q] \in Issuing, case'[q] = case[q], issued'[q] = issued[q],
               NEW i \in 1 .. 3 * case'[q]
        PROVE  log'[i].at <= log'[i + 1].at
    <3>1. 3 * case[q] + 1 <= Len(log) /\ case[q] \in Int
      BY <2>3, IssuedIsLogged, CaseNumbers DEF RunTypes
    <3>2. i \in 1 .. Len(log) /\ i + 1 \in 1 .. Len(log) /\ i \in 1 .. 3 * case[q]
      BY <2>2, <2>3, <3>1
    <3>3. log[i].at <= log[i + 1].at
      BY <2>3, <3>2 DEF TimelyInv
    <3> QED BY <2>2, <3>2, <3>3
  <2>4. ASSUME NEW q \in Controllers, pc'[q] \in Issuing, Halt \notin Range(issued'[q]),
               Chronological(log'), NEW i \in 1 .. 3 * case'[q]
        PROVE  log'[i].at <= log'[i + 1].at
    <3>1. 3 * case'[q] + 1 <= Len(log') /\ case'[q] \in Int
      <4>1. LedgerTypeOK' /\ RunTypes' /\ IssuedInv(q)'
        OBVIOUS
      <4>2. case'[q] \in Cases
        BY <4>1 DEF RunTypes
      <4>3. \A c \in 1 .. Len(issued'[q]) : c \in DOMAIN issued'[q]
        BY <4>1 DEF RunTypes
      <4>4. Len(issued'[q]) = case'[q]
        BY <2>4, <4>1 DEF IssuedInv, Issuing
      <4>5. case'[q] \in 1 .. Len(issued'[q]) /\ issued'[q][case'[q]] # Halt
        BY <2>4, <4>2, <4>3, <4>4, CaseNumbers DEF Range
      <4>6. 3 * case'[q] + 1 <= Len(log')
        BY <2>4, <4>1, <4>5 DEF IssuedInv, Issuing
      <4> QED BY <4>2, <4>6, CaseNumbers
    <3>2. i \in 1 .. Len(log') - 1
      BY <2>2, <3>1
    <3> QED BY <2>4, <3>2 DEF Chronological
  <2>5. ASSUME NEW q \in Controllers, pc'[q] \in Issuing, Halt \notin Range(issued'[q])
        PROVE  \/ pc[q] \in Issuing /\ case'[q] = case[q] /\ issued'[q] = issued[q]
               \/ Chronological(log')
    <3>1. CASE q = p
      <4>1. issued[p] \in Seq(Responses \cup {Halt})
        BY DEF RunTypes
      <4>2. issued'[p] # Append(issued[p], Halt)
        BY <2>5, <3>1, <4>1, HaltIsInRange
      <4> QED BY <1>2, <2>5, <3>1, <4>2, StepIssues
    <3>2. CASE q # p
      BY <2>1, <2>5, <3>2 DEF OthersStay
    <3> QED BY <3>1, <3>2
  <2> QED BY <2>3, <2>4, <2>5 DEF TimelyInv
<1> QED BY <1>1, <1>2, NextCases DEF Step

LEMMA BarrierFollows ==
    ASSUME InOrderInv, TimelyInv, CapInv, Total(log) = spent PROVE BarrierIsBound
<1> USE DEF InOrderInv, TypeInv
<1> SUFFICES ASSUME NEW p \in Controllers, pc[p] = "done",
                    status[p] = "generation_complete"
             PROVE  /\ torn \/ PublicAccepts(log, torn)
                    /\ Len(issued[p]) = NumCases
                    /\ \A c \in Cases : /\ BindsResult(c, issued[p][c])
                                       /\ result[c] = issued[p][c]
  BY DEF BarrierIsBound
<1>1. case[p] = NumCases /\ Halt \notin Range(issued[p]) /\ pc[p] \in Issuing
  BY DEF IssuedInv, Issuing
<1>2. /\ 3 * NumCases + 1 <= Len(log) /\ Len(issued[p]) = NumCases
      /\ \A c \in 1 .. NumCases :
            3 * c + 1 <= Len(log) /\ issued[p][c] = log[3 * c + 1].result
  BY <1>1, IssuedIsLogged
<1>3. Len(log) = 3 * NumCases + 1
  BY <1>2, PrefixLength, LogIsLog, CasesAssumption
<1>4. ASSUME NEW c \in Cases PROVE BindsResult(c, issued[p][c]) /\ result[c] = issued[p][c]
  <2>1. 3 * c + 1 <= Len(log) /\ issued[p][c] = log[3 * c + 1].result
    BY <1>2 DEF Cases
  <2>2. result[c] = log[3 * c + 1].result
    BY <2>1 DEF FilesInv
  <2> QED BY <2>1, <2>2, BindingsAre
<1>5. ASSUME ~torn PROVE PublicAccepts(log, torn)
  <2>1. Chronological(log)
    <3>1. Len(log) - 1 = 3 * NumCases
      BY <1>3, CasesAssumption
    <3> QED BY <1>1, <3>1 DEF Chronological, TimelyInv
  <2>2. ASSUME NEW c \in Cases PROVE Transacted(log, c)
    <3>1. 3 * c - 1 \in 1 .. Len(log) /\ 3 * c \in 1 .. Len(log) /\ 3 * c + 1 \in 1 .. Len(log)
      BY <1>3, CaseNumbers
    <3>2. /\ log[3 * c - 1].type = "case_reserved" /\ log[3 * c - 1].case = c
          /\ log[3 * c].type = "provider_response_durable" /\ log[3 * c].case = c
          /\ log[3 * c + 1].type = "case_completed" /\ log[3 * c + 1].case = c
      BY <3>1, PrefixLines
    <3>3. /\ log[3 * c + 1].response = log[3 * c].response
          /\ CostOf[log[3 * c].response] <= PerCaseCap
      BY <3>1, LogIsLog DEF LogInv
    <3> QED BY <3>2, <3>3 DEF Transacted
  <2>3. Total(log) <= TotalCap
    <3>1. ReservationsFit
      BY CapFits
    <3>2. IsFiniteSet(Unresolved)
      BY CasesFinite, FS_Subset DEF Unresolved
    <3>3. Cardinality(Unresolved) \in Nat
      BY <3>2, FS_CardinalityType
    <3>4. PerCaseCap * Cardinality(Unresolved) \in Nat /\ spent \in Nat
      BY <3>3, CapAssumption DEF LedgerTypeOK
    <3> QED BY <3>1, <3>4, CapAssumption DEF ReservationsFit
  <2>4. Len(log) = 1 + 3 * NumCases /\ log[1].type = "ledger_claimed"
    BY <1>3, CasesAssumption DEF LogInv
  <2> QED BY <1>5, <2>1, <2>2, <2>3, <2>4 DEF PublicAccepts
<1> QED BY <1>2, <1>4, <1>5

\* A run that ends with the barrier leaves a ledger the public inspector accepts, with
\* the results it names bound and on file: for any controllers, with or without a common
\* lock, and also when the clock was set back (run_v021_generation_campaign,
\* inspect_v021_public_spend_ledger).
THEOREM BarrierStaysBound == GenSpec => []BarrierIsBound
<1> DEFINE Inv == InOrderInv /\ TimelyInv /\ CapInv /\ Total(log) = spent
<1>1. Inv => BarrierIsBound
  BY BarrierFollows
<1>2. GenInit => Inv
  <2> SUFFICES ASSUME GenInit PROVE Inv
    OBVIOUS
  <2>1. InOrderInv /\ CapInv /\ Total(log) = spent
    BY InOrderInit, GenInitType DEF SoundInv
  <2>2. TimelyInv
    BY DEF GenInit, TimelyInv, Issuing
  <2> QED BY <2>1, <2>2
<1>3. Inv /\ [GenNext]_vars => Inv'
  <2> SUFFICES ASSUME Inv, [GenNext]_vars PROVE Inv'
    OBVIOUS
  <2>1. LedgerStep /\ LedgerTypeOK
    BY GenLedgerStep DEF InOrderInv, TypeInv
  <2>2. InOrderInv' /\ CapInv'
    BY <2>1, InOrderStep, CapStep
  <2>3. Total(log') = spent'
    BY <2>1, SumStep
  <2>4. TimelyInv'
    BY <2>2, TimelyStep
  <2> QED BY <2>2, <2>3, <2>4
<1> QED BY <1>1, <1>2, <1>3, PTL DEF GenSpec
-----------------------------------------------------------------------------
(* One progress directory: only the controller that holds its lock runs.   *)

CommonLock == \A p, q \in Controllers : LockOf[p] = LockOf[q]

\* Who runs holds the lock, and has not been rejected since it started.
LockInv == \A p \in Controllers : ~AtRest(p) => holder[LockOf[p]] = p /\ why[p] = "none"

Alone(p) == \A q \in Controllers \ {p} : AtRest(q)

\* What a step does to the lock.
LEMMA StepLocks ==
    ASSUME TypeInv, NEW p \in Controllers, Step(p)
    PROVE  \/ ~AtRest(p) /\ holder' = holder /\ why'[p] = why[p]
           \/ ~AtRest(p) /\ AtRest(p)' /\ Release(p)
           \/ /\ AtRest(p) /\ AtRest(p)' /\ Release(p)
              /\ UNCHANGED <<log, torn, response, result>>
           \/ /\ AtRest(p) /\ holder[LockOf[p]] = NoOne /\ why'[p] = "none"
              /\ holder' = [holder EXCEPT ![LockOf[p]] = p]
              /\ UNCHANGED <<log, torn, response, result>>
<1> USE DEF TypeInv, RunTypes, AtRest
<1>1. CASE Start(p)
  BY <1>1 DEF Start, Reject, Goto, ledgerVars, files
<1>2. CASE ReadLedger(p)
  BY <1>2 DEF ReadLedger, Reject, Goto
<1>3. CASE CallProvider(p) \/ CreateResponse(p) \/ FillResponse(p) \/ CheckResponse(p)
  BY <1>3 DEF CallProvider, CreateResponse, FillResponse, CheckResponse, Continue, local,
              Reject, Goto
<1>4. CASE ProviderAnswers(p) \/ RecordHalt(p)
  BY <1>4 DEF ProviderAnswers, RecordHalt, Reject, Goto
<1>5. CASE LoadResponse(p)
  BY <1>5 DEF LoadResponse, Reject, Goto
<1>6. CASE CompareResult(p) \/ FillResult(p)
  BY <1>6 DEF CompareResult, FillResult, Published, Continue, local, Reject, Goto
<1>7. CASE CreateResult(p) \/ WriteTemporary(p) \/ RecordCaseResponse(p)
  BY <1>7 DEF CreateResult, WriteTemporary, RecordCaseResponse, Continue, local, Reject, Goto
<1>8. CASE ReplaceProgress(p)
  BY <1>8 DEF ReplaceProgress, Goto, local
<1>9. CASE Crash(p) \/ KilledInAppend(p)
  BY <1>9 DEF Crash, KilledInAppend, Die, Goto
<1>10. CASE ReserveCase(p)
  BY <1>10 DEF ReserveCase, Reject, Goto
<1>11. CASE RecordCaseResult(p)
  BY <1>11 DEF RecordCaseResult, Reject, Goto
<1> QED BY <1>1, <1>2, <1>3, <1>4, <1>5, <1>6, <1>7, <1>8, <1>9, <1>10, <1>11
        DEF Step, Elsewhere

LEMMA LocksAreLocks == \A p \in Controllers : LockOf[p] \in Locks /\ p # NoOne
BY ControllerAssumption DEF Locks

LEMMA LockStep == ASSUME TypeInv, LockInv, [GenNext]_vars PROVE LockInv'
<1> USE DEF TypeInv, RunTypes
<1>1. CASE Tick \/ UNCHANGED vars
  BY <1>1 DEF Tick, vars, local, LockInv, AtRest
<1>2. ASSUME NEW p \in Controllers, Step(p) PROVE LockInv'
  <2>1. ASSUME NEW q \in Controllers \ {p}, ~AtRest(q)'
        PROVE  holder'[LockOf[q]] = q /\ why'[q] = "none"
    <3>1. ~AtRest(q) /\ why'[q] = why[q]
      BY <1>2, <2>1, StepOthers DEF OthersStay, AtRest
    <3>2. holder[LockOf[q]] = q /\ why[q] = "none" /\ q # NoOne /\ q # p
      BY <3>1, LocksAreLocks DEF LockInv
    <3>3. holder'[LockOf[q]] = q
      BY <1>2, <3>2, StepLocks, LocksAreLocks DEF Release
    <3> QED BY <3>1, <3>2, <3>3
  <2>2. ASSUME ~AtRest(p)' PROVE holder'[LockOf[p]] = p /\ why'[p] = "none"
    BY <1>2, <2>2, StepLocks, LocksAreLocks DEF LockInv
  <2> QED BY <2>1, <2>2 DEF LockInv
<1> QED BY <1>1, <1>2, NextCases DEF Step

LEMMA OnlyOne ==
    ASSUME CommonLock, TypeInv, LockInv, NEW p \in Controllers, Step(p)
    PROVE  \/ Alone(p)
           \/ AtRest(p) /\ AtRest(p)' /\ UNCHANGED <<log, torn, response, result>>
<1>1. \A q \in Controllers \ {p} : ~AtRest(q) => holder[LockOf[p]] = q /\ q # p
  BY DEF LockInv, CommonLock
<1>2. ~AtRest(p) => holder[LockOf[p]] = p
  BY DEF LockInv
<1> QED BY <1>1, <1>2, StepLocks, LocksAreLocks DEF Alone
-----------------------------------------------------------------------------
(* What the controller that runs knows of its case. *)

AloneInv(p) ==
    /\ pc[p] = "reserve" => Len(log) = 3 * case[p] - 2
    /\ pc[p] \in Unanswered \cup {"halt", "record"} => torn \/ Len(log) = 3 * case[p] - 1
    /\ pc[p] = "load" /\ seen[p] = "reserved_unknown_spend" =>
          torn \/ Len(log) = 3 * case[p] - 1
    /\ pc[p] = "load" /\ seen[p] # "reserved_unknown_spend" =>
          torn \/ Len(log) = 3 * case[p]
    /\ pc[p] \in Recorded /\ got[p] # Halt => torn \/ Len(log) = 3 * case[p]
    /\ pc[p] \in Recorded /\ got[p] = Halt =>
          response[case[p]] = NoFile /\ Len(log) = 3 * case[p] - 1
    /\ pc[p] \in {"call", "calling", "create_response", "halt"} =>
          response[case[p]] = NoFile
    /\ pc[p] = "load" => response[case[p]] # NoFile
    /\ pc[p] \in {"call", "calling", "create_response", "fill_response", "create_result"} =>
          result[case[p]] = NoFile

\* A declared halt is the last line's: no response came, and none is recorded.
HaltInv == \A c \in Cases : result[c] = Halt => response[c] = NoFile /\ Len(log) = 3 * c - 1

\* What files a step touches.
LEMMA StepFiles ==
    ASSUME InOrderInv, NEW p \in Controllers, Step(p)
    PROVE  /\ FilesGrow(p) /\ Creates(p)
           /\ pc[p] # "create_response" /\ pc[p] # "fill_response" => response' = response
           /\ pc[p] # "create_result" /\ pc[p] # "fill_result" => result' = result
           /\ pc[p] = "fill_result" /\ result' # result =>
                 \A c \in Cases : result'[c] = IF c = case[p] THEN got[p] ELSE result[c]
           /\ pc[p] = "create_result" /\ result' # result =>
                 \A c \in Cases : result'[c] = IF c = case[p] THEN Torn ELSE result[c]
<1> USE DEF InOrderInv, TypeInv, RunTypes, FileTypes
<1>1. CASE Start(p)
  BY <1>1 DEF Start, Reject, Goto, files, FilesGrow, Creates
<1>2. CASE ReadLedger(p)
  BY <1>2, StateRange DEF ReadLedger, Reject, Approach, Goto, files, FilesGrow, Creates
<1>3. CASE CallProvider(p) \/ CheckResponse(p)
  BY <1>3 DEF CallProvider, CheckResponse, Continue, Goto, files, FilesGrow, Creates
<1>4. CASE CreateResponse(p) \/ FillResponse(p)
  BY <1>4 DEF CreateResponse, FillResponse, Continue, local, Reject, Goto, files,
              FilesGrow, Creates
<1>5. CASE ProviderAnswers(p) \/ RecordHalt(p)
  BY <1>5 DEF ProviderAnswers, RecordHalt, Reject, Goto, files, FilesGrow, Creates
<1>6. CASE LoadResponse(p)
  BY <1>6 DEF LoadResponse, Approach, Reject, Goto, files, FilesGrow, Creates
<1>7. CASE CompareResult(p)
  BY <1>7 DEF CompareResult, Published, Approach, Continue, local, Reject, Goto, files,
              FilesGrow, Creates
<1>8. CASE CreateResult(p) \/ FillResult(p)
  BY <1>8 DEF CreateResult, FillResult, Published, Approach, Continue, local, Reject, Goto,
              FilesGrow, Creates
<1>9. CASE WriteTemporary(p) \/ RecordCaseResponse(p)
  BY <1>9 DEF WriteTemporary, RecordCaseResponse, Continue, Reject, Goto, files,
              FilesGrow, Creates
<1>10. CASE ReplaceProgress(p)
  BY <1>10 DEF ReplaceProgress, Goto, FilesGrow, Creates
<1>11. CASE Crash(p) \/ KilledInAppend(p)
  BY <1>11 DEF Crash, KilledInAppend, Die, Goto, files, FilesGrow, Creates
<1>12. CASE ReserveCase(p)
  BY <1>12 DEF ReserveCase, Reject, Goto, files, FilesGrow, Creates
<1>13. CASE RecordCaseResult(p)
  BY <1>13 DEF RecordCaseResult, Reject, Goto, files, FilesGrow, Creates
<1> QED BY <1>1, <1>2, <1>3, <1>4, <1>5, <1>6, <1>7, <1>8, <1>9, <1>10, <1>11, <1>12, <1>13
        DEF Step, Elsewhere

\* What the controller knows is kept, action by action: the state it read is the state
\* it still is in.
LEMMA AloneKeeps ==
    ASSUME InOrderInv, NEW p \in Controllers, AloneInv(p), Step(p) PROVE AloneInv(p)'
<1> USE DEF InOrderInv, TypeInv, RunTypes, FileTypes
<1> DEFINE c == case[p]
<1>1. /\ RunInv(p) /\ c \in Cases /\ c \in Int /\ Len(log) \in Nat /\ Halt # NoFile
      /\ Halt \notin Responses /\ NoFile \notin Responses
  BY LogIsLog, CaseNumbers, ControllerAssumption
<1>2. /\ StateOf(c) = "available" <=> Len(log) < 3 * c - 1
      /\ StateOf(c) = "reserved_unknown_spend" <=> Len(log) = 3 * c - 1
      /\ StateOf(c) = "response_durable" <=> Len(log) = 3 * c
      /\ StateOf(c) = "completed" <=> 3 * c + 1 <= Len(log)
  BY <1>1, StatesAre
<1>3. Readable => ~torn
  BY DEF Readable, Verifies
<1>4. CASE pc'[p] \in {"idle", "rejected", "read", "progress", "replace", "done"}
  BY <1>4 DEF AloneInv, Recorded, Unanswered
<1>5. CASE ReadLedger(p)
  <2>1. CASE StateOf(c) = "available" /\ pc'[p] = "reserve" /\ log' = log /\ case'[p] = c
    BY <1>1, <1>2, <2>1 DEF AloneInv, Recorded, Unanswered, RunInv
  <2>2. CASE /\ StateOf(c) = "reserved_unknown_spend" /\ pc'[p] = "check" /\ log' = log
             /\ case'[p] = c
    BY <1>1, <1>2, <2>2 DEF AloneInv, Recorded, Unanswered, RunInv
  <2>3. CASE /\ StateOf(c) = "response_durable" /\ pc'[p] = "load" /\ log' = log
             /\ case'[p] = c /\ seen'[p] = "response_durable" /\ response' = response
    <3>0. 3 * c <= Len(log)
      BY <1>1, <1>2, <2>3
    <3>1. response[c] \in Responses
      BY <1>1, <3>0 DEF FilesInv, LogInv
    <3> QED BY <1>1, <1>2, <2>3, <3>1 DEF AloneInv, Recorded, Unanswered
  <2> QED BY <1>4, <1>5, <2>1, <2>2, <2>3, StateRange
          DEF ReadLedger, Approach, Goto, Reject, ledgerVars, files
<1>6. CASE ReserveCase(p)
  <2>1. CASE Reject(p, IF Readable THEN "reservation" ELSE "ledger")
    BY <1>4, <2>1 DEF Reject, Goto
  <2>2. CASE /\ MayReserve(c) /\ pc'[p] = "call" /\ case'[p] = c /\ files' = files
             /\ torn' \/ \E t \in Stamps(p) : Reserve(c, t)
    <3>1. ~torn /\ Len(log) = 3 * c - 2
      BY <1>2, <1>1, <2>2 DEF MayReserve, Verifies, RunInv
    <3>2. response[c] = NoFile /\ result[c] = NoFile
      BY <1>1, <3>1 DEF FilesInv
    <3>3. torn' \/ Len(log') = 3 * c - 1
      <4>1. CASE \E t \in Stamps(p) : Reserve(c, t)
        <5>1. PICK t \in Nat : Reserve(c, t)
          BY <4>1, StampsAreTimes
        <5>2. Appends(Event("case_reserved", c, NoResponse, NoResponse, t))
          BY <1>1, <3>1, <5>1, ReserveAppends
        <5> QED BY <1>1, <3>1, <5>2 DEF Appends
      <4> QED BY <2>2, <4>1
    <3> QED BY <2>2, <3>2, <3>3 DEF AloneInv, Recorded, Unanswered, files
  <2> QED BY <1>6, <2>1, <2>2 DEF ReserveCase, Goto, Reserve, ShortWrite
<1>7. CASE CallProvider(p) \/ ProviderAnswers(p)
  BY <1>1, <1>7 DEF CallProvider, ProviderAnswers, Continue, local, Goto, AloneInv, Recorded,
                    Unanswered, files, ledgerVars
<1>8. CASE CreateResponse(p)
  <2>1. CASE Continue(p, "fill_response") /\ pc[p] = "create_response" /\ result' = result
    BY <1>1, <1>8, <2>1 DEF CreateResponse, Continue, local, Goto, AloneInv, Recorded,
                            Unanswered, ledgerVars
  <2> QED BY <1>4, <1>8, <2>1 DEF CreateResponse, Reject, Goto
<1>9. CASE FillResponse(p)
  <2>1. /\ pc[p] = "fill_response" /\ pc'[p] = "load" /\ case'[p] = c /\ log' = log
        /\ torn' = torn /\ response'[c] = got[p] /\ seen'[p] = seen[p]
    BY <1>1, <1>9 DEF FillResponse, Continue, local, Goto, ledgerVars
  <2>2. got[p] \in Responses /\ seen[p] = "reserved_unknown_spend"
    BY <1>1, <2>1 DEF Holding, HoldsResponse, RunInv, Unanswered
  <2> QED BY <1>1, <2>1, <2>2 DEF AloneInv, Recorded, Unanswered
<1>10. CASE CheckResponse(p)
  <2>1. /\ pc[p] = "check" /\ case'[p] = c /\ log' = log /\ torn' = torn
        /\ response' = response /\ seen'[p] = seen[p]
        /\ pc'[p] = IF response[c] = NoFile THEN "halt" ELSE "load"
    BY <1>1, <1>10 DEF CheckResponse, Continue, local, Goto, ledgerVars, files
  <2>2. seen[p] = "reserved_unknown_spend"
    BY <1>1, <2>1 DEF RunInv, Unanswered
  <2> QED BY <1>1, <2>1, <2>2 DEF AloneInv, Recorded, Unanswered
<1>11. CASE LoadResponse(p)
  <2>1. CASE /\ response[c] \in Responses /\ got'[p] = response[c] /\ pc[p] = "load"
             /\ pc'[p] = (IF seen[p] = "reserved_unknown_spend" THEN "record" ELSE "compare")
             /\ case'[p] = c /\ log' = log /\ torn' = torn
    BY <1>1, <2>1 DEF AloneInv, Recorded, Unanswered
  <2> QED BY <1>4, <1>11, <2>1 DEF LoadResponse, Approach, Reject, Goto, ledgerVars
<1>12. CASE RecordCaseResponse(p)
  <2>0. pc[p] = "record" /\ got[p] \in Responses
    BY <1>12 DEF RecordCaseResponse, Holding, HoldsResponse
  <2>1. CASE SameResponse(c, got[p])
    <3>1. FALSE
      BY <1>1, <2>0, <2>1, BindingsAre DEF SameResponse, Verifies, AloneInv
    <3> QED BY <3>1
  <2>2. CASE /\ Verifies(log', torn') /\ Continue(p, "compare")
             /\ \E t \in Stamps(p) : RecordResponse(c, got[p], t)
    <3>1. PICK t \in Nat : RecordResponse(c, got[p], t)
      BY <2>2, StampsAreTimes
    <3>2. /\ Len(log) = 3 * c - 1
          /\ Appends(Event("provider_response_durable", c, got[p], NoResponse, t))
      BY <1>1, <2>0, <3>1, ResponseAppends
    <3>3. pc'[p] = "compare" /\ case'[p] = c /\ got'[p] = got[p] /\ Len(log') = 3 * c
      BY <1>1, <2>2, <3>2 DEF Continue, local, Goto, Appends
    <3> QED BY <1>1, <2>0, <3>3 DEF AloneInv, Recorded, Unanswered
  <2> QED BY <1>4, <1>12, <2>1, <2>2
          DEF RecordCaseResponse, Reject, Goto, ShortWrite, Verifies
<1>13. CASE CompareResult(p) \/ CreateResult(p) \/ FillResult(p)
  <2>1. /\ pc[p] \in {"compare", "create_result", "fill_result"} /\ log' = log
        /\ torn' = torn /\ response' = response
    BY <1>13 DEF CompareResult, CreateResult, FillResult, ledgerVars, files
  <2>2. CASE /\ Continue(p, "create_result") /\ result[c] = NoFile /\ result' = result
    BY <1>1, <2>1, <2>2 DEF Continue, local, Goto, AloneInv, Recorded, Unanswered
  <2>3. CASE Continue(p, "fill_result")
    BY <1>1, <2>1, <2>3 DEF Continue, local, Goto, AloneInv, Recorded, Unanswered
  <2>4. CASE /\ got[p] # Halt /\ Approach(p, "complete")
             /\ UNCHANGED <<case, seen, got, issued, status, why, holder>>
    BY <1>1, <2>1, <2>4 DEF Approach, Goto, AloneInv, Recorded, Unanswered
  <2> QED BY <1>4, <1>13, <2>2, <2>3, <2>4
          DEF CompareResult, CreateResult, FillResult, Published, Reject, Goto, files
<1>14. CASE RecordHalt(p)
  <2>1. CASE /\ Readable /\ StateOf(c) = "reserved_unknown_spend" /\ pc[p] = "halt"
             /\ pc'[p] = "compare" /\ got'[p] = Halt /\ case'[p] = c /\ log' = log
             /\ response' = response
    BY <1>1, <1>2, <2>1 DEF AloneInv, Recorded, Unanswered
  <2> QED BY <1>4, <1>14, <2>1 DEF RecordHalt, Reject, Goto, ledgerVars, files
<1>15. CASE Start(p) \/ Crash(p) \/ KilledInAppend(p)
  BY <1>4, <1>15 DEF Start, Crash, KilledInAppend, Die, Reject, Goto
<1>16. CASE RecordCaseResult(p) \/ WriteTemporary(p) \/ ReplaceProgress(p)
  BY <1>4, <1>16 DEF RecordCaseResult, WriteTemporary, ReplaceProgress, Continue, Reject,
                     Goto
<1> QED BY <1>5, <1>6, <1>7, <1>8, <1>9, <1>10, <1>11, <1>12, <1>13, <1>14, <1>15, <1>16
        DEF Step, Elsewhere

\* Where the lock is not common, others would have to be asked.
LEMMA AloneStep ==
    ASSUME CommonLock, InOrderInv, LockInv, \A p \in Controllers : AloneInv(p),
           [GenNext]_vars
    PROVE  \A p \in Controllers : AloneInv(p)'
<1>1. CASE Tick \/ UNCHANGED vars
  BY <1>1 DEF Tick, vars, ledgerVars, local, files, AloneInv
<1>2. ASSUME NEW p \in Controllers, Step(p), NEW q \in Controllers PROVE AloneInv(q)'
  <2>1. CASE q = p
    BY <1>2, <2>1, AloneKeeps
  <2>2. CASE q # p
    <3>1. /\ pc'[q] = pc[q] /\ case'[q] = case[q] /\ seen'[q] = seen[q] /\ got'[q] = got[q]
      BY <1>2, <2>2, StepOthers DEF OthersStay, InOrderInv
    <3>2. CASE AtRest(q)
      BY <3>1, <3>2 DEF AtRest, AloneInv, Recorded, Unanswered
    <3>3. CASE UNCHANGED <<log, torn, response, result>>
      BY <3>1, <3>3 DEF AloneInv
    <3> QED BY <1>2, <2>2, <3>2, <3>3, OnlyOne DEF Alone, InOrderInv
  <2> QED BY <2>1, <2>2
<1> QED BY <1>1, <1>2, NextCases DEF Step

LEMMA HaltStep ==
    ASSUME InOrderInv, \A p \in Controllers : AloneInv(p), HaltInv, [GenNext]_vars
    PROVE  HaltInv'
<1> USE DEF InOrderInv, TypeInv, RunTypes, FileTypes
<1>1. CASE Tick \/ UNCHANGED vars
  BY <1>1 DEF Tick, vars, ledgerVars, files, HaltInv
<1>2. ASSUME NEW p \in Controllers, Step(p), NEW c \in Cases, result'[c] = Halt
      PROVE  response'[c] = NoFile /\ Len(log') = 3 * c - 1
  <2>0. /\ RunInv(p) /\ AloneInv(p) /\ c \in Int /\ case[p] \in Int /\ Len(log) \in Nat
        /\ case[p] \in Cases
    BY LogIsLog, CaseNumbers
  <2>1. CASE result[c] = Halt
    <3>1. response[c] = NoFile /\ Len(log) = 3 * c - 1
      BY <2>1 DEF HaltInv
    <3>2. response'[c] = response[c]
      <4>1. pc[p] \in {"create_response", "fill_response"} => result[case[p]] = NoFile
        BY <2>0 DEF AloneInv
      <4> QED BY <1>2, <2>1, <4>1, StepFiles, ControllerAssumption DEF FilesGrow
    <3>3. log' = log
      <4> SUFFICES ASSUME Waiting(p) PROVE FALSE
        BY <1>2, StepWrites
      <4>1. case[p] = c /\ pc[p] = "record"
        BY <2>0, <3>1 DEF Waiting
      <4>2. got[p] \in Responses /\ got[p] # Halt /\ got[p] # NoFile
        BY <4>1, ControllerAssumption DEF Holding, HoldsResponse
      <4> QED BY <2>0, <3>1, <4>1, <4>2 DEF RunInv, Answered
    <3> QED BY <3>1, <3>2, <3>3
  <2>2. CASE result[c] # Halt
    <3>1. pc[p] = "fill_result" /\ c = case[p] /\ got[p] = Halt
      <4>1. result' # result
        BY <1>2, <2>2
      <4>2. pc[p] = "create_result" => result'[c] \in {Torn, result[c]}
        BY <1>2, <4>1, StepFiles
      <4>3. pc[p] = "fill_result" => result'[c] = IF c = case[p] THEN got[p] ELSE result[c]
        BY <1>2, <4>1, StepFiles
      <4>4. pc[p] \in {"create_result", "fill_result"}
        BY <1>2, <4>1, StepFiles
      <4> QED BY <1>2, <2>2, <4>2, <4>3, <4>4, ControllerAssumption
    <3>2. response[c] = NoFile /\ Len(log) = 3 * c - 1
      BY <2>0, <3>1 DEF AloneInv, Recorded
    <3>3. log' = log
      BY <1>2, <3>1, StepWrites DEF Waiting
    <3>4. response' = response
      BY <1>2, <3>1, StepFiles
    <3> QED BY <3>2, <3>3, <3>4
  <2> QED BY <2>1, <2>2
<1> QED BY <1>1, <1>2, NextCases DEF Step, HaltInv

\* What the controllers know where they share a progress directory.
AloneInOrder == /\ InOrderInv /\ LockInv /\ HaltInv
                /\ \A p \in Controllers : AloneInv(p)

LEMMA AloneInOrderInit == GenInit => AloneInOrder
<1> SUFFICES ASSUME GenInit PROVE AloneInOrder
  OBVIOUS
<1>1. LockInv /\ \A p \in Controllers : AloneInv(p)
  BY DEF GenInit, LockInv, AtRest, AloneInv, Recorded, Unanswered
<1>2. HaltInv
  BY ControllerAssumption DEF GenInit, HaltInv
<1> QED BY <1>1, <1>2, InOrderInit DEF AloneInOrder

LEMMA AloneInOrderStep ==
    ASSUME CommonLock PROVE AloneInOrder /\ [GenNext]_vars => AloneInOrder'
BY InOrderStep, LockStep, AloneStep, HaltStep DEF AloneInOrder, InOrderInv

\* Where the controllers share a progress directory, a case whose unknown spend was
\* declared is never settled later, over any number of crashes and restarts
\* (record_v021_unknown_spend_halt, _unknown_result).
THEOREM HaltStaysFinal == ASSUME CommonLock PROVE GenSpec => []HaltIsFinal
<1>1. AloneInOrder => HaltIsFinal
  BY StatesAre DEF AloneInOrder, InOrderInv, TypeInv, HaltInv, HaltIsFinal
<1> QED BY <1>1, AloneInOrderInit, AloneInOrderStep, PTL DEF GenSpec
-----------------------------------------------------------------------------
(* Why a run is rejected. *)

NobodyFills(label, c) == \A q \in Controllers : ~(pc[q] = label /\ case[q] = c)

\* The reason a controller was rejected for stays true: a file cut short that nobody is
\* about to fill is never filled, and lines out of order stay out of order.
Explained(p) ==
    /\ why[p] \in {"none", "locked", "ledger", "response", "conflict", "temporary"}
    /\ why[p] = "ledger" => torn \/ ~Chronological(log)
    /\ why[p] = "response" =>
          \E c \in Cases : response[c] = Torn /\ NobodyFills("fill_response", c)
    /\ why[p] = "conflict" =>
          \E c \in Cases : result[c] = Torn /\ NobodyFills("fill_result", c)
    /\ why[p] = "temporary" => temporary[p]

\* What a controller that runs can be rejected for, where it is the only one.
LEMMA StepRejects ==
    ASSUME AloneInOrder, CapInv, NEW p \in Controllers, Step(p)
    PROVE  \/ why'[p] \in {"none", "locked"}
           \/ why'[p] = "ledger" /\ ~Verifies(log', torn')
           \/ why'[p] = "response" /\ response[case[p]] = Torn /\ pc[p] = "load"
           \/ why'[p] = "conflict" /\ result[case[p]] = Torn /\ pc[p] = "compare"
           \/ why'[p] = "temporary" /\ temporary'[p]
<1> USE DEF AloneInOrder, InOrderInv, TypeInv, RunTypes, FileTypes
<1> DEFINE c == case[p]
           r == got[p]
<1>1. /\ RunInv(p) /\ AloneInv(p) /\ c \in Cases /\ c \in Int /\ Len(log) \in Nat
      /\ Halt # NoFile /\ Halt \notin Responses /\ NoFile \notin Responses
      /\ (~AtRest(p) => why[p] = "none")
  BY LogIsLog, CaseNumbers, ControllerAssumption DEF LockInv
<1>2. /\ StateOf(c) = "available" <=> Len(log) < 3 * c - 1
      /\ StateOf(c) = "reserved_unknown_spend" <=> Len(log) = 3 * c - 1
      /\ StateOf(c) = "response_durable" <=> Len(log) = 3 * c
      /\ StateOf(c) = "completed" <=> 3 * c + 1 <= Len(log)
  BY <1>1, StatesAre
<1>3. Readable => ~torn
  BY DEF Readable, Verifies
<1>4. ~Readable /\ UNCHANGED ledgerVars => ~Verifies(log', torn')
  BY DEF Readable, ledgerVars
<1>5. CASE Start(p)
  BY <1>4, <1>5 DEF Start, Reject
<1>6. CASE ReadLedger(p)
  <2>1. why[p] = "none"
    BY <1>1, <1>6 DEF ReadLedger, AtRest
  <2>2. StateOf(c) = "completed" => BindsResult(c, result[c])
    <3>1. 3 * c + 1 <= Len(log) => result[c] = log[3 * c + 1].result
      BY <1>1 DEF FilesInv
    <3> QED BY <1>1, <1>2, <3>1, BindingsAre
  <2> QED BY <1>4, <1>6, <2>1, <2>2 DEF ReadLedger, Reject
<1>7. CASE ReserveCase(p)
  <2>1. why[p] = "none" /\ Len(log) = 3 * c - 2
    BY <1>1, <1>7 DEF ReserveCase, AtRest, AloneInv
  <2>2. Readable => MayReserve(c)
    <3>1. ASSUME NEW d \in Cases PROVE d \notin Unresolved
      <4>1. d \in Int /\ Len(log) # 3 * d - 1
        BY <1>1, <2>1, CaseNumbers
      <4> QED BY <4>1, StatesAre DEF Unresolved
    <3>2. Unresolved = {}
      BY <3>1 DEF Unresolved
    <3> QED BY <1>1, <1>2, <2>1, <3>2 DEF MayReserve, Readable
  <2> QED BY <1>4, <1>7, <2>1, <2>2 DEF ReserveCase, Reject
<1>8. CASE CallProvider(p) \/ CheckResponse(p) \/ ProviderAnswers(p) \/ FillResponse(p)
  BY <1>1, <1>8 DEF CallProvider, CheckResponse, ProviderAnswers, FillResponse, Continue,
                    local, AtRest
<1>9. CASE CreateResponse(p) \/ CreateResult(p)
  BY <1>1, <1>9 DEF CreateResponse, CreateResult, Continue, local, AtRest, AloneInv
<1>10. CASE LoadResponse(p)
  <2>1. pc[p] = "load" /\ why[p] = "none"
    BY <1>1, <1>10 DEF LoadResponse, AtRest
  <2>2. response[c] \notin Responses => response[c] = Torn
    BY <1>1, <2>1 DEF AloneInv, Contents
  <2> QED BY <1>10, <2>1, <2>2 DEF LoadResponse, Reject
<1>11. CASE RecordCaseResponse(p)
  <2>1. /\ why[p] = "none" /\ r \in Responses /\ pc[p] = "record"
    BY <1>1, <1>11 DEF RecordCaseResponse, AtRest, Holding, HoldsResponse
  <2>2. Readable => MayRecordResponse(c, r)
    <3> SUFFICES ASSUME Readable PROVE MayRecordResponse(c, r)
      OBVIOUS
    <3>1. StateOf(c) = "reserved_unknown_spend"
      BY <1>1, <1>2, <1>3, <2>1 DEF AloneInv
    <3>2. CostOf[r] <= PerCaseCap /\ CostOf[r] \in Nat
      <4>1. response[c] = r
        BY <1>1, <2>1 DEF RunInv, Answered
      <4> QED BY <1>1, <2>1, <4>1, ResponseAssumption DEF FilesInv
    <3>3. Unresolved = {c}
      BY <1>1, <3>1 DEF CapInv, Unresolved
    <3>4. Cardinality(Unresolved) = 1
      BY <3>3, FS_Singleton
    <3>5. spent + PerCaseCap <= TotalCap
      BY <3>4, CapFits, CapAssumption DEF ReservationsFit
    <3>6. spent + CostOf[r] <= TotalCap
      BY <3>2, <3>5, CapAssumption DEF LedgerTypeOK
    <3> QED BY <3>1, <3>2, <3>6 DEF MayRecordResponse, Readable
  <2>3. CASE Continue(p, "compare")
    BY <2>1, <2>3 DEF Continue, local
  <2> QED BY <1>4, <1>11, <2>1, <2>2, <2>3 DEF RecordCaseResponse, Reject
<1>12. CASE CompareResult(p)
  <2>1. pc[p] = "compare" /\ why[p] = "none"
    BY <1>1, <1>12 DEF CompareResult, AtRest
  <2>2. r \in Responses \cup {Halt}
    BY <2>1 DEF Holding, HoldsOutcome
  <2>3. result[c] \notin {NoFile, r} => result[c] = Torn
    <3>1. CASE result[c] \in Responses
      <4>1. response[c] = result[c]
        BY <1>1, <3>1 DEF FilesInv
      <4>2. r # Halt
        BY <1>1, <2>1, <3>1, <4>1 DEF AloneInv, Recorded
      <4> QED BY <1>1, <2>1, <4>1, <4>2 DEF RunInv, Answered, Recorded
    <3>2. CASE result[c] = Halt
      <4>1. response[c] = NoFile
        BY <1>1, <3>2 DEF HaltInv
      <4>2. r = Halt
        BY <1>1, <2>1, <2>2, <4>1 DEF RunInv, Answered, Recorded
      <4> QED BY <3>2, <4>2
    <3> QED BY <1>1, <3>1, <3>2 DEF Contents
  <2>4. CASE Published(p) \/ Continue(p, "create_result")
    BY <2>1, <2>4 DEF Published, Continue, local
  <2> QED BY <1>12, <2>1, <2>3, <2>4 DEF CompareResult, Reject
<1>13. CASE FillResult(p)
  BY <1>1, <1>13 DEF FillResult, Published, AtRest
<1>14. CASE RecordCaseResult(p)
  <2>1. why[p] = "none" /\ r \in Responses /\ pc[p] = "complete"
    BY <1>1, <1>14 DEF RecordCaseResult, AtRest, Holding, HoldsResponse
  <2>2. Readable => MayRecordResult(c, r)
    <3> SUFFICES ASSUME Readable PROVE MayRecordResult(c, r)
      OBVIOUS
    <3>1. Len(log) = 3 * c
      BY <1>1, <1>3, <2>1 DEF AloneInv, Recorded
    <3>2. StateOf(c) = "response_durable" /\ 3 * c <= Len(log)
      BY <1>1, <1>2, <3>1
    <3>3. response[c] = r
      BY <1>1, <2>1 DEF RunInv, Answered, Recorded
    <3>4. log[3 * c].response = r
      BY <1>1, <3>2, <3>3 DEF FilesInv
    <3> QED BY <1>1, <3>2, <3>4, BindingsAre DEF MayRecordResult, Readable
  <2> QED BY <1>4, <1>14, <2>1, <2>2 DEF RecordCaseResult, Reject
<1>15. CASE RecordHalt(p)
  <2>1. why[p] = "none" /\ pc[p] = "halt"
    BY <1>1, <1>15 DEF RecordHalt, AtRest
  <2>2. Readable => StateOf(c) = "reserved_unknown_spend"
    BY <1>1, <1>2, <1>3, <2>1 DEF AloneInv
  <2> QED BY <1>4, <1>15, <2>1, <2>2 DEF RecordHalt, Reject
<1>16. CASE WriteTemporary(p)
  <2>1. why[p] = "none"
    BY <1>1, <1>16 DEF WriteTemporary, AtRest
  <2> QED BY <1>16, <2>1 DEF WriteTemporary, Continue, local, Reject
<1>17. CASE ReplaceProgress(p)
  BY <1>1, <1>17 DEF ReplaceProgress, local, AtRest
<1>18. CASE Crash(p) \/ KilledInAppend(p)
  BY <1>1, <1>18 DEF Crash, KilledInAppend, Die, AtRest
<1> QED BY <1>5, <1>6, <1>7, <1>8, <1>9, <1>10, <1>11, <1>12, <1>13, <1>14, <1>15, <1>16,
           <1>17, <1>18
        DEF Step, Elsewhere

\* VerifiesUnless of the next state.
LEMMA VerifiesUnlessNext ==
    (LedgerTypeOK /\ LogInv /\ SoundInv
        => (Verifies(log, torn) <=> ~torn /\ Chronological(log)))'
<1>1. LedgerTypeOK /\ LogInv /\ SoundInv => (Verifies(log, torn) <=> ~torn /\ Chronological(log))
  BY VerifiesUnless
<1> QED BY <1>1, PTL

LEMMA ExplainedStep ==
    ASSUME CommonLock, AloneInOrder, AloneInOrder', SoundInv, SoundInv',
           \A p \in Controllers : Explained(p), [GenNext]_vars
    PROVE  \A p \in Controllers : Explained(p)'
<1> USE DEF AloneInOrder, InOrderInv, TypeInv, RunTypes, FileTypes
<1>0. CapInv
  BY DEF SoundInv
<1>1. CASE Tick \/ UNCHANGED vars
  BY <1>1 DEF Tick, vars, ledgerVars, local, files, Explained, NobodyFills
<1>2. ASSUME NEW p \in Controllers, Step(p) PROVE \A q \in Controllers : Explained(q)'
  <2>1. OthersStay(p) /\ LogGrows /\ FilesGrow(p) /\ Creates(p)
    BY <1>2, StepOthers, StepWrites, StepFiles DEF LogGrows, Appends
  <2>2. /\ Len(log) \in Nat /\ Len(log') \in Nat /\ Len(log) <= Len(log')
        /\ \A i \in 1 .. Len(log) : log'[i] = log[i]
    BY <2>1, LogKeeps
  <2>3. torn \/ ~Chronological(log) => torn' \/ ~Chronological(log')
    <3>1. torn => torn'
      BY <2>1 DEF LogGrows
    <3>2. ASSUME Chronological(log') PROVE Chronological(log)
      <4> SUFFICES ASSUME NEW i \in 1 .. Len(log) - 1 PROVE log[i].at <= log[i + 1].at
        BY DEF Chronological
      <4>1. /\ i \in 1 .. Len(log) /\ i + 1 \in 1 .. Len(log) /\ i \in 1 .. Len(log') - 1
        BY <2>2
      <4> QED BY <2>2, <3>2, <4>1 DEF Chronological
    <3> QED BY <3>1, <3>2
  <2>4. ASSUME NEW c \in Cases, response[c] = Torn, NobodyFills("fill_response", c)
        PROVE  response'[c] = Torn /\ NobodyFills("fill_response", c)'
    <3>1. response'[c] = Torn
      BY <2>1, <2>4, ControllerAssumption DEF FilesGrow, NobodyFills
    <3>2. \A q \in Controllers \ {p} : ~(pc'[q] = "fill_response" /\ case'[q] = c)
      BY <2>1, <2>4 DEF OthersStay, NobodyFills
    <3>3. ~(pc'[p] = "fill_response" /\ case'[p] = c)
      BY <2>1, <2>4, ControllerAssumption DEF Creates
    <3> QED BY <3>1, <3>2, <3>3 DEF NobodyFills
  <2>5. ASSUME NEW c \in Cases, result[c] = Torn, NobodyFills("fill_result", c)
        PROVE  result'[c] = Torn /\ NobodyFills("fill_result", c)'
    <3>1. result'[c] = Torn
      BY <2>1, <2>5, ControllerAssumption DEF FilesGrow, NobodyFills
    <3>2. \A q \in Controllers \ {p} : ~(pc'[q] = "fill_result" /\ case'[q] = c)
      BY <2>1, <2>5 DEF OthersStay, NobodyFills
    <3>3. ~(pc'[p] = "fill_result" /\ case'[p] = c)
      BY <2>1, <2>5, ControllerAssumption DEF Creates
    <3> QED BY <3>1, <3>2, <3>3 DEF NobodyFills
  <2>6. ASSUME NEW q \in Controllers \ {p} PROVE Explained(q)'
    <3>1. why'[q] = why[q] /\ temporary'[q] = temporary[q]
      BY <2>1 DEF OthersStay
    <3>2. Explained(q)
      OBVIOUS
    <3> QED BY <2>3, <2>4, <2>5, <3>1, <3>2 DEF Explained
  <2>7. Explained(p)'
    <3>1. case[p] \in Cases
      OBVIOUS
    <3>2. CASE why'[p] \in {"none", "locked"}
      BY <3>2 DEF Explained
    <3>3. CASE why'[p] = "ledger" /\ ~Verifies(log', torn')
      <4>1. LedgerTypeOK' /\ LogInv'
        OBVIOUS
      <4>2. Verifies(log', torn') <=> ~torn' /\ Chronological(log')
        BY <4>1, VerifiesUnlessNext
      <4> QED BY <3>3, <4>2 DEF Explained
    <3>4. CASE why'[p] = "temporary" /\ temporary'[p]
      BY <3>4 DEF Explained
    <3>5. CASE pc[p] \in {"load", "compare"}
      <4>1. Alone(p)
        BY <1>2, <3>5, OnlyOne DEF AtRest
      <4>2. /\ NobodyFills("fill_response", case[p]) /\ NobodyFills("fill_result", case[p])
        BY <3>5, <4>1 DEF Alone, AtRest, NobodyFills
      <4>3. response[case[p]] = Torn =>
               \E c \in Cases : response'[c] = Torn /\ NobodyFills("fill_response", c)'
        BY <2>4, <3>1, <4>2
      <4>4. result[case[p]] = Torn =>
               \E c \in Cases : result'[c] = Torn /\ NobodyFills("fill_result", c)'
        BY <2>5, <3>1, <4>2
      <4> QED BY <1>0, <1>2, <3>2, <3>3, <3>4, <4>3, <4>4, StepRejects DEF Explained
    <3> QED BY <1>0, <1>2, <3>2, <3>3, <3>4, <3>5, StepRejects
  <2> QED BY <2>6, <2>7
<1> QED BY <1>1, <1>2, NextCases DEF Step

\* Where the controllers share a progress directory, a run is rejected because the lock
\* is held, because a line or a file was cut short, because a temporary progress file is
\* left of the same pid, or because the clock was set back.  None is rejected for a
\* reservation, a file that is already there, a result the ledger does not bind, the cap
\* or the state of its case: what was paid for is never refused
\* (run_v021_generation_campaign, record_v021_provider_response).
THEOREM RejectionsStayExplained ==
    ASSUME CommonLock PROVE GenSpec => []RejectionsExplained
<1> DEFINE Inv == AloneInOrder /\ SoundInv /\ \A p \in Controllers : Explained(p)
<1>1. Inv => RejectionsExplained
  BY DEF Explained, RejectionsExplained
<1>2. GenInit => Inv
  <2>1. GenInit => \A p \in Controllers : Explained(p)
    BY DEF GenInit, Explained
  <2> QED BY <2>1, AloneInOrderInit, GenInitType
<1>3. Inv /\ [GenNext]_vars => Inv'
  <2> SUFFICES ASSUME Inv, [GenNext]_vars PROVE Inv'
    OBVIOUS
  <2>1. AloneInOrder' /\ SoundInv'
    BY AloneInOrderStep, GenLedgerStep, SoundStep DEF AloneInOrder, InOrderInv
  <2> QED BY <2>1, ExplainedStep
<1> QED BY <1>1, <1>2, <1>3, PTL DEF GenSpec
=============================================================================
