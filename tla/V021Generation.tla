--------------------------- MODULE V021Generation ---------------------------
(***************************************************************************)
(* The v0.2.1 generation campaign: controllers that drive every case       *)
(* through the spend ledger and the provider                               *)
(* (benchmark_v021_campaign_controller.py, benchmark_v021_runtime.py,      *)
(* benchmark_v021_runtime_ledger.py).                                      *)
(*                                                                         *)
(* A controller is a process.  It holds the lock of its progress directory *)
(* and takes the cases in order; for each one it reads the ledger, then    *)
(* acts on what it read.  The ledger operations are atomic; between two of *)
(* them other controllers move, the process may be killed and started      *)
(* again, and the clock advances.  A file that is created exclusively is   *)
(* first created and then filled, and stays Torn if the process dies in    *)
(* between.                                                                *)
(***************************************************************************)
EXTENDS V021SpendLedger

CONSTANTS Controllers,      \* the processes (their pids)
          LockOf,           \* the progress directory of each one
          ShortWrites,      \* an append may be cut short
          ClockStepsBack,   \* the wall clock may be set back
          NoFile, Torn,     \* contents of a file: absent, cut short,
          Halt,             \* the unknown-spend result
          NoOne

Locks == {LockOf[p] : p \in Controllers}

ASSUME ControllerAssumption ==
    /\ LockOf \in [Controllers -> Locks] /\ NoOne \notin Controllers
    /\ ShortWrites \in BOOLEAN /\ ClockStepsBack \in BOOLEAN
    /\ NoFile # Torn /\ NoFile # Halt /\ Torn # Halt
    /\ {NoFile, Torn, Halt} \cap Responses = {}

VARIABLES now,        \* the wall clock
          holder,     \* who holds the lock of each progress directory
          response,   \* the provider response file of each case
          result,     \* the generation result file of each case
          temporary,  \* the temporary progress file of each pid is there
          progress,   \* the status in each controller's progress file
          calls,      \* the provider calls made for each case
          pc,         \* where each controller is
          case,       \* the case it works on
          seen,       \* the case state it read from the ledger
          since,      \* the earliest time its next event can carry
          got,        \* the response it holds, or Halt
          issued,     \* the results issued so far in this run
          status,     \* the status it writes to its progress file
          why         \* why its last run was rejected

files == <<response, result, temporary, progress>>
local == <<case, seen, since, got, issued, status, why>>
vars == <<ledgerVars, now, holder, files, calls, pc, local>>

\* The campaign is given a ledger that was claimed under the authorization.
GenInit ==
    /\ now \in AuthorizedAt .. MaxTime
    /\ \E t \in AuthorizedAt .. now : LedgerClaimed(t)
    /\ holder = [d \in Locks |-> NoOne]
    /\ response = [c \in Cases |-> NoFile]
    /\ result = [c \in Cases |-> NoFile]
    /\ temporary = [p \in Controllers |-> FALSE]
    /\ progress = [p \in Controllers |-> "none"]
    /\ calls = [c \in Cases |-> 0]
    /\ pc = [p \in Controllers |-> "idle"]
    /\ case = [p \in Controllers |-> 1]
    /\ seen = [p \in Controllers |-> "available"]
    /\ since = [p \in Controllers |-> 0]
    /\ got = [p \in Controllers |-> NoResponse]
    /\ issued = [p \in Controllers |-> << >>]
    /\ status = [p \in Controllers |-> "generation"]
    /\ why = [p \in Controllers |-> "none"]

-----------------------------------------------------------------------------
AtRest(p) == pc[p] \in {"idle", "rejected", "done"}

Readable == Verifies(log, torn)

Goto(p, label) == pc' = [pc EXCEPT ![p] = label]

Release(p) == holder' = IF holder[LockOf[p]] = p
                        THEN [holder EXCEPT ![LockOf[p]] = NoOne] ELSE holder

\* What a controller knows of a case, and of a run, is gone with it.
ForgetCase(p) == /\ seen' = [seen EXCEPT ![p] = "available"]
                 /\ since' = [since EXCEPT ![p] = 0]
                 /\ got' = [got EXCEPT ![p] = NoResponse]

ForgetRun(p) == /\ ForgetCase(p)
                /\ case' = [case EXCEPT ![p] = 1]
                /\ issued' = [issued EXCEPT ![p] = << >>]
                /\ status' = [status EXCEPT ![p] = "generation"]

\* The run raises, and its finally clause gives the lock back.
Reject(p, reason) == /\ Goto(p, "rejected")
                     /\ why' = [why EXCEPT ![p] = reason]
                     /\ Release(p)
                     /\ ForgetRun(p)

\* Go on with the locals and the lock as they are.
Continue(p, label) == Goto(p, label) /\ UNCHANGED <<local, holder>>

\* Mutant: the timestamp is one taken at the start of the process.
ApproachLate(p, label) == /\ Goto(p, label)
                          /\ since' = [since EXCEPT ![p] = 0]

\* Go on to a ledger operation: _now() is read between here and the append.
Approach(p, label) == /\ Goto(p, label)
                      /\ since' = [since EXCEPT ![p] = now]

Stamps(p) == {now} \cup since[p] .. now

\* stream.write takes a part of the line and returns.
ShortWrite == ShortWrites /\ torn' = TRUE /\ UNCHANGED <<log, spent>>

-----------------------------------------------------------------------------
(* _run_v021_generation_campaign_with_ports and the ledger port it is given *)

\* Mutant: a lock that is held is not respected.
StartAnyway(p) ==
    /\ AtRest(p)
    /\ \/ ~Readable /\ Reject(p, "ledger")
       \/ /\ Readable
          /\ holder' = [holder EXCEPT ![LockOf[p]] = p]
          /\ Goto(p, "read")
          /\ ForgetRun(p)
          /\ why' = [why EXCEPT ![p] = "none"]
    /\ UNCHANGED <<ledgerVars, now, files, calls>>

\* The port verifies the ledger; the lock does not block.
Start(p) ==
    /\ AtRest(p)
    /\ \/ ~Readable /\ Reject(p, "ledger")
       \/ Readable /\ holder[LockOf[p]] # NoOne /\ Reject(p, "locked")
       \/ /\ Readable /\ holder[LockOf[p]] = NoOne
          /\ holder' = [holder EXCEPT ![LockOf[p]] = p]
          /\ Goto(p, "read")
          /\ ForgetRun(p)
          /\ why' = [why EXCEPT ![p] = "none"]
    /\ UNCHANGED <<ledgerVars, now, files, calls>>

\* ledger.state, read without the guard, decides what is done with the case.
ReadLedger(p) ==
    LET c == case[p] IN
    /\ pc[p] = "read"
    /\ \/ ~Readable /\ Reject(p, "ledger")
       \/ /\ Readable
          /\ \/ /\ StateOf(c) = "completed" /\ BindsResult(c, result[c])
                /\ Goto(p, "progress")
                /\ issued' = [issued EXCEPT ![p] = Append(@, result[c])]
                /\ UNCHANGED <<case, seen, since, got, status, why, holder>>
             \/ /\ StateOf(c) = "completed" /\ ~BindsResult(c, result[c])
                /\ Reject(p, "result")
             \/ /\ StateOf(c) # "completed"
                /\ seen' = [seen EXCEPT ![p] = StateOf(c)]
                /\ Approach(p, CASE StateOf(c) = "available" -> "reserve"
                                 [] StateOf(c) = "reserved_unknown_spend" -> "check"
                                 [] StateOf(c) = "response_durable" -> "load")
                /\ UNCHANGED <<case, got, issued, status, why, holder>>
    /\ UNCHANGED <<ledgerVars, now, files, calls>>

ReserveCase(p) ==
    LET c == case[p] IN
    /\ pc[p] = "reserve"
    /\ \/ /\ \/ \E t \in Stamps(p) : Reserve(c, t)
             \/ MayReserve(c) /\ ShortWrite
          /\ Goto(p, "call")
          /\ seen' = [seen EXCEPT ![p] = "reserved_unknown_spend"]
          /\ UNCHANGED <<case, since, got, issued, status, why, holder>>
       \/ /\ ~MayReserve(c)
          /\ Reject(p, IF Readable THEN "reservation" ELSE "ledger")
          /\ UNCHANGED ledgerVars
    /\ UNCHANGED <<now, files, calls>>

\* The request leaves for the provider.
CallProvider(p) ==
    /\ pc[p] = "call"
    /\ calls' = [calls EXCEPT ![case[p]] = @ + 1]
    /\ Continue(p, "calling")
    /\ UNCHANGED <<ledgerVars, now, files>>

\* _call_provider_once returns a response it accepts, or raises: the provider
\* failed, timed out, or reports a cost above the cap of the case.
ProviderAnswers(p) ==
    /\ pc[p] = "calling"
    /\ \/ \E r \in Responses : /\ CostOf[r] <= PerCaseCap
                               /\ got' = [got EXCEPT ![p] = r]
                               /\ Goto(p, "create_response")
       \/ Goto(p, "halt") /\ UNCHANGED got
    /\ UNCHANGED <<ledgerVars, now, holder, files, calls, case, seen, since,
                   issued, status, why>>

CreateResponse(p) ==
    LET c == case[p] IN
    /\ pc[p] = "create_response"
    /\ \/ /\ response[c] = NoFile
          /\ response' = [response EXCEPT ![c] = Torn]
          /\ Continue(p, "fill_response")
       \/ response[c] # NoFile /\ Reject(p, "exists") /\ UNCHANGED response
    /\ UNCHANGED <<ledgerVars, now, result, temporary, progress, calls>>

FillResponse(p) ==
    /\ pc[p] = "fill_response"
    /\ response' = [response EXCEPT ![case[p]] = got[p]]
    /\ Continue(p, "load")
    /\ UNCHANGED <<ledgerVars, now, result, temporary, progress, calls>>

\* Mutants: without a response the provider is called again; a response is taken
\* to be on file.
CheckOrCallAgain(p) ==
    /\ pc[p] = "check"
    /\ Continue(p, IF response[case[p]] = NoFile THEN "call" ELSE "load")
    /\ UNCHANGED <<ledgerVars, now, files, calls>>

CheckNoResponse(p) ==
    /\ pc[p] = "check"
    /\ Continue(p, "load")
    /\ UNCHANGED <<ledgerVars, now, files, calls>>

\* A reservation of an earlier run: response_path.exists().
CheckResponse(p) ==
    /\ pc[p] = "check"
    /\ Continue(p, IF response[case[p]] = NoFile THEN "halt" ELSE "load")
    /\ UNCHANGED <<ledgerVars, now, files, calls>>

\* Only a case that was read as reserved has its response recorded.
LoadResponse(p) ==
    LET r == response[case[p]] IN
    /\ pc[p] = "load"
    /\ \/ /\ r \in Responses
          /\ got' = [got EXCEPT ![p] = r]
          /\ Approach(p, IF seen[p] = "reserved_unknown_spend" THEN "record"
                                                               ELSE "compare")
          /\ UNCHANGED <<case, seen, issued, status, why, holder>>
       \/ r \notin Responses /\ Reject(p, "response")
    /\ UNCHANGED <<ledgerVars, now, files, calls>>

\* The ledger is verified again after the append.
RecordCaseResponse(p) ==
    LET c == case[p]
        r == got[p]
    IN
    /\ pc[p] = "record"
    /\ \/ SameResponse(c, r) /\ Continue(p, "compare") /\ UNCHANGED ledgerVars
       \/ /\ ~SameResponse(c, r)
          /\ \/ \E t \in Stamps(p) : RecordResponse(c, r, t)
             \/ MayRecordResponse(c, r) /\ ShortWrite
          /\ IF Verifies(log', torn') THEN Continue(p, "compare")
                                      ELSE Reject(p, "ledger")
       \/ /\ ~SameResponse(c, r) /\ ~MayRecordResponse(c, r)
          /\ Reject(p, IF Readable THEN "refused" ELSE "ledger")
          /\ UNCHANGED ledgerVars
    /\ UNCHANGED <<now, files, calls>>

\* The case has its result on file: go on to the ledger, or halt.
Published(p) ==
    IF got[p] = Halt
    THEN /\ Goto(p, "progress")
         /\ issued' = [issued EXCEPT ![p] = Append(@, Halt)]
         /\ UNCHANGED <<case, seen, since, got, status, why, holder>>
    ELSE /\ Approach(p, "complete")
         /\ UNCHANGED <<case, seen, got, issued, status, why, holder>>

\* Mutants: a result that is there is not looked at; a missing one is not written.
CompareNothing(p) ==
    /\ pc[p] = "compare"
    /\ Continue(p, "create_result")
    /\ UNCHANGED <<ledgerVars, now, files, calls>>

CompareWithoutWriting(p) ==
    LET r == result[case[p]] IN
    /\ pc[p] = "compare"
    /\ \/ r \in {got[p], NoFile} /\ Published(p)
       \/ r \notin {NoFile, got[p]} /\ Reject(p, "conflict")
    /\ UNCHANGED <<ledgerVars, now, files, calls>>

\* A result that is already there must have the same bytes.
CompareResult(p) ==
    LET r == result[case[p]] IN
    /\ pc[p] = "compare"
    /\ \/ r = got[p] /\ Published(p)
       \/ r = NoFile /\ Continue(p, "create_result")
       \/ r \notin {NoFile, got[p]} /\ Reject(p, "conflict")
    /\ UNCHANGED <<ledgerVars, now, files, calls>>

CreateResult(p) ==
    LET c == case[p] IN
    /\ pc[p] = "create_result"
    /\ \/ /\ result[c] = NoFile
          /\ result' = [result EXCEPT ![c] = Torn]
          /\ Continue(p, "fill_result")
       \/ result[c] # NoFile /\ Reject(p, "exists") /\ UNCHANGED result
    /\ UNCHANGED <<ledgerVars, now, response, temporary, progress, calls>>

FillResult(p) ==
    /\ pc[p] = "fill_result"
    /\ result' = [result EXCEPT ![case[p]] = got[p]]
    /\ Published(p)
    /\ UNCHANGED <<ledgerVars, now, response, temporary, progress, calls>>

RecordCaseResult(p) ==
    LET c == case[p]
        r == got[p]
        Issue == /\ Goto(p, "progress")
                 /\ issued' = [issued EXCEPT ![p] = Append(@, r)]
                 /\ UNCHANGED <<case, seen, since, got, status, why, holder>>
    IN
    /\ pc[p] = "complete"
    /\ \/ SameResult(c, r, r) /\ Issue /\ UNCHANGED ledgerVars
       \/ /\ ~SameResult(c, r, r)
          /\ \/ \E t \in Stamps(p) : RecordResult(c, r, r, t)
             \/ MayRecordResult(c, r) /\ ShortWrite
          /\ IF Verifies(log', torn') THEN Issue ELSE Reject(p, "ledger")
       \/ /\ ~SameResult(c, r, r) /\ ~MayRecordResult(c, r)
          /\ Reject(p, IF Readable THEN "refused" ELSE "ledger")
          /\ UNCHANGED ledgerVars
    /\ UNCHANGED <<now, files, calls>>

\* record_unknown_spend_halt only checks; _unknown_result then publishes.
RecordHalt(p) ==
    /\ pc[p] = "halt"
    /\ \/ /\ Readable /\ StateOf(case[p]) = "reserved_unknown_spend"
          /\ Goto(p, "compare")
          /\ got' = [got EXCEPT ![p] = Halt]
          /\ UNCHANGED <<case, seen, since, issued, status, why, holder>>
       \/ /\ ~(Readable /\ StateOf(case[p]) = "reserved_unknown_spend")
          /\ Reject(p, IF Readable THEN "halt" ELSE "ledger")
    /\ UNCHANGED <<ledgerVars, now, files, calls>>

\* _write_progress: a temporary file named by the pid, created exclusively,
\* replaces the progress file.
WriteTemporary(p) ==
    /\ pc[p] = "progress"
    /\ \/ /\ ~temporary[p]
          /\ temporary' = [temporary EXCEPT ![p] = TRUE]
          /\ Continue(p, "replace")
       \/ temporary[p] /\ Reject(p, "temporary") /\ UNCHANGED temporary
    /\ UNCHANGED <<ledgerVars, now, response, result, progress, calls>>

\* Mutant: the last case is not looked at.
HaltedEarlier(p) == \E i \in DOMAIN issued[p] : i < NumCases /\ issued[p][i] = Halt

Halted(p) == Halt \in Range(issued[p])

\* The next case, the last word of a halted run, or the barrier.
ReplaceProgress(p) ==
    /\ pc[p] = "replace"
    /\ temporary' = [temporary EXCEPT ![p] = FALSE]
    /\ progress' = [progress EXCEPT ![p] = status[p]]
    /\ \/ /\ status[p] = "generation" /\ (Halted(p) \/ case[p] = NumCases)
          /\ status' = [status EXCEPT ![p] = IF Halted(p) THEN "unknown_spend_halt"
                                             ELSE "generation_complete"]
          /\ Goto(p, "progress")
          /\ UNCHANGED <<case, seen, since, got, issued, why, holder>>
       \/ /\ status[p] = "generation" /\ ~Halted(p) /\ case[p] < NumCases
          /\ case' = [case EXCEPT ![p] = @ + 1]
          /\ ForgetCase(p)
          /\ Goto(p, "read")
          /\ UNCHANGED <<issued, status, why, holder>>
       \/ /\ status[p] # "generation"
          /\ Goto(p, "done")
          /\ Release(p)
          /\ UNCHANGED local
    /\ UNCHANGED <<ledgerVars, now, response, result, calls>>

-----------------------------------------------------------------------------
(* The environment. *)

\* The process dies: its locals are gone and the kernel drops its lock.
Die(p) == /\ Goto(p, "idle")
          /\ Release(p)
          /\ ForgetRun(p)
          /\ UNCHANGED <<why, now, files, calls>>

Crash(p) == ~AtRest(p) /\ Die(p) /\ UNCHANGED ledgerVars

KilledInAppend(p) ==
    /\ \/ pc[p] = "reserve" /\ MayReserve(case[p])
       \/ pc[p] = "record" /\ MayRecordResponse(case[p], got[p])
       \/ pc[p] = "complete" /\ MayRecordResult(case[p], got[p])
    /\ torn' = TRUE
    /\ Die(p)
    /\ UNCHANGED <<log, spent>>

Tick == /\ \/ now < MaxTime /\ now' = now + 1
           \/ ClockStepsBack /\ now > 0 /\ now' = now - 1
        /\ UNCHANGED <<ledgerVars, holder, files, calls, pc, local>>

Run(p) ==
    \/ ReadLedger(p) \/ ReserveCase(p) \/ CallProvider(p) \/ ProviderAnswers(p)
    \/ CreateResponse(p) \/ FillResponse(p) \/ CheckResponse(p) \/ LoadResponse(p)
    \/ RecordCaseResponse(p) \/ CompareResult(p) \/ CreateResult(p) \/ FillResult(p)
    \/ RecordCaseResult(p) \/ RecordHalt(p) \/ WriteTemporary(p) \/ ReplaceProgress(p)

GenNext == \/ \E p \in Controllers : Start(p) \/ Run(p) \/ Crash(p) \/ KilledInAppend(p)
           \/ Tick

GenSpec == GenInit /\ [][GenNext]_vars

\* A controller that runs keeps running: its provider call ends in an answer or in
\* the adapter's timeout.  An operator starts it again whenever it has stopped.
GenResumedSpec ==
    GenSpec /\ \A p \in Controllers : WF_vars(Run(p)) /\ WF_vars(Start(p))

-----------------------------------------------------------------------------
Labels == {"idle", "rejected", "done", "read", "reserve", "call", "calling",
           "create_response", "fill_response", "check", "load", "record", "compare",
           "create_result", "fill_result", "complete", "halt", "progress", "replace"}

Reasons == {"none", "locked", "ledger", "reservation", "exists", "response", "result",
            "conflict", "refused", "halt", "temporary"}

Contents == Responses \cup {NoFile, Torn}

GenTypeOK ==
    /\ LedgerTypeOK
    /\ now \in Nat
    /\ holder \in [Locks -> Controllers \cup {NoOne}]
    /\ response \in [Cases -> Contents]
    /\ result \in [Cases -> Contents \cup {Halt}]
    /\ temporary \in [Controllers -> BOOLEAN]
    /\ progress \in [Controllers -> {"none", "generation", "unknown_spend_halt",
                                     "generation_complete"}]
    /\ calls \in [Cases -> Nat]
    /\ pc \in [Controllers -> Labels]
    /\ case \in [Controllers -> Cases]
    /\ seen \in [Controllers -> {"available", "reserved_unknown_spend",
                                 "response_durable"}]
    /\ since \in [Controllers -> Nat]
    /\ got \in [Controllers -> Responses \cup {NoResponse, Halt}]
    /\ issued \in [Controllers -> Seq(Responses \cup {Halt})]
    /\ status \in [Controllers -> {"generation", "unknown_spend_halt",
                                   "generation_complete"}]
    /\ why \in [Controllers -> Reasons]

\* The provider is called at most once for a case, over any number of
\* controllers, crashes and restarts ("the provider can be called at most once").
AtMostOneCall == \A c \in Cases : calls[c] <= 1

\* The ledger is at every moment a beginning of the log the public inspector
\* asks for: the claim and then, case by case in canonical order, reservation,
\* response, completion.  The inspector can refuse no campaign that completes.
PublishablePrefix ==
    \A i \in 2 .. Len(log) :
        /\ log[i].case = (i - 2) \div 3 + 1
        /\ log[i].type = CASE (i - 2) % 3 = 0 -> "case_reserved"
                           [] (i - 2) % 3 = 1 -> "provider_response_durable"
                           [] (i - 2) % 3 = 2 -> "case_completed"

\* Nothing but a cut line makes the ledger unreadable.  An append does not
\* compare its timestamp, taken before the guard is locked, with the last line's:
\* that it is never older rests on which controllers can be waiting at all.
StaysReadable == (torn \/ Verifies(log, torn)) /\ PublishablePrefix

\* A case whose unknown-spend result is on file is never settled later.
HaltIsFinal ==
    \A c \in Cases : result[c] = Halt => StateOf(c) \in {"reserved_unknown_spend"}

\* What the ledger binds is on file, whole.
BoundIsDurable ==
    \A c \in Cases, r \in Responses :
        /\ BindsResponse(c, r) => response[c] = r
        /\ BindsResult(c, r) => result[c] = r

\* A run that ends with the barrier leaves a ledger the public inspector accepts
\* and binds exactly the results it names, each of them on file.
BarrierIsBound ==
    \A p \in Controllers :
        pc[p] = "done" /\ status[p] = "generation_complete" =>
            /\ torn \/ PublicAccepts(log, torn)
            /\ Len(issued[p]) = NumCases
            /\ \A c \in Cases : /\ BindsResult(c, issued[p][c])
                               /\ result[c] = issued[p][c]

\* A run is rejected because the lock is held, because a file was cut short or
\* because the clock was set back, and for no other reason.  In particular no
\* response that was paid for is refused, and no resumed run meets a state it
\* cannot go on from.
RejectionsExplained ==
    \A p \in Controllers :
        CASE why[p] \in {"none", "locked"} -> TRUE
          [] why[p] = "ledger" -> torn \/ ~Chronological(log)
          [] why[p] = "response" -> \E c \in Cases : response[c] = Torn
          [] why[p] = "conflict" -> \E c \in Cases : result[c] = Torn
          [] why[p] = "temporary" -> temporary[p]
          [] OTHER -> FALSE

\* Once processes no longer die and the operator starts the campaign again, a
\* reservation is settled, or declared an unknown spend, unless a file was cut or
\* the clock was set back between two lines.
Intact == /\ ~torn /\ Chronological(log)
          /\ \A c \in Cases : Torn \notin {response[c], result[c]}
          /\ \A p \in Controllers : ~temporary[p]

CrashesEnd == <>[][\A p \in Controllers : ~Crash(p) /\ ~KilledInAppend(p)]_vars

ReservationsResolve ==
    CrashesEnd /\ []<>Intact =>
        \A c \in Cases : c \in Unresolved ~> (c \in Settled \/ result[c] = Halt)
=============================================================================
