------------------------------ MODULE V02Ledger ------------------------------
(***************************************************************************)
(* The event ledger of a v0.2 scored campaign (benchmark_v02_runner.py).   *)
(*                                                                         *)
(* _validate_transitions folds the chain of events into one state per      *)
(* attempt, _AttemptState, and refuses a chain with an event that does not *)
(* fit.  Every append decodes the whole chain with the new event in it     *)
(* while it holds the file lock, so an append is one step that either has  *)
(* the effect of its event or is rejected.  This module is that fold:      *)
(* May... is what an event is accepted for, the operator without May its   *)
(* effect.  Configuration, identities and digests are those of the frozen  *)
(* campaign and are left out, but for the attempt an event belongs to.     *)
(***************************************************************************)
EXTENDS Integers, FiniteSets

CONSTANTS Cases,       \* the preregistered cases
          Generators,  \* processes that generate; each can start one attempt
          CaseOf,      \* the case of each of them
          NoOne

ASSUME AttemptAssumption == /\ CaseOf \in [Generators -> Cases]
                            /\ NoOne \notin Generators

VARIABLES attempts,  \* the attempt of each case, as folded from the events
          barrier    \* campaign_generation_barrier_frozen is in the chain

ledger == <<attempts, barrier>>

Phases == {"generation", "differential", "result_write"}
BeforeBarrier == {"preparation", "model", "artifact"}
Categories == BeforeBarrier \cup {"sandbox", "storage"}

\* "unknown" is a null amount.  A known one is "zero" or measured, and may have brought
\* the costs of its attempt above what was reserved for it, above what a case may cost,
\* or both: the cost of the preparation, which is no part of the reservation, counts there.
AboveReservation == {"over_reservation", "over_both"}
AboveCap == {"over_cap", "over_both"}
Measured == {"measured"} \cup AboveReservation \cup AboveCap
Amounts == {"absent", "unknown", "zero"} \cup Measured
Usages == {"unknown"} \cup Measured

\* Without a candidate an attempt ends as "no_output", with one and no verdict on it as
\* "infrastructure", also if the reason is that it cost too much.
Outcomes == {"verdict", "infrastructure", "no_output"}

NoAttempt ==
    [id |-> NoOne, status |-> "absent", phase |-> "none", began |-> {}, ended |-> {},
     generated |-> "none", call |-> "none", usage |-> "none", candidate |-> FALSE,
     costs |-> [k \in Categories |-> "absent"], disposition |-> "none",
     recovered |-> FALSE, outcome |-> "none"]

AttemptStates ==
    [id : Generators \cup {NoOne}, status : {"absent", "open", "crashed", "finished"},
     phase : Phases \cup {"none"}, began : SUBSET Phases, ended : SUBSET Phases,
     generated : {"none", "succeeded", "failed"},
     call : {"none", "started", "succeeded", "failed"}, usage : Usages \cup {"none"},
     candidate : BOOLEAN, costs : [Categories -> Amounts],
     disposition : {"none", "candidate_submitted", "no_candidate"},
     recovered : BOOLEAN, outcome : Outcomes \cup {"none"}]

\* The attempt that process g started, if its start is in the chain.  An event of
\* an attempt that is not there is rejected, as is one after a terminal event.
Of(g) == IF attempts[CaseOf[g]].id = g THEN attempts[CaseOf[g]] ELSE NoAttempt
Open(a) == a.status = "open"
Terminal(a) == a.status \in {"crashed", "finished"}

Recorded(a) == {k \in Categories : a.costs[k] # "absent"}
Known(a, k) == a.costs[k] \in {"zero"} \cup Measured
AllKnown(a) == \A k \in Categories : Known(a, k)

\* _assert_total_within_reservation
WithinReservation(a) == \A k \in Categories : a.costs[k] \notin {"unknown"} \cup AboveReservation

Called(a) == a.call \in {"succeeded", "failed"}
Unmatched(a) == a.call = "started"

-----------------------------------------------------------------------------
(* attempt_started, phases *)

MayStartAttempt(g) == ~barrier /\ attempts[CaseOf[g]] = NoAttempt
StartAttempt(g) == [NoAttempt EXCEPT !.id = g, !.status = "open"]

MayStartPhase(a, phase) ==
    /\ Open(a) /\ a.phase = "none" /\ phase \notin a.began
    /\ phase = "generation" => a.ended = {}
    /\ phase = "differential" => a.candidate /\ barrier
    /\ phase = "result_write" => Recorded(a) = Categories
StartPhase(a, phase) == [a EXCEPT !.phase = phase, !.began = @ \cup {phase}]

MayFinishPhase(a, phase, status) ==
    /\ Open(a) /\ a.phase = phase
    /\ phase = "generation" /\ status = "succeeded" => Called(a) /\ a.candidate
FinishPhase(a, status) ==
    [a EXCEPT !.phase = "none", !.ended = @ \cup {a.phase},
              !.generated = IF a.phase = "generation" THEN status ELSE @]

-----------------------------------------------------------------------------
(* The model call, its candidate, costs *)

MayStartCall(a) == Open(a) /\ a.phase = "generation" /\ a.call = "none"
StartCall(a) == [a EXCEPT !.call = "started"]

MaySubmit(a) == Open(a) /\ a.phase = "generation" /\ Unmatched(a) /\ ~a.candidate
Submit(a) == [a EXCEPT !.candidate = TRUE]

MayFinishCall(a, status) ==
    /\ Open(a) /\ a.phase = "generation" /\ Unmatched(a)
    /\ status = "succeeded" => a.candidate
FinishCall(a, status, usage) == [a EXCEPT !.call = status, !.usage = usage]

\* A model cost needs its finished call; without a call it is zero, and for a call
\* that is not finished it is unknown.
MayRecordCost(a, category, amount) ==
    /\ Open(a) /\ a.costs[category] = "absent"
    /\ category = "model" => \/ Called(a)
                             \/ a.call = "none" /\ amount = "zero"
                             \/ Unmatched(a) /\ amount = "unknown"
RecordCost(a, category, amount) == [a EXCEPT !.costs[category] = amount]

-----------------------------------------------------------------------------
(* Dispositions, the barrier, the end of an attempt, recovery *)

MayDispose(a, status) ==
    /\ Open(a) /\ ~barrier /\ a.disposition = "none"
    /\ a.phase = "none" /\ "generation" \in a.ended
    /\ Recorded(a) = BeforeBarrier
    /\ Known(a, "model") /\ Known(a, "artifact")
    /\ a.candidate <=> status = "candidate_submitted"
Dispose(a, status) == [a EXCEPT !.disposition = status]

\* freeze_v02_campaign_generation_barrier: _generation_barrier_payload_from_events,
\* made again under the lock, and what _validate_transitions asks of the event.
MayFreeze ==
    /\ ~barrier
    /\ \A c \in Cases : LET a == attempts[c] IN
           /\ a.disposition # "none" /\ "differential" \notin a.began
           /\ Recorded(a) = BeforeBarrier /\ \A k \in BeforeBarrier : Known(a, k)

MayFinishAttempt(a) ==
    /\ Open(a) /\ a.phase = "none" /\ "result_write" \in a.ended
    /\ Recorded(a) = Categories
FinishAttempt(a, outcome) == [a EXCEPT !.status = "finished", !.outcome = outcome]

MayCrash(a) == Open(a)
Crash(a) == [a EXCEPT !.status = "crashed"]

MayRecover(a) ==
    /\ a.status \in {"open", "crashed"} /\ ~a.recovered /\ a.call # "none"
    /\ a.phase = "generation" \/ "generation" \in a.ended
Recover(a) == [a EXCEPT !.status = "open", !.recovered = TRUE]

LedgerInit == /\ attempts = [c \in Cases |-> NoAttempt]
              /\ barrier = FALSE

LedgerTypeOK == /\ attempts \in [Cases -> AttemptStates]
                /\ barrier \in BOOLEAN
=============================================================================
