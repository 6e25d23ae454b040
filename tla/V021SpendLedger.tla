--------------------------- MODULE V021SpendLedger ---------------------------
(***************************************************************************)
(* The irreversible spend ledger of the v0.2.1 campaign                    *)
(* (benchmark_v021_ledger.py): an append-only file of hash-chained events, *)
(* one claim event and then at most one reservation, one durable provider  *)
(* response and one completion for each case.                              *)
(*                                                                         *)
(* Every operation re-reads and re-verifies the whole file under the       *)
(* ledger guard, so an operation is one atomic step here.  The hash chain  *)
(* makes a line depend on all lines before it; a log that is a sequence of *)
(* events says the same.  What the chain does not exclude, a last line     *)
(* that is cut short, is the flag torn.                                    *)
(***************************************************************************)
EXTENDS Integers, Sequences, FiniteSets, SequencesExt

CONSTANTS NumCases,     \* 20 in the source: the size of the cohort
          PerCaseCap,   \* PER_CASE_CAP_USD, in the smallest unit of money
          TotalCap,     \* TOTAL_CAP_USD
          Responses,    \* the provider responses (their digests)
          CostOf,       \* the cost each response reports
          NoResponse,   \* the None of a digest field
          AuthorizedAt, \* authorized_at of the authorization
          MaxTime       \* bound of the timestamps

ASSUME CasesAssumption == NumCases \in Nat \ {0}
ASSUME CapAssumption == /\ PerCaseCap \in Nat
                        /\ TotalCap \in Nat
                        /\ NumCases * PerCaseCap <= TotalCap
ASSUME ResponseAssumption == /\ CostOf \in [Responses -> Nat]
                             /\ NoResponse \notin Responses
ASSUME TimeAssumption == AuthorizedAt \in Nat /\ MaxTime \in Nat

VARIABLES log,    \* the complete lines of the ledger file
          torn,   \* the file ends in an incomplete line
          spent   \* the total _derive_states adds up: snapshot.actual_cost_usd

ledgerVars == <<log, torn, spent>>

Cases == 1 .. NumCases

EventTypes == {"ledger_claimed", "case_reserved", "provider_response_durable",
               "case_completed"}

Event(type, c, r, s, t) ==
    [type |-> type, case |-> c, response |-> r, result |-> s, at |-> t]

Events == [type : EventTypes, case : Cases \cup {0},
           response : Responses \cup {NoResponse},
           result : Responses \cup {NoResponse}, at : Nat]

-----------------------------------------------------------------------------
(* Reading the file back: verify_v021_spend_ledger and _derive_states.     *)

\* An event of this type and case is among the first n lines.
Logged(l, n, type, c) == \E i \in 1 .. n : l[i].type = type /\ l[i].case = c

\* The derived state of case c after the first n lines.
StateAfter(l, n, c) ==
    IF Logged(l, n, "case_completed", c) THEN "completed"
    ELSE IF Logged(l, n, "provider_response_durable", c) THEN "response_durable"
    ELSE IF Logged(l, n, "case_reserved", c) THEN "reserved_unknown_spend"
    ELSE "available"

StateOf(c) == StateAfter(log, Len(log), c)

\* The ledger binds response r, or result s, to case c.
BindsResponse(c, r) ==
    \E i \in 1 .. Len(log) : /\ log[i].type = "provider_response_durable"
                            /\ log[i].case = c
                            /\ log[i].response = r
BindsResult(c, s) ==
    \E i \in 1 .. Len(log) : /\ log[i].type = "case_completed"
                            /\ log[i].case = c
                            /\ log[i].result = s

Unresolved == {c \in Cases : StateOf(c) = "reserved_unknown_spend"}
Settled == {c \in Cases : StateOf(c) \in {"response_durable", "completed"}}

\* Line i is one _derive_states accepts after the lines before it, but for the total.
Follows(l, i) ==
    LET e == l[i]
        before == StateAfter(l, i - 1, e.case)
    IN  /\ e.case \in Cases
        /\ \/ e.type = "case_reserved" /\ before = "available"
           \/ /\ e.type = "provider_response_durable" /\ before = "reserved_unknown_spend"
              /\ CostOf[e.response] <= PerCaseCap
           \/ /\ e.type = "case_completed" /\ before = "response_durable"
              /\ \E j \in 1 .. i - 1 :
                    /\ l[j].type = "provider_response_durable"
                    /\ l[j].case = e.case
                    /\ l[j].response = e.response

Chronological(l) == \A i \in 1 .. Len(l) - 1 : l[i].at <= l[i + 1].at

\* What line n adds to the sum.
Billed(l, n) == IF l[n].type = "provider_response_durable" THEN CostOf[l[n].response] ELSE 0

\* The sum of the costs the responses on file report.
Total(l) ==
    LET sum[n \in 0 .. Len(l)] == IF n = 0 THEN 0 ELSE sum[n - 1] + Billed(l, n)
    IN  sum[Len(l)]

\* What verify_v021_spend_ledger accepts: _derive_states compares the sum with the cap
\* at every response; the costs are not negative, so the last comparison is the one
\* that counts.
Verifies(l, cut) ==
    /\ ~cut
    /\ l # << >> /\ l[1].type = "ledger_claimed"
    /\ l[1].at >= AuthorizedAt
    /\ Chronological(l)
    /\ \A i \in 2 .. Len(l) : Follows(l, i)
    /\ Total(l) <= TotalCap

\* Lines 3c - 1, 3c and 3c + 1 are the transaction of case c.
Transacted(l, c) ==
    LET reserved == l[3 * c - 1]
        response == l[3 * c]
        completed == l[3 * c + 1]
    IN  /\ reserved.type = "case_reserved"
        /\ response.type = "provider_response_durable"
        /\ completed.type = "case_completed"
        /\ {reserved.case, response.case, completed.case} = {c}
        /\ completed.response = response.response
        /\ CostOf[response.response] <= PerCaseCap

\* Mutant: the timestamps are not compared.
PublicAcceptsAnyTimes(l, cut) ==
    /\ ~cut
    /\ Len(l) = 1 + 3 * NumCases /\ l[1].type = "ledger_claimed"
    /\ \A c \in Cases : Transacted(l, c)
    /\ Total(l) <= TotalCap

\* What inspect_v021_public_spend_ledger accepts: the claim and then, in the
\* canonical order of the cases, exactly one transaction per case.
PublicAccepts(l, cut) ==
    /\ ~cut
    /\ Len(l) = 1 + 3 * NumCases /\ l[1].type = "ledger_claimed"
    /\ Chronological(l)
    /\ \A c \in Cases : Transacted(l, c)
    /\ Total(l) <= TotalCap

-----------------------------------------------------------------------------
(* The operations.  Each returns without a change, refuses, or appends.     *)

Append1(e) == /\ log' = Append(log, e)
              /\ UNCHANGED torn

\* Mutant: the case may have a reservation already.
MayReserveAgain(c) == Verifies(log, torn) /\ Unresolved = {}

\* reserve_v021_case: no second reservation of a case, and none of any case
\* while another one is unresolved.
MayReserve(c) == /\ Verifies(log, torn)
                 /\ Unresolved = {}
                 /\ StateOf(c) = "available"

Reserve(c, t) == /\ MayReserve(c)
                 /\ Append1(Event("case_reserved", c, NoResponse, NoResponse, t))
                 /\ UNCHANGED spent

\* record_v021_provider_response.  The recovered reservation must match the
\* ledger's; a response already bound is accepted again only if it is the same.
SameResponse(c, r) == /\ Verifies(log, torn)
                      /\ BindsResponse(c, r)

\* Mutant: the caps are left to the verifier.
MayRecordAnyCost(c, r) == /\ Verifies(log, torn)
                          /\ StateOf(c) = "reserved_unknown_spend"

MayRecordResponse(c, r) == /\ Verifies(log, torn)
                           /\ StateOf(c) = "reserved_unknown_spend"
                           /\ CostOf[r] <= PerCaseCap
                           /\ spent + CostOf[r] <= TotalCap

RecordResponse(c, r, t) ==
    /\ MayRecordResponse(c, r)
    /\ Append1(Event("provider_response_durable", c, r, NoResponse, t))
    /\ spent' = spent + CostOf[r]

\* record_v021_case_result.
SameResult(c, r, s) == /\ Verifies(log, torn)
                       /\ BindsResponse(c, r)
                       /\ BindsResult(c, s)

MayRecordResult(c, r) == /\ Verifies(log, torn)
                         /\ StateOf(c) = "response_durable"
                         /\ BindsResponse(c, r)

RecordResult(c, r, s, t) ==
    /\ MayRecordResult(c, r)
    /\ Append1(Event("case_completed", c, r, s, t))
    /\ UNCHANGED spent

\* The file claim_v021_spend_ledger leaves: one line.
ClaimLine(t) == Event("ledger_claimed", 0, NoResponse, NoResponse, t)

LedgerClaimed(t) == /\ log = <<ClaimLine(t)>>
                    /\ torn = FALSE
                    /\ spent = 0

\* claimed_at is the caller's.  A claim dated before the authorization stays, over a
\* ledger that never verifies.
LedgerInit == \E t \in 0 .. MaxTime : LedgerClaimed(t)

\* The process is stopped, or the file system takes only part of the line,
\* inside an append.
CutShort == /\ \/ \E c \in Cases : MayReserve(c)
               \/ \E c \in Cases, r \in Responses :
                     MayRecordResponse(c, r) \/ MayRecordResult(c, r)
            /\ torn' = TRUE
            /\ UNCHANGED <<log, spent>>

-----------------------------------------------------------------------------
(* The ledger on its own, under clients that call any operation with any   *)
(* arguments and any timestamps in any order.                              *)

LedgerNext ==
    \/ \E c \in Cases, t \in 0 .. MaxTime :
          \/ Reserve(c, t)
          \/ \E r \in Responses : \/ RecordResponse(c, r, t)
                                 \/ \E s \in Responses : RecordResult(c, r, s, t)
    \/ CutShort

LedgerSpec == LedgerInit /\ [][LedgerNext]_ledgerVars

LedgerTypeOK == /\ log \in Seq(Events) /\ log # << >>
                /\ torn \in BOOLEAN
                /\ spent \in Nat

\* At most one reservation is unresolved, whoever calls the ledger and in
\* whatever order (reserve_v021_case: "an unresolved reservation forbids all
\* new spend").
OneUnresolved == \A c, d \in Unresolved : c = d

\* The money spent and the largest price of what is still unresolved fit under
\* the total cap.  reserve_v021_case checks no cap: were this false, a response
\* that was paid for could be refused by record_v021_provider_response.
ReservationsFit ==
    spent + PerCaseCap * Cardinality(Unresolved) <= TotalCap

\* The two readers agree: a ledger the public inspector accepts is one the
\* campaign's own verifier accepts, with every case completed.
PublicReaderAgrees ==
    PublicAccepts(log, torn) =>
        Verifies(log, torn) /\ \A c \in Cases : StateOf(c) = "completed"
=============================================================================
