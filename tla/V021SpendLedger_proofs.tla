------------------------ MODULE V021SpendLedger_proofs ------------------------
(***************************************************************************)
(* Proofs about the spend ledger, for any number of cases, any responses   *)
(* and any caps that satisfy CapAssumption.                                *)
(***************************************************************************)
EXTENDS V021SpendLedger, FiniteSetTheorems, TLAPS

\* What any client, or a crash, can do to the ledger.
LedgerStep ==
    \/ \E c \in Cases, t \in Nat : Reserve(c, t)
    \/ \E c \in Cases, r \in Responses, t \in Nat : RecordResponse(c, r, t)
    \/ \E c \in Cases, r, s \in Responses, t \in Nat : RecordResult(c, r, s, t)
    \/ (torn' = torn \/ torn' = TRUE) /\ UNCHANGED <<log, spent>>

\* Every step of the specification of the ledger is one of these.
LEMMA LedgerNextStep ==
    ASSUME LedgerTypeOK, [LedgerNext]_ledgerVars
    PROVE  LedgerStep
<1> USE TimeAssumption
<1>1. CASE \E c \in Cases, t \in 0 .. MaxTime : Reserve(c, t)
  BY <1>1 DEF LedgerStep
<1>2. CASE \E c \in Cases, t \in 0 .. MaxTime, r \in Responses : RecordResponse(c, r, t)
  BY <1>2 DEF LedgerStep
<1>3. CASE \E c \in Cases, t \in 0 .. MaxTime, r \in Responses, s \in Responses :
              RecordResult(c, r, s, t)
  BY <1>3 DEF LedgerStep
<1>4. CASE CutShort
  BY <1>4 DEF CutShort, LedgerStep
<1>5. CASE UNCHANGED ledgerVars
  BY <1>5 DEF ledgerVars, LedgerStep, LedgerTypeOK
<1> QED BY <1>1, <1>2, <1>3, <1>4, <1>5 DEF LedgerNext

\* A step keeps the types.
LEMMA LedgerTypeStep ==
    ASSUME LedgerTypeOK, LedgerStep
    PROVE  LedgerTypeOK'
<1> USE DEF LedgerTypeOK
<1>1. ASSUME NEW e \in Events, log' = Append(log, e)
      PROVE  log' \in Seq(Events) /\ log' # << >>
  BY <1>1
<1>2. ASSUME NEW c \in Cases, NEW t \in Nat, Reserve(c, t)
      PROVE  LedgerTypeOK'
  <2>1. Event("case_reserved", c, NoResponse, NoResponse, t) \in Events
    BY DEF Event, Events, EventTypes
  <2> QED BY <1>1, <1>2, <2>1 DEF Reserve, Append1
<1>3. ASSUME NEW c \in Cases, NEW r \in Responses, NEW t \in Nat, RecordResponse(c, r, t)
      PROVE  LedgerTypeOK'
  <2>1. Event("provider_response_durable", c, r, NoResponse, t) \in Events
    BY DEF Event, Events, EventTypes
  <2>2. CostOf[r] \in Nat
    BY ResponseAssumption
  <2> QED BY <1>1, <1>3, <2>1, <2>2 DEF RecordResponse, Append1
<1>4. ASSUME NEW c \in Cases, NEW r \in Responses, NEW s \in Responses, NEW t \in Nat,
             RecordResult(c, r, s, t)
      PROVE  LedgerTypeOK'
  <2>1. Event("case_completed", c, r, s, t) \in Events
    BY DEF Event, Events, EventTypes
  <2> QED BY <1>1, <1>4, <2>1 DEF RecordResult, Append1
<1> QED BY <1>2, <1>3, <1>4 DEF LedgerStep

LEMMA ClaimedType == ASSUME NEW t \in Nat, LedgerClaimed(t) PROVE LedgerTypeOK
<1> DEFINE e == ClaimLine(t)
<1>1. e \in Events
  BY DEF ClaimLine, Event, Events, EventTypes
<1>2. log = <<e>> /\ torn = FALSE /\ spent = 0
  BY DEF LedgerClaimed
<1> HIDE DEF e
<1>3. <<e>> \in Seq(Events) /\ Len(<<e>>) = 1
  BY <1>1
<1> QED BY <1>2, <1>3 DEF LedgerTypeOK

LEMMA LedgerInitType == LedgerInit => LedgerTypeOK
<1> SUFFICES ASSUME NEW t \in 0 .. MaxTime, LedgerClaimed(t) PROVE LedgerTypeOK
  BY DEF LedgerInit
<1> QED BY ClaimedType, TimeAssumption

\* The ledger file only ever holds well-formed events, and the running total is a
\* natural number.
THEOREM LedgerTypeCorrect == LedgerSpec => []LedgerTypeOK
<1>1. LedgerInit => LedgerTypeOK
  BY LedgerInitType
<1>2. LedgerTypeOK /\ [LedgerNext]_ledgerVars => LedgerTypeOK'
  BY LedgerNextStep, LedgerTypeStep
<1> QED BY <1>1, <1>2, PTL DEF LedgerSpec
-----------------------------------------------------------------------------
(* The derived state of a case after an append. *)

LEMMA LoggedAppend ==
    ASSUME NEW l \in Seq(Events), NEW e \in Events, NEW type, NEW c
    PROVE  Logged(Append(l, e), Len(Append(l, e)), type, c)
              <=> Logged(l, Len(l), type, c) \/ (e.type = type /\ e.case = c)
<1>1. /\ Len(Append(l, e)) = Len(l) + 1
      /\ Len(l) \in Nat
      /\ \A i \in 1 .. Len(l) : Append(l, e)[i] = l[i]
      /\ Append(l, e)[Len(l) + 1] = e
  OBVIOUS
<1> QED BY <1>1 DEF Logged

\* An append leaves the other cases as they are, and moves its own case on.
LEMMA StateAppend ==
    ASSUME LedgerTypeOK, NEW e \in Events, log' = Append(log, e), NEW c \in Cases
    PROVE  StateOf(c)' =
              IF e.case # c \/ e.type = "ledger_claimed" THEN StateOf(c)
              ELSE IF e.type = "case_completed" \/ StateOf(c) = "completed"
                   THEN "completed"
              ELSE IF \/ e.type = "provider_response_durable"
                      \/ StateOf(c) = "response_durable"
                   THEN "response_durable"
              ELSE "reserved_unknown_spend"
<1>1. /\ StateOf(c) = StateAfter(log, Len(log), c)
      /\ StateOf(c)' = StateAfter(Append(log, e), Len(Append(log, e)), c)
  BY DEF StateOf
<1>2. \A type : Logged(Append(log, e), Len(Append(log, e)), type, c)
                   <=> Logged(log, Len(log), type, c) \/ (e.type = type /\ e.case = c)
  BY LoggedAppend DEF LedgerTypeOK
<1>3. e.type \in EventTypes
  BY DEF Events
<1> QED BY <1>1, <1>2, <1>3 DEF StateAfter, EventTypes

LEMMA StateRange ==
    \A c : StateOf(c) \in {"available", "reserved_unknown_spend", "response_durable",
                           "completed"}
BY DEF StateOf, StateAfter

\* Nothing but a log that grows can change the derived states.
LEMMA StateUnchanged == ASSUME UNCHANGED log, NEW c PROVE StateOf(c)' = StateOf(c)
BY DEF StateOf

LEMMA ReserveStates ==
    ASSUME LedgerTypeOK, NEW c \in Cases, NEW t \in Nat, Reserve(c, t)
    PROVE  Unresolved = {} /\ Unresolved' = {c} /\ c \notin Settled /\ Settled' = Settled
<1> DEFINE e == Event("case_reserved", c, NoResponse, NoResponse, t)
<1>1. e \in Events /\ e.case = c /\ e.type = "case_reserved"
  BY DEF Event, Events, EventTypes
<1>2. log' = Append(log, e)
  BY DEF Reserve, Append1
<1> HIDE DEF e
<1>3. StateOf(c) = "available" /\ Unresolved = {}
  BY DEF Reserve, MayReserve
<1>4. StateOf(c)' = "reserved_unknown_spend"
  BY <1>1, <1>2, <1>3, StateAppend
<1>5. \A d \in Cases : d # c => StateOf(d)' = StateOf(d)
  BY <1>1, <1>2, StateAppend
<1> QED BY <1>3, <1>4, <1>5 DEF Unresolved, Settled

LEMMA ResponseStates ==
    ASSUME LedgerTypeOK, NEW c \in Cases, NEW r \in Responses, NEW t \in Nat,
           RecordResponse(c, r, t)
    PROVE  /\ c \in Unresolved /\ Unresolved' = Unresolved \ {c}
           /\ c \notin Settled /\ Settled' = Settled \cup {c}
<1> DEFINE e == Event("provider_response_durable", c, r, NoResponse, t)
<1>1. e \in Events /\ e.case = c /\ e.type = "provider_response_durable"
  BY DEF Event, Events, EventTypes
<1>2. log' = Append(log, e)
  BY DEF RecordResponse, Append1
<1> HIDE DEF e
<1>3. StateOf(c) = "reserved_unknown_spend"
  BY DEF RecordResponse, MayRecordResponse
<1>4. StateOf(c)' = "response_durable"
  BY <1>1, <1>2, <1>3, StateAppend
<1>5. \A d \in Cases : d # c => StateOf(d)' = StateOf(d)
  BY <1>1, <1>2, StateAppend
<1> QED BY <1>3, <1>4, <1>5 DEF Unresolved, Settled

LEMMA ResultStates ==
    ASSUME LedgerTypeOK, NEW c \in Cases, NEW r \in Responses, NEW s \in Responses,
           NEW t \in Nat, RecordResult(c, r, s, t)
    PROVE  Unresolved' = Unresolved /\ Settled' = Settled
<1> DEFINE e == Event("case_completed", c, r, s, t)
<1>1. e \in Events /\ e.case = c /\ e.type = "case_completed"
  BY DEF Event, Events, EventTypes
<1>2. log' = Append(log, e)
  BY DEF RecordResult, Append1
<1> HIDE DEF e
<1>3. StateOf(c) = "response_durable"
  BY DEF RecordResult, MayRecordResult
<1>4. StateOf(c)' = "completed"
  BY <1>1, <1>2, <1>3, StateAppend
<1>5. \A d \in Cases : d # c => StateOf(d)' = StateOf(d)
  BY <1>1, <1>2, StateAppend
<1> QED BY <1>3, <1>4, <1>5 DEF Unresolved, Settled
\* A case that is not available any more never becomes available again, and a
\* torn line stays.
LEMMA LedgerStable ==
    ASSUME LedgerTypeOK, LedgerStep, NEW c \in Cases
    PROVE  /\ torn => torn'
           /\ StateOf(c) # "available" => StateOf(c)' # "available"
<1>1. ASSUME NEW e \in Events, log' = Append(log, e)
      PROVE  StateOf(c) # "available" => StateOf(c)' # "available"
  BY <1>1, StateAppend
<1>2. CASE \E d \in Cases, t \in Nat : Reserve(d, t)
  <2>1. PICK d \in Cases, t \in Nat : Reserve(d, t)
    BY <1>2
  <2>2. Event("case_reserved", d, NoResponse, NoResponse, t) \in Events
    BY DEF Event, Events, EventTypes
  <2> QED BY <1>1, <2>1, <2>2 DEF Reserve, Append1
<1>3. CASE \E d \in Cases, r \in Responses, t \in Nat : RecordResponse(d, r, t)
  <2>1. PICK d \in Cases, r \in Responses, t \in Nat : RecordResponse(d, r, t)
    BY <1>3
  <2>2. Event("provider_response_durable", d, r, NoResponse, t) \in Events
    BY DEF Event, Events, EventTypes
  <2> QED BY <1>1, <2>1, <2>2 DEF RecordResponse, Append1
<1>4. CASE \E d \in Cases, r, s \in Responses, t \in Nat : RecordResult(d, r, s, t)
  <2>1. PICK d \in Cases, r \in Responses, s \in Responses, t \in Nat :
              RecordResult(d, r, s, t)
    BY <1>4
  <2>2. Event("case_completed", d, r, s, t) \in Events
    BY DEF Event, Events, EventTypes
  <2> QED BY <1>1, <2>1, <2>2 DEF RecordResult, Append1
<1>5. CASE (torn' = torn \/ torn' = TRUE) /\ UNCHANGED <<log, spent>>
  BY <1>5, StateUnchanged
<1> QED BY <1>2, <1>3, <1>4, <1>5 DEF LedgerStep
-----------------------------------------------------------------------------
(* The cap.  reserve_v021_case looks at no cap at all; what makes every     *)
(* reservation affordable is that a settled case costs at most the cap of a *)
(* case, and that a case that can be reserved is not settled yet.           *)

CapInv == /\ LedgerTypeOK
          /\ \A c, d \in Unresolved : c = d
          /\ spent <= PerCaseCap * Cardinality(Settled)

LEMMA CasesFinite == IsFiniteSet(Cases) /\ Cardinality(Cases) = NumCases
BY CasesAssumption, FS_Interval DEF Cases

LEMMA SettledFinite ==
    /\ IsFiniteSet(Settled) /\ Cardinality(Settled) \in Nat
    /\ \A c \in Cases : c \notin Settled => Cardinality(Settled) <= NumCases - 1
<1>1. Settled \subseteq Cases
  BY DEF Settled
<1>2. IsFiniteSet(Settled) /\ Cardinality(Settled) \in Nat
  BY <1>1, CasesFinite, FS_Subset, FS_CardinalityType
<1>3. ASSUME NEW c \in Cases, c \notin Settled
      PROVE  Cardinality(Settled) <= NumCases - 1
  <2>1. Settled \subseteq Cases \ {c} /\ IsFiniteSet(Cases \ {c})
    BY <1>1, <1>3, CasesFinite, FS_RemoveElement
  <2>2. Cardinality(Cases \ {c}) = NumCases - 1
    BY CasesFinite, FS_RemoveElement
  <2> QED BY <2>1, <2>2, FS_Subset
<1> QED BY <1>2, <1>3

LEMMA ClaimedCap == ASSUME NEW t \in Nat, LedgerClaimed(t) PROVE CapInv
<1>1. LedgerTypeOK
  BY ClaimedType
<1>2. \A c \in Cases : StateOf(c) = "available"
  BY DEF LedgerClaimed, ClaimLine, StateOf, StateAfter, Logged, Event
<1>3. Unresolved = {} /\ Settled = {}
  BY <1>2 DEF Unresolved, Settled
<1>4. Cardinality(Settled) = 0
  BY <1>3, FS_EmptySet
<1> QED BY <1>1, <1>3, <1>4, CapAssumption DEF CapInv, LedgerClaimed

LEMMA CapInit == LedgerInit => CapInv
<1> SUFFICES ASSUME NEW t \in 0 .. MaxTime, LedgerClaimed(t) PROVE CapInv
  BY DEF LedgerInit
<1> QED BY ClaimedCap, TimeAssumption

LEMMA CapStep == ASSUME CapInv, LedgerStep PROVE CapInv'
<1> USE DEF CapInv
<1>1. LedgerTypeOK'
  BY LedgerTypeStep
<1>2. ASSUME NEW c \in Cases, NEW t \in Nat, Reserve(c, t)
      PROVE  CapInv'
  <2>1. Unresolved' = {c} /\ Settled' = Settled /\ spent' = spent
    BY <1>2, ReserveStates DEF Reserve
  <2> QED BY <1>1, <2>1
<1>3. ASSUME NEW c \in Cases, NEW r \in Responses, NEW t \in Nat, RecordResponse(c, r, t)
      PROVE  CapInv'
  <2>1. Unresolved' \subseteq Unresolved /\ c \notin Settled /\ Settled' = Settled \cup {c}
    BY <1>3, ResponseStates
  <2>2. Cardinality(Settled') = Cardinality(Settled) + 1
    BY <2>1, SettledFinite, FS_AddElement
  <2>3. spent' = spent + CostOf[r] /\ CostOf[r] <= PerCaseCap /\ CostOf[r] \in Nat
    BY <1>3, ResponseAssumption DEF RecordResponse, MayRecordResponse
  <2>4. \A k \in Nat : PerCaseCap * (k + 1) = PerCaseCap * k + PerCaseCap
    BY CapAssumption
  <2>5. PerCaseCap * Cardinality(Settled') = PerCaseCap * Cardinality(Settled) + PerCaseCap
    BY <2>2, <2>4, SettledFinite
  <2>6. PerCaseCap * Cardinality(Settled) \in Nat
    BY SettledFinite, CapAssumption
  <2>7. spent' <= PerCaseCap * Cardinality(Settled')
    BY <2>3, <2>5, <2>6, CapAssumption DEF LedgerTypeOK
  <2> QED BY <1>1, <2>1, <2>7
<1>4. ASSUME NEW c \in Cases, NEW r \in Responses, NEW s \in Responses, NEW t \in Nat,
             RecordResult(c, r, s, t)
      PROVE  CapInv'
  <2>1. Unresolved' = Unresolved /\ Settled' = Settled /\ spent' = spent
    BY <1>4, ResultStates DEF RecordResult
  <2> QED BY <1>1, <2>1
<1>5. ASSUME (torn' = torn \/ torn' = TRUE), UNCHANGED <<log, spent>>
      PROVE  CapInv'
  <2>1. Unresolved' = Unresolved /\ Settled' = Settled
    BY <1>5 DEF Unresolved, Settled, StateOf
  <2> QED BY <1>1, <1>5, <2>1
<1> QED BY <1>2, <1>3, <1>4, <1>5 DEF LedgerStep

\* What the invariant says of the total, whatever is unresolved.
LEMMA CapFits == CapInv => OneUnresolved /\ ReservationsFit
<1> SUFFICES ASSUME CapInv PROVE OneUnresolved /\ ReservationsFit
  OBVIOUS
<1> USE DEF CapInv, LedgerTypeOK
<1>1. OneUnresolved
  BY DEF OneUnresolved
<1>2. /\ PerCaseCap * Cardinality(Settled) \in Nat
      /\ \A k \in Nat : k <= NumCases => PerCaseCap * k <= PerCaseCap * NumCases
      /\ PerCaseCap * NumCases <= TotalCap
  BY SettledFinite, CapAssumption, CasesAssumption
<1>3. CASE Unresolved = {}
  <2>1. Cardinality(Unresolved) = 0
    BY <1>3, FS_EmptySet
  <2>2. Cardinality(Settled) <= NumCases
    BY SettledFinite, CasesFinite, FS_Subset DEF Settled
  <2>3. spent <= TotalCap
    BY <1>2, <2>2, SettledFinite, CapAssumption, CasesAssumption
  <2> QED BY <1>1, <2>1, <2>3, CapAssumption DEF ReservationsFit
<1>4. CASE Unresolved # {}
  <2>1. PICK c \in Unresolved : TRUE
    BY <1>4
  <2>2. Unresolved = {c} /\ c \in Cases /\ c \notin Settled
    BY <2>1 DEF Unresolved, Settled
  <2>3. Cardinality(Unresolved) = 1
    BY <2>2, FS_Singleton
  <2>4. Cardinality(Settled) + 1 <= NumCases
    BY <2>2, SettledFinite, CasesAssumption
  <2>5. PerCaseCap * (Cardinality(Settled) + 1) = PerCaseCap * Cardinality(Settled) + PerCaseCap
    BY SettledFinite, CapAssumption
  <2>6. spent + PerCaseCap <= TotalCap
    BY <1>2, <2>4, <2>5, SettledFinite, CapAssumption, CasesAssumption
  <2> QED BY <1>1, <2>3, <2>6, CapAssumption DEF ReservationsFit
<1> QED BY <1>3, <1>4

\* Whatever clients do, at most one reservation is unresolved, and its largest
\* price still fits under the total cap: no response that was paid for is ever
\* refused for its cost (reserve_v021_case, record_v021_provider_response).
THEOREM EveryReservationFits == LedgerSpec => [](OneUnresolved /\ ReservationsFit)
<1>1. LedgerInit => CapInv
  BY CapInit
<1>2. CapInv /\ [LedgerNext]_ledgerVars => CapInv'
  BY LedgerNextStep, CapStep DEF CapInv
<1>3. CapInv => OneUnresolved /\ ReservationsFit
  BY CapFits
<1> QED BY <1>1, <1>2, <1>3, PTL DEF LedgerSpec
-----------------------------------------------------------------------------
(* The sum of the costs on file. *)

\* Induction on the natural numbers, for a set.  From the pigeonhole principle: the numbers
\* up to k that are missing would be mapped into fewer by the predecessor.
LEMMA Induction ==
    ASSUME NEW S, 0 \in S, \A n \in Nat : n \in S => n + 1 \in S
    PROVE  \A k \in Nat : k \in S
<1> SUFFICES ASSUME NEW k \in Nat, k \notin S PROVE FALSE
  OBVIOUS
<1> DEFINE missing == {x \in 0 .. k : x \notin S}
<1> DEFINE pred == [x \in missing |-> x - 1]
<1>1. IsFiniteSet(missing) /\ k \in missing
  <2>1. IsFiniteSet(0 .. k)
    BY FS_Interval
  <2> QED BY <2>1, FS_Subset
<1>2. /\ IsFiniteSet(missing \ {k})
      /\ Cardinality(missing \ {k}) = Cardinality(missing) - 1
      /\ Cardinality(missing) \in Nat
  BY <1>1, FS_RemoveElement, FS_CardinalityType
<1>3. pred \in [missing -> missing \ {k}]
  <2> SUFFICES ASSUME NEW x \in missing PROVE x - 1 \in missing \ {k}
    OBVIOUS
  <2>1. x # 0
    OBVIOUS
  <2>2. x - 1 \in Nat /\ (x - 1) + 1 = x
    BY <2>1
  <2> QED BY <2>1, <2>2
<1>4. \E x, y \in missing : x # y /\ pred[x] = pred[y]
  <2> HIDE DEF pred, missing
  <2>1. Cardinality(missing \ {k}) < Cardinality(missing)
    BY <1>2
  <2> QED BY <1>1, <1>2, <1>3, <2>1, FS_PigeonHole
<1> QED BY <1>4

\* The function within Total: the sums over the beginnings of a log.
SumsOf(l) ==
    CHOOSE sum : sum = [n \in 0 .. Len(l) |-> IF n = 0 THEN 0 ELSE sum[n - 1] + Billed(l, n)]

LEMMA TotalIsLastSum == \A l : Total(l) = SumsOf(l)[Len(l)]
  BY DEF Total, SumsOf

\* There is such a function: one over a beginning goes on to the next line.
LEMMA SumsExist ==
    ASSUME NEW l \in Seq(Events)
    PROVE  SumsOf(l) =
             [n \in 0 .. Len(l) |-> IF n = 0 THEN 0 ELSE SumsOf(l)[n - 1] + Billed(l, n)]
<1> DEFINE next(f, n) == IF n = 0 THEN 0 ELSE f[n - 1] + Billed(l, n)
<1> DEFINE S == {m \in Nat : \E f : f = [n \in 0 .. m |-> next(f, n)]}
<1>1. 0 \in S
  <2> DEFINE f == [n \in 0 .. 0 |-> 0]
  <2>1. f = [n \in 0 .. 0 |-> next(f, n)]
    OBVIOUS
  <2> HIDE DEF f
  <2> QED BY <2>1
<1>2. ASSUME NEW m \in Nat, m \in S PROVE m + 1 \in S
  <2>1. PICK f : f = [n \in 0 .. m |-> next(f, n)]
    BY <1>2
  <2> DEFINE g == [n \in 0 .. m + 1 |-> IF n <= m THEN f[n] ELSE f[m] + Billed(l, n)]
  <2>2. \A n \in 0 .. m + 1 : g[n] = next(g, n)
    <3> SUFFICES ASSUME NEW n \in 0 .. m + 1 PROVE g[n] = next(g, n)
      OBVIOUS
    <3>1. CASE n <= m
      BY <2>1, <3>1
    <3>2. CASE n = m + 1
      BY <3>2
    <3> QED BY <3>1, <3>2
  <2>3. g = [n \in 0 .. m + 1 |-> next(g, n)]
    BY <2>2
  <2> HIDE DEF g
  <2> QED BY <2>3
<1>3. Len(l) \in S
  <2> HIDE DEF S
  <2> QED BY <1>1, <1>2, Induction
<1>4. \E f : f = [n \in 0 .. Len(l) |-> next(f, n)]
  BY <1>3
<1> QED BY <1>4 DEF SumsOf

\* What the sum over a log says of one more line.
LEMMA TotalAppends ==
    /\ Total(<< >>) = 0
    /\ \A l \in Seq(Events), e \in Events :
          Total(Append(l, e)) = Total(l) + Billed(<<e>>, 1)
<1>1. Total(<< >>) = 0
  <2>1. << >> \in Seq(Events) /\ Len(<< >>) = 0 /\ 0 \in 0 .. Len(<< >>)
    OBVIOUS
  <2>2. \A n \in 0 .. Len(<< >>) :
           SumsOf(<< >>)[n] = IF n = 0 THEN 0 ELSE SumsOf(<< >>)[n - 1] + Billed(<< >>, n)
    BY <2>1, SumsExist
  <2>3. SumsOf(<< >>)[0] = 0
    BY <2>1, <2>2
  <2>4. Total(<< >>) = SumsOf(<< >>)[Len(<< >>)]
    BY TotalIsLastSum
  <2> QED BY <2>1, <2>3, <2>4
<1>2. ASSUME NEW l \in Seq(Events), NEW e \in Events
      PROVE  Total(Append(l, e)) = Total(l) + Billed(<<e>>, 1)
  <2> DEFINE a == Append(l, e)
  <2>1. /\ a \in Seq(Events) /\ Len(a) = Len(l) + 1 /\ a[Len(l) + 1] = e
        /\ \A n \in 1 .. Len(l) : a[n] = l[n]
    OBVIOUS
  <2>2. \A n \in 1 .. Len(l) : Billed(a, n) = Billed(l, n)
    BY <2>1 DEF Billed
  <2>3. Billed(a, Len(a)) = Billed(<<e>>, 1)
    BY <2>1 DEF Billed
  <2> HIDE DEF a
  <2>4. \A n \in 0 .. Len(l) :
           SumsOf(l)[n] = IF n = 0 THEN 0 ELSE SumsOf(l)[n - 1] + Billed(l, n)
    BY SumsExist
  <2>5. \A n \in 0 .. Len(a) :
           SumsOf(a)[n] = IF n = 0 THEN 0 ELSE SumsOf(a)[n - 1] + Billed(a, n)
    BY <2>1, SumsExist
  <2> DEFINE S == {m \in Nat : m <= Len(l) => SumsOf(a)[m] = SumsOf(l)[m]}
  <2>6. 0 \in S
    BY <2>1, <2>4, <2>5
  <2>7. ASSUME NEW m \in Nat, m \in S PROVE m + 1 \in S
    <3> SUFFICES ASSUME m + 1 <= Len(l) PROVE SumsOf(a)[m + 1] = SumsOf(l)[m + 1]
      OBVIOUS
    <3>1. SumsOf(a)[m] = SumsOf(l)[m] /\ Billed(a, m + 1) = Billed(l, m + 1)
      BY <2>2, <2>7
    <3>2. SumsOf(a)[m + 1] = SumsOf(a)[m] + Billed(a, m + 1)
      BY <2>1, <2>5
    <3>3. SumsOf(l)[m + 1] = SumsOf(l)[m] + Billed(l, m + 1)
      BY <2>4
    <3> QED BY <3>1, <3>2, <3>3
  <2>8. Len(l) \in S
    <3> HIDE DEF S
    <3> QED BY <2>6, <2>7, Induction
  <2>9. SumsOf(a)[Len(a)] = SumsOf(l)[Len(l)] + Billed(<<e>>, 1)
    BY <2>1, <2>3, <2>5, <2>8
  <2> QED BY <2>9, TotalIsLastSum DEF a
<1> QED BY <1>1, <1>2

\* The running total of a controller is the one the public inspector adds up.
LEMMA SumStep ==
    ASSUME LedgerTypeOK, Total(log) = spent, LedgerStep
    PROVE  Total(log') = spent'
<1> USE DEF LedgerTypeOK
<1>1. CASE UNCHANGED <<log, spent>>
  BY <1>1
<1>2. ASSUME NEW c \in Cases, NEW t \in Nat, Reserve(c, t) PROVE Total(log') = spent'
  <2> DEFINE e == Event("case_reserved", c, NoResponse, NoResponse, t)
  <2>1. e \in Events /\ e.type = "case_reserved"
    BY DEF Event, Events, EventTypes
  <2>2. log' = Append(log, e) /\ spent' = spent
    BY <1>2 DEF Reserve, Append1
  <2> HIDE DEF e
  <2>3. Total(Append(log, e)) = Total(log)
    BY <2>1, TotalAppends, ResponseAssumption DEF Billed
  <2> QED BY <2>2, <2>3
<1>3. ASSUME NEW c \in Cases, NEW r \in Responses, NEW t \in Nat, RecordResponse(c, r, t)
      PROVE  Total(log') = spent'
  <2> DEFINE e == Event("provider_response_durable", c, r, NoResponse, t)
  <2>1. e \in Events /\ e.type = "provider_response_durable" /\ e.response = r
    BY DEF Event, Events, EventTypes
  <2>2. log' = Append(log, e) /\ spent' = spent + CostOf[r]
    BY <1>3 DEF RecordResponse, Append1
  <2> HIDE DEF e
  <2>3. Total(Append(log, e)) = Total(log) + CostOf[r]
    BY <2>1, TotalAppends, ResponseAssumption DEF Billed
  <2> QED BY <2>2, <2>3
<1>4. ASSUME NEW c \in Cases, NEW r \in Responses, NEW s \in Responses, NEW t \in Nat,
             RecordResult(c, r, s, t)
      PROVE  Total(log') = spent'
  <2> DEFINE e == Event("case_completed", c, r, s, t)
  <2>1. e \in Events /\ e.type = "case_completed"
    BY DEF Event, Events, EventTypes
  <2>2. log' = Append(log, e) /\ spent' = spent
    BY <1>4 DEF RecordResult, Append1
  <2> HIDE DEF e
  <2>3. Total(Append(log, e)) = Total(log)
    BY <2>1, TotalAppends, ResponseAssumption DEF Billed
  <2> QED BY <2>2, <2>3
<1> QED BY <1>1, <1>2, <1>3, <1>4 DEF LedgerStep

LEMMA ClaimedSum == ASSUME NEW t \in Nat, LedgerClaimed(t) PROVE Total(log) = spent
<1> DEFINE e == ClaimLine(t)
<1>1. e \in Events /\ e.type = "ledger_claimed"
  BY DEF ClaimLine, Event, Events, EventTypes
<1>2. log = <<e>> /\ spent = 0
  BY DEF LedgerClaimed
<1> HIDE DEF e
<1>3. << >> \in Seq(Events) /\ <<e>> = Append(<< >>, e)
  BY <1>1
<1>4. Billed(<<e>>, 1) = 0
  <2>1. <<e>>[1] = e
    OBVIOUS
  <2> QED BY <1>1, <2>1 DEF Billed
<1>5. Total(Append(<< >>, e)) = Total(<< >>) + Billed(<<e>>, 1)
  BY <1>1, <1>3, TotalAppends
<1> QED BY <1>2, <1>3, <1>4, <1>5, TotalAppends

\* What verify_v021_spend_ledger asks of the lines' costs and of the first line's time,
\* for a ledger that was claimed under its authorization.
CostsFit(l) == \A i \in 1 .. Len(l) : l[i].type = "provider_response_durable" =>
                                          CostOf[l[i].response] <= PerCaseCap

SoundInv == CapInv /\ log[1].at >= AuthorizedAt /\ CostsFit(log) /\ Total(log) = spent

LEMMA SoundClaimed ==
    ASSUME NEW t \in Nat, LedgerClaimed(t), t >= AuthorizedAt PROVE SoundInv
<1>1. CapInv /\ Total(log) = spent
  BY ClaimedCap, ClaimedSum
<1>2. Len(log) = 1 /\ log[1].at = t /\ log[1].type = "ledger_claimed"
  BY DEF LedgerClaimed, ClaimLine, Event
<1> QED BY <1>1, <1>2 DEF SoundInv, CostsFit

LEMMA CostsAppend ==
    ASSUME LedgerTypeOK, NEW e \in Events, log' = Append(log, e), CostsFit(log),
           e.type = "provider_response_durable" => CostOf[e.response] <= PerCaseCap
    PROVE  log'[1] = log[1] /\ CostsFit(log')
<1>1. Len(log) \in Nat /\ Len(log) >= 1
  BY DEF LedgerTypeOK
<1>2. /\ Len(log') = Len(log) + 1 /\ log'[Len(log) + 1] = e
      /\ \A i \in 1 .. Len(log) : log'[i] = log[i]
  BY DEF LedgerTypeOK
<1> QED BY <1>1, <1>2 DEF CostsFit

LEMMA SoundStep == ASSUME SoundInv, LedgerStep PROVE SoundInv'
<1>1. CapInv' /\ Total(log') = spent'
  BY CapStep, SumStep DEF SoundInv, CapInv
<1>2. log'[1] = log[1] /\ CostsFit(log')
  <2> USE DEF SoundInv, CapInv
  <2>1. CASE \E c \in Cases, t \in Nat : Reserve(c, t)
    <3>1. PICK c \in Cases, t \in Nat : Reserve(c, t)
      BY <2>1
    <3> DEFINE e == Event("case_reserved", c, NoResponse, NoResponse, t)
    <3>2. e \in Events /\ e.type = "case_reserved" /\ log' = Append(log, e)
      BY <3>1 DEF Event, Events, EventTypes, Reserve, Append1
    <3> HIDE DEF e
    <3> QED BY <3>2, CostsAppend
  <2>2. CASE \E c \in Cases, r \in Responses, t \in Nat : RecordResponse(c, r, t)
    <3>1. PICK c \in Cases, r \in Responses, t \in Nat : RecordResponse(c, r, t)
      BY <2>2
    <3> DEFINE e == Event("provider_response_durable", c, r, NoResponse, t)
    <3>2. e \in Events /\ e.response = r /\ log' = Append(log, e)
      BY <3>1 DEF Event, Events, EventTypes, RecordResponse, Append1
    <3>3. CostOf[r] <= PerCaseCap
      BY <3>1 DEF RecordResponse, MayRecordResponse
    <3> HIDE DEF e
    <3> QED BY <3>2, <3>3, CostsAppend
  <2>3. CASE \E c \in Cases, r, s \in Responses, t \in Nat : RecordResult(c, r, s, t)
    <3>1. PICK c \in Cases, r \in Responses, s \in Responses, t \in Nat :
                RecordResult(c, r, s, t)
      BY <2>3
    <3> DEFINE e == Event("case_completed", c, r, s, t)
    <3>2. e \in Events /\ e.type = "case_completed" /\ log' = Append(log, e)
      BY <3>1 DEF Event, Events, EventTypes, RecordResult, Append1
    <3> HIDE DEF e
    <3> QED BY <3>2, CostsAppend
  <2>4. CASE (torn' = torn \/ torn' = TRUE) /\ UNCHANGED <<log, spent>>
    BY <2>4
  <2> QED BY <2>1, <2>2, <2>3, <2>4 DEF LedgerStep
<1> QED BY <1>1, <1>2 DEF SoundInv

\* The whole sum fits under the total cap.
LEMMA SoundFits == SoundInv => Total(log) <= TotalCap
<1> SUFFICES ASSUME SoundInv PROVE Total(log) <= TotalCap
  OBVIOUS
<1>1. spent \in Nat /\ OneUnresolved /\ ReservationsFit /\ Total(log) = spent
  BY CapFits DEF SoundInv, CapInv, LedgerTypeOK
<1>2. Cardinality(Unresolved) \in Nat
  BY CasesFinite, FS_Subset, FS_CardinalityType DEF Unresolved
<1>3. PerCaseCap * Cardinality(Unresolved) \in Nat
  BY <1>2, CapAssumption
<1> QED BY <1>1, <1>3, CapAssumption DEF ReservationsFit
-----------------------------------------------------------------------------
(* The two readers of the file. *)

\* Every line after the claim is one of the three lines of a case.
LEMMA LineOfACase ==
    ASSUME NEW i \in 2 .. 1 + 3 * NumCases
    PROVE  \E c \in Cases : i \in {3 * c - 1, 3 * c, 3 * c + 1}
<1> DEFINE c == (i + 1) \div 3
<1>1. NumCases \in Nat
  BY CasesAssumption
<1>2. c \in Int /\ 3 * c <= i + 1 /\ i + 1 < 3 * c + 3
  OBVIOUS
<1>3. c \in Cases
  BY <1>1, <1>2 DEF Cases
<1>4. i \in {3 * c - 1, 3 * c, 3 * c + 1}
  BY <1>2
<1> QED BY <1>3, <1>4

\* The three lines of a case.
LEMMA LinesTransacted ==
    ASSUME NEW l, NEW c, Transacted(l, c)
    PROVE  /\ l[3 * c - 1].type = "case_reserved" /\ l[3 * c - 1].case = c
           /\ l[3 * c].type = "provider_response_durable" /\ l[3 * c].case = c
           /\ l[3 * c + 1].type = "case_completed" /\ l[3 * c + 1].case = c
           /\ l[3 * c + 1].response = l[3 * c].response
           /\ CostOf[l[3 * c].response] <= PerCaseCap
<1>1. \A x, y, z : {x, y, z} = {c} => x = c /\ y = c /\ z = c
  OBVIOUS
<1>2. {l[3 * c - 1].case, l[3 * c].case, l[3 * c + 1].case} = {c}
  BY Zenon DEF Transacted
<1>3. l[3 * c - 1].case = c /\ l[3 * c].case = c /\ l[3 * c + 1].case = c
  BY <1>1, <1>2, Zenon
<1> QED BY <1>3, Zenon DEF Transacted

\* In a file the public inspector accepts, each event of a case is on its line and on
\* no other.
LEMMA LinesOfACase ==
    ASSUME NEW l, NEW cut, PublicAccepts(l, cut), NEW c \in Cases, NEW i \in 1 .. Len(l)
    PROVE  /\ l[i].type = "case_reserved" /\ l[i].case = c <=> i = 3 * c - 1
           /\ l[i].type = "provider_response_durable" /\ l[i].case = c <=> i = 3 * c
           /\ l[i].type = "case_completed" /\ l[i].case = c <=> i = 3 * c + 1
<1>1. Len(l) = 1 + 3 * NumCases /\ l[1].type = "ledger_claimed" /\ NumCases \in Nat
  BY CasesAssumption DEF PublicAccepts
<1>2. ASSUME NEW d \in Cases
      PROVE  /\ l[3 * d - 1].type = "case_reserved" /\ l[3 * d - 1].case = d
             /\ l[3 * d].type = "provider_response_durable" /\ l[3 * d].case = d
             /\ l[3 * d + 1].type = "case_completed" /\ l[3 * d + 1].case = d
  BY LinesTransacted DEF PublicAccepts
<1>3. \A d \in Cases : d \in Int /\ d >= 1
  BY DEF Cases
<1>4. CASE i = 1
  BY <1>1, <1>3, <1>4
<1>5. CASE i # 1
  <2>1. PICK d \in Cases : i \in {3 * d - 1, 3 * d, 3 * d + 1}
    BY <1>1, <1>5, LineOfACase
  <2>2. CASE i = 3 * d - 1
    <3>1. l[i].type = "case_reserved" /\ l[i].case = d
      BY <1>2, <2>2
    <3>2. i # 3 * c /\ i # 3 * c + 1 /\ (d = c <=> i = 3 * c - 1)
      BY <1>3, <2>2
    <3> QED BY <3>1, <3>2
  <2>3. CASE i = 3 * d
    <3>1. l[i].type = "provider_response_durable" /\ l[i].case = d
      BY <1>2, <2>3
    <3>2. i # 3 * c - 1 /\ i # 3 * c + 1 /\ (d = c <=> i = 3 * c)
      BY <1>3, <2>3
    <3> QED BY <3>1, <3>2
  <2>4. CASE i = 3 * d + 1
    <3>1. l[i].type = "case_completed" /\ l[i].case = d
      BY <1>2, <2>4
    <3>2. i # 3 * c - 1 /\ i # 3 * c /\ (d = c <=> i = 3 * c + 1)
      BY <1>3, <2>4
    <3> QED BY <3>1, <3>2
  <2> QED BY <2>1, <2>2, <2>3, <2>4
<1> QED BY <1>4, <1>5

\* What such a file holds of a case after its first n lines.
LEMMA PublicLogged ==
    ASSUME NEW l, NEW cut, PublicAccepts(l, cut), NEW c \in Cases, NEW n \in 0 .. Len(l)
    PROVE  /\ Logged(l, n, "case_reserved", c) <=> 3 * c - 1 <= n
           /\ Logged(l, n, "provider_response_durable", c) <=> 3 * c <= n
           /\ Logged(l, n, "case_completed", c) <=> 3 * c + 1 <= n
<1>1. c \in Int /\ c >= 1 /\ c <= NumCases /\ NumCases \in Nat /\ Len(l) = 1 + 3 * NumCases
  BY CasesAssumption DEF Cases, PublicAccepts
<1>2. \A i \in 1 .. n : i \in 1 .. Len(l)
  BY <1>1
<1>3. \A i \in 1 .. n :
          /\ l[i].type = "case_reserved" /\ l[i].case = c <=> i = 3 * c - 1
          /\ l[i].type = "provider_response_durable" /\ l[i].case = c <=> i = 3 * c
          /\ l[i].type = "case_completed" /\ l[i].case = c <=> i = 3 * c + 1
  BY <1>2, LinesOfACase
<1>4. Logged(l, n, "case_reserved", c) <=> 3 * c - 1 \in 1 .. n
  BY <1>3 DEF Logged
<1>5. Logged(l, n, "provider_response_durable", c) <=> 3 * c \in 1 .. n
  BY <1>3 DEF Logged
<1>6. Logged(l, n, "case_completed", c) <=> 3 * c + 1 \in 1 .. n
  BY <1>3 DEF Logged
<1> QED BY <1>1, <1>4, <1>5, <1>6

\* The campaign's own verifier accepts each of its lines after the lines before it, and
\* finds every case completed at its end.
LEMMA PublicIsVerified ==
    ASSUME NEW l, NEW cut, PublicAccepts(l, cut)
    PROVE  /\ l[1].at >= AuthorizedAt => Verifies(l, cut)
           /\ \A c \in Cases : StateAfter(l, Len(l), c) = "completed"
<1>1. Len(l) = 1 + 3 * NumCases /\ NumCases \in Nat \ {0} /\ l[1].type = "ledger_claimed"
  BY CasesAssumption DEF PublicAccepts
<1>2. \A c \in Cases : c \in Int /\ c >= 1 /\ c <= NumCases
  BY <1>1 DEF Cases
<1>3. ASSUME NEW c \in Cases
      PROVE  StateAfter(l, Len(l), c) = "completed"
  <2>1. Len(l) \in 0 .. Len(l) /\ 3 * c + 1 <= Len(l)
    BY <1>1, <1>2
  <2>2. Logged(l, Len(l), "case_completed", c)
    BY <2>1, PublicLogged
  <2> QED BY <2>2 DEF StateAfter
<1>4. ASSUME NEW i \in 2 .. Len(l)
      PROVE  Follows(l, i)
  <2>1. PICK c \in Cases : i \in {3 * c - 1, 3 * c, 3 * c + 1}
    BY <1>1, LineOfACase
  <2>2. /\ l[3 * c - 1].type = "case_reserved" /\ l[3 * c - 1].case = c
        /\ l[3 * c].type = "provider_response_durable" /\ l[3 * c].case = c
        /\ l[3 * c + 1].type = "case_completed" /\ l[3 * c + 1].case = c
        /\ l[3 * c + 1].response = l[3 * c].response
        /\ CostOf[l[3 * c].response] <= PerCaseCap
    BY LinesTransacted DEF PublicAccepts
  <2>3. i - 1 \in 0 .. Len(l)
    BY <1>1
  <2>4. /\ Logged(l, i - 1, "case_reserved", c) <=> 3 * c - 1 <= i - 1
        /\ Logged(l, i - 1, "provider_response_durable", c) <=> 3 * c <= i - 1
        /\ Logged(l, i - 1, "case_completed", c) <=> 3 * c + 1 <= i - 1
    BY <2>3, PublicLogged
  <2>5. CASE i = 3 * c - 1
    <3>1. StateAfter(l, i - 1, c) = "available"
      BY <1>2, <2>4, <2>5 DEF StateAfter
    <3> QED BY <2>2, <2>5, <3>1 DEF Follows
  <2>6. CASE i = 3 * c
    <3>1. StateAfter(l, i - 1, c) = "reserved_unknown_spend"
      BY <1>2, <2>4, <2>6 DEF StateAfter
    <3> QED BY <2>2, <2>6, <3>1 DEF Follows
  <2>7. CASE i = 3 * c + 1
    <3>1. StateAfter(l, i - 1, c) = "response_durable"
      BY <1>2, <2>4, <2>7 DEF StateAfter
    <3>2. 3 * c \in 1 .. i - 1
      BY <1>2, <2>7
    <3> QED BY <2>2, <2>7, <3>1, <3>2 DEF Follows
  <2> QED BY <2>1, <2>5, <2>6, <2>7
<1>5. l # << >>
  BY <1>1
<1>6. ~cut /\ Chronological(l) /\ Total(l) <= TotalCap
  BY DEF PublicAccepts
<1> QED BY <1>1, <1>3, <1>4, <1>5, <1>6 DEF Verifies

\* Nothing is appended to a ledger that was claimed before it was authorized.
DatedInv == LedgerTypeOK /\ (Len(log) > 1 => log[1].at >= AuthorizedAt)

LEMMA DatedStep == ASSUME DatedInv, LedgerStep PROVE DatedInv'
<1> USE DEF DatedInv, LedgerTypeOK
<1>1. LedgerTypeOK'
  BY LedgerTypeStep
<1>2. ASSUME NEW e, log' = Append(log, e), Verifies(log, torn)
      PROVE  log'[1].at >= AuthorizedAt
  <2>1. Len(log) \in Nat /\ Len(log) >= 1
    OBVIOUS
  <2>2. log'[1] = log[1]
    BY <1>2, <2>1
  <2> QED BY <1>2, <2>2 DEF Verifies
<1>3. CASE \E c \in Cases, t \in Nat : Reserve(c, t)
  BY <1>1, <1>2, <1>3 DEF Reserve, MayReserve, Append1
<1>4. CASE \E c \in Cases, r \in Responses, t \in Nat : RecordResponse(c, r, t)
  BY <1>1, <1>2, <1>4 DEF RecordResponse, MayRecordResponse, Append1
<1>5. CASE \E c \in Cases, r, s \in Responses, t \in Nat : RecordResult(c, r, s, t)
  BY <1>1, <1>2, <1>5 DEF RecordResult, MayRecordResult, Append1
<1>6. CASE (torn' = torn \/ torn' = TRUE) /\ UNCHANGED <<log, spent>>
  BY <1>1, <1>6
<1> QED BY <1>3, <1>4, <1>5, <1>6 DEF LedgerStep

LEMMA DatedInit == ASSUME NEW t \in Nat, LedgerClaimed(t) PROVE DatedInv
<1>1. LedgerTypeOK
  BY ClaimedType
<1>2. Len(log) = 1
  BY DEF LedgerClaimed
<1> QED BY <1>1, <1>2 DEF DatedInv

LEMMA DatedAgrees == DatedInv => PublicReaderAgrees
<1> SUFFICES ASSUME DatedInv, PublicAccepts(log, torn)
             PROVE  Verifies(log, torn) /\ \A c \in Cases : StateOf(c) = "completed"
  BY DEF PublicReaderAgrees
<1>1. Len(log) > 1
  BY CasesAssumption DEF PublicAccepts
<1>2. log[1].at >= AuthorizedAt
  BY <1>1 DEF DatedInv
<1> QED BY <1>2, PublicIsVerified DEF StateOf

\* A ledger the public inspector accepts is one the campaign's verifier accepts, with
\* every case completed, although the inspector does not know when the campaign was
\* authorized: whatever was appended was appended to a ledger that verified
\* (inspect_v021_public_spend_ledger, verify_v021_spend_ledger).
THEOREM PublicReaderIsSound == LedgerSpec => []PublicReaderAgrees
<1>1. LedgerInit => DatedInv
  <2> SUFFICES ASSUME NEW t \in 0 .. MaxTime, LedgerClaimed(t) PROVE DatedInv
    BY DEF LedgerInit
  <2> QED BY DatedInit, TimeAssumption
<1>2. DatedInv /\ [LedgerNext]_ledgerVars => DatedInv'
  BY LedgerNextStep, DatedStep DEF DatedInv
<1>3. DatedInv => PublicReaderAgrees
  BY DatedAgrees
<1> QED BY <1>1, <1>2, <1>3, PTL DEF LedgerSpec
=============================================================================
