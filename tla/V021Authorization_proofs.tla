--------------------- MODULE V021Authorization_proofs ---------------------
(***************************************************************************)
(* Proofs about what a v0.2.1 campaign, and an exact one, is authorized    *)
(* by.                                                                     *)
(*                                                                         *)
(* First, that one preregistration has at most one authorization and one   *)
(* spend ledger, for any number of operators: whoever created a claim      *)
(* exclusively is the only one who goes on from it, and a claim that names *)
(* somebody is never written again.  Joined with the invariants of         *)
(* V021SpendLedger_proofs (what one of them protects the other one counts) *)
(* this gives what holds of the money over every ledger that is ever       *)
(* opened.                                                                 *)
(*                                                                         *)
(* Then, that the documents a call or an evaluation is made under are of   *)
(* one lineage, however they were replaced: a document that was written    *)
(* never changes, so what its preparation verified of the ones it binds is *)
(* a fact about it for good, and whoever holds its digest holds the fact.  *)
(***************************************************************************)
EXTENDS V021Ledgers, V021SpendLedger_proofs, V021Documents

-----------------------------------------------------------------------------
(* Types. *)

\* Where an operator is between the first look at a ledger claim and the end.
Owning == {"fill_claim", "create_ledger", "fill_ledger", "unlink", "verify_ledger"}
Claiming == Owning \cup {"create_claim"}

TypeInv == /\ AuthorityTypeOK
           /\ \A p \in Operators : pc[p] \in Claiming => authority[p] \in Operators

LEMMA InitTypes == AuthorityInit => TypeInv
BY DEF AuthorityInit, TypeInv, AuthorityTypeOK, Contents, Claims, Claiming, Owning

LEMMA NextTypes == TypeInv /\ [AuthorityNext]_authorityVars => TypeInv'
<1> SUFFICES ASSUME TypeInv, [AuthorityNext]_authorityVars PROVE TypeInv'
  OBVIOUS
<1> USE DEF TypeInv, AuthorityTypeOK, Contents, Claims, Claiming, Owning
<1>1. ASSUME NEW p \in Operators, IssueAuthorization(p) PROVE TypeInv'
  BY <1>1 DEF IssueAuthorization, CheckIssuance, CreateIssuance, FillIssuance, CreateAuthorization,
              FillAuthorization, VerificationFails, Refuse, Step, Goto, files, ghosts
<1>2. ASSUME NEW p \in Operators, Claim(p) PROVE TypeInv'
  <2>1. CASE CheckClaim(p)
    BY <2>1, OperatorAssumption DEF CheckClaim, Step, Goto, files, ghosts
  <2>2. CASE CreateClaim(p)
    BY <2>2 DEF CreateClaim, Refuse, Step, Goto, files, ghosts
  <2>3. CASE FillClaim(p)
    BY <2>3, OperatorAssumption DEF FillClaim, Step, Goto, ghosts
  <2>4. CASE CreateLedger(p)
    BY <2>4 DEF CreateLedger, Step, Goto, ghosts
  <2>5. CASE FillLedger(p)
    BY <2>5, OperatorAssumption DEF FillLedger, Step, Goto, ghosts
  <2>6. CASE UnlinkClaim(p)
    BY <2>6 DEF UnlinkClaim, Step, Goto, ghosts
  <2>7. CASE VerifyLedger(p)
    BY <2>7 DEF VerifyLedger, Goto, files
  <2> QED BY <1>2, <2>1, <2>2, <2>3, <2>4, <2>5, <2>6, <2>7 DEF Claim
<1>3. ASSUME NEW p \in Operators, Crash(p) PROVE TypeInv'
  BY <1>3 DEF Crash, Goto, files, ghosts
<1>4. ASSUME NEW p \in Operators, NEW a \in Operators, Verify(p, a) PROVE TypeInv'
  BY <1>4 DEF Verify, Goto, files
<1>5. ASSUME NEW a \in Operators, DeleteAuthorization(a) \/ DeleteLedger(a) PROVE TypeInv'
  BY <1>5 DEF DeleteAuthorization, DeleteLedger, ghosts
<1>6. CASE UNCHANGED authorityVars
  BY <1>6 DEF authorityVars, files, ghosts
<1> QED BY <1>1, <1>2, <1>3, <1>4, <1>5, <1>6 DEF AuthorityNext
-----------------------------------------------------------------------------
(* One authorization.  A claim that was created exclusively is Torn until  *)
(* the one who created it fills it, and is never written again.            *)

IssuanceInv ==
    /\ \A p \in Operators : pc[p] = "fill_issuance" => issuance = Torn
    /\ \A p, q \in Operators :
          pc[p] = "fill_issuance" /\ pc[q] = "fill_issuance" => p = q
    /\ \A a \in authorities : issuance = a

LEMMA IssuanceStep == TypeInv /\ IssuanceInv /\ [AuthorityNext]_authorityVars => IssuanceInv'
<1> SUFFICES ASSUME TypeInv, IssuanceInv, [AuthorityNext]_authorityVars PROVE IssuanceInv'
  OBVIOUS
<1> USE DEF TypeInv, AuthorityTypeOK, IssuanceInv
<1>1. ASSUME UNCHANGED <<issuance, authorities>>,
             \A p \in Operators : pc'[p] = "fill_issuance" => pc[p] = "fill_issuance"
      PROVE  IssuanceInv'
  BY <1>1
<1>2. ASSUME NEW p \in Operators, IssueAuthorization(p) PROVE IssuanceInv'
  <2>1. CASE CheckIssuance(p) \/ VerificationFails(p)
    BY <1>1, <2>1 DEF CheckIssuance, VerificationFails, Refuse, Step, Goto, files, ghosts
  <2>2. CASE CreateIssuance(p)
    BY <2>2, OperatorAssumption DEF CreateIssuance, Refuse, Step, Goto, files, ghosts
  <2>3. CASE FillIssuance(p)
    BY <2>3, OperatorAssumption DEF FillIssuance, Step, Goto, ghosts
  <2>4. CASE CreateAuthorization(p) \/ FillAuthorization(p)
    BY <1>1, <2>4 DEF CreateAuthorization, FillAuthorization, Refuse, Step, Goto, files, ghosts
  <2> QED BY <1>2, <2>1, <2>2, <2>3, <2>4 DEF IssueAuthorization
<1>3. ASSUME NEW p \in Operators, Claim(p) PROVE IssuanceInv'
  <2>1. UNCHANGED <<issuance, authorities>>
    BY <1>3 DEF Claim, CheckClaim, CreateClaim, FillClaim, CreateLedger, FillLedger,
                UnlinkClaim, VerifyLedger, Refuse, Step, files, ghosts
  <2>2. \E label \in Claiming \cup {"idle"} : Goto(p, label)
    BY <1>3 DEF Claim, CheckClaim, CreateClaim, FillClaim, CreateLedger, FillLedger,
                UnlinkClaim, VerifyLedger, Refuse, Step, Claiming, Owning
  <2> QED BY <1>1, <2>1, <2>2 DEF Goto, Claiming, Owning
<1>4. ASSUME NEW p \in Operators, NEW a \in Operators, Verify(p, a) PROVE IssuanceInv'
  BY <1>4 DEF Verify, AuthorizationVerifies, Goto, files
<1>5. ASSUME NEW p \in Operators, Crash(p) PROVE IssuanceInv'
  BY <1>1, <1>5 DEF Crash, Goto, files, ghosts
<1>6. ASSUME NEW a \in Operators, DeleteAuthorization(a) \/ DeleteLedger(a)
      PROVE  IssuanceInv'
  BY <1>1, <1>6 DEF DeleteAuthorization, DeleteLedger, ghosts
<1>7. CASE UNCHANGED authorityVars
  BY <1>1, <1>7 DEF authorityVars, files, ghosts
<1> QED BY <1>2, <1>3, <1>4, <1>5, <1>6, <1>7 DEF AuthorityNext

\* One preregistration and request set has at most one authorization that was ever
\* good: however many operators issue at once, crash and delete files
\* (_write_issuance_claim creates the claim exclusively and never removes it).
THEOREM OnlyOneAuthorization == AuthoritySpec => []OneAuthorization
<1>1. AuthorityInit => TypeInv /\ IssuanceInv
  BY InitTypes DEF AuthorityInit, IssuanceInv
<1>2. TypeInv /\ IssuanceInv /\ [AuthorityNext]_authorityVars => (TypeInv /\ IssuanceInv)'
  BY NextTypes, IssuanceStep
<1>3. IssuanceInv => OneAuthorization
  BY DEF IssuanceInv, OneAuthorization
<1> QED BY <1>1, <1>2, <1>3, PTL DEF AuthoritySpec
-----------------------------------------------------------------------------
(* One ledger.  A claim has one owner at a time, and none once a ledger was *)
(* opened under it: the exception handler only ever takes back its own.     *)

Owns(p, a) == pc[p] \in Owning /\ authority[p] = a

\* Only what was verified is claimed.
AuthorityInv == \A p \in Operators : authority[p] # NoOne => authority[p] \in authorities

OwnerInv ==
    \A p, a \in Operators :
        Owns(p, a) => /\ claim[a] = (IF pc[p] = "fill_claim" THEN Torn ELSE ClaimedAt[p])
                      /\ \A q \in Operators : Owns(q, a) => q = p
                      /\ \A x \in opened : x[1] # a

OpenedInv ==
    /\ \A x \in opened : x[1] \in authorities /\ claim[x[1]] = ClaimedAt[x[2]]
    /\ \A x, y \in opened : x = y

ClaimInv == TypeInv /\ IssuanceInv /\ AuthorityInv /\ OwnerInv /\ OpenedInv

LEMMA ClaimInit == AuthorityInit => ClaimInv
BY InitTypes DEF ClaimInv, AuthorityInit, IssuanceInv, AuthorityInv, OwnerInv, OpenedInv, Owns, Owning

LEMMA AuthorityStep ==
    TypeInv /\ AuthorityInv /\ [AuthorityNext]_authorityVars => AuthorityInv'
<1> SUFFICES ASSUME TypeInv, AuthorityInv, [AuthorityNext]_authorityVars PROVE AuthorityInv'
  OBVIOUS
<1> USE DEF TypeInv, AuthorityTypeOK, AuthorityInv
<1>1. ASSUME UNCHANGED <<authority, authorities>> PROVE AuthorityInv'
  BY <1>1
<1>2. ASSUME NEW p \in Operators, IssueAuthorization(p) \/ Claim(p)
      PROVE  UNCHANGED <<authority, authorities>>
  BY <1>2 DEF IssueAuthorization, CheckIssuance, CreateIssuance, FillIssuance, CreateAuthorization,
              FillAuthorization, VerificationFails, Claim, CheckClaim, CreateClaim, FillClaim,
              CreateLedger, FillLedger, UnlinkClaim, VerifyLedger, Refuse, Step, ghosts
<1>3. ASSUME NEW p \in Operators, NEW a \in Operators, Verify(p, a) PROVE AuthorityInv'
  BY <1>3 DEF Verify
<1>4. ASSUME NEW p \in Operators, Crash(p) PROVE AuthorityInv'
  BY <1>4 DEF Crash, ghosts
<1>5. ASSUME NEW a \in Operators, DeleteAuthorization(a) \/ DeleteLedger(a)
      PROVE  AuthorityInv'
  BY <1>1, <1>5 DEF DeleteAuthorization, DeleteLedger, ghosts
<1>6. CASE UNCHANGED authorityVars
  BY <1>1, <1>6 DEF authorityVars, ghosts
<1> QED BY <1>1, <1>2, <1>3, <1>4, <1>5, <1>6 DEF AuthorityNext

\* A step that leaves the claims and the opened ledgers alone, and makes nobody an
\* owner or moves an owner on past the filling of its claim.
LEMMA OwnerUnchanged ==
    ASSUME OwnerInv, OpenedInv, UNCHANGED <<claim, opened>>, authorities \subseteq authorities',
           \A p, a \in Operators :
              Owns(p, a)' => Owns(p, a) /\ (pc[p] = "fill_claim" <=> pc'[p] = "fill_claim")
    PROVE  OwnerInv' /\ OpenedInv'
BY DEF OwnerInv, OpenedInv

LEMMA OwnerStep == ClaimInv /\ [AuthorityNext]_authorityVars => OwnerInv' /\ OpenedInv'
<1> SUFFICES ASSUME ClaimInv, [AuthorityNext]_authorityVars PROVE OwnerInv' /\ OpenedInv'
  OBVIOUS
<1> USE DEF ClaimInv, TypeInv, AuthorityTypeOK
<1>1. ASSUME NEW p \in Operators, IssueAuthorization(p) PROVE OwnerInv' /\ OpenedInv'
  <2>1. UNCHANGED <<claim, opened, authorities, authority>>
    BY <1>1 DEF IssueAuthorization, CheckIssuance, CreateIssuance, FillIssuance, CreateAuthorization,
                FillAuthorization, VerificationFails, Refuse, Step, files, ghosts
  <2>2. /\ \E label : Goto(p, label) /\ label \notin Owning
        /\ pc[p] \notin Owning
    BY <1>1 DEF IssueAuthorization, CheckIssuance, CreateIssuance, FillIssuance, CreateAuthorization,
                FillAuthorization, VerificationFails, Refuse, Step, Owning
  <2> QED BY <2>1, <2>2, OwnerUnchanged DEF Goto, Owns
<1>2. ASSUME NEW p \in Operators, Claim(p) PROVE OwnerInv' /\ OpenedInv'
  <2>1. CASE CheckClaim(p)
    BY <2>1, OwnerUnchanged DEF CheckClaim, Step, Goto, files, ghosts, Owns, Owning
  <2>2. CASE CreateClaim(p)
    <3>1. CASE Refuse(p, "create_claim")
      BY <3>1, OwnerUnchanged DEF Refuse, Step, Goto, files, ghosts, Owns, Owning
    <3>2. CASE /\ pc[p] = "create_claim" /\ claim[authority[p]] = NoFile
               /\ claim' = [claim EXCEPT ![authority[p]] = Torn]
               /\ Step(p, "create_claim", "fill_claim")
      <4>1. authority[p] \in Operators
        BY <3>2 DEF Claiming, Owning
      <4>2. /\ \A q \in Operators : ~Owns(q, authority[p])
            /\ \A x \in opened : x[1] # authority[p]
        <5>1. ASSUME NEW q \in Operators, Owns(q, authority[p]) PROVE FALSE
          <6>1. ClaimedAt[q] \in Nat /\ NoFile \notin Nat /\ NoFile # Torn
            BY OperatorAssumption
          <6> QED BY <3>2, <4>1, <5>1, <6>1 DEF OwnerInv
        <5>2. ASSUME NEW x \in opened, x[1] = authority[p] PROVE FALSE
          <6>1. ClaimedAt[x[2]] \in Nat /\ NoFile \notin Nat
            BY OperatorAssumption
          <6> QED BY <3>2, <5>2, <6>1 DEF OpenedInv
        <5> QED BY <5>1, <5>2
      <4>3. \A q, a \in Operators :
               Owns(q, a)' <=> Owns(q, a) \/ (q = p /\ a = authority[p])
        BY <3>2 DEF Step, Goto, Owns, Owning
      <4>4. /\ pc'[p] = "fill_claim" /\ claim'[authority[p]] = Torn
            /\ \A q \in Operators : q # p => pc'[q] = pc[q]
            /\ \A a \in Operators : a # authority[p] => claim'[a] = claim[a]
            /\ UNCHANGED <<opened, authorities, authority>>
        BY <3>2, <4>1 DEF Step, Goto, ghosts
      <4>5. OwnerInv'
        <5> SUFFICES ASSUME NEW q \in Operators, NEW a \in Operators, Owns(q, a)'
                     PROVE  /\ claim'[a] = (IF pc'[q] = "fill_claim" THEN Torn ELSE ClaimedAt[q])
                            /\ \A o \in Operators : Owns(o, a)' => o = q
                            /\ \A x \in opened' : x[1] # a
          BY DEF OwnerInv
        <5>1. CASE a = authority[p]
          BY <4>2, <4>3, <4>4, <5>1
        <5>2. CASE a # authority[p]
          <6>1. Owns(q, a) /\ q # p
            BY <4>3, <5>2 DEF Owns
          <6> QED BY <4>3, <4>4, <5>2, <6>1 DEF OwnerInv
        <5> QED BY <5>1, <5>2
      <4>6. OpenedInv'
        BY <4>2, <4>4 DEF OpenedInv
      <4> QED BY <4>5, <4>6
    <3> QED BY <2>2, <3>1, <3>2 DEF CreateClaim
  <2>3. CASE FillClaim(p)
    <3>1. /\ authority[p] \in Operators /\ Owns(p, authority[p])
          /\ claim' = [claim EXCEPT ![authority[p]] = ClaimedAt[p]]
          /\ pc' = [pc EXCEPT ![p] = "create_ledger"]
          /\ UNCHANGED <<authority, authorities, opened>>
      BY <2>3 DEF FillClaim, Step, Goto, ghosts, Claiming, Owning, Owns
    <3>2. /\ \A q \in Operators : Owns(q, authority[p]) => q = p
          /\ \A x \in opened : x[1] # authority[p]
      BY <3>1 DEF OwnerInv
    <3>3. \A q, a \in Operators : Owns(q, a)' <=> Owns(q, a)
      BY <3>1 DEF Owns, Owning
    <3>4. /\ pc'[p] # "fill_claim" /\ claim'[authority[p]] = ClaimedAt[p]
          /\ \A q \in Operators : q # p => pc'[q] = pc[q]
          /\ \A a \in Operators : a # authority[p] => claim'[a] = claim[a]
      BY <3>1
    <3>5. OwnerInv'
      <4> SUFFICES ASSUME NEW q \in Operators, NEW a \in Operators, Owns(q, a)'
                   PROVE  /\ claim'[a] = (IF pc'[q] = "fill_claim" THEN Torn ELSE ClaimedAt[q])
                          /\ \A o \in Operators : Owns(o, a)' => o = q
                          /\ \A x \in opened' : x[1] # a
        BY DEF OwnerInv
      <4>1. Owns(q, a)
        BY <3>3
      <4>2. CASE q = p
        BY <3>1, <3>2, <3>3, <3>4, <4>1, <4>2 DEF Owns
      <4>3. CASE q # p
        BY <3>1, <3>2, <3>3, <3>4, <4>1, <4>3 DEF OwnerInv
      <4> QED BY <4>2, <4>3
    <3>6. OpenedInv'
      BY <3>1, <3>2, <3>4 DEF OpenedInv
    <3> QED BY <3>5, <3>6
  <2>4. CASE CreateLedger(p) \/ FillLedger(p)
    <3>1. /\ \E label \in {"fill_ledger", "unlink", "verify_ledger"} : Goto(p, label)
          /\ pc[p] \in Owning \ {"fill_claim"}
          /\ UNCHANGED <<claim, authority, authorities, opened>>
      BY <2>4 DEF CreateLedger, FillLedger, Step, ghosts, Owning
    <3> QED BY <3>1, OwnerUnchanged DEF Goto, Owns, Owning
  <2>5. CASE UnlinkClaim(p)
    <3>1. /\ authority[p] \in Operators /\ Owns(p, authority[p])
          /\ claim' = [claim EXCEPT ![authority[p]] = NoFile]
          /\ pc' = [pc EXCEPT ![p] = "idle"]
          /\ UNCHANGED <<authority, authorities, opened>>
      BY <2>5 DEF UnlinkClaim, Step, Goto, ghosts, Claiming, Owning, Owns
    <3>2. /\ \A q \in Operators : Owns(q, authority[p]) => q = p
          /\ \A x \in opened : x[1] # authority[p]
      BY <3>1 DEF OwnerInv
    <3>3. \A q, a \in Operators : Owns(q, a)' <=> Owns(q, a) /\ q # p
      BY <3>1 DEF Owns, Owning
    <3> QED BY <3>1, <3>2, <3>3 DEF OwnerInv, OpenedInv
  <2>6. CASE VerifyLedger(p)
    <3>1. /\ authority[p] \in Operators /\ Owns(p, authority[p])
          /\ pc[p] = "verify_ledger" /\ pc' = [pc EXCEPT ![p] = "idle"]
          /\ opened' \subseteq opened \cup {<<authority[p], p>>}
          /\ UNCHANGED <<claim, authority, authorities>>
      BY <2>6 DEF VerifyLedger, Goto, files, Claiming, Owning, Owns
    <3>2. claim[authority[p]] = ClaimedAt[p] /\ \A q \in Operators : Owns(q, authority[p]) => q = p
      BY <3>1 DEF OwnerInv
    <3>3. authority[p] \in authorities
      BY <3>1, OperatorAssumption DEF AuthorityInv
    <3>4. \A q, a \in Operators : Owns(q, a)' <=> Owns(q, a) /\ q # p
      BY <3>1 DEF Owns, Owning
    <3>5. OwnerInv'
      BY <3>1, <3>2, <3>4 DEF OwnerInv
    <3>6. opened = {}
      BY <3>1, <3>3 DEF OwnerInv, OpenedInv, IssuanceInv
    <3> QED BY <3>1, <3>2, <3>3, <3>5, <3>6 DEF OpenedInv
  <2> QED BY <1>2, <2>1, <2>2, <2>3, <2>4, <2>5, <2>6 DEF Claim
<1>3. ASSUME NEW p \in Operators, NEW a \in Operators, Verify(p, a)
      PROVE  OwnerInv' /\ OpenedInv'
  <2>1. /\ pc' = [pc EXCEPT ![p] = "idle"] /\ authority' = [authority EXCEPT ![p] = a]
        /\ UNCHANGED <<claim, opened>> /\ authorities \subseteq authorities'
    BY <1>3 DEF Verify, Goto, files
  <2> QED BY <2>1, OwnerUnchanged DEF Owns, Owning
<1>4. ASSUME NEW p \in Operators, Crash(p) PROVE OwnerInv' /\ OpenedInv'
  BY <1>4, OwnerUnchanged DEF Crash, Goto, files, ghosts, Owns, Owning
<1>5. ASSUME NEW a \in Operators, DeleteAuthorization(a) \/ DeleteLedger(a)
      PROVE  OwnerInv' /\ OpenedInv'
  BY <1>5, OwnerUnchanged DEF DeleteAuthorization, DeleteLedger, ghosts, Owns
<1>6. CASE UNCHANGED authorityVars
  BY <1>6, OwnerUnchanged DEF authorityVars, files, ghosts, Owns
<1> QED BY <1>1, <1>2, <1>3, <1>4, <1>5, <1>6 DEF AuthorityNext

\* At most one spend ledger is ever opened for a preregistration, and the claim it
\* was opened under is never taken away, although ledgers may be deleted and any
\* number of operators race to claim (claim_v021_spend_ledger).
THEOREM OnlyOneLedger == AuthoritySpec => [](OneLedger /\ ClaimStays)
<1>1. AuthorityInit => ClaimInv
  BY ClaimInit
<1>2. ClaimInv /\ [AuthorityNext]_authorityVars => ClaimInv'
  BY NextTypes, IssuanceStep, AuthorityStep, OwnerStep DEF ClaimInv
<1>3. ClaimInv => OneLedger /\ ClaimStays
  BY DEF ClaimInv, OpenedInv, OneLedger, ClaimStays
<1> QED BY <1>1, <1>2, <1>3, PTL DEF AuthoritySpec
-----------------------------------------------------------------------------
(* The money of a preregistration over every ledger.                       *)

\* A case whose reservation counts is on file as reserved.
ReservedInv ==
    /\ reservations \in [Cases -> Nat]
    /\ \A c \in Cases : /\ reservations[c] <= 1
                        /\ reservations[c] = 1 => StateOf(c) # "available"

LifeInv == ClaimInv /\ CapInv /\ ReservedInv

LEMMA FreshLedgerInv == (\E t \in Nat : LedgerClaimed(t))' => CapInv'
<1>1. (\E t \in Nat : LedgerClaimed(t)) => CapInv
  BY ClaimedCap
<1> QED BY <1>1, PTL

LEMMA LifeInitInv == LifeInit => LifeInv
<1> SUFFICES ASSUME LifeInit PROVE LifeInv
  OBVIOUS
<1>1. ClaimInv
  BY ClaimInit DEF LifeInit
<1>2. CapInv
  BY ClaimedCap DEF LifeInit
<1> QED BY <1>1, <1>2 DEF LifeInit, LifeInv, ReservedInv

LEMMA ClaimKept == ClaimInv /\ [AuthorityNext]_authorityVars => ClaimInv'
BY NextTypes, IssuanceStep, AuthorityStep, OwnerStep DEF ClaimInv

\* A ledger is only filled by the operator who owns its claim, and once a ledger was
\* opened nobody owns a claim any more: a ledger in use is never a new file.
LEMMA InUseIsNotNew ==
    ASSUME ClaimInv, AuthorityNext, opened # {}, NEW t \in ClaimTimes PROVE ~NewLedger(t)
<1> SUFFICES ASSUME NEW a \in Operators, ledger[a] \in {NoFile, Torn}, ledger'[a] = t
             PROVE  FALSE
  BY DEF NewLedger
<1> USE OperatorAssumption DEF ClaimInv, TypeInv, AuthorityTypeOK
<1>1. ledger'[a] \notin {ledger[a], NoFile, Torn}
  BY DEF ClaimTimes
<1>2. ASSUME ledger' = ledger PROVE FALSE
  BY <1>1, <1>2
<1>3. ASSUME NEW p \in Operators, FillLedger(p) PROVE FALSE
  <2>1. CASE authority[p] = a
    <3>1. Owns(p, a)
      BY <1>3, <2>1 DEF FillLedger, Owns, Owning
    <3>2. \A x \in opened : x[1] # a
      BY <3>1 DEF OwnerInv
    <3>3. a \in authorities
      BY <2>1 DEF AuthorityInv
    <3>4. PICK x \in opened : TRUE
      OBVIOUS
    <3>5. x[1] \in authorities
      BY <3>4 DEF OpenedInv
    <3>6. x[1] = a
      BY <3>3, <3>5 DEF IssuanceInv
    <3> QED BY <3>2, <3>4, <3>6
  <2>2. CASE authority[p] # a
    <3>1. ledger'[a] = ledger[a]
      BY <1>3, <2>2 DEF FillLedger
    <3> QED BY <1>1, <3>1
  <2> QED BY <2>1, <2>2
<1>4. ASSUME NEW p \in Operators, CreateLedger(p) PROVE FALSE
  <2>1. ledger'[a] \in {ledger[a], Torn}
    BY <1>4 DEF CreateLedger
  <2> QED BY <1>1, <2>1
<1>5. ASSUME NEW b \in Operators, DeleteLedger(b) PROVE FALSE
  <2>1. ledger'[a] \in {ledger[a], NoFile}
    BY <1>5 DEF DeleteLedger
  <2> QED BY <1>1, <2>1
<1>6. ASSUME NEW p \in Operators, IssueAuthorization(p) PROVE FALSE
  BY <1>2, <1>6 DEF IssueAuthorization, CheckIssuance, CreateIssuance, FillIssuance,
                    CreateAuthorization, FillAuthorization, VerificationFails, Refuse, files
<1>7. ASSUME NEW p \in Operators, Claim(p) PROVE FALSE
  BY <1>2, <1>3, <1>4, <1>7 DEF Claim, CheckClaim, CreateClaim, FillClaim, UnlinkClaim,
                                VerifyLedger, Refuse, files
<1>8. ASSUME NEW p \in Operators, NEW b \in Operators,
             Crash(p) \/ Verify(p, b) \/ DeleteAuthorization(b)
      PROVE  FALSE
  BY <1>2, <1>8 DEF Crash, Verify, DeleteAuthorization, files
<1> QED BY <1>5, <1>6, <1>7, <1>8 DEF AuthorityNext

LEMMA AdministerKeeps == ASSUME LifeInv, Administer PROVE LifeInv'
<1> USE DEF LifeInv
<1>1. AuthorityNext
  BY DEF Administer
<1>2. ClaimInv'
  BY <1>1, ClaimKept
<1>4. CASE \E t \in ClaimTimes : NewLedger(t)
  <2>1. PICK t \in ClaimTimes : /\ NewLedger(t) /\ log' = <<ClaimLine(t)>>
                               /\ torn' = FALSE /\ spent' = 0 /\ reservations' = Counted
    BY <1>4 DEF Administer
  <2>2. t \in Nat
    BY OperatorAssumption DEF ClaimTimes
  <2>3. CapInv'
    BY <2>1, <2>2, FreshLedgerInv DEF LedgerClaimed, ClaimLine, Event
  <2>4. opened = {}
    BY <1>1, <2>1, InUseIsNotNew
  <2>5. ReservedInv'
    BY <2>1, <2>4 DEF Counted, ReservedInv
  <2> QED BY <1>2, <2>3, <2>5
<1>5. CASE \A t \in ClaimTimes : ~NewLedger(t)
  <2>1. UNCHANGED ledgerVars /\ UNCHANGED reservations
    BY <1>5 DEF Administer
  <2>2. LedgerStep
    BY <2>1, LedgerNextStep DEF CapInv
  <2>3. CapInv'
    BY <2>2, CapStep
  <2>4. \A c \in Cases : StateOf(c)' = StateOf(c)
    BY <2>1, StateUnchanged DEF ledgerVars
  <2>5. ReservedInv'
    BY <2>1, <2>4 DEF ReservedInv
  <2> QED BY <1>2, <2>3, <2>5
<1> QED BY <1>4, <1>5

\* A step of the ledger reserves a case only if it was available, and then it is not.
LEMMA ReservesOnce ==
    ASSUME LedgerTypeOK, LedgerStep, NEW c \in Cases,
           Len(log') > Len(log), log'[Len(log')].type = "case_reserved",
           log'[Len(log')].case = c
    PROVE  StateOf(c) = "available" /\ StateOf(c)' # "available"
<1> USE DEF LedgerTypeOK
<1>1. ASSUME NEW e, log' = Append(log, e) PROVE log'[Len(log')] = e
  BY <1>1
<1>2. CASE \E d \in Cases, t \in Nat : Reserve(d, t)
  <2>1. PICK d \in Cases, t \in Nat : Reserve(d, t)
    BY <1>2
  <2> DEFINE e == Event("case_reserved", d, NoResponse, NoResponse, t)
  <2>2. log' = Append(log, e) /\ StateOf(d) = "available"
    BY <2>1 DEF Reserve, Append1, MayReserve
  <2>3. e.case = d /\ e.type = "case_reserved" /\ e \in Events
    BY DEF Event, Events, EventTypes
  <2>4. d = c
    BY <1>1, <2>2, <2>3
  <2> HIDE DEF e
  <2>5. StateOf(c)' = "reserved_unknown_spend"
    BY <2>2, <2>3, <2>4, StateAppend
  <2> QED BY <2>2, <2>4, <2>5
<1>3. CASE \E d \in Cases, r \in Responses, t \in Nat : RecordResponse(d, r, t)
  BY <1>1, <1>3 DEF RecordResponse, Append1, Event
<1>4. CASE \E d \in Cases, r, s \in Responses, t \in Nat : RecordResult(d, r, s, t)
  BY <1>1, <1>4 DEF RecordResult, Append1, Event
<1>5. CASE (torn' = torn \/ torn' = TRUE) /\ UNCHANGED <<log, spent>>
  BY <1>5
<1> QED BY <1>2, <1>3, <1>4, <1>5 DEF LedgerStep

LEMMA OperateKeeps == ASSUME LifeInv, OperateLedger PROVE LifeInv'
<1> USE DEF LifeInv
<1>1. UNCHANGED authorityVars /\ LedgerNext
  BY DEF OperateLedger
<1>2. ClaimInv'
  BY <1>1, ClaimKept
<1>3. LedgerTypeOK /\ LedgerStep
  BY <1>1, LedgerNextStep DEF CapInv
<1>4. CapInv'
  BY <1>3, CapStep
<1>5. ASSUME NEW c \in Cases
      PROVE  /\ reservations'[c] \in Nat /\ reservations'[c] <= 1
             /\ reservations'[c] = 1 => StateOf(c)' # "available"
  <2> DEFINE reserved == /\ Len(log') > Len(log)
                         /\ log'[Len(log')].type = "case_reserved"
                         /\ log'[Len(log')].case = c
  <2>1. reservations'[c] = reservations[c] + (IF reserved THEN 1 ELSE 0)
    BY DEF OperateLedger
  <2>2. /\ reservations[c] \in Nat /\ reservations[c] <= 1
        /\ reservations[c] = 1 => StateOf(c) # "available"
    BY DEF ReservedInv
  <2>3. CASE reserved
    <3>1. StateOf(c) = "available" /\ StateOf(c)' # "available"
      BY <1>3, <2>3, ReservesOnce
    <3> QED BY <2>1, <2>2, <2>3, <3>1
  <2>4. CASE ~reserved
    BY <1>3, <2>1, <2>2, <2>4, LedgerStable
  <2> QED BY <2>3, <2>4
<1>6. reservations' \in [Cases -> Nat]
  BY <1>5 DEF OperateLedger
<1>7. ReservedInv'
  BY <1>5, <1>6 DEF ReservedInv
<1> QED BY <1>2, <1>4, <1>7

LEMMA LifeKeeps == LifeInv /\ [LifeNext]_lifeVars => LifeInv'
<1> SUFFICES ASSUME LifeInv, [LifeNext]_lifeVars PROVE LifeInv'
  OBVIOUS
<1>1. CASE Administer
  BY <1>1, AdministerKeeps
<1>2. CASE OperateLedger
  BY <1>2, OperateKeeps
<1>3. CASE UNCHANGED lifeVars
  <2>1. UNCHANGED authorityVars /\ UNCHANGED ledgerVars /\ UNCHANGED reservations
    BY <1>3 DEF lifeVars
  <2>2. ClaimInv' /\ CapInv'
    BY <2>1, ClaimKept, LedgerNextStep, CapStep DEF LifeInv, CapInv
  <2>3. \A c \in Cases : StateOf(c)' = StateOf(c)
    BY <2>1, StateUnchanged DEF ledgerVars
  <2> QED BY <2>1, <2>2, <2>3 DEF LifeInv, ReservedInv
<1> QED BY <1>1, <1>2, <1>3 DEF LifeNext

\* Once a claim of a ledger has returned, a case of the preregistration is reserved, and
\* so can be paid for, at most once over every ledger that is ever opened for it,
\* counting what was reserved in the opened file before the claim returned, and what is
\* reserved fits under the caps: for any number of operators who issue, claim, crash and
\* delete, and any clients, also of a ledger whose claim has not returned
\* (claim_v021_spend_ledger, reserve_v021_case).
THEOREM ReservedOnceEver == LifeSpec => [](ReservedOnce /\ ReservationsFit)
<1>1. LifeInit => LifeInv
  BY LifeInitInv
<1>2. LifeInv /\ [LifeNext]_lifeVars => LifeInv'
  BY LifeKeeps
<1>3. LifeInv => ReservedOnce /\ ReservationsFit
  BY CapFits DEF LifeInv, ReservedInv, ReservedOnce
<1> QED BY <1>1, <1>2, <1>3, PTL DEF LifeSpec

\* The composition keeps what its parts promise: one authorization, and the claim under
\* an opened ledger stays.
THEOREM OneClaimForLife == LifeSpec => [](OneAuthorization /\ ClaimStays)
<1>1. LifeInit => LifeInv
  BY LifeInitInv
<1>2. LifeInv /\ [LifeNext]_lifeVars => LifeInv'
  BY LifeKeeps
<1>3. LifeInv => OneAuthorization /\ ClaimStays
  BY DEF LifeInv, ClaimInv, IssuanceInv, OneAuthorization, OpenedInv, ClaimStays
<1> QED BY <1>1, <1>2, <1>3, PTL DEF LifeSpec

-----------------------------------------------------------------------------
(* The documents: what holds of each since it was written, of the          *)
(* controllers, the sessions and the ledger claims between any two steps,  *)
(* and of every call and evaluation that was made.                         *)


\* Document v of kind d has been written.
Exists(d, v) == v \in 1 .. Len(content[d])
Row(d, v) == content[d][v]

IsSequence(s) == \E S : s \in Seq(S)

\* What is there is a list of documents for each kind, and a path holds one of them.
Kept ==
  /\ content = [d \in Docs |-> content[d]]
  /\ \A d \in Docs : IsSequence(content[d])
  /\ file \in [Docs -> [Paths -> Nat]]
  /\ \A d \in Docs, p \in Paths : file[d][p] <= Len(content[d])

\* What holds of every document of a kind since it was prepared.
CapabilityFacts(r) ==
  /\ Exists("smoke", r.smoke)
  /\ Row("smoke", r.smoke).hidden = r.hidden
  /\ Row("smoke", r.smoke).manifest = r.manifest

PreregFacts(r) ==
  /\ Exists("capability", r.capability) /\ Exists("cases", r.cases)
  /\ Exists("chronology", r.chronology) /\ Exists("consensus", r.consensus)
  /\ Row("capability", r.capability).manifest = r.manifest
  /\ Row("capability", r.capability).tool = r.tool
  /\ Row("cases", r.cases).tool = r.tool
  /\ Row("chronology", r.chronology).hidden = Row("capability", r.capability).hidden
  /\ Row("consensus", r.consensus).packets = r.packets

FreezeFacts(r) ==
  /\ Exists("campaign", r.campaign) /\ Exists("cases", r.cases)
  /\ Exists("prereg", r.prereg) /\ Exists("smoke", r.smoke)
  /\ Row("campaign", r.campaign).prereg = r.prereg
  /\ Row("cases", r.cases).tool = r.tool

AuthorizationFacts(r) ==
  /\ Exists("freeze", r.freeze)
  /\ \E v : Exists("approval", v) /\ Row("approval", v).freeze = r.freeze

AmendmentFacts(r) ==
  /\ Exists("smoke", r.smoke) /\ Exists("smoke19", r.smoke19)
  /\ Row("smoke", r.smoke).hidden = r.hidden
  /\ Row("smoke19", r.smoke19).hidden = r.hidden

Capability21Facts(r) ==
  /\ Exists("amendment", r.amendment)
  /\ Row("amendment", r.amendment).tool = r.tool
  /\ Row("amendment", r.amendment).manifest = r.manifest
  /\ Row("amendment", r.amendment).smoke = r.smoke
  /\ Row("amendment", r.amendment).hidden = r.hidden

EvidenceFacts(r) ==
  /\ Exists("cases21", r.cases21) /\ Exists("capability21", r.capability21)
  /\ Exists("chronology", r.chronology) /\ Exists("packets", r.packets)
  /\ Row("capability21", r.capability21).amendment = r.amendment
  /\ Row("capability21", r.capability21).manifest = r.manifest
  /\ Row("capability21", r.capability21).smoke = r.smoke
  /\ Row("capability21", r.capability21).hidden = r.hidden
  /\ Row("cases21", r.cases21).rows = r.rows
  /\ Row("cases21", r.cases21).hidden = r.hidden
  /\ Row("chronology", r.chronology).hidden = r.hidden
  /\ Row("packets", r.packets).hidden = r.hidden
  /\ Row("cases21", r.cases21).tool = r.tool
  /\ Row("capability21", r.capability21).tool = r.tool
  /\ Row("chronology", r.chronology).tool = r.tool
  /\ Row("packets", r.packets).tool = r.tool

Prereg21Facts(r) ==
  /\ Exists("evidence", r.evidence)
  /\ Row("evidence", r.evidence).tool = r.tool
  /\ Row("evidence", r.evidence).rows = r.rows
  /\ Row("evidence", r.evidence).capability21 = r.capability21

Authorization21Facts(r) ==
  /\ Exists("prereg21", r.prereg21)
  /\ Row("prereg21", r.prereg21).rows = r.rows

Facts(d, r) ==
  /\ d = "capability" => CapabilityFacts(r)
  /\ d = "prereg" => PreregFacts(r)
  /\ d = "freeze" => FreezeFacts(r)
  /\ d = "authorization" => AuthorizationFacts(r)
  /\ d = "amendment" => AmendmentFacts(r)
  /\ d = "capability21" => Capability21Facts(r)
  /\ d = "evidence" => EvidenceFacts(r)
  /\ d = "prereg21" => Prereg21Facts(r)
  /\ d = "authorization21" => Authorization21Facts(r)

RowsInv ==
  \A d \in Docs : \A v \in 1 .. Len(content[d]) : \A r : r = Row(d, v) => Facts(d, r)

-----------------------------------------------------------------------------
\* What an exact campaign runs under: c is a controller that passed the preflight,
\* or a call.
UnderFreeze(c) ==
  LET freeze == Row("freeze", c.freeze)
      prereg == Row("prereg", c.prereg) IN
  /\ Exists("authorization", c.authorization)
  /\ Row("authorization", c.authorization).freeze = c.freeze
  /\ Exists("freeze", c.freeze) /\ Exists("prereg", c.prereg)
  /\ freeze.prereg = c.prereg /\ freeze.campaign = c.campaign
  /\ freeze.cases = prereg.cases /\ freeze.manifest = prereg.manifest
  /\ Exists("capability", prereg.capability)
  /\ freeze.smoke = Row("capability", prereg.capability).smoke

\* The smoke a preregistration rests on.
SmokeOf(prereg) ==
  Row("smoke", Row("capability", Row("prereg", prereg).capability).smoke)

Configured(r) ==
  /\ \A d \in Roots \cup Derived : r.paths[d] \in Paths
  /\ Exists("prereg", r.artifacts["prereg"])
  /\ SmokeOf(r.artifacts["prereg"]).tool = r.tool

ConfigInv ==
  /\ config = [w \in Workspaces |-> config[w]]
  /\ \A w \in Workspaces : \A r : r = config[w] /\ r # None => Configured(r)

Identity(c) == [authorization |-> c.authorization, prereg |-> c.prereg]

RunFacts(w, r) ==
  /\ r.pc \in {"stopped", "verified", "locked", "bound", "evaluating"}
  /\ r.pc # "stopped" => config[w] # None
  /\ r.pc = "locked" => lock[w] = r.identity /\ r.identity = Identity(r.identity)
  /\ r.pc = "bound" =>
       /\ UnderFreeze(r) /\ lock[w] = Identity(r)
       /\ r.tool = config[w].tool
       /\ r.tool = Row("freeze", r.freeze).tool
  /\ r.pc = "evaluating" =>
       /\ Exists("prereg", r.prereg)
       /\ DOMAIN r.capability = {"manifest", "smoke", "hidden"}

RunInv ==
  /\ run = [w \in Workspaces |-> run[w]] /\ lock = [w \in Workspaces |-> lock[w]]
  /\ \A w \in Workspaces : \A r : r = run[w] => RunFacts(w, r)

\* A ledger is claimed for one workspace.
ClaimsInv == \A x, y \in claims : x.authorization = y.authorization => x.workspace = y.workspace

ExactFacts(c) ==
  /\ UnderFreeze(c)
  /\ c.rows = Row("prereg", c.prereg).rows /\ c.rows = Row("freeze", c.freeze).rows
  /\ Row("campaign", c.campaign).tool = Row("freeze", c.freeze).tool

PlanFacts(r) ==
  /\ Exists("authorization21", r.authorization21)
  /\ Row("authorization21", r.authorization21).prereg21 = r.prereg21
  /\ Row("authorization21", r.authorization21).rows = r.rows
  /\ Exists("prereg21", r.prereg21)
  /\ Row("prereg21", r.prereg21).capability21 = r.capability21

AutomatedFacts(c) ==
  /\ Exists("plan", c.plan) /\ PlanFacts(Row("plan", c.plan))
  /\ Row("plan", c.plan).authorization21 = c.authorization
  /\ Row("plan", c.plan).prereg21 = c.prereg /\ Row("plan", c.plan).rows = c.rows
  /\ Row("authorization21", c.authorization).workspace = c.workspace

CallFacts(c) ==
  /\ [authorization |-> <<c.kind, c.authorization>>, workspace |-> c.workspace] \in claims
  /\ c.kind = "exact" => /\ c.workspace \in Workspaces /\ ExactFacts(c)
                         /\ lock[c.workspace] = Identity(c)
                         /\ config[c.workspace] # None
                         /\ Row("freeze", c.freeze).tool = config[c.workspace].tool
  /\ c.kind = "automated" => AutomatedFacts(c)

CallsInv == \A c \in calls : CallFacts(c)

HeldFacts(w, s) ==
  /\ "evidence" \in DOMAIN s.held => Exists("evidence", s.held["evidence"])
  /\ "prereg21" \in DOMAIN s.held => Exists("prereg21", s.held["prereg21"])
  /\ "authorization21" \in DOMAIN s.held =>
       /\ Exists("authorization21", s.held["authorization21"])
       /\ Row("authorization21", s.held["authorization21"]).workspace = w
  /\ "plan" \in DOMAIN s.held =>
       /\ Exists("plan", s.held["plan"]) /\ PlanFacts(Row("plan", s.held["plan"]))
       /\ "authorization21" \in DOMAIN s.held

CandidateFacts(r) ==
  /\ DOMAIN r = {"amendment", "manifest", "smoke", "hidden"}
  /\ Exists("smoke", r.smoke) /\ Row("smoke", r.smoke).specs = FrozenSpecs

SessionFacts(w, s) ==
  /\ s = [held |-> s.held, path |-> s.path, candidate |-> s.candidate]
  /\ HeldFacts(w, s)
  /\ s.candidate # None => CandidateFacts(s.candidate)

SessionInv ==
  /\ session = [w \in Workspaces |-> session[w]]
  /\ \A w \in Workspaces : \A s : s = session[w] => SessionFacts(w, s)

ExactJudged(e) ==
  LET row == Commitment(e.prereg) IN
  /\ Exists("prereg", e.prereg)
  /\ e.manifest = row.manifest /\ e.smoke = row.smoke /\ e.hidden = row.hidden
  /\ e.specs = Row("smoke", row.smoke).specs

AutomatedJudged(e) ==
  LET evidence == Row("evidence", e.evidence) IN
  /\ Exists("evidence", e.evidence) /\ Exists("prereg21", e.prereg)
  /\ e.manifest = evidence.manifest /\ e.smoke = evidence.smoke
  /\ e.hidden = evidence.hidden /\ e.specs = FrozenSpecs
  /\ evidence.rows = Row("prereg21", e.prereg).rows

Judged(e) ==
  /\ e.kind = "exact" => ExactJudged(e)
  /\ e.kind = "automated" => AutomatedJudged(e)

EvaluationsInv == \A e \in evaluations : Judged(e)

DocumentInv ==
  Kept /\ RowsInv /\ ConfigInv /\ RunInv /\ ClaimsInv /\ CallsInv /\ SessionInv /\ EvaluationsInv

-----------------------------------------------------------------------------
(* Writing.  A document that was written stays, at its place, for good. *)

Grows ==
  \A d \in Docs : \A v \in 1 .. Len(content[d]) :
     v \in 1 .. Len(content'[d]) /\ content'[d][v] = content[d][v]

LEMMA Kinds == Roots \cup Derived \cup Kinds21 \subseteq Docs
BY KindsAssumption DEF Docs

LEMMA ExistsStays ==
  ASSUME Grows, NEW d \in Docs, NEW v, Exists(d, v)
  PROVE  Exists(d, v)' /\ Row(d, v)' = Row(d, v)
BY DEF Grows, Exists, Row

LEMMA Unwritten == UNCHANGED content => Grows
BY DEF Grows

LEMMA Appended ==
  ASSUME NEW s, IsSequence(s), NEW r
  PROVE  /\ IsSequence(Append(s, r)) /\ Len(s) \in Nat
         /\ Len(Append(s, r)) = Len(s) + 1
         /\ \A i \in 1 .. Len(s) : Append(s, r)[i] = s[i]
         /\ Append(s, r)[Len(s) + 1] = r
<1>1. PICK S : s \in Seq(S)
  BY DEF IsSequence
<1>2. s \in Seq(S \cup {r})
  BY <1>1
<1>3. Append(s, r) \in Seq(S \cup {r})
  BY <1>2
<1> QED BY <1>2, <1>3 DEF IsSequence

LEMMA WriteGrows ==
  ASSUME Kept, NEW d \in Docs, NEW p \in Paths, NEW r, Write(d, p, r)
  PROVE  /\ Kept' /\ Grows
         /\ Len(content'[d]) = Len(content[d]) + 1
         /\ content'[d][Len(content[d]) + 1] = r
         /\ \A e \in Docs \ {d} : content'[e] = content[e]
<1> USE DEF Kept
<1>1. /\ content' = [content EXCEPT ![d] = Append(@, r)]
      /\ file' = [file EXCEPT ![d][p] = Len(content[d]) + 1]
  BY DEF Write
<1>2. /\ content'[d] = Append(content[d], r)
      /\ \A e \in Docs \ {d} : content'[e] = content[e]
      /\ content' = [e \in Docs |-> content'[e]]
  BY <1>1
<1>3. /\ IsSequence(content'[d]) /\ Len(content[d]) \in Nat
      /\ Len(content'[d]) = Len(content[d]) + 1
      /\ \A i \in 1 .. Len(content[d]) : content'[d][i] = content[d][i]
      /\ content'[d][Len(content[d]) + 1] = r
  BY <1>2, Appended
<1>4. Grows
  <2>1. ASSUME NEW e \in Docs, NEW v \in 1 .. Len(content[e])
        PROVE  v \in 1 .. Len(content'[e]) /\ content'[e][v] = content[e][v]
    <3>1. CASE e = d
      BY <1>3, <3>1
    <3>2. CASE e # d
      BY <1>2, <3>2
    <3> QED BY <3>1, <3>2
  <2> QED BY <2>1 DEF Grows
<1>5. file' \in [Docs -> [Paths -> Nat]]
  BY <1>1, <1>3
<1>6. ASSUME NEW e \in Docs, NEW q \in Paths
      PROVE  file'[e][q] <= Len(content'[e])
  <2>1. CASE e = d /\ q = p
    BY <1>1, <1>3, <2>1
  <2>2. CASE ~(e = d /\ q = p)
    <3>1. file'[e][q] = file[e][q]
      BY <1>1, <2>2
    <3>2. CASE e = d
      BY <1>3, <3>1, <3>2
    <3>3. CASE e # d
      BY <1>2, <3>1, <3>3
    <3> QED BY <3>2, <3>3
  <2> QED BY <2>1, <2>2
<1>7. \A e \in Docs : IsSequence(content'[e])
  BY <1>2, <1>3
<1> QED BY <1>2, <1>3, <1>4, <1>5, <1>6, <1>7 DEF IsSequence

LEMMA FactsStay ==
  ASSUME Grows, NEW d, NEW r, Facts(d, r)
  PROVE  Facts(d, r)'
<1> USE Kinds, ExistsStays DEF Roots, Derived, Kinds21
<1>1. CapabilityFacts(r) => CapabilityFacts(r)'
  BY DEF CapabilityFacts
<1>2. PreregFacts(r) => PreregFacts(r)'
  BY DEF PreregFacts
<1>3. FreezeFacts(r) => FreezeFacts(r)'
  BY DEF FreezeFacts
<1>4. AuthorizationFacts(r) => AuthorizationFacts(r)'
  BY DEF AuthorizationFacts
<1>5. AmendmentFacts(r) => AmendmentFacts(r)'
  BY DEF AmendmentFacts
<1>6. Capability21Facts(r) => Capability21Facts(r)'
  BY DEF Capability21Facts
<1>7. EvidenceFacts(r) => EvidenceFacts(r)'
  BY DEF EvidenceFacts
<1>8. Prereg21Facts(r) => Prereg21Facts(r)'
  BY DEF Prereg21Facts
<1>9. Authorization21Facts(r) => Authorization21Facts(r)'
  BY DEF Authorization21Facts
<1> QED BY <1>1, <1>2, <1>3, <1>4, <1>5, <1>6, <1>7, <1>8, <1>9 DEF Facts

\* A document is written that keeps to the facts of its kind.
Recorded == \E d \in Docs, p \in Paths : \E r : Write(d, p, r) /\ Facts(d, r)

LEMMA RecordedKeeps ==
  ASSUME Kept, RowsInv, Recorded
  PROVE  Kept' /\ Grows /\ RowsInv'
<1> PICK d \in Docs, p \in Paths : \E x : Write(d, p, x) /\ Facts(d, x)
  BY DEF Recorded
<1>1. PICK r : Write(d, p, r) /\ Facts(d, r)
  OBVIOUS
<1>2. /\ Kept' /\ Grows
      /\ Len(content'[d]) = Len(content[d]) + 1
      /\ content'[d][Len(content[d]) + 1] = r
      /\ \A e \in Docs \ {d} : content'[e] = content[e]
  BY <1>1, WriteGrows
<1>3. Facts(d, r)'
  BY <1>1, <1>2, FactsStay
<1>4. ASSUME NEW e \in Docs, NEW v, NEW x, v \in 1 .. Len(content[e]), x = content'[e][v]
      PROVE  Facts(e, x)'
  <2>1. x = content[e][v]
    BY <1>2, <1>4 DEF Grows
  <2>2. Facts(e, x)
    BY <1>4, <2>1 DEF RowsInv, Row
  <2> QED BY <1>2, <2>2, FactsStay
<1>5. ASSUME NEW e \in Docs, NEW v \in 1 .. Len(content'[e])
      PROVE  (e = d /\ v = Len(content[d]) + 1) \/ v \in 1 .. Len(content[e])
  <2>1. Len(content[d]) \in Nat
    BY Appended DEF Kept
  <2> QED BY <1>2, <2>1
<1>6. ASSUME NEW e \in Docs, NEW v, NEW x, v \in 1 .. Len(content'[e]), x = content'[e][v]
      PROVE  Facts(e, x)'
  BY <1>2, <1>3, <1>4, <1>5, <1>6
<1>7. RowsInv'
  BY <1>6 DEF RowsInv, Row
<1> QED BY <1>2, <1>7
-----------------------------------------------------------------------------
(* Reading. *)

LEMMA ArgumentPaths ==
  ASSUME NEW ds, NEW a \in Arguments(ds), NEW d \in ds
  PROVE  a[d] \in Paths
BY DEF Arguments, Paths

LEMMA ReadExists ==
  ASSUME Kept, NEW d \in Docs, NEW a, a[d] \in Paths, At(a, d) # 0
  PROVE  Exists(d, At(a, d))
<1>1. /\ file[d][a[d]] \in Nat /\ file[d][a[d]] <= Len(content[d])
      /\ Len(content[d]) \in Nat
  BY Appended DEF Kept
<1> QED BY <1>1 DEF At, Exists

LEMMA ReadFacts ==
  ASSUME Kept, RowsInv, NEW d \in Docs, NEW a, a[d] \in Paths, At(a, d) # 0
  PROVE  Facts(d, Is(a, d))
<1>1. Exists(d, At(a, d))
  BY ReadExists
<1> QED BY <1>1 DEF RowsInv, Exists, Is, Row

-----------------------------------------------------------------------------
(* Preparation. *)

FactualKinds == {"capability", "prereg", "freeze", "authorization", "amendment",
                 "capability21", "evidence", "prereg21", "authorization21"}

LEMMA PlainRecorded ==
  ASSUME NEW d \in Docs \ FactualKinds, NEW p \in Paths, NEW r, Write(d, p, r)
  PROVE  Recorded
BY DEF Recorded, Facts, FactualKinds

LEMMA FactualRecorded ==
  ASSUME NEW d \in Docs, NEW p \in Paths, NEW r, Write(d, p, r), Facts(d, r)
  PROVE  Recorded
BY DEF Recorded

LEMMA PlainPreparing ==
  ASSUME NEW p \in Paths, NEW a,
         \/ \E d \in Roots : PrepareRoot(d, p)
         \/ PrepareSmoke(a, p) \/ PrepareChronology(a, p) \/ PreparePackets(a, p)
         \/ SealConsensus(a, p) \/ PrepareCases(a, p) \/ PrepareCampaign(a, p)
         \/ Approve(a, p) \/ AuthorizeLegacy(a, p)
  PROVE  Recorded
<1> USE Kinds, PlainRecorded DEF Roots, Derived, FactualKinds
<1>1. CASE \E d \in Roots : PrepareRoot(d, p)
  BY <1>1 DEF PrepareRoot
<1>2. CASE PrepareSmoke(a, p)
  BY <1>2 DEF PrepareSmoke
<1>3. CASE PrepareChronology(a, p)
  BY <1>3 DEF PrepareChronology
<1>4. CASE PreparePackets(a, p)
  BY <1>4 DEF PreparePackets
<1>5. CASE SealConsensus(a, p)
  BY <1>5 DEF SealConsensus
<1>6. CASE PrepareCases(a, p)
  BY <1>6 DEF PrepareCases
<1>7. CASE PrepareCampaign(a, p)
  BY <1>7 DEF PrepareCampaign
<1>8. CASE Approve(a, p)
  BY <1>8 DEF Approve
<1>9. CASE AuthorizeLegacy(a, p)
  BY <1>9 DEF AuthorizeLegacy
<1> QED BY <1>1, <1>2, <1>3, <1>4, <1>5, <1>6, <1>7, <1>8, <1>9

LEMMA CapabilityPreparing ==
  ASSUME Kept, NEW p \in Paths, NEW a,
         \A d \in {"manifest", "smoke", "hidden"} : a[d] \in Paths, PrepareCapability(a, p)
  PROVE  Recorded
<1> DEFINE r == Record(Made, a, {"manifest", "smoke", "hidden"})
<1>1. /\ Write("capability", p, r) /\ There(a, {"hidden", "manifest", "smoke"})
      /\ Is(a, "smoke").manifest = At(a, "manifest")
      /\ Is(a, "smoke").hidden = At(a, "hidden")
  BY DEF PrepareCapability, CapabilityDerivable, Binds
<1>2. r.smoke = At(a, "smoke") /\ r.manifest = At(a, "manifest") /\ r.hidden = At(a, "hidden")
  BY DEF Record, Made
<1> HIDE DEF r
<1>3. Exists("smoke", At(a, "smoke"))
  BY <1>1, Kinds, ReadExists DEF There, Derived
<1>4. CapabilityFacts(r)
  BY <1>1, <1>2, <1>3 DEF CapabilityFacts, Is, Row
<1>5. Facts("capability", r)
  BY <1>4 DEF Facts
<1>6. "capability" \in Docs
  BY Kinds DEF Derived
<1> QED BY <1>1, <1>5, <1>6, FactualRecorded

LEMMA PreregistrationPreparing ==
  ASSUME Kept, NEW p \in Paths, NEW a, \A d \in Roots \cup Derived : a[d] \in Paths,
         PreparePreregistration(a, p)
  PROVE  Recorded
<1> DEFINE r == Record([tool |-> tool, rows |-> Is(a, "cases").rows], a,
                       {"capability", "cases", "chronology", "consensus", "packets", "manifest"})
<1>1. /\ Write("prereg", p, r)
      /\ CasesOk(a) /\ ChronologyOk(a) /\ ConsensusOk(a) /\ CapabilityOk(a, At(a, "manifest"))
      /\ Is(a, "cases").tool = tool /\ Is(a, "capability").tool = tool
  BY DEF PreparePreregistration, PreregistrationDerivable
<1>2. /\ r.capability = At(a, "capability") /\ r.cases = At(a, "cases")
      /\ r.chronology = At(a, "chronology") /\ r.consensus = At(a, "consensus")
      /\ r.packets = At(a, "packets") /\ r.manifest = At(a, "manifest") /\ r.tool = tool
  BY DEF Record
<1> HIDE DEF r
<1>3. /\ At(a, "capability") # 0 /\ At(a, "cases") # 0
      /\ At(a, "chronology") # 0 /\ At(a, "consensus") # 0
      /\ Is(a, "capability").manifest = At(a, "manifest")
      /\ Is(a, "capability").hidden = At(a, "hidden")
      /\ Is(a, "chronology").hidden = At(a, "hidden")
      /\ Is(a, "consensus").packets = At(a, "packets")
  BY <1>1 DEF CasesOk, ChronologyOk, ConsensusOk, CapabilityOk, There, Binds
<1>4. /\ Exists("capability", At(a, "capability")) /\ Exists("cases", At(a, "cases"))
      /\ Exists("chronology", At(a, "chronology")) /\ Exists("consensus", At(a, "consensus"))
  BY <1>3, Kinds, ReadExists DEF Derived
<1>5. PreregFacts(r)
  BY <1>1, <1>2, <1>3, <1>4 DEF PreregFacts, Is, Row
<1>6. Facts("prereg", r)
  BY <1>5 DEF Facts
<1>7. "prereg" \in Docs
  BY Kinds DEF Derived
<1> QED BY <1>1, <1>6, <1>7, FactualRecorded

LEMMA FreezePreparing ==
  ASSUME Kept, NEW p \in Paths, NEW a, \A d \in Roots \cup Derived : a[d] \in Paths,
         PrepareFreeze(a, p)
  PROVE  Recorded
<1> DEFINE r == Record([tool |-> tool, rows |-> Is(a, "cases").rows], a,
                       {"campaign", "prereg", "cases", "manifest", "smoke"})
<1>1. /\ Write("freeze", p, r)
      /\ CampaignOk(a) /\ CasesOk(a) /\ At(a, "smoke") # 0 /\ Is(a, "cases").tool = tool
  BY DEF PrepareFreeze, FreezeDerivable, There
<1>2. /\ r.campaign = At(a, "campaign") /\ r.prereg = At(a, "prereg")
      /\ r.cases = At(a, "cases") /\ r.smoke = At(a, "smoke") /\ r.tool = tool
  BY DEF Record
<1> HIDE DEF r
<1>3. /\ At(a, "campaign") # 0 /\ At(a, "prereg") # 0 /\ At(a, "cases") # 0
      /\ Is(a, "campaign").prereg = At(a, "prereg")
  BY <1>1 DEF CasesOk, CampaignOk, There, Binds
<1>4. /\ Exists("campaign", At(a, "campaign")) /\ Exists("prereg", At(a, "prereg"))
      /\ Exists("cases", At(a, "cases")) /\ Exists("smoke", At(a, "smoke"))
  BY <1>1, <1>3, Kinds, ReadExists DEF Derived
<1>5. FreezeFacts(r)
  BY <1>1, <1>2, <1>3, <1>4 DEF FreezeFacts, Is, Row
<1>6. Facts("freeze", r)
  BY <1>5 DEF Facts
<1>7. "freeze" \in Docs
  BY Kinds DEF Derived
<1> QED BY <1>1, <1>6, <1>7, FactualRecorded

LEMMA Authorizing ==
  ASSUME Kept, NEW p \in Paths, NEW a, \A d \in Roots \cup Derived : a[d] \in Paths,
         Authorize(a, p)
  PROVE  Recorded
<1> DEFINE r == Bound(a, {"freeze"})
<1>1. /\ Write("authorization", p, r) /\ At(a, "freeze") # 0 /\ At(a, "approval") # 0
      /\ Is(a, "approval").freeze = At(a, "freeze")
  BY DEF Authorize, FreezeOk, There, Binds
<1>2. r.freeze = At(a, "freeze")
  BY DEF Bound
<1> HIDE DEF r
<1>3. Exists("freeze", At(a, "freeze")) /\ Exists("approval", At(a, "approval"))
  BY <1>1, Kinds, ReadExists DEF Derived
<1>4. AuthorizationFacts(r)
  BY <1>1, <1>2, <1>3 DEF AuthorizationFacts, Is, Row
<1>5. Facts("authorization", r)
  BY <1>4 DEF Facts
<1>6. "authorization" \in Docs
  BY Kinds DEF Derived
<1> QED BY <1>1, <1>5, <1>6, FactualRecorded

LEMMA AmendmentIssued ==
  ASSUME Kept, RowsInv, NEW amendment \in Amendments
  PROVE  Exists("amendment", amendment) /\ AmendmentFacts(Row("amendment", amendment))
<1>1. PICK b \in Arguments(AmendmentInputs) : AmendmentOk(b) /\ amendment = At(b, "amendment")
  BY DEF Amendments
<1>2. b["amendment"] \in Paths
  BY ArgumentPaths DEF AmendmentInputs
<1>3. At(b, "amendment") # 0
  BY <1>1 DEF AmendmentOk, There
<1>4. "amendment" \in Docs
  BY Kinds DEF Kinds21
<1>5. Facts("amendment", Is(b, "amendment")) /\ Exists("amendment", At(b, "amendment"))
  BY <1>2, <1>3, <1>4, ReadFacts, ReadExists
<1> QED BY <1>1, <1>5 DEF Facts, Is, Row

LEMMA PlainPreparing21 ==
  ASSUME NEW p \in Paths, NEW a, NEW w,
         PrepareSmoke19(a, p) \/ PrepareCases21(a, p) \/ PreparePlan(w, a, p)
  PROVE  Recorded
<1> USE Kinds, PlainRecorded DEF Kinds21, FactualKinds, Prepare
<1>1. CASE PrepareSmoke19(a, p)
  BY <1>1 DEF PrepareSmoke19
<1>2. CASE PrepareCases21(a, p)
  BY <1>2 DEF PrepareCases21
<1>3. CASE PreparePlan(w, a, p)
  BY <1>3 DEF PreparePlan
<1> QED BY <1>1, <1>2, <1>3

LEMMA AmendmentPreparing ==
  ASSUME Kept, NEW p \in Paths, NEW a,
         \A d \in {"smoke19", "smoke"} : a[d] \in Paths, PrepareAmendment(a, p)
  PROVE  Recorded
<1> DEFINE r == Record(Made, a, {"smoke19", "smoke", "manifest", "hidden"})
<1>1. /\ Write("amendment", p, r) /\ At(a, "smoke19") # 0 /\ At(a, "smoke") # 0
      /\ Is(a, "smoke").hidden = At(a, "hidden")
      /\ Is(a, "smoke19").hidden = At(a, "hidden")
  BY DEF PrepareAmendment, Prepare, AmendmentDerivable, SmokePairOk, There, Binds
<1>2. /\ r.smoke = At(a, "smoke") /\ r.smoke19 = At(a, "smoke19")
      /\ r.hidden = At(a, "hidden")
  BY DEF Record, Made
<1> HIDE DEF r
<1>3. "smoke" \in Docs /\ "smoke19" \in Docs /\ "amendment" \in Docs
  BY Kinds DEF Derived, Kinds21
<1>4. Exists("smoke", At(a, "smoke")) /\ Exists("smoke19", At(a, "smoke19"))
  BY <1>1, <1>3, ReadExists
<1>5. AmendmentFacts(r)
  BY <1>1, <1>2, <1>4 DEF AmendmentFacts, Is, Row
<1>6. Facts("amendment", r)
  BY <1>5 DEF Facts
<1> QED BY <1>1, <1>3, <1>6, FactualRecorded

LEMMA Capability21Preparing ==
  ASSUME Kept, RowsInv, NEW p \in Paths, NEW a, PrepareCapability21(a, p)
  PROVE  Recorded
<1>1. PICK amendment \in Amendments :
        /\ Capability21Derivable(a, At(a, "manifest"), amendment, tool)
        /\ Prepare("capability21", p, Record([tool |-> tool, amendment |-> amendment], a,
                                             {"manifest", "smoke", "hidden"}))
  BY DEF PrepareCapability21
<1> DEFINE r == Record([tool |-> tool, amendment |-> amendment], a,
                       {"manifest", "smoke", "hidden"})
<1>2. Write("capability21", p, r)
  BY <1>1 DEF Prepare
<1>3. /\ r.amendment = amendment /\ r.tool = tool /\ r.manifest = At(a, "manifest")
      /\ r.smoke = At(a, "smoke") /\ r.hidden = At(a, "hidden")
  BY DEF Record
<1> HIDE DEF r
<1>4. /\ Row("amendment", amendment).tool = tool
      /\ Row("amendment", amendment).manifest = At(a, "manifest")
      /\ Row("amendment", amendment).smoke = At(a, "smoke")
      /\ Row("amendment", amendment).hidden = At(a, "hidden")
  BY <1>1 DEF Capability21Derivable, Binds, Row
<1>5. Exists("amendment", amendment)
  BY AmendmentIssued
<1>6. Facts("capability21", r)
  BY <1>3, <1>4, <1>5 DEF Capability21Facts, Facts
<1>7. "capability21" \in Docs
  BY Kinds DEF Kinds21
<1> QED BY <1>2, <1>6, <1>7, FactualRecorded

LEMMA EvidencePreparing ==
  ASSUME Kept, NEW p \in Paths, NEW a,
         \A d \in {"cases21", "capability21", "chronology", "packets"} : a[d] \in Paths,
         PrepareEvidence(a, p)
  PROVE  Recorded
<1>1. PICK amendment \in Amendments :
        /\ EvidenceDerivable(a, amendment, tool)
        /\ Prepare("evidence", p,
             Record([tool |-> tool, rows |-> Is(a, "cases21").rows, amendment |-> amendment],
                    a, EvidenceInputs))
  BY DEF PrepareEvidence
<1> DEFINE r == Record([tool |-> tool, rows |-> Is(a, "cases21").rows,
                        amendment |-> amendment], a, EvidenceInputs)
<1>2. Write("evidence", p, r)
  BY <1>1 DEF Prepare
<1>3. /\ r.amendment = amendment /\ r.tool = tool /\ r.rows = Is(a, "cases21").rows
      /\ \A d \in EvidenceInputs : r[d] = At(a, d)
  BY DEF Record, EvidenceInputs
<1> HIDE DEF r
<1>4. /\ At(a, "cases21") # 0 /\ At(a, "capability21") # 0
      /\ At(a, "chronology") # 0 /\ At(a, "packets") # 0
  BY <1>1 DEF EvidenceDerivable, Cases21Ok, Capability21Ok, ChronologyOk, There
<1>5. /\ Is(a, "capability21").amendment = amendment
      /\ Is(a, "capability21").manifest = At(a, "manifest")
      /\ Is(a, "capability21").smoke = At(a, "smoke")
      /\ Is(a, "capability21").hidden = At(a, "hidden")
      /\ Is(a, "cases21").hidden = At(a, "hidden")
      /\ Is(a, "chronology").hidden = At(a, "hidden")
      /\ Is(a, "packets").hidden = At(a, "hidden")
  BY <1>1 DEF EvidenceDerivable, Capability21Ok, ChronologyOk, PacketsOf, Binds
<1>6. \A d \in {"cases21", "capability21", "chronology", "packets"} : Is(a, d).tool = tool
  BY <1>1 DEF EvidenceDerivable, OneProducer
<1>7. \A d \in {"cases21", "capability21", "chronology", "packets", "evidence"} : d \in Docs
  BY Kinds DEF Derived, Kinds21
<1>8. \A d \in {"cases21", "capability21", "chronology", "packets"} : Exists(d, At(a, d))
  BY <1>4, <1>7, ReadExists
<1>9. EvidenceFacts(r)
  BY <1>3, <1>5, <1>6, <1>8 DEF EvidenceFacts, Is, Row, EvidenceInputs
<1>10. Facts("evidence", r)
  BY <1>9 DEF Facts
<1> QED BY <1>2, <1>7, <1>10, FactualRecorded

LEMMA Preregistration21Preparing ==
  ASSUME SessionInv, NEW w \in Workspaces, NEW p \in Paths, PreparePreregistration21(w, p)
  PROVE  Recorded
<1> DEFINE r == FromEvidence(w)
<1>1. Write("prereg21", p, r) /\ "evidence" \in DOMAIN session[w].held
  BY DEF PreparePreregistration21, Prepare, Holds
<1>2. Exists("evidence", Held(w, "evidence"))
  BY <1>1 DEF SessionInv, SessionFacts, HeldFacts, Held
<1>3. Facts("prereg21", r)
  BY <1>2 DEF Facts, Prereg21Facts, FromEvidence, Row
<1>4. "prereg21" \in Docs
  BY Kinds DEF Kinds21
<1> HIDE DEF r
<1> QED BY <1>1, <1>3, <1>4, FactualRecorded

LEMMA Authorizing21 ==
  ASSUME SessionInv, NEW w \in Workspaces, NEW p \in Paths, Authorize21(w, p)
  PROVE  Recorded
<1> DEFINE r == AuthorizationRecord(w)
<1>1. Write("authorization21", p, r) /\ "prereg21" \in DOMAIN session[w].held
  BY DEF Authorize21, Prepare, Holds
<1>2. Exists("prereg21", Held(w, "prereg21"))
  BY <1>1 DEF SessionInv, SessionFacts, HeldFacts, Held
<1>3. Facts("authorization21", r)
  BY <1>2 DEF Facts, Authorization21Facts, AuthorizationRecord, Row
<1>4. "authorization21" \in Docs
  BY Kinds DEF Kinds21
<1> HIDE DEF r
<1> QED BY <1>1, <1>3, <1>4, FactualRecorded

-----------------------------------------------------------------------------
(* What was found out of documents stays so. *)

LEMMA RowFacts ==
  ASSUME RowsInv, NEW d \in Docs, NEW v, Exists(d, v)
  PROVE  Facts(d, Row(d, v))
BY DEF RowsInv, Exists

LEMMA SmokeChain ==
  ASSUME RowsInv, NEW v, Exists("prereg", v)
  PROVE  /\ Exists("capability", Row("prereg", v).capability)
         /\ Exists("smoke", Row("capability", Row("prereg", v).capability).smoke)
<1>1. "prereg" \in Docs /\ "capability" \in Docs
  BY Kinds DEF Derived
<1>2. Exists("capability", Row("prereg", v).capability)
  BY <1>1, RowFacts DEF Facts, PreregFacts
<1>3. Facts("capability", Row("capability", Row("prereg", v).capability))
  BY <1>1, <1>2, RowFacts
<1> QED BY <1>2, <1>3 DEF Facts, CapabilityFacts

LEMMA ConfiguredStays ==
  ASSUME RowsInv, Grows, NEW r, Configured(r)
  PROVE  Configured(r)'
<1> DEFINE v == r.artifacts["prereg"]
<1>1. Exists("prereg", v)
  BY DEF Configured
<1>2. /\ Exists("capability", Row("prereg", v).capability)
      /\ Exists("smoke", Row("capability", Row("prereg", v).capability).smoke)
  BY <1>1, SmokeChain
<1>3. "prereg" \in Docs /\ "capability" \in Docs /\ "smoke" \in Docs
  BY Kinds DEF Derived
<1>4. /\ Exists("prereg", v)' /\ Row("prereg", v)' = Row("prereg", v)
      /\ Row("capability", Row("prereg", v).capability)'
           = Row("capability", Row("prereg", v).capability)
  BY <1>1, <1>2, <1>3, ExistsStays
<1>5. Row("smoke", Row("capability", Row("prereg", v).capability).smoke)'
        = Row("smoke", Row("capability", Row("prereg", v).capability).smoke)
  BY <1>2, <1>3, <1>4, ExistsStays
<1>6. SmokeOf(v)' = SmokeOf(v)
  BY <1>4, <1>5 DEF SmokeOf
<1> QED BY <1>4, <1>6 DEF Configured

LEMMA UnderFreezeStays ==
  ASSUME Grows, NEW c, UnderFreeze(c)
  PROVE  UnderFreeze(c)'
BY Kinds, ExistsStays DEF UnderFreeze, Derived

LEMMA ExactFactsStay ==
  ASSUME RowsInv, Grows, NEW c, ExactFacts(c)
  PROVE  ExactFacts(c)' /\ Row("freeze", c.freeze)' = Row("freeze", c.freeze)
<1>1. "prereg" \in Docs /\ "freeze" \in Docs /\ "campaign" \in Docs
  BY Kinds DEF Derived
<1>2. /\ Exists("freeze", c.freeze) /\ Exists("prereg", c.prereg)
      /\ Row("freeze", c.freeze).campaign = c.campaign
  BY DEF ExactFacts, UnderFreeze
<1>3. Exists("campaign", c.campaign)
  BY <1>1, <1>2, RowFacts DEF Facts, FreezeFacts
<1>4. UnderFreeze(c)'
  BY UnderFreezeStays DEF ExactFacts
<1> QED BY <1>1, <1>2, <1>3, <1>4, ExistsStays DEF ExactFacts

LEMMA PlanFactsStay ==
  ASSUME Grows, NEW r, PlanFacts(r)
  PROVE  PlanFacts(r)'
BY Kinds, ExistsStays DEF PlanFacts, Kinds21

LEMMA AutomatedFactsStay ==
  ASSUME Grows, NEW c, AutomatedFacts(c)
  PROVE  AutomatedFacts(c)'
<1>1. "plan" \in Docs /\ "authorization21" \in Docs
  BY Kinds DEF Kinds21
<1>2. Exists("plan", c.plan) /\ Exists("authorization21", c.authorization)
  BY DEF AutomatedFacts, PlanFacts
<1>3. PlanFacts(Row("plan", c.plan))'
  BY <1>1, <1>2, ExistsStays, PlanFactsStay DEF AutomatedFacts
<1> QED BY <1>1, <1>2, <1>3, ExistsStays DEF AutomatedFacts

LEMMA SessionFactsStay ==
  ASSUME Grows, NEW w, NEW s, SessionFacts(w, s)
  PROVE  SessionFacts(w, s)'
<1>1. \A d \in {"plan", "authorization21", "evidence", "prereg21", "smoke"} : d \in Docs
  BY Kinds DEF Kinds21, Derived
<1>2. "plan" \in DOMAIN s.held =>
        Exists("plan", s.held["plan"])' /\ PlanFacts(Row("plan", s.held["plan"]))'
  BY <1>1, ExistsStays, PlanFactsStay DEF SessionFacts, HeldFacts
<1>3. HeldFacts(w, s)'
  BY <1>1, <1>2, ExistsStays DEF SessionFacts, HeldFacts
<1>4. s.candidate # None => CandidateFacts(s.candidate)'
  BY <1>1, ExistsStays DEF SessionFacts, CandidateFacts
<1> QED BY <1>3, <1>4 DEF SessionFacts

LEMMA JudgedStays ==
  ASSUME RowsInv, Grows, NEW e, Judged(e)
  PROVE  Judged(e)'
<1>1. \A d \in {"prereg", "capability", "smoke", "evidence", "prereg21"} : d \in Docs
  BY Kinds DEF Kinds21, Derived
<1>2. ASSUME e.kind = "exact"
      PROVE  ExactJudged(e)'
  <2>1. ExactJudged(e)
    BY <1>2 DEF Judged
  <2> DEFINE c == Row("prereg", e.prereg).capability
  <2>2. Exists("prereg", e.prereg)
    BY <2>1 DEF ExactJudged
  <2>3. Exists("capability", c) /\ Exists("smoke", Row("capability", c).smoke)
    BY <2>2, SmokeChain
  <2>4. /\ Exists("prereg", e.prereg)' /\ Row("prereg", e.prereg)' = Row("prereg", e.prereg)
        /\ Row("capability", c)' = Row("capability", c)
        /\ Row("smoke", Row("capability", c).smoke)' = Row("smoke", Row("capability", c).smoke)
    BY <1>1, <2>2, <2>3, ExistsStays
  <2>5. Commitment(e.prereg) = Row("capability", c)
    BY DEF Commitment, Row
  <2>6. Commitment(e.prereg)' = Row("capability", c)
    BY <2>4 DEF Commitment, Row
  <2> HIDE DEF c
  <2>7. Row("smoke", Commitment(e.prereg).smoke)' = Row("smoke", Row("capability", c).smoke)
    BY <2>4, <2>6 DEF Row
  <2> QED BY <2>1, <2>4, <2>5, <2>6, <2>7 DEF ExactJudged
<1>3. ASSUME e.kind = "automated"
      PROVE  AutomatedJudged(e)'
  BY <1>1, <1>3, ExistsStays DEF Judged, AutomatedJudged
<1> QED BY <1>2, <1>3 DEF Judged

\* Every step only adds: to the documents, the configurations, the locks, the claims.
Advances ==
  /\ Grows
  /\ \A w \in Workspaces : config[w] # None => config'[w] = config[w]
  /\ \A w \in Workspaces : lock[w] # None => lock'[w] = lock[w]
  /\ claims \subseteq claims'

LEMMA IdentityThere ==
  ASSUME NEW c
  PROVE  Identity(c) # None
<1>1. DOMAIN Identity(c) = {"authorization", "prereg"} /\ DOMAIN None = {"none"}
  BY DEF Identity, None
<1> QED BY <1>1

LEMMA RunFactsStay ==
  ASSUME Advances, NEW w \in Workspaces, NEW r, RunFacts(w, r)
  PROVE  RunFacts(w, r)'
<1>1. "freeze" \in Docs /\ "prereg" \in Docs
  BY Kinds DEF Derived
<1>2. r.pc # "stopped" => config'[w] # None /\ config'[w] = config[w]
  BY DEF Advances, RunFacts
<1>3. r.pc = "locked" => lock'[w] = r.identity /\ r.identity = Identity(r.identity)
  BY IdentityThere DEF Advances, RunFacts
<1>4. ASSUME r.pc = "bound"
      PROVE  /\ UnderFreeze(r)' /\ lock'[w] = Identity(r)
             /\ Row("freeze", r.freeze)' = Row("freeze", r.freeze)
  <2>1. UnderFreeze(r) /\ lock[w] = Identity(r)
    BY <1>4 DEF RunFacts
  <2>2. UnderFreeze(r)'
    BY <2>1, UnderFreezeStays DEF Advances
  <2>3. Exists("freeze", r.freeze)
    BY <2>1 DEF UnderFreeze
  <2> QED BY <1>1, <2>1, <2>2, <2>3, ExistsStays, IdentityThere DEF Advances
<1>5. r.pc = "evaluating" => Exists("prereg", r.prereg)'
  BY <1>1, ExistsStays DEF RunFacts, Advances
<1>6. Identity(r)' = Identity(r) /\ Identity(r.identity)' = Identity(r.identity)
  BY DEF Identity
<1> QED BY <1>2, <1>3, <1>4, <1>5, <1>6 DEF RunFacts, Identity

LEMMA CallFactsStay ==
  ASSUME RowsInv, Advances, NEW c, CallFacts(c)
  PROVE  CallFacts(c)'
<1>1. ASSUME c.kind = "exact"
      PROVE  /\ ExactFacts(c)' /\ lock'[c.workspace] = Identity(c)
             /\ config'[c.workspace] # None
             /\ Row("freeze", c.freeze)' = Row("freeze", c.freeze)
             /\ config'[c.workspace] = config[c.workspace]
  BY <1>1, ExactFactsStay, IdentityThere DEF CallFacts, Advances
<1>2. c.kind = "automated" => AutomatedFacts(c)'
  BY AutomatedFactsStay DEF CallFacts, Advances
<1> QED BY <1>1, <1>2 DEF CallFacts, Advances, Identity

LEMMA Carried21 ==
  ASSUME DocumentInv, Advances
  PROVE  /\ config' = config => ConfigInv'
         /\ run' = run /\ lock' = lock => RunInv'
         /\ claims' = claims => ClaimsInv'
         /\ calls' = calls => CallsInv'
         /\ session' = session => SessionInv'
         /\ evaluations' = evaluations => EvaluationsInv'
<1>1. RowsInv /\ Grows
  BY DEF DocumentInv, Advances
<1>2. config' = config => ConfigInv'
  BY <1>1, ConfiguredStays DEF DocumentInv, ConfigInv
<1>3. run' = run /\ lock' = lock => RunInv'
  BY RunFactsStay DEF DocumentInv, RunInv
<1>4. claims' = claims => ClaimsInv'
  BY DEF DocumentInv, ClaimsInv
<1>5. calls' = calls => CallsInv'
  BY <1>1, CallFactsStay DEF DocumentInv, CallsInv
<1>6. session' = session => SessionInv'
  BY <1>1, SessionFactsStay DEF DocumentInv, SessionInv
<1>7. evaluations' = evaluations => EvaluationsInv'
  BY <1>1, JudgedStays DEF DocumentInv, EvaluationsInv
<1> QED BY <1>2, <1>3, <1>4, <1>5, <1>6, <1>7

\* The documents as they are, or one more of them, and nothing else.
LEMMA OnlyDocuments ==
  ASSUME DocumentInv, Kept', RowsInv', Grows,
         UNCHANGED <<config, lock, run, claims, calls, evaluations, session>>
  PROVE  DocumentInv'
<1>1. Advances
  BY DEF Advances
<1> QED BY <1>1, Carried21 DEF DocumentInv

LEMMA SameDocuments ==
  ASSUME Kept, RowsInv, UNCHANGED <<content, file>>
  PROVE  Kept' /\ RowsInv' /\ Grows
<1>1. Grows
  BY Unwritten
<1>2. Kept'
  BY DEF Kept, IsSequence
<1>3. RowsInv'
  <2>1. ASSUME NEW d \in Docs, NEW v \in 1 .. Len(content'[d]), NEW r, r = content'[d][v]
        PROVE  Facts(d, r)'
    <3>1. Facts(d, r)
      BY <2>1 DEF RowsInv, Row
    <3> QED BY <1>1, <3>1, FactsStay
  <2> QED BY <2>1 DEF RowsInv, Row
<1> QED BY <1>1, <1>2, <1>3

LEMMA PreparedKeeps ==
  ASSUME DocumentInv, Recorded, UNCHANGED session
  PROVE  DocumentInv'
<1>1. Kept' /\ Grows /\ RowsInv'
  BY RecordedKeeps DEF DocumentInv
<1>2. UNCHANGED <<config, lock, run, claims, calls, evaluations, session>>
  BY DEF Recorded, Write
<1> QED BY <1>1, <1>2, OnlyDocuments

LEMMA RemoveKeeps ==
  ASSUME DocumentInv, NEW d \in Docs, NEW p \in Paths, RemoveFile(d, p), UNCHANGED session
  PROVE  DocumentInv'
<1>1. /\ content' = content /\ file' = [file EXCEPT ![d][p] = 0]
      /\ UNCHANGED <<config, lock, run, claims, calls, evaluations, session>>
  BY DEF RemoveFile
<1>2. Kept
  BY DEF DocumentInv
<1>3. Kept'
  <2>1. file' \in [Docs -> [Paths -> Nat]]
    BY <1>1, <1>2 DEF Kept
  <2>2. ASSUME NEW e \in Docs, NEW q \in Paths
        PROVE  file'[e][q] <= Len(content'[e])
    <3>1. /\ file'[e][q] = 0 \/ file'[e][q] = file[e][q]
          /\ file[e][q] <= Len(content[e]) /\ Len(content[e]) \in Nat
      BY <1>1, <1>2, Appended DEF Kept
    <3> QED BY <1>1, <3>1
  <2> QED BY <1>1, <1>2, <2>1, <2>2 DEF Kept, IsSequence
<1>4. Grows
  BY <1>1, Unwritten
<1>5. RowsInv'
  <2>1. ASSUME NEW e \in Docs, NEW v \in 1 .. Len(content'[e]), NEW r, r = content'[e][v]
        PROVE  Facts(e, r)'
    <3>1. Facts(e, r)
      BY <1>1, <2>1 DEF DocumentInv, RowsInv, Row
    <3> QED BY <1>4, <3>1, FactsStay
  <2> QED BY <2>1 DEF RowsInv, Row
<1> QED BY <1>1, <1>3, <1>4, <1>5, OnlyDocuments

-----------------------------------------------------------------------------
(* The controller. *)

LEMMA PrepareConfigKeeps ==
  ASSUME DocumentInv, NEW w \in Workspaces, NEW a, \A d \in Roots \cup Derived : a[d] \in Paths,
         PrepareConfig(w, a), UNCHANGED session
  PROVE  DocumentInv'
<1> PICK new :
      new = [paths |-> a, manifest |-> At(a, "manifest"), tool |-> tool,
             artifacts |-> Bound(a, (Roots \cup Derived) \ {"issues", "approval", "legacy"})]
  OBVIOUS
<1>1. /\ config[w] = None /\ config' = [config EXCEPT ![w] = new]
      /\ PreregistrationOk(a, At(a, "manifest")) /\ OneFinalTool(a, tool)
      /\ UNCHANGED <<content, file, lock, run, claims, calls, evaluations, session>>
  BY DEF PrepareConfig, ConfigDerivable
<1>2. Kept' /\ RowsInv' /\ Grows
  BY <1>1, SameDocuments DEF DocumentInv
<1>3. /\ new.artifacts["prereg"] = At(a, "prereg") /\ new.paths = a /\ new.tool = tool
  BY DEF Bound, Derived
<1>4. /\ At(a, "prereg") # 0 /\ Is(a, "prereg").capability = At(a, "capability")
      /\ Is(a, "capability").smoke = At(a, "smoke") /\ Is(a, "smoke").tool = tool
  BY <1>1 DEF PreregistrationOk, PreregistrationDerivable, CapabilityOk, There, Binds,
              OneFinalTool
<1>5. Exists("prereg", At(a, "prereg"))
  BY <1>4, Kinds, ReadExists DEF DocumentInv, Derived
<1>6. Configured(new)
  BY <1>3, <1>4, <1>5 DEF Configured, SmokeOf, Is, Row
<1>7. Configured(new)'
  BY <1>2, <1>6, ConfiguredStays DEF DocumentInv
<1>8. Advances
  BY <1>1, <1>2 DEF Advances, DocumentInv, ConfigInv
<1>9. ConfigInv'
  <2>1. config' = [v \in Workspaces |-> config'[v]]
    BY <1>1 DEF DocumentInv, ConfigInv
  <2>2. ASSUME NEW v \in Workspaces, NEW r, r = config'[v], r # None
        PROVE  Configured(r)'
    <3>1. r = new \/ r = config[v]
      BY <1>1, <2>2 DEF DocumentInv, ConfigInv
    <3>2. r = config[v] => Configured(r)'
      BY <1>2, <2>2, ConfiguredStays DEF DocumentInv, ConfigInv
    <3> QED BY <1>7, <3>1, <3>2
  <2> QED BY <2>1, <2>2 DEF ConfigInv
<1> QED BY <1>1, <1>2, <1>8, <1>9, Carried21 DEF DocumentInv

\* A step of one controller, that leaves it as r.
LEMMA ControllerKeeps ==
  ASSUME DocumentInv, NEW w \in Workspaces, NEW r, NEW l,
         run' = [run EXCEPT ![w] = r], lock' = [lock EXCEPT ![w] = l],
         lock[w] # None => l = lock[w],
         RunFacts(w, r)',
         UNCHANGED <<content, file, config, claims, calls, evaluations, session>>
  PROVE  DocumentInv'
<1>1. Kept' /\ RowsInv' /\ Grows
  BY SameDocuments DEF DocumentInv
<1>2. Advances
  BY <1>1 DEF Advances, DocumentInv, RunInv
<1>3. RunInv'
  <2>1. run' = [v \in Workspaces |-> run'[v]] /\ lock' = [v \in Workspaces |-> lock'[v]]
    BY DEF DocumentInv, RunInv
  <2>2. ASSUME NEW v \in Workspaces, NEW x, x = run'[v]
        PROVE  RunFacts(v, x)'
    <3>1. CASE v = w
      BY <2>2, <3>1 DEF DocumentInv, RunInv
    <3>2. CASE v # w
      <4>1. RunFacts(v, x)
        BY <2>2, <3>2 DEF DocumentInv, RunInv
      <4> QED BY <1>2, <4>1, RunFactsStay
    <3> QED BY <3>1, <3>2
  <2> QED BY <2>1, <2>2 DEF RunInv
<1> QED BY <1>1, <1>2, <1>3, Carried21 DEF DocumentInv

\* A configuration's paths are paths.
LEMMA ConfiguredPaths ==
  ASSUME DocumentInv, NEW w \in Workspaces, config[w] # None
  PROVE  \A d \in Roots \cup Derived : Path(w)[d] \in Paths
BY DEF DocumentInv, ConfigInv, Configured, Path

LEMMA VerifyConfigKeeps ==
  ASSUME DocumentInv, NEW w \in Workspaces, VerifyConfig(w), UNCHANGED session
  PROVE  DocumentInv'
<1> DEFINE r == [pc |-> "verified"]
<1>1. /\ run' = [run EXCEPT ![w] = r] /\ lock' = lock /\ config[w] # None
      /\ UNCHANGED <<content, file, config, claims, calls, evaluations, session>>
  BY DEF VerifyConfig, Continue
<1>2. lock' = [lock EXCEPT ![w] = lock[w]]
  BY <1>1 DEF DocumentInv, RunInv
<1>3. RunFacts(w, r)'
  BY <1>1 DEF RunFacts
<1> HIDE DEF r
<1> QED BY <1>1, <1>2, <1>3, ControllerKeeps

LEMMA TakeLockKeeps ==
  ASSUME DocumentInv, NEW w \in Workspaces, TakeLock(w), UNCHANGED session
  PROVE  DocumentInv'
<1> PICK i : i = [authorization |-> At(Path(w), "authorization"),
                  prereg |-> At(Path(w), "prereg")]
  OBVIOUS
<1> PICK r : r = [pc |-> "locked", identity |-> i]
  OBVIOUS
<1>1. /\ run' = [run EXCEPT ![w] = r] /\ lock' = [lock EXCEPT ![w] = i]
      /\ lock[w] \in {None, i} /\ run[w].pc = "verified"
      /\ UNCHANGED <<content, file, config, claims, calls, evaluations, session>>
  BY DEF TakeLock, Continue
<1>2. config[w] # None
  BY <1>1 DEF DocumentInv, RunInv, RunFacts
<1>3. i = Identity(i) /\ r.pc = "locked" /\ r.identity = i
  BY DEF Identity
<1>4. lock'[w] = i
  BY <1>1 DEF DocumentInv, RunInv
<1>5. RunFacts(w, r)'
  BY <1>1, <1>2, <1>3, <1>4 DEF RunFacts, Identity
<1> QED BY <1>1, <1>5, ControllerKeeps

LEMMA PreflightKeeps ==
  ASSUME DocumentInv, NEW w \in Workspaces, Preflight(w), UNCHANGED session
  PROVE  DocumentInv'
<1> DEFINE a == Path(w)
<1> PICK r :
      r = [pc |-> "bound", prereg |-> At(a, "prereg"),
                 authorization |-> At(a, "authorization"), freeze |-> At(a, "freeze"),
                 campaign |-> Is(a, "freeze").campaign, tool |-> Is(a, "freeze").tool]
  OBVIOUS
<1>1. /\ run[w].pc = "locked" /\ run' = [run EXCEPT ![w] = r] /\ lock' = lock
      /\ PreregistrationOk(a, config[w].manifest) /\ AuthorizationOk(a)
      /\ Is(a, "freeze").tool = config[w].tool /\ CrossBound(w, a)
      /\ UNCHANGED <<content, file, config, claims, calls, evaluations, session>>
  BY DEF Preflight, Continue
<1>2. /\ config[w] # None /\ lock[w] = run[w].identity
      /\ run[w].identity = Identity(run[w].identity)
  BY <1>1 DEF DocumentInv, RunInv, RunFacts
<1>3. \A d \in Roots \cup Derived : a[d] \in Paths
  BY <1>2, ConfiguredPaths
<1>4. /\ r.pc = "bound" /\ r.prereg = At(a, "prereg")
      /\ r.authorization = At(a, "authorization") /\ r.freeze = At(a, "freeze")
      /\ r.campaign = Is(a, "freeze").campaign /\ r.tool = Is(a, "freeze").tool
  OBVIOUS
<1> HIDE DEF a
<1>5. /\ At(a, "prereg") # 0 /\ At(a, "capability") # 0
      /\ Is(a, "prereg").capability = At(a, "capability")
      /\ Is(a, "prereg").cases = At(a, "cases")
      /\ Is(a, "prereg").manifest = At(a, "manifest")
      /\ Is(a, "capability").smoke = At(a, "smoke")
  BY <1>1 DEF PreregistrationOk, PreregistrationDerivable, CapabilityOk, There, Binds
<1>6. /\ At(a, "authorization") # 0 /\ At(a, "freeze") # 0
      /\ Is(a, "authorization").freeze = At(a, "freeze")
      /\ Is(a, "freeze").prereg = At(a, "prereg") /\ Is(a, "freeze").cases = At(a, "cases")
      /\ Is(a, "freeze").manifest = At(a, "manifest") /\ Is(a, "freeze").smoke = At(a, "smoke")
  BY <1>1 DEF AuthorizationOk, FreezeOk, There, Binds
<1>7. /\ Exists("prereg", At(a, "prereg")) /\ Exists("capability", At(a, "capability"))
      /\ Exists("authorization", At(a, "authorization")) /\ Exists("freeze", At(a, "freeze"))
  BY <1>3, <1>5, <1>6, Kinds, ReadExists DEF DocumentInv, Derived
<1>8. UnderFreeze(r)
  BY <1>4, <1>5, <1>6, <1>7 DEF UnderFreeze, Is, Row
<1>9. lock[w] = Identity(r)
  BY <1>1, <1>2, <1>4 DEF CrossBound, Identity
<1>10. lock' = [lock EXCEPT ![w] = lock[w]]
  BY <1>1 DEF DocumentInv, RunInv
<1>11. RunFacts(w, r)
  BY <1>1, <1>2, <1>4, <1>8, <1>9 DEF RunFacts, Is, Row
<1>12. RunFacts(w, r)'
  <2>1. Advances
    BY <1>1, SameDocuments DEF DocumentInv, Advances
  <2> QED BY <1>11, <2>1, RunFactsStay
<1> QED BY <1>1, <1>10, <1>12, ControllerKeeps

LEMMA IssueAuthoritiesKeeps ==
  ASSUME DocumentInv, NEW w \in Workspaces, IssueAuthorities(w), UNCHANGED session
  PROVE  DocumentInv'
<1> DEFINE a == Path(w)
<1> PICK k : k = [manifest |-> At(a, "manifest"), smoke |-> At(a, "smoke"),
                  hidden |-> At(a, "hidden")]
  OBVIOUS
<1> PICK r : r = [pc |-> "evaluating", prereg |-> run[w].prereg, capability |-> k]
  OBVIOUS
<1>1. /\ run[w].pc = "bound" /\ run' = [run EXCEPT ![w] = r] /\ lock' = lock
      /\ UNCHANGED <<content, file, config, claims, calls, evaluations, session>>
  BY DEF IssueAuthorities, Continue
<1>2. /\ r.pc = "evaluating" /\ r.prereg = run[w].prereg /\ r.capability = k
      /\ DOMAIN k = {"manifest", "smoke", "hidden"}
  OBVIOUS
<1> HIDE DEF a
<1>3. config[w] # None /\ Exists("prereg", r.prereg)
  BY <1>1, <1>2 DEF DocumentInv, RunInv, RunFacts, UnderFreeze
<1>4. RunFacts(w, r)'
  BY <1>1, <1>2, <1>3 DEF RunFacts, Exists
<1>5. lock' = [lock EXCEPT ![w] = lock[w]]
  BY <1>1 DEF DocumentInv, RunInv
<1> QED BY <1>1, <1>4, <1>5, ControllerKeeps

LEMMA StopKeeps ==
  ASSUME DocumentInv, NEW w \in Workspaces, Stop(w), UNCHANGED session
  PROVE  DocumentInv'
<1>1. /\ run' = [run EXCEPT ![w] = Stopped] /\ lock' = lock
      /\ UNCHANGED <<content, file, config, claims, calls, evaluations, session>>
  BY DEF Stop, Continue
<1>2. RunFacts(w, Stopped)'
  BY DEF RunFacts, Stopped
<1>3. lock' = [lock EXCEPT ![w] = lock[w]]
  BY <1>1 DEF DocumentInv, RunInv
<1> QED BY <1>1, <1>2, <1>3, ControllerKeeps

-----------------------------------------------------------------------------
(* Calls. *)

\* A call under a claim of its own ledger.
LEMMA CallKeeps ==
  ASSUME DocumentInv, NEW w, NEW c, c.workspace = w,
         ClaimedFor(w, <<c.kind, c.authorization>>), calls' = calls \cup {c},
         c.kind = "exact" => /\ w \in Workspaces /\ ExactFacts(c)
                             /\ lock[w] = Identity(c) /\ config[w] # None
                             /\ Row("freeze", c.freeze).tool = config[w].tool,
         c.kind = "automated" => AutomatedFacts(c),
         UNCHANGED <<content, file, config, lock, run, evaluations, session>>
  PROVE  DocumentInv'
<1>1. PICK entry : entry = [authorization |-> <<c.kind, c.authorization>>, workspace |-> w]
  OBVIOUS
<1>2. /\ claims' = claims \cup {entry}
      /\ \A x \in claims : x.authorization = entry.authorization => x.workspace = w
      /\ entry.workspace = w
  BY <1>1 DEF ClaimedFor
<1>3. Kept' /\ RowsInv' /\ Grows
  BY SameDocuments DEF DocumentInv
<1>4. Advances
  BY <1>2, <1>3 DEF Advances
<1>5. ClaimsInv'
  BY <1>2 DEF DocumentInv, ClaimsInv
<1>6. ExactFacts(c) => ExactFacts(c)' /\ Row("freeze", c.freeze)' = Row("freeze", c.freeze)
  BY <1>3, ExactFactsStay DEF DocumentInv
<1>7. AutomatedFacts(c) => AutomatedFacts(c)'
  BY <1>3, AutomatedFactsStay
<1>8. CallFacts(c)'
  BY <1>1, <1>2, <1>6, <1>7 DEF CallFacts, Identity
<1>9. CallsInv'
  <2>1. ASSUME NEW e \in calls
        PROVE  CallFacts(e)'
    BY <1>4, CallFactsStay DEF DocumentInv, CallsInv
  <2> QED BY <1>8, <2>1 DEF CallsInv
<1> QED BY <1>3, <1>4, <1>5, <1>9, Carried21 DEF DocumentInv

LEMMA ExactCallKeeps ==
  ASSUME DocumentInv, NEW w \in Workspaces, Call(w), UNCHANGED session
  PROVE  DocumentInv'
<1> DEFINE a == Path(w)
<1> PICK r : r = run[w]
  OBVIOUS
<1> PICK c :
      c = [workspace |-> w, kind |-> "exact", authorization |-> r.authorization,
           freeze |-> r.freeze, campaign |-> At(a, "campaign"),
           prereg |-> At(a, "prereg"), rows |-> Is(a, "cases").rows]
  OBVIOUS
<1>1. /\ r.pc = "bound" /\ CampaignBound(r, a) /\ RenderedAsPreregistered(a)
      /\ AuthorizationBound(r, a) /\ ClaimedFor(w, <<"exact", r.authorization>>)
      /\ calls' = calls \cup {c}
      /\ UNCHANGED <<content, file, config, lock, run, evaluations, session>>
  BY DEF Call
<1>2. /\ UnderFreeze(r) /\ lock[w] = Identity(r) /\ r.tool = config[w].tool
      /\ r.tool = Row("freeze", r.freeze).tool /\ config[w] # None
  BY <1>1 DEF DocumentInv, RunInv, RunFacts
<1>3. /\ At(a, "campaign") = r.campaign /\ Is(a, "campaign").tool = r.tool
      /\ Is(a, "cases").rows = Is(a, "prereg").rows
      /\ At(a, "freeze") = r.freeze /\ Is(a, "freeze").rows = Is(a, "prereg").rows
      /\ Is(a, "freeze").prereg = At(a, "prereg")
  BY <1>1 DEF CampaignBound, RenderedAsPreregistered, AuthorizationBound, Binds
<1>4. At(a, "prereg") = r.prereg
  BY <1>2, <1>3 DEF UnderFreeze, Is, Row
<1>5. /\ c.workspace = w /\ c.kind = "exact" /\ c.authorization = r.authorization
      /\ c.freeze = r.freeze /\ c.campaign = r.campaign /\ c.prereg = r.prereg
      /\ c.rows = Is(a, "prereg").rows
  BY <1>3, <1>4
<1> HIDE DEF a
<1>6. UnderFreeze(c)
  BY <1>2, <1>5 DEF UnderFreeze
<1>7. ExactFacts(c)
  BY <1>2, <1>3, <1>4, <1>5, <1>6 DEF ExactFacts, Is, Row
<1>8. lock[w] = Identity(c)
  BY <1>2, <1>5 DEF Identity
<1> QED BY <1>1, <1>2, <1>5, <1>7, <1>8, CallKeeps

LEMMA LegacyCallKeeps ==
  ASSUME DocumentInv, NEW w \in Workspaces, NEW a, LegacyCall(w, a), UNCHANGED session
  PROVE  DocumentInv'
<1> PICK c :
      c = [workspace |-> w, kind |-> "legacy", authorization |-> At(a, "legacy"),
           freeze |-> 0, campaign |-> At(a, "campaign"), prereg |-> At(a, "prereg"),
           rows |-> Is(a, "cases").rows]
  OBVIOUS
<1>1. /\ ClaimedFor(w, <<"legacy", At(a, "legacy")>>) /\ calls' = calls \cup {c}
      /\ UNCHANGED <<content, file, config, lock, run, evaluations, session>>
  BY DEF LegacyCall
<1>2. c.workspace = w /\ c.kind = "legacy" /\ c.authorization = At(a, "legacy")
  OBVIOUS
<1> QED BY <1>1, <1>2, CallKeeps

LEMMA GenerateKeeps ==
  ASSUME DocumentInv, NEW w \in Workspaces, Generate(w)
  PROVE  DocumentInv'
<1> PICK c :
      c = [workspace |-> w, kind |-> "automated", authorization |-> Held(w, "authorization21"),
           prereg |-> Plan(w).prereg21, plan |-> Held(w, "plan"), rows |-> Plan(w).rows]
  OBVIOUS
<1>1. /\ "plan" \in DOMAIN session[w].held
      /\ Held(w, "authorization21") = Plan(w).authorization21
      /\ ClaimedFor(w, <<"automated", Held(w, "authorization21")>>)
      /\ calls' = calls \cup {c}
      /\ UNCHANGED <<content, file, config, lock, run, evaluations, session>>
  BY DEF Generate, Holds
<1>2. /\ c.workspace = w /\ c.kind = "automated" /\ c.prereg = Plan(w).prereg21
      /\ c.authorization = Held(w, "authorization21")
      /\ c.plan = Held(w, "plan") /\ c.rows = Plan(w).rows
  OBVIOUS
<1>3. HeldFacts(w, session[w])
  BY DEF DocumentInv, SessionInv, SessionFacts
<1>4. /\ Exists("plan", Held(w, "plan")) /\ PlanFacts(Plan(w))
      /\ Row("authorization21", Held(w, "authorization21")).workspace = w
  BY <1>1, <1>3 DEF HeldFacts, Held, Plan, Row
<1>5. AutomatedFacts(c)
  BY <1>1, <1>2, <1>4 DEF AutomatedFacts, Plan, Row
<1> QED BY <1>1, <1>2, <1>5, CallKeeps

-----------------------------------------------------------------------------
(* Evaluations. *)

LEMMA EvaluationKeeps ==
  ASSUME DocumentInv, NEW e, Judged(e), evaluations' = evaluations \cup {e},
         UNCHANGED <<content, file, config, lock, run, claims, calls, session>>
  PROVE  DocumentInv'
<1>1. Kept' /\ RowsInv' /\ Grows
  BY SameDocuments DEF DocumentInv
<1>2. Advances
  BY <1>1 DEF Advances
<1>3. \A x \in evaluations \cup {e} : Judged(x)'
  BY <1>1, JudgedStays DEF DocumentInv, EvaluationsInv
<1>4. EvaluationsInv'
  BY <1>3 DEF EvaluationsInv
<1> QED BY <1>1, <1>2, <1>4, Carried21 DEF DocumentInv

LEMMA EvaluateKeeps ==
  ASSUME DocumentInv, NEW w \in Workspaces, Evaluate(w), UNCHANGED session
  PROVE  DocumentInv'
<1> DEFINE a == Path(w)
           row == Commitment(run[w].prereg)
<1> PICK held : held = run[w].capability
  OBVIOUS
<1> PICK e :
      e = [kind |-> "exact", workspace |-> w, prereg |-> run[w].prereg,
           specs |-> At(a, "specs"), manifest |-> held.manifest, smoke |-> held.smoke,
           hidden |-> held.hidden]
  OBVIOUS
<1>1. /\ run[w].pc = "evaluating"
      /\ \A d \in DOMAIN held : held[d] = row[d] /\ At(a, d) = held[d]
      /\ Is(a, "smoke").specs = At(a, "specs")
      /\ evaluations' = evaluations \cup {e}
      /\ UNCHANGED <<content, file, config, lock, run, claims, calls, session>>
  BY DEF Evaluate, Binds
<1>2. Exists("prereg", run[w].prereg) /\ DOMAIN held = {"manifest", "smoke", "hidden"}
  BY <1>1 DEF DocumentInv, RunInv, RunFacts
<1>3. /\ e.kind = "exact" /\ e.prereg = run[w].prereg /\ e.specs = At(a, "specs")
      /\ e.manifest = held.manifest /\ e.smoke = held.smoke /\ e.hidden = held.hidden
  OBVIOUS
<1> HIDE DEF a, row
<1>4. /\ e.manifest = row.manifest /\ e.smoke = row.smoke /\ e.hidden = row.hidden
      /\ At(a, "smoke") = row.smoke
  BY <1>1, <1>2, <1>3
<1>5. e.specs = Row("smoke", row.smoke).specs
  BY <1>1, <1>3, <1>4 DEF Is, Row
<1>6. Judged(e)
  BY <1>2, <1>3, <1>4, <1>5 DEF Judged, ExactJudged, row
<1> QED BY <1>1, <1>6, EvaluationKeeps

LEMMA EvaluateAutomatedKeeps ==
  ASSUME DocumentInv, NEW w \in Workspaces, NEW a, EvaluateAutomated(w, a)
  PROVE  DocumentInv'
<1> DEFINE evidence == content["evidence"][Held(w, "evidence")]
<1> PICK held : held = session[w].candidate
  OBVIOUS
<1> PICK e :
      e = [kind |-> "automated", workspace |-> w, prereg |-> Plan(w).prereg21,
           evidence |-> Held(w, "evidence"), specs |-> At(a, "specs"),
           manifest |-> held.manifest, smoke |-> held.smoke, hidden |-> held.hidden]
  OBVIOUS
<1>1. /\ "plan" \in DOMAIN session[w].held /\ "evidence" \in DOMAIN session[w].held
      /\ held # None /\ evidence.rows = Plan(w).rows
      /\ \A d \in DOMAIN held : held[d] = evidence[d]
      /\ At(a, "smoke") = held.smoke /\ Is(a, "smoke").specs = At(a, "specs")
      /\ evaluations' = evaluations \cup {e}
      /\ UNCHANGED <<content, file, config, lock, run, claims, calls, session>>
  BY DEF EvaluateAutomated, Holds, AuthorityBinds, InputsBound, Binds
<1>2. /\ e.kind = "automated" /\ e.prereg = Plan(w).prereg21
      /\ e.evidence = Held(w, "evidence") /\ e.specs = At(a, "specs")
      /\ e.manifest = held.manifest /\ e.smoke = held.smoke /\ e.hidden = held.hidden
  OBVIOUS
<1> HIDE DEF evidence
<1>3. HeldFacts(w, session[w]) /\ CandidateFacts(held)
  BY <1>1 DEF DocumentInv, SessionInv, SessionFacts
<1>4. Exists("evidence", Held(w, "evidence")) /\ PlanFacts(Plan(w))
  BY <1>1, <1>3 DEF HeldFacts, Held, Plan, Row
<1>5. /\ e.manifest = evidence.manifest /\ e.smoke = evidence.smoke
      /\ e.hidden = evidence.hidden
  BY <1>1, <1>2, <1>3 DEF CandidateFacts
<1>6. e.specs = FrozenSpecs
  BY <1>1, <1>2, <1>3 DEF CandidateFacts, Is, Row
<1>7. "authorization21" \in Docs
  BY Kinds DEF Kinds21
<1>8. Facts("authorization21", Row("authorization21", Plan(w).authorization21))
  BY <1>4, <1>7, RowFacts DEF DocumentInv, PlanFacts
<1>9. Exists("prereg21", e.prereg) /\ evidence.rows = Row("prereg21", e.prereg).rows
  BY <1>1, <1>2, <1>4, <1>8 DEF Facts, Authorization21Facts, PlanFacts
<1>10. Judged(e)
  BY <1>2, <1>4, <1>5, <1>6, <1>9 DEF Judged, AutomatedJudged, Row, evidence
<1> QED BY <1>1, <1>10, EvaluationKeeps

-----------------------------------------------------------------------------
(* The authorities that a process holds. *)

LEMMA SessionKeeps ==
  ASSUME DocumentInv, NEW w \in Workspaces, NEW s, SessionFacts(w, s),
         session' = [session EXCEPT ![w] = s], UNCHANGED vars
  PROVE  DocumentInv'
<1>1. UNCHANGED <<content, file, config, lock, run, claims, calls, evaluations>>
  BY DEF vars
<1>2. Kept' /\ RowsInv' /\ Grows
  BY <1>1, SameDocuments DEF DocumentInv
<1>3. Advances
  BY <1>1, <1>2 DEF Advances
<1>4. SessionInv'
  <2>1. session' = [v \in Workspaces |-> session'[v]]
    BY DEF DocumentInv, SessionInv
  <2>2. ASSUME NEW v \in Workspaces, NEW x, x = session'[v]
        PROVE  SessionFacts(v, x)'
    <3>1. SessionFacts(v, x)
      BY <2>2 DEF DocumentInv, SessionInv
    <3> QED BY <1>2, <3>1, SessionFactsStay
  <2> QED BY <2>1, <2>2 DEF SessionInv
<1> QED BY <1>1, <1>2, <1>3, <1>4, Carried21 DEF DocumentInv

\* An authority is issued for a document that was found where its path says.
LEMMA IssueKeeps ==
  ASSUME DocumentInv, NEW w \in Workspaces, NEW d, NEW a, Issue(w, d, a),
         d \in {"evidence", "prereg21", "authorization21", "plan"},
         Exists(d, At(a, d)),
         d = "authorization21" => Is(a, d).workspace = w,
         d = "plan" => Holds(w, "authorization21") /\ PlanFacts(Is(a, d))
  PROVE  DocumentInv'
<1> PICK old : old = session[w]
  OBVIOUS
<1> PICK held : held = Put(old.held, d, At(a, d))
  OBVIOUS
<1> PICK s : s = [held |-> held, path |-> Put(old.path, d, a[d]), candidate |-> old.candidate]
  OBVIOUS
<1>1. SessionFacts(w, old)
  BY DEF DocumentInv, SessionInv
<1>2. session' = [session EXCEPT ![w] = s] /\ UNCHANGED vars
  <2>1. /\ session' = [session EXCEPT ![w].held = Put(@, d, At(a, d)),
                                      ![w].path = Put(@, d, a[d])]
        /\ UNCHANGED vars
    BY DEF Issue
  <2>2. old = [held |-> old.held, path |-> old.path, candidate |-> old.candidate]
    BY <1>1 DEF SessionFacts
  <2>3. session = [v \in Workspaces |-> session[v]]
    BY DEF DocumentInv, SessionInv
  <2>4. old.held = session[w].held /\ old.path = session[w].path
    OBVIOUS
  <2>5. session'[w] = s
    BY <2>1, <2>2, <2>3, <2>4
  <2>6. \A v \in Workspaces \ {w} : session'[v] = session[v]
    BY <2>1, <2>3
  <2> QED BY <2>1, <2>3, <2>5, <2>6
<1>3. DOMAIN held = DOMAIN old.held \cup {d} /\ held[d] = At(a, d)
  BY DEF Put
<1>4. \A x \in DOMAIN held : x # d => x \in DOMAIN old.held /\ held[x] = old.held[x]
  BY DEF Put
<1>5. s.held = held /\ s.candidate = old.candidate
  OBVIOUS
<1>6. Row(d, At(a, d)) = Is(a, d)
  BY DEF Row, Is
<1>7. "evidence" \in DOMAIN held => Exists("evidence", held["evidence"])
  BY <1>1, <1>3, <1>4 DEF SessionFacts, HeldFacts
<1>8. "prereg21" \in DOMAIN held => Exists("prereg21", held["prereg21"])
  BY <1>1, <1>3, <1>4 DEF SessionFacts, HeldFacts
<1>9. "authorization21" \in DOMAIN held =>
        /\ Exists("authorization21", held["authorization21"])
        /\ Row("authorization21", held["authorization21"]).workspace = w
  BY <1>1, <1>3, <1>4, <1>6 DEF SessionFacts, HeldFacts
<1>10. "plan" \in DOMAIN held =>
         /\ Exists("plan", held["plan"]) /\ PlanFacts(Row("plan", held["plan"]))
         /\ "authorization21" \in DOMAIN held
  <2>1. CASE d = "plan"
    BY <1>3, <1>6, <2>1 DEF Holds
  <2>2. CASE d # "plan"
    BY <1>1, <1>3, <1>4, <2>2 DEF SessionFacts, HeldFacts
  <2> QED BY <2>1, <2>2
<1>11. HeldFacts(w, s)
  BY <1>5, <1>7, <1>8, <1>9, <1>10 DEF HeldFacts
<1>12. SessionFacts(w, s)
  <2>1. s = [held |-> s.held, path |-> s.path, candidate |-> s.candidate]
    OBVIOUS
  <2> QED BY <1>1, <1>5, <1>11, <2>1 DEF SessionFacts
<1> QED BY <1>2, <1>12, SessionKeeps

LEMMA VerifyEvidenceKeeps ==
  ASSUME DocumentInv, NEW w \in Workspaces, NEW a, a["evidence"] \in Paths,
         VerifyEvidence(w, a)
  PROVE  DocumentInv'
<1>1. At(a, "evidence") # 0 /\ Issue(w, "evidence", a)
  BY DEF VerifyEvidence, EvidenceOk, There
<1>2. Exists("evidence", At(a, "evidence"))
  BY <1>1, Kinds, ReadExists DEF DocumentInv, Kinds21
<1> QED BY <1>1, <1>2, IssueKeeps

LEMMA VerifyPreregistrationKeeps ==
  ASSUME DocumentInv, NEW w \in Workspaces, NEW a, a["prereg21"] \in Paths,
         VerifyPreregistration(w, a)
  PROVE  DocumentInv'
<1>1. At(a, "prereg21") # 0 /\ Issue(w, "prereg21", a)
  BY DEF VerifyPreregistration, There
<1>2. Exists("prereg21", At(a, "prereg21"))
  BY <1>1, Kinds, ReadExists DEF DocumentInv, Kinds21
<1> QED BY <1>1, <1>2, IssueKeeps

LEMMA VerifyAuthorizationKeeps ==
  ASSUME DocumentInv, NEW w \in Workspaces, NEW a, a["authorization21"] \in Paths,
         VerifyAuthorization(w, a)
  PROVE  DocumentInv'
<1>1. /\ At(a, "authorization21") # 0 /\ Issue(w, "authorization21", a)
      /\ Is(a, "authorization21") = AuthorizationRecord(w)
  BY DEF VerifyAuthorization, There
<1>2. Exists("authorization21", At(a, "authorization21"))
  BY <1>1, Kinds, ReadExists DEF DocumentInv, Kinds21
<1>3. Is(a, "authorization21").workspace = w
  BY <1>1 DEF AuthorizationRecord
<1> QED BY <1>1, <1>2, <1>3, IssueKeeps

LEMMA VerifyPlanKeeps ==
  ASSUME DocumentInv, NEW w \in Workspaces, NEW a, a["plan"] \in Paths, VerifyPlan(w, a)
  PROVE  DocumentInv'
<1> DEFINE p == Is(a, "plan")
           x == Held(w, "authorization21")
           y == Held(w, "prereg21")
<1>1. /\ "prereg21" \in DOMAIN session[w].held /\ "authorization21" \in DOMAIN session[w].held
      /\ Issue(w, "plan", a) /\ At(a, "plan") # 0
      /\ At(a, "capability21") = Row("prereg21", y).capability21
      /\ Row("authorization21", x).prereg21 = y
      /\ p.authorization21 = x /\ p.prereg21 = y
      /\ p.rows = Row("authorization21", x).rows
      /\ p.capability21 = At(a, "capability21")
  BY DEF VerifyPlan, PlanOk, Holds, There, RequestsOf, Binds, Row
<1> HIDE DEF p
<1>2. Exists("plan", At(a, "plan"))
  BY <1>1, Kinds, ReadExists DEF DocumentInv, Kinds21
<1>3. HeldFacts(w, session[w])
  BY DEF DocumentInv, SessionInv, SessionFacts
<1>4. Exists("authorization21", x) /\ Exists("prereg21", y)
  BY <1>1, <1>3 DEF HeldFacts, Held
<1> HIDE DEF x, y
<1>5. PlanFacts(p)
  BY <1>1, <1>4 DEF PlanFacts
<1> QED BY <1>1, <1>2, <1>5, IssueKeeps DEF p, Holds

LEMMA IssueCapabilityKeeps ==
  ASSUME DocumentInv, NEW w \in Workspaces, NEW a, a["smoke"] \in Paths,
         IssueCapability(w, a)
  PROVE  DocumentInv'
<1> PICK old : old = session[w]
  OBVIOUS
<1>1. PICK amendment \in Amendments :
        /\ Capability21Derivable(a, At(a, "manifest"), amendment,
                                 content["amendment"][amendment].tool)
        /\ session' = [session EXCEPT ![w].candidate =
             Record([amendment |-> amendment], a, {"manifest", "smoke", "hidden"})]
  BY DEF IssueCapability
<1> PICK r : r = Record([amendment |-> amendment], a, {"manifest", "smoke", "hidden"})
  OBVIOUS
<1> PICK s : s = [held |-> old.held, path |-> old.path, candidate |-> r]
  OBVIOUS
<1>2. SessionFacts(w, old)
  BY DEF DocumentInv, SessionInv
<1>3. session' = [session EXCEPT ![w] = s]
  <2>1. session' = [session EXCEPT ![w].candidate = r]
    BY <1>1
  <2>2. old = [held |-> old.held, path |-> old.path, candidate |-> old.candidate]
    BY <1>2 DEF SessionFacts
  <2>3. [old EXCEPT !.candidate = r] = s
    BY <2>2
  <2> QED BY <2>1, <2>3
<1>4. UNCHANGED vars
  BY DEF IssueCapability
<1>5. /\ At(a, "smoke") # 0 /\ Is(a, "smoke").specs = FrozenSpecs
  BY <1>1 DEF Capability21Derivable, CapabilityDerivable, There
<1>6. Exists("smoke", At(a, "smoke"))
  BY <1>5, Kinds, ReadExists DEF DocumentInv, Derived
<1>7. DOMAIN r = {"amendment", "manifest", "smoke", "hidden"} /\ r.smoke = At(a, "smoke")
  BY DEF Record
<1>8. CandidateFacts(r)
  BY <1>5, <1>6, <1>7 DEF CandidateFacts, Is, Row
<1>9. SessionFacts(w, s)
  <2>1. /\ s = [held |-> s.held, path |-> s.path, candidate |-> s.candidate]
        /\ s.held = old.held /\ s.candidate = r
    OBVIOUS
  <2>2. HeldFacts(w, s)
    BY <1>2, <2>1 DEF SessionFacts, HeldFacts
  <2> QED BY <1>8, <2>1, <2>2 DEF SessionFacts
<1> QED BY <1>3, <1>4, <1>9, SessionKeeps

LEMMA NothingHeld ==
  ASSUME NEW w
  PROVE  SessionFacts(w, Nothing)
<1>1. DOMAIN <<>> = {}
  OBVIOUS
<1>2. Nothing.held = <<>> /\ Nothing.candidate = None
  BY DEF Nothing
<1>3. HeldFacts(w, Nothing)
  BY <1>1, <1>2 DEF HeldFacts
<1> QED BY <1>2, <1>3 DEF SessionFacts, Nothing

LEMMA EndKeeps ==
  ASSUME DocumentInv, NEW w \in Workspaces, End(w)
  PROVE  DocumentInv'
BY NothingHeld, SessionKeeps DEF End

-----------------------------------------------------------------------------
(* Every step. *)

LEMMA PreparationKeeps ==
  ASSUME DocumentInv, Operate, UNCHANGED session
  PROVE  DocumentInv'
<1> USE DEF Roots, Derived
<1>1. Kept /\ RowsInv
  BY DEF DocumentInv
<1>2. ASSUME NEW p \in Paths, NEW d \in Roots, PrepareRoot(d, p)
      PROVE  DocumentInv'
  BY <1>2, PlainPreparing, PreparedKeeps
<1>3. ASSUME NEW p \in Paths,
             NEW a \in Arguments({"manifest", "specs", "hidden", "smoke", "issues", "packets"}),
             \/ PrepareSmoke(a, p) \/ PrepareCapability(a, p) \/ PrepareChronology(a, p)
             \/ PreparePackets(a, p) \/ SealConsensus(a, p) \/ PrepareCases(a, p)
      PROVE  DocumentInv'
  <2>1. \A d \in {"manifest", "smoke", "hidden"} : a[d] \in Paths
    BY ArgumentPaths
  <2>2. Recorded
    BY <1>1, <1>3, <2>1, PlainPreparing, CapabilityPreparing
  <2> QED BY <2>2, PreparedKeeps
<1>4. ASSUME NEW p \in Paths, NEW a \in Arguments(Roots \cup Derived),
             \/ PreparePreregistration(a, p) \/ PrepareCampaign(a, p)
             \/ PrepareFreeze(a, p) \/ Approve(a, p) \/ Authorize(a, p)
             \/ AuthorizeLegacy(a, p)
      PROVE  DocumentInv'
  <2>1. \A d \in Roots \cup Derived : a[d] \in Paths
    BY ArgumentPaths
  <2>2. Recorded
    BY <1>1, <1>4, <2>1, PlainPreparing, PreregistrationPreparing, FreezePreparing, Authorizing
  <2> QED BY <2>2, PreparedKeeps
<1>5. ASSUME NEW p \in Paths, NEW d \in Docs, RemoveFile(d, p)
      PROVE  DocumentInv'
  BY <1>5, RemoveKeeps
<1>6. ASSUME Upgrade
      PROVE  DocumentInv'
  <2>1. UNCHANGED <<content, file, config, lock, run, claims, calls, evaluations>>
    BY <1>6 DEF Upgrade
  <2> QED BY <1>1, <2>1, SameDocuments, OnlyDocuments
<1>7. ASSUME NEW w \in Workspaces, NEW a \in Arguments(Roots \cup Derived), PrepareConfig(w, a)
      PROVE  DocumentInv'
  <2>1. \A d \in Roots \cup Derived : a[d] \in Paths
    BY ArgumentPaths
  <2> QED BY <1>7, <2>1, PrepareConfigKeeps
<1> QED BY <1>2, <1>3, <1>4, <1>5, <1>6, <1>7 DEF Operate

LEMMA ControlKeeps ==
  ASSUME DocumentInv, NEW w \in Workspaces, Control(w), UNCHANGED session
  PROVE  DocumentInv'
<1>1. ASSUME VerifyConfig(w) \/ TakeLock(w) \/ Preflight(w) \/ IssueAuthorities(w) \/ Stop(w)
      PROVE  DocumentInv'
  BY <1>1, VerifyConfigKeeps, TakeLockKeeps, PreflightKeeps, IssueAuthoritiesKeeps, StopKeeps
<1>2. ASSUME \/ Call(w) \/ Evaluate(w)
             \/ \E a \in Arguments({"cases", "prereg", "campaign", "legacy"}) : LegacyCall(w, a)
      PROVE  DocumentInv'
  BY <1>2, ExactCallKeeps, LegacyCallKeeps, EvaluateKeeps
<1> QED BY <1>1, <1>2 DEF Control

LEMMA Preparation21Keeps ==
  ASSUME DocumentInv, Operate21
  PROVE  DocumentInv'
<1>1. Kept /\ RowsInv /\ SessionInv
  BY DEF DocumentInv
<1>2. ASSUME NEW p \in Paths, NEW a \in Arguments(CasesInputs),
             \/ PrepareSmoke19(a, p) \/ PrepareAmendment(a, p)
             \/ PrepareCapability21(a, p) \/ PrepareCases21(a, p)
      PROVE  DocumentInv'
  <2>1. \A d \in {"smoke19", "smoke"} : a[d] \in Paths
    BY ArgumentPaths DEF CasesInputs, AmendmentInputs
  <2>2. Recorded
    BY <1>1, <1>2, <2>1, PlainPreparing21, AmendmentPreparing, Capability21Preparing
  <2>3. UNCHANGED session
    BY <1>2 DEF PrepareSmoke19, PrepareAmendment, PrepareCapability21, PrepareCases21, Prepare
  <2> QED BY <2>2, <2>3, PreparedKeeps
<1>3. ASSUME NEW p \in Paths, NEW a \in Arguments(EvidenceInputs \cup {"issues"}),
             PrepareEvidence(a, p)
      PROVE  DocumentInv'
  <2>1. \A d \in {"cases21", "capability21", "chronology", "packets"} : a[d] \in Paths
    BY ArgumentPaths DEF EvidenceInputs
  <2>2. Recorded
    BY <1>1, <1>3, <2>1, EvidencePreparing
  <2>3. UNCHANGED session
    BY <1>3 DEF PrepareEvidence, Prepare
  <2> QED BY <2>2, <2>3, PreparedKeeps
<1>4. ASSUME NEW p \in Paths, NEW w \in Workspaces,
             \/ PreparePreregistration21(w, p) \/ Authorize21(w, p)
             \/ \E a \in Arguments({"capability21"}) : PreparePlan(w, a, p)
      PROVE  DocumentInv'
  <2>1. Recorded
    BY <1>1, <1>4, PlainPreparing21, Preregistration21Preparing, Authorizing21
  <2>2. UNCHANGED session
    BY <1>4 DEF PreparePreregistration21, Authorize21, PreparePlan, Prepare
  <2> QED BY <2>1, <2>2, PreparedKeeps
<1> QED BY <1>2, <1>3, <1>4 DEF Operate21

LEMMA Campaign21Keeps ==
  ASSUME DocumentInv, NEW w \in Workspaces, Campaign21(w)
  PROVE  DocumentInv'
<1>1. ASSUME NEW a \in Arguments(EvidenceInputs \cup {"issues", "evidence"}), VerifyEvidence(w, a)
      PROVE  DocumentInv'
  BY <1>1, ArgumentPaths, VerifyEvidenceKeeps
<1>2. ASSUME NEW a \in Arguments({"prereg21", "authorization21", "capability21", "plan"}),
             VerifyPreregistration(w, a) \/ VerifyAuthorization(w, a) \/ VerifyPlan(w, a)
      PROVE  DocumentInv'
  <2>1. \A d \in {"prereg21", "authorization21", "plan"} : a[d] \in Paths
    BY ArgumentPaths
  <2> QED BY <1>2, <2>1, VerifyPreregistrationKeeps, VerifyAuthorizationKeeps, VerifyPlanKeeps
<1>3. ASSUME NEW a \in Arguments({"manifest", "smoke", "hidden", "specs"}),
             IssueCapability(w, a) \/ EvaluateAutomated(w, a)
      PROVE  DocumentInv'
  <2>1. a["smoke"] \in Paths
    BY ArgumentPaths
  <2> QED BY <1>3, <2>1, IssueCapabilityKeeps, EvaluateAutomatedKeeps
<1> QED BY <1>1, <1>2, <1>3, GenerateKeeps, EndKeeps DEF Campaign21

\* The inductive step.
LEMMA DocumentStep ==
  ASSUME DocumentInv, [Next21]_vars21
  PROVE  DocumentInv'
<1>1. CASE Next /\ UNCHANGED session
  BY <1>1, PreparationKeeps, ControlKeeps DEF Next
<1>2. CASE UNCHANGED vars21
  <2>1. UNCHANGED <<content, file, config, lock, run, claims, calls, evaluations, session>>
    BY <1>2 DEF vars21, vars
  <2> QED BY <2>1, SameDocuments, OnlyDocuments DEF DocumentInv
<1> QED BY <1>1, <1>2, Preparation21Keeps, Campaign21Keeps DEF Next21

-----------------------------------------------------------------------------
(* The first documents bind one another. *)

LEMMA FirstOnes ==
  ASSUME NEW own, NEW ds, NEW d \in ds \ DOMAIN own
  PROVE  First(own, ds)[d] = 1
BY DEF First

LEMMA FirstOwn ==
  ASSUME NEW own, NEW ds, NEW d \in DOMAIN own
  PROVE  First(own, ds)[d] = own[d]
BY DEF First

LEMMA FirstKept ==
  ASSUME Init21
  PROVE  /\ Kept /\ DOMAIN FirstRecords21 \subseteq Docs
         /\ \A d \in DOMAIN FirstRecords21 : Len(content[d]) = 1 /\ Row(d, 1) = FirstRecord21(d)
         /\ \A d \in Docs \ DOMAIN FirstRecords21 : Len(content[d]) = 0
<1>1. /\ content = [d \in Docs |-> IF d \in DOMAIN FirstRecords21
                                   THEN <<FirstRecords21[d]>> ELSE <<>>]
      /\ file = [d \in Docs |-> [p \in Paths |->
                    IF d \in DOMAIN FirstRecords21 /\ p = 1 THEN 1 ELSE 0]]
  BY DEF Init21, InitFrom
<1>2. DOMAIN FirstRecords21 \subseteq Docs
  BY Kinds DEF FirstRecords21
<1>3. \A d \in DOMAIN FirstRecords21 : FirstRecords21[d] = FirstRecord21(d)
  BY DEF FirstRecords21
<1>4. ASSUME NEW x
      PROVE  IsSequence(<<x>>) /\ Len(<<x>>) = 1 /\ <<x>>[1] = x
  <2>1. <<x>> \in Seq({x})
    OBVIOUS
  <2> QED BY <2>1 DEF IsSequence
<1>5. IsSequence(<<>>) /\ Len(<<>>) = 0
  <2>1. <<>> \in Seq({})
    OBVIOUS
  <2> QED BY <2>1 DEF IsSequence
<1> HIDE DEF FirstRecords21
<1>6. \A d \in DOMAIN FirstRecords21 : Len(content[d]) = 1 /\ content[d][1] = FirstRecord21(d)
  BY <1>1, <1>2, <1>3, <1>4
<1>7. \A d \in Docs \ DOMAIN FirstRecords21 : Len(content[d]) = 0
  BY <1>1, <1>5
<1>8. \A d \in Docs : IsSequence(content[d])
  BY <1>1, <1>4, <1>5
<1>9. \A d \in Docs, p \in Paths : file[d][p] <= Len(content[d])
  BY <1>1, <1>6, <1>7
<1>10. Kept
  BY <1>1, <1>8, <1>9 DEF Kept
<1> QED BY <1>2, <1>6, <1>7, <1>10 DEF Row

LEMMA FirstRows ==
  ASSUME Init21
  PROVE  /\ \A d \in DOMAIN FirstRecords21 : Exists(d, 1)
         /\ Row("smoke", 1) = First(FirstMade, {"manifest", "specs", "hidden"})
         /\ Row("capability", 1) = First(FirstMade, {"manifest", "smoke", "hidden"})
         /\ Row("chronology", 1) = First(FirstMade, {"hidden", "issues"})
         /\ Row("packets", 1) = First(FirstMade, {"hidden"})
         /\ Row("consensus", 1) = First(<<>>, {"packets"})
         /\ Row("cases", 1) = First(Carried, {"hidden", "hiddenPath"})
         /\ Row("prereg", 1) = First(Carried, {"capability", "cases", "chronology",
                                               "consensus", "packets", "manifest"})
         /\ Row("campaign", 1) = First(FirstMade, {"prereg"})
         /\ Row("freeze", 1) = First(Carried, {"campaign", "prereg", "cases", "manifest", "smoke"})
         /\ Row("approval", 1) = First(<<>>, {"freeze"})
         /\ Row("authorization", 1) = First(<<>>, {"freeze"})
<1>1. \A d \in DOMAIN FirstRecords21 : Len(content[d]) = 1 /\ Row(d, 1) = FirstRecord21(d)
  BY FirstKept
<1>2. DOMAIN FirstRecords21 = (Roots \cup Derived \cup Kinds21) \ {"legacy", "authorization21", "plan"}
  BY DEF FirstRecords21
<1>3. \A d \in DOMAIN FirstRecords21 : Exists(d, 1)
  BY <1>1 DEF Exists
<1>4. \A d \in Derived \ {"legacy"} : Row(d, 1) = FirstRecord(d)
  <2>1. ASSUME NEW d \in Derived \ {"legacy"}
        PROVE  FirstRecord21(d) = FirstRecord(d)
    BY DEF FirstRecord21, Derived
  <2>2. Derived \ {"legacy"} \subseteq DOMAIN FirstRecords21
    BY <1>2 DEF Derived
  <2> QED BY <1>1, <2>1, <2>2
<1>5. FirstRecord("smoke") = First(FirstMade, {"manifest", "specs", "hidden"})
  BY DEF FirstRecord, Roots
<1>6. FirstRecord("capability") = First(FirstMade, {"manifest", "smoke", "hidden"})
  BY DEF FirstRecord, Roots
<1>7. FirstRecord("chronology") = First(FirstMade, {"hidden", "issues"})
  BY DEF FirstRecord, Roots
<1>8. FirstRecord("packets") = First(FirstMade, {"hidden"})
  BY DEF FirstRecord, Roots
<1>9. FirstRecord("consensus") = First(<<>>, {"packets"})
  BY DEF FirstRecord, Roots
<1>10. FirstRecord("cases") = First(Carried, {"hidden", "hiddenPath"})
  BY DEF FirstRecord, Roots
<1>11. FirstRecord("prereg") = First(Carried, {"capability", "cases", "chronology",
                                              "consensus", "packets", "manifest"})
  BY DEF FirstRecord, Roots
<1>12. FirstRecord("campaign") = First(FirstMade, {"prereg"})
  BY DEF FirstRecord, Roots
<1>13. FirstRecord("freeze") = First(Carried, {"campaign", "prereg", "cases", "manifest", "smoke"})
  BY DEF FirstRecord, Roots
<1>14. \A d \in {"approval", "authorization"} : FirstRecord(d) = First(<<>>, {"freeze"})
  BY DEF FirstRecord, Roots
<1> QED BY <1>3, <1>4, <1>5, <1>6, <1>7, <1>8, <1>9, <1>10, <1>11, <1>12, <1>13, <1>14 DEF Derived

LEMMA FirstRows21 ==
  ASSUME Init21
  PROVE  /\ Row("smoke19", 1) = First(FirstMade, {"manifest", "hidden"})
         /\ Row("amendment", 1) = First(FirstMade, {"smoke19", "smoke", "manifest", "hidden"})
         /\ Row("capability21", 1) = First(FirstMade, {"amendment", "manifest", "smoke", "hidden"})
         /\ Row("cases21", 1) = First([tool |-> FirstTool, rows |-> FirstPackage,
                                       paths |-> First(<<>>, CasesInputs)],
                                      {"hidden", "manifest", "capability21"})
         /\ Row("evidence", 1) = First(Carried, EvidenceInputs \cup {"amendment"})
         /\ Row("prereg21", 1) = First(Carried, {"evidence", "capability21", "manifest"})
<1>1. \A d \in DOMAIN FirstRecords21 : Row(d, 1) = FirstRecord21(d)
  BY FirstKept
<1>2. Kinds21 \ {"authorization21", "plan"} \subseteq DOMAIN FirstRecords21
  BY DEF FirstRecords21, Kinds21
<1>3. \A d \in Kinds21 \ {"authorization21", "plan"} : Row(d, 1) = FirstRecord21(d)
  BY <1>1, <1>2
<1>4. FirstRecord21("smoke19") = First(FirstMade, {"manifest", "hidden"})
  BY DEF FirstRecord21
<1>5. FirstRecord21("amendment") = First(FirstMade, {"smoke19", "smoke", "manifest", "hidden"})
  BY DEF FirstRecord21
<1>6. FirstRecord21("capability21") = First(FirstMade, {"amendment", "manifest", "smoke", "hidden"})
  BY DEF FirstRecord21
<1>7. FirstRecord21("cases21") = First([tool |-> FirstTool, rows |-> FirstPackage,
                                      paths |-> First(<<>>, CasesInputs)],
                                     {"hidden", "manifest", "capability21"})
  BY DEF FirstRecord21
<1>8. FirstRecord21("evidence") = First(Carried, EvidenceInputs \cup {"amendment"})
  BY DEF FirstRecord21
<1>9. FirstRecord21("prereg21") = First(Carried, {"evidence", "capability21", "manifest"})
  BY DEF FirstRecord21
<1> QED BY <1>3, <1>4, <1>5, <1>6, <1>7, <1>8, <1>9 DEF Kinds21

LEMMA FirstFacts ==
  ASSUME Init21
  PROVE  RowsInv
<1>1. DOMAIN FirstRecords21 = (Roots \cup Derived \cup Kinds21) \ {"legacy", "authorization21", "plan"}
  BY DEF FirstRecords21
<1>2. \A d \in FactualKinds \ {"authorization21"} : d \in DOMAIN FirstRecords21 /\ Exists(d, 1)
  BY <1>1, FirstRows DEF FactualKinds, Derived, Kinds21
<1>3. \A d \in {"smoke", "smoke19", "cases", "cases21", "chronology", "consensus", "campaign",
               "packets", "approval"} : Exists(d, 1)
  BY <1>1, FirstRows DEF Derived, Kinds21
<1>4. DOMAIN FirstMade = {"tool"} /\ DOMAIN Carried = {"tool", "rows"} /\ DOMAIN <<>> = {}
  BY DEF FirstMade, Carried
<1>5. FirstMade.tool = FirstTool /\ Carried.tool = FirstTool /\ Carried.rows = FirstPackage
  BY DEF FirstMade, Carried
<1> DEFINE smoke == Row("smoke", 1)
           smoke19 == Row("smoke19", 1)
           capability == Row("capability", 1)
           prereg == Row("prereg", 1)
           freeze == Row("freeze", 1)
           cases21 == Row("cases21", 1)
           evidence == Row("evidence", 1)
<1>6. /\ smoke.hidden = 1 /\ smoke.manifest = 1
      /\ smoke19.hidden = 1
      /\ capability.smoke = 1 /\ capability.hidden = 1 /\ capability.manifest = 1
      /\ capability.tool = FirstTool
  BY <1>4, <1>5, FirstRows, FirstRows21, FirstOnes, FirstOwn
<1>7. CapabilityFacts(capability)
  BY <1>3, <1>6 DEF CapabilityFacts
<1>8. PreregFacts(prereg)
  <2>1. /\ prereg.capability = 1 /\ prereg.cases = 1 /\ prereg.chronology = 1
        /\ prereg.consensus = 1 /\ prereg.packets = 1 /\ prereg.manifest = 1
        /\ prereg.tool = FirstTool
    BY <1>4, <1>5, FirstRows, FirstOnes, FirstOwn
  <2>2. /\ Row("cases", 1).tool = FirstTool /\ Row("chronology", 1).hidden = 1
        /\ Row("consensus", 1).packets = 1
    BY <1>4, <1>5, FirstRows, FirstOnes, FirstOwn
  <2> QED BY <1>2, <1>3, <1>6, <2>1, <2>2 DEF PreregFacts, FactualKinds
<1>9. FreezeFacts(freeze)
  <2>1. /\ freeze.campaign = 1 /\ freeze.cases = 1 /\ freeze.prereg = 1 /\ freeze.smoke = 1
        /\ freeze.tool = FirstTool
    BY <1>4, <1>5, FirstRows, FirstOnes, FirstOwn
  <2>2. Row("campaign", 1).prereg = 1 /\ Row("cases", 1).tool = FirstTool
    BY <1>4, <1>5, FirstRows, FirstOnes, FirstOwn
  <2> QED BY <1>2, <1>3, <2>1, <2>2 DEF FreezeFacts, FactualKinds
<1>10. AuthorizationFacts(Row("authorization", 1))
  <2>1. Row("authorization", 1).freeze = 1 /\ Row("approval", 1).freeze = 1
    BY <1>4, FirstRows, FirstOnes
  <2> QED BY <1>2, <1>3, <2>1 DEF AuthorizationFacts, FactualKinds
<1>11. AmendmentFacts(Row("amendment", 1)) /\ Row("amendment", 1).manifest = 1
       /\ Row("amendment", 1).smoke = 1 /\ Row("amendment", 1).hidden = 1
       /\ Row("amendment", 1).tool = FirstTool
  <2>1. /\ Row("amendment", 1).smoke = 1 /\ Row("amendment", 1).smoke19 = 1
        /\ Row("amendment", 1).hidden = 1 /\ Row("amendment", 1).manifest = 1
        /\ Row("amendment", 1).tool = FirstTool
    BY <1>4, <1>5, FirstRows21, FirstOnes, FirstOwn
  <2> QED BY <1>3, <1>6, <2>1 DEF AmendmentFacts
<1>12. /\ Row("capability21", 1).amendment = 1 /\ Row("capability21", 1).manifest = 1
       /\ Row("capability21", 1).smoke = 1 /\ Row("capability21", 1).hidden = 1
       /\ Row("capability21", 1).tool = FirstTool
  BY <1>4, <1>5, FirstRows21, FirstOnes, FirstOwn
<1>13. Capability21Facts(Row("capability21", 1))
  BY <1>2, <1>11, <1>12 DEF Capability21Facts, FactualKinds
<1>14. /\ evidence.cases21 = 1 /\ evidence.capability21 = 1 /\ evidence.chronology = 1
       /\ evidence.packets = 1 /\ evidence.hidden = 1 /\ evidence.manifest = 1
       /\ evidence.smoke = 1 /\ evidence.amendment = 1
       /\ evidence.tool = FirstTool /\ evidence.rows = FirstPackage
  BY <1>4, <1>5, FirstRows21, FirstOnes, FirstOwn DEF EvidenceInputs
<1>15. EvidenceFacts(evidence)
  <2>1. cases21.hidden = 1 /\ cases21.tool = FirstTool /\ cases21.rows = FirstPackage
    <3> DEFINE own == [tool |-> FirstTool, rows |-> FirstPackage,
                       paths |-> First(<<>>, CasesInputs)]
    <3>1. DOMAIN own = {"tool", "rows", "paths"} /\ own.tool = FirstTool /\ own.rows = FirstPackage
      OBVIOUS
    <3>2. cases21 = First(own, {"hidden", "manifest", "capability21"})
      BY FirstRows21
    <3> HIDE DEF own
    <3> QED BY <3>1, <3>2, FirstOnes, FirstOwn
  <2>2. /\ Row("chronology", 1).hidden = 1 /\ Row("chronology", 1).tool = FirstTool
        /\ Row("packets", 1).hidden = 1 /\ Row("packets", 1).tool = FirstTool
    BY <1>4, <1>5, FirstRows, FirstOnes, FirstOwn
  <2> QED BY <1>2, <1>3, <1>12, <1>14, <2>1, <2>2 DEF EvidenceFacts, FactualKinds
<1>16. Prereg21Facts(Row("prereg21", 1))
  <2>1. /\ Row("prereg21", 1).evidence = 1 /\ Row("prereg21", 1).capability21 = 1
        /\ Row("prereg21", 1).tool = FirstTool /\ Row("prereg21", 1).rows = FirstPackage
    BY <1>4, <1>5, FirstRows21, FirstOnes, FirstOwn
  <2> QED BY <1>2, <1>14, <2>1 DEF Prereg21Facts, FactualKinds
<1>17. \A d \in DOMAIN FirstRecords21 : Facts(d, Row(d, 1))
  <2>1. "authorization21" \notin DOMAIN FirstRecords21
    BY <1>1
  <2> QED BY <1>7, <1>8, <1>9, <1>10, <1>11, <1>13, <1>15, <1>16, <2>1 DEF Facts
<1>18. ASSUME NEW d \in Docs, NEW v \in 1 .. Len(content[d])
       PROVE  d \in DOMAIN FirstRecords21 /\ v = 1
  <2>1. CASE d \in DOMAIN FirstRecords21
    <3>1. Len(content[d]) = 1
      BY <2>1, FirstKept
    <3> QED BY <1>18, <2>1, <3>1
  <2>2. CASE d \notin DOMAIN FirstRecords21
    <3>1. Len(content[d]) = 0
      BY <2>2, FirstKept
    <3> QED BY <1>18, <3>1
  <2> QED BY <2>1, <2>2
<1> QED BY <1>17, <1>18 DEF RowsInv, Row

LEMMA DocumentInit ==
  ASSUME Init21
  PROVE  DocumentInv
<1>1. Kept /\ RowsInv
  BY FirstKept, FirstFacts
<1>2. ConfigInv
  BY DEF Init21, InitFrom, ConfigInv
<1>3. RunInv
  BY DEF Init21, InitFrom, RunInv, RunFacts, Stopped
<1>4. ClaimsInv /\ CallsInv /\ EvaluationsInv
  BY DEF Init21, InitFrom, ClaimsInv, CallsInv, EvaluationsInv
<1>5. SessionInv
  BY NothingHeld DEF Init21, SessionInv
<1> QED BY <1>1, <1>2, <1>3, <1>4, <1>5 DEF DocumentInv

-----------------------------------------------------------------------------
(* The theorems. *)

LEMMA DocumentInvariant == Spec21 => []DocumentInv
BY DocumentInit, DocumentStep, PTL DEF Spec21

\* What a person approved is spent once: an authorization of either kind in the ledger
\* of one workspace, and a workspace under one authorization and preregistration, for
\* any documents the operators put in place of one another.
THEOREM SpentOnceByApproval == Spec21 => []OneLedgerPerAuthorization
<1>1. ASSUME DocumentInv
      PROVE  OneLedgerPerAuthorization
  <2>1. ASSUME NEW c \in calls, NEW e \in calls, c.kind = e.kind,
               c.authorization = e.authorization
        PROVE  c.workspace = e.workspace
    <3> PICK x : x = [authorization |-> <<c.kind, c.authorization>>, workspace |-> c.workspace]
      OBVIOUS
    <3> PICK y : y = [authorization |-> <<e.kind, e.authorization>>, workspace |-> e.workspace]
      OBVIOUS
    <3>1. x \in claims /\ y \in claims
      BY <1>1 DEF DocumentInv, CallsInv, CallFacts
    <3>2. x.authorization = y.authorization
      BY <2>1
    <3> QED BY <1>1, <3>1, <3>2 DEF DocumentInv, ClaimsInv
  <2>2. ASSUME NEW c \in calls, NEW e \in calls, c.kind = "exact", e.kind = "exact",
               c.workspace = e.workspace
        PROVE  c.authorization = e.authorization /\ c.prereg = e.prereg
    <3>1. Identity(c) = Identity(e)
      BY <1>1, <2>2 DEF DocumentInv, CallsInv, CallFacts
    <3> QED BY <3>1 DEF Identity
  <2> QED BY <2>1, <2>2 DEF OneLedgerPerAuthorization
<1> QED BY <1>1, DocumentInvariant, PTL

\* Each case is evaluated with what its row committed to before the call.
THEOREM CommittedBefore == Spec21 => []EvaluatedAsCommitted
<1>1. ASSUME DocumentInv
      PROVE  EvaluatedAsCommitted
  <2>1. EvaluationsInv
    BY <1>1 DEF DocumentInv
  <2>2. EvaluatedAsPreregistered
    BY <2>1 DEF EvaluationsInv, Judged, ExactJudged, EvaluatedAsPreregistered, Row
  <2>3. \A e \in evaluations : e.kind = "automated" => AutomatedJudged(e)
    BY <2>1 DEF EvaluationsInv, Judged
  <2> QED BY <2>2, <2>3 DEF EvaluatedAsCommitted, AutomatedJudged, Row
<1> QED BY <1>1, DocumentInvariant, PTL

\* The lineage of an exact call is that of its freeze.
LEMMA ExactLineage ==
  ASSUME DocumentInv
  PROVE  OneLineage
<1> SUFFICES ASSUME NEW c \in calls, c.kind = "exact"
             PROVE  LET prereg == Row("prereg", c.prereg)
                        freeze == Row("freeze", c.freeze)
                        capability == Row("capability", prereg.capability)
                        smoke == Row("smoke", freeze.smoke) IN
    /\ Row("authorization", c.authorization).freeze = c.freeze
    /\ \E v \in DOMAIN content["approval"] : Row("approval", v).freeze = c.freeze
    /\ freeze.prereg = c.prereg /\ freeze.campaign = c.campaign
    /\ Row("campaign", c.campaign).prereg = c.prereg
    /\ freeze.cases = prereg.cases
    /\ c.rows = prereg.rows /\ c.rows = freeze.rows
    /\ freeze.smoke = capability.smoke
    /\ freeze.manifest = prereg.manifest /\ freeze.manifest = capability.manifest
    /\ smoke.manifest = freeze.manifest /\ smoke.hidden = capability.hidden
    /\ Row("chronology", prereg.chronology).hidden = capability.hidden
    /\ Row("consensus", prereg.consensus).packets = prereg.packets
    /\ {prereg.tool, capability.tool, Row("campaign", c.campaign).tool,
        Row("cases", prereg.cases).tool} = {freeze.tool}
    /\ c.prereg = config[c.workspace].artifacts["prereg"] => smoke.tool = freeze.tool
  BY DEF OneLineage, Row
<1> DEFINE prereg == Row("prereg", c.prereg)
           freeze == Row("freeze", c.freeze)
           capability == Row("capability", prereg.capability)
<1>1. CallFacts(c) /\ RowsInv /\ ConfigInv /\ Kept
  BY DEF DocumentInv, CallsInv
<1>2. /\ c.workspace \in Workspaces /\ UnderFreeze(c)
      /\ c.rows = prereg.rows /\ c.rows = freeze.rows
      /\ Row("campaign", c.campaign).tool = freeze.tool
      /\ config[c.workspace] # None /\ freeze.tool = config[c.workspace].tool
  BY <1>1 DEF CallFacts, ExactFacts
<1>3. /\ Exists("authorization", c.authorization) /\ Exists("freeze", c.freeze)
      /\ Exists("prereg", c.prereg) /\ Exists("capability", prereg.capability)
      /\ Row("authorization", c.authorization).freeze = c.freeze
      /\ freeze.prereg = c.prereg /\ freeze.campaign = c.campaign
      /\ freeze.cases = prereg.cases /\ freeze.manifest = prereg.manifest
      /\ freeze.smoke = capability.smoke
  BY <1>2 DEF UnderFreeze
<1>4. \A d \in {"authorization", "freeze", "prereg", "capability", "approval"} : d \in Docs
  BY Kinds DEF Derived
<1>5. PreregFacts(prereg)
  BY <1>1, <1>3, <1>4, RowFacts DEF Facts
<1>6. FreezeFacts(freeze)
  BY <1>1, <1>3, <1>4, RowFacts DEF Facts
<1>7. CapabilityFacts(capability)
  BY <1>1, <1>3, <1>4, RowFacts DEF Facts
<1>8. AuthorizationFacts(Row("authorization", c.authorization))
  BY <1>1, <1>3, <1>4, RowFacts DEF Facts
<1>9. \E v \in DOMAIN content["approval"] : Row("approval", v).freeze = c.freeze
  <2>1. PICK v : Exists("approval", v) /\ Row("approval", v).freeze = c.freeze
    BY <1>3, <1>8 DEF AuthorizationFacts
  <2>2. IsSequence(content["approval"])
    BY <1>1, <1>4 DEF Kept
  <2>3. v \in DOMAIN content["approval"]
    BY <2>1, <2>2 DEF Exists, IsSequence
  <2> QED BY <2>1, <2>3
<1>10. Configured(config[c.workspace])
  BY <1>1, <1>2 DEF ConfigInv
<1>11. c.prereg = config[c.workspace].artifacts["prereg"] =>
         Row("smoke", freeze.smoke).tool = freeze.tool
  BY <1>2, <1>3, <1>10 DEF Configured, SmokeOf
<1> QED BY <1>2, <1>3, <1>5, <1>6, <1>7, <1>9, <1>11
        DEF PreregFacts, FreezeFacts, CapabilityFacts

\* The lineage of a v0.2.1 call is that of its evidence.
LEMMA EvidenceLineage ==
  ASSUME DocumentInv
  PROVE  AutomatedLineage
<1> SUFFICES ASSUME NEW c \in calls, c.kind = "automated"
             PROVE
    LET plan == Row("plan", c.plan)
        approved == Row("authorization21", c.authorization)
        prereg == Row("prereg21", c.prereg)
        evidence == Row("evidence", prereg.evidence)
        capability == Row("capability21", evidence.capability21)
        amendment == Row("amendment", evidence.amendment)
        cases == Row("cases21", evidence.cases21) IN
    /\ plan.authorization21 = c.authorization /\ approved.prereg21 = c.prereg
    /\ approved.workspace = c.workspace
    /\ {c.rows, approved.rows, evidence.rows} = {cases.rows}
    /\ plan.capability21 = evidence.capability21
    /\ capability.amendment = evidence.amendment
    /\ {capability.smoke, evidence.smoke} = {amendment.smoke}
    /\ {capability.manifest, evidence.manifest} = {amendment.manifest}
    /\ {capability.hidden, amendment.hidden, cases.hidden,
        Row("packets", evidence.packets).hidden,
        Row("chronology", evidence.chronology).hidden,
        Row("smoke", amendment.smoke).hidden,
        Row("smoke19", amendment.smoke19).hidden} = {evidence.hidden}
    /\ {capability.tool, amendment.tool, cases.tool,
        Row("packets", evidence.packets).tool,
        Row("chronology", evidence.chronology).tool, prereg.tool} = {evidence.tool}
  BY DEF AutomatedLineage, Row
<1> DEFINE plan == Row("plan", c.plan)
           approved == Row("authorization21", c.authorization)
           prereg == Row("prereg21", c.prereg)
           evidence == Row("evidence", prereg.evidence)
           capability == Row("capability21", evidence.capability21)
           amendment == Row("amendment", evidence.amendment)
<1>1. CallFacts(c) /\ RowsInv
  BY DEF DocumentInv, CallsInv
<1>2. AutomatedFacts(c)
  BY <1>1 DEF CallFacts
<1>3. /\ plan.authorization21 = c.authorization /\ plan.prereg21 = c.prereg
      /\ plan.rows = c.rows /\ approved.workspace = c.workspace
      /\ Exists("authorization21", c.authorization) /\ Exists("prereg21", c.prereg)
      /\ approved.prereg21 = c.prereg /\ approved.rows = c.rows
      /\ prereg.capability21 = plan.capability21
  BY <1>2 DEF AutomatedFacts, PlanFacts
<1>4. \A d \in {"authorization21", "prereg21", "evidence", "capability21", "amendment"} : d \in Docs
  BY Kinds DEF Kinds21
<1>5. Authorization21Facts(approved) /\ Prereg21Facts(prereg)
  BY <1>1, <1>3, <1>4, RowFacts DEF Facts
<1>6. /\ Exists("evidence", prereg.evidence) /\ evidence.tool = prereg.tool
      /\ evidence.rows = prereg.rows /\ evidence.capability21 = prereg.capability21
      /\ prereg.rows = approved.rows
  BY <1>3, <1>5 DEF Prereg21Facts, Authorization21Facts
<1>7. EvidenceFacts(evidence)
  BY <1>1, <1>4, <1>6, RowFacts DEF Facts
<1>8. Exists("capability21", evidence.capability21)
  BY <1>7 DEF EvidenceFacts
<1>9. Capability21Facts(capability)
  BY <1>1, <1>4, <1>8, RowFacts DEF Facts
<1>10. capability.amendment = evidence.amendment /\ Exists("amendment", evidence.amendment)
  BY <1>7, <1>9 DEF EvidenceFacts, Capability21Facts
<1>11. AmendmentFacts(amendment)
  BY <1>1, <1>4, <1>10, RowFacts DEF Facts
<1> HIDE DEF plan, approved, prereg, evidence, capability, amendment
<1>12. /\ amendment.manifest = capability.manifest /\ amendment.smoke = capability.smoke
       /\ amendment.hidden = capability.hidden /\ amendment.tool = capability.tool
  BY <1>9, <1>10 DEF Capability21Facts, amendment
<1> QED BY <1>3, <1>6, <1>7, <1>10, <1>11, <1>12
        DEF EvidenceFacts, AmendmentFacts, plan, approved, prereg, evidence, capability, amendment

\* Every paid call, of either campaign, is made under one lineage of documents, however
\* many of each kind there are, whatever is removed or replaced, and between any steps.
THEOREM LineageOfEveryCall == Spec21 => []EveryLineage
<1>1. DocumentInv => EveryLineage
  BY ExactLineage, EvidenceLineage DEF EveryLineage
<1> QED BY <1>1, DocumentInvariant, PTL
=============================================================================
