---------------------------- MODULE V021Authority ----------------------------
(***************************************************************************)
(* How one preregistration comes to have one spend ledger                  *)
(* (benchmark_v021_authorization.py, benchmark_v021_ledger.py).            *)
(*                                                                         *)
(* Operators run concurrently.  Each may issue an authorization of its own *)
(* wording, nonce and ledger path; the issuance claim, in state outside    *)
(* the campaign's directories, is named after the preregistration and the  *)
(* request set and admits one.  Whoever holds the authority may then claim *)
(* its ledger; that claim is named after the authorization.  A claim, like *)
(* every file here, is created exclusively and then filled.  The campaign  *)
(* directories are the caller's: what is in them can be deleted.           *)
(***************************************************************************)
EXTENDS Integers, FiniteSets

CONSTANTS Operators, NoFile, Torn, NoOne,
          ClaimedAt    \* the claimed_at each operator passes

ASSUME OperatorAssumption ==
    /\ NoFile # Torn
    /\ {NoFile, Torn, NoOne} \cap Operators = {}
    /\ ClaimedAt \in [Operators -> Nat] /\ {NoFile, Torn} \cap Nat = {}

\* An authorization is named by the operator who words it.  A ledger claim, and the
\* ledger's first line, say when the ledger was claimed but not by whom: two
\* operators can write the same.
Contents == Operators \cup {NoFile, Torn}
Claims == Nat \cup {NoFile, Torn}

VARIABLES issuance,       \* the issuance claim
          authorization,  \* each operator's authorization file
          claim,          \* the ledger claim of each authorization
          ledger,         \* the ledger of each authorization
          pc,
          authority,      \* the authorization each operator holds verified
          authorities,    \* every authorization that was ever verified
          opened          \* every <<authorization, operator>> that opened a ledger

files == <<issuance, authorization, claim, ledger>>
ghosts == <<authorities, opened>>
authorityVars == <<files, pc, authority, ghosts>>

AuthorityInit ==
    /\ issuance = NoFile
    /\ authorization = [a \in Operators |-> NoFile]
    /\ claim = [a \in Operators |-> NoFile]
    /\ ledger = [a \in Operators |-> NoFile]
    /\ pc = [p \in Operators |-> "idle"]
    /\ authority = [p \in Operators |-> NoOne]
    /\ authorities = {}
    /\ opened = {}

Goto(p, label) == pc' = [pc EXCEPT ![p] = label]

Step(p, from, to) == /\ pc[p] = from
                     /\ Goto(p, to)
                     /\ UNCHANGED <<authority, ghosts>>

\* A refusal leaves everything as it is.
Refuse(p, from) == Step(p, from, "idle") /\ UNCHANGED files

-----------------------------------------------------------------------------
(* prepare_v021_execution_authorization *)

\* The output must be new, and so must the claim.
CheckIssuance(p) ==
    /\ authorization[p] = NoFile
    /\ issuance = NoFile
    /\ Step(p, "idle", "create_issuance")
    /\ UNCHANGED files

\* Mutant: the issuance claim is written over.
OverwriteIssuance(p) ==
    /\ issuance' = Torn
    /\ Step(p, "create_issuance", "fill_issuance")
    /\ UNCHANGED <<authorization, claim, ledger>>

CreateIssuance(p) ==
    \/ /\ issuance = NoFile
       /\ issuance' = Torn
       /\ Step(p, "create_issuance", "fill_issuance")
       /\ UNCHANGED <<authorization, claim, ledger>>
    \/ issuance # NoFile /\ Refuse(p, "create_issuance")

FillIssuance(p) ==
    /\ Step(p, "fill_issuance", "create_authorization")
    /\ issuance' = p
    /\ UNCHANGED <<authorization, claim, ledger>>

\* Created exclusively.  It was found new before the issuance claim was taken, and
\* whoever holds that claim is the only one to write an authorization.
CreateAuthorization(p) ==
    /\ authorization[p] = NoFile
    /\ Step(p, "create_authorization", "fill_authorization")
    /\ authorization' = [authorization EXCEPT ![p] = Torn]
    /\ UNCHANGED <<issuance, claim, ledger>>

FillAuthorization(p) ==
    /\ Step(p, "fill_authorization", "verify_issued")
    /\ authorization' = [authorization EXCEPT ![p] = IF @ = NoFile THEN NoFile ELSE p]
    /\ UNCHANGED <<issuance, claim, ledger>>

\* verify_v021_execution_authorization mints the authority: the file must match
\* the issuance claim.  The one who issued it verifies it, and so may any other.
AuthorizationVerifies(a) == authorization[a] = a /\ issuance = a

Verify(p, a) ==
    /\ \/ pc[p] = "idle"
       \/ pc[p] = "verify_issued" /\ a = p
    /\ AuthorizationVerifies(a)
    /\ Goto(p, "idle")
    /\ authority' = [authority EXCEPT ![p] = a]
    /\ authorities' = authorities \cup {a}
    /\ UNCHANGED <<files, opened>>

VerificationFails(p) == ~AuthorizationVerifies(p) /\ Refuse(p, "verify_issued")

-----------------------------------------------------------------------------
(* claim_v021_spend_ledger *)

CheckClaim(p) ==
    LET a == authority[p] IN
    /\ a # NoOne
    /\ ledger[a] = NoFile
    /\ claim[a] = NoFile
    /\ Step(p, "idle", "create_claim")
    /\ UNCHANGED files

\* Mutants: the claim is written over; its creation is inside the try statement.
OverwriteClaim(p) ==
    /\ pc[p] = "create_claim"
    /\ claim' = [claim EXCEPT ![authority[p]] = Torn]
    /\ Step(p, "create_claim", "fill_claim")
    /\ UNCHANGED <<issuance, authorization, ledger>>

CreateClaimOrUnlink(p) ==
    LET a == authority[p] IN
    \/ /\ pc[p] = "create_claim"
       /\ claim[a] = NoFile
       /\ claim' = [claim EXCEPT ![a] = Torn]
       /\ Step(p, "create_claim", "fill_claim")
       /\ UNCHANGED <<issuance, authorization, ledger>>
    \/ /\ pc[p] = "create_claim"
       /\ claim[a] # NoFile
       /\ Step(p, "create_claim", "unlink")
       /\ UNCHANGED files

CreateClaim(p) ==
    LET a == authority[p] IN
    \/ /\ pc[p] = "create_claim"
       /\ claim[a] = NoFile
       /\ claim' = [claim EXCEPT ![a] = Torn]
       /\ Step(p, "create_claim", "fill_claim")
       /\ UNCHANGED <<issuance, authorization, ledger>>
    \/ /\ pc[p] = "create_claim"
       /\ claim[a] # NoFile
       /\ Refuse(p, "create_claim")

FillClaim(p) ==
    /\ pc[p] = "fill_claim"
    /\ claim' = [claim EXCEPT ![authority[p]] = ClaimedAt[p]]
    /\ Step(p, "fill_claim", "create_ledger")
    /\ UNCHANGED <<issuance, authorization, ledger>>

CreateLedger(p) ==
    LET a == authority[p] IN
    /\ pc[p] = "create_ledger"
    /\ \/ /\ ledger[a] = NoFile
          /\ ledger' = [ledger EXCEPT ![a] = Torn]
          /\ Step(p, "create_ledger", "fill_ledger")
       \/ ledger[a] # NoFile /\ Step(p, "create_ledger", "unlink") /\ UNCHANGED ledger
    /\ UNCHANGED <<issuance, authorization, claim>>

\* The file may be gone by the time it is filled.  The flush or the fsync may
\* fail although the line is on file.
FillLedger(p) ==
    LET a == authority[p] IN
    /\ pc[p] = "fill_ledger"
    /\ \/ ledger' = [ledger EXCEPT ![a] = IF @ = NoFile THEN NoFile ELSE ClaimedAt[p]]
       \/ UNCHANGED ledger
    /\ \/ ledger'[a] # Torn /\ Step(p, "fill_ledger", "verify_ledger")
       \/ Step(p, "fill_ledger", "unlink")
    /\ UNCHANGED <<issuance, authorization, claim>>

\* The exception handler takes the claim back and raises.
UnlinkClaim(p) ==
    /\ pc[p] = "unlink"
    /\ claim' = [claim EXCEPT ![authority[p]] = NoFile]
    /\ Step(p, "unlink", "idle")
    /\ UNCHANGED <<issuance, authorization, ledger>>

\* verify_v021_spend_ledger: the first line names the claim on file.
LedgerVerifies(a) == ledger[a] \notin {NoFile, Torn} /\ claim[a] = ledger[a]

\* The call returns the ledger, or raises: the file cannot be read, or its lines
\* are not accepted.
VerifyLedger(p) ==
    LET a == authority[p] IN
    /\ pc[p] = "verify_ledger"
    /\ Goto(p, "idle")
    /\ \/ LedgerVerifies(a) /\ opened' = opened \cup {<<a, p>>}
       \/ UNCHANGED opened
    /\ UNCHANGED <<files, authority, authorities>>

-----------------------------------------------------------------------------
Crash(p) == /\ pc[p] # "idle" \/ authority[p] # NoOne
            /\ Goto(p, "idle")
            /\ authority' = [authority EXCEPT ![p] = NoOne]
            /\ UNCHANGED <<files, ghosts>>

DeleteAuthorization(a) ==
    /\ authorization[a] # NoFile
    /\ authorization' = [authorization EXCEPT ![a] = NoFile]
    /\ UNCHANGED <<issuance, claim, ledger, pc, authority, ghosts>>

DeleteLedger(a) ==
    /\ ledger[a] # NoFile
    /\ ledger' = [ledger EXCEPT ![a] = NoFile]
    /\ UNCHANGED <<issuance, authorization, claim, pc, authority, ghosts>>

IssueAuthorization(p) ==
    \/ CheckIssuance(p) \/ CreateIssuance(p) \/ FillIssuance(p)
    \/ CreateAuthorization(p) \/ FillAuthorization(p) \/ VerificationFails(p)

Claim(p) == \/ CheckClaim(p) \/ CreateClaim(p) \/ FillClaim(p) \/ CreateLedger(p)
            \/ FillLedger(p) \/ UnlinkClaim(p) \/ VerifyLedger(p)

AuthorityNext ==
    \/ \E p \in Operators : \/ IssueAuthorization(p) \/ Claim(p) \/ Crash(p)
                            \/ \E a \in Operators : Verify(p, a)
    \/ \E a \in Operators : DeleteAuthorization(a) \/ DeleteLedger(a)

AuthoritySpec == AuthorityInit /\ [][AuthorityNext]_authorityVars

-----------------------------------------------------------------------------
AuthorityTypeOK ==
    /\ issuance \in Contents
    /\ authorization \in [Operators -> Contents]
    /\ claim \in [Operators -> Claims]
    /\ ledger \in [Operators -> Claims]
    /\ pc \in [Operators -> {"idle", "create_issuance", "fill_issuance",
                             "create_authorization", "fill_authorization",
                             "verify_issued",
                             "create_claim", "fill_claim", "create_ledger",
                             "fill_ledger", "unlink", "verify_ledger"}]
    /\ authority \in [Operators -> Operators \cup {NoOne}]
    /\ authorities \subseteq Operators
    /\ opened \subseteq Operators \X Operators

\* One preregistration and request set has at most one authorization that was
\* ever good, over crashes, concurrent operators and deleted files.
OneAuthorization == \A a, b \in authorities : a = b

\* At most one spend ledger is ever opened, although a deleted ledger could make
\* room for a second one.
OneLedger == \A x, y \in opened : x = y

\* The claim under an opened ledger stays: no operator whose own attempt fails
\* takes it away, so the ledger stays the only one and stays verifiable.
ClaimStays == \A x \in opened : claim[x[1]] = ClaimedAt[x[2]]
=============================================================================
