----------------------------- MODULE V021Ledgers -----------------------------
(***************************************************************************)
(* The one ledger of a preregistration over its whole life: operators      *)
(* issue authorizations and claim ledgers (V021Authority), and whoever     *)
(* holds the authority and finds a ledger that verifies may call any of    *)
(* its operations, with any arguments and timestamps (V021SpendLedger),    *)
(* also while the claim of that ledger has not returned yet.  The ledger's *)
(* directory is the caller's: the file can be deleted and a fresh one      *)
(* opened only if the claims allow it.                                     *)
(***************************************************************************)
EXTENDS V021Authority, V021SpendLedger

VARIABLE reservations    \* per case, the reservations that count

lifeVars == <<authorityVars, ledgerVars, reservations>>

LifeInit == /\ AuthorityInit
            /\ LedgerClaimed(0)
            /\ reservations = [c \in Cases |-> 0]

ClaimTimes == {ClaimedAt[p] : p \in Operators}

\* The ledger is filled with its claim line, whatever was there before.
NewLedger(t) == \E a \in Operators : /\ ledger[a] \in {NoFile, Torn}
                                    /\ ledger'[a] = t

\* What was reserved in an earlier ledger counts no more if no claim has returned yet.
Counted == IF opened = {} THEN [c \in Cases |-> 0] ELSE reservations

\* A claim returns what verify_v021_spend_ledger accepts.
Administer ==
    /\ AuthorityNext
    /\ \/ /\ \E t \in ClaimTimes : NewLedger(t) /\ log' = <<ClaimLine(t)>>
          /\ torn' = FALSE /\ spent' = 0
          /\ reservations' = Counted
       \/ (\A t \in ClaimTimes : ~NewLedger(t)) /\ UNCHANGED <<ledgerVars, reservations>>
    /\ opened' # opened => Verifies(log, torn)

\* Every operation asks for the authority, and verifies the ledger and its claim
\* before it appends.
MayOperate == \E q \in Operators : /\ pc[q] = "idle" /\ authority[q] # NoOne
                                  /\ LedgerVerifies(authority[q])

OperateLedger ==
    /\ MayOperate
    /\ LedgerNext
    /\ reservations' =
           [c \in Cases |-> reservations[c] +
               (IF Len(log') > Len(log) /\ log'[Len(log')].type = "case_reserved"
                   /\ log'[Len(log')].case = c THEN 1 ELSE 0)]
    /\ UNCHANGED authorityVars

LifeNext == Administer \/ OperateLedger

LifeSpec == LifeInit /\ [][LifeNext]_lifeVars

-----------------------------------------------------------------------------

\* Once a claim of a ledger has returned, a case is reserved, and so can be paid for,
\* once: the reservations made before in that ledger file count, and so do those of
\* every ledger that is ever opened for the preregistration, although the ledger, the
\* authorization and everything else in the campaign's directories can be deleted at
\* any moment.
ReservedOnce == \A c \in Cases : reservations[c] <= 1

\* A reservation is for good: what is reserved in a ledger that verifies is not available
\* again in a later one that verifies (benchmark_v021_ledger.py calls the ledger and its
\* reservations irreversible).
Irreversible ==
    [][Verifies(log, torn) /\ Verifies(log, torn)' =>
           \A c \in Cases : StateOf(c) # "available" => StateOf(c)' # "available"]_lifeVars
=============================================================================
