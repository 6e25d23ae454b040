------------------------ MODULE V021Evaluation_proofs ------------------------
(***************************************************************************)
(* What the evaluation of a v0.2.1 campaign publishes, for any number of   *)
(* processes that run at the same time without a lock, die and come back,  *)
(* any tools and contracts of theirs, any number of cases and any          *)
(* verdicts.                                                               *)
(*                                                                         *)
(* What keeps the processes apart is that a file is created exclusively:   *)
(* who created it fills it (FillInv), so that a file that is whole stays   *)
(* what it is (Grown), and what a process read of it stays true            *)
(* (KnowInv).  What is published was known to who published it (FileInv).  *)
(* WhyInv says the same of a process that runs alone, and of a file that   *)
(* was cut short: nobody fills it any more (Abandoned).                    *)
(***************************************************************************)
EXTENDS V021Evaluation, FiniteSetTheorems, TLAPS

Whole(file) == file \notin {NoFile, Torn}

AtCase == {"look", "look_public", "evaluate", "create_evaluation", "fill_evaluation",
           "verify", "publish", "create_public", "fill_public"}
AtEnd == {"aggregate", "create_aggregate", "fill_aggregate", "verify_set"}
AtOutput == {"look_public", "evaluate", "create_evaluation", "fill_evaluation", "verify"}

\* A file that is being filled is torn, and one process at most fills it.
FillInv ==
    /\ \A p \in Evaluators :
          /\ pc[p] = "fill_evaluation" => evaluation[case[p]] = Torn
          /\ pc[p] = "fill_public" => public[case[p]] = Torn
          /\ pc[p] = "fill_aggregate" => aggregate = Torn
    /\ \A p, q \in Evaluators :
          /\ pc[p] = "fill_evaluation" /\ pc[q] = "fill_evaluation" /\ case[p] = case[q]
                => p = q
          /\ pc[p] = "fill_public" /\ pc[q] = "fill_public" /\ case[p] = case[q] => p = q
          /\ pc[p] = "fill_aggregate" /\ pc[q] = "fill_aggregate" => p = q

\* What a process has verified of its case: there is no output to evaluate, or
\* there is a receipt of its tool, and it knows what is in it.
Knows(p) ==
    IF case[p] \in Unparsable[p] THEN verdict[p] = Nothing
    ELSE LET e == evaluation[case[p]] IN
         /\ Whole(e) /\ e.verdict \notin Unverifiable /\ e.tool = ToolOf[p]
         /\ verdict[p] = [verdict |-> e.verdict, evaluation |-> e]

RowsArePublic(p) ==
    \A d \in DOMAIN rows[p] :
        /\ d \in Cases /\ Whole(public[d]) /\ rows[p][d] = public[d]
        /\ public[d].tool = ToolOf[p]

KnowInv(p) ==
    /\ pc[p] \in AtCase => Len(rows[p]) = case[p] - 1
    /\ pc[p] \in AtEnd => Len(rows[p]) = NumCases
    /\ RowsArePublic(p)
    /\ pc[p] = "look" => verdict[p] = Nothing
    /\ pc[p] \in AtOutput => case[p] \notin Unparsable[p]
    /\ pc[p] \in {"create_evaluation", "fill_evaluation"} => verdict[p].verdict \in Verdicts
    /\ pc[p] = "verify" => evaluation[case[p]] # NoFile
    /\ pc[p] \in {"publish", "create_public", "fill_public"} => Knows(p)
    /\ pc[p] = "verify_set" => aggregate = Aggregate(p, rows[p])

\* A receipt was made of an output that the contract of its tool accepts.
ReceiptInv(c) ==
    Whole(evaluation[c]) =>
        /\ evaluation[c] \in Receipts
        /\ \E p \in Evaluators : c \notin Unparsable[p] /\ evaluation[c].tool = ToolOf[p]

PublicInv(c) ==
    Whole(public[c]) =>
        /\ CaseIsEvaluated(c)
        /\ public[c].evaluation # NoFile =>
              Whole(public[c].evaluation) /\ public[c].verdict \notin Unverifiable

AggregateInv ==
    Whole(aggregate) =>
        \E p \in Evaluators :
           /\ \A c \in Cases : Whole(public[c]) /\ public[c].tool = ToolOf[p]
           /\ aggregate = Aggregate(p, public)

FileInv == (\A c \in Cases : ReceiptInv(c) /\ PublicInv(c)) /\ AggregateInv

SetInv == TypeOK /\ FillInv /\ (\A p \in Evaluators : KnowInv(p)) /\ FileInv

\* A process that is alone meets nobody's files but those it met before, and
\* nobody works beside it.
AloneInv ==
    \A p \in Evaluators :
        ~AtRest(p) /\ alone[p] =>
            /\ \A o \in Evaluators \ {p} : AtRest(o)
            /\ pc[p] \in {"look_public", "evaluate", "create_evaluation"}
                  => evaluation[case[p]] = NoFile
            /\ pc[p] = "create_public" => public[case[p]] = NoFile
            /\ pc[p] = "create_aggregate" => aggregate = NoFile

\* A file was cut short, and nobody fills it any more.
Abandoned ==
    \/ \E c \in Cases :
          \/ /\ evaluation[c] = Torn
             /\ \A p \in Evaluators : pc[p] = "fill_evaluation" => case[p] # c
          \/ /\ public[c] = Torn
             /\ \A p \in Evaluators : pc[p] = "fill_public" => case[p] # c
    \/ aggregate = Torn /\ \A p \in Evaluators : pc[p] # "fill_aggregate"

UnverifiableFile ==
    \E c \in Cases : Whole(evaluation[c]) /\ evaluation[c].verdict \in Unverifiable

OtherToolFile(p) ==
    \E c \in Cases : \/ Whole(evaluation[c]) /\ evaluation[c].tool # ToolOf[p]
                     \/ Whole(public[c]) /\ public[c].tool # ToolOf[p]

Explains(p, reason) ==
    \/ reason \in {"none", "evaluator", "raced"}
    \/ reason = "torn" /\ Abandoned
    \/ reason \in {"tool", "differs"} /\ OtherToolFile(p)
    \/ reason \in {"conflict", "partial"} /\ (Abandoned \/ OtherToolFile(p))
    \/ reason = "unverifiable" /\ UnverifiableFile

WhyInv == \A p \in Evaluators : Explains(p, why[p])

-----------------------------------------------------------------------------
(* What the records are *)

Labels == {"idle", "rejected", "done", "look", "look_public", "evaluate",
           "create_evaluation", "fill_evaluation", "verify", "publish",
           "create_public", "fill_public", "aggregate", "create_aggregate",
           "fill_aggregate", "verify_set"}
Outcomes == [verdict : Verdicts \cup {Rejected}, evaluation : {NoFile} \cup Receipts]

LEMMA NothingIsOutcome == Nothing \in Outcomes
BY DEF Nothing, Outcomes

LEMMA ReceiptIsWhole ==
  ASSUME NEW p \in Evaluators, NEW v \in Verdicts
  PROVE  /\ Evaluation(p, v) \in Receipts /\ Whole(Evaluation(p, v))
         /\ Evaluation(p, v).tool = ToolOf[p] /\ Evaluation(p, v).verdict = v
<1>1. Evaluation(p, v) \in Receipts
  BY DEF Receipts
<1>2. Whole(Evaluation(p, v))
  BY <1>1, FileAssumption DEF Whole
<1> QED BY <1>1, <1>2 DEF Evaluation

LEMMA ReceiptsAreOutcomes ==
  ASSUME NEW e \in Receipts
  PROVE  /\ Whole(e) /\ e.verdict \in Verdicts
         /\ [verdict |-> e.verdict, evaluation |-> e] \in Outcomes
<1>1. PICK p \in Evaluators, v \in Verdicts : e = Evaluation(p, v)
  BY DEF Receipts
<1> QED BY <1>1, ReceiptIsWhole DEF Outcomes

LEMMA PublicIsWhole ==
  ASSUME NEW p \in Evaluators, NEW x \in Outcomes
  PROVE  /\ Public(p, x) \in PublicReceipts /\ Whole(Public(p, x))
         /\ Public(p, x).tool = ToolOf[p] /\ Public(p, x).verdict = x.verdict
         /\ Public(p, x).evaluation = x.evaluation
<1>1. Public(p, x) \in PublicReceipts
  BY DEF Public, PublicReceipts, Outcomes
<1>2. Whole(Public(p, x))
  BY <1>1, FileAssumption DEF Whole
<1> QED BY <1>1, <1>2 DEF Public

LEMMA AggregateIsWhole ==
  ASSUME NEW p \in Evaluators, NEW rs \in Seq(PublicReceipts)
  PROVE  /\ Aggregate(p, rs) \in Aggregates /\ Whole(Aggregate(p, rs))
         /\ Aggregate(p, rs).tool = ToolOf[p] /\ Aggregate(p, rs).rows = rs
<1>1. IsFiniteSet(DOMAIN rs)
  BY FS_Interval
<1>2. \A S \in SUBSET DOMAIN rs : Cardinality(S) \in Nat
  BY <1>1, FS_Subset, FS_CardinalityType
<1>3. Aggregate(p, rs) \in Aggregates
  BY <1>2 DEF Aggregate, Aggregates
<1>4. Whole(Aggregate(p, rs))
  BY <1>3, FileAssumption DEF Whole
<1> QED BY <1>3, <1>4 DEF Aggregate

-----------------------------------------------------------------------------
(* One process moves *)

Step(p) == Start(p) \/ (Run(p) /\ UNCHANGED alone) \/ Crash(p)

\* Where the process is, and what it knows, when it is rejected or dies.
Forgotten(p) == case'[p] = 1 /\ verdict'[p] = Nothing /\ rows'[p] = << >>

Alike(p) ==
    \A q \in Evaluators \ {p} :
        /\ pc'[q] = pc[q] /\ case'[q] = case[q] /\ verdict'[q] = verdict[q]
        /\ rows'[q] = rows[q] /\ why'[q] = why[q]

LocalType ==
    /\ pc \in [Evaluators -> Labels] /\ case \in [Evaluators -> Cases]
    /\ rows \in [Evaluators -> Seq(PublicReceipts)] /\ verdict \in [Evaluators -> Outcomes]
    /\ why \in [Evaluators -> Reasons]

\* A rejection.
LEMMA RejectOf ==
  ASSUME LocalType, NEW p \in Evaluators, NEW reason, Reject(p, reason),
         reason \in Reasons
  PROVE  /\ LocalType' /\ Alike(p) /\ pc'[p] = "rejected" /\ Forgotten(p)
         /\ why'[p] = IF alone[p] THEN reason ELSE "raced"
<1>1. 1 \in Cases
  BY EvaluationAssumption DEF Cases
<1> DEFINE said == IF alone[p] THEN reason ELSE "raced"
<1>2. said \in Reasons
  BY DEF Reasons
<1>3. /\ pc' = [pc EXCEPT ![p] = "rejected"] /\ case' = [case EXCEPT ![p] = 1]
      /\ verdict' = [verdict EXCEPT ![p] = Nothing] /\ rows' = [rows EXCEPT ![p] = << >>]
      /\ why' = [why EXCEPT ![p] = said]
  BY DEF Reject, Goto, ForgetRun
<1> HIDE DEF said
<1>4. LocalType'
  BY <1>1, <1>2, <1>3, NothingIsOutcome DEF LocalType, Labels
<1>5. Alike(p) /\ pc'[p] = "rejected" /\ Forgotten(p) /\ why'[p] = said
  BY <1>3 DEF LocalType, Alike, Forgotten
<1> QED BY <1>4, <1>5 DEF said

LEMMA ContinueOf ==
  ASSUME LocalType, NEW p \in Evaluators, NEW label \in Labels, Continue(p, label)
  PROVE  /\ LocalType' /\ Alike(p) /\ pc'[p] = label
         /\ case' = case /\ verdict' = verdict /\ rows' = rows /\ why' = why
BY DEF Continue, Goto, LocalType, Alike, local

LEMMA NextCaseOf ==
  ASSUME LocalType, NEW p \in Evaluators, NextCase(p)
  PROVE  /\ LocalType' /\ Alike(p)
         /\ rows'[p] = Append(rows[p], Public(p, verdict[p])) /\ verdict'[p] = Nothing
         /\ why'[p] = why[p]
         /\ \/ case[p] < NumCases /\ case'[p] = case[p] + 1 /\ pc'[p] = "look"
            \/ case[p] = NumCases /\ case'[p] = case[p] /\ pc'[p] = "aggregate"
<1>1. Public(p, verdict[p]) \in PublicReceipts
  BY PublicIsWhole DEF LocalType
<1>2. rows' \in [Evaluators -> Seq(PublicReceipts)]
  BY <1>1 DEF LocalType, NextCase
<1>3. case[p] \in 1 .. NumCases /\ NumCases \in Nat
  BY EvaluationAssumption DEF LocalType, Cases
<1>4. CASE case[p] < NumCases
  <2>1. case' = [case EXCEPT ![p] = @ + 1] /\ pc' = [pc EXCEPT ![p] = "look"]
    BY <1>4 DEF NextCase, Goto
  <2>2. case[p] + 1 \in Cases
    BY <1>3, <1>4 DEF Cases
  <2> QED BY <1>2, <1>4, <2>1, <2>2, NothingIsOutcome DEF LocalType, Alike, Labels, NextCase
<1>5. CASE ~(case[p] < NumCases)
  <2>1. case' = case /\ pc' = [pc EXCEPT ![p] = "aggregate"] /\ case[p] = NumCases
    BY <1>3, <1>5 DEF NextCase, Goto
  <2> QED BY <1>2, <2>1, NothingIsOutcome DEF LocalType, Alike, Labels, NextCase
<1> QED BY <1>4, <1>5

\* The operations, as they are for the process that takes one.
Same(p) == /\ case'[p] = case[p] /\ verdict'[p] = verdict[p] /\ rows'[p] = rows[p]
           /\ why'[p] = why[p]
Rejects(p, reason) ==
    /\ pc'[p] = "rejected" /\ Forgotten(p) /\ UNCHANGED files
    /\ why'[p] = IF alone[p] THEN reason ELSE "raced"
GoesOn(p, label) == pc'[p] = label /\ Same(p) /\ UNCHANGED files
Finishes(p) ==
    /\ rows'[p] = Append(rows[p], Public(p, verdict[p])) /\ verdict'[p] = Nothing
    /\ why'[p] = why[p]
    /\ \/ case[p] < NumCases /\ case'[p] = case[p] + 1 /\ pc'[p] = "look"
       \/ case[p] = NumCases /\ case'[p] = case[p] /\ pc'[p] = "aggregate"

LEMMA LookEffect ==
  ASSUME LocalType, NEW p \in Evaluators, LookForEvaluation(p)
  PROVE  /\ LocalType' /\ Alike(p) /\ pc[p] = "look"
         /\ \/ /\ case[p] \in Unparsable[p] /\ evaluation[case[p]] = NoFile
               /\ GoesOn(p, "publish")
            \/ /\ case[p] \in Unparsable[p] /\ evaluation[case[p]] # NoFile
               /\ Rejects(p, "conflict")
            \/ /\ case[p] \notin Unparsable[p] /\ evaluation[case[p]] # NoFile
               /\ GoesOn(p, "verify")
            \/ /\ case[p] \notin Unparsable[p] /\ evaluation[case[p]] = NoFile
               /\ GoesOn(p, "look_public")
BY RejectOf, ContinueOf DEF LookForEvaluation, GoesOn, Same, Rejects, Labels, Reasons

LEMMA PublicLookEffect ==
  ASSUME LocalType, NEW p \in Evaluators, LookForPublic(p)
  PROVE  /\ LocalType' /\ Alike(p) /\ pc[p] = "look_public"
         /\ \/ public[case[p]] = NoFile /\ GoesOn(p, "evaluate")
            \/ public[case[p]] # NoFile /\ Rejects(p, "partial")
BY RejectOf, ContinueOf DEF LookForPublic, GoesOn, Same, Rejects, Labels, Reasons

LEMMA EvaluateEffect ==
  ASSUME LocalType, NEW p \in Evaluators, Evaluate(p)
  PROVE  /\ LocalType' /\ Alike(p) /\ pc[p] = "evaluate"
         /\ \/ Rejects(p, "evaluator")
            \/ /\ pc'[p] = "create_evaluation" /\ case'[p] = case[p] /\ rows'[p] = rows[p]
               /\ why'[p] = why[p] /\ verdict'[p].verdict \in Verdicts /\ UNCHANGED files
<1>1. CASE \E v \in Verdicts : /\ verdict' = [verdict EXCEPT ![p].verdict = v]
                               /\ Goto(p, "create_evaluation")
                               /\ UNCHANGED <<case, rows, why>>
  <2>1. PICK v \in Verdicts : verdict' = [verdict EXCEPT ![p].verdict = v]
    BY <1>1
  <2>2. pc' = [pc EXCEPT ![p] = "create_evaluation"] /\ UNCHANGED <<case, rows, why>>
    BY <1>1 DEF Goto
  <2>3. [verdict[p] EXCEPT !.verdict = v] \in Outcomes
    BY DEF LocalType, Outcomes
  <2>4. verdict' \in [Evaluators -> Outcomes] /\ verdict'[p].verdict = v
    BY <2>1, <2>3 DEF LocalType, Outcomes
  <2>5. LocalType'
    BY <2>2, <2>4 DEF LocalType, Labels
  <2>6. Alike(p)
    BY <2>1, <2>2 DEF LocalType, Alike
  <2> QED BY <2>2, <2>4, <2>5, <2>6 DEF LocalType, Evaluate
<1>2. CASE Reject(p, "evaluator")
  BY <1>2, RejectOf DEF Evaluate, Rejects, Reasons
<1> QED BY <1>1, <1>2 DEF Evaluate

LEMMA CreateEvaluationEffect ==
  ASSUME LocalType, NEW p \in Evaluators, CreateEvaluation(p)
  PROVE  /\ LocalType' /\ Alike(p) /\ pc[p] = "create_evaluation"
         /\ \/ evaluation[case[p]] # NoFile /\ Rejects(p, "exists")
            \/ /\ evaluation[case[p]] = NoFile /\ pc'[p] = "fill_evaluation" /\ Same(p)
               /\ evaluation' = [evaluation EXCEPT ![case[p]] = Torn]
               /\ UNCHANGED <<public, aggregate>>
BY RejectOf, ContinueOf
DEF CreateEvaluation, Same, Rejects, Labels, Reasons, files

LEMMA FillEvaluationEffect ==
  ASSUME LocalType, NEW p \in Evaluators, FillEvaluation(p)
  PROVE  /\ LocalType' /\ Alike(p) /\ pc[p] = "fill_evaluation"
         /\ pc'[p] = "verify" /\ Same(p)
         /\ evaluation' = [evaluation EXCEPT ![case[p]] = Evaluation(p, verdict[p].verdict)]
         /\ UNCHANGED <<public, aggregate>>
BY ContinueOf DEF FillEvaluation, Same, Labels

LEMMA VerifyEffect ==
  ASSUME LocalType, NEW p \in Evaluators, VerifyEvaluation(p),
         evaluation[case[p]] \in {Torn} \cup Receipts
  PROVE  /\ LocalType' /\ Alike(p) /\ pc[p] = "verify"
         /\ LET e == evaluation[case[p]] IN
            \/ e = Torn /\ Rejects(p, "torn")
            \/ e # Torn /\ e.verdict \in Unverifiable /\ Rejects(p, "unverifiable")
            \/ e # Torn /\ e.tool # ToolOf[p] /\ Rejects(p, "tool")
            \/ /\ e # Torn /\ e.verdict \notin Unverifiable /\ e.tool = ToolOf[p]
               /\ pc'[p] = "publish" /\ case'[p] = case[p] /\ rows'[p] = rows[p]
               /\ why'[p] = why[p] /\ verdict'[p] = [verdict |-> e.verdict, evaluation |-> e]
               /\ UNCHANGED files
<1> DEFINE e == evaluation[case[p]]
           x == [verdict |-> e.verdict, evaluation |-> e]
<1>1. CASE /\ e # Torn /\ e.verdict \notin Unverifiable /\ e.tool = ToolOf[p]
           /\ verdict' = [verdict EXCEPT ![p] = x] /\ Goto(p, "publish")
           /\ UNCHANGED <<case, rows, why>>
  <2>1. x \in Outcomes
    BY <1>1, ReceiptsAreOutcomes
  <2>2. pc' = [pc EXCEPT ![p] = "publish"]
    BY <1>1 DEF Goto
  <2> HIDE DEF x
  <2>3. LocalType'
    BY <1>1, <2>1, <2>2 DEF LocalType, Labels
  <2>4. Alike(p) /\ pc'[p] = "publish" /\ verdict'[p] = x
    BY <1>1, <2>2 DEF LocalType, Alike
  <2> QED BY <1>1, <2>3, <2>4 DEF VerifyEvaluation, x
<1>2. ASSUME NEW reason \in {"torn", "unverifiable", "tool"}, Reject(p, reason)
      PROVE  LocalType' /\ Alike(p) /\ Rejects(p, reason)
  BY <1>2, RejectOf DEF Rejects, Reasons, VerifyEvaluation
<1> QED BY <1>1, <1>2 DEF VerifyEvaluation

LEMMA ComparePublicEffect ==
  ASSUME LocalType, NEW p \in Evaluators, ComparePublic(p)
  PROVE  /\ LocalType' /\ Alike(p) /\ pc[p] = "publish"
         /\ LET there == public[case[p]] IN
            \/ there = NoFile /\ GoesOn(p, "create_public")
            \/ there = Public(p, verdict[p]) /\ Finishes(p) /\ UNCHANGED files
            \/ there = Torn /\ Rejects(p, "torn")
            \/ /\ Whole(there) /\ there # Public(p, verdict[p])
               /\ Rejects(p, "differs")
BY RejectOf, ContinueOf, NextCaseOf
DEF ComparePublic, GoesOn, Same, Rejects, Finishes, Labels, Reasons, Whole

LEMMA CreatePublicEffect ==
  ASSUME LocalType, NEW p \in Evaluators, CreatePublic(p)
  PROVE  /\ LocalType' /\ Alike(p) /\ pc[p] = "create_public"
         /\ \/ public[case[p]] # NoFile /\ Rejects(p, "exists")
            \/ /\ public[case[p]] = NoFile /\ pc'[p] = "fill_public" /\ Same(p)
               /\ public' = [public EXCEPT ![case[p]] = Torn]
               /\ UNCHANGED <<evaluation, aggregate>>
BY RejectOf, ContinueOf
DEF CreatePublic, Same, Rejects, Labels, Reasons, files

LEMMA FillPublicEffect ==
  ASSUME LocalType, NEW p \in Evaluators, FillPublic(p)
  PROVE  /\ LocalType' /\ Alike(p) /\ pc[p] = "fill_public" /\ Finishes(p)
         /\ public' = [public EXCEPT ![case[p]] = Public(p, verdict[p])]
         /\ UNCHANGED <<evaluation, aggregate>>
BY NextCaseOf DEF FillPublic, Finishes

LEMMA CompareAggregateEffect ==
  ASSUME LocalType, NEW p \in Evaluators, CompareAggregate(p)
  PROVE  /\ LocalType' /\ Alike(p) /\ pc[p] = "aggregate"
         /\ \/ aggregate = NoFile /\ GoesOn(p, "create_aggregate")
            \/ aggregate = Aggregate(p, rows[p]) /\ GoesOn(p, "verify_set")
            \/ aggregate = Torn /\ Rejects(p, "torn")
            \/ /\ Whole(aggregate) /\ aggregate # Aggregate(p, rows[p])
               /\ Rejects(p, "differs")
BY RejectOf, ContinueOf DEF CompareAggregate, GoesOn, Same, Rejects, Labels, Reasons, Whole

LEMMA CreateAggregateEffect ==
  ASSUME LocalType, NEW p \in Evaluators, CreateAggregate(p)
  PROVE  /\ LocalType' /\ Alike(p) /\ pc[p] = "create_aggregate"
         /\ \/ aggregate # NoFile /\ Rejects(p, "exists")
            \/ /\ aggregate = NoFile /\ pc'[p] = "fill_aggregate" /\ Same(p)
               /\ aggregate' = Torn /\ UNCHANGED <<evaluation, public>>
BY RejectOf, ContinueOf
DEF CreateAggregate, Same, Rejects, Labels, Reasons, files

LEMMA FillAggregateEffect ==
  ASSUME LocalType, NEW p \in Evaluators, FillAggregate(p)
  PROVE  /\ LocalType' /\ Alike(p) /\ pc[p] = "fill_aggregate"
         /\ pc'[p] = "verify_set" /\ Same(p)
         /\ aggregate' = Aggregate(p, rows[p]) /\ UNCHANGED <<evaluation, public>>
BY ContinueOf DEF FillAggregate, Same, Labels

LEMMA VerifySetEffect ==
  ASSUME LocalType, NEW p \in Evaluators, VerifySet(p)
  PROVE  /\ LocalType' /\ Alike(p) /\ pc[p] = "verify_set"
         /\ \/ SetVerifies /\ GoesOn(p, "done")
            \/ ~SetVerifies /\ Rejects(p, "set")
BY RejectOf, ContinueOf DEF VerifySet, GoesOn, Same, Rejects, Labels, Reasons

LEMMA StartEffect ==
  ASSUME LocalType, NEW p \in Evaluators, Start(p)
  PROVE  /\ LocalType' /\ Alike(p) /\ AtRest(p) /\ pc'[p] = "look" /\ Forgotten(p)
         /\ why'[p] = "none" /\ UNCHANGED files
<1>1. 1 \in Cases
  BY EvaluationAssumption DEF Cases
<1>2. /\ pc' = [pc EXCEPT ![p] = "look"] /\ case' = [case EXCEPT ![p] = 1]
      /\ verdict' = [verdict EXCEPT ![p] = Nothing] /\ rows' = [rows EXCEPT ![p] = << >>]
      /\ why' = [why EXCEPT ![p] = "none"]
  BY DEF Start, Goto, ForgetRun
<1>3. LocalType'
  BY <1>1, <1>2, NothingIsOutcome DEF LocalType, Labels, Reasons
<1> QED BY <1>2, <1>3 DEF LocalType, Alike, Forgotten, Start

LEMMA CrashEffect ==
  ASSUME LocalType, NEW p \in Evaluators, Crash(p)
  PROVE  /\ LocalType' /\ Alike(p) /\ ~AtRest(p) /\ pc'[p] = "idle" /\ Forgotten(p)
         /\ why'[p] = why[p] /\ UNCHANGED files /\ UNCHANGED alone
<1>1. 1 \in Cases
  BY EvaluationAssumption DEF Cases
<1>2. /\ pc' = [pc EXCEPT ![p] = "idle"] /\ case' = [case EXCEPT ![p] = 1]
      /\ verdict' = [verdict EXCEPT ![p] = Nothing] /\ rows' = [rows EXCEPT ![p] = << >>]
      /\ why' = why
  BY DEF Crash, Goto, ForgetRun
<1>3. LocalType'
  BY <1>1, <1>2, NothingIsOutcome DEF LocalType, Labels
<1> QED BY <1>2, <1>3 DEF LocalType, Alike, Forgotten, Crash

-----------------------------------------------------------------------------
(* What happens to the files *)

Filling == {"fill_evaluation", "fill_public", "fill_aggregate"}

\* A step creates a file, fills the one the process created, or leaves them alone.
FileMoves(p) ==
    \/ UNCHANGED files /\ pc'[p] \notin Filling
    \/ /\ evaluation[case[p]] = NoFile /\ pc'[p] = "fill_evaluation" /\ case'[p] = case[p]
       /\ evaluation' = [evaluation EXCEPT ![case[p]] = Torn]
       /\ UNCHANGED <<public, aggregate>>
    \/ /\ pc[p] = "fill_evaluation" /\ pc'[p] \notin Filling
       /\ evaluation' = [evaluation EXCEPT ![case[p]] = Evaluation(p, verdict[p].verdict)]
       /\ UNCHANGED <<public, aggregate>>
    \/ /\ public[case[p]] = NoFile /\ pc'[p] = "fill_public" /\ case'[p] = case[p]
       /\ public' = [public EXCEPT ![case[p]] = Torn]
       /\ UNCHANGED <<evaluation, aggregate>>
    \/ /\ pc[p] = "fill_public" /\ pc'[p] \notin Filling
       /\ public' = [public EXCEPT ![case[p]] = Public(p, verdict[p])]
       /\ UNCHANGED <<evaluation, aggregate>>
    \/ /\ aggregate = NoFile /\ pc'[p] = "fill_aggregate"
       /\ aggregate' = Torn /\ UNCHANGED <<evaluation, public>>
    \/ /\ pc[p] = "fill_aggregate" /\ pc'[p] \notin Filling
       /\ aggregate' = Aggregate(p, rows[p]) /\ UNCHANGED <<evaluation, public>>

LEMMA LocalTypeOf == TypeOK => LocalType
BY DEF TypeOK, LocalType, Labels, Outcomes

LEMMA VerifyFile ==
  ASSUME SetInv, NEW p \in Evaluators, VerifyEvaluation(p)
  PROVE  evaluation[case[p]] \in {Torn} \cup Receipts
<1>1. evaluation[case[p]] # NoFile
  BY DEF SetInv, KnowInv, VerifyEvaluation
<1>2. evaluation[case[p]] \in EvaluationFiles
  BY DEF SetInv, TypeOK
<1> QED BY <1>1, <1>2 DEF EvaluationFiles

LEMMA FileMovesOf ==
  ASSUME SetInv, NEW p \in Evaluators, Step(p)
  PROVE  LocalType' /\ Alike(p) /\ FileMoves(p)
<1> USE DEF FileMoves, Filling
<1>0. LocalType
  BY LocalTypeOf DEF SetInv
<1>1. CASE Start(p)
  BY <1>0, <1>1, StartEffect
<1>2. CASE Crash(p)
  BY <1>0, <1>2, CrashEffect
<1>3. CASE LookForEvaluation(p)
  BY <1>0, <1>3, LookEffect DEF GoesOn, Rejects
<1>4. CASE LookForPublic(p)
  BY <1>0, <1>4, PublicLookEffect DEF GoesOn, Rejects
<1>5. CASE Evaluate(p)
  BY <1>0, <1>5, EvaluateEffect DEF GoesOn, Rejects
<1>6. CASE CreateEvaluation(p)
  BY <1>0, <1>6, CreateEvaluationEffect DEF Same, Rejects
<1>7. CASE FillEvaluation(p)
  BY <1>0, <1>7, FillEvaluationEffect
<1>8. CASE VerifyEvaluation(p)
  BY <1>0, <1>8, VerifyEffect, VerifyFile DEF Rejects
<1>9. CASE ComparePublic(p)
  BY <1>0, <1>9, ComparePublicEffect DEF GoesOn, Rejects, Finishes
<1>10. CASE CreatePublic(p)
  BY <1>0, <1>10, CreatePublicEffect DEF Same, Rejects
<1>11. CASE FillPublic(p)
  BY <1>0, <1>11, FillPublicEffect DEF Finishes
<1>12. CASE CompareAggregate(p)
  BY <1>0, <1>12, CompareAggregateEffect DEF GoesOn, Rejects
<1>13. CASE CreateAggregate(p)
  BY <1>0, <1>13, CreateAggregateEffect DEF Same, Rejects
<1>14. CASE FillAggregate(p)
  BY <1>0, <1>14, FillAggregateEffect
<1>15. CASE VerifySet(p)
  BY <1>0, <1>15, VerifySetEffect DEF GoesOn, Rejects
<1> QED
  BY <1>1, <1>2, <1>3, <1>4, <1>5, <1>6, <1>7, <1>8, <1>9, <1>10, <1>11, <1>12, <1>13,
     <1>14, <1>15 DEF Step, Run

\* A file that is whole stays what it is, and none goes away.
Grown ==
    /\ \A c \in Cases :
          /\ Whole(evaluation[c]) => evaluation'[c] = evaluation[c]
          /\ evaluation[c] # NoFile => evaluation'[c] # NoFile
          /\ Whole(public[c]) => public'[c] = public[c]
          /\ public[c] # NoFile => public'[c] # NoFile
    /\ Whole(aggregate) => aggregate' = aggregate
    /\ aggregate # NoFile => aggregate' # NoFile

\* What a process fills the files with.
LEMMA Contents ==
  ASSUME SetInv, NEW p \in Evaluators
  PROVE  /\ pc[p] = "fill_evaluation"
              => /\ Evaluation(p, verdict[p].verdict) \in Receipts
                 /\ Whole(Evaluation(p, verdict[p].verdict))
         /\ Public(p, verdict[p]) \in PublicReceipts /\ Whole(Public(p, verdict[p]))
         /\ Aggregate(p, rows[p]) \in Aggregates /\ Whole(Aggregate(p, rows[p]))
<1>1. LocalType
  BY LocalTypeOf DEF SetInv
<1>2. verdict[p] \in Outcomes /\ rows[p] \in Seq(PublicReceipts)
  BY <1>1 DEF LocalType
<1>3. pc[p] = "fill_evaluation" => verdict[p].verdict \in Verdicts
  BY DEF SetInv, KnowInv
<1> QED BY <1>2, <1>3, ReceiptIsWhole, PublicIsWhole, AggregateIsWhole

LEMMA FilesGrow ==
  ASSUME SetInv, NEW p \in Evaluators, FileMoves(p)
  PROVE  /\ Grown
         /\ evaluation' \in [Cases -> EvaluationFiles]
         /\ public' \in [Cases -> PublicReceipts \cup {NoFile, Torn}]
         /\ aggregate' \in Aggregates \cup {NoFile, Torn}
<1>1. /\ evaluation \in [Cases -> EvaluationFiles]
      /\ public \in [Cases -> PublicReceipts \cup {NoFile, Torn}]
      /\ aggregate \in Aggregates \cup {NoFile, Torn}
      /\ case[p] \in Cases /\ NoFile # Torn
  BY EvaluationAssumption DEF SetInv, TypeOK
<1>2. /\ pc[p] = "fill_evaluation" => evaluation[case[p]] = Torn
      /\ pc[p] = "fill_public" => public[case[p]] = Torn
      /\ pc[p] = "fill_aggregate" => aggregate = Torn
  BY DEF SetInv, FillInv
<1>3. CASE UNCHANGED files
  BY <1>1, <1>3 DEF files, Grown
<1>4. CASE evaluation' # evaluation /\ UNCHANGED <<public, aggregate>>
  <2>1. PICK e \in EvaluationFiles :
          /\ evaluation' = [evaluation EXCEPT ![case[p]] = e]
          /\ ~Whole(evaluation[case[p]]) /\ e # NoFile
    BY <1>1, <1>2, <1>4, Contents DEF FileMoves, EvaluationFiles, Whole, files
  <2> QED BY <1>1, <1>4, <2>1 DEF Grown
<1>5. CASE public' # public /\ UNCHANGED <<evaluation, aggregate>>
  <2>1. PICK f \in PublicReceipts \cup {Torn} :
          /\ public' = [public EXCEPT ![case[p]] = f]
          /\ ~Whole(public[case[p]]) /\ f # NoFile
    BY <1>1, <1>2, <1>5, Contents DEF FileMoves, Whole, files
  <2> QED BY <1>1, <1>5, <2>1 DEF Grown
<1>6. CASE aggregate' # aggregate /\ UNCHANGED <<evaluation, public>>
  <2>1. /\ aggregate' \in Aggregates \cup {Torn} /\ aggregate' # NoFile
        /\ ~Whole(aggregate)
    BY <1>1, <1>2, <1>6, Contents DEF FileMoves, Whole, files
  <2> QED BY <1>1, <1>6, <2>1 DEF Grown
<1> QED BY <1>3, <1>4, <1>5, <1>6 DEF FileMoves, files

LEMMA TypeStep ==
  ASSUME SetInv, NEW p \in Evaluators, Step(p)
  PROVE  TypeOK'
<1>1. LocalType' /\ FileMoves(p)
  BY FileMovesOf
<1>2. CASE Start(p)
  <2> DEFINE A(q) == IF q = p THEN \A o \in Evaluators \ {p} : AtRest(o) ELSE AtRest(q)
  <2>1. ASSUME NEW q PROVE A(q) \in BOOLEAN
    <3>1. CASE q = p
      BY <3>1, Zenon
    <3>2. CASE q # p
      <4>1. AtRest(q) \in BOOLEAN
        BY SMT DEF AtRest
      <4> QED BY <3>2, <4>1, Zenon
    <3> QED BY <3>1, <3>2
  <2>2. alone' = [q \in Evaluators |-> A(q)]
    BY <1>2 DEF Start
  <2> HIDE DEF A
  <2>3. alone' \in [Evaluators -> BOOLEAN]
    BY <2>1, <2>2
  <2> QED BY <1>1, <2>3, FilesGrow DEF LocalType, TypeOK, Labels, Outcomes
<1>3. CASE UNCHANGED alone
  <2>1. alone' \in [Evaluators -> BOOLEAN]
    BY <1>3 DEF SetInv, TypeOK
  <2> QED BY <1>1, <2>1, FilesGrow DEF LocalType, TypeOK, Labels, Outcomes
<1> QED BY <1>2, <1>3 DEF Step, Crash

\* Who creates a file is the one that fills it.
LEMMA FillStep ==
  ASSUME SetInv, NEW p \in Evaluators, Step(p)
  PROVE  FillInv'
<1>1. LocalType' /\ Alike(p) /\ FileMoves(p)
  BY FileMovesOf
<1>2. /\ evaluation \in [Cases -> EvaluationFiles]
      /\ public \in [Cases -> PublicReceipts \cup {NoFile, Torn}]
      /\ case \in [Evaluators -> Cases] /\ NoFile # Torn
  BY EvaluationAssumption DEF SetInv, TypeOK
<1>3. ASSUME NEW q \in Evaluators
      PROVE  /\ pc'[q] = "fill_evaluation" => evaluation'[case'[q]] = Torn
             /\ pc'[q] = "fill_public" => public'[case'[q]] = Torn
             /\ pc'[q] = "fill_aggregate" => aggregate' = Torn
  <2>1. CASE q = p
    BY <1>1, <1>2, <2>1 DEF FileMoves, Filling
  <2>2. CASE q # p
    <3>1. pc'[q] = pc[q] /\ case'[q] = case[q]
      BY <1>1, <2>2 DEF Alike
    <3> QED BY <1>1, <1>2, <2>2, <3>1 DEF SetInv, FillInv, FileMoves, Filling, files
  <2> QED BY <2>1, <2>2
<1>4. ASSUME NEW q \in Evaluators, q # p
      PROVE  /\ ~(pc'[p] = "fill_evaluation" /\ pc'[q] = "fill_evaluation"
                    /\ case'[p] = case'[q])
             /\ ~(pc'[p] = "fill_public" /\ pc'[q] = "fill_public" /\ case'[p] = case'[q])
             /\ ~(pc'[p] = "fill_aggregate" /\ pc'[q] = "fill_aggregate")
  <2>1. pc'[q] = pc[q] /\ case'[q] = case[q]
    BY <1>1, <1>4 DEF Alike
  <2> QED BY <1>1, <1>2, <2>1 DEF SetInv, FillInv, FileMoves, Filling
<1>5. ASSUME NEW q \in Evaluators, NEW o \in Evaluators, q # p, o # p
      PROVE  /\ pc'[q] = pc[q] /\ case'[q] = case[q] /\ pc'[o] = pc[o] /\ case'[o] = case[o]
  BY <1>1, <1>5 DEF Alike
<1> QED BY <1>3, <1>4, <1>5 DEF SetInv, FillInv

-----------------------------------------------------------------------------
(* What a process knows stays true *)

LEMMA KnowsOn ==
  ASSUME SetInv, Grown, NEW q \in Evaluators, pc'[q] = pc[q], case'[q] = case[q],
         verdict'[q] = verdict[q], rows'[q] = rows[q]
  PROVE  KnowInv(q)'
<1>1. KnowInv(q) /\ case[q] \in Cases /\ rows[q] \in Seq(PublicReceipts)
  BY DEF SetInv, TypeOK
<1>2. RowsArePublic(q)'
  BY <1>1 DEF KnowInv, RowsArePublic, Grown
<1>3. Knows(q) => Knows(q)'
  BY <1>1 DEF Knows, Grown
<1>4. pc[q] = "verify_set" => aggregate' = aggregate
  BY <1>1, Contents DEF KnowInv, Grown
<1>5. pc[q] = "verify" => evaluation'[case[q]] # NoFile
  BY <1>1 DEF KnowInv, Grown
<1> QED BY <1>1, <1>2, <1>3, <1>4, <1>5 DEF KnowInv

\* A process that forgot its run knows nothing that could be wrong.
LEMMA ForgetKnows ==
  ASSUME NEW p \in Evaluators, Forgotten(p), pc'[p] \in {"idle", "rejected", "look"}
  PROVE  KnowInv(p)'
<1>1. Len(<< >>) = 0 /\ DOMAIN << >> = {}
  OBVIOUS
<1>2. RowsArePublic(p)'
  BY <1>1 DEF Forgotten, RowsArePublic
<1> QED BY <1>1, <1>2 DEF KnowInv, Forgotten, AtCase, AtEnd, AtOutput

LEMMA RowsOn ==
  ASSUME SetInv, Grown, NEW p \in Evaluators, rows'[p] = rows[p]
  PROVE  RowsArePublic(p)'
BY DEF SetInv, KnowInv, RowsArePublic, Grown

\* A case is done: what was published of it is a row more.
LEMMA FinishKnows ==
  ASSUME SetInv, Grown, NEW p \in Evaluators, pc[p] \in {"publish", "fill_public"},
         Finishes(p), public'[case[p]] = Public(p, verdict[p])
  PROVE  KnowInv(p)'
<1>1. /\ case[p] \in Cases /\ rows[p] \in Seq(PublicReceipts) /\ Len(rows[p]) = case[p] - 1
      /\ RowsArePublic(p)
  BY DEF SetInv, TypeOK, KnowInv, AtCase
<1>2. /\ Public(p, verdict[p]) \in PublicReceipts /\ Whole(Public(p, verdict[p]))
      /\ Public(p, verdict[p]).tool = ToolOf[p]
  BY PublicIsWhole, LocalTypeOf DEF SetInv, LocalType
<1>3. case[p] \in Nat /\ NumCases \in Nat
  BY <1>1, EvaluationAssumption DEF Cases
<1>4. /\ rows'[p] = Append(rows[p], Public(p, verdict[p])) /\ Len(rows'[p]) = case[p]
      /\ DOMAIN rows'[p] = 1 .. case[p]
      /\ \A d \in 1 .. case[p] - 1 : rows'[p][d] = rows[p][d]
      /\ rows'[p][case[p]] = Public(p, verdict[p])
  BY <1>1, <1>2, <1>3 DEF Finishes
<1>5. \A d \in 1 .. case[p] - 1 :
         d \in Cases /\ Whole(public'[d]) /\ rows[p][d] = public'[d]
         /\ public'[d].tool = ToolOf[p]
  BY <1>1, <1>3 DEF RowsArePublic, Grown
<1>6. RowsArePublic(p)'
  BY <1>1, <1>2, <1>3, <1>4, <1>5 DEF RowsArePublic
<1>7. \/ case'[p] = case[p] + 1 /\ pc'[p] = "look" /\ verdict'[p] = Nothing
      \/ case[p] = NumCases /\ pc'[p] = "aggregate"
  BY DEF Finishes
<1> QED BY <1>3, <1>4, <1>6, <1>7 DEF KnowInv, AtCase, AtEnd, AtOutput

LEMMA KnowStep ==
  ASSUME SetInv, NEW p \in Evaluators, Step(p)
  PROVE  \A q \in Evaluators : KnowInv(q)'
<1>1. LocalType /\ LocalType' /\ Alike(p) /\ FileMoves(p)
  BY FileMovesOf, LocalTypeOf DEF SetInv
<1>2. Grown
  BY <1>1, FilesGrow
<1>3. ASSUME NEW q \in Evaluators, q # p PROVE KnowInv(q)'
  BY <1>1, <1>2, <1>3, KnowsOn DEF Alike
<1>4. KnowInv(p) /\ case[p] \in Cases
  BY DEF SetInv, TypeOK
<1>5. KnowInv(p)'
  <2> USE DEF AtCase, AtEnd, AtOutput
  <2>1. CASE Start(p)
    BY <1>1, <2>1, StartEffect, ForgetKnows
  <2>2. CASE Crash(p)
    BY <1>1, <2>2, CrashEffect, ForgetKnows
  <2>0. ASSUME NEW reason, Rejects(p, reason) PROVE KnowInv(p)'
    BY <2>0, ForgetKnows DEF Rejects
  <2>00. rows'[p] = rows[p] => RowsArePublic(p)'
    BY <1>2, RowsOn
  <2>3. CASE LookForEvaluation(p)
    BY <1>1, <1>4, <2>0, <2>00, <2>3, LookEffect DEF GoesOn, Same, KnowInv, Knows, files
  <2>4. CASE LookForPublic(p)
    BY <1>1, <1>4, <2>0, <2>00, <2>4, PublicLookEffect DEF GoesOn, Same, KnowInv
  <2>5. CASE Evaluate(p)
    BY <1>1, <1>4, <2>0, <2>00, <2>5, EvaluateEffect DEF KnowInv
  <2>6. CASE CreateEvaluation(p)
    BY <1>1, <1>4, <2>0, <2>00, <2>6, CreateEvaluationEffect DEF Same, KnowInv
  <2>7. CASE FillEvaluation(p)
    <3>1. evaluation'[case[p]] # NoFile
      BY <1>1, <1>4, <2>7, FillEvaluationEffect, Contents DEF SetInv, TypeOK, Whole
    <3> QED BY <1>1, <1>4, <2>00, <2>7, <3>1, FillEvaluationEffect DEF Same, KnowInv
  <2>8. CASE VerifyEvaluation(p)
    <3>1. CASE \E reason : Rejects(p, reason)
      BY <2>0, <3>1
    <3>2. CASE /\ pc'[p] = "publish" /\ case'[p] = case[p] /\ rows'[p] = rows[p]
               /\ UNCHANGED files
      <4>1. evaluation[case[p]] \in {Torn} \cup Receipts
        BY <2>8, VerifyFile
      <4>2. LET e == evaluation[case[p]] IN
            /\ Whole(e) /\ e.verdict \notin Unverifiable /\ e.tool = ToolOf[p]
            /\ verdict'[p] = [verdict |-> e.verdict, evaluation |-> e]
        BY <1>1, <2>8, <3>2, <4>1, VerifyEffect, ReceiptsAreOutcomes DEF Rejects
      <4>3. Knows(p)'
        BY <1>1, <1>4, <2>8, <3>2, <4>2, VerifyEffect, <4>1 DEF Knows, KnowInv, files
      <4> QED BY <1>4, <2>00, <2>8, <3>2, <4>3, VerifyEffect, <4>1, <1>1 DEF KnowInv
    <3> QED BY <1>1, <2>8, <3>1, <3>2, VerifyEffect, VerifyFile
  <2>9. CASE ComparePublic(p)
    <3>1. CASE Finishes(p) /\ public[case[p]] = Public(p, verdict[p]) /\ UNCHANGED files
      BY <1>1, <1>2, <2>9, <3>1, ComparePublicEffect, FinishKnows DEF files
    <3>2. CASE GoesOn(p, "create_public")
      BY <1>1, <1>4, <2>00, <2>9, <3>2, ComparePublicEffect
      DEF GoesOn, Same, KnowInv, Knows, files
    <3> QED BY <1>1, <2>0, <2>9, <3>1, <3>2, ComparePublicEffect
  <2>10. CASE CreatePublic(p)
    BY <1>1, <1>4, <2>0, <2>00, <2>10, CreatePublicEffect DEF Same, KnowInv, Knows
  <2>11. CASE FillPublic(p)
    <3>1. public'[case[p]] = Public(p, verdict[p])
      BY <1>1, <1>4, <2>11, FillPublicEffect DEF SetInv, TypeOK
    <3> QED BY <1>1, <1>2, <2>11, <3>1, FillPublicEffect, FinishKnows
  <2>12. CASE CompareAggregate(p)
    BY <1>1, <1>4, <2>0, <2>00, <2>12, CompareAggregateEffect DEF GoesOn, Same, KnowInv, files
  <2>13. CASE CreateAggregate(p)
    BY <1>1, <1>4, <2>0, <2>00, <2>13, CreateAggregateEffect DEF Same, KnowInv
  <2>14. CASE FillAggregate(p)
    BY <1>1, <1>4, <2>00, <2>14, FillAggregateEffect DEF Same, KnowInv
  <2>15. CASE VerifySet(p)
    BY <1>1, <1>4, <2>0, <2>00, <2>15, VerifySetEffect DEF GoesOn, Same, KnowInv
  <2> QED
    BY <2>1, <2>2, <2>3, <2>4, <2>5, <2>6, <2>7, <2>8, <2>9, <2>10, <2>11, <2>12, <2>13,
       <2>14, <2>15 DEF Step, Run
<1> QED BY <1>3, <1>5

-----------------------------------------------------------------------------
(* What is published *)

\* The rows of a process that has been through all the cases are what is public.
LEMMA RowsOfAll ==
  ASSUME SetInv, NEW p \in Evaluators, pc[p] \in AtEnd
  PROVE  /\ rows[p] = public /\ DOMAIN public = Cases
         /\ \A c \in Cases : Whole(public[c]) /\ public[c].tool = ToolOf[p]
<1>1. rows[p] \in Seq(PublicReceipts) /\ Len(rows[p]) = NumCases /\ RowsArePublic(p)
  BY DEF SetInv, TypeOK, KnowInv
<1>2. DOMAIN rows[p] = Cases /\ rows[p] = [d \in Cases |-> rows[p][d]]
  BY <1>1, EvaluationAssumption DEF Cases
<1>3. public = [d \in Cases |-> public[d]] /\ DOMAIN public = Cases
  BY DEF SetInv, TypeOK
<1>4. \A d \in Cases : rows[p][d] = public[d]
  BY <1>1, <1>2 DEF RowsArePublic
<1> QED BY <1>1, <1>2, <1>3, <1>4 DEF RowsArePublic

LEMMA FileStep ==
  ASSUME SetInv, NEW p \in Evaluators, Step(p)
  PROVE  FileInv'
<1>1. LocalType /\ FileMoves(p)
  BY FileMovesOf, LocalTypeOf DEF SetInv
<1>2. Grown
  BY <1>1, FilesGrow
<1>3. /\ evaluation \in [Cases -> EvaluationFiles]
      /\ public \in [Cases -> PublicReceipts \cup {NoFile, Torn}]
      /\ case[p] \in Cases /\ KnowInv(p)
  BY DEF SetInv, TypeOK
<1>4. ASSUME NEW c \in Cases PROVE ReceiptInv(c)'
  <2>1. CASE evaluation'[c] = evaluation[c]
    BY <2>1 DEF SetInv, FileInv, ReceiptInv
  <2>2. CASE evaluation'[c] # evaluation[c] /\ Whole(evaluation'[c])
    <3>1. /\ pc[p] = "fill_evaluation" /\ c = case[p]
          /\ evaluation'[c] = Evaluation(p, verdict[p].verdict)
      BY <1>1, <1>3, <2>2 DEF FileMoves, files, Whole
    <3>2. verdict[p].verdict \in Verdicts /\ c \notin Unparsable[p]
      BY <1>3, <3>1 DEF KnowInv, AtOutput
    <3> QED BY <3>1, <3>2, ReceiptIsWhole DEF ReceiptInv
  <2> QED BY <2>1, <2>2 DEF ReceiptInv
<1>5. ASSUME NEW c \in Cases PROVE PublicInv(c)'
  <2>1. CASE public'[c] = public[c]
    <3> SUFFICES ASSUME Whole(public[c]) PROVE PublicInv(c)'
      BY <2>1 DEF PublicInv
    <3>1. PublicInv(c)
      BY DEF SetInv, FileInv
    <3>2. public[c].evaluation # NoFile => evaluation'[c] = evaluation[c]
      BY <1>2, <3>1 DEF PublicInv, CaseIsEvaluated, Grown, Whole
    <3> QED BY <2>1, <3>1, <3>2 DEF PublicInv, CaseIsEvaluated
  <2>2. CASE public'[c] # public[c] /\ Whole(public'[c])
    <3>1. /\ pc[p] = "fill_public" /\ c = case[p] /\ evaluation' = evaluation
          /\ public'[c] = Public(p, verdict[p])
      BY <1>1, <1>3, <2>2 DEF FileMoves, files, Whole
    <3>2. Knows(p) /\ verdict[p] \in Outcomes
      BY <1>1, <1>3, <3>1 DEF KnowInv, LocalType
    <3>3. /\ public'[c].tool = ToolOf[p] /\ public'[c].verdict = verdict[p].verdict
          /\ public'[c].evaluation = verdict[p].evaluation
      BY <3>1, <3>2, PublicIsWhole
    <3>4. CASE c \in Unparsable[p]
      <4>1. verdict[p].verdict = Rejected /\ verdict[p].evaluation = NoFile
        BY <3>1, <3>2, <3>4 DEF Knows, Nothing
      <4> QED BY <3>3, <3>4, <4>1 DEF PublicInv, CaseIsEvaluated
    <3>5. CASE c \notin Unparsable[p]
      <4>1. /\ verdict[p].evaluation = evaluation[c] /\ Whole(evaluation[c])
            /\ verdict[p].verdict = evaluation[c].verdict
            /\ evaluation[c].verdict \notin Unverifiable /\ evaluation[c].tool = ToolOf[p]
        BY <3>1, <3>2, <3>5 DEF Knows
      <4> QED BY <3>1, <3>3, <4>1 DEF PublicInv, CaseIsEvaluated, Whole
    <3> QED BY <3>4, <3>5
  <2> QED BY <2>1, <2>2 DEF PublicInv
<1>6. AggregateInv'
  <2>1. CASE aggregate' = aggregate
    <3> SUFFICES ASSUME Whole(aggregate) PROVE AggregateInv'
      BY <2>1 DEF AggregateInv
    <3>1. PICK o \in Evaluators :
            /\ \A c \in Cases : Whole(public[c]) /\ public[c].tool = ToolOf[o]
            /\ aggregate = Aggregate(o, public)
      BY DEF SetInv, FileInv, AggregateInv
    <3>2. \A c \in Cases : public'[c] = public[c]
      BY <1>2, <3>1 DEF Grown
    <3>3. public' = public
      BY <1>1, <1>3, <3>2, FilesGrow
    <3> QED BY <2>1, <3>1, <3>3 DEF AggregateInv
  <2>2. CASE aggregate' # aggregate /\ Whole(aggregate')
    <3>1. /\ pc[p] = "fill_aggregate" /\ aggregate' = Aggregate(p, rows[p])
          /\ public' = public
      BY <1>1, <2>2 DEF FileMoves, files, Whole
    <3>2. /\ rows[p] = public
          /\ \A c \in Cases : Whole(public[c]) /\ public[c].tool = ToolOf[p]
      BY <3>1, RowsOfAll DEF AtEnd
    <3> QED BY <3>1, <3>2 DEF AggregateInv
  <2> QED BY <2>1, <2>2 DEF AggregateInv
<1> QED BY <1>4, <1>5, <1>6 DEF FileInv

-----------------------------------------------------------------------------
(* The first theorems *)

LEMMA SetInit == Init => SetInv
<1> SUFFICES ASSUME Init PROVE SetInv
  OBVIOUS
<1>1. 1 \in Cases /\ << >> \in Seq(PublicReceipts) /\ NoFile # Torn
  BY EvaluationAssumption DEF Cases
<1>2. TypeOK
  BY <1>1, NothingIsOutcome DEF Init, TypeOK, Reasons, Outcomes, EvaluationFiles
<1>3. FillInv
  BY DEF Init, FillInv
<1>4. ASSUME NEW p \in Evaluators PROVE KnowInv(p)
  <2>1. RowsArePublic(p)
    BY DEF Init, RowsArePublic
  <2> QED BY <2>1 DEF Init, KnowInv, AtCase, AtEnd, AtOutput
<1>5. FileInv
  BY DEF Init, FileInv, ReceiptInv, PublicInv, AggregateInv, Whole
<1> QED BY <1>2, <1>3, <1>4, <1>5 DEF SetInv

LEMMA SetStep == SetInv /\ [Next]_vars => SetInv'
<1> SUFFICES ASSUME SetInv, [Next]_vars PROVE SetInv'
  OBVIOUS
<1>1. CASE Next
  <2>1. PICK p \in Evaluators : Step(p)
    BY <1>1 DEF Next, Step
  <2> QED BY <2>1, TypeStep, FillStep, KnowStep, FileStep DEF SetInv
<1>2. CASE UNCHANGED vars
  <2> USE <1>2 DEF vars, files, local
  <2>1. TypeOK'
    BY DEF SetInv, TypeOK
  <2>2. FillInv'
    BY DEF SetInv, FillInv
  <2>3. Grown
    BY DEF Grown
  <2>4. \A q \in Evaluators : KnowInv(q)'
    BY <2>3, KnowsOn
  <2>5. FileInv'
    BY DEF SetInv, FileInv, ReceiptInv, PublicInv, CaseIsEvaluated, AggregateInv
  <2> QED BY <2>1, <2>2, <2>4, <2>5 DEF SetInv
<1> QED BY <1>1, <1>2

LEMMA SetHolds == Spec => []SetInv
BY SetInit, SetStep, PTL DEF Spec

\* Every file, and what each process holds, is of the expected form.
THEOREM EvaluationTypeCorrect == Spec => []TypeOK
BY SetHolds, PTL DEF SetInv

\* The counts of an aggregate are those of the receipts behind it.
LEMMA CountsAgree ==
  ASSUME SetInv, \A c \in Cases : Whole(public[c])
  PROVE  LET executed == {c \in Cases : public[c].evaluation # NoFile} IN
         /\ {c \in Cases : public[c].verdict # Rejected} = executed
         /\ {c \in Cases : public[c].verdict = Accepting}
              = {c \in executed : evaluation[c].verdict = Accepting}
<1>1. ASSUME NEW c \in Cases
      PROVE  /\ public[c].evaluation = NoFile => public[c].verdict = Rejected
             /\ public[c].evaluation # NoFile =>
                   /\ public[c].verdict = evaluation[c].verdict
                   /\ public[c].verdict \in Verdicts
  <2>1. PublicInv(c) /\ ReceiptInv(c)
    BY DEF SetInv, FileInv
  <2>2. public[c].evaluation # NoFile =>
            evaluation[c] \in Receipts /\ public[c].verdict = evaluation[c].verdict
    BY <2>1 DEF PublicInv, ReceiptInv, CaseIsEvaluated, Whole
  <2> QED BY <2>1, <2>2, ReceiptsAreOutcomes DEF PublicInv, CaseIsEvaluated, Whole
<1>2. Rejected \notin Verdicts /\ Accepting \in Verdicts
  BY EvaluationAssumption
<1> QED BY <1>1, <1>2

\* Everything that is published, from the evaluator's receipt to the aggregate, says
\* what was evaluated, whatever processes run beside each other without a lock.
THEOREM PublishesWhatIsEvaluated == Spec => []PublishedIsEvaluated
<1>1. SetInv => PublishedIsEvaluated
  <2> SUFFICES ASSUME SetInv PROVE PublishedIsEvaluated
    OBVIOUS
  <2>1. ASSUME NEW c \in Cases PROVE CaseIsEvaluated(c)
    <3>1. PublicInv(c)
      BY DEF SetInv, FileInv
    <3> QED BY <3>1 DEF PublicInv, CaseIsEvaluated, Whole
  <2>2. AggregateIsPublic
    <3> SUFFICES ASSUME Whole(aggregate) PROVE AggregateIsPublic
      BY DEF AggregateIsPublic, Whole
    <3>1. PICK o \in Evaluators :
            /\ \A c \in Cases : Whole(public[c]) /\ public[c].tool = ToolOf[o]
            /\ aggregate = Aggregate(o, public)
      BY DEF SetInv, FileInv, AggregateInv
    <3>2. DOMAIN public = Cases
      BY DEF SetInv, TypeOK
    <3>3. /\ aggregate.rows = public /\ aggregate.tool = ToolOf[o]
          /\ aggregate.accepted = Cardinality({c \in Cases : public[c].verdict = Accepting})
          /\ aggregate.executed = Cardinality({c \in Cases : public[c].verdict # Rejected})
      BY <3>1, <3>2 DEF Aggregate
    <3> QED BY <3>1, <3>3, CountsAgree DEF AggregateIsPublic
  <2> QED BY <2>1, <2>2 DEF PublishedIsEvaluated
<1> QED BY <1>1, SetHolds, PTL

\* At the last check everything that is on file fits together.
LEMMA SetVerifiesAtEnd ==
  ASSUME SetInv, NEW p \in Evaluators, pc[p] = "verify_set"
  PROVE  SetVerifies
<1>1. /\ rows[p] = public /\ DOMAIN public = Cases
      /\ \A c \in Cases : Whole(public[c]) /\ public[c].tool = ToolOf[p]
  BY RowsOfAll DEF AtEnd
<1>2. aggregate = Aggregate(p, public) /\ Whole(aggregate) /\ Len(rows[p]) = NumCases
  BY <1>1, Contents DEF SetInv, KnowInv, AtEnd
<1>3. /\ aggregate.rows = public /\ aggregate.tool = ToolOf[p]
      /\ aggregate.accepted = Cardinality({c \in Cases : public[c].verdict = Accepting})
      /\ aggregate.executed = Cardinality({c \in Cases : public[c].verdict # Rejected})
  BY <1>1, <1>2 DEF Aggregate
<1>4. ASSUME NEW c \in Cases
      PROVE  \/ public[c].evaluation = NoFile /\ public[c].verdict = Rejected
             \/ LET e == public[c].evaluation IN
                   /\ e # NoFile /\ e = evaluation[c]
                   /\ e.verdict \notin Unverifiable
                   /\ e.verdict = public[c].verdict
                   /\ e.tool = public[c].tool /\ e.tool = aggregate.tool
  <2>1. PublicInv(c) /\ Whole(public[c]) /\ public[c].tool = ToolOf[p]
    BY <1>1 DEF SetInv, FileInv
  <2> QED BY <1>3, <2>1 DEF PublicInv, CaseIsEvaluated, Whole
<1> QED BY <1>1, <1>2, <1>3, <1>4 DEF SetVerifies, Whole

\* The last check of a run, which reads everything again from file, never fails:
\* files that each passed the checks of some process fit together.
THEOREM SetStaysVerified == Spec => []SetAlwaysVerifies
<1>1. SetInv => SetAlwaysVerifies
  BY SetVerifiesAtEnd DEF SetAlwaysVerifies
<1> QED BY <1>1, SetHolds, PTL

-----------------------------------------------------------------------------
(* Why a process is rejected *)

LEMMA AbandonedOn ==
  ASSUME SetInv, Abandoned, NEW p \in Evaluators, Alike(p), FileMoves(p)
  PROVE  Abandoned'
<1>1. /\ evaluation \in [Cases -> EvaluationFiles]
      /\ public \in [Cases -> PublicReceipts \cup {NoFile, Torn}]
      /\ case[p] \in Cases /\ NoFile # Torn
  BY EvaluationAssumption DEF SetInv, TypeOK
<1>2. \A q \in Evaluators \ {p} : pc'[q] = pc[q] /\ case'[q] = case[q]
  BY DEF Alike
<1>3. ASSUME NEW c \in Cases, evaluation[c] = Torn,
             \A q \in Evaluators : pc[q] = "fill_evaluation" => case[q] # c
      PROVE  Abandoned'
  <2>1. evaluation'[c] = Torn
    BY <1>1, <1>3 DEF FileMoves, files
  <2>2. ASSUME NEW q \in Evaluators, pc'[q] = "fill_evaluation" PROVE case'[q] # c
    BY <1>1, <1>2, <1>3, <2>2 DEF FileMoves, Filling
  <2> QED BY <2>1, <2>2 DEF Abandoned
<1>4. ASSUME NEW c \in Cases, public[c] = Torn,
             \A q \in Evaluators : pc[q] = "fill_public" => case[q] # c
      PROVE  Abandoned'
  <2>1. public'[c] = Torn
    BY <1>1, <1>4 DEF FileMoves, files
  <2>2. ASSUME NEW q \in Evaluators, pc'[q] = "fill_public" PROVE case'[q] # c
    BY <1>1, <1>2, <1>4, <2>2 DEF FileMoves, Filling
  <2> QED BY <2>1, <2>2 DEF Abandoned
<1>5. ASSUME aggregate = Torn, \A q \in Evaluators : pc[q] # "fill_aggregate"
      PROVE  Abandoned'
  <2>1. aggregate' = Torn
    BY <1>1, <1>5 DEF FileMoves, files
  <2>2. ASSUME NEW q \in Evaluators PROVE pc'[q] # "fill_aggregate"
    BY <1>1, <1>2, <1>5 DEF FileMoves, Filling
  <2> QED BY <2>1, <2>2 DEF Abandoned
<1> QED BY <1>3, <1>4, <1>5 DEF Abandoned

\* What explains a rejection stays on file.
LEMMA ExplainsOn ==
  ASSUME SetInv, NEW p \in Evaluators, Alike(p), FileMoves(p),
         NEW q \in Evaluators, NEW reason, Explains(q, reason)
  PROVE  Explains(q, reason)'
<1>1. Grown
  BY FilesGrow
<1>2. Abandoned => Abandoned'
  BY AbandonedOn
<1>3. UnverifiableFile => UnverifiableFile'
  BY <1>1 DEF UnverifiableFile, Grown
<1>4. OtherToolFile(q) => OtherToolFile(q)'
  BY <1>1 DEF OtherToolFile, Grown
<1> QED BY <1>2, <1>3, <1>4 DEF Explains

\* A file that a process finds torn while it is alone was abandoned.
LEMMA AloneAbandons ==
  ASSUME AloneInv, NEW p \in Evaluators, ~AtRest(p), alone[p], Alike(p),
         pc'[p] = "rejected", UNCHANGED files,
         \/ \E c \in Cases : evaluation[c] = Torn \/ public[c] = Torn
         \/ aggregate = Torn
  PROVE  Abandoned'
<1>1. \A q \in Evaluators : pc'[q] \notin Filling
  BY DEF AloneInv, AtRest, Alike, Filling
<1> QED BY <1>1 DEF Abandoned, files, Filling

\* The processes of one tool read an output alike: a receipt of the tool of a
\* process is of an output its contract accepts, and what was published without
\* a receipt is of one it rejects.
LEMMA SameTool ==
  ASSUME SetInv, NEW p \in Evaluators, NEW c \in Cases
  PROVE  /\ Whole(evaluation[c]) /\ evaluation[c].tool = ToolOf[p] => c \notin Unparsable[p]
         /\ Whole(public[c]) /\ public[c].tool = ToolOf[p]
              => (public[c].evaluation = NoFile <=> c \in Unparsable[p])
<1>1. ReceiptInv(c) /\ PublicInv(c)
  BY DEF SetInv, FileInv
<1>2. \A q \in Evaluators : ToolOf[q] = ToolOf[p] => Unparsable[q] = Unparsable[p]
  BY EvaluationAssumption
<1>3. Whole(evaluation[c]) /\ evaluation[c].tool = ToolOf[p] => c \notin Unparsable[p]
  BY <1>1, <1>2 DEF ReceiptInv
<1>4. ASSUME Whole(public[c]), public[c].tool = ToolOf[p], public[c].evaluation = NoFile
      PROVE  c \in Unparsable[p]
  BY <1>1, <1>2, <1>4 DEF PublicInv, CaseIsEvaluated, Whole
<1>5. ASSUME Whole(public[c]), public[c].tool = ToolOf[p], public[c].evaluation # NoFile
      PROVE  c \notin Unparsable[p]
  BY <1>1, <1>3, <1>5 DEF PublicInv, CaseIsEvaluated, Whole
<1> QED BY <1>3, <1>4, <1>5

\* What a process finds public of a case it has verified is of another tool, or is
\* what it would publish.
LEMMA PublicDiffers ==
  ASSUME SetInv, NEW p \in Evaluators, pc[p] = "publish", Whole(public[case[p]]),
         public[case[p]] # Public(p, verdict[p])
  PROVE  public[case[p]].tool # ToolOf[p]
<1> DEFINE c == case[p]
<1>1. c \in Cases /\ Knows(p) /\ public[c] \in PublicReceipts
  BY DEF SetInv, TypeOK, KnowInv, Whole
<1>2. PublicInv(c)
  BY <1>1 DEF SetInv, FileInv
<1> SUFFICES ASSUME public[c].tool = ToolOf[p] PROVE FALSE
  OBVIOUS
<1>3. public[c].evaluation = NoFile <=> c \in Unparsable[p]
  BY <1>1, SameTool
<1>4. public[c] = [tool |-> public[c].tool, evaluation |-> public[c].evaluation,
                   verdict |-> public[c].verdict]
  BY <1>1 DEF PublicReceipts
<1>5. public[c].evaluation = verdict[p].evaluation /\ public[c].verdict = verdict[p].verdict
  <2>1. CASE c \in Unparsable[p]
    BY <1>1, <1>2, <1>3, <2>1 DEF Knows, Nothing, PublicInv, CaseIsEvaluated, Whole
  <2>2. CASE c \notin Unparsable[p]
    BY <1>1, <1>2, <1>3, <2>2 DEF Knows, PublicInv, CaseIsEvaluated, Whole
  <2> QED BY <2>1, <2>2
<1> QED BY <1>4, <1>5 DEF Public

LEMMA AggregateAgrees ==
  ASSUME SetInv, NEW p \in Evaluators, pc[p] \in AtEnd, Whole(aggregate)
  PROVE  aggregate = Aggregate(p, rows[p])
<1>1. /\ rows[p] = public
      /\ \A c \in Cases : Whole(public[c]) /\ public[c].tool = ToolOf[p]
  BY RowsOfAll
<1>2. PICK o \in Evaluators :
        /\ \A c \in Cases : Whole(public[c]) /\ public[c].tool = ToolOf[o]
        /\ aggregate = Aggregate(o, public)
  BY DEF SetInv, FileInv, AggregateInv
<1>3. 1 \in Cases
  BY EvaluationAssumption DEF Cases
<1>4. ToolOf[o] = ToolOf[p]
  BY <1>1, <1>2, <1>3
<1> QED BY <1>1, <1>2, <1>4 DEF Aggregate

LEMMA AloneStep ==
  ASSUME SetInv, AloneInv, NEW p \in Evaluators, Step(p)
  PROVE  AloneInv'
<1>1. LocalType /\ Alike(p) /\ FileMoves(p)
  BY FileMovesOf, LocalTypeOf DEF SetInv
<1>2. ASSUME NEW q \in Evaluators, q # p, ~AtRest(q)', alone'[q] PROVE FALSE
  <2>1. ~AtRest(q)
    BY <1>1, <1>2 DEF Alike, AtRest
  <2>2. CASE Start(p)
    BY <1>2, <2>1, <2>2 DEF Start
  <2>3. CASE UNCHANGED alone /\ ~AtRest(p)
    BY <1>2, <2>1, <2>3 DEF AloneInv
  <2>4. Run(p) => ~AtRest(p)
    BY DEF Run, AtRest, LookForEvaluation, LookForPublic, Evaluate, CreateEvaluation,
           FillEvaluation, VerifyEvaluation, ComparePublic, CreatePublic, FillPublic,
           CompareAggregate, CreateAggregate, FillAggregate, VerifySet
  <2> QED BY <2>2, <2>3, <2>4 DEF Step, Crash
<1>3. ASSUME ~AtRest(p)', alone'[p]
      PROVE  /\ \A o \in Evaluators \ {p} : AtRest(o)'
             /\ pc'[p] \in {"look_public", "evaluate", "create_evaluation"}
                   => evaluation'[case'[p]] = NoFile
             /\ pc'[p] = "create_public" => public'[case'[p]] = NoFile
             /\ pc'[p] = "create_aggregate" => aggregate' = NoFile
  <2>0. \A o \in Evaluators \ {p} : AtRest(o)' <=> AtRest(o)
    BY <1>1 DEF Alike, AtRest
  <2>1. CASE Start(p)
    <3>1. \A o \in Evaluators \ {p} : AtRest(o)
      BY <1>3, <2>1 DEF Start
    <3> QED BY <1>1, <2>0, <2>1, <3>1, StartEffect
  <2>2. CASE Crash(p)
    BY <1>1, <1>3, <2>2, CrashEffect DEF AtRest
  <2>3. CASE Run(p) /\ UNCHANGED alone
    <3>1. ~AtRest(p) /\ alone[p]
      BY <1>3, <2>3
         DEF Run, AtRest, LookForEvaluation, LookForPublic, Evaluate, CreateEvaluation,
             FillEvaluation, VerifyEvaluation, ComparePublic, CreatePublic, FillPublic,
             CompareAggregate, CreateAggregate, FillAggregate, VerifySet
    <3>2. /\ \A o \in Evaluators \ {p} : AtRest(o)'
          /\ pc[p] \in {"look_public", "evaluate", "create_evaluation"}
                => evaluation[case[p]] = NoFile
      BY <2>0, <3>1 DEF AloneInv
    <3>3. ASSUME NEW reason, Rejects(p, reason) PROVE FALSE
      BY <1>3, <3>3 DEF Rejects, AtRest
    <3>4. CASE LookForEvaluation(p)
      BY <1>1, <3>2, <3>3, <3>4, LookEffect DEF GoesOn, Same, files
    <3>5. CASE LookForPublic(p)
      BY <1>1, <3>2, <3>3, <3>5, PublicLookEffect DEF GoesOn, Same, files
    <3>6. CASE Evaluate(p)
      BY <1>1, <3>2, <3>3, <3>6, EvaluateEffect DEF files
    <3>7. CASE CreateEvaluation(p)
      BY <1>1, <3>2, <3>3, <3>7, CreateEvaluationEffect
    <3>8. CASE FillEvaluation(p)
      BY <1>1, <3>2, <3>8, FillEvaluationEffect
    <3>9. CASE VerifyEvaluation(p)
      BY <1>1, <3>2, <3>3, <3>9, VerifyEffect, VerifyFile
    <3>10. CASE ComparePublic(p)
      BY <1>1, <3>2, <3>3, <3>10, ComparePublicEffect DEF GoesOn, Same, Finishes, files
    <3>11. CASE CreatePublic(p)
      BY <1>1, <3>2, <3>3, <3>11, CreatePublicEffect
    <3>12. CASE FillPublic(p)
      BY <1>1, <3>2, <3>12, FillPublicEffect DEF Finishes
    <3>13. CASE CompareAggregate(p)
      BY <1>1, <3>2, <3>3, <3>13, CompareAggregateEffect DEF GoesOn, files
    <3>14. CASE CreateAggregate(p)
      BY <1>1, <3>2, <3>3, <3>14, CreateAggregateEffect
    <3>15. CASE FillAggregate(p)
      BY <1>1, <3>2, <3>15, FillAggregateEffect
    <3>16. CASE VerifySet(p)
      BY <1>1, <3>2, <3>3, <3>16, VerifySetEffect DEF GoesOn
    <3> QED
      BY <2>3, <3>4, <3>5, <3>6, <3>7, <3>8, <3>9, <3>10, <3>11, <3>12, <3>13, <3>14,
         <3>15, <3>16 DEF Run
  <2> QED BY <2>1, <2>2, <2>3 DEF Step
<1> QED BY <1>2, <1>3 DEF AloneInv

\* Only a rejection says why, and of a process that was not alone it says that.
LEMMA RacedOf ==
  ASSUME SetInv, NEW p \in Evaluators, Run(p)
  PROVE  /\ pc'[p] # "rejected" => why'[p] = why[p]
         /\ pc'[p] = "rejected" /\ ~alone[p] => why'[p] = "raced"
<1>0. LocalType
  BY LocalTypeOf DEF SetInv
<1>1. CASE LookForEvaluation(p)
  BY <1>0, <1>1, LookEffect DEF GoesOn, Same, Rejects
<1>2. CASE LookForPublic(p)
  BY <1>0, <1>2, PublicLookEffect DEF GoesOn, Same, Rejects
<1>3. CASE Evaluate(p)
  BY <1>0, <1>3, EvaluateEffect DEF Rejects
<1>4. CASE CreateEvaluation(p)
  BY <1>0, <1>4, CreateEvaluationEffect DEF Same, Rejects
<1>5. CASE FillEvaluation(p)
  BY <1>0, <1>5, FillEvaluationEffect DEF Same
<1>6. CASE VerifyEvaluation(p)
  BY <1>0, <1>6, VerifyEffect, VerifyFile DEF Rejects
<1>7. CASE ComparePublic(p)
  BY <1>0, <1>7, ComparePublicEffect DEF GoesOn, Same, Rejects, Finishes
<1>8. CASE CreatePublic(p)
  BY <1>0, <1>8, CreatePublicEffect DEF Same, Rejects
<1>9. CASE FillPublic(p)
  BY <1>0, <1>9, FillPublicEffect DEF Finishes
<1>10. CASE CompareAggregate(p)
  BY <1>0, <1>10, CompareAggregateEffect DEF GoesOn, Same, Rejects
<1>11. CASE CreateAggregate(p)
  BY <1>0, <1>11, CreateAggregateEffect DEF Same, Rejects
<1>12. CASE FillAggregate(p)
  BY <1>0, <1>12, FillAggregateEffect DEF Same
<1>13. CASE VerifySet(p)
  BY <1>0, <1>13, VerifySetEffect DEF GoesOn, Same, Rejects
<1> QED
  BY <1>1, <1>2, <1>3, <1>4, <1>5, <1>6, <1>7, <1>8, <1>9, <1>10, <1>11, <1>12, <1>13
  DEF Run

\* Every rejection of a process that is alone has a cause on file.
LEMMA RejectionExplained ==
  ASSUME SetInv, AloneInv, NEW p \in Evaluators, Run(p), alone[p],
         LocalType, Alike(p), pc'[p] = "rejected"
  PROVE  Explains(p, why[p])'
<1>1. case[p] \in Cases
  BY DEF SetInv, TypeOK
<1>2. evaluation[case[p]] \in EvaluationFiles
  BY <1>1 DEF SetInv, TypeOK
<1>3. ~AtRest(p)
  BY DEF Run, AtRest, LookForEvaluation, LookForPublic, Evaluate, CreateEvaluation,
         FillEvaluation, VerifyEvaluation, ComparePublic, CreatePublic, FillPublic,
         CompareAggregate, CreateAggregate, FillAggregate, VerifySet
<1>4. ASSUME UNCHANGED files, evaluation[case[p]] = Torn \/ public[case[p]] = Torn
                              \/ aggregate = Torn
      PROVE  Abandoned'
  BY <1>1, <1>3, <1>4, AloneAbandons
<1>5. ASSUME UNCHANGED files,
             \/ Whole(evaluation[case[p]]) /\ evaluation[case[p]].tool # ToolOf[p]
             \/ Whole(public[case[p]]) /\ public[case[p]].tool # ToolOf[p]
      PROVE  OtherToolFile(p)'
  BY <1>1, <1>5 DEF OtherToolFile, files
<1>6. ASSUME NEW reason, Rejects(p, reason) PROVE UNCHANGED files /\ why'[p] = reason
  BY <1>6 DEF Rejects
<1> USE DEF Explains
<1>7. CASE LookForEvaluation(p)
  <2>1. Rejects(p, "conflict") /\ case[p] \in Unparsable[p] /\ evaluation[case[p]] # NoFile
    BY <1>7, LookEffect DEF GoesOn
  <2>2. Whole(evaluation[case[p]]) => evaluation[case[p]].tool # ToolOf[p]
    BY <1>1, <2>1, SameTool
  <2>3. evaluation[case[p]] # Torn => Whole(evaluation[case[p]])
    BY <2>1 DEF Whole
  <2> QED BY <1>4, <1>5, <1>6, <2>1, <2>2, <2>3
<1>8. CASE LookForPublic(p)
  <2>1. /\ Rejects(p, "partial") /\ public[case[p]] # NoFile
        /\ evaluation[case[p]] = NoFile /\ case[p] \notin Unparsable[p]
    BY <1>3, <1>8, PublicLookEffect DEF GoesOn, AloneInv, SetInv, KnowInv, AtOutput
  <2>2. Whole(public[case[p]]) => public[case[p]].tool # ToolOf[p]
    <3>1. PublicInv(case[p])
      BY <1>1 DEF SetInv, FileInv
    <3>2. Whole(public[case[p]]) => public[case[p]].evaluation = NoFile
      BY <2>1, <3>1 DEF PublicInv, CaseIsEvaluated, Whole
    <3> QED BY <1>1, <2>1, <3>2, SameTool
  <2>3. public[case[p]] # Torn => Whole(public[case[p]])
    BY <2>1 DEF Whole
  <2> QED BY <1>4, <1>5, <1>6, <2>1, <2>2, <2>3
<1>9. CASE Evaluate(p)
  <2>1. Rejects(p, "evaluator")
    BY <1>9, EvaluateEffect
  <2> QED BY <1>6, <2>1
<1>10. CASE VerifyEvaluation(p)
  <2> DEFINE e == evaluation[case[p]]
  <2>0. e \in {Torn} \cup Receipts
    BY <1>10, VerifyFile
  <2>1. \/ e = Torn /\ Rejects(p, "torn")
        \/ e # Torn /\ e.verdict \in Unverifiable /\ Rejects(p, "unverifiable")
        \/ e # Torn /\ e.tool # ToolOf[p] /\ Rejects(p, "tool")
    BY <1>10, <2>0, VerifyEffect
  <2>2. e # Torn => Whole(e)
    BY <2>0, ReceiptsAreOutcomes
  <2>3. CASE e = Torn /\ Rejects(p, "torn")
    BY <1>4, <1>6, <2>3
  <2>4. CASE e # Torn /\ e.verdict \in Unverifiable /\ Rejects(p, "unverifiable")
    <3>1. UNCHANGED files /\ why'[p] = "unverifiable"
      BY <1>6, <2>4
    <3>2. UnverifiableFile'
      BY <1>1, <2>2, <2>4, <3>1 DEF UnverifiableFile, files
    <3> QED BY <3>1, <3>2
  <2>5. CASE e # Torn /\ e.tool # ToolOf[p] /\ Rejects(p, "tool")
    BY <1>5, <1>6, <2>2, <2>5
  <2> QED BY <2>1, <2>3, <2>4, <2>5
<1>11. CASE ComparePublic(p)
  <2>1. \/ public[case[p]] = Torn /\ Rejects(p, "torn")
        \/ /\ Whole(public[case[p]]) /\ public[case[p]] # Public(p, verdict[p])
           /\ Rejects(p, "differs")
    BY <1>11, ComparePublicEffect DEF GoesOn, Finishes
  <2>2. pc[p] = "publish"
    BY <1>11 DEF ComparePublic
  <2> QED BY <1>4, <1>5, <1>6, <2>1, <2>2, PublicDiffers
<1>12. CASE CompareAggregate(p)
  <2>1. \/ aggregate = Torn /\ Rejects(p, "torn")
        \/ Whole(aggregate) /\ aggregate # Aggregate(p, rows[p])
    BY <1>12, CompareAggregateEffect DEF GoesOn
  <2>2. ~(Whole(aggregate) /\ aggregate # Aggregate(p, rows[p]))
    BY <1>12, AggregateAgrees DEF CompareAggregate, AtEnd
  <2> QED BY <1>4, <1>6, <2>1, <2>2
<1>13. CASE VerifySet(p)
  <2>1. SetVerifies
    BY <1>13, SetVerifiesAtEnd DEF VerifySet
  <2> QED BY <1>13, <2>1, VerifySetEffect DEF GoesOn
<1>14. CASE CreateEvaluation(p)
  BY <1>3, <1>14, CreateEvaluationEffect DEF AloneInv
<1>15. CASE CreatePublic(p)
  BY <1>3, <1>15, CreatePublicEffect DEF AloneInv
<1>16. CASE CreateAggregate(p)
  BY <1>3, <1>16, CreateAggregateEffect DEF AloneInv
<1>17. CASE FillEvaluation(p) \/ FillPublic(p) \/ FillAggregate(p)
  BY <1>17, FillEvaluationEffect, FillPublicEffect, FillAggregateEffect DEF Finishes
<1> QED
  BY <1>7, <1>8, <1>9, <1>10, <1>11, <1>12, <1>13, <1>14, <1>15, <1>16, <1>17 DEF Run

LEMMA WhyStep ==
  ASSUME SetInv, AloneInv, WhyInv, NEW p \in Evaluators, Step(p)
  PROVE  WhyInv'
<1>1. LocalType /\ Alike(p) /\ FileMoves(p)
  BY FileMovesOf, LocalTypeOf DEF SetInv
<1>2. ASSUME NEW q \in Evaluators, why'[q] = why[q] PROVE Explains(q, why[q])'
  BY <1>1, <1>2, ExplainsOn DEF WhyInv
<1>3. ASSUME why'[p] \in {"none", "raced", "evaluator"} PROVE Explains(p, why[p])'
  BY <1>3 DEF Explains
<1>4. Explains(p, why[p])'
  <2>1. CASE Start(p)
    BY <1>1, <1>3, <2>1, StartEffect
  <2>2. CASE Crash(p)
    BY <1>1, <1>2, <2>2, CrashEffect
  <2>3. CASE Run(p) /\ pc'[p] = "rejected"
    <3>1. CASE alone[p]
      BY <1>1, <2>3, <3>1, RejectionExplained
    <3>2. CASE ~alone[p]
      BY <1>1, <1>3, <2>3, <3>2, RacedOf
    <3> QED BY <3>1, <3>2
  <2>4. CASE Run(p) /\ pc'[p] # "rejected"
    BY <1>1, <1>2, <2>4, RacedOf
  <2> QED BY <2>1, <2>2, <2>3, <2>4 DEF Step
<1>5. ASSUME NEW q \in Evaluators, q # p PROVE Explains(q, why[q])'
  BY <1>1, <1>2, <1>5 DEF Alike
<1> QED BY <1>4, <1>5 DEF WhyInv

LEMMA WhyHolds == Spec => [](AloneInv /\ WhyInv)
<1>1. Init => AloneInv /\ WhyInv
  BY DEF Init, AloneInv, AtRest, WhyInv, Explains
<1>2. SetInv /\ AloneInv /\ WhyInv /\ [Next]_vars => (AloneInv /\ WhyInv)'
  <2> SUFFICES ASSUME SetInv, AloneInv, WhyInv, [Next]_vars PROVE (AloneInv /\ WhyInv)'
    OBVIOUS
  <2>1. CASE Next
    <3>1. PICK p \in Evaluators : Step(p)
      BY <2>1 DEF Next, Step
    <3> QED BY <3>1, AloneStep, WhyStep
  <2>2. CASE UNCHANGED vars
    <3> USE <2>2 DEF vars, files, local
    <3>1. AloneInv'
      BY DEF AloneInv, AtRest
    <3>2. /\ Abandoned => Abandoned'
          /\ UnverifiableFile => UnverifiableFile'
          /\ \A p : OtherToolFile(p) => OtherToolFile(p)'
      BY DEF Abandoned, UnverifiableFile, OtherToolFile
    <3>3. WhyInv'
      BY <3>2 DEF WhyInv, Explains
    <3> QED BY <3>1, <3>3
  <2> QED BY <2>1, <2>2
<1> QED BY <1>1, <1>2, SetHolds, PTL DEF Spec

\* A process that ran alone is rejected for a file that was cut short, a file of
\* another tool, a receipt that does not verify, or by the hidden evaluation: with
\* whole files of its tool a run is resumed from wherever it stopped.
THEOREM RejectionsStayExplained == Spec => []RejectionsExplained
<1>1. SetInv /\ WhyInv => RejectionsExplained
  <2> SUFFICES ASSUME SetInv, WhyInv, NEW p \in Evaluators
               PROVE  CASE why[p] \in {"none", "evaluator", "raced"} -> TRUE
                        [] why[p] = "torn" -> TornFile
                        [] why[p] \in {"tool", "differs"} -> OtherTool(p)
                        [] why[p] \in {"conflict", "partial"} -> TornFile \/ OtherTool(p)
                        [] why[p] = "unverifiable" ->
                              \E c \in Cases : /\ evaluation[c] \notin {NoFile, Torn}
                                               /\ evaluation[c].verdict \in Unverifiable
                        [] OTHER -> FALSE
    BY DEF RejectionsExplained
  <2>1. Explains(p, why[p])
    BY DEF WhyInv
  <2>2. Abandoned => TornFile
    BY DEF Abandoned, TornFile
  <2>3. OtherToolFile(p) => OtherTool(p)
    BY DEF OtherToolFile, OtherTool, Tools, Whole
  <2>4. UnverifiableFile =>
          \E c \in Cases : /\ evaluation[c] \notin {NoFile, Torn}
                           /\ evaluation[c].verdict \in Unverifiable
    BY DEF UnverifiableFile, Whole
  <2> QED BY <2>1, <2>2, <2>3, <2>4 DEF Explains
<1> QED BY <1>1, SetHolds, WhyHolds, PTL
=============================================================================
