--------------------------- MODULE V021Evaluation ---------------------------
(***************************************************************************)
(* The automated evaluation of a finished v0.2.1 campaign                  *)
(* (benchmark_v021_automated_evaluation.py): case by case a hidden         *)
(* evaluation that writes a receipt, a public receipt that binds it, and   *)
(* at the end one aggregate over all the cases.                            *)
(*                                                                         *)
(* No lock is taken: evaluation processes may run at the same time on the  *)
(* same directory, each may die and be started again, and each carries its *)
(* own tool_git_sha.  What keeps them apart is that a file is created      *)
(* exclusively and that a file that is there must be the one the process   *)
(* would write.  The barrier, results and responses are those of           *)
(* V021Generation, whole and bound: they pass the checks made on them.     *)
(* What one hidden evaluation does is in CandidateEvaluation.              *)
(***************************************************************************)
EXTENDS Integers, Sequences, FiniteSets

CONSTANTS Evaluators,    \* the evaluation processes
          ToolOf,        \* the tool_git_sha each one runs
          NumCases,
          Unparsable,    \* the cases whose output the contract of each one rejects
          Verdicts,      \* what a hidden evaluation may decide
          Accepting,     \* the verdict verified_reproduction
          Unverifiable,  \* verdicts whose receipt the receipt verifier refuses
          Rejected,      \* the verdict candidate_contract_rejected
          NoFile, Torn

Cases == 1 .. NumCases

ASSUME EvaluationAssumption ==
    /\ NumCases \in Nat \ {0}
    /\ Unparsable \in [Evaluators -> SUBSET Cases]
    /\ \A p, q \in Evaluators : ToolOf[p] = ToolOf[q] => Unparsable[p] = Unparsable[q]
    /\ Accepting \in Verdicts /\ Unverifiable \subseteq Verdicts
    /\ Rejected \notin Verdicts /\ NoFile # Torn

VARIABLES evaluation,  \* the evaluator receipt of each case
          public,      \* the public receipt of each case
          aggregate,   \* the aggregate receipt
          pc,          \* where each process is
          case,        \* the case it works on
          verdict,     \* what it knows of the case: see Nothing
          rows,        \* the rows of its aggregate so far
          alone,       \* no other process ran since it started
          why          \* why its last run was rejected

files == <<evaluation, public, aggregate>>
local == <<case, verdict, rows, why>>
vars == <<files, pc, alone, local>>

\* An evaluator receipt: who executed it, with which tool, and its outcome.
Evaluation(p, v) == [by |-> p, tool |-> ToolOf[p], verdict |-> v]

\* Before a process knows the outcome of a case.
Nothing == [verdict |-> Rejected, evaluation |-> NoFile]

\* The public receipt of a case, and the row that refers to it, follow from the
\* outcome and from the tool of the process.
Public(p, x) == [tool |-> ToolOf[p], evaluation |-> x.evaluation, verdict |-> x.verdict]

\* _aggregate_record: the rows, and the counts that go with them.
Aggregate(p, rs) ==
    [tool |-> ToolOf[p], rows |-> rs,
     accepted |-> Cardinality({c \in DOMAIN rs : rs[c].verdict = Accepting}),
     executed |-> Cardinality({c \in DOMAIN rs : rs[c].verdict # Rejected})]

Init ==
    /\ evaluation = [c \in Cases |-> NoFile]
    /\ public = [c \in Cases |-> NoFile]
    /\ aggregate = NoFile
    /\ pc = [p \in Evaluators |-> "idle"]
    /\ case = [p \in Evaluators |-> 1]
    /\ verdict = [p \in Evaluators |-> Nothing]
    /\ rows = [p \in Evaluators |-> << >>]
    /\ alone = [p \in Evaluators |-> TRUE]
    /\ why = [p \in Evaluators |-> "none"]

AtRest(p) == pc[p] \in {"idle", "rejected", "done"}

Goto(p, label) == pc' = [pc EXCEPT ![p] = label]
Continue(p, label) == Goto(p, label) /\ UNCHANGED local

ForgetRun(p) == /\ case' = [case EXCEPT ![p] = 1]
                /\ verdict' = [verdict EXCEPT ![p] = Nothing]
                /\ rows' = [rows EXCEPT ![p] = << >>]

Reject(p, reason) == /\ Goto(p, "rejected")
                     /\ ForgetRun(p)
                     /\ why' = [why EXCEPT ![p] = IF alone[p] THEN reason ELSE "raced"]

-----------------------------------------------------------------------------
(* _evaluate_v021_automated_campaign_with_ports *)

Start(p) == /\ AtRest(p)
            /\ Goto(p, "look")
            /\ ForgetRun(p)
            /\ why' = [why EXCEPT ![p] = "none"]
            /\ alone' = [q \in Evaluators |-> IF q = p THEN \A o \in Evaluators \ {p} : AtRest(o)
                                              ELSE AtRest(q)]
            /\ UNCHANGED files

\* Mutant: a receipt that is there is not verified but taken for a partial case.
LookForNoEvaluation(p) ==
    /\ pc[p] = "look"
    /\ Continue(p, IF case[p] \in Unparsable[p] THEN "publish" ELSE "look_public")
    /\ UNCHANGED files

\* parse_v021_candidate_output, and whether the evaluator receipt exists.
LookForEvaluation(p) ==
    LET c == case[p] IN
    /\ pc[p] = "look"
    /\ \/ /\ c \in Unparsable[p] /\ evaluation[c] = NoFile
          /\ Continue(p, "publish")
       \/ /\ c \in Unparsable[p] /\ evaluation[c] # NoFile
          /\ Reject(p, "conflict")
       \/ /\ c \notin Unparsable[p] /\ evaluation[c] # NoFile
          /\ Continue(p, "verify")
       \/ /\ c \notin Unparsable[p] /\ evaluation[c] = NoFile
          /\ Continue(p, "look_public")
    /\ UNCHANGED files

\* A public receipt without an evaluator receipt.
LookForPublic(p) ==
    /\ pc[p] = "look_public"
    /\ \/ public[case[p]] = NoFile /\ Continue(p, "evaluate")
       \/ public[case[p]] # NoFile /\ Reject(p, "partial")
    /\ UNCHANGED files

\* The hidden evaluation decides, or it raises.
Evaluate(p) ==
    /\ pc[p] = "evaluate"
    /\ \/ \E v \in Verdicts :
             /\ verdict' = [verdict EXCEPT ![p].verdict = v]
             /\ Goto(p, "create_evaluation")
             /\ UNCHANGED <<case, rows, why>>
       \/ Reject(p, "evaluator")
    /\ UNCHANGED files

CreateEvaluation(p) ==
    LET c == case[p] IN
    /\ pc[p] = "create_evaluation"
    /\ \/ /\ evaluation[c] = NoFile
          /\ evaluation' = [evaluation EXCEPT ![c] = Torn]
          /\ Continue(p, "fill_evaluation")
       \/ evaluation[c] # NoFile /\ Reject(p, "exists") /\ UNCHANGED evaluation
    /\ UNCHANGED <<public, aggregate>>

FillEvaluation(p) ==
    /\ pc[p] = "fill_evaluation"
    /\ evaluation' = [evaluation EXCEPT ![case[p]] = Evaluation(p, verdict[p].verdict)]
    /\ Continue(p, "verify")
    /\ UNCHANGED <<public, aggregate>>

\* Mutants: the outcome is the one the process remembers, not the one on file; the
\* receipt is not verified.
VerifyRemembered(p) ==
    LET e == evaluation[case[p]] IN
    /\ pc[p] = "verify"
    /\ IF e = Torn THEN Reject(p, "torn")
       ELSE IF e.verdict \in Unverifiable THEN Reject(p, "unverifiable")
       ELSE IF e.tool # ToolOf[p] THEN Reject(p, "tool")
       ELSE /\ verdict' = [verdict EXCEPT ![p].evaluation = e]
            /\ Goto(p, "publish")
            /\ UNCHANGED <<case, rows, why>>
    /\ UNCHANGED files

VerifyNothing(p) ==
    LET e == evaluation[case[p]] IN
    /\ pc[p] = "verify"
    /\ IF e = Torn THEN Reject(p, "torn")
       ELSE IF e.tool # ToolOf[p] THEN Reject(p, "tool")
       ELSE /\ verdict' = [verdict EXCEPT ![p] = [verdict |-> e.verdict, evaluation |-> e]]
            /\ Goto(p, "publish")
            /\ UNCHANGED <<case, rows, why>>
    /\ UNCHANGED files

\* receipt_verifier, and then the candidate and the tool of the receipt.
VerifyEvaluation(p) ==
    LET e == evaluation[case[p]] IN
    /\ pc[p] = "verify"
    /\ \/ e = Torn /\ Reject(p, "torn")
       \/ e # Torn /\ e.verdict \in Unverifiable /\ Reject(p, "unverifiable")
       \/ /\ e # Torn /\ e.verdict \notin Unverifiable /\ e.tool # ToolOf[p]
          /\ Reject(p, "tool")
       \/ /\ e # Torn /\ e.verdict \notin Unverifiable /\ e.tool = ToolOf[p]
          /\ verdict' = [verdict EXCEPT ![p] = [verdict |-> e.verdict, evaluation |-> e]]
          /\ Goto(p, "publish")
          /\ UNCHANGED <<case, rows, why>>
    /\ UNCHANGED files

\* The case is done: its row, and the next case or the aggregate.
NextCase(p) ==
    /\ rows' = [rows EXCEPT ![p] = Append(@, Public(p, verdict[p]))]
    /\ verdict' = [verdict EXCEPT ![p] = Nothing]
    /\ IF case[p] < NumCases
       THEN case' = [case EXCEPT ![p] = @ + 1] /\ Goto(p, "look")
       ELSE UNCHANGED case /\ Goto(p, "aggregate")
    /\ UNCHANGED why

ComparePublic(p) ==
    LET there == public[case[p]] IN
    /\ pc[p] = "publish"
    /\ \/ there = NoFile /\ Continue(p, "create_public")
       \/ there = Public(p, verdict[p]) /\ NextCase(p)
       \/ /\ there \notin {NoFile, Public(p, verdict[p])}
          /\ Reject(p, IF there = Torn THEN "torn" ELSE "differs")
    /\ UNCHANGED files

CreatePublic(p) ==
    LET c == case[p] IN
    /\ pc[p] = "create_public"
    /\ \/ /\ public[c] = NoFile
          /\ public' = [public EXCEPT ![c] = Torn]
          /\ Continue(p, "fill_public")
       \/ public[c] # NoFile /\ Reject(p, "exists") /\ UNCHANGED public
    /\ UNCHANGED <<evaluation, aggregate>>

FillPublic(p) ==
    /\ pc[p] = "fill_public"
    /\ public' = [public EXCEPT ![case[p]] = Public(p, verdict[p])]
    /\ NextCase(p)
    /\ UNCHANGED <<evaluation, aggregate>>

CompareAggregate(p) ==
    /\ pc[p] = "aggregate"
    /\ \/ aggregate = NoFile /\ Continue(p, "create_aggregate")
       \/ aggregate = Aggregate(p, rows[p]) /\ Continue(p, "verify_set")
       \/ /\ aggregate \notin {NoFile, Aggregate(p, rows[p])}
          /\ Reject(p, IF aggregate = Torn THEN "torn" ELSE "differs")
    /\ UNCHANGED files

CreateAggregate(p) ==
    /\ pc[p] = "create_aggregate"
    /\ \/ aggregate = NoFile /\ aggregate' = Torn /\ Continue(p, "fill_aggregate")
       \/ aggregate # NoFile /\ Reject(p, "exists") /\ UNCHANGED aggregate
    /\ UNCHANGED <<evaluation, public>>

FillAggregate(p) ==
    /\ pc[p] = "fill_aggregate"
    /\ aggregate' = Aggregate(p, rows[p])
    /\ Continue(p, "verify_set")
    /\ UNCHANGED <<evaluation, public>>

\* _verify_v021_automated_evaluation_set: everything is read again from file.
SetVerifies ==
    /\ aggregate \notin {NoFile, Torn}
    /\ Len(aggregate.rows) = NumCases
    /\ \A c \in Cases :
          /\ public[c] = aggregate.rows[c]
          /\ \/ public[c].evaluation = NoFile /\ public[c].verdict = Rejected
             \/ LET e == public[c].evaluation IN
                   /\ e # NoFile /\ e = evaluation[c]
                   /\ e.verdict \notin Unverifiable
                   /\ e.verdict = public[c].verdict
                   /\ e.tool = public[c].tool /\ e.tool = aggregate.tool
    /\ aggregate.accepted
          = Cardinality({c \in Cases : aggregate.rows[c].verdict = Accepting})
    /\ aggregate.executed
          = Cardinality({c \in Cases : aggregate.rows[c].verdict # Rejected})

VerifySet(p) ==
    /\ pc[p] = "verify_set"
    /\ IF SetVerifies THEN Continue(p, "done") ELSE Reject(p, "set")
    /\ UNCHANGED files

Crash(p) == /\ ~AtRest(p)
            /\ Goto(p, "idle")
            /\ ForgetRun(p)
            /\ UNCHANGED <<files, alone, why>>

Run(p) == \/ LookForEvaluation(p) \/ LookForPublic(p) \/ Evaluate(p)
          \/ CreateEvaluation(p) \/ FillEvaluation(p) \/ VerifyEvaluation(p)
          \/ ComparePublic(p) \/ CreatePublic(p) \/ FillPublic(p)
          \/ CompareAggregate(p) \/ CreateAggregate(p) \/ FillAggregate(p)
          \/ VerifySet(p)

Next == \E p \in Evaluators : Start(p) \/ (Run(p) /\ UNCHANGED alone) \/ Crash(p)

Spec == Init /\ [][Next]_vars

-----------------------------------------------------------------------------
Receipts == {Evaluation(p, v) : p \in Evaluators, v \in Verdicts}
EvaluationFiles == {NoFile, Torn} \cup Receipts
PublicReceipts ==
    [tool : {ToolOf[p] : p \in Evaluators}, evaluation : {NoFile} \cup Receipts,
     verdict : Verdicts \cup {Rejected}]
Aggregates ==
    [tool : {ToolOf[p] : p \in Evaluators}, rows : Seq(PublicReceipts),
     accepted : Nat, executed : Nat]

Reasons == {"none", "raced", "torn", "differs", "exists", "tool", "conflict", "partial",
            "evaluator", "unverifiable", "set"}

\* A file that is absent, or was cut short, does not read as a receipt.
ASSUME FileAssumption ==
    \A mark \in {NoFile, Torn} :
        mark \notin Receipts /\ mark \notin PublicReceipts /\ mark \notin Aggregates

TypeOK ==
    /\ evaluation \in [Cases -> EvaluationFiles]
    /\ public \in [Cases -> PublicReceipts \cup {NoFile, Torn}]
    /\ aggregate \in Aggregates \cup {NoFile, Torn}
    /\ pc \in [Evaluators ->
                 {"idle", "rejected", "done", "look", "look_public", "evaluate",
                  "create_evaluation", "fill_evaluation", "verify", "publish",
                  "create_public", "fill_public", "aggregate", "create_aggregate",
                  "fill_aggregate", "verify_set"}]
    /\ case \in [Evaluators -> Cases]
    /\ rows \in [Evaluators -> Seq(PublicReceipts)]
    /\ verdict \in [Evaluators -> [verdict : Verdicts \cup {Rejected},
                                   evaluation : {NoFile} \cup Receipts]]
    /\ alone \in [Evaluators -> BOOLEAN]
    /\ why \in [Evaluators -> Reasons]

\* What is published of a case is what one hidden evaluation decided, whichever
\* process published it: the outcome and the tool are those of the evaluator
\* receipt on file, which is whole; and a case published without one was rejected
\* by the candidate contract of that tool.
CaseIsEvaluated(c) ==
    public[c] \notin {NoFile, Torn} =>
        IF public[c].evaluation = NoFile
        THEN /\ public[c].verdict = Rejected
             /\ \E p \in Evaluators : c \in Unparsable[p] /\ ToolOf[p] = public[c].tool
        ELSE /\ public[c].evaluation = evaluation[c]
             /\ public[c].verdict = evaluation[c].verdict
             /\ public[c].tool = evaluation[c].tool

\* The aggregate reports every case with the outcome that is public for it, all
\* evaluated by one tool, and its counts are those of the receipts on file.
AggregateIsPublic ==
    aggregate \notin {NoFile, Torn} =>
        LET executed == {c \in Cases : public[c].evaluation # NoFile} IN
        /\ aggregate.rows = public
        /\ \A c \in Cases : public[c].tool = aggregate.tool
        /\ aggregate.accepted =
              Cardinality({c \in executed : evaluation[c].verdict = Accepting})
        /\ aggregate.executed = Cardinality(executed)

\* Both: from the evaluator's receipt to the aggregate, every file that is
\* published says what was evaluated.
PublishedIsEvaluated == (\A c \in Cases : CaseIsEvaluated(c)) /\ AggregateIsPublic

\* The last check of a run never fails: no interleaving of processes leaves files
\* that each passed its own checks and that do not fit together.
SetAlwaysVerifies == \A p \in Evaluators : pc[p] = "verify_set" => SetVerifies

\* A process that ran alone is rejected only if a crash cut a file short, if a
\* file is of another tool, or if the hidden evaluation failed or wrote a receipt
\* that does not verify: with whole files of its tool a run can be resumed from
\* wherever it stopped.
TornFile == Torn \in {aggregate} \cup {evaluation[c] : c \in Cases}
                                 \cup {public[c] : c \in Cases}
Tools == {evaluation[c].tool : c \in {d \in Cases : evaluation[d] \notin {NoFile, Torn}}}
         \cup {public[c].tool : c \in {d \in Cases : public[d] \notin {NoFile, Torn}}}
OtherTool(p) == \E t \in Tools : t # ToolOf[p]

RejectionsExplained ==
    \A p \in Evaluators :
        CASE why[p] \in {"none", "evaluator", "raced"} -> TRUE
          [] why[p] = "torn" -> TornFile
          [] why[p] \in {"tool", "differs"} -> OtherTool(p)
          [] why[p] \in {"conflict", "partial"} -> TornFile \/ OtherTool(p)
          [] why[p] = "unverifiable" ->
                \E c \in Cases : /\ evaluation[c] \notin {NoFile, Torn}
                                 /\ evaluation[c].verdict \in Unverifiable
          [] OTHER -> FALSE
=============================================================================
