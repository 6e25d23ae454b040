---------------------------- MODULE V02Finalization ----------------------------
(***************************************************************************)
(* The end of an exact-image campaign: causal controls                     *)
(* (benchmark_v02_exact_controls.py), the sealed sets of controls and      *)
(* reviews, and the finalization (benchmark_v02_campaign.py), which counts *)
(* a reproduction as L2 only with all three and writes a private and a     *)
(* public record.                                                          *)
(*                                                                         *)
(* None of it takes the campaign's lock: controls may run while the        *)
(* campaign is still evaluating, it may be run again while it is           *)
(* finalized, and several processes may finalize.                          *)
(*                                                                         *)
(* What vouches for executed controls is an object of the process that ran *)
(* them; their receipt alone does not, and a finalization in another       *)
(* process, as from the command line, has none.                            *)
(***************************************************************************)
EXTENDS ExactCampaign

CONSTANTS Finalizers,   \* processes that run controls, seal sets and finalize
          Reviewers, MappingReviewers,
          Acceptances,  \* which runs the evaluator may accept, in the order they are made
          Drafts,       \* what may be drafted of the controls of a candidate: IsDraft
          CutShort,     \* a file whose writer died
          MaxControls   \* a bound on executions of controls

VARIABLES accepting,    \* the runs whose receipts are accepted; the evaluator's business
          controls,     \* the receipts of executed controls
          authorities,  \* the executions that a process holds the authority of
          controlSet,   \* the sealed control set
          reviewSet,    \* the sealed review set
          final,        \* the private and the public record
          task,         \* where each process is
          draft         \* the private record it is about to write

finalization == <<controls, authorities, controlSet, reviewSet, final, task, draft>>
finalizationVars == <<campaignVars, accepting, finalization>>

Sealed == 0    \* the control receipt in the sealed set itself

FinalizationInit ==
    /\ CampaignInit
    /\ accepting \in Acceptances
    /\ controls = <<>>
    /\ authorities = [f \in Finalizers |-> {}]
    /\ controlSet = NoFile
    /\ reviewSet = NoFile
    /\ final = [private |-> NoFile, public |-> NoFile]
    /\ task = [f \in Finalizers |-> "idle"]
    /\ draft = [f \in Finalizers |-> NoFile]

\* A process that is done, or was refused, holds nothing but its authorities.
Turn(f, label) == task' = [task EXCEPT ![f] = label]
LeaveFor(f, label) ==
    /\ Turn(f, label)
    /\ draft' = IF label = "idle" THEN [draft EXCEPT ![f] = NoFile] ELSE draft
Beside == UNCHANGED <<ledger, files, pc, locals, expired, calls, losses, evaluators,
                      controller, evaluation, accepting>>

-----------------------------------------------------------------------------
(* run_exact_image_causal_controls *)

ControlNames == {"full_fix", "fix_minus_selected", "base_plus_selected"}

\* What the three fresh runs of a control agree on; "other" also when they do not,
\* when one was cut off or could not be collected, and for a patch that the selected
\* hunks cannot be separated from.
Observations == {"pass", "same_failure", "other"}
Expected == [name \in ControlNames |->
                IF name = "fix_minus_selected" THEN "same_failure" ELSE "pass"]

\* Whether an execution shows what is expected of it.
Shown == {observed = Expected : observed \in [ControlNames -> Observations]}

Executed == Cardinality(DOMAIN controls)

\* The receipt of the candidate on file must be whole and accepted.  executed_at is an
\* argument: after says whether it lies after the end of the attempt.
RunControls(f, c) ==
    LET run == receipts[attempts[c].id] IN
    /\ task[f] = "idle" /\ Executed < MaxControls
    /\ attempts[c] # NoAttempt /\ run \in accepting
    /\ \E shown \in Shown, after \in BOOLEAN :
           controls' = [n \in 1 .. Executed + 1 |->
                           IF n \in DOMAIN controls THEN controls[n]
                           ELSE [case |-> c, run |-> run, after |-> after,
                                 passed |-> shown]]
    /\ authorities' = [authorities EXCEPT ![f] = @ \cup {Executed + 1}]
    /\ UNCHANGED <<controlSet, reviewSet, final, task, draft, kills>> /\ Beside

-----------------------------------------------------------------------------
(* The two sealed sets *)

\* Mutant: a file that is there is written over.
Overwritable(file) == TRUE

\* _write_exclusive_fsync
IsNew(file) == file = NoFile

Ended == \A c \in Cases : attempts[c].status = "finished"

\* What a draft says of one run; clean is a run that was neither timed out nor killed
\* for its memory, with all its output.
DraftRuns == [observed : {"pass", "fail", "infra_error", "timeout", "not_available"},
              clean : BOOLEAN]

\* _causal_control_run_record: the outcome and the result of the process agree.
RunFits(run) == /\ run.observed = "timeout" => ~run.clean
                /\ run.observed = "not_available" => run.clean

\* _control_run_passed
RunPassed(name, run) ==
    run.clean /\ run.observed = IF name = "fix_minus_selected" THEN "fail" ELSE "pass"

\* _causal_control_case_record: every control that is required once, and the decoys
\* that were declared, of which only is kept whether all of them passed.
IsDraft(d) == /\ d \in [runs : [ControlNames -> DraftRuns], decoys : BOOLEAN]
              /\ \A name \in ControlNames : RunFits(d.runs[name])
Claims(d) == d.decoys /\ \A name \in ControlNames : RunPassed(name, d.runs[name])

ASSUME DraftAssumption == /\ \A d \in Drafts : IsDraft(d)
                          /\ Acceptances \subseteq SUBSET Nat

NotExecuted == [executed |-> FALSE, claims |-> FALSE]
ControlRecords(c) ==
    IF attempts[c].disposition = "no_candidate" THEN {NotExecuted}
    ELSE {[executed |-> TRUE, claims |-> Claims(d)] : d \in Drafts}

\* seal_v02_causal_control_set: a new file.  What its drafts say is an argument, and
\* nobody executes anything for it.
SealControls(f) ==
    /\ task[f] = "idle" /\ Ended /\ IsNew(controlSet)
    /\ \/ /\ \E records \in [Cases -> [executed : BOOLEAN, claims : BOOLEAN]] :
                 /\ \A c \in Cases : records[c] \in ControlRecords(c)
                 /\ controlSet' = records
          /\ UNCHANGED kills
       \/ kills < MaxKills /\ kills' = kills + 1 /\ controlSet' = CutShort
    /\ UNCHANGED <<controls, authorities, reviewSet, final, task, draft>> /\ Beside

Votes == [who : Reviewers, valid : BOOLEAN]
Rounds == {votes \in UNION {[1 .. n -> Votes] : n \in {2, 3}} :
              \A m, n \in DOMAIN votes : votes[m].who = votes[n].who => m = n}

\* _semantic_review_case_record
WellFormed(votes) ==
    /\ \A n \in DOMAIN votes : votes[n].who \notin MappingReviewers
    /\ DOMAIN votes = 1 .. 3 <=> votes[1].valid # votes[2].valid

Consensus(votes) == votes[Cardinality(DOMAIN votes)].valid

\* What a sealed case says, and for the properties whether two found the candidate valid.
Verdicts == {[valid |-> Consensus(votes),
              two |-> Cardinality({n \in DOMAIN votes : votes[n].valid}) >= 2] :
                 votes \in {votes \in Rounds : WellFormed(votes)}}

NoVerdict == [valid |-> FALSE, two |-> FALSE]
NotReviewed(status) == [status |-> status, control |-> Sealed, run |-> None,
                        verdict |-> NoVerdict]

\* A review names the candidate, the control receipt and the evaluation receipt it
\* rests on.  No draft gives the record that a case without network needs: it is put
\* into the set by hand.
ReviewsOf(c) ==
    LET a == attempts[c] IN
    IF a.disposition = "no_candidate" THEN {NotReviewed("no_candidate")}
    ELSE IF a.outcome = "infrastructure" THEN {NotReviewed("infrastructure")}
    ELSE [status : {"consensus"}, control : {Sealed} \cup DOMAIN controls,
          run : 1 .. runs[a.id], verdict : Verdicts]

\* build_v02_semantic_review_set: every case once.
ReviewSets == {reviews \in [Cases -> UNION {ReviewsOf(c) : c \in Cases}] :
                  \A c \in Cases : reviews[c] \in ReviewsOf(c)}

\* seal_v02_semantic_review_set
SealReviews(f) ==
    /\ task[f] = "idle" /\ Ended /\ IsNew(reviewSet)
    /\ \/ reviewSet' \in ReviewSets /\ UNCHANGED kills
       \/ kills < MaxKills /\ kills' = kills + 1 /\ reviewSet' = CutShort
    /\ UNCHANGED <<controls, authorities, controlSet, final, task, draft>> /\ Beside

-----------------------------------------------------------------------------
(* finalize_v02_campaign: what it reads *)

\* _account_attempts, and _active_duration_ms of what it publishes.
Accounted(a) == /\ a.status = "finished" /\ AllKnown(a) /\ ~Unmatched(a)
                /\ {"generation", "result_write"} \subseteq a.ended

\* The one disposition of an attempt is that of its candidate.
DispositionFits(a) == /\ a.disposition # "none"
                      /\ a.disposition = "candidate_submitted" <=> a.candidate

\* _generation_barrier_hashes: the one barrier binds the disposition of every case; the
\* one configuration that it also binds is the campaign's and left out.
BarrierBinds == barrier /\ \A c \in Cases : DispositionFits(attempts[c])

\* What a process has read is kept in its draft, and what it reads next is compared with
\* that, not with what is on file by then.
Unread == [part \in {"attempts", "barrier", "results", "controls", "records", "reviews",
                     "public"} |-> NoFile]

\* The part that is read next fits what was read before, or is refused without a trace.
Following == [idle |-> "public_results", public_results |-> "private_results",
              private_results |-> "controls", controls |-> "reviews", reviews |-> "private",
              private |-> "public", public |-> "idle"]
ReadPart(f, part, fits, seen) ==
    /\ task[f] = part
    /\ \/ fits /\ Turn(f, Following[part]) /\ draft' = [draft EXCEPT ![f] = seen]
       \/ ~fits /\ LeaveFor(f, "idle")
    /\ UNCHANGED <<controls, authorities, controlSet, reviewSet, final, kills>> /\ Beside

ReadLedger(f) ==
    ReadPart(f, "idle", BarrierBinds /\ \A c \in Cases : Accounted(attempts[c]),
             [Unread EXCEPT !.attempts = attempts, !.barrier = barrier])

\* The results of all cases, of one visibility: the outcome and the run that was evaluated.
ResultsOf(seen, file) ==
    [c \in Cases |-> LET g == seen.attempts[c].id IN
                     [outcome |-> results[g][file], run |-> reported[g][file]]]

\* _verify_exact_evaluation
KindFits(a, c) == /\ a.outcome = "infrastructure" => c \in NetworkCases
                  /\ a.outcome = "no_output" <=> a.disposition = "no_candidate"

\* _freeze_all_public_dispositions: those of all cases, before any private one.
FreezePublic(f) ==
    LET seen == draft[f]
        found == ResultsOf(seen, "public") IN
    ReadPart(f, "public_results",
             \A c \in Cases : /\ found[c].outcome = seen.attempts[c].outcome
                              /\ KindFits(seen.attempts[c], c),
             [seen EXCEPT !.results = found])

\* _open_private_results_after_barrier: the same, but for where they may be seen.
OpenPrivate(f) ==
    ReadPart(f, "private_results", ResultsOf(draft[f], "private") = draft[f].results, draft[f])

Mechanical(seen, c) == /\ seen.attempts[c].outcome = "verdict"
                       /\ seen.results[c].run \in accepting

\* _verify_exact_common_result: what the end of the attempt says of such a result.
Terminals == [no_output |-> <<"no_output", "rejected">>,
              infrastructure |-> <<"benchmark_infrastructure_error", "rejected">>]
TerminalOf(seen, c) ==
    IF seen.attempts[c].outcome # "verdict" THEN Terminals[seen.attempts[c].outcome]
    ELSE IF Mechanical(seen, c) THEN <<"verified_reproduction", "differential_reproduction">>
    ELSE <<"rejected_reproduction", "rejected">>

\* Mutant: an authority for another evaluation of the candidate is taken.
FitsCandidate(run, i) == controls[i].after

\* The authority is for what the results say was evaluated.
FitsEvaluation(run, i) == controls[i].run = run /\ controls[i].after

\* Mutant: the receipt in the set is believed.
Believed(c) == controlSet[c].claims

\* What the set says of a candidate never counts.
WithoutAuthority(c) == FALSE

\* _exact_control_case: given is the execution whose authority was passed for the case.
\* It takes part only if it fits.
Takes(seen, c, given) == Mechanical(seen, c) /\ given # None
ControlOf(seen, c, given) ==
    IF Takes(seen, c, given) THEN [receipt |-> given, passed |-> controls[given].passed]
    ELSE [receipt |-> Sealed, passed |-> WithoutAuthority(c)]

\* _verify_causal_control_set
ControlFits(seen, c, given) ==
    /\ controlSet[c].executed <=> seen.attempts[c].disposition = "candidate_submitted"
    /\ Takes(seen, c, given) => /\ controls[given].case = c
                                /\ FitsEvaluation(seen.results[c].run, given)

\* A set is whole, and every record in it is what it would be made into again.
ControlSetReads == controlSet \notin {NoFile, CutShort}
ReviewSetReads == reviewSet \notin {NoFile, CutShort}

ReadControls(f) ==
    LET seen == draft[f] IN
    \E given \in [Cases -> authorities[f] \cup {None}] :
        ReadPart(f, "controls",
                 ControlSetReads /\ \A c \in Cases : ControlFits(seen, c, given[c]),
                 [seen EXCEPT !.controls = controlSet,
                              !.records = [c \in Cases |-> ControlOf(seen, c, given[c])]])

\* _verify_review_set
ReviewFits(seen, c) ==
    LET review == reviewSet[c] IN
    /\ review.control = seen.records[c].receipt
    /\ seen.attempts[c].outcome = "verdict" => review.run = seen.results[c].run

Spent(a) == {k \in Categories : a.costs[k] \in Measured}

\* What is published of a case.
Validation(candidate, mechanical, l2) ==
    IF ~candidate THEN "no_candidate" ELSE IF l2 THEN "semantic_valid"
    ELSE IF mechanical THEN "plausible_f2p_semantic_invalid" ELSE "mechanical_gate_not_met"

Row(seen, c) ==
    LET a == seen.attempts[c]
        control == seen.records[c]
        review == seen.reviews[c]
        mechanical == Mechanical(seen, c)
        candidate == a.disposition = "candidate_submitted"
        l2 == mechanical /\ control.passed /\ review.verdict.valid IN
    [candidate |-> candidate,
     outcome |-> TerminalOf(seen, c)[1], claim |-> TerminalOf(seen, c)[2],
     control |-> control.receipt, passed |-> control.passed,
     reviewed |-> review.status, review |-> review.verdict,
     provisional |-> mechanical /\ review.verdict.valid, l2 |-> l2,
     validation |-> Validation(candidate, mechanical, l2), cost |-> Spent(a)]

\* _public_run_configuration
RunConfiguration(seen) ==
    [calls |-> Cardinality({c \in Cases : seen.attempts[c].call # "none"}),
     finished |-> Cardinality({c \in Cases : Called(seen.attempts[c])})]

\* _aggregate_summary, without its rates, medians and intervals.
Counted(rows, what) == Cardinality({c \in Cases : rows[c][what]})
ClaimsMechanical(row) == /\ row.claim = "differential_reproduction"
                         /\ row.outcome = "verified_reproduction"
Summary(rows) ==
    LET mechanical == {c \in Cases : ClaimsMechanical(rows[c])} IN
    [candidates |-> Counted(rows, "candidate"), mechanical |-> Cardinality(mechanical),
     provisional |-> Counted(rows, "provisional"), l2 |-> Counted(rows, "l2"),
     false_positives |-> Cardinality({c \in mechanical : ~rows[c].l2}),
     cost |-> UNION {{c} \X rows[c].cost : c \in Cases}]

Published(seen) ==
    LET rows == [c \in Cases |-> Row(seen, c)] IN
    [cases |-> rows, run |-> RunConfiguration(seen), summary |-> Summary(rows)]

\* With the last part both records are made.
ReadReviews(f) ==
    LET seen == [draft[f] EXCEPT !.reviews = reviewSet] IN
    ReadPart(f, "reviews", ReviewSetReads /\ \A c \in Cases : ReviewFits(seen, c),
             [seen EXCEPT !.public = Published(seen)])

StartFinalization(f) == \/ ReadLedger(f) \/ FreezePublic(f) \/ OpenPrivate(f)
                        \/ ReadControls(f) \/ ReadReviews(f)

-----------------------------------------------------------------------------
(* finalize_v02_campaign: what it writes *)

\* The private record names the public one by its digest.
Content(f, file) == IF file = "private" THEN draft[f] ELSE draft[f].public

\* Mutant: a file that is there is left as it is.
TakeExisting(f, file) == final[file] # NoFile

\* The bytes on file are the ones it would write.
Matches(f, file) == final[file] = Content(f, file)

\* _write_or_match_fsync: exclusively created and then filled, or compared.
CreateOrMatch(f, file) ==
    /\ task[f] = file
    /\ \/ /\ IsNew(final[file])
          /\ final' = [final EXCEPT ![file] = CutShort]
          /\ Turn(f, IF file = "private" THEN "fill_private" ELSE "fill_public")
          /\ UNCHANGED draft
       \/ /\ ~IsNew(final[file])
          /\ LeaveFor(f, IF Matches(f, file) THEN Following[file] ELSE "idle")
          /\ UNCHANGED final
    /\ UNCHANGED <<controls, authorities, controlSet, reviewSet, kills>> /\ Beside

Fill(f, file) ==
    /\ task[f] = IF file = "private" THEN "fill_private" ELSE "fill_public"
    /\ final' = [final EXCEPT ![file] = Content(f, file)]
    /\ LeaveFor(f, Following[file])
    /\ UNCHANGED <<controls, authorities, controlSet, reviewSet, kills>> /\ Beside

\* _verify_public_aggregate_case derives what a row claims once more, from what the row
\* itself says.
RowVerifies(row) ==
    LET l2 == ClaimsMechanical(row) /\ row.passed /\ row.review.valid IN
    /\ row.reviewed = "consensus" \/ row.review = NoVerdict
    /\ row.reviewed = "no_candidate" <=> ~row.candidate
    /\ row.reviewed = "infrastructure" =>
           row.candidate /\ row.outcome = "benchmark_infrastructure_error"
    /\ row.provisional = (ClaimsMechanical(row) /\ row.review.valid)
    /\ row.l2 = l2
    /\ row.validation = Validation(row.candidate, ClaimsMechanical(row), l2)

\* _verify_public_disclosure does not relate the two numbers.
DisclosureVerifies(run) == run.calls >= 0 /\ run.finished >= 0

\* verify_v02_campaign_output_structure, of two whole files: a finalization ends with
\* it, and raises if they do not verify.
OutputVerifies ==
    /\ final.private.public = final.public
    /\ DisclosureVerifies(final.public.run)
    /\ \A c \in Cases : RowVerifies(final.public.cases[c])
    /\ final.public.summary = Summary(final.public.cases)

\* The process dies, and its authorities with it.
KillFinalizer(f) ==
    /\ kills < MaxKills /\ kills' = kills + 1
    /\ task[f] # "idle" \/ authorities[f] # {}
    /\ LeaveFor(f, "idle")
    /\ authorities' = [authorities EXCEPT ![f] = {}]
    /\ UNCHANGED <<controls, controlSet, reviewSet, final>> /\ Beside

FinalizerNext(f) ==
    \/ \E c \in Cases : RunControls(f, c)
    \/ SealControls(f) \/ SealReviews(f) \/ StartFinalization(f)
    \/ \E file \in {"private", "public"} : CreateOrMatch(f, file) \/ Fill(f, file)
    \/ KillFinalizer(f)

FinalizationNext ==
    \/ CampaignNext /\ UNCHANGED <<accepting, finalization>>
    \/ \E f \in Finalizers : FinalizerNext(f)

FinalizationSpec == FinalizationInit /\ [][FinalizationNext]_finalizationVars

-----------------------------------------------------------------------------
(* Properties *)

Written(file) == final[file] \notin {NoFile, CutShort}

\* A case counts as L2 in the public record only if the receipt on file is of an accepted
\* run, controls that were executed on that very run have all passed, and two reviewers
\* who are not mapping reviewers found the candidate valid.
L2IsEarned ==
    Written("public") => \A c \in Cases :
        LET row == final.public.cases[c]
            run == receipts[attempts[c].id] IN
        row.l2 => /\ run \in accepting
                  /\ row.control \in DOMAIN controls
                  /\ controls[row.control].case = c /\ controls[row.control].run = run
                  /\ controls[row.control].passed
                  /\ row.review.two

\* There is never a public record, or the beginning of one, without a whole private
\* record that names it, whoever else finalizes with other authorities or dies; and the
\* check that a finalization ends with never refuses the two.
FinalPairAgrees ==
    final.public # NoFile =>
        /\ Written("private")
        /\ Written("public") => OutputVerifies

\* What a private record binds stays what is on file: the ledger, the results, the
\* controls and the reviews, although the campaign may run again without end; and the
\* calls it publishes are those that were made.
BundleStaysTrue ==
    Written("private") =>
        /\ final.private.attempts = attempts /\ final.private.barrier = barrier
        /\ \A file \in {"private", "public"} :
               final.private.results = ResultsOf(final.private, file)
        /\ final.private.controls = controlSet
        /\ final.private.reviews = reviewSet
        /\ final.private.public.run.calls = Cardinality({c \in Cases : calls[c] > 0})
=============================================================================
