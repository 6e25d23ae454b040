# ReproAssert in TLA+

ReproAssert turns a public issue into a candidate regression test and shows that the
test fails on the buggy commit. Most of its code is a *benchmark controller*: it
spends money on a model provider at most once per case, keeps hash-chained ledgers and
receipts about it, runs untrusted tests in disposable sandboxes and publishes results
that a later reader can recompute. What makes this hard is not the happy path. It is
that any process may die between any two writes, that several processes may work on
the same directories, that a lost answer may already have been paid for, that a Docker
command may take effect after it was given up, that an operator may mix the paths of
two preparations, and that two pieces of code decide about the same file.

This directory models that system: TLA+ modules, TLC configurations that check them on
small instances, and TLAPS proofs for every size. Paths are relative to the repository;
`benchmark_…py` is in `src/reproassert/`.

- [Components](#components) · [Modules and the code](#modules-and-the-code) ·
  [Runs](#runs) · [Fairness](#fairness) · [Proofs](#proofs) ·
  [Disagreements](#disagreements-with-the-code) · [Not modelled](#not-modelled) ·
  [Plan](#plan)

## Components

There are no threads and no callbacks. Concurrency is between processes, and the file
system and the Docker daemon are the only things they share.

| Component | State it keeps | Operations | Hard behaviour | What makes it correct |
|---|---|---|---|---|
| v0.2.1 authorization and ledger claim (`benchmark_v021_authorization`, `claim_v021_spend_ledger`) | issuance claim, authorization, ledger claim, ledger | prepare and verify an authorization; claim and open a ledger | operators race; files are created, then filled; a failed claim unlinks its claim file; caller directories can be deleted | one authorization and one opened ledger per preregistration; the claim under a ledger stays |
| v0.2.1 spend ledger (`benchmark_v021_ledger`) | append-only, hash-chained file of events under a guard | reserve, record response, record result, verify, inspect | legal calls in any order, cut lines, caps at their limit, two readers | what is in doubt fits under the cap, no second reservation in any ledger, both readers agree |
| v0.2.1 generation campaign (`benchmark_v021_campaign_controller`, `_runtime`, `_runtime_ledger`, `_openai_adapter`) | responses, results, progress file, lock, the ledger | run or resume the cases in order, issue the barrier | crash between any two writes, concurrent controllers, a call that times out although it was paid for, clock | one call per case, only after a durable reservation; a barrier binds what is on file; runs can be resumed |
| v0.2.1 automated evaluation (`benchmark_v021_automated_evaluation`) | evaluator and public receipts, aggregate | evaluate or resume a campaign, verify the set | no lock, crash between the files of a case, another tool build | what is published was evaluated, the set verifies |
| Hidden candidate evaluator (`benchmark_v02_candidate_evaluator`) | receipt of one case | gold pair, candidate runs in a frozen order, classification, receipt, its verification | runs time out, are killed, flake, or pass without evidence; the verifier knows less than the evaluator | accepted iff reproduced; a receipt that was written verifies |
| v0.2 scored runner (`benchmark_v02_runner`) | event ledger, consumed calls, per attempt a generation transaction and two results | generate a case, freeze the barrier, recover a generation, evaluate a sealed one | crash between transaction, candidate, call, cost and disposition; generation takes no lock; a wall-clock cap; a ledger that is lost | one call per case; nothing frozen that nobody knows; what is committed is recoverable; sealed by the barrier; evaluated at most once |
| v0.2 exact-image campaign (`benchmark_v02_exact_*`) | progress file and campaign lock; a receipt per attempt | run or resume the whole campaign; evaluate a case in its exact image; execute causal controls | a receipt that is replaced, a kill between receipt, phase, cost and results, restarts without end | progress is true; a verdict rests on one receipt everywhere; a halt has a cause |
| v0.2 campaign finalization (`benchmark_v02_campaign`) | control set, review set, private and public record | seal controls, seal reviews, finalize, verify | no lock; authority that lives in a process; several finalizers; a kill between the two records | an L2 verdict is earned; the public record has its private one; what is bound stays |
| Document chain (`…cases`, `…mapping_packets`, `…chronology`, `…hidden`, `…instance_runtime`, `…exact_capability`, `…scored_preregistration`, `…exact_preregistration`, `…execution_freeze`, `…exact_campaign_config`, `…amendment`, `benchmark_v021_automated_evidence`, `…automated_preregistration`) | documents that bind one another by digest; workspaces, locks, claims | prepare and verify each of them; start a campaign under them | paths of two preparations mixed, files replaced between two reads, another commit checked out | every paid call is made under one lineage; an authorization is spent once; a case is judged by what was committed before its call |
| Docker ownership (`sandbox`, `dependency_executor`, `benchmark_v02_instance_executor`) | registries of containers, volumes and anchors | create, run, collect, remove, sweep | a command fails, is killed, takes effect late or never; failures while an exception passes through | nothing the code knows it created is lost; success means that nothing is left |
| Verifier and differential evaluator (`verifier`, `differential`) | none over time | classify collection and repeated runs | any mix of outcomes in any order | accepted only for a repeatable failure with one fingerprint |
| Workflow and replay (`workflow`, `benchmark_v02_replay`, `report`, `candidate*`, `generator`, `context`) | run directory, report | the steps of a reproduction | failure at any step, clean-up | a report only of what was verified and cleaned up |
| Gold smoke (`benchmark_v02_instance_controller`) | rows of a private receipt | smoke every case, issue capabilities | failure in staging, running and clean-up of any case | a row that counts is true; a capability is earned |
| File primitives (`safeio`) | files | exclusive create, bounded read, log sanitizing | a file that is created and not yet filled | never written over |
| Intake and sources, v0.1 benchmark, datasets and cohort selection, publication package, isolation canary, command line, schemas, scripts, site | – | – | – | see [Not modelled](#not-modelled) |

How they interact. The roots (hidden extraction, issues, runtime manifest, specs) feed
the gold smoke, which earns the capability; case preparation, mapping packets and
chronology feed the preregistration, which the execution freeze and a person's
authorization bind. A campaign claims the authorization for one ledger and drives each
case through ledger, provider and files; its barrier, results and responses are what
evaluation starts from. Evaluation calls the hidden evaluator, which calls the
instance executor, for every run. Finalization reads all of it, with the controls that
were executed and the reviews that were sealed. v0.2 and v0.2.1 are two generations of
the same idea: one ledger of all events and one process per step there, one controller
and a file per case here.

The hazards of `PROJECT.json` list, at its line, what can go wrong in the modelled part
that a test would hardly reach, and the properties aimed at it.

## Modules and the code

Conventions. A process is a program counter and its locals; a step is the code from one
access to shared state to the next. A file is `NoFile`, `Torn` or `CutShort` (created
but not filled, or cut short) or its content: exclusive creation is two steps, create
and fill, and a crash between them leaves a torn file. A digest stands for the content
it is the digest of, so "the digests match" is equality; a response is a model value
with a cost. Variables that the code does not have (what was ever called, evaluated or
accepted) exist to state properties and are named so where they are declared.

### v0.2.1

**`V021SpendLedger`** – `benchmark_v021_ledger.py`. `log` is the sequence of complete
lines, `torn` says that the file ends in a cut line, `spent` is the running total of
`_derive_states`. Each operation holds the guard while it re-reads, verifies and
appends, so it is one step: `MayReserve`/`Reserve`, `MayRecordResponse`,
`MayRecordResult` and the idempotent `Same…` branches. `Verifies` is
`verify_v021_spend_ledger` with the cap of a response and of the total, a first event no
earlier than the authorization (`AuthorizedAt`) and none before another; it stands
before every append. `PublicAccepts` is `inspect_v021_public_spend_ledger`, code of its
own. The hash chain is what makes a log a sequence: no line can be changed or moved.
`LedgerSpec` closes the module under clients that call anything with anything.

**`V021Authority`** – `prepare_v021_execution_authorization`,
`verify_v021_execution_authorization`, `claim_v021_spend_ledger`. Operators word different
authorizations for the same preregistration; the issuance claim is in state outside the
campaign directories, the ledger claim is named after the authorization.
`authorities` and `opened` remember what was ever verified or opened.

**`V021Ledgers`** composes the two: the ledger of a preregistration over its whole life.
`Administer` issues, claims, crashes and deletes; a ledger that is filled holds its claim
line only, whatever was there before. `OperateLedger` is any operation of the ledger, by
whoever holds a verified authority and finds claim and ledger that verify: that may be
before the claim has returned to its caller, between the write of the line and the handler
of a failed `fsync`. `reservations` counts, over every ledger that ever was, from the
ledger whose claim returned first, with what was reserved in that file before. What was
reserved in a ledger whose writer failed and took its claim away is not for good
(`Irreversible`, [below](#disagreements-with-the-code)).

**`V021Generation`** – the controller, the case runtime and the ledger port. One action
per step of `_execute_v021_case_with_ports`: `ReadLedger` (unguarded, acted on later),
`ReserveCase`, `CallProvider`, `ProviderAnswers` (an accepted response, or any
exception), the response file, `CheckResponse`/`LoadResponse`, `RecordCaseResponse`,
`CompareResult` and the result file, `RecordCaseResult`, `RecordHalt`, and then
`_write_progress` of the controller (`WriteTemporary`, `ReplaceProgress`), which also
moves to the next case, the last progress record or the barrier. `LockOf` gives each
controller its progress directory: the lock lies there. A timestamp is taken before the
guard (`since`, `Stamps`). The environment: `Crash`, `KilledInAppend`, `ShortWrites`,
`Tick` and `ClockStepsBack`. `calls` counts provider calls.

**`OneShotSpend`** – the promise about money, without files or processes: a case is
reserved only while none is in doubt, called once, settled within its cap, finished.
**`V021GenerationRefinement`** maps ledger state and calls to its phases.

**`V021Evaluation`** – `_evaluate_v021_automated_campaign_with_ports` and the set
verifier, for processes that take no lock. `Unparsable` is what the candidate contract
of a tool rejects, `Unverifiable` the verdicts whose receipts `CandidateEvaluation`
shows to be refused. `alone` remembers whether another process ran meanwhile.

**`CandidateEvaluation`** – `_evaluate_instance_candidate_with_resolved_hidden` and
`verify_instance_candidate_receipt`. A run's result is an exit code, the flags, the
infrastructure marker and the trace that attributes it; `Attributable`, `Classify`,
`Outcome` are the decision in the order of the code, `Evidence`/`Receipt` what is kept of
it, `Recomputed`/`ReceiptVerifies` the reader's recomputation. The runner stops reading a
process at 2 MiB, but a byte that cannot be decoded becomes a replacement of three: what the
evidence counts may be beyond the 2 MiB its reader allows (`oversize`, `InRange`), with or
without a truncation.

### v0.2

**`V02Ledger`** – `_validate_transitions` of `benchmark_v02_runner.py` as what it folds
the chain of events into: `attempts[c]` is the `_AttemptState` of the attempt of a case,
`barrier` the campaign's barrier event. For every event there is a guard `May…` and an
effect. An append decodes the chain with the new event in it under the file lock, so it
is one step that is accepted or rejected. An amount is absent, unknown, zero or
measured, and a measured one may have brought its attempt above what was reserved for it
(`over_reservation`), above what a case may cost (`over_cap`), or both; the cost of the
preparation is no part of the reservation and only counts towards the cap, so it stays
"measured". `WithinReservation` is `_assert_total_within_reservation`, `Unaffordable`
what the audit of the caps refuses. As the caps of the cases add up to no more than that
of the campaign, an audit that passes every case passes the campaign.

**`V02Runner`** – processes over that ledger. `Generate(g)` is `generate_v02_scored_case`,
from `Begin` (the attempt, under `_preflight_attempt`) over `Consume` (the record of the
call outside the ledger), `BeginCall`, `Provider`, `Persist` (the generation transaction),
`SubmitCandidate`, `EndCall`, costs and the end of the phase to `DisposeGeneration`, with
both handlers: `LookForPhase`…`FillGenerationCosts` for a failure, `CrashGeneration` for
anything else. `Recovery(o)` is `recover_v02_scored_case`: `StartRecovery` with its
preflight, then, for each event in the order of the code, `LookForEvent` and
`ReplayEvent`. `Evaluation(o)` is `evaluate_v02_frozen_case` to the two results and the
end of the attempt; `TakeCapability` is the one use of an evaluation capability. A
result is written and read back (`WriteRecord`, `ReadsBack`); the public one of this
runner only says "sealed" of what was evaluated. Reading the ledger and appending to it
are different steps, except for a preflight that the code runs inside the append. An
operator is one invocation for one case; `Clock` lets the wall-clock cap of an attempt
pass whenever the code looks at it; `Kill` and `LoseLedger` are the environment.

**`ExactCampaign`** extends `V02Runner` by `benchmark_v02_exact_campaign_controller.py`
and `benchmark_v02_exact_scored.py`. The controller (`at`, `turn`) audits the caps,
generates or recovers each case by letting a process of `V02Runner` run, freezes the
barrier, evaluates each case and writes `progress` after every step and in the handler
of every exception; it can be killed or halt anywhere and is started again without end,
under the campaign lock. Whatever is outside of the campaign may refuse it at any case
of any run, after cases that were paid for: the workspace's documents, the source
context, the capability of a case, the documents a call reads again (`OutsideIsRefused`,
`CallIsRefused`, `FailForNetwork` and `Halt("outside")`). What is inside is a cause that
stays: an amount above the caps (`AuditFails`), costs above the reservation before or
after an evaluation, a directory that was made and has no attempt (`DirectoryIsNew`).
`Blocked` lists these causes and is what `HaltIsExplained` holds the controller to. An
evaluation finds the receipt of an earlier one, trusts it when its phase is finished, or
replaces it by that of a new run; `runs` numbers the runs, so that which run a receipt,
a result or a cost is of can be told. The public results of this mode state the outcome.

**`V02Finalization`** extends `ExactCampaign` by `run_exact_image_causal_controls` and
`benchmark_v02_campaign.py`. A finalizer runs controls on an accepted run and then holds
their authority until it dies; seals a control set from drafts and a review set from two
or three votes per case; and finalizes: `StartFinalization` reads part by part in the
order of the code and keeps what it read in a `draft`: the ledger (`ReadLedger`), the
public results (`FreezePublic`), the private ones (`OpenPrivate`), the control set
(`ReadControls`) and the review set (`ReadReviews`). Between any two of them everything
else may move, and each refuses what does not fit what was read before. The files of one
part are one step: the results of an ended attempt are created exclusively and never
change, and a set is one file. Then private and public record are created and filled, or
compared with what is there. `OutputVerifies` is the check that a finalization ends
with; it derives what a row may claim a second time (`RowVerifies`). None of this takes
a lock, and the campaign's own steps, other finalizers and their seals go on meanwhile.

**`ExactDocuments`** – what is prepared from what. Every command takes paths; document
`v` of a kind is entry `v` of `content[d]`, a record of what it binds, and `file[d][p]`
is the document at path `p`. For each kind there is `…Derivable` (what its preparation
demands of its inputs), a preparation, and `…Ok` (what its verifier recomputes). On top:
the workspace's configuration, the controller that verifies it and starts a campaign
(`Start` to `Call` to `Evaluate`, each reading its files again), the claim of an
authorization below the user's home, and the legacy authorization of the runner, issued
and verified. Operators prepare again, remove and replace files and check out another
commit. Each behaviour has a `scope` of what its operators do.

**`V021Documents`** adds the kinds of v0.2.1: the first smoke, amendment, capability
index, prepared cases, automated evidence, preregistration, authorization and runtime
plan. There is no controller there: a program holds what the verifiers issued
(`session`), which outlives the files.

### Sandboxes

**`DockerOwnership`** – how `DockerSandbox`, `DependencyExecutor` and
`InstanceRuntimeExecutor` own objects. `todo` is the rest of a method as a sequence of
instructions, with its `try` handlers in place; a command succeeds, fails, or is given up
and takes effect at once, later (`Arrive`) or never; `existing` is the daemon's truth,
`registered` what the controller believes. The controllers differ in what the constants
say: whether an object is registered before or after its creation (`Early`), removed
without a proof (`Unproven`), or never registered (`Unregistered`).

**`Verification`** – `classify_base_runs`, the collection checks and the differential
decision as operators over results of runs, beside an order-free definition of what a
verified reproduction is.

**`Reproduction`** composes both into `run_issue_workflow`, `run_replay_workflow` and
`verify_differential_candidate` with a `DependencyExecutor`: probing and staging,
attestation and export, the handle with the claims of its receipt, the borrowed volume,
runs, verdict, clean-up, report. **`GoldSmoke`** composes `DockerOwnership` with the
controller of the gold smoke, its rows and the capability that is issued over them. A
case is run as its frozen runtime says: with pytest, whose tests are collected on both
trees before they are run, or with SymPy's own runner, which collects nothing and whose
test names are derived from the hidden patch before there is a container (`contract`,
which may fail). A smoke runs all cases or one; the others have the rows of `_not_run`,
and a case that raises has an error row with its reason. A second program runs a
candidate on the same executor, with the result volume of its report and the anchor that
keeps it.

`MC…` modules give constants their values; `…_proofs` hold the theorems. Operators
marked `Mutant` are deliberately wrong variants of the definition they precede: each
property fails when one of them takes the place of that definition, which shows the
property can fail. Nothing else uses them.

## Runs

| Run | Question | Instance | Result |
|---|---|---|---|
| `MCV021Ledgers` | Operators issue, claim, crash and delete, and meanwhile work on any ledger that verifies, in any order, with any arguments and times. Can a preregistration get two authorizations, a claimed ledger that is opened twice, a second reservation, a response that does not fit, or a file the two readers disagree on? | 3 operators, of which one dates its claim before the authorization and two (symmetric) after, 2 cases, cap 2 each and 4 in all, responses at and above the cap, two timestamps | holds: `OneAuthorization`, `ClaimStays`, `ReservationsFit`, `PublicReaderAgrees`, `ReservedOnce` |
| `MCV021LedgersForsaken` | Is a reservation for good whatever becomes of the claim under it? | the same, three claims that differ | violated: `Irreversible` |
| `MCV021Generation` | Two controllers that share a progress directory, killed anywhere, lines cut short, the clock set back: what does the campaign still guarantee, and is every reservation settled or declared? | 2 controllers, 2 cases, responses below, at and above the cap | holds: `AtMostOneCall`, `HaltIsFinal`, `RejectionsExplained`, `BoundIsDurable`, and under fairness `ReservationsResolve` |
| `MCV021GenerationTwoLocks` | And if nothing excludes the controllers? | the same, a progress directory each, no short writes, a clock that only advances (a kill inside an append remains) | holds: `StaysReadable`, `BarrierIsBound`, `ImplementsOneShotSpend` |
| `MCCandidateEvaluation` | Is a candidate accepted exactly when its runs reproduce the failure, and does its receipt verify? | two runs on each tree over the results that the decision tells apart, oversize output among them, five per gold phase, three per collection, both profiles; at most one gold phase or collection that went on although it was odd (`OneOddity`) | holds: `AcceptedIffReproduced`, `VerifiesUnlessIndistinct` |
| `MCV021Evaluation` | Can processes without a lock publish what was not evaluated, or leave a set that does not verify? | 3 processes, two of one tool; 3 cases, of which the contracts reject different ones | holds: `PublishedIsEvaluated`, `SetAlwaysVerifies`, `RejectionsExplained` |
| `MCV02Runner` | Generation, recovery and evaluation over one ledger, killed anywhere, late at any look: what holds of spend, candidates and results? | two cases, or one of them with two generating processes and a ledger that is lost once; two operators (symmetric) for the first case, one kill, costs within and above the reservation | holds: `OneCallPerCase`, `OneUnmatched`, `SealedSpendIsTrue`, `CommittedIsDurable`, `SealedGenerationStays`, `OneEvaluation`, `GenerationIsAccounted` |
| `MCV02RunnerSealed` | Does recovery leave an attempt alone once the barrier sealed it? | one case, two operators that wait until no generation runs | violated: `RecoveryIsSealed` |
| `MCV02Finalization` | A campaign is killed, halted and started again, alone and beside processes that run controls, seal and finalize: is its progress true, does a verdict rest on one run, why can it be stuck, is an L2 verdict earned, do the two records agree, does what they bind stay? | 2 cases, the second without network, 4 reviewers of which one is a mapping reviewer, one execution of controls; no finalizer, every amount and two kills; one finalizer, costs within the reservation and one kill; two (symmetric) with such costs and no kill | holds: `ProgressIsTrue`, `SealedResultAgrees`, `SealedReceiptStays`, `HaltIsExplained`, `L2IsEarned`, `FinalPairAgrees`, `BundleStaysTrue` |
| `MCExactDocuments` | Documents prepared twice, paths mixed, files replaced in the middle: under what is a call paid for and a case judged? | two documents of a kind, two paths, 11 scopes with 1 to 5 acts of the operators, up to two workspaces | holds: `EveryLineage`, `OneLedgerPerAuthorization`, `EvaluatedAsCommitted` |
| `MCReproduction` | A reproduction, a replay and a differential verification over a daemon that answers late, fails or loses an answer: what is left, and what may be reported? | either no failure and every result, or up to three failures and few results; two executions, two fingerprints | holds: `LeftoversExplained`, `SuccessMeansGone`, `AcceptanceIsEarned` |
| `MCGoldSmoke` | Is a row that counts true, a capability earned, and nothing left behind? | 2 cases, the second without network, each with either runner; smokes of both cases and of one; either every result or up to two failures | holds: `CapabilityIsEarned`, `OnlyStagingIsLeft` |

**What the properties are for.** `ReservationsFit` matters because `reserve_v021_case`
looks at no cap: that the ledger never has to refuse a response that was paid for rests
on `NumCases * PerCaseCap <= TotalCap` and on one case in doubt. `StaysReadable` matters
because an append does not compare its time with the last line's, and the time is taken
before the guard. `RejectionsExplained` says that a run can be resumed from wherever a
crash left it, unless a file was cut. `VerifiesUnlessIndistinct` is an equivalence: it
names exactly the receipts that the evaluator writes and its own verifier refuses.
`HaltIsExplained` does the same for a campaign that nobody can get past a halt: a halt for
something outside of the campaign is told apart, all others have their cause in `Blocked`.
`CommittedIsDurable` relates the ledger to the files beside it. `EveryLineage` is what
no verifier checks as a whole: each looks at some of the documents, and only together
they leave no way to mix two preparations. `OnlyStagingIsLeft` is exact: the staging
volume of the instance executor is in no registry, so that it can be left behind and
nothing else can.

**Bounds.** Two cases are the fewest with a case before and one after; the cohort is
only counted and ordered. Two controllers, because the hazards are of one process that
acts on what it read while another one moved; three evaluators, for two of the same tool
beside a third. `TotalCap = NumCases * PerCaseCap`, the tightest the assumption allows,
so that every reservation is at the limit, and one response above the case cap.
`MaxTime` bounds the clock: two times suffice for one that is older than another. Two
runs on each tree are the fewest that can differ; the source has three on each in the
order `RUN_ORDER`, which the counts and sets of the decision do not tell from two. In
`MCV02Runner` a process that takes no part in a scenario is done from the start and a
ledger that may not be lost counts as lost already (`ScenarioInit`); one kill stands for
the one crash a case has to survive, and two operators are the fewest that can follow or
meet one another. `Measures` names what a cost may bring its attempt to: those within
and above the reservation in `MCV02Runner`, where nothing looks at a cap, and all four
for the campaign, whose audits tell them apart. In `MCV02Finalization` `parts` are the
finalizers that take part. Two kills are shared by whom they may hit: a campaign alone,
to be killed again while it recovers; a finalizer and the campaign together one
(`KillsFor`); two finalizers are there for what they do to one another, without.
Restarts after a halt are not bounded. Beside finalizers costs are known and within
every bound (`Affordable`): of a cost a finalizer asks no more than that it is known.
Sets are sealed only once all attempts have ended, as a draft is of ended attempts;
`Acceptances` says which runs the evaluator accepts, and `Drafts` is the draft that
passes, the one that matters for an L2 verdict that is not earned. In `MCExactDocuments`
a second document of a kind is what mixing needs; a third would be one more of the same,
and each scope names the kinds that are prepared again so that every kind is in some
scope. Budgets of failures in the sandbox runs bound faults, not results; a later
command never depends on how many failed before. One run has a state constraint,
`OneOddity` of `MCCandidateEvaluation`: what the reader says of gold phases and
collections is a conjunction over them, so that two odd ones show no more than one (the
theorems need no such bound). `CHECK_DEADLOCK FALSE` is given where the system stops:
operators with a receipt on file, a finished evaluation, operators whose scope is used
up.

## Fairness

Safety runs assume none. `MCV021Generation` uses `GenResumedSpec`:

- `WF_vars(Run(p))`: a controller that runs keeps running. Nothing in its path blocks
  for ever: the lock is taken without waiting (`LOCK_NB`), the guard of the ledger is
  held for one operation and dropped by the kernel when its holder dies, and the provider
  call ends in an answer or in the adapter's timeout.
- `WF_vars(Start(p))`: the operator starts a controller again that has stopped. The code
  has no supervisor, so this is an assumption on the operator.
- `ReservationsResolve` is conditional, `CrashesEnd /\ []<>Intact => …`: with crashes for
  ever, or a file cut short, nothing can be promised, and the code promises nothing
  (a torn response is refused for good).

Fairness is per process, not per action: the scheduler of the host runs processes. No
other module states liveness: every other program stops at its first exception and is
started again by a person whom nothing obliges to.

## Proofs

TLC checks two or three processes and two cases. The theorems hold for any number of
each, any caps and costs that satisfy the assumptions, any assignment of progress
directories, with short writes and a clock that is set back, and any number of Docker
failures.

| Theorem | Says | Along |
|---|---|---|
| `LedgerTypeCorrect`, `EveryReservationFits` (`V021SpendLedger_proofs`) | Well-formed events only; one reservation at most is unresolved and its largest price fits under the total cap. | `ReservationsFit` is not inductive: a response may cost anything up to the cap, so one needs `CapInv`, that the total is at most `PerCaseCap` times the settled cases and at most one case is unresolved. |
| `PublicReaderIsSound` (`V021SpendLedger_proofs`) | The two readers of the ledger, written apart, agree: what the public inspector accepts the campaign's verifier accepts, its caps and its earliest time included, with every case completed. | The inspector does not know the authorization, so it cannot compare times with it; `DatedInv` says that it need not: whatever stands after the claim was appended to a ledger that verified, so its claim is not earlier. The rest holds of every file: `PublicLogged` says which cases are in which state after each of its lines. |
| `GenTypeCorrect`, `CampaignFits` (`V021Generation_proofs`) | The same for the whole campaign with its controllers. | `TypeInv` also says what a controller holds at each step (`Holding`); every step of the campaign is a step of the ledger or leaves it alone (`GenLedgerStep`), and `CapStep` carries over. |
| `CalledAtMostOnce` (`V021Generation_proofs`) | No case is called twice, whatever excludes the controllers. | `CallInv`: a case that was called is `Admitted` in the ledger. It is the ledger, not the lock, that stops a second call. |
| `CampaignIsOneShot` (`V021Generation_proofs`) | While no append is cut short, the campaign refines the one-shot budget. | `CallOrder`: a call comes after the reservation, and whatever tells of an answer, the ledger, the response file or the controller, after the call. It ties the phase of a case to its state and its calls (`PhaseIs`); `StepMaps` sends each append and each call to the action of its name. |
| `BoundStaysDurable` (`V021Generation_proofs`) | What the ledger binds is on file, with or without a common lock. | `InOrderInv`: lines 3c - 1, 3c and 3c + 1 are those of case c, so the length of the log says the state of every case (`LogInv`); one process at a time fills a file (`OneFiller`), and what a run holds at each step is on file or in the log (`RunInv`, `IssuedInv`). |
| `LedgerStaysReadable` (`V021Generation_proofs`) | While no clock is set back, every uncut ledger is accepted by its own verifier. | `TimeInv` on top of `InOrderInv`. An append does not compare its timestamp with the last line: of the processes that wait for the guard, the one whose append is accepted took its time after that line was written (`Waiting`). |
| `BarrierStaysBound` (`V021Generation_proofs`) | At the barrier the public inspector accepts the ledger, and the results named are bound and on file. | `TimelyInv`: a run that went through its ledger read one in order of time. The inspector's sum is the running total: `TotalAppends`, an induction over the log. |
| `HaltStaysFinal`, `RejectionsStayExplained` (`V021Generation_proofs`) | Under `CommonLock`, one progress directory: an unknown-spend result is final, and a run is rejected for a cut file, a clock set back or a held lock only. | `LockInv`, and for the one controller that runs (`Alone`) `HaltInv` and `Explained`: what it meets in the ledger and in the files is what it left there, or what a run before it left. `RejectionsExplained` needs `CapInv`: no response is too expensive. |
| `OnlyOneAuthorization`, `OnlyOneLedger` (`V021Authorization_proofs`) | One authorization and one ledger for a preregistration, for any operators that crash and delete. | `IssuanceInv` says that one operator at a time fills the issuance and that what was accepted is what it holds; `OwnerInv` that from the creation of a claim until its ledger is verified one operator owns it and no ledger of it was opened; `OpenedInv` that an opened ledger belongs to the operator its claim names. |
| `ReservedOnceEver`, `OneClaimForLife` (`V021Authorization_proofs`) | Over the life of the files, once a claim has returned: a case is reserved once, what was reserved in that ledger before its claim returned included. | `LifeInv` joins the invariants of both components; `InUseIsNotNew`: only the owner of a claim makes a new file, and nobody owns one once a ledger was opened; before that, a new file begins the count again. `ReservedInv`: a case whose reservation counts is reserved in the ledger on file. |
| `SpentOnceByApproval`, `LineageOfEveryCall`, `CommittedBefore` (`V021Authorization_proofs`) | Whatever documents operators prepare again, remove and put in place of one another, between any two steps: what was approved is spent once, every paid call is made under one lineage of documents, and every case is evaluated with what was committed to before its call. | `DocumentInv`. A document that was written never changes (`Grows`), only the paths move; so what a preparation verified of the documents it binds is a fact about its own for good (`RowsInv`, one `…Facts` per kind), and whoever holds a digest holds that fact. What a controller knows at each step (`UnderFreeze`, `RunInv`), what a program of v0.2.1 was issued (`SessionInv`), and which workspace claimed an authorization (`ClaimsInv`) are such facts; so are those of a call when it is made (`CallsInv`). A lineage is what one gets by following the facts from the call to the smoke (`ExactLineage`, `EvidenceLineage`). |
| `AcceptsWhatReproduces` (`CandidateEvaluation_proofs`) | A receipt accepts a candidate exactly when its runs reproduce the failure. | `EvaluationInv`: a receipt on file is that of a gold pair that attests and of runs that are complete. `VerifiedMeans` says what the order of the tests in `Classify` comes to; that one fingerprint was seen is a fact about the image of a finite set (`OnePrint`). |
| `ReaderRefusesTheIndistinct` (`CandidateEvaluation_proofs`) | The reader of a receipt accepts what the evaluator wrote exactly when the evidence on file tells the outcome from the others. | On `EvaluationInv`: part by part what the reader asks, against what the evaluator required (`GoldReads`, `RunsRead`, `RecomputesUnless`). |
| `EvaluationTypeCorrect`, `PublishesWhatIsEvaluated`, `SetStaysVerified` (`V021Evaluation_proofs`) | What processes without a lock publish is what was evaluated, and fits together. | `FillInv`: who created a file fills it, so a whole file stays what it is (`Grown`), and what a process read of it stays true (`KnowInv`); what is published was known to who published it (`FileInv`). |
| `RejectionsStayExplained` (`V021Evaluation_proofs`) | A process that ran alone is rejected for a cause on file only. | `AloneInv`: what a process that is alone found absent is absent. `WhyInv`: the causes stay on file; a torn file that is found while one is alone has nobody to fill it any more (`Abandoned`). |
| `LeftoversAlwaysExplained` (`Reproduction_proofs`) | What a Docker controller leaves is explained by a failure of the daemon. | The property is inductive by itself, for any program of instructions. |
| `AcceptanceIsAlwaysEarned` (`Reproduction_proofs`) | Whatever fails, a candidate is accepted only on as many executions as were asked for, each of which was what the verdict says of it. | `EarnedInv`. What is left of a program is `Light`, nothing in it runs the candidate or judges, or it is on its plan (`OnPlan`): before the next judgment it still holds as many instructions that run the candidate (`Weigh`) as executions are missing (`Ahead`), and the dependency handle, which tells the two verdicts apart, was issued or will be asked for (`Held`). An exception replaces all up to its handler by a `raise`, and as no handler around a judgment swallows it, the judgment is never reached (`UnwoundOnPlan`). The programs are shown to be such plans as they are written (`RunsToCome`, `TrialEntered`, `WholeEntered`), and the classifiers to be exact (`BaseIsExact`, `DifferentialIsExact`). |
| `SuccessAlwaysMeansGone` (`Reproduction_proofs`) | Whatever fails, a report or a return means that nothing is left, a closed executor left only what came late, and a good handle has a true receipt. | `GoneInv`. A program is in one of three ways (`Kept`). `Calm`: nothing has failed, so all that exists is registered (`AllRegistered`), and the cleanup of the sandbox lies ahead, is under way, or has left nothing, with only a `Barren` rest behind it (`Swept`). `Fallen`: an exception is under way; every handler of the two programs only tidies and raises again (`FallingKinds`, `UnwoundFalls`), so nothing is filed and the program cannot return. `Reported`: the report is on file and nothing is left. For the executor, `Closing` follows `ExecutorCleanup` from its first step to "cleaned" (its sweep has left nothing), `Underway` the preparation up to the handle, and `Lent` what runs while the handle is good: it creates nothing that mounts the removed volumes (`LateMounts`) and removes none of the three (`LendingKinds`). |
| `CaseCalledOnce`, `OneCallInDoubt` (`V02Runner_proofs`) | The v0.2 runner calls a case once, even if its ledger is lost; one call at most is in doubt. | `CallInv` on the record of consumed calls, which the loss does not touch; `UnmatchedInv`: only the start of a call leaves one in doubt, and it looks at every case in the same step. |
| `CommittedStaysDurable` (`V02Runner_proofs`) | The candidate of every attempt that has one, and both results of every attempt that ended, are on file, whoever is killed and however often the ledger is lost. | `FileInv`: files are added once; where a process may commit a candidate, or end an attempt, it has the file behind it (`GeneratorInv`, `OperatorInv`). Every other event only `Endures`. |
| `SealedSpendStaysTrue` (`V02Runner_proofs`) | A frozen disposition states what its call cost, whoever recorded the cost: the process that called, the same process as it fills in what is missing, or recoveries beside it. | `SpendInv`, on top of `FileInv`: `SpendOf` ties call, usage and model cost of an attempt to the provider's answer; `MissingIsTrue` keeps what a process found missing true until it records it. Every event of the ledger is truthful (`LedgerTruthful`). |
| `EvaluatedByOne`, `SealedStays` (`V02Runner_proofs`) | One invocation at most evaluates an attempt; nothing the barrier commits to changes while it stands. | `OnceInv`: an evaluation leaves a trace with its first event (`EvaluatedOnce`), the lock has one holder, and a holder that evaluates is the first (`FirstOperator`); the barrier stands over dispositions only (`AllDisposed`). Every event is `Onward`: it takes no trace back, and nothing behind a disposition. |
| `GenerationStaysAccounted` (`V02Runner_proofs`) | A generating process that ends leaves its attempt accounted for: a disposition, a terminal event, or a passed deadline. | `AccountInv`: what the attempt of a process is like at each label of it (`OnTrack`), as long as no recovery has announced itself there; a recovery does so before all else (`StayRecovered`), and an evaluation waits for the barrier, hence for the disposition. |
| `ProgressStaysTrue`, `SealedResultsAgree`, `SealedReceiptsStay` (`V02Finalization_proofs`) | The progress of an exact-image campaign is true; a sealed verdict rests on one run, whose receipt stays. | `CampaignInv`: the controller waits for the one process it called, every other is idle or gone (`Shapes`), so at each label of a call its case is where that process left it (`GeneratorInv`, `RecoveryInv`, `EvaluatorInv`), and all the others are `Sound`: sealed, or open with a receipt that agrees with the phase that is finished (`FinishedInv`). |
| `HaltsStayExplained` (`V02Finalization_proofs`) | Whoever is killed and however often it is started again, an exact-image campaign that halts for no cause outside of it has on file what blocks a case: amounts above the reservation or a cap included. | `HaltInv`. An attempt is `Lawful` wherever it was left: what a generation or a recovery that was cut short leaves, the next recovery can replay (`Left`). At each label of a call that the controller waits for, the attempt is what lets the call go on, or what blocks its case is there already (`TrackInv`, `ReplayInv`, `SealInv`); so a call that ends without its result has a cause on file. Cases are taken in their order (`OrderInv`), which leaves nothing that could refuse the barrier (`BarrierIsFree`). |
| `SemanticVerdictsAreEarned`, `FinalPairStaysTrue`, `BundlesStayTrue` (`V02Finalization_proofs`) | An L2 verdict is earned; the public record has its private one and the two verify; what is bound stays what is on file, and the published calls are those that were made. | `FinalInv`: what a finalization has read, up to where it is (`HasRead`), is true of what is on file, part by part (`LedgerRead`, `ResultsRead`, `ControlsRead`), and stays so whatever moves between two reads (`Preserved`); what it drafted or wrote is a `Bundle`, and the one process that created the private record fills it (`FilerInv`). The campaign may run on meanwhile, but once every attempt has ended its steps change nothing a finalization reads (`NothingAfterTheEnd`, on `CampaignInv` and `UnfinishedInv`); `CallsInv` ties calls in the ledger to calls of the provider. |

The assumptions are `CasesAssumption`, `CapAssumption`, `ResponseAssumption`,
`TimeAssumption`, `ControllerAssumption` and `OperatorAssumption`, for the runner
`AttemptAssumption` and `RunnerAssumption`, for the exact campaign and its end
`CampaignAssumption`, `ReserveAssumption` and `DraftAssumption`, for the documents
`DocumentAssumption` and `KindsAssumption` (the kinds of v0.2.1 are among the kinds),
for the evaluations the two `EvaluationAssumption` and `FileAssumption`, and for the
sandboxes `ObjectsAssumption`, `FingerprintsAssumption` (a fingerprint is none of the
other readings of a report) and `ResultsAssumption` (what a run returns is an
`Execution`: a container that was left to end and left a report in its new volume did
run) and `OwnersAssumption` (the dependency executor registers what it is about to
create, nothing escapes the registries, and the containers mount what `SandboxMounts`
and `ExecutorMounts` say). They are evaluated by TLC on the instances. In the source
`CapAssumption` is `20 * PER_CASE_CAP_USD <= TOTAL_CAP_USD`, and `ReserveAssumption`,
that the reservations of all cases fit below the cap of the campaign, is what the
execution freeze is refused for otherwise (`benchmark_v02_execution_freeze.py:325`):
without it an attempt could be refused for the reservations of others, which blocks no
case. Some theorems have a hypothesis of their own: `LedgerStaysReadable` that
`ClockStepsBack` is false (a clock that is set back between two appends does make the
ledger unreadable: the case "ledger" of `RejectionsExplained`), `HaltStaysFinal` and
`RejectionsStayExplained` that the controllers have one progress directory
(`CommonLock`), without which neither holds, and the three about finalization
`MarksAreNoRecords`: `NoFile` and `CutShort` differ and no private record is one of
them, which says of all values what TLC cannot enumerate.

The installed provers cannot use the library's induction theorems, which take an operator.
`Induction` in `V021Generation_proofs` says the same of a set and follows from the
pigeonhole principle; `TotalAppends`, what the inspector's recursive sum says of one more
line, rests on it.

**Only model-checked.** Liveness (`ReservationsResolve`), which is out of the
prover's reach under fairness, and the gold smoke (`CapabilityIsEarned`,
`OnlyStagingIsLeft`), whose program goes through the cases one after the other, so that
what is left of it is defined by recursion over them.

## Disagreements with the code

- **A failed claim takes a used ledger's claim away** (`MCV021LedgersForsaken`). The
  writer of a ledger that fails after its line is on file, as at an `fsync`, unlinks its
  claim in the handler (`benchmark_v021_ledger.py:125-128`). In between,
  `reserve_v021_case` of another process with the same authorization finds claim and
  ledger in order and reserves, so that a call may be paid for. Nothing outside of the
  campaign's directories remembers it then: with the file deleted, the ledger is claimed
  afresh and the case is available again, where the module calls the ledger and its
  reservations irreversible (`:1`, `:382`). Once a claim has returned this cannot happen
  (`ClaimStays`, `ReservedOnce`).
- **A rejected recovery crashes a sealed attempt** (`MCV02RunnerSealed`).
  `_preflight_recovery_state` says "Fail closed before any recovery mutation"
  (`benchmark_v02_runner.py:3462`) and rejects after the barrier (`:3471`), but it runs
  inside the `try` of `recover_v02_scored_case`, whose handler appends `attempt_crashed`
  whenever the attempt was recovered before. Asking for the recovery once more, or being
  overtaken by the barrier, makes a case terminal that had its disposition; evaluation
  refuses it from then on and it cannot be reopened. The same handler turns a transient
  rejection, such as another case's call that is in flight, into a crash.

Seen while modelling, and part of the models without a run of its own:

- v0.2.1 generation. A halt is not final without a common progress directory: the lock is
  beside the caller's progress file (`benchmark_v021_campaign_controller.py:134`, `:191`),
  and the phase is said to run "under a single campaign lock" (`:121`). A partial write
  admits a call: `_append_locked` (`benchmark_v021_ledger.py:653`) ignores how much one
  unbuffered `write` took, so the provider may be called with no whole reservation on
  file; no second call follows.
- Candidate evaluator. A run killed at its timeout or output bound has exit code -9,
  outside the range its verifier accepts; `infrastructure_failure`, and a reproduction
  withdrawn because a passing run is not attributable, are not recomputed by it. The
  receipt is on file, so every later run of the automated evaluation is rejected at that
  case. A failed collection of the candidate raises, and so leaves no receipt, where
  `docs/evaluation.md:392` lists it as a terminal outcome. A run of the evaluator that
  fails after it began is billed nowhere.
- v0.2 runner. Two interrupted attempts wait for each other's costs and neither can be
  recovered (`benchmark_v02_runner.py:3751`); an attempt that passes its wall-clock cap just
  as its generation ends has neither a disposition nor a crash (`:3785`), so the barrier is
  out of reach, where `docs/decisions/0009` has each case record exactly one disposition.
- Verifier. A container that `docker start` never ran has the exit code 0 in its state, and
  without a look at the report that counts as `pass_on_base` (`verifier.py:303`), which
  `docs/evaluation.md:402` describes as "Candidate runs but does not fail on the buggy
  base". It is never taken for a reproduction.
- Gold smoke. A row stays `semantic_valid`, and is counted as such, although the clean-up of
  its executor failed: the handler (`benchmark_v02_instance_controller.py:358`) replaces
  only the reason. No capability is issued over such a receipt.
- Exact campaign. A complete campaign that is started again goes back to "running" and
  has rows `generation_frozen`. An evaluation that raises while it is repeated crashes an
  attempt that had a good receipt.
- Finalization. No command seals the infrastructure review that finalization requires of
  a case without network; the tests edit it into the set
  (`tests/test_benchmark_v02_campaign.py:926-935`). `verify_v02_campaign_bundle`
  (`benchmark_v02_campaign.py:681-728`) passes no exact preregistration on and so refuses
  every exact-image campaign. The command line passes no authorities of executed
  controls, so its L2 count is always 0. A review set sealed against receipts of executed
  controls cannot be used by a finalization without authorities, nor the reverse.
- Documents. Exact case preparation wants a capability index of 20 executed cases and
  the exact preregistration one of 19, so the two cannot share one. The same approval
  can be authorized twice in v0.2: each authorization file has a claim and a ledger of
  its own, where the freeze says one campaign. The human mode of the v0.2.1
  preregistration is out of reach: `prepare_v02_mapping_packets` writes the digest of a
  file where `benchmark_v021_preregistration` compares the self-hash within it, as the
  fixture (`tests/test_benchmark_v021_preregistration.py:158`) has it. An automated
  evaluation compares only the evidence's request set with the plan
  (`benchmark_v021_automated_evaluation.py:186`), so it may run under other evidence
  over the same requests than was preregistered, and the aggregate then names both.
  `EvaluatedAsCommitted` says what is guaranteed all the same. That the gold smoke is of
  the commit of the freeze is compared by nobody but the configuration
  (`_require_final_tool_sha`), while the preflight takes the preregistration from its
  path again: with another one put there after the configuration was verified, the smoke
  may be of another commit. The proof of `LineageOfEveryCall` failed at this point and a
  directed search found a behaviour of fifteen acts of the operators, more than any
  scope of the run has. `OneLineage` claims the commit of the smoke for the
  preregistration of the configuration only.

## Not modelled

*Of the modelled components.* A crash is that of a process: the kernel keeps every write
it took. A power loss after which an unsynced directory entry is gone is not modelled.
JSON, digests, wording, permissions, path checks and the layout of records are not
modelled, nor is the provider's exchange over HTTPS beyond its outcome. The amounts of
the v0.2 runner are classes, zero, within or above reservation and cap, not numbers that
add up: a cost after one that brought its attempt above a bound does not say so again,
and which of two measured costs is the larger is not told. There is no cut line in its
ledger, which its decoder refuses for good. Somebody who edits files by hand is outside
all models; where operators replace files, they replace them by what a command wrote.

In the document modules a command reads its inputs while nobody replaces them; files are
replaced between commands, between the runs of a controller and between its steps. A
command that is killed leaves at most a torn file, which every verifier refuses, so
kills are left out there. Times are given truthfully: a document is later than what it
binds. What the hidden extraction holds is a function of the frozen plan, so that
comparing patches tells nothing. A review of an amendment is pending in every state the
commands reach.

*Left out as a whole.* **Intake and sources** (`intake`, `git_objects`, `github_blobs`,
`codeload_transport`, `*object_source`): network input and archive parsing; content is
compared with its object id, nothing is kept between attempts. **Datasets and cohort
selection**: parsing and selection over data, in bounded workers. **v0.1 benchmark**: a
finished benchmark whose code audits published records. **Publication package, schemas,
scripts**: structural validators of one finished document each. **Isolation canary**: a
fixed probe sequence whose result is the host's. **Command line** (`cli`): argument
parsing in front of the components above. **Project site**: static.

## Plan

What would come next, in the order of importance:

1. Amounts in the v0.2 ledger as numbers that add up, and the sums of the published summary;
   cut lines.
2. The commands of a causal control over `DockerOwnership`, as `Reproduction` has them.
3. Bounded retries and redirects of the intake.
