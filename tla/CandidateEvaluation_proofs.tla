--------------------- MODULE CandidateEvaluation_proofs ---------------------
(***************************************************************************)
(* What a receipt of the hidden evaluator says: it accepts a candidate     *)
(* exactly when its runs reproduce the failure, and its reader agrees with *)
(* it exactly when the evidence on file tells the outcome from the others. *)
(* For any order of the runs that has one on the base and one on the fixed *)
(* tree, any results of them and any failures, with interruptions at any   *)
(* step.                                                                   *)
(***************************************************************************)
EXTENDS CandidateEvaluation, FiniteSetTheorems, TLAPS

\* A gold pair that attests the environment, and runs that were made after it.
GoldOk(g) ==
    /\ g = [ph \in GoldPhases |-> g[ph]]
    /\ \A ph \in GoldPhases : g[ph] \in Results
    /\ CleanCollection(g["gold_base_collect"]) /\ CleanCollection(g["gold_fixed_collect"])
    /\ GoldPair(g["gold_base"], g["gold_fixed"])
    /\ profile # "pytest-v1" => /\ g["gold_base_collect"] = NotRun
                                /\ g["gold_fixed_collect"] = NotRun

RunsOk(rs) ==
    /\ rs \in Seq(Run) /\ Len(rs) <= Len(RunOrder)
    /\ \A i \in DOMAIN rs :
          /\ rs[i].workspace = RunOrder[i] /\ CleanCollection(rs[i].collection)
          /\ profile # "pytest-v1" => rs[i].collection = NotRun

Complete(rs) == RunsOk(rs) /\ Len(rs) = Len(RunOrder)

EvaluationInv ==
    /\ profile \in Profiles
    /\ RunsOk(runs) /\ DOMAIN gold = GoldPhases
    /\ pc \in {"runs", "fill"} => GoldOk(gold)
    /\ pc = "fill" => Len(runs) = Len(RunOrder)
    /\ OnFile => Complete(observed) /\ \E g : GoldOk(g) /\ receipt = Receipt(g, observed)

-----------------------------------------------------------------------------
(* The steps *)

LEMMA NotRunIsClean == NotRun \in Results /\ CleanCollection(NotRun)
BY DEF NotRun, Results, Flags, Traces, CleanCollection, WithinBounds

LEMMA InitEvaluation == Init => EvaluationInv
<1> SUFFICES ASSUME Init PROVE EvaluationInv
  OBVIOUS
<1>1. Len(<< >>) = 0 /\ << >> \in Seq(Run) /\ Len(RunOrder) \in Nat
  BY EvaluationAssumption
<1> QED BY <1>1 DEF Init, EvaluationInv, RunsOk, OnFile

\* The profile of a case never changes, so nothing that is decided with it does.
LEMMA SameDecision ==
  ASSUME profile' = profile
  PROVE  /\ \A g, rs : Receipt(g, rs)' = Receipt(g, rs)
         /\ \A g : GoldOk(g)' <=> GoldOk(g)
         /\ \A rs : RunsOk(rs)' <=> RunsOk(rs)
         /\ \A rs : Complete(rs)' <=> Complete(rs)
<1>1. ASSUME NEW o PROVE Attributable(o)' <=> Attributable(o)
  BY DEF Attributable
<1>2. ASSUME NEW o PROVE Fingerprint(o)' = Fingerprint(o)
  BY <1>1 DEF Fingerprint
<1>3. ASSUME NEW o PROVE Evidence(o)' = Evidence(o)
  BY DEF Evidence
<1>4. ASSUME NEW rs PROVE Classify(rs)' = Classify(rs)
  <2>1. {Fingerprint(x.result) : x \in On("base", rs)}'
          = {Fingerprint(x.result) : x \in On("base", rs)}
    BY <1>2
  <2> QED BY <2>1 DEF Classify
<1>5. ASSUME NEW rs PROVE Outcome(rs)' = Outcome(rs)
  BY <1>1, <1>4 DEF Outcome
<1>6. ASSUME NEW g, NEW rs PROVE Receipt(g, rs)' = Receipt(g, rs)
  <2>1. [ph \in DOMAIN g |-> Evidence(g[ph])]' = [ph \in DOMAIN g |-> Evidence(g[ph])]
    BY <1>3
  <2>2. [i \in DOMAIN rs |-> [workspace |-> rs[i].workspace,
                              collection |-> Evidence(rs[i].collection),
                              fingerprint |-> Fingerprint(rs[i].result),
                              result |-> Evidence(rs[i].result)]]'
          = [i \in DOMAIN rs |-> [workspace |-> rs[i].workspace,
                                  collection |-> Evidence(rs[i].collection),
                                  fingerprint |-> Fingerprint(rs[i].result),
                                  result |-> Evidence(rs[i].result)]]
    BY <1>2, <1>3
  <2> QED BY <1>5, <2>1, <2>2 DEF Receipt
<1>7. ASSUME NEW g PROVE GoldOk(g)' <=> GoldOk(g)
  BY DEF GoldOk
<1>8. ASSUME NEW rs PROVE RunsOk(rs)' <=> RunsOk(rs)
  BY DEF RunsOk
<1>9. ASSUME NEW rs PROVE Complete(rs)' <=> Complete(rs)
  BY <1>8 DEF Complete
<1> QED BY <1>6, <1>7, <1>8, <1>9

\* A step that touches neither the receipt nor what is behind it.
LEMMA FileStays ==
  ASSUME EvaluationInv, UNCHANGED <<profile, receipt, observed>>
  PROVE  (OnFile => Complete(observed) /\ \E g : GoldOk(g) /\ receipt = Receipt(g, observed))'
<1> SUFFICES ASSUME OnFile'
             PROVE  /\ Complete(observed)'
                    /\ \E g : GoldOk(g)' /\ receipt' = Receipt(g, observed)'
  OBVIOUS
<1>1. OnFile
  BY DEF OnFile
<1>2. Complete(observed)
  BY <1>1 DEF EvaluationInv
<1>3. PICK g : GoldOk(g) /\ receipt = Receipt(g, observed)
  BY <1>1 DEF EvaluationInv
<1>4. Complete(observed)'
  BY <1>2, SameDecision
<1>5. GoldOk(g)' /\ receipt' = Receipt(g, observed)'
  BY <1>3, SameDecision
<1> QED BY <1>4, <1>5

LEMMA RaiseStep ==
  ASSUME EvaluationInv, Raise PROVE EvaluationInv'
<1>1. /\ profile' = profile /\ runs' = << >> /\ pc' = "idle" /\ DOMAIN gold' = GoldPhases
      /\ UNCHANGED <<profile, receipt, observed>>
  BY DEF Raise, Forget
<1>2. RunsOk(<< >>)
  <2>1. Len(<< >>) = 0 /\ << >> \in Seq(Run) /\ Len(RunOrder) \in Nat
    BY EvaluationAssumption
  <2> QED BY <2>1 DEF RunsOk
<1>3. RunsOk(runs)'
  BY <1>1, <1>2, SameDecision
<1> QED BY <1>1, <1>3, FileStays DEF EvaluationInv

LEMMA GoldStep ==
  ASSUME EvaluationInv, RunGold PROVE EvaluationInv'
<1>1. PICK bc, fc \in Collectable(GoldObservable), b, f \in GoldObservable :
        IF CleanCollection(bc) /\ CleanCollection(fc) /\ GoldPair(b, f)
        THEN /\ gold' = [gold EXCEPT !["gold_base_collect"] = bc,
                                     !["gold_fixed_collect"] = fc,
                                     !["gold_base"] = b, !["gold_fixed"] = f]
             /\ pc' = "runs"
             /\ UNCHANGED <<profile, runs, receipt, observed>>
        ELSE Raise
  BY DEF RunGold
<1>2. CASE CleanCollection(bc) /\ CleanCollection(fc) /\ GoldPair(b, f)
  <2>1. /\ gold' = [gold EXCEPT !["gold_base_collect"] = bc, !["gold_fixed_collect"] = fc,
                                !["gold_base"] = b, !["gold_fixed"] = f]
        /\ pc' = "runs" /\ profile' = profile /\ runs' = runs
        /\ UNCHANGED <<profile, receipt, observed>>
    BY <1>1, <1>2
  <2>2. bc \in Results /\ fc \in Results /\ b \in Results /\ f \in Results
    BY EvaluationAssumption, NotRunIsClean DEF Collectable
  <2>3. profile # "pytest-v1" => bc = NotRun /\ fc = NotRun
    BY DEF Collectable
  <2>4. DOMAIN gold = GoldPhases
    BY DEF EvaluationInv
  <2>5. GoldOk(gold')
    BY <1>2, <2>1, <2>2, <2>3, <2>4 DEF GoldOk, GoldPhases
  <2>6. GoldOk(gold)'
    BY <2>1, <2>5, SameDecision
  <2>7. RunsOk(runs)'
    BY <2>1, SameDecision DEF EvaluationInv
  <2>8. (DOMAIN gold = GoldPhases)'
    BY <2>1, <2>4
  <2> QED BY <2>1, <2>6, <2>7, <2>8, FileStays DEF EvaluationInv
<1>3. CASE ~(CleanCollection(bc) /\ CleanCollection(fc) /\ GoldPair(b, f))
  BY <1>1, <1>3, RaiseStep
<1> QED BY <1>2, <1>3

LEMMA CandidateStep ==
  ASSUME EvaluationInv, RunCandidate PROVE EvaluationInv'
<1>1. PICK c \in Collectable(Collected), o \in Observable :
        IF CleanCollection(c)
        THEN /\ runs' = Append(runs, [workspace |-> RunOrder[Len(runs) + 1],
                                      collection |-> c, result |-> o])
             /\ UNCHANGED <<profile, pc, gold, receipt, observed>>
        ELSE Raise
  BY DEF RunCandidate
<1>2. CASE CleanCollection(c)
  <2> DEFINE run == [workspace |-> RunOrder[Len(runs) + 1], collection |-> c, result |-> o]
  <2>1. /\ runs' = Append(runs, run) /\ profile' = profile /\ pc' = pc /\ gold' = gold
        /\ UNCHANGED <<profile, receipt, observed>>
    BY <1>1, <1>2
  <2>2. runs \in Seq(Run) /\ Len(runs) < Len(RunOrder) /\ pc = "runs"
    BY DEF EvaluationInv, RunsOk, RunCandidate
  <2>3. RunOrder[Len(runs) + 1] \in {"base", "fixed"}
    BY <2>2, EvaluationAssumption
  <2>4. run \in Run
    BY <2>3, EvaluationAssumption, NotRunIsClean DEF Run, Collectable
  <2>5. runs' \in Seq(Run) /\ Len(runs') = Len(runs) + 1
    BY <2>1, <2>2, <2>4
  <2>6. ASSUME NEW i \in DOMAIN runs'
        PROVE  /\ runs'[i].workspace = RunOrder[i] /\ CleanCollection(runs'[i].collection)
               /\ profile # "pytest-v1" => runs'[i].collection = NotRun
    <3>1. CASE i = Len(runs) + 1
      <4>1. runs'[i] = run
        BY <2>1, <2>2, <3>1
      <4> QED BY <1>2, <3>1, <4>1 DEF Collectable
    <3>2. CASE i # Len(runs) + 1
      <4>1. i \in DOMAIN runs /\ runs'[i] = runs[i]
        BY <2>1, <2>2, <2>5, <3>2
      <4> QED BY <4>1 DEF EvaluationInv, RunsOk
    <3> QED BY <3>1, <3>2
  <2>7. RunsOk(runs')
    BY <2>2, <2>5, <2>6, EvaluationAssumption DEF RunsOk
  <2>8. RunsOk(runs)'
    BY <2>1, <2>7, SameDecision
  <2>9. GoldOk(gold)'
    BY <2>1, <2>2, SameDecision DEF EvaluationInv
  <2> QED BY <2>1, <2>2, <2>8, <2>9, FileStays DEF EvaluationInv
<1>3. CASE ~CleanCollection(c)
  BY <1>1, <1>3, RaiseStep
<1> QED BY <1>2, <1>3

LEMMA FillStep ==
  ASSUME EvaluationInv, FillReceipt PROVE EvaluationInv'
<1>1. /\ profile' = profile /\ runs' = << >> /\ pc' = "idle"
      /\ receipt' = Receipt(gold, runs) /\ observed' = runs
      /\ gold' = [ph \in GoldPhases |-> NotRun]
  BY DEF FillReceipt, Forget
<1>2. GoldOk(gold) /\ Complete(runs)
  BY DEF FillReceipt, EvaluationInv, Complete
<1>3. RunsOk(<< >>)
  <2>1. Len(<< >>) = 0 /\ << >> \in Seq(Run) /\ Len(RunOrder) \in Nat
    BY EvaluationAssumption
  <2> QED BY <2>1 DEF RunsOk
<1>4. RunsOk(runs)'
  BY <1>1, <1>3, SameDecision
<1>5. Complete(observed)'
  BY <1>1, <1>2, SameDecision
<1>6. \E g : GoldOk(g)' /\ receipt' = Receipt(g, observed)'
  BY <1>1, <1>2, SameDecision
<1> QED BY <1>1, <1>4, <1>5, <1>6 DEF EvaluationInv

LEMMA EvaluationIsKept == EvaluationInv /\ [Next]_vars => EvaluationInv'
<1> SUFFICES ASSUME EvaluationInv, [Next]_vars PROVE EvaluationInv'
  OBVIOUS
<1>1. CASE Start
  <2>1. /\ profile' = profile /\ runs' = runs /\ pc' = "gold" /\ gold' = gold
        /\ UNCHANGED <<profile, receipt, observed>>
    BY <1>1 DEF Start
  <2>2. RunsOk(runs)'
    BY <2>1, SameDecision DEF EvaluationInv
  <2> QED BY <2>1, <2>2, FileStays DEF EvaluationInv
<1>2. CASE RunGold
  BY <1>2, GoldStep
<1>3. CASE RunCandidate
  BY <1>3, CandidateStep
<1>4. CASE CreateReceipt
  <2>1. /\ profile' = profile /\ runs' = runs /\ pc' = "fill" /\ gold' = gold
        /\ receipt' = Torn /\ Len(runs) = Len(RunOrder)
    BY <1>4 DEF CreateReceipt
  <2>2. RunsOk(runs)' /\ GoldOk(gold)'
    BY <1>4, <2>1, SameDecision DEF EvaluationInv, CreateReceipt
  <2> QED BY <2>1, <2>2 DEF EvaluationInv, OnFile
<1>5. CASE FillReceipt
  BY <1>5, FillStep
<1>6. CASE Interrupt
  BY <1>6, RaiseStep DEF Interrupt
<1>7. CASE UNCHANGED vars
  <2>1. /\ profile' = profile /\ runs' = runs /\ pc' = pc /\ gold' = gold
        /\ UNCHANGED <<profile, receipt, observed>>
    BY <1>7 DEF vars
  <2>2. RunsOk(runs)' /\ (GoldOk(gold)' <=> GoldOk(gold))
    BY <2>1, SameDecision DEF EvaluationInv
  <2> QED BY <2>1, <2>2, FileStays DEF EvaluationInv
<1> QED BY <1>1, <1>2, <1>3, <1>4, <1>5, <1>6, <1>7 DEF Next

-----------------------------------------------------------------------------
(* The runs behind a receipt *)

\* Both workspaces occur in the frozen order, and the runs follow it.
LEMMA RunsOfBoth ==
  ASSUME NEW rs, Complete(rs)
  PROVE  /\ DOMAIN rs = 1 .. Len(RunOrder) /\ Len(RunOrder) \in Nat
         /\ \A i \in DOMAIN rs :
               rs[i] \in Run /\ rs[i].workspace = RunOrder[i]
               /\ rs[i].workspace \in {"base", "fixed"}
         /\ \A w \in {"base", "fixed"} : \E i \in DOMAIN rs : rs[i].workspace = w
<1>1. rs \in Seq(Run) /\ Len(rs) = Len(RunOrder)
      /\ \A i \in DOMAIN rs : rs[i].workspace = RunOrder[i]
  BY DEF Complete, RunsOk
<1>2. DOMAIN rs = 1 .. Len(RunOrder) /\ DOMAIN RunOrder = 1 .. Len(RunOrder)
      /\ Len(RunOrder) \in Nat
  BY <1>1, EvaluationAssumption
<1>3. ASSUME NEW i \in DOMAIN rs
      PROVE  rs[i] \in Run /\ rs[i].workspace \in {"base", "fixed"}
  <2>1. rs[i] \in Run
    BY <1>1, <1>2
  <2> QED BY <2>1 DEF Run
<1>4. ASSUME NEW w \in {"base", "fixed"} PROVE \E i \in DOMAIN rs : rs[i].workspace = w
  <2>1. PICK i \in DOMAIN RunOrder : RunOrder[i] = w
    BY EvaluationAssumption
  <2> QED BY <1>1, <1>2, <2>1
<1> QED BY <1>1, <1>2, <1>3, <1>4

\* The evidence of the runs in a workspace is finitely many things.
LEMMA FiniteImage ==
  ASSUME NEW S, IsFiniteSet(S), NEW f, NEW T,
         \A x \in S : f[x] \in T, \A t \in T : \E x \in S : t = f[x]
  PROVE  IsFiniteSet(T)
<1> DEFINE g == [x \in S |-> f[x]]
<1>1. g \in [S -> T] /\ \A t \in T : \E x \in S : g[x] = t
  OBVIOUS
<1>2. g \in Surjection(S, T)
  BY <1>1 DEF Surjection
<1> QED BY <1>2, FS_Surjection

LEMMA Witnessed ==
  ASSUME NEW rs, Complete(rs), NEW w \in {"base", "fixed"}
  PROVE  /\ \A i \in DOMAIN rs : rs[i].workspace = w => rs[i] \in On(w, rs)
         /\ \A x \in On(w, rs) : \E i \in DOMAIN rs : x = rs[i] /\ x.workspace = w
         /\ \E x : x \in On(w, rs)
         /\ IsFiniteSet(On(w, rs))
<1> DEFINE Places == {j \in DOMAIN rs : rs[j].workspace = w}
<1>1. IsFiniteSet(DOMAIN rs)
  BY RunsOfBoth, FS_Interval
<1>2. IsFiniteSet(Places)
  BY <1>1, FS_Subset
<1>3. /\ \A i \in Places : rs[i] \in On(w, rs)
      /\ \A x \in On(w, rs) : \E i \in Places : x = rs[i]
  BY DEF On
<1> HIDE DEF Places
<1>4. IsFiniteSet(On(w, rs))
  BY <1>2, <1>3, FiniteImage
<1> QED BY <1>3, <1>4, RunsOfBoth DEF Places

\* There is one exit of the runs of a workspace exactly when they all have it.
LEMMA OneExit ==
  ASSUME NEW rs, Complete(rs), NEW w \in {"base", "fixed"}, NEW e
  PROVE  /\ Exits(w, rs) = {e} => Cardinality(Exits(w, rs)) = 1
         /\ Exits(w, rs) = {e} <=> \A x \in On(w, rs) : x.result.exit = e
<1>1. PICK y : y \in On(w, rs)
  BY Witnessed
<1>2. Exits(w, rs) = {e} => Cardinality(Exits(w, rs)) = 1
  BY FS_Singleton
<1>3. ASSUME \A x \in On(w, rs) : x.result.exit = e PROVE Exits(w, rs) = {e}
  <2>1. e \in Exits(w, rs)
    BY <1>1, <1>3 DEF Exits
  <2>2. \A z \in Exits(w, rs) : z = e
    BY <1>3 DEF Exits
  <2> QED BY <2>1, <2>2
<1>4. ASSUME Exits(w, rs) = {e}, NEW x \in On(w, rs) PROVE x.result.exit = e
  <2>1. x.result.exit \in Exits(w, rs)
    BY DEF Exits
  <2> QED BY <1>4, <2>1
<1> QED BY <1>2, <1>3, <1>4

\* All the runs of a workspace show one failure, and it is none but a failure of
\* the candidate's assertion.
LEMMA OnePrint ==
  ASSUME NEW rs, Complete(rs), NEW w \in {"base", "fixed"}, NEW prints,
         prints = {Fingerprint(x.result) : x \in On(w, rs)}
  PROVE  Cardinality(prints) = 1 <=> \E f : \A x \in On(w, rs) : Fingerprint(x.result) = f
<1> DEFINE F == [x \in On(w, rs) |-> Fingerprint(x.result)]
<1>1. PICK y : y \in On(w, rs)
  BY Witnessed
<1>2. /\ \A x \in On(w, rs) : F[x] \in prints
      /\ \A t \in prints : \E x \in On(w, rs) : t = F[x]
  OBVIOUS
<1>3. IsFiniteSet(On(w, rs))
  BY Witnessed
<1> HIDE DEF F
<1>4. IsFiniteSet(prints)
  BY <1>2, <1>3, FiniteImage
<1>5. Cardinality(prints) = 1 <=> \E f : prints = {f}
  BY <1>4, FS_Singleton
<1>6. ASSUME NEW f, prints = {f}, NEW x \in On(w, rs) PROVE Fingerprint(x.result) = f
  <2>1. Fingerprint(x.result) \in prints
    OBVIOUS
  <2> QED BY <1>6, <2>1
<1>7. ASSUME NEW f, \A x \in On(w, rs) : Fingerprint(x.result) = f PROVE prints = {f}
  <2>1. f \in prints
    BY <1>1, <1>7
  <2>2. \A z \in prints : z = f
    BY <1>7
  <2> QED BY <2>1, <2>2
<1> QED BY <1>5, <1>6, <1>7

-----------------------------------------------------------------------------
(* When a candidate is accepted *)

LEMMA PlainRuns ==
  ASSUME NEW rs, Complete(rs)
  PROVE  \A i \in DOMAIN rs :
            /\ rs[i].result \in Results /\ rs[i].collection \in Results
            /\ rs[i].workspace \in {"base", "fixed"}
            /\ rs[i] \in On(rs[i].workspace, rs)
BY RunsOfBoth, Witnessed DEF Run

\* What _classify_candidate asks of a reproduction, without the order of the tests.
LEMMA VerifiedMeans ==
  ASSUME NEW rs, Complete(rs)
  PROVE  Classify(rs) = "verified_reproduction" <=>
            /\ \A i \in DOMAIN rs : rs[i].result.flags = {} /\ ~rs[i].result.marker
            /\ \A x \in On("base", rs) : x.result.exit = 1
            /\ \A x \in On("fixed", rs) : x.result.exit = 0
            /\ \E f : f # NoFingerprint
                      /\ \A x \in On("base", rs) : Fingerprint(x.result) = f
<1> DEFINE prints == {Fingerprint(x.result) : x \in On("base", rs)}
           Quiet == /\ ~Flagged("timed_out", rs) /\ ~Flagged("oom_killed", rs)
                    /\ ~Flagged("output_truncated", rs)
           Unmarked == \A i \in DOMAIN rs : ~rs[i].result.marker
           Told == NoFingerprint \notin prints /\ Cardinality(prints) = 1
<1>1. Classify(rs) = "verified_reproduction" <=>
        /\ Quiet /\ Unmarked
        /\ \A i \in DOMAIN rs : rs[i].result.exit \in {0, 1}
        /\ \A w \in {"base", "fixed"} : Cardinality(Exits(w, rs)) = 1
        /\ Exits("base", rs) = {1} /\ Exits("fixed", rs) = {0}
        /\ Told
  BY DEF Classify
<1>2. Quiet <=> \A i \in DOMAIN rs : rs[i].result.flags = {}
  <2>1. \A i \in DOMAIN rs : rs[i].result.flags \subseteq Flags
    BY PlainRuns DEF Results
  <2> QED BY <2>1 DEF Flagged, Flags
<1>3. Told <=> \E f : f # NoFingerprint
                      /\ \A x \in On("base", rs) : Fingerprint(x.result) = f
  <2>1. Cardinality(prints) = 1
          <=> \E f : \A x \in On("base", rs) : Fingerprint(x.result) = f
    BY OnePrint
  <2>2. PICK y : y \in On("base", rs)
    BY Witnessed
  <2> QED BY <2>1, <2>2
<1>4. ASSUME \A x \in On("base", rs) : x.result.exit = 1,
             \A x \in On("fixed", rs) : x.result.exit = 0
      PROVE  \A i \in DOMAIN rs : rs[i].result.exit \in {0, 1}
  BY <1>4, PlainRuns
<1>5. /\ Exits("base", rs) = {1} <=> \A x \in On("base", rs) : x.result.exit = 1
      /\ Exits("base", rs) = {1} => Cardinality(Exits("base", rs)) = 1
      /\ Exits("fixed", rs) = {0} <=> \A x \in On("fixed", rs) : x.result.exit = 0
      /\ Exits("fixed", rs) = {0} => Cardinality(Exits("fixed", rs)) = 1
  BY OneExit
<1> HIDE DEF Quiet, Told, prints
<1> QED BY <1>1, <1>2, <1>3, <1>4, <1>5

\* The outcome is a reproduction exactly when the runs reproduce the failure.
LEMMA AcceptsReproductions ==
  ASSUME NEW rs, Complete(rs), profile \in Profiles
  PROVE  Outcome(rs) = "verified_reproduction" <=> Reproduces(rs)
<1>1. Outcome(rs) = "verified_reproduction" <=>
        /\ Classify(rs) = "verified_reproduction"
        /\ \A i \in DOMAIN rs : Attributable(rs[i].result)
  BY DEF Outcome
<1>2. NoFingerprint \notin Fingerprints
  BY EvaluationAssumption DEF Traces
<1>3. ASSUME Classify(rs) = "verified_reproduction",
             \A i \in DOMAIN rs : Attributable(rs[i].result)
      PROVE  Reproduces(rs)
  <2>1. PICK f : f # NoFingerprint /\ \A x \in On("base", rs) : Fingerprint(x.result) = f
    BY <1>3, VerifiedMeans
  <2>2. ASSUME NEW x \in On("base", rs)
        PROVE  /\ f \in Fingerprints
               /\ x.result.exit = 1 /\ x.result.flags = {} /\ ~x.result.marker
              /\ x.result.trace = f
    <3>1. x.result \in Results
      BY PlainRuns, Witnessed
    <3>2. x.result.exit = 1 /\ Attributable(x.result) /\ x.result.trace = f
      BY <2>1, <2>2 DEF Fingerprint
    <3>3. x.result.flags = {} /\ ~x.result.marker /\ f \in Fingerprints
      BY <3>1, <3>2 DEF Attributable, Bounded, Results
    <3> QED BY <3>2, <3>3
  <2>3. ASSUME NEW x \in On("fixed", rs)
        PROVE  /\ x.result.exit = 0 /\ x.result.flags = {} /\ ~x.result.marker
               /\ profile = "pytest-v1" => x.result.trace = "passed"
    <3>1. x.result.exit = 0 /\ Attributable(x.result)
      BY <1>3, VerifiedMeans, Witnessed
    <3> QED BY <3>1 DEF Attributable, Bounded
  <2>4. \E x : x \in On("base", rs)
    BY Witnessed
  <2> QED BY <2>2, <2>3, <2>4 DEF Reproduces
<1>4. ASSUME Reproduces(rs)
      PROVE  /\ Classify(rs) = "verified_reproduction"
             /\ \A i \in DOMAIN rs : Attributable(rs[i].result)
  <2>1. PICK f \in Fingerprints : \A x \in On("base", rs) :
          x.result.exit = 1 /\ x.result.flags = {} /\ ~x.result.marker /\ x.result.trace = f
    BY <1>4 DEF Reproduces
  <2>2. \A x \in On("base", rs) :
          x.result.exit = 1 /\ x.result.flags = {} /\ ~x.result.marker /\ x.result.trace = f
    BY <2>1
  <2>3. \A x \in On("base", rs) : Attributable(x.result)
    BY <2>2 DEF Attributable, Bounded
  <2>4. \A x \in On("base", rs) : Fingerprint(x.result) = f
    BY <2>2, <2>3 DEF Fingerprint
  <2>5. \A x \in On("fixed", rs) :
          /\ Attributable(x.result)
          /\ x.result.exit = 0 /\ x.result.flags = {} /\ ~x.result.marker
    BY <1>4 DEF Reproduces, Attributable, Bounded, Profiles
  <2>6. \A i \in DOMAIN rs : /\ Attributable(rs[i].result)
                             /\ rs[i].result.flags = {} /\ ~rs[i].result.marker
    BY <2>2, <2>3, <2>5, PlainRuns
  <2> QED BY <1>2, <2>2, <2>4, <2>5, <2>6, VerifiedMeans
<1> QED BY <1>1, <1>3, <1>4

-----------------------------------------------------------------------------
(* What the reader of a receipt recomputes *)

\* The runs of a receipt, as it keeps them.
Kept(rs) == [i \in DOMAIN rs |-> [workspace |-> rs[i].workspace,
                                  collection |-> Evidence(rs[i].collection),
                                  fingerprint |-> Fingerprint(rs[i].result),
                                  result |-> Evidence(rs[i].result)]]

LEMMA EvidenceOf ==
  ASSUME NEW o
  PROVE  /\ Evidence(o).exit = o.exit /\ Evidence(o).flags = o.flags
         /\ Evidence(o).oversize = o.oversize
         /\ Evidence(o).junit = (profile = "pytest-v1" /\ o.trace # "absent")
BY Zenon DEF Evidence

\* The evidence has the exits, the flags and the fingerprints of the runs.
LEMMA KeptAgrees ==
  ASSUME NEW rs
  PROVE  /\ DOMAIN Kept(rs) = DOMAIN rs
         /\ \A i \in DOMAIN rs :
               /\ Kept(rs)[i].workspace = rs[i].workspace
               /\ Kept(rs)[i].result = Evidence(rs[i].result)
               /\ Kept(rs)[i].collection = Evidence(rs[i].collection)
               /\ Kept(rs)[i].fingerprint = Fingerprint(rs[i].result)
               /\ Kept(rs)[i].result.exit = rs[i].result.exit
               /\ Kept(rs)[i].result.flags = rs[i].result.flags
               /\ Kept(rs)[i].result.oversize = rs[i].result.oversize
         /\ \A w, e : Count(w, e, Kept(rs)) = Count(w, e, rs)
         /\ \A w : Exits(w, Kept(rs)) = Exits(w, rs)
         /\ \A flag : Flagged(flag, Kept(rs)) <=> Flagged(flag, rs)
         /\ {x.fingerprint : x \in On("base", Kept(rs))}
              = {Fingerprint(x.result) : x \in On("base", rs)}
<1>1. /\ DOMAIN Kept(rs) = DOMAIN rs
      /\ \A i \in DOMAIN rs :
            /\ Kept(rs)[i].workspace = rs[i].workspace
            /\ Kept(rs)[i].result = Evidence(rs[i].result)
            /\ Kept(rs)[i].collection = Evidence(rs[i].collection)
            /\ Kept(rs)[i].fingerprint = Fingerprint(rs[i].result)
  BY DEF Kept
<1>2. \A i \in DOMAIN rs : /\ Kept(rs)[i].result.exit = rs[i].result.exit
                           /\ Kept(rs)[i].result.flags = rs[i].result.flags
                           /\ Kept(rs)[i].result.oversize = rs[i].result.oversize
  BY <1>1, EvidenceOf
<1>3. ASSUME NEW w, NEW e PROVE Count(w, e, Kept(rs)) = Count(w, e, rs)
  <2>1. {i \in DOMAIN Kept(rs) : Kept(rs)[i].workspace = w /\ Kept(rs)[i].result.exit = e}
          = {i \in DOMAIN rs : rs[i].workspace = w /\ rs[i].result.exit = e}
    BY <1>1, <1>2
  <2> QED BY <2>1 DEF Count
<1>4. ASSUME NEW w
      PROVE  {j \in DOMAIN Kept(rs) : Kept(rs)[j].workspace = w}
               = {j \in DOMAIN rs : rs[j].workspace = w}
  BY <1>1
<1>5. ASSUME NEW w PROVE Exits(w, Kept(rs)) = Exits(w, rs)
  <2> DEFINE Places == {j \in DOMAIN rs : rs[j].workspace = w}
  <2>1. On(w, Kept(rs)) = {Kept(rs)[i] : i \in Places} /\ On(w, rs) = {rs[i] : i \in Places}
    BY <1>4 DEF On
  <2>2. \A i \in Places : Kept(rs)[i].result.exit = rs[i].result.exit
    BY <1>2
  <2> HIDE DEF Places
  <2> QED BY <2>1, <2>2 DEF Exits
<1>6. ASSUME NEW flag PROVE Flagged(flag, Kept(rs)) <=> Flagged(flag, rs)
  BY <1>1, <1>2 DEF Flagged
<1>7. {x.fingerprint : x \in On("base", Kept(rs))}
        = {Fingerprint(x.result) : x \in On("base", rs)}
  <2> DEFINE Places == {j \in DOMAIN rs : rs[j].workspace = "base"}
  <2>1. /\ On("base", Kept(rs)) = {Kept(rs)[i] : i \in Places}
        /\ On("base", rs) = {rs[i] : i \in Places}
    BY <1>4 DEF On
  <2>2. \A i \in Places : Kept(rs)[i].fingerprint = Fingerprint(rs[i].result)
    BY <1>1
  <2> HIDE DEF Places
  <2> QED BY <2>1, <2>2
<1> QED BY <1>1, <1>2, <1>3, <1>5, <1>6, <1>7

\* Without a JUnit file no run of a pytest candidate is attributable.
NoJunit(rs) == profile = "pytest-v1" /\ \E i \in DOMAIN rs : rs[i].result.trace = "absent"

\* A reproduction the evaluator withdrew for a reason the evidence does not show.
Withdrawn(rs) ==
    /\ Outcome(rs) = "wrong_or_flaky_failure" /\ Classify(rs) = "verified_reproduction"
    /\ ~NoJunit(rs)

LEMMA RecomputesUnless ==
  ASSUME NEW rs, Complete(rs), profile \in Profiles
  PROVE  Outcome(rs) = Recomputed(Kept(rs))
           <=> Outcome(rs) # "infrastructure_failure" /\ ~Withdrawn(rs)
<1> DEFINE prints == {Fingerprint(x.result) : x \in On("base", rs)}
           Spread == \E w \in {"base", "fixed"} : Cardinality(Exits(w, rs)) # 1
           Odd == \E i \in DOMAIN rs : rs[i].result.exit \notin {0, 1}
           Marked == \E i \in DOMAIN rs : rs[i].result.marker
           Lone == Cardinality(prints) = 1
<1>1. Recomputed(Kept(rs)) =
        IF Flagged("timed_out", rs) THEN "timeout"
        ELSE IF Flagged("oom_killed", rs) THEN "oom_killed"
        ELSE IF Flagged("output_truncated", rs) THEN "output_limit"
        ELSE IF Odd THEN "generic_crash"
        ELSE IF Spread THEN "flaky"
        ELSE IF Exits("base", rs) # {1} THEN "does_not_fail_on_base"
        ELSE IF Exits("fixed", rs) # {0} THEN "does_not_pass_on_fixed"
        ELSE IF NoJunit(rs) THEN "wrong_or_flaky_failure"
        ELSE IF NoFingerprint \notin prints /\ Lone
             THEN "verified_reproduction" ELSE "wrong_or_flaky_failure"
  <2>1. /\ \A w : Exits(w, Kept(rs)) = Exits(w, rs)
        /\ \A flag : Flagged(flag, Kept(rs)) <=> Flagged(flag, rs)
        /\ {x.fingerprint : x \in On("base", Kept(rs))} = prints
    BY KeptAgrees
  <2>2. (\E i \in DOMAIN Kept(rs) : Kept(rs)[i].result.exit \notin {0, 1}) <=> Odd
    BY KeptAgrees
  <2>3. (profile = "pytest-v1" /\ \E i \in DOMAIN Kept(rs) : ~Kept(rs)[i].result.junit)
          <=> NoJunit(rs)
    <3>1. ASSUME NEW i \in DOMAIN rs
          PROVE  Kept(rs)[i].result.junit
                   <=> profile = "pytest-v1" /\ rs[i].result.trace # "absent"
      <4>1. Kept(rs)[i].result = Evidence(rs[i].result)
        BY KeptAgrees
      <4>2. Evidence(rs[i].result).junit
              = (profile = "pytest-v1" /\ rs[i].result.trace # "absent")
        BY EvidenceOf, Zenon
      <4> QED BY <4>1, <4>2, Zenon
    <3>2. DOMAIN Kept(rs) = DOMAIN rs
      BY KeptAgrees
    <3> QED BY <3>1, <3>2, Zenon DEF NoJunit
  <2> HIDE DEF prints, Odd
  <2> QED BY <2>1, <2>2, <2>3 DEF Recomputed
<1>2. Classify(rs) =
        IF Flagged("timed_out", rs) THEN "timeout"
        ELSE IF Flagged("oom_killed", rs) THEN "oom_killed"
        ELSE IF Flagged("output_truncated", rs) THEN "output_limit"
        ELSE IF Marked THEN "infrastructure_failure"
        ELSE IF Odd THEN "generic_crash"
        ELSE IF Spread THEN "flaky"
        ELSE IF Exits("base", rs) # {1} THEN "does_not_fail_on_base"
        ELSE IF Exits("fixed", rs) # {0} THEN "does_not_pass_on_fixed"
        ELSE IF NoFingerprint \in prints \/ ~Lone
             THEN "wrong_or_flaky_failure" ELSE "verified_reproduction"
  BY DEF Classify
<1>3. Outcome(rs) = IF /\ Classify(rs) = "verified_reproduction"
                       /\ \E i \in DOMAIN rs : ~Attributable(rs[i].result)
                    THEN "wrong_or_flaky_failure" ELSE Classify(rs)
  BY DEF Outcome
<1>4. NoJunit(rs) => \E i \in DOMAIN rs : ~Attributable(rs[i].result)
  BY EvaluationAssumption DEF NoJunit, Attributable, Profiles
<1> HIDE DEF prints, Odd, Marked, Lone, Spread
<1> QED BY <1>1, <1>2, <1>3, <1>4 DEF Withdrawn

\* A reproduction is kept as the reader expects it: every run on the base has a
\* fingerprint, and no run on the fixed tree has.
LEMMA KeptPrints ==
  ASSUME NEW rs, Complete(rs), profile \in Profiles,
         Outcome(rs) = "verified_reproduction", NEW i \in DOMAIN rs
  PROVE  Fingerprint(rs[i].result) = NoFingerprint <=> rs[i].workspace = "fixed"
<1>1. /\ Classify(rs) = "verified_reproduction" /\ Attributable(rs[i].result)
  BY DEF Outcome
<1>2. rs[i] \in On(rs[i].workspace, rs) /\ rs[i].workspace \in {"base", "fixed"}
  BY PlainRuns
<1>3. rs[i].workspace = "base" => Fingerprint(rs[i].result) # NoFingerprint
  BY <1>1, <1>2, VerifiedMeans
<1>4. rs[i].workspace = "fixed" => rs[i].result.exit = 0
  BY <1>1, <1>2, VerifiedMeans
<1>5. rs[i].workspace = "fixed" => Fingerprint(rs[i].result) = NoFingerprint
  BY <1>4 DEF Fingerprint
<1> QED BY <1>2, <1>3, <1>5

\* The gold phases and the collections were required to exit as they should, so
\* that nothing but a flag or their size can be held against their evidence.
LEMMA GoldReads ==
  ASSUME NEW g, GoldOk(g)
  PROVE  LET k == [ph \in DOMAIN g |-> Evidence(g[ph])] IN
         /\ (\A ph \in DOMAIN k : InRange(k[ph])) <=> \A ph \in DOMAIN g : ~g[ph].oversize
         /\ (/\ Clean(k["gold_base"], 1) /\ Clean(k["gold_fixed"], 0)
             /\ profile = "pytest-v1" => /\ Clean(k["gold_base_collect"], 0)
                                         /\ Clean(k["gold_fixed_collect"], 0))
              <=> \A ph \in DOMAIN g : g[ph].flags = {}
<1> DEFINE k == [ph \in DOMAIN g |-> Evidence(g[ph])]
<1>1. DOMAIN g = GoldPhases /\ DOMAIN k = GoldPhases
  BY DEF GoldOk
<1>2. \A ph \in GoldPhases : /\ k[ph].exit = g[ph].exit /\ k[ph].flags = g[ph].flags
                             /\ k[ph].oversize = g[ph].oversize
  BY <1>1, EvidenceOf
<1>3. /\ g["gold_base_collect"].exit = 0 /\ g["gold_fixed_collect"].exit = 0
      /\ g["gold_base"].exit = 1 /\ g["gold_fixed"].exit = 0
  BY DEF GoldOk, CleanCollection, GoldPair
<1>4. profile # "pytest-v1" => /\ g["gold_base_collect"].flags = {}
                               /\ g["gold_fixed_collect"].flags = {}
  BY DEF GoldOk, NotRun
<1>5. /\ k["gold_base"].exit = 1 /\ k["gold_fixed"].exit = 0
      /\ k["gold_base_collect"].exit = 0 /\ k["gold_fixed_collect"].exit = 0
  BY <1>2, <1>3 DEF GoldPhases
<1> HIDE DEF k
<1>6. (\A ph \in DOMAIN k : InRange(k[ph])) <=> \A ph \in DOMAIN g : ~g[ph].oversize
  BY <1>1, <1>2, <1>5 DEF InRange, GoldPhases
<1>7. (/\ Clean(k["gold_base"], 1) /\ Clean(k["gold_fixed"], 0)
       /\ profile = "pytest-v1" => /\ Clean(k["gold_base_collect"], 0)
                                   /\ Clean(k["gold_fixed_collect"], 0))
        <=> \A ph \in DOMAIN g : g[ph].flags = {}
  BY <1>1, <1>2, <1>4, <1>5 DEF Clean, GoldPhases
<1> QED BY <1>6, <1>7 DEF k

\* What is on file of the runs of a candidate: only a killed process, a flag of a
\* collection, or an oversize output is out of what the reader allows.
LEMMA RunsRead ==
  ASSUME NEW rs, Complete(rs), profile \in Profiles
  PROVE  /\ [i \in DOMAIN Kept(rs) |-> Kept(rs)[i].workspace] = RunOrder
         /\ (\A i \in DOMAIN Kept(rs) :
               /\ profile = "pytest-v1" => /\ InRange(Kept(rs)[i].collection)
                                           /\ Clean(Kept(rs)[i].collection, 0)
               /\ InRange(Kept(rs)[i].result)
               /\ Outcome(rs) = "verified_reproduction"
                    => ((Kept(rs)[i].fingerprint = NoFingerprint)
                          <=> (Kept(rs)[i].workspace = "fixed")))
              <=> \A i \in DOMAIN rs : /\ rs[i].result.exit # -9 /\ ~rs[i].result.oversize
                                       /\ rs[i].collection.flags = {}
                                       /\ ~rs[i].collection.oversize
<1>1. DOMAIN Kept(rs) = DOMAIN rs
  BY KeptAgrees
<1>2. [i \in DOMAIN Kept(rs) |-> Kept(rs)[i].workspace] = RunOrder
  <2>1. \A i \in DOMAIN rs : Kept(rs)[i].workspace = RunOrder[i]
    BY KeptAgrees, RunsOfBoth
  <2>2. DOMAIN RunOrder = DOMAIN rs /\ RunOrder = [i \in DOMAIN RunOrder |-> RunOrder[i]]
    BY EvaluationAssumption, RunsOfBoth
  <2> QED BY <1>1, <2>1, <2>2
<1>3. ASSUME NEW i \in DOMAIN rs
      PROVE  /\ (profile = "pytest-v1" => /\ InRange(Kept(rs)[i].collection)
                                          /\ Clean(Kept(rs)[i].collection, 0))
                  <=> rs[i].collection.flags = {} /\ ~rs[i].collection.oversize
             /\ InRange(Kept(rs)[i].result)
                  <=> rs[i].result.exit # -9 /\ ~rs[i].result.oversize
             /\ Outcome(rs) = "verified_reproduction"
                  => ((Kept(rs)[i].fingerprint = NoFingerprint)
                        <=> (Kept(rs)[i].workspace = "fixed"))
  <2>1. /\ Kept(rs)[i].collection = Evidence(rs[i].collection)
        /\ Kept(rs)[i].result.exit = rs[i].result.exit
        /\ Kept(rs)[i].result.oversize = rs[i].result.oversize
        /\ Kept(rs)[i].fingerprint = Fingerprint(rs[i].result)
        /\ Kept(rs)[i].workspace = rs[i].workspace
    BY KeptAgrees
  <2>2. /\ Kept(rs)[i].collection.exit = rs[i].collection.exit
        /\ Kept(rs)[i].collection.flags = rs[i].collection.flags
        /\ Kept(rs)[i].collection.oversize = rs[i].collection.oversize
    BY <2>1, EvidenceOf
  <2>3. /\ rs[i].collection.exit = 0
        /\ profile # "pytest-v1" => rs[i].collection.flags = {} /\ ~rs[i].collection.oversize
    BY DEF Complete, RunsOk, CleanCollection, NotRun
  <2>4. rs[i].result.exit \in {0, 1, 2, -9}
    BY PlainRuns DEF Results
  <2>5. Outcome(rs) = "verified_reproduction"
          => (Fingerprint(rs[i].result) = NoFingerprint <=> rs[i].workspace = "fixed")
    BY KeptPrints
  <2> QED BY <2>1, <2>2, <2>3, <2>4, <2>5 DEF Clean, InRange
<1> QED BY <1>1, <1>2, <1>3

LEMMA ReaderAgrees ==
  ASSUME NEW g, NEW rs, GoldOk(g), Complete(rs), profile \in Profiles
  PROVE  LET r == Receipt(g, rs) IN
         ReceiptVerifies(r) <=> ~Indistinct([ph \in GoldPhases |-> r.gold[ph]], rs)
<1> DEFINE r == Receipt(g, rs)
           k == [ph \in DOMAIN g |-> Evidence(g[ph])]
           file == [ph \in GoldPhases |-> r.gold[ph]]
           Alive == \A i \in DOMAIN rs : rs[i].result.exit # -9 /\ ~rs[i].result.oversize
           Plain == \A i \in DOMAIN rs : /\ rs[i].collection.flags = {}
                                         /\ ~rs[i].collection.oversize
           Steady == \A ph \in DOMAIN g : g[ph].flags = {} /\ ~g[ph].oversize
           Sound == Outcome(rs) # "infrastructure_failure" /\ ~Withdrawn(rs)
<1>1. /\ r.classification = Outcome(rs)
      /\ r.accepted = (Outcome(rs) = "verified_reproduction")
      /\ r.base_consistency = Count("base", 1, rs)
      /\ r.fixed_consistency = Count("fixed", 0, rs)
      /\ r.gold = k /\ r.runs = Kept(rs)
  BY Zenon DEF Receipt, Kept
<1>2. DOMAIN g = GoldPhases
  BY DEF GoldOk
<1>3. file = k
  BY <1>1, <1>2
<1>4. \A ph \in DOMAIN g : k[ph].flags = g[ph].flags /\ k[ph].oversize = g[ph].oversize
  BY EvidenceOf
<1> HIDE DEF r, k, file
<1>5. ReceiptVerifies(r) <=> Steady /\ Alive /\ Plain /\ Sound
  <2>1. /\ r.accepted = (r.classification = "verified_reproduction")
        /\ r.base_consistency = Count("base", 1, r.runs)
        /\ r.fixed_consistency = Count("fixed", 0, r.runs)
    BY <1>1, KeptAgrees
  <2>2. /\ (\A ph \in DOMAIN r.gold : InRange(r.gold[ph]))
              <=> \A ph \in DOMAIN g : ~g[ph].oversize
        /\ (/\ Clean(r.gold["gold_base"], 1) /\ Clean(r.gold["gold_fixed"], 0)
            /\ profile = "pytest-v1" => /\ Clean(r.gold["gold_base_collect"], 0)
                                        /\ Clean(r.gold["gold_fixed_collect"], 0))
             <=> \A ph \in DOMAIN g : g[ph].flags = {}
    BY <1>1, GoldReads DEF k
  <2>3. [i \in DOMAIN r.runs |-> r.runs[i].workspace] = RunOrder
    BY <1>1, RunsRead
  <2>4. (\A i \in DOMAIN r.runs :
            /\ profile = "pytest-v1" => /\ InRange(r.runs[i].collection)
                                        /\ Clean(r.runs[i].collection, 0)
            /\ InRange(r.runs[i].result)
            /\ r.accepted => ((r.runs[i].fingerprint = NoFingerprint)
                                <=> (r.runs[i].workspace = "fixed")))
          <=> Alive /\ Plain
    <3>1. r.runs = Kept(rs)
      BY <1>1
    <3>2. r.accepted <=> Outcome(rs) = "verified_reproduction"
      BY <1>1, Zenon
    <3> QED BY <3>1, <3>2, RunsRead
  <2>5. r.classification = Recomputed(r.runs) <=> Sound
    BY <1>1, RecomputesUnless
  <2>6. Steady <=> /\ \A ph \in DOMAIN g : ~g[ph].oversize
                   /\ \A ph \in DOMAIN g : g[ph].flags = {}
    OBVIOUS
  <2> HIDE DEF Steady, Alive, Plain, Sound
  <2> QED BY <2>1, <2>2, <2>3, <2>4, <2>5, <2>6 DEF ReceiptVerifies
<1>6. Indistinct(file, rs) <=> ~(Steady /\ Alive /\ Plain /\ Sound)
  <2>1. (\E ph \in DOMAIN file : file[ph].flags # {} \/ file[ph].oversize) <=> ~Steady
    <3>1. DOMAIN k = DOMAIN g
      BY DEF k
    <3> QED BY <1>3, <1>4, <3>1
  <2>2. (\A i \in DOMAIN rs : rs[i].result.trace # "absent" \/ profile # "pytest-v1")
          <=> ~NoJunit(rs)
    BY DEF NoJunit
  <2>3. Sound <=> ~(\/ Outcome(rs) = "infrastructure_failure"
                    \/ /\ Outcome(rs) = "wrong_or_flaky_failure"
                       /\ ~NoJunit(rs)
                       /\ Classify(rs) = "verified_reproduction")
    BY DEF Withdrawn
  <2> HIDE DEF Sound, Steady
  <2> QED BY <2>1, <2>2, <2>3 DEF Indistinct
<1> QED BY <1>5, <1>6 DEF r, file

-----------------------------------------------------------------------------
(* The theorems *)

LEMMA EvaluationHolds == Spec => []EvaluationInv
<1>1. Init => EvaluationInv
  BY InitEvaluation
<1>2. EvaluationInv /\ [Next]_vars => EvaluationInv'
  BY EvaluationIsKept
<1> QED BY <1>1, <1>2, PTL DEF Spec

\* A receipt accepts a candidate exactly when one failure of its assertion shows in
\* every run on the base, and every run on the fixed tree passes and is known to
\* have run: _classify_candidate, and the withdrawal that follows it, decide on
\* nothing else, in whatever order the tests are made.
THEOREM AcceptsWhatReproduces == Spec => []AcceptedIffReproduced
<1>1. EvaluationInv => AcceptedIffReproduced
  <2> SUFFICES ASSUME EvaluationInv, OnFile
               PROVE  receipt.accepted <=> Reproduces(observed)
    BY DEF AcceptedIffReproduced
  <2>1. Complete(observed) /\ profile \in Profiles
    BY DEF EvaluationInv
  <2>2. PICK g : receipt = Receipt(g, observed)
    BY DEF EvaluationInv
  <2>3. receipt.accepted = (Outcome(observed) = "verified_reproduction")
    BY <2>2, Zenon DEF Receipt
  <2>4. Outcome(observed) = "verified_reproduction" <=> Reproduces(observed)
    BY <2>1, AcceptsReproductions
  <2> QED BY <2>3, <2>4, Zenon
<1> QED BY <1>1, EvaluationHolds, PTL

\* verify_instance_candidate_receipt accepts what the evaluator wrote exactly when the
\* evidence on file tells the outcome from the others.
THEOREM ReaderRefusesTheIndistinct == Spec => []VerifiesUnlessIndistinct
<1>1. EvaluationInv => VerifiesUnlessIndistinct
  <2> SUFFICES ASSUME EvaluationInv, OnFile
               PROVE  ReceiptVerifies(receipt)
                        <=> ~Indistinct([ph \in GoldPhases |-> receipt.gold[ph]], observed)
    BY DEF VerifiesUnlessIndistinct
  <2>1. Complete(observed) /\ profile \in Profiles
    BY DEF EvaluationInv
  <2>2. PICK g : GoldOk(g) /\ receipt = Receipt(g, observed)
    BY DEF EvaluationInv
  <2> QED BY <2>1, <2>2, ReaderAgrees
<1> QED BY <1>1, EvaluationHolds, PTL
=============================================================================
