------------------------ MODULE Reproduction_proofs ------------------------
(***************************************************************************)
(* No controller loses an object it knows it created, no accepting verdict *)
(* is given to executions that do not deserve it, and nothing claims       *)
(* success while it leaves something behind, whatever the program, the     *)
(* number of faults and the results of the runs.                           *)
(*                                                                         *)
(* The second and the third are about concrete programs.  For the second,  *)
(* what is left of one is either light, so that nothing in it runs the     *)
(* candidate or judges, or on its plan (OnPlan): before the next step that *)
(* judges as many instructions still run the candidate as executions are   *)
(* missing, or a raise stands there, before which no handler turns an      *)
(* exception back.  For the third (Kept), nothing has failed and a sweep   *)
(* of the sandbox lies ahead or has left nothing (Calm), or an exception   *)
(* is under way for good (Fallen), or the report is on file (Reported).    *)
(***************************************************************************)
EXTENDS Reproduction, FiniteSetTheorems, SequenceTheorems, TLAPS


(* What LeftoversExplained reads.                                          *)
LEMMA ExplainedIsStable ==
  ASSUME LeftoversExplained, UNCHANGED engineVars
  PROVE  LeftoversExplained'
  BY DEF LeftoversExplained, engineVars

(* An object taken off a registry by a removal is gone from the engine.    *)
LEMMA FailedRemovalExplained ==
  ASSUME NEW o, LeftoversExplained, FailedRemoval(o),
         UNCHANGED <<arrived, unacknowledged>>
  PROVE  LeftoversExplained'
<1>1. PICK done \in {{}, AnchorsToGo(o)} \cup (IF Removable(o) THEN {Drop(o)} ELSE {}) :
        /\ existing' = existing \ done
        /\ registered' = registered \ (done \ {o})
  BY DEF FailedRemoval
<1> QED  BY <1>1 DEF LeftoversExplained

LEMMA DroppedExplained ==
  ASSUME NEW o, LeftoversExplained,
         existing' = existing \ Drop(o), registered' = registered \ Drop(o),
         UNCHANGED <<arrived, unacknowledged>>
  PROVE  LeftoversExplained'
  BY DEF LeftoversExplained

(* Every step of the ownership machine keeps the leftovers explained.      *)
LEMMA OwnershipExplained ==
  ASSUME LeftoversExplained, DockerNext
  PROVE  LeftoversExplained'
<1>1. CASE EnterTry \/ LeaveTry \/ Reraise \/ CommandSucceeds \/ CommandFails
           \/ SkipRelease \/ StartSweep \/ EndSweep
  BY <1>1, ExplainedIsStable
  DEF EnterTry, LeaveTry, Reraise, CommandSucceeds, CommandFails, SkipRelease,
      StartSweep, EndSweep
<1>2. CASE CreateSucceeds
  BY <1>2 DEF CreateSucceeds, LeftoversExplained
<1>3. ASSUME NEW effect \in {"done", "later", "never"}, CreateFails(effect)
      PROVE  LeftoversExplained'
  BY <1>3 DEF CreateFails, LeftoversExplained
<1>4. ASSUME NEW o \in Objects, Arrive(o)
      PROVE  LeftoversExplained'
  <2> DEFINE new == {o} \cup (IF o \in Containers THEN Mounts[o] ELSE {})
  <2>1. /\ existing' = existing \cup new
        /\ arrived' = arrived \cup {o} \cup (new \ existing)
        /\ UNCHANGED <<unacknowledged, registered>>
    BY <1>4 DEF Arrive
  <2> QED  BY <2>1 DEF LeftoversExplained
<1>5. CASE RemovalSucceeds
  <2> DEFINE gone == Drop(Now.obj)
  <2>1. /\ existing' = existing \ gone /\ registered' = registered \ gone
        /\ UNCHANGED <<arrived, unacknowledged>>
    BY <1>5 DEF RemovalSucceeds
  <2> QED  BY <2>1, DroppedExplained
<1>6. CASE RemovalFails
  <2>1. FailedRemoval(Now.obj) /\ UNCHANGED <<arrived, unacknowledged>>
    BY <1>6 DEF RemovalFails
  <2> QED  BY <2>1, FailedRemovalExplained
<1>7. ASSUME NEW o \in Objects, SweepSucceeds(o)
      PROVE  LeftoversExplained'
  BY <1>7, DroppedExplained DEF SweepSucceeds
<1>8. ASSUME NEW o \in Objects, SweepFails(o)
      PROVE  LeftoversExplained'
  BY <1>8, FailedRemovalExplained DEF SweepFails
<1> QED  BY <1>1, <1>2, <1>3, <1>4, <1>5, <1>6, <1>7, <1>8 DEF DockerNext

(* sandbox.py, dependency_executor.py: for every program of the workflow   *)
(* and of the differential evaluation, whatever the engine has and no      *)
(* registry holds came late or was never acknowledged.                     *)
THEOREM LeftoversAlwaysExplained == Spec => []LeftoversExplained
<1>1. Init => LeftoversExplained
  BY DEF Init, DockerInit, LeftoversExplained
<1>2. LeftoversExplained /\ [Next]_vars => LeftoversExplained'
  <2> SUFFICES ASSUME LeftoversExplained, [Next]_vars
               PROVE  LeftoversExplained'
    OBVIOUS
  <2>1. CASE Ownership
    BY <2>1, OwnershipExplained DEF Ownership
  <2>2. CASE FactsExit
    BY <2>2 DEF FactsExit, LeftoversExplained
  <2>3. CASE AttachAndRead \/ JudgeCollection \/ ClassifyRuns \/ HostStep
             \/ DiscardFile \/ IssueHandle \/ RevokeHandle \/ ExecutorCleaned
             \/ RevalidateHandle \/ Finished \/ UNCHANGED vars
    BY <2>3, ExplainedIsStable
    DEF AttachAndRead, JudgeCollection, ClassifyRuns, HostStep, DiscardFile,
        IssueHandle, RevokeHandle, ExecutorCleaned, RevalidateHandle, Finished,
        vars, dockerVars, engineVars
  <2> QED  BY <2>1, <2>2, <2>3 DEF Next
<1> QED  BY <1>1, <1>2, PTL DEF Spec

----------------------------------------------------------------------------
(* Induction, and how verdicts are drawn.                                  *)
\* Induction on the natural numbers, for a set.  From the pigeonhole principle: the numbers
\* up to k that are missing would be mapped into fewer by the predecessor.
LEMMA Induction ==
    ASSUME NEW S, 0 \in S, \A n \in Nat : n \in S => n + 1 \in S
    PROVE  \A k \in Nat : k \in S
<1> SUFFICES ASSUME NEW k \in Nat, k \notin S PROVE FALSE
  OBVIOUS
<1> DEFINE missing == {x \in 0 .. k : x \notin S}
<1> DEFINE pred == [x \in missing |-> x - 1]
<1>1. IsFiniteSet(missing) /\ k \in missing
  <2>1. IsFiniteSet(0 .. k)
    BY FS_Interval
  <2> QED BY <2>1, FS_Subset
<1>2. /\ IsFiniteSet(missing \ {k})
      /\ Cardinality(missing \ {k}) = Cardinality(missing) - 1
      /\ Cardinality(missing) \in Nat
  BY <1>1, FS_RemoveElement, FS_CardinalityType
<1>3. pred \in [missing -> missing \ {k}]
  <2> SUFFICES ASSUME NEW x \in missing PROVE x - 1 \in missing \ {k}
    OBVIOUS
  <2>1. x # 0
    OBVIOUS
  <2>2. x - 1 \in Nat /\ (x - 1) + 1 = x
    BY <2>1
  <2> QED BY <2>1, <2>2
<1>4. \E x, y \in missing : x # y /\ pred[x] = pred[y]
  <2> HIDE DEF pred, missing
  <2>1. Cardinality(missing \ {k}) < Cardinality(missing)
    BY <1>2
  <2> QED BY <1>1, <1>2, <1>3, <2>1, FS_PigeonHole
<1> QED BY <1>4

----------------------------------------------------------------------------
(* A set of positions that is not empty has a first one.                   *)
LEMMA LeastOf ==
    ASSUME NEW n \in Nat, NEW S, S \subseteq 1 .. n, S # {}
    PROVE  \E i \in S : \A j \in S : i <= j
<1> SUFFICES ASSUME \A i \in S : \E j \in S : ~(i <= j) PROVE FALSE
  OBVIOUS
<1> DEFINE below == {m \in Nat : \A j \in S : m < j}
<1>1. 0 \in below
  OBVIOUS
<1>2. ASSUME NEW m \in Nat, m \in below PROVE m + 1 \in below
  <2>1. \A j \in S : j \in Nat /\ m + 1 <= j
    BY <1>2
  <2>2. m + 1 \notin S
    BY <2>1
  <2>3. ASSUME NEW j \in S PROVE m + 1 < j
    BY <2>1, <2>2, <2>3
  <2> QED BY <2>3
<1>3. n \in below
  <2> HIDE DEF below
  <2>1. \A m \in Nat : m \in below => m + 1 \in below
    BY <1>2
  <2>2. \A m \in Nat : m \in below
    BY <1>1, <2>1, Induction
  <2> QED BY <2>2
<1>4. PICK j \in S : TRUE
  OBVIOUS
<1>5. n < j /\ j \in 1 .. n
  BY <1>3, <1>4
<1> QED BY <1>5

----------------------------------------------------------------------------
(* The verdicts mean what they say, for any executions.                    *)

(* classify_base_runs (verifier.py) accepts only executions that all ended *)
(* by themselves with the one expected failure.                            *)
LEMMA BaseIsExact ==
    ASSUME NEW n \in Nat \ {0}, NEW rs \in [1 .. n -> Execution],
           ClassifyBase(rs) = "repeatable_base_failure"
    PROVE  \E print \in Fingerprints :
              \A i \in 1 .. n : FailedAsExpected(rs[i], print)
<1> DEFINE exits == {ReadExit(rs[i]) : i \in 1 .. n}
           bad == {i \in 1 .. n : ReadReport(rs[i]) \notin Fingerprints}
           first == CHOOSE i \in bad : \A j \in bad : i <= j
<1>1. \A i \in 1 .. n : ~TimedOut(rs[i]) /\ ~ReadOom(rs[i]) /\ ~Truncated(rs[i])
  BY DEF ClassifyBase
<1>2. /\ exits # {0} => exits = {1}
      /\ exits # {0}
  BY <1>1 DEF ClassifyBase
<1>3. bad = {}
  <2> SUFFICES ASSUME bad # {} PROVE FALSE
    OBVIOUS
  <2>1. first \in bad
    <3>1. \E i \in bad : \A j \in bad : i <= j
      BY LeastOf
    <3> QED BY <3>1
  <2>2. ClassifyBase(rs) = ReasonFor(ReadReport(rs[first]))
    BY <1>1, <1>2 DEF ClassifyBase
  <2>3. ReadReport(rs[first]) \in OtherReports
    BY <2>1 DEF ReadReport, Execution, Reports, OtherReports
  <2> HIDE DEF first, bad, exits
  <2> QED BY <2>2, <2>3 DEF ReasonFor, OtherReports
<1>4. \A i, j \in 1 .. n : rs[i].report = rs[j].report
  BY <1>1, <1>2, <1>3 DEF ClassifyBase
<1>5. \A i \in 1 .. n : rs[i].killed = "no"
  BY <1>1 DEF TimedOut, Truncated, Execution
<1>6. rs[1].report \in Fingerprints
  BY <1>3, <1>5 DEF ReadReport
<1>7. ASSUME NEW i \in 1 .. n PROVE FailedAsExpected(rs[i], rs[1].report)
  <2>1. rs[i] \in Execution /\ rs[i].killed = "no" /\ rs[i].report = rs[1].report
    BY <1>4, <1>5
  <2>2. rs[i].exit = 1
    <3>1. ReadExit(rs[i]) = 1
      BY <1>2
    <3> QED BY <2>1, <3>1 DEF ReadExit
  <2>3. rs[i].report # "none"
    BY <1>6, <2>1, FingerprintsAssumption DEF OtherReports
  <2>4. rs[i].started
    BY <2>1, <2>3 DEF Execution
  <2>5. rs[i].overflow \in BOOLEAN /\ rs[i].oom \in BOOLEAN
    BY DEF Execution
  <2>6. ~rs[i].overflow /\ ~rs[i].oom
    BY <1>1, <2>1, <2>5 DEF Truncated, ReadOom
  <2> QED BY <2>1, <2>2, <2>4, <2>6 DEF FailedAsExpected
<1> QED BY <1>6, <1>7

(* It says "differential_reproduction" of nothing.                         *)
LEMMA BaseIsNotDifferential ==
    ASSUME NEW n \in Nat \ {0}, NEW rs \in [1 .. n -> Execution]
    PROVE  ClassifyBase(rs) # "differential_reproduction"
<1> DEFINE bad == {i \in 1 .. n : ReadReport(rs[i]) \notin Fingerprints}
           first == CHOOSE i \in bad : \A j \in bad : i <= j
<1>1. ASSUME bad # {} PROVE ReadReport(rs[first]) \in OtherReports
  <2>1. first \in bad
    <3>1. \E i \in bad : \A j \in bad : i <= j
      BY <1>1, LeastOf
    <3> QED BY <3>1
  <2> QED BY <2>1 DEF ReadReport, Execution, Reports, OtherReports
<1>2. ASSUME bad # {} PROVE ReasonFor(ReadReport(rs[first])) # "differential_reproduction"
  <2> HIDE DEF first, bad
  <2> QED BY <1>1, <1>2 DEF ReasonFor, OtherReports
<1>3. DOMAIN rs = 1 .. n
  OBVIOUS
<1>4. ClassifyBase(rs) = ReasonFor(ReadReport(rs[first])) => bad # {}
      \/ ClassifyBase(rs) # "differential_reproduction"
  BY <1>3 DEF ClassifyBase
<1> QED BY <1>2, <1>3 DEF ClassifyBase

LEMMA SizesUpToThree ==
    ASSUME NEW a, NEW b, NEW c, a # b, b # c, a # c
    PROVE  /\ Cardinality({}) = 0 /\ Cardinality({a}) = 1
           /\ Cardinality({a, b}) = 2 /\ Cardinality({a, b, c}) = 3
<1>1. IsFiniteSet({}) /\ Cardinality({}) = 0
  BY FS_EmptySet
<1>2. IsFiniteSet({a}) /\ Cardinality({a}) = 1
  BY FS_Singleton
<1>3. IsFiniteSet({a} \cup {b}) /\ Cardinality({a} \cup {b}) = 2
  <2>1. b \notin {a}
    OBVIOUS
  <2> QED BY <1>2, <2>1, FS_AddElement
<1>4. {a, b} = {a} \cup {b}
  OBVIOUS
<1>5. IsFiniteSet({a, b} \cup {c}) /\ Cardinality({a, b} \cup {c}) = 3
  <2>1. c \notin {a, b}
    OBVIOUS
  <2> QED BY <1>3, <1>4, <2>1, FS_AddElement
<1>6. {a, b, c} = {a, b} \cup {c}
  OBVIOUS
<1> QED BY <1>1, <1>2, <1>3, <1>4, <1>5, <1>6

(* The six executions by their role, in their order.                       *)
LEMMA SelectedBase ==
    ASSUME NEW rs, DOMAIN rs = 1 .. 6
    PROVE  Select(rs, "base") = <<rs[1], rs[4], rs[5]>>
<1> DEFINE picked == {i \in DOMAIN rs : RoleOf(i) = "base"}
           nth(k) == CHOOSE i \in picked : Cardinality({j \in picked : j < i}) = k - 1
<1>0. /\ Cardinality({}) = 0 /\ Cardinality({1}) = 1
      /\ Cardinality({1, 4}) = 2 /\ Cardinality({1, 4, 5}) = 3
  <2> DEFINE x == 1
             y == 4
             z == 5
  <2>1. x # y /\ y # z /\ x # z
    OBVIOUS
  <2> HIDE DEF x, y, z
  <2>2. /\ Cardinality({}) = 0 /\ Cardinality({x}) = 1
        /\ Cardinality({x, y}) = 2 /\ Cardinality({x, y, z}) = 3
    BY <2>1, SizesUpToThree, ZenonT(60)
  <2> QED BY <2>2 DEF x, y, z
<1>1. picked = {1, 4, 5}
  BY DEF RoleOf, Schedule
<1>2. Cardinality(picked) = 3
  BY <1>0, <1>1
<1>3. Select(rs, "base") = [k \in 1 .. 3 |-> rs[nth(k)]]
  BY <1>2 DEF Select
<1>4. /\ Cardinality({j \in picked : j < 1}) = 0
      /\ Cardinality({j \in picked : j < 4}) = 1
      /\ Cardinality({j \in picked : j < 5}) = 2
  <2>1. /\ {j \in picked : j < 1} = {}
        /\ {j \in picked : j < 4} = {1}
        /\ {j \in picked : j < 5} = {1, 4}
    BY <1>1
  <2> QED BY <1>0, <2>1
<1>5. nth(1) = 1 /\ nth(2) = 4 /\ nth(3) = 5
  <2>1. \A i \in picked : i \in {1, 4, 5}
    BY <1>1
  <2>2. 1 \in picked /\ 4 \in picked /\ 5 \in picked
    BY <1>1
  <2> HIDE DEF picked
  <2> QED BY <1>4, <2>1, <2>2
<1> HIDE DEF nth
<1> QED BY <1>3, <1>5

LEMMA SelectedFixed ==
    ASSUME NEW rs, DOMAIN rs = 1 .. 6
    PROVE  Select(rs, "fixed") = <<rs[2], rs[3], rs[6]>>
<1> DEFINE picked == {i \in DOMAIN rs : RoleOf(i) = "fixed"}
           nth(k) == CHOOSE i \in picked : Cardinality({j \in picked : j < i}) = k - 1
<1>0. /\ Cardinality({}) = 0 /\ Cardinality({2}) = 1
      /\ Cardinality({2, 3}) = 2 /\ Cardinality({2, 3, 6}) = 3
  <2> DEFINE x == 2
             y == 3
             z == 6
  <2>1. x # y /\ y # z /\ x # z
    OBVIOUS
  <2> HIDE DEF x, y, z
  <2>2. /\ Cardinality({}) = 0 /\ Cardinality({x}) = 1
        /\ Cardinality({x, y}) = 2 /\ Cardinality({x, y, z}) = 3
    BY <2>1, SizesUpToThree, ZenonT(60)
  <2> QED BY <2>2 DEF x, y, z
<1>1. picked = {2, 3, 6}
  BY DEF RoleOf, Schedule
<1>2. Cardinality(picked) = 3
  BY <1>0, <1>1
<1>3. Select(rs, "fixed") = [k \in 1 .. 3 |-> rs[nth(k)]]
  BY <1>2 DEF Select
<1>4. /\ Cardinality({j \in picked : j < 2}) = 0
      /\ Cardinality({j \in picked : j < 3}) = 1
      /\ Cardinality({j \in picked : j < 6}) = 2
  <2>1. /\ {j \in picked : j < 2} = {}
        /\ {j \in picked : j < 3} = {2}
        /\ {j \in picked : j < 6} = {2, 3}
    BY <1>1
  <2> QED BY <1>0, <2>1
<1>5. nth(1) = 2 /\ nth(2) = 3 /\ nth(3) = 6
  <2>1. \A i \in picked : i \in {2, 3, 6}
    BY <1>1
  <2>2. 2 \in picked /\ 3 \in picked /\ 6 \in picked
    BY <1>1
  <2> HIDE DEF picked
  <2> QED BY <1>4, <2>1, <2>2
<1> HIDE DEF nth
<1> QED BY <1>3, <1>5

(* The differential verdict (differential.py) accepts only six executions  *)
(* of which every one on the base failed in the one expected way and every *)
(* one on the fixed source passed.                                         *)
LEMMA DifferentialIsExact ==
    ASSUME NEW rs \in [1 .. 6 -> Execution],
           ClassifyDifferential(rs) = "differential_reproduction"
    PROVE  \E print \in Fingerprints : \A i \in 1 .. 6 :
              IF Schedule[i] = "base" THEN FailedAsExpected(rs[i], print)
                                      ELSE PassedOnFixed(rs[i])
<1> DEFINE base == <<rs[1], rs[4], rs[5]>>
           fixed == <<rs[2], rs[3], rs[6]>>
<1>1. base \in [1 .. 3 -> Execution] /\ fixed \in [1 .. 3 -> Execution]
  OBVIOUS
<1>2. /\ Select(rs, "base") = base
      /\ Select(rs, "fixed") = fixed
  BY SelectedBase, SelectedFixed
<1>3. /\ base[1] = rs[1] /\ base[2] = rs[4] /\ base[3] = rs[5]
      /\ fixed[1] = rs[2] /\ fixed[2] = rs[3] /\ fixed[3] = rs[6]
      /\ Len(fixed) = 3 /\ DOMAIN fixed = 1 .. 3
  OBVIOUS
<1> HIDE DEF base, fixed
<1>4. ClassifyBase(base) = "repeatable_base_failure" /\ ClassifyFixed(fixed) = "fixed_pass"
  <2>1. ClassifyBase(base) # "differential_reproduction"
    <3>1. 3 \in Nat \ {0}
      OBVIOUS
    <3> QED BY <1>1, <3>1, BaseIsNotDifferential
  <2>2. ClassifyFixed(fixed) # "differential_reproduction"
    BY DEF ClassifyFixed
  <2> QED BY <1>2, <2>1, <2>2 DEF ClassifyDifferential
<1>5. PICK print \in Fingerprints : \A i \in 1 .. 3 : FailedAsExpected(base[i], print)
  <2>1. 3 \in Nat \ {0}
    OBVIOUS
  <2> QED BY <1>1, <1>4, <2>1, BaseIsExact
<1>6. ASSUME NEW i \in 1 .. 3 PROVE PassedOnFixed(fixed[i])
  <2>1. ExactPass(fixed[i]) /\ ~TimedOut(fixed[i]) /\ ~ReadOom(fixed[i]) /\ ~Truncated(fixed[i])
    BY <1>3, <1>4 DEF ClassifyFixed
  <2>2. fixed[i] \in Execution
    BY <1>1
  <2>3. fixed[i].killed = "no" /\ fixed[i].report = "pass"
    BY <2>1 DEF ExactPass, ReadReport
  <2>4. fixed[i].exit = 0
    BY <2>1, <2>3 DEF ExactPass, ReadExit
  <2>5. fixed[i].overflow \in BOOLEAN /\ fixed[i].oom \in BOOLEAN /\ fixed[i].started
    BY <2>2, <2>3 DEF Execution
  <2>6. ~fixed[i].overflow /\ ~fixed[i].oom
    BY <2>1, <2>3, <2>5 DEF Truncated, ReadOom
  <2> QED BY <2>3, <2>4, <2>5, <2>6 DEF PassedOnFixed
<1>7. ASSUME NEW i \in 1 .. 6
      PROVE  IF Schedule[i] = "base" THEN FailedAsExpected(rs[i], print)
                                     ELSE PassedOnFixed(rs[i])
  <2>1. /\ FailedAsExpected(rs[1], print) /\ FailedAsExpected(rs[4], print)
        /\ FailedAsExpected(rs[5], print)
    BY <1>3, <1>5
  <2>2. PassedOnFixed(rs[2]) /\ PassedOnFixed(rs[3]) /\ PassedOnFixed(rs[6])
    BY <1>3, <1>6
  <2>3. i \in {1, 4, 5} => FailedAsExpected(rs[i], print)
    BY <2>1
  <2>4. i \in {2, 3, 6} => PassedOnFixed(rs[i])
    BY <2>2
  <2> QED BY <2>3, <2>4 DEF Schedule
<1> QED BY <1>7

----------------------------------------------------------------------------
(* What is left to do, by what it can still bring about.  `b` says which   *)
(* program runs: FALSE the workflow, TRUE the differential evaluation.     *)
Names == SandboxObjects \cup ExecutorObjects
Files == {None, "archive", "extraction", "patch"}

(* What a handler does to the objects in D.                                *)
Tidying(D) ==
    [do : {"remove", "release"}, obj : D]
    \cup [do : {"cleanup"}, objs : SUBSET D]
    \cup [do : {"sweep"}, left : SUBSET D, ok : BOOLEAN]
    \cup [do : {"discard"}, file : Files]

(* Instructions that run no candidate, give no verdict and file no report, *)
(* and create and remove only the objects in D; e are the further steps.   *)
SimpleOver(e, D) ==
    Tidying(D)
    \cup [do : {"create", "exits"}, obj : D]
    \cup [do : {"command"}, objs : SUBSET Names]
    \cup [do : {"host"}, file : Files]
    \cup [do : {"raise", "raised"} \cup e]
TryOver(S, D) ==
    [do : {"try"}, body : Seq(S), handler : {"finally", "except"},
     then : Seq(Tidying(D))]
ShallowOver(e, D) == SimpleOver(e, D) \cup TryOver(SimpleOver(e, D), D)
LightOver(e, D) ==
    SimpleOver(e, D)
    \cup [do : {"finally", "except"}, then : Seq(Tidying(D))]
    \cup TryOver(ShallowOver(e, D), D)

(* The try statements of RunPytest, and the step they are there for: each  *)
(* stands for one execution of the candidate.                              *)
AttachedTry(name) ==
    [do |-> "try", body |-> <<Command({name}), Attach(name)>>,
     handler |-> "finally", then |-> <<Remove(name)>>]
StartedTry(name) ==
    [do |-> "try", body |-> <<Create(name), AttachedTry(name)>>,
     handler |-> "finally", then |-> <<Remove("result")>>]
RunNames == {"run", "baseRun", "fixedRun"}
Heavy == UNION {{Attach(n), AttachedTry(n), StartedTry(n)} : n \in RunNames}
Weigh(s) == Cardinality({i \in DOMAIN s : s[i] \in Heavy})
BusyOver(e, D) == LightOver(e, D) \cup Heavy

(* The steps in which the differential evaluation leaves its executor, and *)
(* the one in which the workflow claims success.                           *)
PrepTry == [do |-> "try", body |-> Prepare, handler |-> "except", then |-> ExecutorCleanup]
ExceptEC == [do |-> "except", then |-> ExecutorCleanup]
FinEC == [do |-> "finally", then |-> ExecutorCleanup]
Cleaned == [do |-> "cleaned"]
Ready == [do |-> "ready"]
Filing == Host("report")

Owned(b) == IF b THEN Names ELSE SandboxObjects
Steps(b) == IF b THEN {"ready", "revalidate"} ELSE {}
Light(b) ==
    LightOver(Steps(b), Owned(b))
    \cup (IF b THEN {PrepTry, ExceptEC, FinEC, Revoke, Cleaned} ELSE {Filing})
Busy(b) == Light(b) \cup Heavy

(* The steps the program turns on, and the two try statements they are in. *)
Judging(b) == [do |-> IF b THEN "judge-differential" ELSE "judge"]
Classifying == [do |-> "classify"]
Trial(b) == IF b THEN Head(VerifyDifferential)
            ELSE Head(Try(RunPytest("run") \o Judge, "finally", SandboxCleanup))
Whole(b) == IF b THEN Head(Differential) ELSE Head(Workflow)
Keys(b) == {Judging(b), Classifying, Trial(b), Whole(b)}

(* Preparing, up to its last steps.                                        *)
Others == Names \ {"dependencies"}
Preparing == LightOver({}, Others) \cup {Create("dependencies")}
LastSteps == <<Remove("input"), Remove("wheelhouse"), Host(None), Ready>>
Makes(s) == \E i \in DOMAIN s : s[i] = Create("dependencies")

(* What runs from the time the handle is given, and what is left of a      *)
(* program when nothing of it creates any more.                            *)
FinSC == [do |-> "finally", then |-> SandboxCleanup]
LateSteps(b) == IF b THEN {"revalidate"} ELSE {}
LateObjects(b) == SandboxObjects \cup (IF b THEN {"dependenciesHelper"} ELSE {})
Running(b) == LightOver(LateSteps(b), LateObjects(b)) \cup Heavy
Barren(b) ==
    Tidying(Names)
    \cup [do : {"finally", "except"}, then : Seq(Tidying(Names))]
    \cup [do : {"host"}, file : Files \cup {"report"}]
    \cup (IF b THEN {FinEC, Revoke, Cleaned} ELSE {})

Doomed(s) == \E i \in DOMAIN s : s[i].do = "raise"
Checked(s) == \E i \in DOMAIN s : s[i].do = "revalidate"

(* How many executions are made when all goes well: one is collected, then *)
(* Repeats or six are made.                                                *)
Wanted(b) == IF b THEN 6 ELSE Repeats
Ahead(b, x, k, c, rs) ==
    IF k = Classifying
    THEN Len(c) = 1 /\ Len(rs) + Weigh(x) = Wanted(b)
    ELSE rs = <<>> /\ Len(c) + Weigh(x) = (IF k = Judging(b) THEN 1 ELSE 0)
Held(b, x, k, h) ==
    IF b THEN k \in {Trial(b), Whole(b)} \/ h # None \/ Checked(x) ELSE h = None

OnPlan(b, x, k, y, c, rs, h) ==
    /\ x \in Seq(Busy(b)) /\ k \in Keys(b) /\ y \in Seq(Light(b))
    /\ Doomed(x) \/ (Ahead(b, x, k, c, rs) /\ Held(b, x, k, h))
Path(x, k, y) == x \o (<<k>> \o y)
Planned(b, t, c, rs, h) ==
    \E x \in Seq(Busy(b)), k \in Keys(b), y \in Seq(Light(b)) :
        t = Path(x, k, y) /\ OnPlan(b, x, k, y, c, rs, h)


----------------------------------------------------------------------------
(* Sequences of instructions put together and taken apart.                 *)
LEMMA FirstOfTwo ==
    ASSUME NEW S, NEW s \in Seq(S), NEW t \in Seq(S), s # <<>>
    PROVE  /\ s \o t # <<>> /\ Head(s \o t) = Head(s)
           /\ Tail(s \o t) = Tail(s) \o t
           /\ s = <<Head(s)>> \o Tail(s)
           /\ Head(s) \in S /\ Tail(s) \in Seq(S)
<1>1. /\ Head(s) \in S /\ Tail(s) \in Seq(S) /\ Len(Tail(s)) = Len(s) - 1
      /\ \A i \in 1 .. Len(Tail(s)) : Tail(s)[i] = s[i + 1]
  BY HeadTailProperties
<1>2. Len(s) \in Nat \ {0} /\ Len(t) \in Nat
  BY EmptySeq, LenProperties
<1>3. /\ s \o t \in Seq(S) /\ Len(s \o t) = Len(s) + Len(t)
      /\ \A i \in 1 .. Len(s) + Len(t) : (s \o t)[i] =
            IF i <= Len(s) THEN s[i] ELSE t[i - Len(s)]
  BY ConcatProperties
<1>4. s \o t # <<>>
  BY <1>2, <1>3
<1>5. Head(s \o t) = Head(s)
  BY <1>2, <1>3
<1>6. Tail(s \o t) = Tail(s) \o t
  <2>1. /\ Tail(s \o t) \in Seq(S) /\ Len(Tail(s \o t)) = Len(s) + Len(t) - 1
        /\ \A i \in 1 .. Len(Tail(s \o t)) : Tail(s \o t)[i] = (s \o t)[i + 1]
    BY <1>3, <1>4, HeadTailProperties
  <2>2. /\ Tail(s) \o t \in Seq(S) /\ Len(Tail(s) \o t) = Len(s) - 1 + Len(t)
        /\ \A i \in 1 .. Len(s) - 1 + Len(t) : (Tail(s) \o t)[i] =
              IF i <= Len(s) - 1 THEN Tail(s)[i] ELSE t[i - (Len(s) - 1)]
    BY <1>1, ConcatProperties
  <2>3. ASSUME NEW i \in 1 .. Len(s) + Len(t) - 1
        PROVE  Tail(s \o t)[i] = (Tail(s) \o t)[i]
    <3>1. CASE i <= Len(s) - 1
      BY <1>1, <1>2, <1>3, <2>1, <2>2, <3>1
    <3>2. CASE i > Len(s) - 1
      <4>1. i + 1 \in 1 .. Len(s) + Len(t) /\ ~(i + 1 <= Len(s))
        BY <1>2, <3>2
      <4>2. (s \o t)[i + 1] = t[i + 1 - Len(s)]
        BY <1>3, <4>1
      <4>3. (Tail(s) \o t)[i] = t[i - (Len(s) - 1)]
        BY <1>2, <2>2, <3>2
      <4>4. i + 1 - Len(s) = i - (Len(s) - 1)
        BY <1>2
      <4> QED BY <1>2, <2>1, <4>2, <4>3, <4>4
    <3> QED BY <1>2, <3>1, <3>2
  <2> QED BY <1>2, <2>1, <2>2, <2>3, SeqEqual
<1>7. s = <<Head(s)>> \o Tail(s)
  <2>1. <<Head(s)>> \in Seq(S) /\ Len(<<Head(s)>>) = 1 /\ <<Head(s)>>[1] = s[1]
    BY <1>1
  <2>2. /\ <<Head(s)>> \o Tail(s) \in Seq(S) /\ Len(<<Head(s)>> \o Tail(s)) = Len(s)
        /\ \A i \in 1 .. Len(s) : (<<Head(s)>> \o Tail(s))[i] =
              IF i <= 1 THEN <<Head(s)>>[i] ELSE Tail(s)[i - 1]
    BY <1>1, <1>2, <2>1, ConcatProperties
  <2>3. ASSUME NEW i \in 1 .. Len(s) PROVE s[i] = (<<Head(s)>> \o Tail(s))[i]
    <3>1. CASE i = 1
      BY <2>1, <2>2, <3>1
    <3>2. CASE i # 1
      BY <1>1, <1>2, <2>2, <3>2
    <3> QED BY <3>1, <3>2
  <2> QED BY <2>2, <2>3, SeqEqual
<1> QED BY <1>1, <1>4, <1>5, <1>6, <1>7

LEMMA FirstOfOne ==
    ASSUME NEW S, NEW k \in S, NEW t \in Seq(S)
    PROVE  /\ <<k>> \o t # <<>> /\ <<k>> \o t \in Seq(S)
           /\ Head(<<k>> \o t) = k /\ Tail(<<k>> \o t) = t
<1>1. <<k>> \in Seq(S) /\ <<k>> # <<>> /\ Head(<<k>>) = k /\ Tail(<<k>>) = <<>>
  OBVIOUS
<1>2. Tail(<<k>> \o t) = <<>> \o t
  BY <1>1, FirstOfTwo
<1>3. <<>> \o t = t
  BY ConcatEmptySeq
<1> QED BY <1>1, <1>2, <1>3, FirstOfTwo, ConcatProperties

(* Marks are found in a sequence put together where they are in its parts. *)
LEMMA MarksOfTwo ==
    ASSUME NEW S, NEW s \in Seq(S), NEW t \in Seq(S)
    PROVE  /\ Doomed(s \o t) <=> Doomed(s) \/ Doomed(t)
           /\ Checked(s \o t) <=> Checked(s) \/ Checked(t)
<1>1. /\ Len(s) \in Nat /\ Len(t) \in Nat
      /\ DOMAIN s = 1 .. Len(s) /\ DOMAIN t = 1 .. Len(t)
  BY LenProperties
<1>2. /\ s \o t \in Seq(S) /\ Len(s \o t) = Len(s) + Len(t)
      /\ \A i \in 1 .. Len(s) + Len(t) : (s \o t)[i] =
            IF i <= Len(s) THEN s[i] ELSE t[i - Len(s)]
  BY ConcatProperties
<1>3. DOMAIN (s \o t) = 1 .. Len(s) + Len(t)
  BY <1>2, LenProperties
<1>4. \A i \in DOMAIN s : i \in DOMAIN (s \o t) /\ (s \o t)[i] = s[i]
  BY <1>1, <1>2, <1>3
<1>5. \A i \in DOMAIN t : i + Len(s) \in DOMAIN (s \o t) /\ (s \o t)[i + Len(s)] = t[i]
  BY <1>1, <1>2, <1>3
<1>6. ASSUME NEW i \in DOMAIN (s \o t)
      PROVE  \/ i \in DOMAIN s /\ (s \o t)[i] = s[i]
             \/ i - Len(s) \in DOMAIN t /\ (s \o t)[i] = t[i - Len(s)]
  BY <1>1, <1>2, <1>3
<1> DEFINE u == s \o t
<1>7. /\ \A i \in DOMAIN s : \E j \in DOMAIN u : u[j] = s[i]
      /\ \A i \in DOMAIN t : \E j \in DOMAIN u : u[j] = t[i]
  BY <1>4, <1>5
<1>8. \A j \in DOMAIN u : \/ \E i \in DOMAIN s : u[j] = s[i]
                          \/ \E i \in DOMAIN t : u[j] = t[i]
  BY <1>6
<1> HIDE DEF u
<1>9. Doomed(u) <=> Doomed(s) \/ Doomed(t)
  <2>1. ASSUME Doomed(u) PROVE Doomed(s) \/ Doomed(t)
    <3>1. PICK j \in DOMAIN u : u[j].do = "raise"
      BY <2>1 DEF Doomed
    <3> QED BY <1>8, <3>1 DEF Doomed
  <2>2. ASSUME Doomed(s) PROVE Doomed(u)
    <3>1. PICK i \in DOMAIN s : s[i].do = "raise"
      BY <2>2 DEF Doomed
    <3>2. PICK j \in DOMAIN u : u[j] = s[i]
      BY <1>7
    <3> QED BY <3>1, <3>2 DEF Doomed
  <2>3. ASSUME Doomed(t) PROVE Doomed(u)
    <3>1. PICK i \in DOMAIN t : t[i].do = "raise"
      BY <2>3 DEF Doomed
    <3>2. PICK j \in DOMAIN u : u[j] = t[i]
      BY <1>7
    <3> QED BY <3>1, <3>2 DEF Doomed
  <2> QED BY <2>1, <2>2, <2>3
<1>10. Checked(u) <=> Checked(s) \/ Checked(t)
  <2>1. ASSUME Checked(u) PROVE Checked(s) \/ Checked(t)
    <3>1. PICK j \in DOMAIN u : u[j].do = "revalidate"
      BY <2>1 DEF Checked
    <3> QED BY <1>8, <3>1 DEF Checked
  <2>2. ASSUME Checked(s) PROVE Checked(u)
    <3>1. PICK i \in DOMAIN s : s[i].do = "revalidate"
      BY <2>2 DEF Checked
    <3>2. PICK j \in DOMAIN u : u[j] = s[i]
      BY <1>7
    <3> QED BY <3>1, <3>2 DEF Checked
  <2>3. ASSUME Checked(t) PROVE Checked(u)
    <3>1. PICK i \in DOMAIN t : t[i].do = "revalidate"
      BY <2>3 DEF Checked
    <3>2. PICK j \in DOMAIN u : u[j] = t[i]
      BY <1>7
    <3> QED BY <3>1, <3>2 DEF Checked
  <2> QED BY <2>1, <2>2, <2>3
<1> QED BY <1>9, <1>10 DEF u

LEMMA WeighOfTwo ==
    ASSUME NEW S, NEW s \in Seq(S), NEW t \in Seq(S)
    PROVE  /\ Weigh(s) \in Nat /\ Weigh(t) \in Nat
           /\ Weigh(s \o t) = Weigh(s) + Weigh(t)
<1>1. /\ Len(s) \in Nat /\ Len(t) \in Nat
      /\ DOMAIN s = 1 .. Len(s) /\ DOMAIN t = 1 .. Len(t)
  BY LenProperties
<1>2. /\ s \o t \in Seq(S) /\ Len(s \o t) = Len(s) + Len(t)
      /\ \A i \in 1 .. Len(s) + Len(t) : (s \o t)[i] =
            IF i <= Len(s) THEN s[i] ELSE t[i - Len(s)]
  BY ConcatProperties
<1>3. DOMAIN (s \o t) = 1 .. Len(s) + Len(t)
  BY <1>2, LenProperties
<1> DEFINE hs == {i \in 1 .. Len(s) : s[i] \in Heavy}
           ht == {i \in 1 .. Len(t) : t[i] \in Heavy}
           hu == {i \in 1 .. Len(s) + Len(t) : (s \o t)[i] \in Heavy}
           later == {i \in hu : i > Len(s)}
           shift == [i \in ht |-> i + Len(s)]
<1>4. Weigh(s) = Cardinality(hs) /\ Weigh(t) = Cardinality(ht)
      /\ Weigh(s \o t) = Cardinality(hu)
  BY <1>1, <1>3 DEF Weigh
<1>5. IsFiniteSet(hs) /\ IsFiniteSet(ht) /\ IsFiniteSet(hu) /\ IsFiniteSet(later)
  <2>1. IsFiniteSet(1 .. Len(s)) /\ IsFiniteSet(1 .. Len(t))
        /\ IsFiniteSet(1 .. Len(s) + Len(t))
    BY <1>1, FS_Interval
  <2>2. /\ hs \subseteq 1 .. Len(s) /\ ht \subseteq 1 .. Len(t)
        /\ hu \subseteq 1 .. Len(s) + Len(t) /\ later \subseteq 1 .. Len(s) + Len(t)
    OBVIOUS
  <2> HIDE DEF hs, ht, hu, later
  <2> QED BY <2>1, <2>2, FS_Subset
<1>6. hu = hs \cup later /\ hs \cap later = {}
  BY <1>1, <1>2
<1>7. Cardinality(later) = Cardinality(ht)
  <2>1. shift \in [ht -> later]
    <3> SUFFICES ASSUME NEW i \in ht PROVE i + Len(s) \in later
      OBVIOUS
    <3>1. /\ i + Len(s) \in 1 .. Len(s) + Len(t) /\ ~(i + Len(s) <= Len(s))
          /\ i + Len(s) - Len(s) = i
      BY <1>1
    <3> QED BY <1>1, <1>2, <3>1
  <2>2. \A a, b \in ht : shift[a] = shift[b] => a = b
    BY <1>1
  <2>3. \A j \in later : \E i \in ht : shift[i] = j
    <3> SUFFICES ASSUME NEW j \in later PROVE j - Len(s) \in ht /\ shift[j - Len(s)] = j
      OBVIOUS
    <3>1. j - Len(s) \in 1 .. Len(t) /\ (j - Len(s)) + Len(s) = j
      BY <1>1
    <3>2. (s \o t)[j] = t[j - Len(s)]
      BY <1>1, <1>2
    <3> QED BY <3>1, <3>2
  <2> HIDE DEF shift, ht, later
  <2>4. DOMAIN shift = ht
    BY <2>1
  <2>5. shift \in Bijection(ht, later)
    BY <2>1, <2>2, <2>3, <2>4 DEF Bijection, Injection, Surjection, IsInjective
  <2> QED BY <1>5, <2>5, FS_Bijection DEF ExistsBijection
<1> HIDE DEF hs, ht, hu, later
<1>8. Cardinality(hs) \in Nat /\ Cardinality(ht) \in Nat /\ Cardinality(hs \cap later) = 0
  BY <1>5, <1>6, FS_CardinalityType, FS_EmptySet
<1>9. Cardinality(hu) = Cardinality(hs) + Cardinality(later) - Cardinality(hs \cap later)
  BY <1>5, <1>6, FS_Union
<1> QED BY <1>4, <1>7, <1>8, <1>9

----------------------------------------------------------------------------

----------------------------------------------------------------------------
(* The classes of instructions.                                            *)
LEMMA ClassesOver ==
    ASSUME NEW e, NEW D
    PROVE  /\ Tidying(D) \subseteq SimpleOver(e, D)
           /\ SimpleOver(e, D) \subseteq ShallowOver(e, D)
           /\ ShallowOver(e, D) \subseteq LightOver(e, D)
           /\ LightOver(e, D) \subseteq BusyOver(e, D)
           /\ Seq(Tidying(D)) \subseteq Seq(SimpleOver(e, D))
           /\ Seq(SimpleOver(e, D)) \subseteq Seq(ShallowOver(e, D))
           /\ Seq(ShallowOver(e, D)) \subseteq Seq(LightOver(e, D))
           /\ Seq(LightOver(e, D)) \subseteq Seq(BusyOver(e, D))
<1>1. \A S, T : S \subseteq T => Seq(S) \subseteq Seq(T)
  BY SeqMonotonic
<1>2. Tidying(D) \subseteq SimpleOver(e, D)
  BY Zenon DEF SimpleOver
<1>3. SimpleOver(e, D) \subseteq ShallowOver(e, D)
  BY Zenon DEF ShallowOver
<1>4. LightOver(e, D) \subseteq BusyOver(e, D)
  BY Zenon DEF BusyOver
<1>5. TryOver(SimpleOver(e, D), D) \subseteq TryOver(ShallowOver(e, D), D)
  <2> DEFINE S == Seq(SimpleOver(e, D))
             T == Seq(ShallowOver(e, D))
             A == Seq(Tidying(D))
  <2>1. S \subseteq T
    BY <1>1, <1>3
  <2> HIDE DEF S, T, A
  <2>2. [do : {"try"}, body : S, handler : {"finally", "except"}, then : A]
          \subseteq [do : {"try"}, body : T, handler : {"finally", "except"}, then : A]
    BY <2>1
  <2> QED BY <2>2 DEF TryOver, S, T, A
<1>6. ShallowOver(e, D) \subseteq LightOver(e, D)
  <2>1. SimpleOver(e, D) \subseteq LightOver(e, D)
        /\ TryOver(ShallowOver(e, D), D) \subseteq LightOver(e, D)
    BY Zenon DEF LightOver
  <2>2. ShallowOver(e, D) = SimpleOver(e, D) \cup TryOver(SimpleOver(e, D), D)
    BY DEF ShallowOver
  <2> QED BY <1>5, <2>1, <2>2, Zenon
<1> QED BY <1>1, <1>2, <1>3, <1>4, <1>6

LEMMA Classes ==
    ASSUME NEW b \in BOOLEAN
    PROVE  /\ LightOver(Steps(b), Owned(b)) \subseteq Light(b) /\ Light(b) \subseteq Busy(b)
           /\ BusyOver(Steps(b), Owned(b)) \subseteq Busy(b)
           /\ Seq(LightOver(Steps(b), Owned(b))) \subseteq Seq(Light(b))
           /\ Seq(Light(b)) \subseteq Seq(Busy(b))
           /\ Seq(BusyOver(Steps(b), Owned(b))) \subseteq Seq(Busy(b))
<1>1. \A S, T : S \subseteq T => Seq(S) \subseteq Seq(T)
  BY SeqMonotonic
<1>2. LightOver(Steps(b), Owned(b)) \subseteq Light(b) /\ Light(b) \subseteq Busy(b)
  BY DEF Light, Busy
<1>3. BusyOver(Steps(b), Owned(b)) \subseteq Busy(b)
  BY <1>2 DEF BusyOver, Busy
<1> QED BY <1>1, <1>2, <1>3

(* What the instructions of a class are.                                   *)
LEMMA TidyingKinds ==
    ASSUME NEW D \in SUBSET Names, NEW x \in Tidying(D)
    PROVE  /\ x.do \in {"remove", "release", "cleanup", "sweep", "discard"}
           /\ x.do \in {"remove", "release"} => x.obj \in D
           /\ x.do = "cleanup" => x.objs \subseteq D
           /\ x.do = "sweep" => x.left \subseteq D /\ x.ok \in BOOLEAN
           /\ x.do = "discard" => x.file \in Files
  BY DEF Tidying

LEMMA SimpleKinds ==
    ASSUME NEW e \in SUBSET {"ready", "revalidate"}, NEW D \in SUBSET Names,
           NEW x \in SimpleOver(e, D)
    PROVE  /\ x.do \notin {"attach", "catch", "judge", "judge-differential", "classify",
                           "try", "finally", "except", "revoke", "cleaned"}
           /\ x.do \in {"ready", "revalidate"} => x.do \in e
           /\ x.do \in {"create", "exits", "remove", "release"} => x.obj \in D
           /\ x.do = "cleanup" => x.objs \subseteq D
           /\ x.do = "command" => x.objs \subseteq Names
           /\ x.do = "sweep" => x.left \subseteq D /\ x.ok \in BOOLEAN
           /\ x.do \in {"host", "discard"} => x.file \in Files
<1>1. CASE x \in Tidying(D)
  BY <1>1, TidyingKinds
<1>2. CASE x \notin Tidying(D)
  BY <1>2 DEF SimpleOver
<1> QED BY <1>1, <1>2

LEMMA OverKinds ==
    ASSUME NEW e \in SUBSET {"ready", "revalidate"}, NEW D \in SUBSET Names,
           NEW x \in LightOver(e, D)
    PROVE  /\ x.do \notin {"attach", "catch", "judge", "judge-differential", "classify",
                           "revoke", "cleaned"}
           /\ x.do \in {"ready", "revalidate"} => x.do \in e
           /\ x.do \in {"finally", "except"} => x.then \in Seq(Tidying(D))
           /\ x.do = "try" => /\ x.body \in Seq(ShallowOver(e, D))
                              /\ x.handler \in {"finally", "except"}
                              /\ x.then \in Seq(Tidying(D))
           /\ x.do \in {"create", "exits", "remove", "release"} => x.obj \in D
           /\ x.do = "cleanup" => x.objs \subseteq D
           /\ x.do = "command" => x.objs \subseteq Names
           /\ x.do = "sweep" => x.left \subseteq D /\ x.ok \in BOOLEAN
           /\ x.do \in {"host", "discard"} => x.file \in Files
<1>1. CASE x \in SimpleOver(e, D)
  BY <1>1, SimpleKinds
<1>2. CASE x \in [do : {"finally", "except"}, then : Seq(Tidying(D))]
  BY <1>2
<1>3. CASE x \in TryOver(ShallowOver(e, D), D)
  BY <1>3 DEF TryOver
<1> QED BY <1>1, <1>2, <1>3 DEF LightOver

LEMMA StepsAndNames ==
    ASSUME NEW b \in BOOLEAN
    PROVE  /\ Steps(b) \in SUBSET {"ready", "revalidate"} /\ Owned(b) \in SUBSET Names
           /\ SandboxObjects \subseteq Owned(b)
           /\ b => Steps(b) = {"ready", "revalidate"} /\ Owned(b) = Names
           /\ ~b => Steps(b) = {} /\ Owned(b) = SandboxObjects
  BY DEF Steps, Owned, Names

LEMMA OneAndOne ==
    ASSUME NEW a, NEW z
    PROVE  <<a>> \o <<z>> = <<a, z>>
<1> DEFINE S == {a, z}
<1>1. <<a>> \in Seq(S) /\ <<z>> \in Seq(S) /\ <<a, z>> \in Seq(S)
  OBVIOUS
<1>2. Len(<<a>>) = 1 /\ Len(<<z>>) = 1 /\ Len(<<a, z>>) = 2
  OBVIOUS
<1>3. /\ <<a>> \o <<z>> \in Seq(S) /\ Len(<<a>> \o <<z>>) = 2
      /\ \A i \in 1 .. 2 : (<<a>> \o <<z>>)[i] = IF i <= 1 THEN <<a>>[i] ELSE <<z>>[i - 1]
  <2> HIDE DEF S
  <2>1. /\ <<a>> \o <<z>> \in Seq(S)
        /\ Len(<<a>> \o <<z>>) = Len(<<a>>) + Len(<<z>>)
        /\ \A i \in 1 .. Len(<<a>>) + Len(<<z>>) : (<<a>> \o <<z>>)[i] =
              IF i <= Len(<<a>>) THEN <<a>>[i] ELSE <<z>>[i - Len(<<a>>)]
    BY <1>1, ConcatProperties
  <2> QED BY <1>2, <2>1
<1>4. \A i \in 1 .. 2 : (<<a>> \o <<z>>)[i] = <<a, z>>[i]
  BY <1>3
<1> HIDE DEF S
<1> QED BY <1>1, <1>2, <1>3, <1>4, SeqEqual

(* RunPytest ends in the try statement that makes the execution.           *)
LEMMA RunsSpelledOut ==
    ASSUME NEW n
    PROVE  RunPytest(n) = CreateResultVolume \o <<StartedTry(n)>>
<1>1. Try(<<Command({n}), Attach(n)>>, "finally", <<Remove(n)>>) = <<AttachedTry(n)>>
  BY DEF Try, AttachedTry
<1>2. <<Create(n)>> \o <<AttachedTry(n)>> = <<Create(n), AttachedTry(n)>>
  BY OneAndOne
<1>3. Try(<<Create(n), AttachedTry(n)>>, "finally", <<Remove("result")>>) = <<StartedTry(n)>>
  BY DEF Try, StartedTry
<1> QED BY <1>1, <1>2, <1>3 DEF RunPytest

LEMMA HeavyKinds ==
    ASSUME NEW x \in Heavy
    PROVE  \E n \in RunNames :
              \/ x = Attach(n)
              \/ x.do = "try" /\ x = AttachedTry(n)
              \/ x.do = "try" /\ x = StartedTry(n)
  BY DEF Heavy, AttachedTry, StartedTry

LEMMA HeavyIsNotLightOver ==
    ASSUME NEW e \in SUBSET {"ready", "revalidate"}, NEW D \in SUBSET Names,
           NEW x \in LightOver(e, D), x \in Heavy
    PROVE  FALSE
<1>1. PICK n \in RunNames : \/ x = Attach(n)
                            \/ x.do = "try" /\ x = AttachedTry(n)
                            \/ x.do = "try" /\ x = StartedTry(n)
  BY HeavyKinds
<1>2. x # Attach(n)
  <2>1. Attach(n).do = "attach"
    BY DEF Attach
  <2> QED BY <2>1, OverKinds
<1>3. x.do = "try" /\ x.body \in Seq(ShallowOver(e, D))
  BY <1>1, <1>2, OverKinds
<1>4. ASSUME NEW i \in 1 .. Len(x.body) PROVE x.body[i] \in ShallowOver(e, D)
  BY <1>3, ElementOfSeq
<1>5. CASE x = AttachedTry(n)
  <2>1. x.body = <<Command({n}), Attach(n)>>
    BY <1>5 DEF AttachedTry
  <2>2. Attach(n) \in LightOver(e, D)
    BY <1>4, <2>1, ClassesOver
  <2>3. Attach(n).do = "attach"
    BY DEF Attach
  <2> QED BY <2>2, <2>3, OverKinds
<1>6. CASE x = StartedTry(n)
  <2>1. x.body = <<Create(n), AttachedTry(n)>>
    BY <1>6 DEF StartedTry
  <2>2. AttachedTry(n) \in ShallowOver(e, D)
    BY <1>4, <2>1
  <2>3. AttachedTry(n).do = "try" /\ AttachedTry(n).body = <<Command({n}), Attach(n)>>
    BY DEF AttachedTry
  <2>4. AttachedTry(n) \notin SimpleOver(e, D)
    BY <2>3, SimpleKinds
  <2>5. <<Command({n}), Attach(n)>> \in Seq(SimpleOver(e, D))
    BY <2>2, <2>3, <2>4 DEF ShallowOver, TryOver
  <2>6. Attach(n) \in SimpleOver(e, D)
    BY <2>5, ElementOfSeq
  <2>7. Attach(n).do = "attach"
    BY DEF Attach
  <2> QED BY <2>6, <2>7, SimpleKinds
<1> QED BY <1>1, <1>2, <1>5, <1>6

LEMMA NoHeavyWeighsNothing ==
    ASSUME NEW S, S \cap Heavy = {}, NEW s \in Seq(S)
    PROVE  Weigh(s) = 0
<1>1. {i \in DOMAIN s : s[i] \in Heavy} = {}
  <2>1. \A i \in DOMAIN s : s[i] \in S
    BY LenProperties
  <2> QED BY <2>1
<1> QED BY <1>1, FS_EmptySet DEF Weigh

LEMMA HeavyWeighsOne ==
    ASSUME NEW x \in Heavy
    PROVE  Weigh(<<x>>) = 1
<1>1. DOMAIN <<x>> = {1} /\ <<x>>[1] = x
  OBVIOUS
<1>2. {i \in DOMAIN <<x>> : <<x>>[i] \in Heavy} = {1}
  BY <1>1
<1> QED BY <1>2, FS_Singleton DEF Weigh

(* What a try statement turns into.                                        *)
Entered(x) == x.body \o <<[do |-> x.handler, then |-> x.then]>>

LEMMA OverEntered ==
    ASSUME NEW e \in SUBSET {"ready", "revalidate"}, NEW D \in SUBSET Names,
           NEW x \in LightOver(e, D), x.do = "try"
    PROVE  /\ Entered(x) \in Seq(LightOver(e, D))
           /\ [do |-> x.handler, then |-> x.then] \in LightOver(e, D)
<1> DEFINE h == [do |-> x.handler, then |-> x.then]
<1>1. /\ x.body \in Seq(LightOver(e, D)) /\ x.then \in Seq(Tidying(D))
      /\ x.handler \in {"finally", "except"}
  BY OverKinds, ClassesOver
<1>2. h \in LightOver(e, D)
  BY <1>1 DEF LightOver
<1> HIDE DEF h
<1>3. <<h>> \in Seq(LightOver(e, D))
  BY <1>2
<1> QED BY <1>1, <1>2, <1>3, ConcatProperties DEF Entered, h

LEMMA HeavyEntered ==
    ASSUME NEW e \in SUBSET {"ready", "revalidate"}, NEW D \in SUBSET Names,
           SandboxObjects \subseteq D, NEW x \in Heavy, x.do = "try"
    PROVE  Entered(x) \in Seq(BusyOver(e, D)) /\ Weigh(Entered(x)) = 1
<1> DEFINE h == [do |-> x.handler, then |-> x.then]
<1>1. PICK n \in RunNames : x = AttachedTry(n) \/ x = StartedTry(n)
  BY HeavyKinds DEF Attach
<1>2. n \in D /\ {n} \subseteq Names /\ "result" \in D
  BY DEF RunNames, SandboxObjects
<1>3. Command({n}) \in LightOver(e, D) /\ Create(n) \in LightOver(e, D)
  <2>1. Command({n}) \in SimpleOver(e, D) /\ Create(n) \in SimpleOver(e, D)
    BY <1>2 DEF SimpleOver, Command, Create
  <2> QED BY <2>1, ClassesOver
<1>4. h \in LightOver(e, D)
  <2>1. Remove(n) \in Tidying(D) /\ Remove("result") \in Tidying(D)
    BY <1>2 DEF Tidying, Remove
  <2>2. <<Remove(n)>> \in Seq(Tidying(D)) /\ <<Remove("result")>> \in Seq(Tidying(D))
    BY <2>1
  <2>3. h.do = "finally" /\ h.then \in Seq(Tidying(D))
    <3>1. CASE x = AttachedTry(n)
      BY <2>2, <3>1 DEF AttachedTry
    <3>2. CASE x = StartedTry(n)
      BY <2>2, <3>2 DEF StartedTry
    <3> QED BY <1>1, <3>1, <3>2
  <2>4. h = [do |-> "finally", then |-> h.then]
    BY <2>3
  <2> HIDE DEF h
  <2>5. [do |-> "finally", then |-> h.then] \in [do : {"finally", "except"}, then : Seq(Tidying(D))]
    BY <2>3
  <2> QED BY <2>4, <2>5 DEF LightOver
<1>5. \E p \in LightOver(e, D), z \in Heavy : x.body = <<p, z>>
  <2>1. CASE x = AttachedTry(n)
    <3>1. Attach(n) \in Heavy /\ x.body = <<Command({n}), Attach(n)>>
      BY <2>1 DEF Heavy, AttachedTry
    <3> QED BY <1>3, <3>1
  <2>2. CASE x = StartedTry(n)
    <3>1. AttachedTry(n) \in Heavy /\ x.body = <<Create(n), AttachedTry(n)>>
      BY <2>2 DEF Heavy, StartedTry
    <3> QED BY <1>3, <3>1
  <2> QED BY <1>1, <2>1, <2>2
<1>6. PICK p \in LightOver(e, D), z \in Heavy : x.body = <<p, z>>
  BY <1>5
<1> HIDE DEF h
<1>7. <<p>> \in Seq(LightOver(e, D)) /\ <<h>> \in Seq(LightOver(e, D))
  BY <1>4
<1>8. <<p>> \in Seq(BusyOver(e, D)) /\ <<z>> \in Seq(BusyOver(e, D)) /\ <<h>> \in Seq(BusyOver(e, D))
  BY <1>4 DEF BusyOver
<1>9. x.body = <<p>> \o <<z>>
  BY <1>6, OneAndOne
<1>10. Weigh(<<p>>) = 0 /\ Weigh(<<h>>) = 0 /\ Weigh(<<z>>) = 1
  <2>1. LightOver(e, D) \cap Heavy = {}
    BY HeavyIsNotLightOver
  <2> QED BY <1>7, <2>1, NoHeavyWeighsNothing, HeavyWeighsOne
<1>11. x.body \in Seq(BusyOver(e, D)) /\ Weigh(x.body) = 1
  <2> DEFINE u == <<p>> \o <<z>>
  <2>1. Weigh(u) = Weigh(<<p>>) + Weigh(<<z>>)
    BY <1>8, WeighOfTwo
  <2>2. u \in Seq(BusyOver(e, D))
    BY <1>8, ConcatProperties
  <2>3. Weigh(u) = 1
    BY <1>10, <2>1
  <2>4. x.body = u
    BY <1>9
  <2> HIDE DEF u
  <2> QED BY <2>2, <2>3, <2>4
<1>12. Weigh(x.body \o <<h>>) = Weigh(x.body) + Weigh(<<h>>)
  BY <1>8, <1>11, WeighOfTwo
<1>13. x.body \o <<h>> \in Seq(BusyOver(e, D))
  BY <1>8, <1>11, ConcatProperties
<1> QED BY <1>10, <1>11, <1>12, <1>13 DEF Entered, h

----------------------------------------------------------------------------
(* The parts of the two programs.                                          *)
LEMMA Joined ==
    ASSUME NEW S, NEW s \in Seq(S), NEW t \in Seq(S)
    PROVE  s \o t \in Seq(S)
  BY ConcatProperties

LEMMA TriesByDepth ==
    ASSUME NEW e, NEW D, NEW body, NEW then \in Seq(Tidying(D)),
           NEW handler \in {"finally", "except"}
    PROVE  /\ body \in Seq(SimpleOver(e, D)) =>
                  Try(body, handler, then) \in Seq(ShallowOver(e, D))
           /\ body \in Seq(ShallowOver(e, D)) =>
                  Try(body, handler, then) \in Seq(LightOver(e, D))
<1> DEFINE t == [do |-> "try", body |-> body, handler |-> handler, then |-> then]
<1>1. body \in Seq(SimpleOver(e, D)) => t \in ShallowOver(e, D)
  BY DEF ShallowOver, TryOver
<1>2. body \in Seq(ShallowOver(e, D)) => t \in LightOver(e, D)
  BY DEF TryOver, LightOver
<1>3. Try(body, handler, then) = <<t>>
  BY DEF Try
<1> HIDE DEF t
<1> QED BY <1>1, <1>2, <1>3

LEMMA StepsAreSimple ==
    ASSUME NEW e, NEW D \in SUBSET Names
    PROVE  /\ \A n \in D : /\ Create(n) \in SimpleOver(e, D)
                           /\ Remove(n) \in SimpleOver(e, D) /\ Remove(n) \in Tidying(D)
           /\ \A os \in SUBSET Names : Command(os) \in SimpleOver(e, D)
           /\ \A os \in SUBSET D : Cleanup(os) \in Tidying(D)
           /\ \A f \in Files : Host(f) \in SimpleOver(e, D) /\ Discard(f) \in Tidying(D)
           /\ Engine \in SimpleOver(e, D)
<1>1. \A n \in D : Create(n) \in SimpleOver(e, D) /\ Remove(n) \in Tidying(D)
  BY DEF SimpleOver, Tidying, Create, Remove
<1>2. \A os \in SUBSET Names : Command(os) \in SimpleOver(e, D)
  BY DEF SimpleOver, Command
<1>3. \A os \in SUBSET D : Cleanup(os) \in Tidying(D)
  BY DEF Tidying, Cleanup
<1>4. \A f \in Files : Host(f) \in SimpleOver(e, D)
  BY DEF SimpleOver, Host
<1>5. \A f \in Files : Discard(f) \in Tidying(D)
  BY DEF Tidying, Discard
<1>6. Engine \in SimpleOver(e, D)
  BY <1>2 DEF Engine
<1> QED BY <1>1, <1>2, <1>3, <1>4, <1>5, <1>6, ClassesOver

LEMMA AllNamed ==
    /\ SandboxObjects \subseteq Names /\ ExecutorObjects \subseteq Names
    /\ \A n \in RunNames : n \in Names
    /\ {"workspace", "stage", "owner", "attest", "workspace2", "stage2", "owner2",
        "attest2", "result", "anchor", "facts"} \subseteq Names
    /\ {"input", "wheelhouse", "dependencies", "inputHelper", "wheelhouseHelper",
        "dependenciesHelper", "inputAnchor", "wheelhouseAnchor",
        "dependenciesAnchor", "runtime", "download", "install"} \subseteq Names
<1>1. SandboxObjects \subseteq Names /\ ExecutorObjects \subseteq Names
  BY DEF Names
<1>2. \A n \in RunNames : n \in SandboxObjects
  BY DEF RunNames, SandboxObjects
<1>3. {"workspace", "stage", "owner", "attest", "workspace2", "stage2", "owner2",
       "attest2", "result", "anchor", "facts"} \subseteq SandboxObjects
  BY DEF SandboxObjects
<1>4. {"input", "wheelhouse", "dependencies", "inputHelper", "wheelhouseHelper",
       "dependenciesHelper", "inputAnchor", "wheelhouseAnchor",
       "dependenciesAnchor", "runtime", "download", "install"} \subseteq ExecutorObjects
  BY DEF ExecutorObjects, Roles
<1> QED BY <1>1, <1>2, <1>3, <1>4

LEMMA ResultVolumeIsLight ==
    ASSUME NEW e, NEW D \in SUBSET Names, {"result", "anchor"} \subseteq D
    PROVE  CreateResultVolume \in Seq(LightOver(e, D))
<1>1. "result" \in D /\ "anchor" \in D /\ {"result"} \in SUBSET Names
      /\ {"anchor"} \in SUBSET Names
  OBVIOUS
<1>2. /\ <<Create("result")>> \in Seq(SimpleOver(e, D))
      /\ <<Command({"result"}), Create("anchor"), Command({"anchor"})>> \in Seq(SimpleOver(e, D))
      /\ <<Remove("result")>> \in Seq(Tidying(D))
  BY <1>1, StepsAreSimple
<1>3. Try(<<Command({"result"}), Create("anchor"), Command({"anchor"})>>,
          "except", <<Remove("result")>>) \in Seq(ShallowOver(e, D))
  BY <1>2, TriesByDepth
<1>5. CreateResultVolume \in Seq(ShallowOver(e, D))
  BY <1>2, <1>3, ClassesOver, Joined DEF CreateResultVolume
<1> QED BY <1>5, ClassesOver

LEMMA StagingIsLight ==
    ASSUME NEW e \in SUBSET {"ready", "revalidate"}, NEW D \in SUBSET Names,
           NEW v \in D, NEW st \in D, NEW o \in D, NEW a \in D
    PROVE  StageAttestedSource(v, st, o, a) \in Seq(LightOver(e, D))
<1>1. \A n \in D : {n} \in SUBSET Names
  OBVIOUS
<1>2. \A n \in D : /\ Create(n) \in SimpleOver(e, D) /\ Remove(n) \in Tidying(D)
                       /\ Command({n}) \in SimpleOver(e, D)
  BY <1>1, StepsAreSimple
<1>3. \A n \in D : <<Create(n)>> \in Seq(SimpleOver(e, D)) /\ <<Remove(n)>> \in Seq(Tidying(D))
                       /\ <<Command({n})>> \in Seq(SimpleOver(e, D))
  BY <1>2
<1>4. \A n \in D : <<Create(n)>> \in Seq(ShallowOver(e, D))
  BY <1>3, ClassesOver
<1>5. Try(<<Command({o})>>, "finally", <<Remove(o)>>) \in Seq(ShallowOver(e, D))
  BY <1>3, TriesByDepth
<1>6. SetWorkspaceOwner(o) \in Seq(ShallowOver(e, D))
  BY <1>4, <1>5, Joined DEF SetWorkspaceOwner
<1>7. Try(<<Create(st), Command({st})>>, "finally", <<Remove(st)>>) \in Seq(ShallowOver(e, D))
  <2>1. <<Create(st), Command({st})>> \in Seq(SimpleOver(e, D))
    BY <1>2
  <2> QED BY <1>3, <2>1, TriesByDepth
<1> DEFINE inner == Try(<<Create(st), Command({st})>>, "finally", <<Remove(st)>>)
                       \o SetWorkspaceOwner(o)
<1>8. inner \in Seq(ShallowOver(e, D))
  BY <1>6, <1>7, Joined
<1> HIDE DEF inner
<1>9. Try(inner, "except", <<Remove(v)>>) \in Seq(LightOver(e, D))
  BY <1>3, <1>8, TriesByDepth
<1>10. <<Engine, Create(v)>> \in Seq(LightOver(e, D))
  <2>1. Engine \in SimpleOver(e, D) /\ Create(v) \in SimpleOver(e, D)
    BY <1>2, StepsAreSimple
  <2>2. <<Engine, Create(v)>> \in Seq(SimpleOver(e, D))
    BY <2>1
  <2> QED BY <2>2, ClassesOver
<1>11. StageSource(v, st, o) \in Seq(LightOver(e, D))
  BY <1>9, <1>10, Joined DEF StageSource, inner
<1>12. AttestStagedSource(a) \in Seq(ShallowOver(e, D))
  <2>1. Try(<<Command({a})>>, "finally", <<Remove(a)>>) \in Seq(ShallowOver(e, D))
    BY <1>3, TriesByDepth
  <2> QED BY <1>4, <2>1, Joined DEF AttestStagedSource
<1>13. Try(AttestStagedSource(a), "except", <<Remove(v)>>) \in Seq(LightOver(e, D))
  BY <1>3, <1>12, TriesByDepth
<1> QED BY <1>11, <1>13, Joined DEF StageAttestedSource

LEMMA CleanupIsTidying ==
    ASSUME NEW D \in SUBSET Names, SandboxObjects \subseteq D
    PROVE  SandboxCleanup \in Seq(Tidying(D))
<1>1. Cleanup(SandboxObjects) \in Tidying(D)
  BY StepsAreSimple
<1> QED BY <1>1 DEF SandboxCleanup

(* What a part of a program is, and how many executions it makes.          *)
Piece(e, D, s, w) == s \in Seq(BusyOver(e, D)) /\ Weigh(s) = w

LEMMA PiecesJoined ==
    ASSUME NEW e, NEW D, NEW s, NEW t, NEW w, NEW v, NEW u,
           Piece(e, D, s, w), Piece(e, D, t, v), u = w + v
    PROVE  Piece(e, D, s \o t, u)
  BY WeighOfTwo, ConcatProperties DEF Piece

LEMMA LightPiece ==
    ASSUME NEW e \in SUBSET {"ready", "revalidate"}, NEW D \in SUBSET Names,
           NEW s \in Seq(LightOver(e, D))
    PROVE  Piece(e, D, s, 0)
<1>1. LightOver(e, D) \cap Heavy = {}
  BY HeavyIsNotLightOver
<1>2. Weigh(s) = 0
  BY <1>1, NoHeavyWeighsNothing
<1> QED BY <1>2, ClassesOver DEF Piece

LEMMA OneRun ==
    ASSUME NEW e \in SUBSET {"ready", "revalidate"}, NEW D \in SUBSET Names,
           SandboxObjects \subseteq D, NEW n \in RunNames
    PROVE  Piece(e, D, RunPytest(n), 1)
<1>1. Piece(e, D, CreateResultVolume, 0)
  <2>1. {"result", "anchor"} \subseteq D
    BY DEF SandboxObjects
  <2> QED BY <2>1, ResultVolumeIsLight, LightPiece
<1>2. StartedTry(n) \in Heavy
  BY DEF Heavy
<1>3. Piece(e, D, <<StartedTry(n)>>, 1)
  <2>1. <<StartedTry(n)>> \in Seq(BusyOver(e, D))
    BY <1>2 DEF BusyOver
  <2> QED BY <1>2, <2>1, HeavyWeighsOne DEF Piece
<1>4. Piece(e, D, CreateResultVolume \o <<StartedTry(n)>>, 1)
  BY <1>1, <1>3, PiecesJoined
<1> QED BY <1>4, RunsSpelledOut

(* BorrowedRun: the handle is revalidated, then the candidate runs.        *)
LEMMA HelperIsShallow ==
    ASSUME NEW e \in SUBSET {"ready", "revalidate"}, NEW D \in SUBSET Names, NEW n \in D
    PROVE  Helper(n) \in Seq(ShallowOver(e, D))
<1>1. {n} \in SUBSET Names
  OBVIOUS
<1>2. Create(n) \in SimpleOver(e, D) /\ Remove(n) \in Tidying(D) /\ Command({n}) \in SimpleOver(e, D)
  BY <1>1, StepsAreSimple
<1>3. /\ <<Create(n), Command({n})>> \in Seq(SimpleOver(e, D))
      /\ <<Command({n})>> \in Seq(SimpleOver(e, D)) /\ <<Remove(n)>> \in Seq(Tidying(D))
  BY <1>2
<1>4. Try(<<Command({n})>>, "finally", <<Remove(n)>>) \in Seq(ShallowOver(e, D))
  BY <1>3, TriesByDepth
<1>5. <<Create(n), Command({n})>> \in Seq(ShallowOver(e, D))
  BY <1>3, ClassesOver
<1> QED BY <1>4, <1>5, Joined DEF Helper

LEMMA ProbesAreShallow ==
    ASSUME NEW e \in SUBSET {"ready", "revalidate"}, NEW D \in SUBSET Names,
           {"runtime", "inputHelper", "wheelhouseHelper", "dependenciesHelper"} \subseteq D
    PROVE  /\ Parsed \in Seq(ShallowOver(e, D))
           /\ \A role \in Roles : Probe(role) \in Seq(ShallowOver(e, D))
           /\ ProbeRuntime \in Seq(ShallowOver(e, D)) /\ StageRequirements \in Seq(ShallowOver(e, D))
           /\ AttestDependencies \in Seq(ShallowOver(e, D))
<1>1. Parsed \in Seq(ShallowOver(e, D))
  <2>1. Host(None) \in SimpleOver(e, D)
    BY StepsAreSimple DEF Files
  <2>2. Parsed \in Seq(SimpleOver(e, D))
    BY <2>1 DEF Parsed
  <2> QED BY <2>2, ClassesOver
<1>2. ASSUME NEW role \in Roles PROVE Probe(role) \in Seq(ShallowOver(e, D))
  <2>1. HelperOf[role] \in D
    BY DEF HelperOf, Roles
  <2>2. Helper(HelperOf[role]) \in Seq(ShallowOver(e, D))
    BY <2>1, HelperIsShallow
  <2> QED BY <1>1, <2>2, Joined DEF Probe
<1>3. \A n \in {"runtime", "inputHelper", "dependenciesHelper"} :
         Helper(n) \in Seq(ShallowOver(e, D))
  BY HelperIsShallow
<1>4. Helper("runtime") \in Seq(ShallowOver(e, D)) /\ Helper("inputHelper") \in Seq(ShallowOver(e, D))
      /\ Helper("dependenciesHelper") \in Seq(ShallowOver(e, D))
  BY <1>3
<1>5. ProbeRuntime \in Seq(ShallowOver(e, D)) /\ AttestDependencies \in Seq(ShallowOver(e, D))
  BY <1>1, <1>4, Joined DEF ProbeRuntime, AttestDependencies
<1> QED BY <1>1, <1>2, <1>4, <1>5 DEF StageRequirements

LEMMA RevalidateIsLight ==
    ASSUME NEW e \in SUBSET {"ready", "revalidate"}, NEW D \in SUBSET Names,
           "revalidate" \in e, "dependenciesHelper" \in D
    PROVE  Revalidate \in Seq(LightOver(e, D)) /\ Checked(Revalidate)
<1>1. [do |-> "revalidate"] \in SimpleOver(e, D)
  BY DEF SimpleOver
<1>2. Command({"dependencies"}) \in SimpleOver(e, D)
  <2>1. {"dependencies"} \in SUBSET Names
    BY AllNamed
  <2> QED BY <2>1, StepsAreSimple
<1> DEFINE first == <<[do |-> "revalidate"], Command({"dependencies"})>>
           probe == Probe("dependencies")
<1>3. first \in Seq(ShallowOver(e, D))
  <2>1. first \in Seq(SimpleOver(e, D))
    BY <1>1, <1>2
  <2> QED BY <2>1, ClassesOver
<1>4. Checked(first)
  <2>1. 1 \in DOMAIN first /\ first[1].do = "revalidate"
    OBVIOUS
  <2> QED BY <2>1 DEF Checked
<1>5. probe \in Seq(ShallowOver(e, D))
  <2>1. Helper("dependenciesHelper") \in Seq(ShallowOver(e, D))
    BY HelperIsShallow
  <2>2. Host(None) \in SimpleOver(e, D)
    BY StepsAreSimple DEF Files
  <2>3. Parsed \in Seq(ShallowOver(e, D))
    <3>1. Parsed \in Seq(SimpleOver(e, D))
      BY <2>2 DEF Parsed
    <3> QED BY <3>1, ClassesOver
  <2>4. HelperOf["dependencies"] = "dependenciesHelper"
    BY DEF HelperOf
  <2> QED BY <2>1, <2>3, <2>4, Joined DEF Probe
<1>6. Revalidate = ((first \o probe) \o probe) \o probe
  BY DEF Revalidate
<1> HIDE DEF first, probe
<1>7. first \o probe \in Seq(ShallowOver(e, D)) /\ Checked(first \o probe)
  BY <1>3, <1>4, <1>5, Joined, MarksOfTwo
<1>8. (first \o probe) \o probe \in Seq(ShallowOver(e, D)) /\ Checked((first \o probe) \o probe)
  BY <1>5, <1>7, Joined, MarksOfTwo
<1>9. Revalidate \in Seq(ShallowOver(e, D)) /\ Checked(Revalidate)
  BY <1>5, <1>6, <1>8, Joined, MarksOfTwo
<1> QED BY <1>9, ClassesOver

LEMMA OneBorrowedRun ==
    ASSUME NEW e \in SUBSET {"ready", "revalidate"}, NEW D \in SUBSET Names,
           "revalidate" \in e, SandboxObjects \subseteq D, "dependenciesHelper" \in D, NEW n \in RunNames
    PROVE  Piece(e, D, BorrowedRun(n), 1)
<1>1. Piece(e, D, Revalidate, 0)
  BY RevalidateIsLight, LightPiece
<1> QED BY <1>1, OneRun, PiecesJoined DEF BorrowedRun

(* Preparing the dependencies creates their volume once and touches it no  *)
(* more; its last steps, which take the other two volumes away and give    *)
(* the handle, are told apart.                                             *)
LEMMA MakesOfTwo ==
    ASSUME NEW S, NEW s \in Seq(S), NEW t \in Seq(S)
    PROVE  Makes(s \o t) <=> Makes(s) \/ Makes(t)
<1>1. /\ Len(s) \in Nat /\ Len(t) \in Nat
      /\ DOMAIN s = 1 .. Len(s) /\ DOMAIN t = 1 .. Len(t)
  BY LenProperties
<1>2. /\ s \o t \in Seq(S) /\ Len(s \o t) = Len(s) + Len(t)
      /\ \A i \in 1 .. Len(s) + Len(t) : (s \o t)[i] =
            IF i <= Len(s) THEN s[i] ELSE t[i - Len(s)]
  BY ConcatProperties
<1>3. DOMAIN (s \o t) = 1 .. Len(s) + Len(t)
  BY <1>2, LenProperties
<1>4. \A i \in DOMAIN s : i \in DOMAIN (s \o t) /\ (s \o t)[i] = s[i]
  BY <1>1, <1>2, <1>3
<1>5. \A i \in DOMAIN t : i + Len(s) \in DOMAIN (s \o t) /\ (s \o t)[i + Len(s)] = t[i]
  BY <1>1, <1>2, <1>3
<1>6. ASSUME NEW i \in DOMAIN (s \o t)
      PROVE  \/ i \in DOMAIN s /\ (s \o t)[i] = s[i]
             \/ i - Len(s) \in DOMAIN t /\ (s \o t)[i] = t[i - Len(s)]
  BY <1>1, <1>2, <1>3
<1> DEFINE u == s \o t
<1>7. /\ \A i \in DOMAIN s : \E j \in DOMAIN u : u[j] = s[i]
      /\ \A i \in DOMAIN t : \E j \in DOMAIN u : u[j] = t[i]
  BY <1>4, <1>5
<1>8. \A j \in DOMAIN u : \/ \E i \in DOMAIN s : u[j] = s[i]
                          \/ \E i \in DOMAIN t : u[j] = t[i]
  BY <1>6
<1> HIDE DEF u
<1>9. Makes(u) <=> Makes(s) \/ Makes(t)
  <2>1. ASSUME Makes(u) PROVE Makes(s) \/ Makes(t)
    <3>1. PICK j \in DOMAIN u : u[j] = Create("dependencies")
      BY <2>1 DEF Makes
    <3> QED BY <1>8, <3>1 DEF Makes
  <2>2. ASSUME Makes(s) PROVE Makes(u)
    <3>1. PICK i \in DOMAIN s : s[i] = Create("dependencies")
      BY <2>2 DEF Makes
    <3>2. PICK j \in DOMAIN u : u[j] = s[i]
      BY <1>7
    <3> QED BY <3>1, <3>2 DEF Makes
  <2>3. ASSUME Makes(t) PROVE Makes(u)
    <3>1. PICK i \in DOMAIN t : t[i] = Create("dependencies")
      BY <2>3 DEF Makes
    <3>2. PICK j \in DOMAIN u : u[j] = t[i]
      BY <1>7
    <3> QED BY <3>1, <3>2 DEF Makes
  <2> QED BY <2>1, <2>2, <2>3
<1> QED BY <1>9 DEF u

LEMMA PreparingClasses ==
    /\ ShallowOver({}, Others) \subseteq Preparing
    /\ Seq(ShallowOver({}, Others)) \subseteq Seq(Preparing)
    /\ Seq(LightOver({}, Others)) \subseteq Seq(Preparing)
    /\ {} \in SUBSET {"ready", "revalidate"} /\ Others \in SUBSET Names
<1>1. \A S, T : S \subseteq T => Seq(S) \subseteq Seq(T)
  BY SeqMonotonic
<1>2. /\ ShallowOver({}, Others) \subseteq LightOver({}, Others)
      /\ LightOver({}, Others) \subseteq Preparing
  BY ClassesOver DEF Preparing
<1>3. Others \in SUBSET Names
  BY DEF Others
<1> QED BY <1>1, <1>2, <1>3

LEMMA OthersNamed ==
    /\ SandboxObjects \subseteq Others
    /\ {"input", "wheelhouse", "inputHelper", "wheelhouseHelper",
        "dependenciesHelper", "inputAnchor", "wheelhouseAnchor",
        "dependenciesAnchor", "runtime", "download", "install"} \subseteq Others
  BY AllNamed DEF Others, SandboxObjects

LEMMA PrepareMakes ==
    \E s \in Seq(Preparing) : Prepare = s \o LastSteps /\ Makes(s)
<1> DEFINE e == {}
           D == Others
           U == Preparing
<1>0. D \in SUBSET Names /\ e \in SUBSET {"ready", "revalidate"}
      /\ Seq(ShallowOver(e, D)) \subseteq Seq(U)
  BY PreparingClasses
<1> HIDE DEF e, D
<1>1. \A n \in D : {n} \in SUBSET Names
  BY <1>0
<1>2. \A n \in D : /\ Create(n) \in SimpleOver(e, D) /\ Remove(n) \in SimpleOver(e, D)
                   /\ Remove(n) \in Tidying(D) /\ Command({n}) \in SimpleOver(e, D)
  BY <1>0, <1>1, StepsAreSimple
<1>3. Engine \in SimpleOver(e, D) /\ Host(None) \in SimpleOver(e, D)
  BY <1>0, StepsAreSimple DEF Files
<1>4. \A s \in Seq(SimpleOver(e, D)) : s \in Seq(ShallowOver(e, D))
  BY ClassesOver
<1>5. <<Engine>> \in Seq(U)
  <2>1. <<Engine>> \in Seq(SimpleOver(e, D))
    BY <1>3
  <2> QED BY <1>0, <1>4, <2>1
<1>6. /\ \A role \in {"input", "wheelhouse"} : RoleVolume(role) \in Seq(U)
      /\ \A role \in Roles : VolumeAnchor(role) \in Seq(U)
  <2>1. ASSUME NEW role \in {"input", "wheelhouse"} PROVE RoleVolume(role) \in Seq(U)
    <3>1. role \in D
      BY OthersNamed DEF D
    <3>2. RoleVolume(role) \in Seq(SimpleOver(e, D))
      BY <1>2, <1>3, <3>1 DEF RoleVolume
    <3> QED BY <1>0, <1>4, <3>2
  <2>2. ASSUME NEW role \in Roles PROVE VolumeAnchor(role) \in Seq(U)
    <3>1. AnchorOf[role] \in D
      BY OthersNamed DEF D, Roles, AnchorOf
    <3>2. VolumeAnchor(role) \in Seq(SimpleOver(e, D))
      BY <1>2, <1>3, <3>1 DEF VolumeAnchor
    <3> QED BY <1>0, <1>4, <3>2
  <2> QED BY <2>1, <2>2
<1>7. RoleVolume("dependencies") \in Seq(U) /\ Makes(RoleVolume("dependencies"))
  <2> DEFINE p == Engine
             q == Create("dependencies")
             c == Command({"dependencies"})
  <2>1. p \in U /\ q \in U
    <3>1. SimpleOver(e, D) \subseteq ShallowOver(e, D)
      BY ClassesOver
    <3> QED BY <1>3, <3>1, PreparingClasses DEF Preparing, e, D
  <2>2. c \in U
    <3>1. {"dependencies"} \in SUBSET Names
      BY AllNamed
    <3>2. c \in SimpleOver(e, D)
      BY <1>0, <3>1, StepsAreSimple
    <3> QED BY <3>2, ClassesOver, PreparingClasses DEF e, D
  <2>3. RoleVolume("dependencies") = <<p, q, c>>
    BY DEF RoleVolume
  <2>4. q = Create("dependencies")
    OBVIOUS
  <2> HIDE DEF p, q, c, U
  <2>5. <<p, q, c>> \in Seq(U) /\ 2 \in DOMAIN <<p, q, c>> /\ <<p, q, c>>[2] = q
    BY <2>1, <2>2
  <2> QED BY <2>3, <2>4, <2>5 DEF Makes
<1>8. Phase("download") \in Seq(U) /\ Phase("install") \in Seq(U)
  <2>1. "download" \in D /\ "install" \in D
    BY OthersNamed DEF D
  <2>2. Phase("download") \in Seq(SimpleOver(e, D)) /\ Phase("install") \in Seq(SimpleOver(e, D))
    BY <1>2, <2>1 DEF Phase
  <2> QED BY <1>0, <1>4, <2>2
<1>9. /\ Parsed \in Seq(ShallowOver(e, D))
      /\ \A role \in Roles : Probe(role) \in Seq(ShallowOver(e, D))
      /\ ProbeRuntime \in Seq(ShallowOver(e, D)) /\ StageRequirements \in Seq(ShallowOver(e, D))
      /\ AttestDependencies \in Seq(ShallowOver(e, D))
  <2>1. {"runtime", "inputHelper", "wheelhouseHelper", "dependenciesHelper"} \subseteq D
    BY OthersNamed DEF D
  <2> QED BY <1>0, <2>1, ProbesAreShallow
<1>10. ExportWheelhouse \in Seq(U)
  <2> DEFINE n == "wheelhouseHelper"
  <2>1. n \in D
    BY OthersNamed DEF D
  <2>2. /\ <<Create(n), Command({n})>> \in Seq(SimpleOver(e, D))
        /\ <<Command({n}), Host(None)>> \in Seq(SimpleOver(e, D))
        /\ <<Remove(n)>> \in Seq(Tidying(D))
    BY <1>2, <1>3, <2>1
  <2>3. Try(<<Command({n}), Host(None)>>, "finally", <<Remove(n)>>) \in Seq(ShallowOver(e, D))
    BY <2>2, TriesByDepth
  <2>4. <<Create(n), Command({n})>> \in Seq(ShallowOver(e, D))
    BY <1>4, <2>2
  <2> DEFINE t == Try(<<Command({n}), Host(None)>>, "finally", <<Remove(n)>>)
             c == <<Create(n), Command({n})>>
  <2>5. ExportWheelhouse = (c \o t) \o Parsed
    BY DEF ExportWheelhouse
  <2> HIDE DEF t, c
  <2>6. c \o t \in Seq(ShallowOver(e, D))
    BY <2>3, <2>4, Joined DEF t, c
  <2>7. ExportWheelhouse \in Seq(ShallowOver(e, D))
    BY <1>9, <2>5, <2>6, Joined
  <2> QED BY <1>0, <2>7
<1>11. /\ Probe("input") \in Seq(U) /\ Probe("wheelhouse") \in Seq(U)
       /\ Probe("dependencies") \in Seq(U) /\ ProbeRuntime \in Seq(U)
       /\ StageRequirements \in Seq(U) /\ AttestDependencies \in Seq(U)
  BY <1>0, <1>9 DEF Roles
<1>12. /\ RoleVolume("input") \in Seq(U) /\ RoleVolume("wheelhouse") \in Seq(U)
       /\ VolumeAnchor("input") \in Seq(U) /\ VolumeAnchor("wheelhouse") \in Seq(U)
       /\ VolumeAnchor("dependencies") \in Seq(U)
  BY <1>6 DEF Roles
<1> DEFINE pi == Probe("input")
           pw == Probe("wheelhouse")
           pd == Probe("dependencies")
           volumes == <<Engine>> \o ProbeRuntime
               \o RoleVolume("input") \o RoleVolume("wheelhouse") \o RoleVolume("dependencies")
           anchors == volumes
               \o VolumeAnchor("input") \o VolumeAnchor("wheelhouse")
               \o VolumeAnchor("dependencies")
           download == anchors \o pi \o pw \o pd
               \o StageRequirements \o pi \o Phase("download")
           install == download \o pw \o ExportWheelhouse \o pw \o pd \o Phase("install")
           attest == install \o pi \o pw \o pd \o ExportWheelhouse \o AttestDependencies
           all == attest \o pw \o pd
<1>13. Prepare = all \o LastSteps
  BY DEF Prepare, LastSteps, Ready
<1>14. /\ \A s, t \in Seq(U) : s \o t \in Seq(U)
       /\ \A s, t \in Seq(U) : Makes(s) \/ Makes(t) => Makes(s \o t)
  BY Joined, MakesOfTwo
<1> HIDE DEF U
<1>15. volumes \in Seq(U) /\ Makes(volumes)
  BY <1>5, <1>7, <1>11, <1>12, <1>14
<1> HIDE DEF volumes
<1>16. anchors \in Seq(U) /\ Makes(anchors)
  BY <1>12, <1>14, <1>15
<1> HIDE DEF anchors
<1>17. download \in Seq(U) /\ Makes(download)
  <2> HIDE DEF pi, pw, pd
  <2>1. pi \in Seq(U) /\ pw \in Seq(U) /\ pd \in Seq(U)
    BY <1>11 DEF pi, pw, pd
  <2> QED BY <1>8, <1>11, <1>14, <1>16, <2>1
<1> HIDE DEF download
<1>18. install \in Seq(U) /\ Makes(install)
  <2> HIDE DEF pi, pw, pd
  <2>1. pi \in Seq(U) /\ pw \in Seq(U) /\ pd \in Seq(U)
    BY <1>11 DEF pi, pw, pd
  <2> QED BY <1>8, <1>10, <1>11, <1>14, <1>17, <2>1
<1> HIDE DEF install
<1>19. attest \in Seq(U) /\ Makes(attest)
  <2> HIDE DEF pi, pw, pd
  <2>1. pi \in Seq(U) /\ pw \in Seq(U) /\ pd \in Seq(U)
    BY <1>11 DEF pi, pw, pd
  <2> QED BY <1>10, <1>11, <1>14, <1>18, <2>1
<1> HIDE DEF attest
<1>20. all \in Seq(U) /\ Makes(all)
  BY <1>11, <1>14, <1>19
<1> HIDE DEF all
<1> QED BY <1>13, <1>20 DEF U


----------------------------------------------------------------------------
(* The executions after an accepted collection.                            *)

(* The function within Times.                                              *)
UpTo(n, body) ==
    CHOOSE up : up = [k \in 0 .. n |-> IF k = 0 THEN <<>> ELSE body \o up[k - 1]]

LEMMA TimesIsLast == \A n, body : Times(n, body) = UpTo(n, body)[n]
  BY DEF Times, UpTo

LEMMA UpToExists ==
    ASSUME NEW n \in Nat, NEW body
    PROVE  UpTo(n, body) =
             [k \in 0 .. n |-> IF k = 0 THEN <<>> ELSE body \o UpTo(n, body)[k - 1]]
<1> DEFINE next(f, k) == IF k = 0 THEN <<>> ELSE body \o f[k - 1]
<1> DEFINE S == {m \in Nat : \E f : f = [k \in 0 .. m |-> next(f, k)]}
<1>1. 0 \in S
  <2> DEFINE f == [k \in 0 .. 0 |-> <<>>]
  <2>1. f = [k \in 0 .. 0 |-> next(f, k)]
    OBVIOUS
  <2> HIDE DEF f
  <2> QED BY <2>1
<1>2. ASSUME NEW m \in Nat, m \in S PROVE m + 1 \in S
  <2>1. PICK f : f = [k \in 0 .. m |-> next(f, k)]
    BY <1>2
  <2> DEFINE g == [k \in 0 .. m + 1 |-> IF k <= m THEN f[k] ELSE body \o f[m]]
  <2>2. \A k \in 0 .. m + 1 : g[k] = next(g, k)
    <3> SUFFICES ASSUME NEW k \in 0 .. m + 1 PROVE g[k] = next(g, k)
      OBVIOUS
    <3>1. CASE k <= m
      <4>1. g[k] = f[k] /\ k \in 0 .. m
        BY <3>1
      <4>3. f[k] = next(f, k)
        BY <2>1, <4>1, Zenon
      <4>2. k # 0 => g[k - 1] = f[k - 1]
        BY <3>1
      <4> QED BY <4>1, <4>2, <4>3
    <3>2. CASE k = m + 1
      BY <3>2
    <3> QED BY <3>1, <3>2
  <2>3. g = [k \in 0 .. m + 1 |-> next(g, k)]
    BY <2>2
  <2> HIDE DEF g
  <2>4. \E h : h = [k \in 0 .. m + 1 |-> next(h, k)]
    BY <2>3, Zenon
  <2>5. m + 1 \in Nat
    OBVIOUS
  <2> QED BY <2>4, <2>5
<1>3. n \in S
  <2> HIDE DEF S
  <2> QED BY <1>1, <1>2, Induction
<1>4. \E f : f = [k \in 0 .. n |-> next(f, k)]
  BY <1>3
<1> QED BY <1>4 DEF UpTo

LEMMA EmptyPiece ==
    ASSUME NEW e \in SUBSET {"ready", "revalidate"}, NEW D \in SUBSET Names
    PROVE  Piece(e, D, <<>>, 0)
<1>1. <<>> \in Seq(LightOver(e, D))
  OBVIOUS
<1> QED BY <1>1, LightPiece

LEMMA TimesWeighs ==
    ASSUME NEW e \in SUBSET {"ready", "revalidate"}, NEW D \in SUBSET Names, NEW n \in Nat, NEW body, Piece(e, D, body, 1)
    PROVE  Piece(e, D, Times(n, body), n)
<1> DEFINE up == UpTo(n, body)
           S == {k \in Nat : k <= n => Piece(e, D, up[k], k)}
<1>1. /\ up[0] = <<>>
      /\ \A k \in 1 .. n : up[k] = body \o up[k - 1]
  <2>1. up = [k \in 0 .. n |-> IF k = 0 THEN <<>> ELSE body \o up[k - 1]]
    BY UpToExists
  <2> HIDE DEF up
  <2>2. \A k \in 0 .. n : up[k] = IF k = 0 THEN <<>> ELSE body \o up[k - 1]
    BY <2>1
  <2>3. 0 \in 0 .. n /\ \A k \in 1 .. n : k \in 0 .. n /\ k # 0
    OBVIOUS
  <2> QED BY <2>2, <2>3
<1> HIDE DEF up
<1>2. 0 \in S
  BY <1>1, EmptyPiece
<1>3. ASSUME NEW m \in Nat, m \in S PROVE m + 1 \in S
  <2> SUFFICES ASSUME m + 1 <= n PROVE Piece(e, D, up[m + 1], m + 1)
    OBVIOUS
  <2>1. Piece(e, D, up[m], m)
    BY <1>3
  <2>2. up[m + 1] = body \o up[m]
    <3>1. m + 1 \in 1 .. n /\ (m + 1) - 1 = m
      OBVIOUS
    <3> QED BY <1>1, <3>1
  <2>3. m + 1 = 1 + m
    OBVIOUS
  <2>4. Piece(e, D, body \o up[m], m + 1)
    BY <2>1, <2>3, PiecesJoined
  <2> QED BY <2>2, <2>4
<1>4. n \in S
  <2> HIDE DEF S
  <2> QED BY <1>2, <1>3, Induction
<1> QED BY <1>4, TimesIsLast DEF up

(* The function within Interleaved.                                        *)
Laid(n) ==
    CHOOSE up : up = [k \in 0 .. n |->
        IF k = 0 THEN <<>> ELSE up[k - 1] \o RunOf(Schedule[k])]

LEMMA InterleavedIsLast == Interleaved = Laid(Len(Schedule))[Len(Schedule)]
  BY DEF Interleaved, Laid

LEMMA LaidExists ==
    ASSUME NEW n \in Nat
    PROVE  Laid(n) = [k \in 0 .. n |->
               IF k = 0 THEN <<>> ELSE Laid(n)[k - 1] \o RunOf(Schedule[k])]
<1> DEFINE next(f, k) == IF k = 0 THEN <<>> ELSE f[k - 1] \o RunOf(Schedule[k])
<1> DEFINE S == {m \in Nat : \E f : f = [k \in 0 .. m |-> next(f, k)]}
<1>1. 0 \in S
  <2> DEFINE f == [k \in 0 .. 0 |-> <<>>]
  <2>1. f = [k \in 0 .. 0 |-> next(f, k)]
    OBVIOUS
  <2> HIDE DEF f
  <2> QED BY <2>1
<1>2. ASSUME NEW m \in Nat, m \in S PROVE m + 1 \in S
  <2>1. PICK f : f = [k \in 0 .. m |-> next(f, k)]
    BY <1>2
  <2> DEFINE g == [k \in 0 .. m + 1 |->
                     IF k <= m THEN f[k] ELSE f[m] \o RunOf(Schedule[m + 1])]
  <2>2. \A k \in 0 .. m + 1 : g[k] = next(g, k)
    <3> SUFFICES ASSUME NEW k \in 0 .. m + 1 PROVE g[k] = next(g, k)
      OBVIOUS
    <3>1. CASE k <= m
      <4>1. g[k] = f[k] /\ k \in 0 .. m
        BY <3>1
      <4>3. f[k] = next(f, k)
        BY <2>1, <4>1, Zenon
      <4>2. k # 0 => g[k - 1] = f[k - 1]
        BY <3>1
      <4> QED BY <4>1, <4>2, <4>3
    <3>2. CASE k = m + 1
      BY <3>2
    <3> QED BY <3>1, <3>2
  <2>3. g = [k \in 0 .. m + 1 |-> next(g, k)]
    BY <2>2
  <2> HIDE DEF g
  <2>4. \E h : h = [k \in 0 .. m + 1 |-> next(h, k)]
    BY <2>3, Zenon
  <2>5. m + 1 \in Nat
    OBVIOUS
  <2> QED BY <2>4, <2>5
<1>3. n \in S
  <2> HIDE DEF S
  <2> QED BY <1>1, <1>2, Induction
<1>4. \E f : f = [k \in 0 .. n |-> next(f, k)]
  BY <1>3
<1> QED BY <1>4 DEF Laid

LEMMA InterleavedWeighs ==
    ASSUME NEW e \in SUBSET {"ready", "revalidate"}, NEW D \in SUBSET Names,
           "revalidate" \in e, SandboxObjects \subseteq D, "dependenciesHelper" \in D
    PROVE  Piece(e, D, Interleaved, 6)
<1>1. Len(Schedule) = 6 /\ Interleaved = Laid(6)[6]
  <2>1. Len(Schedule) = 6
    BY DEF Schedule
  <2> QED BY <2>1, InterleavedIsLast
<1> DEFINE up == Laid(6)
           run(k) == RunOf(Schedule[k])
<1>2. ASSUME NEW k \in 1 .. 6 PROVE Piece(e, D, run(k), 1)
  <2>1. "baseRun" \in RunNames /\ "fixedRun" \in RunNames
    BY DEF RunNames
  <2> QED BY <2>1, OneBorrowedRun DEF RunOf
<1>3. /\ up[0] = <<>>
      /\ \A k \in 1 .. 6 : up[k] = up[k - 1] \o run(k)
  <2>1. 6 \in Nat
    OBVIOUS
  <2>2. up = [k \in 0 .. 6 |-> IF k = 0 THEN <<>> ELSE up[k - 1] \o run(k)]
    BY <2>1, LaidExists
  <2> HIDE DEF up, run
  <2>3. \A k \in 0 .. 6 : up[k] = IF k = 0 THEN <<>> ELSE up[k - 1] \o run(k)
    BY <2>2
  <2>4. 0 \in 0 .. 6 /\ \A k \in 1 .. 6 : k \in 0 .. 6 /\ k # 0
    OBVIOUS
  <2> QED BY <2>3, <2>4
<1> HIDE DEF up, run
<1> DEFINE S == {k \in Nat : k <= 6 => Piece(e, D, up[k], k)}
<1>4. 0 \in S
  BY <1>3, EmptyPiece
<1>5. ASSUME NEW m \in Nat, m \in S PROVE m + 1 \in S
  <2> SUFFICES ASSUME m + 1 <= 6 PROVE Piece(e, D, up[m + 1], m + 1)
    OBVIOUS
  <2>1. Piece(e, D, up[m], m)
    BY <1>5
  <2>2. m + 1 \in 1 .. 6 /\ (m + 1) - 1 = m
    OBVIOUS
  <2>3. up[m + 1] = up[m] \o run(m + 1) /\ Piece(e, D, run(m + 1), 1)
    BY <1>2, <1>3, <2>2
  <2>4. Piece(e, D, up[m] \o run(m + 1), m + 1)
    BY <2>1, <2>3, PiecesJoined
  <2> QED BY <2>3, <2>4
<1>6. 6 \in S
  <2>1. 6 \in Nat
    OBVIOUS
  <2> HIDE DEF S
  <2> QED BY <1>4, <1>5, <2>1, Induction
<1>7. Piece(e, D, up[6], 6)
  BY <1>6
<1> QED BY <1>1, <1>7 DEF up


----------------------------------------------------------------------------
(* The instructions of the two programs that run nothing.                  *)
LEMMA TidyingGrows ==
    ASSUME NEW D, NEW E, D \subseteq E
    PROVE  Tidying(D) \subseteq Tidying(E) /\ Seq(Tidying(D)) \subseteq Seq(Tidying(E))
<1>1. [do : {"remove", "release"}, obj : D] \subseteq [do : {"remove", "release"}, obj : E]
  OBVIOUS
<1>2. [do : {"cleanup"}, objs : SUBSET D] \subseteq [do : {"cleanup"}, objs : SUBSET E]
  OBVIOUS
<1>3. [do : {"sweep"}, left : SUBSET D, ok : BOOLEAN]
        \subseteq [do : {"sweep"}, left : SUBSET E, ok : BOOLEAN]
  OBVIOUS
<1>4. Tidying(D) \subseteq Tidying(E)
  BY <1>1, <1>2, <1>3, Zenon DEF Tidying
<1> QED BY <1>4, SeqMonotonic

LEMMA SimpleGrows ==
    ASSUME NEW e, NEW f, e \subseteq f, NEW D, NEW E, D \subseteq E
    PROVE  SimpleOver(e, D) \subseteq SimpleOver(f, E)
<1>1. [do : {"create", "exits"}, obj : D] \subseteq [do : {"create", "exits"}, obj : E]
  OBVIOUS
<1>2. [do : {"raise", "raised"} \cup e] \subseteq [do : {"raise", "raised"} \cup f]
  OBVIOUS
<1> QED BY <1>1, <1>2, TidyingGrows, Zenon DEF SimpleOver

LEMMA TriesGrow ==
    ASSUME NEW S, NEW T, S \subseteq T, NEW D, NEW E, D \subseteq E
    PROVE  TryOver(S, D) \subseteq TryOver(T, E)
<1> DEFINE p == Seq(S)
           q == Seq(T)
           a == Seq(Tidying(D))
           c == Seq(Tidying(E))
<1>1. p \subseteq q /\ a \subseteq c
  BY TidyingGrows, SeqMonotonic
<1> HIDE DEF p, q, a, c
<1>2. [do : {"try"}, body : p, handler : {"finally", "except"}, then : a]
        \subseteq [do : {"try"}, body : q, handler : {"finally", "except"}, then : c]
  BY <1>1
<1> QED BY <1>2 DEF TryOver, p, q, a, c

LEMMA OverGrows ==
    ASSUME NEW e, NEW f, e \subseteq f, NEW D, NEW E, D \subseteq E
    PROVE  /\ LightOver(e, D) \subseteq LightOver(f, E)
           /\ Seq(LightOver(e, D)) \subseteq Seq(LightOver(f, E))
<1>1. SimpleOver(e, D) \subseteq SimpleOver(f, E)
  BY SimpleGrows
<1>2. TryOver(SimpleOver(e, D), D) \subseteq TryOver(SimpleOver(f, E), E)
  BY <1>1, TriesGrow
<1>3. ShallowOver(e, D) \subseteq ShallowOver(f, E)
  BY <1>1, <1>2, Zenon DEF ShallowOver
<1>4. TryOver(ShallowOver(e, D), D) \subseteq TryOver(ShallowOver(f, E), E)
  BY <1>3, TriesGrow
<1>5. [do : {"finally", "except"}, then : Seq(Tidying(D))]
        \subseteq [do : {"finally", "except"}, then : Seq(Tidying(E))]
  <2> DEFINE a == Seq(Tidying(D))
             c == Seq(Tidying(E))
  <2>1. a \subseteq c
    BY TidyingGrows
  <2> HIDE DEF a, c
  <2>2. [do : {"finally", "except"}, then : a] \subseteq [do : {"finally", "except"}, then : c]
    BY <2>1
  <2> QED BY <2>2 DEF a, c
<1>6. LightOver(e, D) \subseteq LightOver(f, E)
  BY <1>1, <1>4, <1>5, Zenon DEF LightOver
<1> QED BY <1>6, SeqMonotonic

LEMMA CleanupIsLight ==
    ASSUME NEW b \in BOOLEAN, b = TRUE
    PROVE  /\ Revoke \in Light(b) /\ Cleaned \in Light(b) /\ PrepTry \in Light(b)
           /\ ExceptEC \in Light(b) /\ FinEC \in Light(b)
           /\ ExecutorCleanup \in Seq(Light(b)) /\ Prepare \in Seq(Light(b))
           /\ Seq(Preparing) \subseteq Seq(Light(b)) /\ LastSteps \in Seq(Light(b))
           /\ Preparing \subseteq Light(b)
<1>1. /\ Revoke \in Light(b) /\ Cleaned \in Light(b) /\ PrepTry \in Light(b)
      /\ ExceptEC \in Light(b) /\ FinEC \in Light(b)
  BY DEF Light
<1>2. Steps(b) = {"ready", "revalidate"} /\ Owned(b) = Names
  BY StepsAndNames
<1>3. Tidying(Names) \subseteq LightOver(Steps(b), Names)
      /\ SimpleOver(Steps(b), Names) \subseteq LightOver(Steps(b), Names)
      /\ LightOver(Steps(b), Names) \subseteq Light(b)
  BY <1>2, ClassesOver, Classes
<1>4. Cleanup(ExecutorObjects) \in Light(b)
  <2>1. Cleanup(ExecutorObjects) \in Tidying(Names)
    BY AllNamed, StepsAreSimple
  <2> QED BY <1>3, <2>1
<1>5. ExecutorCleanup \in Seq(Light(b))
  <2> DEFINE S == Light(b)
             p == Revoke
             q == Cleanup(ExecutorObjects)
             u == Cleaned
  <2>1. p \in S /\ q \in S /\ u \in S
    BY <1>1, <1>4
  <2>2. ExecutorCleanup = <<p, q, u>>
    BY DEF ExecutorCleanup, Cleaned
  <2> HIDE DEF S, p, q, u
  <2>3. ExecutorCleanup \in Seq(S)
    BY <2>1, <2>2
  <2> QED BY <2>3 DEF S
<1>6. Preparing \subseteq Light(b)
  <2>1. Others \subseteq Names /\ {} \subseteq Steps(b)
    BY DEF Others
  <2>2. LightOver({}, Others) \subseteq LightOver(Steps(b), Names)
    BY <2>1, OverGrows
  <2>3. Create("dependencies") \in SimpleOver(Steps(b), Names)
    BY AllNamed, StepsAreSimple
  <2> QED BY <1>3, <2>2, <2>3 DEF Preparing
<1>7. LastSteps \in Seq(Light(b))
  <2> DEFINE S == Light(b)
             p == Remove("input")
             q == Remove("wheelhouse")
             u == Host(None)
             v == Ready
  <2>1. p \in S /\ q \in S /\ u \in S
    <3>1. /\ p \in SimpleOver(Steps(b), Names) /\ q \in SimpleOver(Steps(b), Names)
          /\ u \in SimpleOver(Steps(b), Names)
      BY AllNamed, StepsAreSimple DEF Files
    <3> QED BY <1>3, <3>1
  <2>2. v \in S
    <3>1. v \in SimpleOver(Steps(b), Names)
      BY <1>2 DEF SimpleOver, Ready
    <3> QED BY <1>3, <3>1
  <2>3. LastSteps = <<p, q, u, v>>
    BY DEF LastSteps
  <2> HIDE DEF S, p, q, u, v
  <2>4. LastSteps \in Seq(S)
    BY <2>1, <2>2, <2>3
  <2> QED BY <2>4 DEF S
<1>8. Seq(Preparing) \subseteq Seq(Light(b))
  BY <1>6, SeqMonotonic
<1>9. Prepare \in Seq(Light(b))
  <2>1. PICK s \in Seq(Preparing) : Prepare = s \o LastSteps
    BY PrepareMakes
  <2> QED BY <1>7, <1>8, <2>1, Joined
<1> QED BY <1>1, <1>5, <1>6, <1>7, <1>8, <1>9

LEMMA LightKinds ==
    ASSUME NEW b \in BOOLEAN, NEW x \in Light(b)
    PROVE  /\ x.do \notin {"attach", "catch", "judge", "judge-differential", "classify"}
           /\ ~b => x.do \notin {"ready", "revoke", "cleaned", "revalidate"}
           /\ x.do \in {"finally", "except"} => x.then \in Seq(Light(b))
           /\ x.do = "try" => /\ x.body \in Seq(Light(b)) /\ x.then \in Seq(Light(b))
                              /\ x.handler \in {"finally", "except"}
                              /\ [do |-> x.handler, then |-> x.then] \in Light(b)
           /\ x.do \in {"create", "exits", "remove", "release"} => x.obj \in Owned(b)
           /\ x.do = "command" => x.objs \subseteq Names
           /\ x.do = "cleanup" => x.objs \subseteq Owned(b)
           /\ x.do = "sweep" => x.left \subseteq Owned(b) /\ x.ok \in BOOLEAN
           /\ x.do = "host" => x.file \in Files \cup {"report"}
           /\ x.do = "discard" => x.file \in Files
<1> DEFINE e == Steps(b)
           D == Owned(b)
<1>1. e \in SUBSET {"ready", "revalidate"} /\ D \in SUBSET Names /\ (~b => e = {})
  BY StepsAndNames
<1>2. LightOver(e, D) \subseteq Light(b) /\ Seq(LightOver(e, D)) \subseteq Seq(Light(b))
  BY Classes
<1>3. CASE x \in LightOver(e, D)
  <2> HIDE DEF e, D
  <2>1. /\ x.do \notin {"attach", "catch", "judge", "judge-differential", "classify",
                        "revoke", "cleaned"}
        /\ x.do \in {"ready", "revalidate"} => x.do \in e
        /\ x.do \in {"finally", "except"} => x.then \in Seq(Tidying(D))
        /\ x.do = "try" => /\ x.body \in Seq(ShallowOver(e, D))
                           /\ x.handler \in {"finally", "except"}
                           /\ x.then \in Seq(Tidying(D))
        /\ x.do \in {"create", "exits", "remove", "release"} => x.obj \in D
        /\ x.do = "cleanup" => x.objs \subseteq D
        /\ x.do = "command" => x.objs \subseteq Names
        /\ x.do = "sweep" => x.left \subseteq D /\ x.ok \in BOOLEAN
        /\ x.do \in {"host", "discard"} => x.file \in Files
    BY <1>1, <1>3, OverKinds
  <2>2. Seq(Tidying(D)) \subseteq Seq(Light(b)) /\ Seq(ShallowOver(e, D)) \subseteq Seq(Light(b))
    BY <1>2, ClassesOver
  <2>3. x.do = "try" => [do |-> x.handler, then |-> x.then] \in Light(b)
    BY <1>1, <1>2, <1>3, OverEntered
  <2> QED BY <1>1, <2>1, <2>2, <2>3 DEF D
<1>4. CASE b = TRUE /\ x \in {PrepTry, ExceptEC, FinEC, Revoke, Cleaned}
  <2>1. /\ Prepare \in Seq(Light(b)) /\ ExecutorCleanup \in Seq(Light(b))
        /\ ExceptEC \in Light(b)
    BY <1>4, CleanupIsLight
  <2>2. CASE x = PrepTry
    <3>1. /\ x.do = "try" /\ x.body = Prepare /\ x.then = ExecutorCleanup
          /\ x.handler = "except"
      BY <2>2 DEF PrepTry
    <3>2. [do |-> x.handler, then |-> x.then] = ExceptEC
      BY <3>1 DEF ExceptEC
    <3> QED BY <1>4, <2>1, <3>1, <3>2
  <2>3. CASE x = ExceptEC
    <3>1. x.do = "except" /\ x.then = ExecutorCleanup
      BY <2>3 DEF ExceptEC
    <3> QED BY <1>4, <2>1, <3>1
  <2>4. CASE x = FinEC
    <3>1. x.do = "finally" /\ x.then = ExecutorCleanup
      BY <2>4 DEF FinEC
    <3> QED BY <1>4, <2>1, <3>1
  <2>5. CASE x = Revoke \/ x = Cleaned
    <3>1. x.do \in {"revoke", "cleaned"}
      BY <2>5 DEF Revoke, Cleaned
    <3> QED BY <1>4, <3>1
  <2> QED BY <1>4, <2>2, <2>3, <2>4, <2>5
<1>5. CASE b = FALSE /\ x = Filing
  <2>1. x.do = "host" /\ x.file = "report"
    BY <1>5 DEF Filing, Host
  <2> QED BY <1>5, <2>1
<1> HIDE DEF e, D
<1>6. \/ x \in LightOver(e, D)
      \/ b = TRUE /\ x \in {PrepTry, ExceptEC, FinEC, Revoke, Cleaned}
      \/ b = FALSE /\ x = Filing
  BY DEF Light, e, D
<1> QED BY <1>3, <1>4, <1>5, <1>6

LEMMA HeavyIsNotLight ==
    ASSUME NEW b \in BOOLEAN, NEW x \in Light(b), x \in Heavy
    PROVE  FALSE
<1>1. CASE x \in LightOver(Steps(b), Owned(b))
  BY <1>1, StepsAndNames, HeavyIsNotLightOver
<1>2. CASE x \in {ExceptEC, FinEC, Revoke, Cleaned, Filing}
  <2>1. x.do \notin {"try", "attach"}
    BY <1>2 DEF ExceptEC, FinEC, Revoke, Cleaned, Filing, Host
  <2> QED BY <2>1, HeavyKinds DEF Attach
<1>3. CASE x = PrepTry
  <2>1. x.handler = "except"
    BY <1>3 DEF PrepTry
  <2>2. x.do = "try"
    BY <1>3 DEF PrepTry
  <2>3. PICK n \in RunNames : x = AttachedTry(n) \/ x = StartedTry(n)
    BY <2>2, HeavyKinds DEF Attach
  <2> QED BY <2>1, <2>3 DEF AttachedTry, StartedTry
<1> QED BY <1>1, <1>2, <1>3 DEF Light

LEMMA LightWeighsNothing ==
    ASSUME NEW b \in BOOLEAN, NEW s \in Seq(Light(b))
    PROVE  Weigh(s) = 0
<1>1. Light(b) \cap Heavy = {}
  BY HeavyIsNotLight
<1> QED BY <1>1, NoHeavyWeighsNothing

LEMMA LightEntered ==
    ASSUME NEW b \in BOOLEAN, NEW x \in Light(b), x.do = "try"
    PROVE  Entered(x) \in Seq(Light(b))
<1> DEFINE h == [do |-> x.handler, then |-> x.then]
<1>1. x.body \in Seq(Light(b)) /\ h \in Light(b)
  BY LightKinds
<1> HIDE DEF h
<1>2. <<h>> \in Seq(Light(b))
  BY <1>1
<1> QED BY <1>1, <1>2, ConcatProperties DEF Entered, h

LEMMA RunEntered ==
    ASSUME NEW b \in BOOLEAN, NEW x \in Heavy, x.do = "try"
    PROVE  Entered(x) \in Seq(Busy(b)) /\ Weigh(Entered(x)) = 1
<1> DEFINE e == Steps(b)
           D == Owned(b)
<1>1. /\ e \in SUBSET {"ready", "revalidate"} /\ D \in SUBSET Names
      /\ SandboxObjects \subseteq D /\ Seq(BusyOver(e, D)) \subseteq Seq(Busy(b))
  BY StepsAndNames, Classes
<1> HIDE DEF e, D
<1> QED BY <1>1, HeavyEntered


(* Where an exception goes.                                                *)
LEMMA InnermostIsFirst ==
    ASSUME NEW S, NEW s \in Seq(S), Handlers(s) # {}
    PROVE  /\ Innermost(s) \in Handlers(s) /\ Innermost(s) \in 1 .. Len(s)
           /\ \A j \in Handlers(s) : Innermost(s) <= j
<1>1. Handlers(s) \subseteq 1 .. Len(s) /\ Len(s) \in Nat
  BY LenProperties DEF Handlers
<1>2. \E i \in Handlers(s) : \A j \in Handlers(s) : i <= j
  <2> DEFINE hs == Handlers(s)
  <2> HIDE DEF hs
  <2>1. hs \subseteq 1 .. Len(s) /\ hs # {}
    BY <1>1 DEF hs
  <2>2. \E i \in hs : \A j \in hs : i <= j
    BY <1>1, <2>1, LeastOf
  <2> QED BY <2>2 DEF hs
<1> QED BY <1>1, <1>2 DEF Innermost

LEMMA RaiseIsSimple ==
    ASSUME NEW b \in BOOLEAN
    PROVE  /\ Raise \in Light(b) /\ Raised \in Seq(Light(b))
           /\ <<Raise>> \in Seq(Light(b)) /\ Doomed(<<Raise>>)
<1>1. Raise \in Light(b) /\ [do |-> "raised"] \in Light(b)
  <2>1. Raise \in SimpleOver(Steps(b), Owned(b)) /\ [do |-> "raised"] \in SimpleOver(Steps(b), Owned(b))
    BY DEF SimpleOver, Raise
  <2> QED BY <2>1, ClassesOver, Classes
<1>2. Raised \in Seq(Light(b)) /\ <<Raise>> \in Seq(Light(b))
  BY <1>1 DEF Raised
<1>3. Doomed(<<Raise>>)
  <2>1. 1 \in DOMAIN <<Raise>> /\ <<Raise>>[1].do = "raise"
    BY DEF Raise
  <2> QED BY <2>1 DEF Doomed
<1> QED BY <1>1, <1>2, <1>3

LEMMA UnwoundStays ==
    ASSUME NEW S, Raise \in S, Raised \in Seq(S), NEW s \in Seq(S),
           \A u \in S : /\ u.do # "catch"
                        /\ u.do \in {"finally", "except"} => u.then \in Seq(S)
    PROVE  Unwound(s) \in Seq(S)
<1>1. CASE Handlers(s) = {}
  BY <1>1 DEF Unwound
<1>2. CASE Handlers(s) # {}
  <2> DEFINE i == Innermost(s)
  <2>1. i \in 1 .. Len(s) /\ s[i].do \in {"finally", "except", "catch"}
    BY <1>2, InnermostIsFirst DEF Handlers
  <2>2. s[i] \in S
    BY <2>1, ElementOfSeq
  <2> HIDE DEF i
  <2>3. s[i].do \in {"finally", "except"} /\ s[i].then \in Seq(S)
    BY <2>1, <2>2
  <2>4. s[i].then \in Seq(S) /\ <<Raise>> \in Seq(S)
    BY <2>3
  <2>5. SubSeq(s, i + 1, Len(s)) \in Seq(S)
    <3>1. Len(s) \in Nat
      BY LenProperties
    <3>2. i + 1 \in Int /\ Len(s) \in Int
      BY <2>1, <3>1
    <3>3. \A j \in i + 1 .. Len(s) : s[j] \in S
      BY <2>1, <3>1, ElementOfSeq
    <3> QED BY <3>2, <3>3, SubSeqProperties
  <2>6. Unwound(s) = s[i].then \o <<Raise>> \o SubSeq(s, i + 1, Len(s))
    BY <1>2, <2>3 DEF Unwound, i
  <2>7. s[i].then \o <<Raise>> \in Seq(S)
    BY <2>4, ConcatProperties
  <2> QED BY <2>5, <2>6, <2>7, ConcatProperties
<1> QED BY <1>1, <1>2

LEMMA UnwoundStaysLight ==
    ASSUME NEW b \in BOOLEAN, NEW s \in Seq(Light(b))
    PROVE  Unwound(s) \in Seq(Light(b))
<1>1. \A u \in Light(b) : /\ u.do # "catch"
                          /\ u.do \in {"finally", "except"} => u.then \in Seq(Light(b))
  BY LightKinds
<1> QED BY <1>1, RaiseIsSimple, UnwoundStays

(* An exception on the way to a step the program turns on finds a handler  *)
(* before it, and goes on from there; or it passes that step by.           *)
LEMMA UnwoundOnPlan ==
    ASSUME NEW b \in BOOLEAN, NEW x \in Seq(Busy(b)), NEW k, NEW y \in Seq(Light(b)),
           k.do \notin {"finally", "except", "catch"}
    PROVE  \/ Unwound(Path(x, k, y)) \in Seq(Light(b))
           \/ \E p \in Seq(Busy(b)) : Doomed(p) /\ Unwound(Path(x, k, y)) = Path(p, k, y)
<1> DEFINE S == Busy(b) \cup {k}
           r == <<k>> \o y
           s == x \o r
           i == Innermost(s)
<1>1. x \in Seq(S) /\ y \in Seq(S) /\ <<k>> \in Seq(S)
  <2>1. Busy(b) \subseteq S /\ Light(b) \subseteq S /\ k \in S
    BY Classes
  <2> HIDE DEF S
  <2> QED BY <2>1, SeqMonotonic
<1> HIDE DEF S
<1>2. /\ r \in Seq(S) /\ Len(r) = 1 + Len(y)
      /\ \A j \in 1 .. 1 + Len(y) : r[j] = IF j <= 1 THEN k ELSE y[j - 1]
  <2>1. Len(<<k>>) = 1 /\ <<k>>[1] = k
    OBVIOUS
  <2> QED BY <1>1, <2>1, ConcatProperties
<1>3. /\ s \in Seq(S) /\ Len(s) = Len(x) + 1 + Len(y)
      /\ \A j \in 1 .. Len(x) + 1 + Len(y) : s[j] =
            IF j <= Len(x) THEN x[j] ELSE r[j - Len(x)]
      /\ Len(x) \in Nat /\ Len(y) \in Nat
  <2> HIDE DEF r
  <2>1. Len(x) \in Nat /\ Len(y) \in Nat
    BY LenProperties
  <2>2. /\ s \in Seq(S) /\ Len(s) = Len(x) + Len(r)
        /\ \A j \in 1 .. Len(x) + Len(r) : s[j] =
              IF j <= Len(x) THEN x[j] ELSE r[j - Len(x)]
    BY <1>1, <1>2, ConcatProperties
  <2>3. Len(x) + Len(r) = Len(x) + 1 + Len(y)
    BY <1>2, <2>1
  <2> QED BY <2>1, <2>2, <2>3
<1>4. CASE Handlers(s) = {}
  BY <1>4, RaiseIsSimple DEF Unwound, Path
<1> HIDE DEF r, s, i
<1>5. ASSUME Handlers(s) # {}
      PROVE  /\ i \in 1 .. Len(s) /\ s[i].do \in {"finally", "except", "catch"}
             /\ Unwound(s) = s[i].then \o (IF s[i].do = "catch" THEN <<>> ELSE <<Raise>>)
                                       \o SubSeq(s, i + 1, Len(s))
  <2>1. i \in 1 .. Len(s) /\ i \in Handlers(s)
    BY <1>3, <1>5, InnermostIsFirst DEF i
  <2> QED BY <1>5, <2>1 DEF Handlers, Unwound, i
<1>6. CASE Handlers(s) # {} /\ i <= Len(x)
  <2>1. i \in 1 .. Len(x) /\ s[i] = x[i]
    <3>1. i \in 1 .. Len(s) /\ i <= Len(x)
      BY <1>5, <1>6
    <3>2. i \in 1 .. Len(x) + 1 + Len(y) /\ i \in 1 .. Len(x)
      BY <1>3, <3>1
    <3> QED BY <1>3, <3>1, <3>2
  <2>2. x[i] \in Busy(b)
    BY <2>1, ElementOfSeq
  <2>3. x[i].do \in {"finally", "except", "catch"}
    BY <1>5, <1>6, <2>1
  <2>4. x[i] \in Light(b)
    <3>1. x[i] \notin Heavy
      BY <2>3, HeavyKinds DEF Attach
    <3> QED BY <2>2, <3>1 DEF Busy
  <2>5. x[i].do \in {"finally", "except"} /\ x[i].then \in Seq(Light(b))
    BY <2>3, <2>4, LightKinds
  <2> DEFINE z == SubSeq(x, i + 1, Len(x))
             p == x[i].then \o <<Raise>>
  <2>6. /\ z \in Seq(Busy(b)) /\ Len(z) = Len(x) - i
        /\ \A j \in 1 .. Len(x) - i : z[j] = x[i + j]
    <3>1. i + 1 \in Int /\ Len(x) \in Int
      BY <1>3, <2>1
    <3>2. \A j \in i + 1 .. Len(x) : x[j] \in Busy(b)
      BY <2>1, <1>3, ElementOfSeq
    <3>3. /\ z \in Seq(Busy(b)) /\ Len(z) = (IF i + 1 <= Len(x) THEN Len(x) - (i + 1) + 1 ELSE 0)
          /\ \A j \in 1 .. Len(x) - (i + 1) + 1 : z[j] = x[i + 1 + j - 1]
      BY <3>1, <3>2, SubSeqProperties
    <3>4. i \in 1 .. Len(x) /\ Len(x) \in Nat
      BY <1>3, <2>1
    <3>5. /\ (IF i + 1 <= Len(x) THEN Len(x) - (i + 1) + 1 ELSE 0) = Len(x) - i
          /\ Len(x) - (i + 1) + 1 = Len(x) - i
      BY <3>4
    <3>6. \A j \in 1 .. Len(x) - i : i + 1 + j - 1 = i + j
      BY <3>4
    <3> HIDE DEF z
    <3> QED BY <3>3, <3>5, <3>6
  <2>7. p \in Seq(Busy(b)) /\ Doomed(p)
    <3>1. x[i].then \in Seq(Busy(b)) /\ <<Raise>> \in Seq(Busy(b)) /\ Doomed(<<Raise>>)
      BY <2>5, Classes, RaiseIsSimple
    <3> QED BY <3>1, ConcatProperties, MarksOfTwo
  <2>8. SubSeq(s, i + 1, Len(s)) = z \o r
    <3>1. z \in Seq(S)
      <4>1. Busy(b) \subseteq S
        BY DEF S
      <4> QED BY <2>6, <4>1, SeqMonotonic
    <3> HIDE DEF z
    <3>2. /\ z \o r \in Seq(S) /\ Len(z \o r) = Len(x) - i + 1 + Len(y)
          /\ \A j \in 1 .. Len(x) - i + 1 + Len(y) : (z \o r)[j] =
                IF j <= Len(x) - i THEN z[j] ELSE r[j - (Len(x) - i)]
      <4>1. /\ z \o r \in Seq(S) /\ Len(z \o r) = Len(z) + Len(r)
            /\ \A j \in 1 .. Len(z) + Len(r) : (z \o r)[j] =
                  IF j <= Len(z) THEN z[j] ELSE r[j - Len(z)]
        BY <1>2, <3>1, ConcatProperties
      <4>2. Len(z) + Len(r) = Len(x) - i + 1 + Len(y)
        BY <1>2, <1>3, <2>1, <2>6
      <4> QED BY <2>6, <4>1, <4>2
    <3> DEFINE t == SubSeq(s, i + 1, Len(s))
    <3>3. /\ t \in Seq(S) /\ Len(t) = Len(x) - i + 1 + Len(y)
          /\ \A j \in 1 .. Len(x) - i + 1 + Len(y) : t[j] = s[i + j]
      <4>1. i + 1 \in Int /\ Len(s) \in Int
        BY <1>3, <2>1
      <4>2. \A j \in i + 1 .. Len(s) : s[j] \in S
        BY <1>3, <2>1, ElementOfSeq
      <4>3. /\ t \in Seq(S) /\ Len(t) = (IF i + 1 <= Len(s) THEN Len(s) - (i + 1) + 1 ELSE 0)
            /\ \A j \in 1 .. Len(s) - (i + 1) + 1 : t[j] = s[i + 1 + j - 1]
        BY <4>1, <4>2, SubSeqProperties
      <4> HIDE DEF t
      <4>4. Len(s) - (i + 1) + 1 = Len(x) - i + 1 + Len(y) /\ i + 1 <= Len(s)
        BY <1>3, <2>1
      <4>5. ASSUME NEW j \in 1 .. Len(x) - i + 1 + Len(y) PROVE t[j] = s[i + j]
        <5>1. j \in 1 .. Len(s) - (i + 1) + 1
          BY <4>4
        <5>2. i + 1 + j - 1 = i + j
          BY <2>1
        <5>3. t[j] = s[i + 1 + j - 1]
          BY <4>3, <5>1
        <5> QED BY <5>2, <5>3
      <4> QED BY <4>3, <4>4, <4>5
    <3> HIDE DEF t
    <3>4. ASSUME NEW j \in 1 .. Len(x) - i + 1 + Len(y) PROVE t[j] = (z \o r)[j]
      <4>1. CASE j <= Len(x) - i
        <5>1. i + j \in 1 .. Len(x) + 1 + Len(y) /\ i + j <= Len(x)
          BY <1>3, <2>1, <4>1
        <5>2. s[i + j] = x[i + j]
          BY <1>3, <5>1
        <5>3. z[j] = x[i + j]
          <6>1. j \in 1 .. Len(x) - i
            BY <1>3, <2>1, <4>1
          <6> QED BY <2>6, <6>1
        <5>4. t[j] = s[i + j] /\ (z \o r)[j] = z[j]
          BY <3>2, <3>3, <4>1
        <5> QED BY <5>2, <5>3, <5>4
      <4>2. CASE ~(j <= Len(x) - i)
        <5>1. /\ i + j \in 1 .. Len(x) + 1 + Len(y) /\ ~(i + j <= Len(x))
              /\ i + j - Len(x) = j - (Len(x) - i)
          BY <1>3, <2>1, <4>2
        <5> DEFINE q == i + j
        <5>2. s[q] = r[q - Len(x)]
          <6>1. q \in 1 .. Len(x) + 1 + Len(y) /\ ~(q <= Len(x))
            BY <5>1
          <6> HIDE DEF q
          <6> QED BY <1>3, <6>1
        <5>3. t[j] = s[q]
          BY <3>3
        <5>4. (z \o r)[j] = r[j - (Len(x) - i)]
          BY <3>2, <4>2
        <5>5. q - Len(x) = j - (Len(x) - i)
          <6>1. i \in Int /\ j \in Int /\ Len(x) \in Int
            BY <1>3, <2>1
          <6> QED BY <6>1
        <5> HIDE DEF q
        <5> QED BY <5>2, <5>3, <5>4, <5>5
      <4> QED BY <4>1, <4>2
    <3>5. t = z \o r
      <4>1. Len(t) = Len(z \o r) /\ \A j \in 1 .. Len(t) : t[j] = (z \o r)[j]
        BY <3>2, <3>3, <3>4
      <4> QED BY <3>2, <3>3, <4>1, SeqEqual
    <3> QED BY <3>5 DEF t
  <2>9. Unwound(s) = (p \o z) \o r
    <3>1. Unwound(s) = p \o (z \o r)
      BY <1>5, <1>6, <2>1, <2>5, <2>8
    <3>2. p \in Seq(S) /\ z \in Seq(S)
      <4>1. Busy(b) \subseteq S
        BY DEF S
      <4> QED BY <2>6, <2>7, <4>1, SeqMonotonic
    <3>3. r \in Seq(S)
      BY <1>2
    <3> HIDE DEF p, z
    <3>4. (p \o z) \o r = p \o (z \o r)
      BY <3>2, <3>3, ConcatAssociative
    <3> QED BY <3>1, <3>4
  <2>10. p \o z \in Seq(Busy(b)) /\ Doomed(p \o z)
    <3> HIDE DEF p, z
    <3> QED BY <2>6, <2>7, ConcatProperties, MarksOfTwo
  <2> QED BY <2>9, <2>10 DEF r, s, Path
<1>7. CASE Handlers(s) # {} /\ i > Len(x)
  <2>1. i # Len(x) + 1
    <3> SUFFICES ASSUME i = Len(x) + 1 PROVE FALSE
      OBVIOUS
    <3>1. s[i] = r[1] /\ r[1] = k
      BY <1>2, <1>3, <1>5, <1>7
    <3> QED BY <1>5, <1>7, <3>1
  <2> DEFINE m == i - Len(x) - 1
  <2>2. /\ m \in 1 .. Len(y) /\ i = Len(x) + 1 + m
        /\ i - Len(x) = m + 1 /\ i \in 1 .. Len(x) + 1 + Len(y)
    <3>1. i \in 1 .. Len(s) /\ i > Len(x)
      BY <1>5, <1>7
    <3>2. i \in 1 .. Len(x) + 1 + Len(y)
      BY <1>3, <3>1
    <3> QED BY <1>3, <2>1, <3>1, <3>2
  <2> HIDE DEF m
  <2>3. \A j \in m .. Len(y) : s[Len(x) + 1 + j] = y[j]
    <3> SUFFICES ASSUME NEW j \in m .. Len(y) PROVE s[Len(x) + 1 + j] = y[j]
      OBVIOUS
    <3>1. /\ Len(x) + 1 + j \in 1 .. Len(x) + 1 + Len(y) /\ ~(Len(x) + 1 + j <= Len(x))
          /\ Len(x) + 1 + j - Len(x) = j + 1
          /\ j + 1 \in 1 .. 1 + Len(y) /\ ~(j + 1 <= 1) /\ j + 1 - 1 = j
      BY <1>3, <2>2
    <3>2. s[Len(x) + 1 + j] = r[j + 1]
      BY <1>3, <3>1
    <3>3. r[j + 1] = y[j]
      BY <1>2, <3>1
    <3> QED BY <3>2, <3>3
  <2>4. s[i] = y[m] /\ y[m] \in Light(b)
    <3>1. m \in m .. Len(y)
      BY <2>2
    <3> QED BY <2>2, <2>3, <3>1, ElementOfSeq
  <2>5. y[m].do \in {"finally", "except"} /\ y[m].then \in Seq(Light(b))
    BY <1>5, <1>7, <2>4, LightKinds
  <2>6. SubSeq(s, i + 1, Len(s)) \in Seq(Light(b))
    <3>1. i + 1 \in Int /\ Len(s) \in Int
      BY <1>3, <2>2
    <3>2. ASSUME NEW j \in i + 1 .. Len(s) PROVE s[j] \in Light(b)
      <4>1. /\ j - Len(x) - 1 \in m .. Len(y) /\ Len(x) + 1 + (j - Len(x) - 1) = j
            /\ j - Len(x) - 1 \in 1 .. Len(y)
        BY <1>3, <2>2
      <4>2. s[j] = y[j - Len(x) - 1]
        BY <2>3, <4>1
      <4> QED BY <4>1, <4>2, ElementOfSeq
    <3> QED BY <3>1, <3>2, SubSeqProperties
  <2>7. y[m].then \o <<Raise>> \in Seq(Light(b))
    <3>1. y[m].then \in Seq(Light(b)) /\ <<Raise>> \in Seq(Light(b))
      BY <2>5, Classes, RaiseIsSimple
    <3> QED BY <3>1, ConcatProperties
  <2>8. Unwound(s) = (y[m].then \o <<Raise>>) \o SubSeq(s, i + 1, Len(s))
    BY <1>5, <1>7, <2>4, <2>5
  <2>9. Unwound(s) \in Seq(Light(b))
    BY <2>6, <2>7, <2>8, ConcatProperties
  <2> QED BY <2>9 DEF r, s, Path
<1>8. Handlers(s) = {} \/ (Handlers(s) # {} /\ i <= Len(x)) \/ (Handlers(s) # {} /\ i > Len(x))
  <2> SUFFICES ASSUME Handlers(s) # {} PROVE i <= Len(x) \/ i > Len(x)
    OBVIOUS
  <2>1. i \in 1 .. Len(s)
    BY <1>5
  <2>2. i \in Int /\ Len(x) \in Int
    BY <1>3, <2>1
  <2> QED BY <2>2
<1> QED BY <1>4, <1>6, <1>7, <1>8 DEF r, s, Path


----------------------------------------------------------------------------
(* The two try statements around the judgement, entered.                   *)

LEMMA SetApart ==
    ASSUME NEW S, NEW s \in Seq(S), NEW t \in Seq(S), NEW u \in Seq(S)
    PROVE  (s \o t) \o u = s \o (t \o u)
  BY ConcatAssociative

LEMMA OneOf ==
    ASSUME NEW S, NEW x \in S
    PROVE  <<x>> \in Seq(S)
  OBVIOUS

LEMMA LateIsLight ==
    ASSUME NEW b \in BOOLEAN
    PROVE  /\ LateSteps(b) \in SUBSET {"ready", "revalidate"} /\ LateObjects(b) \in SUBSET Names
           /\ SandboxObjects \subseteq LateObjects(b)
           /\ b => "revalidate" \in LateSteps(b) /\ "dependenciesHelper" \in LateObjects(b)
           /\ LightOver(LateSteps(b), LateObjects(b)) \subseteq LightOver(Steps(b), Owned(b))
           /\ Running(b) \subseteq Busy(b) /\ Seq(Running(b)) \subseteq Seq(Busy(b))
           /\ Running(b) = BusyOver(LateSteps(b), LateObjects(b))
<1>1. /\ LateSteps(b) \in SUBSET {"ready", "revalidate"} /\ LateObjects(b) \in SUBSET Names
      /\ SandboxObjects \subseteq LateObjects(b)
      /\ b => "revalidate" \in LateSteps(b) /\ "dependenciesHelper" \in LateObjects(b)
  BY AllNamed DEF LateSteps, LateObjects
<1>2. LateSteps(b) \subseteq Steps(b) /\ LateObjects(b) \subseteq Owned(b)
  BY AllNamed DEF LateSteps, LateObjects, Steps, Owned
<1>3. LightOver(LateSteps(b), LateObjects(b)) \subseteq LightOver(Steps(b), Owned(b))
  BY <1>2, OverGrows
<1>4. Running(b) = BusyOver(LateSteps(b), LateObjects(b))
  BY DEF Running, BusyOver
<1>5. Running(b) \subseteq Busy(b)
  <2>1. LightOver(Steps(b), Owned(b)) \subseteq Light(b)
    BY Classes
  <2> QED BY <1>3, <2>1 DEF Running, Busy
<1>6. Seq(Running(b)) \subseteq Seq(Busy(b))
  BY <1>5, SeqMonotonic
<1> QED BY <1>1, <1>3, <1>4, <1>5, <1>6

(* What the verifier does up to its first judgement, and what the finally  *)
(* block of its try statement leaves.                                      *)
LEMMA TrialEntered ==
    ASSUME NEW b \in BOOLEAN
    PROVE  /\ Trial(b).do = "try"
           /\ \E p : /\ Entered(Trial(b)) = p \o (<<Judging(b)>> \o <<FinSC>>)
                     /\ p \in Seq(Running(b)) /\ Weigh(p) = 1
                     /\ b => Checked(p)
<1> DEFINE k == Judging(b)
           h == <<FinSC>>
           S == Busy(b) \cup {k, FinSC}
           e == LateSteps(b)
           D == LateObjects(b)
<1>0. /\ e \in SUBSET {"ready", "revalidate"} /\ D \in SUBSET Names
      /\ SandboxObjects \subseteq D /\ Running(b) = BusyOver(e, D)
      /\ b => "revalidate" \in e /\ "dependenciesHelper" \in D
  BY LateIsLight
<1>2. Busy(b) \subseteq S /\ Seq(Running(b)) \subseteq Seq(S)
      /\ <<k>> \in Seq(S) /\ h \in Seq(S)
  <2>1. Running(b) \subseteq S /\ Busy(b) \subseteq S /\ k \in S /\ FinSC \in S
    BY LateIsLight
  <2> HIDE DEF S
  <2> QED BY <2>1, SeqMonotonic
<1> HIDE DEF h, S, e, D
<1>3. CASE b = FALSE
  <2> DEFINE p == RunPytest("run")
  <2>1. k = [do |-> "judge"]
    BY <1>3 DEF Judging
  <2>2. Trial(b) = [do |-> "try", body |-> p \o Judge, handler |-> "finally",
                    then |-> SandboxCleanup]
    BY <1>3 DEF Trial, Try
  <2>3. Judge = <<k>>
    BY <2>1 DEF Judge
  <2>4. Piece(e, D, p, 1)
    <3>1. "run" \in RunNames
      BY DEF RunNames
    <3> QED BY <1>0, <3>1, OneRun
  <2> HIDE DEF k, p
  <2>5. Entered(Trial(b)) = (p \o <<k>>) \o h
    BY <2>2, <2>3 DEF Entered, h, FinSC
  <2>6. p \in Seq(Running(b)) /\ Weigh(p) = 1
    BY <1>0, <2>4 DEF Piece
  <2>7. (p \o <<k>>) \o h = p \o (<<k>> \o h)
    <3>1. p \in Seq(S)
      BY <1>2, <2>6
    <3> QED BY <1>2, <3>1, SetApart
  <2>8. Trial(b).do = "try"
    BY <2>2
  <2>9. /\ Entered(Trial(b)) = p \o (<<k>> \o h) /\ p \in Seq(Running(b)) /\ Weigh(p) = 1
        /\ (b => Checked(p))
    BY <1>3, <2>5, <2>6, <2>7
  <2> QED BY <2>8, <2>9 DEF k, h
<1>4. CASE b = TRUE
  <2> DEFINE v == StageAttestedSource("workspace", "stage", "owner", "attest")
             run == BorrowedRun("baseRun")
             p == (Revalidate \o v) \o run
  <2>1. k = [do |-> "judge-differential"]
    BY <1>4 DEF Judging
  <2>2. Trial(b) = [do |-> "try", body |-> p \o <<k>>, handler |-> "finally",
                    then |-> SandboxCleanup]
    <3>1. Trial(b) = Head(VerifyDifferential)
      BY <1>4 DEF Trial
    <3> QED BY <2>1, <3>1 DEF VerifyDifferential, Try
  <2>3. "revalidate" \in e /\ "dependenciesHelper" \in D
    BY <1>0, <1>4
  <2>4. v \in Seq(LightOver(e, D))
    <3>1. {"workspace", "stage", "owner", "attest"} \subseteq D
      BY <1>0 DEF SandboxObjects
    <3> QED BY <1>0, <3>1, StagingIsLight
  <2>5. Revalidate \in Seq(LightOver(e, D)) /\ Checked(Revalidate)
    BY <1>0, <2>3, RevalidateIsLight
  <2>6. Piece(e, D, run, 1)
    <3>1. "baseRun" \in RunNames
      BY DEF RunNames
    <3> QED BY <1>0, <2>3, <3>1, OneBorrowedRun
  <2> HIDE DEF k, v, run
  <2>7. Revalidate \o v \in Seq(LightOver(e, D)) /\ Checked(Revalidate \o v)
    BY <2>4, <2>5, Joined, MarksOfTwo
  <2>8. Piece(e, D, p, 1)
    <3>1. Piece(e, D, Revalidate \o v, 0)
      BY <1>0, <2>7, LightPiece
    <3> QED BY <2>6, <3>1, PiecesJoined
  <2>9. Checked(p)
    <3>1. Revalidate \o v \in Seq(BusyOver(e, D)) /\ run \in Seq(BusyOver(e, D))
      BY <2>6, <2>7, ClassesOver DEF Piece
    <3> QED BY <2>7, <3>1, MarksOfTwo
  <2> HIDE DEF p
  <2>10. Entered(Trial(b)) = (p \o <<k>>) \o h
    BY <2>2 DEF Entered, h, FinSC
  <2>11. p \in Seq(Running(b)) /\ Weigh(p) = 1
    BY <1>0, <2>8 DEF Piece
  <2>12. (p \o <<k>>) \o h = p \o (<<k>> \o h)
    <3>1. p \in Seq(S)
      BY <1>2, <2>11
    <3> QED BY <1>2, <3>1, SetApart
  <2>13. Trial(b).do = "try"
    BY <2>2
  <2>14. /\ Entered(Trial(b)) = p \o (<<k>> \o h) /\ p \in Seq(Running(b)) /\ Weigh(p) = 1
         /\ Checked(p)
    BY <2>9, <2>10, <2>11, <2>12
  <2> QED BY <2>13, <2>14 DEF k, h
<1> QED BY <1>3, <1>4

(* The workflow: what it does before, and what after, the verifier's try   *)
(* statement; the differential evaluation prepares the dependencies before *)
(* it.                                                                     *)
LEMMA WorkflowEntered ==
    ASSUME NEW b \in BOOLEAN, b = FALSE
    PROVE  /\ Whole(b).do = "try"
           /\ \E p, q : /\ Entered(Whole(b)) = p \o (<<Trial(b)>> \o q)
                        /\ p \in Seq(LightOver(Steps(b), Owned(b)))
                        /\ q \in Seq(Light(b)) /\ q \in Seq(Barren(b))
<1> DEFINE k == Trial(b)
           S == Light(b) \cup {k}
           e == Steps(b)
           D == Owned(b)
<1>0. /\ e \in SUBSET {"ready", "revalidate"} /\ D \in SUBSET Names
      /\ SandboxObjects \subseteq D
      /\ LightOver(e, D) \subseteq Light(b) /\ Seq(LightOver(e, D)) \subseteq Seq(Light(b))
  BY StepsAndNames, Classes
<1>1. Seq(Light(b)) \subseteq Seq(S) /\ <<k>> \in Seq(S)
  <2>1. Light(b) \subseteq S /\ k \in S
    OBVIOUS
  <2> HIDE DEF S
  <2> QED BY <2>1, SeqMonotonic
<1> HIDE DEF S, e, D
<1> DEFINE z == SandboxCleanup \o <<Discard("extraction"), Discard("archive")>>
           fin == [do |-> "finally", then |-> z]
           h == <<fin>>
           a == <<Host("archive"), Host("extraction"), Host(None)>>
           f == (<<Engine>> \o RunnerFacts) \o <<Host(None)>>
           c == StageAttestedSource("workspace", "stage", "owner", "attest")
           d == <<Host("patch"), Host("report")>>
<1>2. /\ Host("archive") \in SimpleOver(e, D) /\ Host("extraction") \in SimpleOver(e, D)
      /\ Host(None) \in SimpleOver(e, D) /\ Host("patch") \in SimpleOver(e, D)
      /\ Engine \in SimpleOver(e, D)
      /\ Discard("extraction") \in Tidying(D) /\ Discard("archive") \in Tidying(D)
  BY <1>0, StepsAreSimple DEF Files
<1>3. z \in Seq(Tidying(D))
  <2>1. <<Discard("extraction"), Discard("archive")>> \in Seq(Tidying(D))
    BY <1>2
  <2> QED BY <1>0, <2>1, CleanupIsTidying, Joined
<1>4. h \in Seq(Light(b)) /\ fin \in Barren(b)
  <2> HIDE DEF z
  <2>1. fin \in LightOver(e, D)
    BY <1>3 DEF LightOver
  <2>2. Seq(Tidying(D)) \subseteq Seq(Tidying(Names))
    BY <1>0, TidyingGrows
  <2>3. z \in Seq(Tidying(Names))
    BY <1>3, <2>2
  <2>4. fin \in Barren(b)
    BY <2>3 DEF Barren
  <2> HIDE DEF fin
  <2> QED BY <1>0, <2>1, <2>4
<1>5. a \in Seq(LightOver(e, D))
  <2>1. a \in Seq(SimpleOver(e, D))
    BY <1>2
  <2> HIDE DEF a
  <2> QED BY <2>1, ClassesOver
<1>6. d \in Seq(Light(b)) /\ d \o h \in Seq(Light(b)) /\ d \o h \in Seq(Barren(b))
  <2> DEFINE m == Host("patch")
             n == Host("report")
  <2>1. m \in Light(b) /\ n \in Light(b)
    <3>1. m \in LightOver(e, D)
      BY <1>2, ClassesOver
    <3> QED BY <1>0, <3>1 DEF Light, Filing
  <2>2. m \in Barren(b) /\ n \in Barren(b)
    BY DEF Barren, Host, Files
  <2> HIDE DEF m, n, fin
  <2>3. /\ <<m, n>> \in Seq(Light(b)) /\ <<m, n>> \in Seq(Barren(b))
        /\ h \in Seq(Light(b)) /\ h \in Seq(Barren(b))
    BY <1>4, <2>1, <2>2
  <2>4. d = <<m, n>>
    BY DEF m, n
  <2> HIDE DEF h
  <2> QED BY <2>3, <2>4, Joined
<1>7. f \in Seq(LightOver(e, D))
  <2>1. <<Engine>> \in Seq(ShallowOver(e, D)) /\ <<Host(None)>> \in Seq(ShallowOver(e, D))
    <3>1. <<Engine>> \in Seq(SimpleOver(e, D)) /\ <<Host(None)>> \in Seq(SimpleOver(e, D))
      BY <1>2
    <3> QED BY <3>1, ClassesOver
  <2>2. RunnerFacts \in Seq(ShallowOver(e, D))
    <3>1. "facts" \in D
      BY <1>0 DEF SandboxObjects
    <3>2. Create("facts") \in SimpleOver(e, D) /\ Remove("facts") \in Tidying(D)
      BY <1>0, <3>1, StepsAreSimple
    <3>3. [do |-> "exits", obj |-> "facts"] \in SimpleOver(e, D)
      BY <3>1 DEF SimpleOver
    <3>4. <<Create("facts"), [do |-> "exits", obj |-> "facts"]>> \in Seq(SimpleOver(e, D))
          /\ <<Remove("facts")>> \in Seq(Tidying(D))
      BY <3>2, <3>3
    <3>5. Try(<<Create("facts"), [do |-> "exits", obj |-> "facts"]>>,
              "finally", <<Remove("facts")>>) \in Seq(ShallowOver(e, D))
      BY <3>4, TriesByDepth
    <3> QED BY <2>1, <3>5, Joined DEF RunnerFacts
  <2>3. <<Engine>> \o RunnerFacts \in Seq(ShallowOver(e, D))
    BY <2>1, <2>2, Joined
  <2>4. f \in Seq(ShallowOver(e, D))
    BY <2>1, <2>3, Joined
  <2> QED BY <2>4, ClassesOver
<1>8. c \in Seq(LightOver(e, D))
  <2>1. {"workspace", "stage", "owner", "attest"} \subseteq D
    BY <1>0 DEF SandboxObjects
  <2> QED BY <1>0, <2>1, StagingIsLight
<1>9. Try(RunPytest("run") \o Judge, "finally", SandboxCleanup) = <<k>>
  BY DEF Trial, Try
<1>10. Whole(b) = [do |-> "try", body |-> a \o (((f \o (c \o <<k>>)) \o d)),
                  handler |-> "finally", then |-> z]
  <2>1. VerifyCandidate = c \o <<k>>
    BY <1>9 DEF VerifyCandidate
  <2>2. VerifyAndWrite = (f \o (c \o <<k>>)) \o d
    BY <2>1 DEF VerifyAndWrite
  <2>3. Whole(b) = Head(Workflow)
    BY DEF Whole
  <2> HIDE DEF k, c, d, f
  <2> QED BY <2>2, <2>3 DEF Workflow, Try
<1> HIDE DEF k, z, a, f, c, d
<1>11. Entered(Whole(b)) = (a \o ((f \o (c \o <<k>>)) \o d)) \o h
  BY <1>10 DEF Entered
<1> HIDE DEF fin, h
<1>12. /\ a \in Seq(S) /\ f \in Seq(S) /\ c \in Seq(S) /\ d \in Seq(S) /\ h \in Seq(S)
  BY <1>0, <1>1, <1>4, <1>5, <1>6, <1>7, <1>8
<1> DEFINE fc == f \o c
           kd == <<k>> \o d
           afc == a \o fc
<1>13. f \o (c \o <<k>>) = fc \o <<k>> /\ fc \in Seq(S)
  BY <1>1, <1>12, SetApart, Joined
<1>14. kd \in Seq(S) /\ kd \o h = <<k>> \o (d \o h)
  BY <1>1, <1>12, SetApart, Joined
<1>15. (fc \o <<k>>) \o d = fc \o kd
  <2>1. fc \in Seq(S) /\ <<k>> \in Seq(S) /\ d \in Seq(S)
    BY <1>1, <1>12, <1>13
  <2> HIDE DEF fc, kd
  <2>2. (fc \o <<k>>) \o d = fc \o (<<k>> \o d)
    BY <2>1, SetApart
  <2> QED BY <2>2 DEF kd
<1>16. fc \in Seq(LightOver(e, D))
  BY <1>7, <1>8, Joined
<1> HIDE DEF fc, kd
<1>17. a \o (fc \o kd) = afc \o kd /\ afc \in Seq(S)
  <2>1. a \in Seq(S) /\ fc \in Seq(S) /\ kd \in Seq(S)
    BY <1>12, <1>13, <1>14
  <2>2. (a \o fc) \o kd = a \o (fc \o kd)
    BY <2>1, SetApart
  <2>3. a \o fc \in Seq(S)
    BY <2>1, Joined
  <2> QED BY <2>2, <2>3
<1>18. afc \in Seq(LightOver(e, D))
  BY <1>5, <1>16, Joined
<1> HIDE DEF afc
<1>19. (afc \o kd) \o h = afc \o (kd \o h)
  <2>1. afc \in Seq(S) /\ kd \in Seq(S) /\ h \in Seq(S)
    BY <1>12, <1>14, <1>17
  <2> QED BY <2>1, SetApart
<1>20. Entered(Whole(b)) = afc \o (<<k>> \o (d \o h))
  BY <1>11, <1>13, <1>14, <1>15, <1>17, <1>19
<1>21. Whole(b).do = "try"
  BY <1>10
<1> QED BY <1>6, <1>18, <1>20, <1>21 DEF k, e, D

LEMMA DifferentialEntered ==
    ASSUME NEW b \in BOOLEAN, b = TRUE
    PROVE  /\ Whole(b).do = "try"
           /\ Entered(Whole(b)) = <<PrepTry>> \o (<<Trial(b)>> \o <<FinEC>>)
           /\ <<PrepTry>> \in Seq(Light(b)) /\ <<FinEC>> \in Seq(Light(b))
           /\ <<FinEC>> \in Seq(Barren(b))
<1> DEFINE h == <<FinEC>>
           a == <<PrepTry>>
           k == Trial(b)
           S == {PrepTry, k, FinEC}
<1>1. VerifyDifferential = <<k>>
  <2>1. k = Head(VerifyDifferential)
    BY DEF Trial
  <2> HIDE DEF k
  <2> QED BY <2>1 DEF VerifyDifferential, Try
<1>2. Try(Prepare, "except", ExecutorCleanup) = a
  BY DEF Try, PrepTry
<1>3. Whole(b) = [do |-> "try", body |-> a \o <<k>>, handler |-> "finally",
                  then |-> ExecutorCleanup]
  <2>1. Whole(b) = Head(Differential)
    BY DEF Whole
  <2> HIDE DEF k, a
  <2>2. Differential = Try(a \o <<k>>, "finally", ExecutorCleanup)
    BY <1>1, <1>2 DEF Differential
  <2> QED BY <2>1, <2>2 DEF Try
<1> HIDE DEF k
<1>4. a \in Seq(S) /\ h \in Seq(S) /\ <<k>> \in Seq(S)
  <2> HIDE DEF PrepTry, FinEC
  <2> QED OBVIOUS
<1>5. Entered(Whole(b)) = (a \o <<k>>) \o h
  BY <1>3 DEF Entered, FinEC
<1>6. (a \o <<k>>) \o h = a \o (<<k>> \o h)
  <2> HIDE DEF a, h, S
  <2> QED BY <1>4, SetApart
<1>7. Whole(b).do = "try"
  BY <1>3
<1>8. /\ PrepTry \in Light(b) /\ FinEC \in Light(b) /\ FinEC \in Barren(b)
  BY CleanupIsLight DEF Barren
<1>9. Entered(Whole(b)) = a \o (<<k>> \o h)
  BY <1>5, <1>6
<1>10. a \in Seq(Light(b)) /\ h \in Seq(Light(b)) /\ h \in Seq(Barren(b))
  BY <1>8, OneOf, Zenon
<1> HIDE DEF a, h
<1> QED BY <1>7, <1>9, <1>10 DEF k, a, h

LEMMA WholeEntered ==
    ASSUME NEW b \in BOOLEAN
    PROVE  /\ Whole(b).do = "try"
           /\ \E p, q \in Seq(Light(b)) : Entered(Whole(b)) = p \o (<<Trial(b)>> \o q)
<1>1. CASE b = FALSE
  BY <1>1, WorkflowEntered, Classes
<1>2. CASE b = TRUE
  BY <1>2, DifferentialEntered
<1> QED BY <1>1, <1>2

(* What an accepted collection is followed by.                             *)
LEMMA RunsToCome ==
    ASSUME NEW b \in BOOLEAN
    PROVE  LET go == IF b THEN StageAttestedSource("workspace2", "stage2", "owner2", "attest2")
                               \o Interleaved
                          ELSE Times(Repeats, RunPytest("run"))
           IN  go \in Seq(Running(b)) /\ Weigh(go) = Wanted(b)
<1> DEFINE e == LateSteps(b)
           D == LateObjects(b)
<1>0. /\ e \in SUBSET {"ready", "revalidate"} /\ D \in SUBSET Names
      /\ SandboxObjects \subseteq D /\ Running(b) = BusyOver(e, D)
      /\ b => "revalidate" \in e /\ "dependenciesHelper" \in D
  BY LateIsLight
<1> HIDE DEF e, D
<1>1. CASE b = FALSE
  <2>1. "run" \in RunNames /\ Repeats \in Nat
    BY ResultsAssumption DEF RunNames
  <2>2. Piece(e, D, RunPytest("run"), 1)
    BY <1>0, <2>1, OneRun
  <2>3. Piece(e, D, Times(Repeats, RunPytest("run")), Repeats)
    BY <1>0, <2>1, <2>2, TimesWeighs
  <2> QED BY <1>0, <1>1, <2>3 DEF Wanted, Piece
<1>2. CASE b = TRUE
  <2> DEFINE v == StageAttestedSource("workspace2", "stage2", "owner2", "attest2")
  <2>1. v \in Seq(LightOver(e, D))
    <3>1. {"workspace2", "stage2", "owner2", "attest2"} \subseteq D
      BY <1>0 DEF SandboxObjects
    <3> QED BY <1>0, <3>1, StagingIsLight
  <2>2. Piece(e, D, Interleaved, 6)
    BY <1>0, <1>2, InterleavedWeighs
  <2> HIDE DEF v
  <2>3. Piece(e, D, v \o Interleaved, 6)
    <3>1. Piece(e, D, v, 0) /\ 6 = 0 + 6
      BY <1>0, <2>1, LightPiece
    <3> QED BY <2>2, <3>1, PiecesJoined
  <2>4. Wanted(b) = 6
    BY <1>2 DEF Wanted
  <2> QED BY <1>0, <1>2, <2>3, <2>4 DEF v, Piece
<1> QED BY <1>1, <1>2


----------------------------------------------------------------------------
(* How a plan is carried out.                                              *)
LEMMA KeyKinds ==
    ASSUME NEW b \in BOOLEAN, NEW k \in Keys(b)
    PROVE  /\ k.do \in {"judge", "judge-differential", "classify", "try"}
           /\ k.do = "try" => k \in {Trial(b), Whole(b)}
           /\ k.do # "try" => k \notin {Trial(b), Whole(b)}
           /\ k.do = "classify" <=> k = Classifying
           /\ k.do \in {"judge", "judge-differential"} <=> k = Judging(b)
<1>1. Trial(b).do = "try" /\ Whole(b).do = "try"
  BY TrialEntered, WholeEntered
<1>2. Judging(b).do \in {"judge", "judge-differential"}
  BY DEF Judging
<1>3. Classifying.do = "classify"
  BY DEF Classifying
<1> QED BY <1>1, <1>2, <1>3 DEF Keys

LEMMA AtKey ==
    ASSUME NEW b \in BOOLEAN, NEW k, NEW y \in Seq(Light(b))
    PROVE  Path(<<>>, k, y) # <<>> /\ Head(Path(<<>>, k, y)) = k /\ Tail(Path(<<>>, k, y)) = y
<1>1. PICK S : S = Light(b) \cup {k}
  OBVIOUS
<1>2. k \in S /\ y \in Seq(S)
  <2>1. Light(b) \subseteq S /\ k \in S
    BY <1>1
  <2> QED BY <2>1, SeqMonotonic
<1>3. /\ <<k>> \o y # <<>> /\ <<k>> \o y \in Seq(S)
      /\ Head(<<k>> \o y) = k /\ Tail(<<k>> \o y) = y
  BY <1>2, FirstOfOne
<1> DEFINE r == <<k>> \o y
<1> HIDE DEF r
<1>4. r \in Seq(S) /\ <<>> \o r = r
  BY <1>3, ConcatEmptySeq DEF r
<1>5. Path(<<>>, k, y) = r
  BY <1>4 DEF Path, r
<1> QED BY <1>3, <1>5 DEF r

LEMMA BeforeKey ==
    ASSUME NEW b \in BOOLEAN, NEW x \in Seq(Busy(b)), x # <<>>, NEW k,
           NEW y \in Seq(Light(b))
    PROVE  /\ Path(x, k, y) # <<>> /\ Head(Path(x, k, y)) = Head(x)
           /\ Tail(Path(x, k, y)) = Path(Tail(x), k, y)
           /\ x = <<Head(x)>> \o Tail(x) /\ Head(x) \in Busy(b) /\ Tail(x) \in Seq(Busy(b))
<1>1. PICK S : S = Busy(b) \cup {k}
  OBVIOUS
<1>2. x \in Seq(S) /\ y \in Seq(S) /\ k \in S
  <2>1. Busy(b) \subseteq S /\ Light(b) \subseteq S /\ k \in S
    BY <1>1, Classes
  <2> QED BY <2>1, SeqMonotonic
<1> DEFINE r == <<k>> \o y
<1>3. r \in Seq(S)
  BY <1>2, FirstOfOne
<1> HIDE DEF r
<1>4. x \o r # <<>> /\ Head(x \o r) = Head(x) /\ Tail(x \o r) = Tail(x) \o r
  BY <1>2, <1>3, FirstOfTwo
<1>5. x = <<Head(x)>> \o Tail(x) /\ Head(x) \in Busy(b) /\ Tail(x) \in Seq(Busy(b))
  BY FirstOfTwo
<1> QED BY <1>4, <1>5 DEF Path, r

LEMMA AddedBefore ==
    ASSUME NEW S, NEW p \in Seq(S), NEW z \in Seq(S), NEW r \in Seq(S)
    PROVE  p \o (z \o r) = (p \o z) \o r
  BY SetApart

LEMMA AddedBeforeKey ==
    ASSUME NEW b \in BOOLEAN, NEW p \in Seq(Busy(b)), NEW z \in Seq(Busy(b)), NEW k,
           NEW y \in Seq(Light(b))
    PROVE  p \o Path(z, k, y) = Path(p \o z, k, y)
<1>1. PICK S : S = Busy(b) \cup {k}
  OBVIOUS
<1>2. p \in Seq(S) /\ z \in Seq(S) /\ y \in Seq(S) /\ k \in S
  <2>1. Busy(b) \subseteq S /\ Light(b) \subseteq S /\ k \in S
    BY <1>1, Classes
  <2> QED BY <2>1, SeqMonotonic
<1> DEFINE r == <<k>> \o y
<1>3. r \in Seq(S)
  BY <1>2, FirstOfOne
<1> HIDE DEF r
<1>4. p \o (z \o r) = (p \o z) \o r
  BY <1>2, <1>3, AddedBefore
<1> QED BY <1>4 DEF Path, r

LEMMA MarksOfOne ==
    ASSUME NEW p
    PROVE  /\ Doomed(<<p>>) <=> p.do = "raise"
           /\ Checked(<<p>>) <=> p.do = "revalidate"
           /\ ~Doomed(<<>>) /\ ~Checked(<<>>)
<1>1. DOMAIN <<p>> = {1} /\ <<p>>[1] = p
  OBVIOUS
<1> QED BY <1>1 DEF Doomed, Checked

LEMMA PlanHead ==
    ASSUME NEW b \in BOOLEAN, NEW t, NEW c, NEW rs, NEW h, Planned(b, t, c, rs, h)
    PROVE  t # <<>> /\ (Head(t) \in Keys(b) \/ Head(t) \in Busy(b))
<1>1. PICK x \in Seq(Busy(b)), k \in Keys(b), y \in Seq(Light(b)) : t = Path(x, k, y)
  BY DEF Planned
<1>2. CASE x = <<>>
  BY <1>1, <1>2, AtKey
<1>3. CASE x # <<>>
  <2>1. x \in Seq(Busy(b)) /\ y \in Seq(Light(b))
    BY <1>1
  <2>2. /\ Path(x, k, y) # <<>> /\ Head(Path(x, k, y)) = Head(x)
        /\ Tail(Path(x, k, y)) = Path(Tail(x), k, y)
        /\ x = <<Head(x)>> \o Tail(x) /\ Head(x) \in Busy(b) /\ Tail(x) \in Seq(Busy(b))
    BY <1>3, <2>1, BeforeKey
  <2> QED BY <1>1, <2>2
<1> QED BY <1>2, <1>3

(* An instruction gives way to others that make as many executions.        *)
LEMMA PathGoesOn ==
    ASSUME NEW b \in BOOLEAN, NEW x \in Seq(Busy(b)), NEW k \in Keys(b),
           NEW y \in Seq(Light(b)), NEW t, NEW c, NEW rs, NEW h, NEW g,
           t = Path(x, k, y), OnPlan(b, x, k, y, c, rs, h), x # <<>>,
           Head(t).do # "raise",
           NEW P \in Seq(Busy(b)), Weigh(P) = Weigh(<<Head(t)>>),
           Head(t).do = "revalidate" => g # None,
           g = h \/ (b /\ g # None)
    PROVE  Planned(b, P \o Tail(t), c, rs, g)
<1> DEFINE rest == Tail(x)
           z == P \o rest
<1>3. /\ Head(t) = Head(x) /\ P \o Tail(t) = Path(z, k, y)
      /\ x = <<Head(x)>> \o rest /\ Head(x) \in Busy(b) /\ rest \in Seq(Busy(b))
  <2>1. /\ Head(t) = Head(x) /\ Tail(t) = Path(Tail(x), k, y)
        /\ x = <<Head(x)>> \o Tail(x) /\ Head(x) \in Busy(b) /\ Tail(x) \in Seq(Busy(b))
    BY BeforeKey
  <2> HIDE DEF rest
  <2>2. rest \in Seq(Busy(b)) /\ P \in Seq(Busy(b))
    BY <2>1 DEF rest
  <2>3. P \o Path(rest, k, y) = Path(P \o rest, k, y)
    BY <2>2, AddedBeforeKey
  <2> QED BY <2>1, <2>2, <2>3 DEF rest
<1>4. <<Head(x)>> \in Seq(Busy(b))
  BY <1>3
<1> HIDE DEF rest
<1>5. /\ z \in Seq(Busy(b)) /\ Weigh(z) = Weigh(P) + Weigh(rest)
      /\ (Doomed(z) <=> Doomed(P) \/ Doomed(rest))
      /\ (Checked(z) <=> Checked(P) \/ Checked(rest))
  BY <1>3, WeighOfTwo, MarksOfTwo, Joined
<1>6. /\ Weigh(x) = Weigh(<<Head(x)>>) + Weigh(rest)
      /\ (Doomed(x) <=> Doomed(<<Head(x)>>) \/ Doomed(rest))
      /\ (Checked(x) <=> Checked(<<Head(x)>>) \/ Checked(rest))
  <2> DEFINE first == <<Head(x)>>
             whole == first \o rest
  <2>1. first \in Seq(Busy(b)) /\ rest \in Seq(Busy(b)) /\ x = whole
    BY <1>3, <1>4
  <2> HIDE DEF first
  <2>2. /\ Weigh(whole) = Weigh(first) + Weigh(rest)
        /\ (Doomed(whole) <=> Doomed(first) \/ Doomed(rest))
        /\ (Checked(whole) <=> Checked(first) \/ Checked(rest))
    BY <2>1, WeighOfTwo, MarksOfTwo
  <2> HIDE DEF whole
  <2> QED BY <2>1, <2>2 DEF first
<1> HIDE DEF z
<1>7. Weigh(z) = Weigh(x)
  BY <1>3, <1>5, <1>6
<1>8. Doomed(x) => Doomed(z)
  BY <1>3, <1>5, <1>6, MarksOfOne
<1>9. Checked(x) => Checked(z) \/ g # None
  BY <1>3, <1>5, <1>6, MarksOfOne
<1>10. Ahead(b, x, k, c, rs) => Ahead(b, z, k, c, rs)
  BY <1>7 DEF Ahead
<1>11. Held(b, x, k, h) => Held(b, z, k, g)
  BY <1>9 DEF Held
<1>12. OnPlan(b, z, k, y, c, rs, g)
  BY <1>5, <1>8, <1>10, <1>11 DEF OnPlan
<1> QED BY <1>3, <1>5, <1>12 DEF Planned

LEMMA PlanGoesOn ==
    ASSUME NEW b \in BOOLEAN, NEW t, NEW c, NEW rs, NEW h, NEW g, Planned(b, t, c, rs, h),
           Head(t) \notin Keys(b), Head(t).do # "raise",
           NEW P \in Seq(Busy(b)), Weigh(P) = Weigh(<<Head(t)>>),
           Head(t).do = "revalidate" => g # None,
           g = h \/ (b /\ g # None)
    PROVE  Planned(b, P \o Tail(t), c, rs, g)
<1>1. PICK x \in Seq(Busy(b)), k \in Keys(b), y \in Seq(Light(b)) :
         t = Path(x, k, y) /\ OnPlan(b, x, k, y, c, rs, h)
  BY DEF Planned
<1>2. x # <<>>
  BY <1>1, AtKey
<1> QED BY <1>1, <1>2, PathGoesOn

(* The attached run is an execution: the collection, or one of the runs.   *)
LEMMA PlanRuns ==
    ASSUME NEW b \in BOOLEAN, NEW t, NEW c \in Seq(Execution), NEW rs \in Seq(Execution),
           NEW h, Planned(b, t, c, rs, h),
           Head(t) \in Heavy, Head(t).do = "attach", NEW P \in Seq(Light(b)),
           NEW e \in Execution, NEW d, NEW qs,
           IF c = <<>> THEN d = <<e>> /\ qs = rs ELSE qs = Append(rs, e) /\ d = c
    PROVE  Planned(b, P \o Tail(t), d, qs, h)
<1>1. PICK x \in Seq(Busy(b)), k \in Keys(b), y \in Seq(Light(b)) :
         t = Path(x, k, y) /\ OnPlan(b, x, k, y, c, rs, h)
  BY DEF Planned
<1>2. x # <<>>
  <2>1. k.do # "attach"
    BY KeyKinds
  <2> QED BY <1>1, <2>1, AtKey
<1> DEFINE rest == Tail(x)
           z == P \o rest
<1>3. P \in Seq(Busy(b)) /\ Weigh(P) = 0
  BY Classes, LightWeighsNothing
<1>4. /\ Head(t) = Head(x) /\ P \o Tail(t) = Path(z, k, y)
      /\ x = <<Head(x)>> \o rest /\ Head(x) \in Busy(b) /\ rest \in Seq(Busy(b))
  <2>1. /\ Head(t) = Head(x) /\ Tail(t) = Path(Tail(x), k, y)
        /\ x = <<Head(x)>> \o Tail(x) /\ Head(x) \in Busy(b) /\ Tail(x) \in Seq(Busy(b))
    BY <1>1, <1>2, BeforeKey
  <2> HIDE DEF rest
  <2>2. rest \in Seq(Busy(b)) /\ P \in Seq(Busy(b))
    BY <2>1, <1>3 DEF rest
  <2>3. P \o Path(rest, k, y) = Path(P \o rest, k, y)
    BY <2>2, AddedBeforeKey
  <2> QED BY <2>1, <2>2, <2>3 DEF rest
<1>5. <<Head(x)>> \in Seq(Busy(b)) /\ Weigh(<<Head(x)>>) = 1
  BY <1>4, HeavyWeighsOne
<1> HIDE DEF rest
<1>6. /\ z \in Seq(Busy(b)) /\ Weigh(z) = Weigh(P) + Weigh(rest)
      /\ (Doomed(z) <=> Doomed(P) \/ Doomed(rest))
      /\ (Checked(z) <=> Checked(P) \/ Checked(rest))
      /\ Weigh(rest) \in Nat
  BY <1>3, <1>4, WeighOfTwo, MarksOfTwo, Joined
<1>7. /\ Weigh(x) = Weigh(<<Head(x)>>) + Weigh(rest)
      /\ (Doomed(x) <=> Doomed(<<Head(x)>>) \/ Doomed(rest))
      /\ (Checked(x) <=> Checked(<<Head(x)>>) \/ Checked(rest))
  <2> DEFINE first == <<Head(x)>>
             whole == first \o rest
  <2>1. first \in Seq(Busy(b)) /\ rest \in Seq(Busy(b)) /\ x = whole
    BY <1>4, <1>5
  <2> HIDE DEF first
  <2>2. /\ Weigh(whole) = Weigh(first) + Weigh(rest)
        /\ (Doomed(whole) <=> Doomed(first) \/ Doomed(rest))
        /\ (Checked(whole) <=> Checked(first) \/ Checked(rest))
    BY <2>1, WeighOfTwo, MarksOfTwo
  <2> HIDE DEF whole
  <2> QED BY <2>1, <2>2 DEF first
<1> HIDE DEF z
<1>8. Weigh(x) = Weigh(z) + 1 /\ Weigh(z) \in Nat
  BY <1>3, <1>5, <1>6, <1>7
<1>9. (Doomed(x) => Doomed(z)) /\ (Checked(x) => Checked(z))
  BY <1>4, <1>6, <1>7, MarksOfOne
<1>10. Ahead(b, x, k, c, rs) => Ahead(b, z, k, d, qs)
  <2> SUFFICES ASSUME Ahead(b, x, k, c, rs) PROVE Ahead(b, z, k, d, qs)
    OBVIOUS
  <2>1. Len(c) \in Nat /\ Len(rs) \in Nat /\ (Len(c) = 0 <=> c = <<>>)
    BY EmptySeq, LenProperties
  <2>2. CASE k = Classifying
    <3>1. Len(c) = 1 /\ Len(rs) + Weigh(x) = Wanted(b)
      BY <2>2 DEF Ahead
    <3>2. c # <<>>
      BY <2>1, <3>1
    <3>3. d = c /\ qs = Append(rs, e) /\ Len(qs) = Len(rs) + 1
      BY <3>2, AppendProperties
    <3>4. Len(rs) + Weigh(x) = Len(qs) + Weigh(z)
      BY <1>8, <2>1, <3>3
    <3> QED BY <2>2, <3>1, <3>3, <3>4 DEF Ahead
  <2>3. CASE k # Classifying
    <3>1. rs = <<>> /\ Len(c) + Weigh(x) = (IF k = Judging(b) THEN 1 ELSE 0)
      BY <2>3 DEF Ahead
    <3>2. Len(c) = 0 /\ Weigh(z) = 0 /\ k = Judging(b)
      BY <1>8, <2>1, <3>1
    <3>3. d = <<e>> /\ qs = rs
      BY <2>1, <3>2
    <3>4. Len(d) = 1
      BY <3>3
    <3>5. qs = <<>> /\ Len(d) + Weigh(z) = 1
      BY <3>1, <3>2, <3>3, <3>4
    <3> QED BY <2>3, <3>2, <3>5 DEF Ahead
  <2> QED BY <2>2, <2>3
<1>11. Held(b, x, k, h) => Held(b, z, k, h)
  BY <1>9 DEF Held
<1>12. OnPlan(b, z, k, y, d, qs, h)
  BY <1>1, <1>6, <1>9, <1>10, <1>11 DEF OnPlan
<1> QED BY <1>4, <1>6, <1>12 DEF Planned

(* An exception leaves a plan that comes to nothing, or none.              *)
LEMMA PlanRaises ==
    ASSUME NEW b \in BOOLEAN, NEW t, NEW c, NEW rs, NEW h, NEW g, Planned(b, t, c, rs, h)
    PROVE  \/ Unwound(Tail(t)) \in Seq(Light(b))
           \/ Planned(b, Unwound(Tail(t)), c, rs, g)
<1>1. PICK x \in Seq(Busy(b)), k \in Keys(b), y \in Seq(Light(b)) : t = Path(x, k, y)
  BY DEF Planned
<1>2. CASE x = <<>>
  <2>1. Tail(t) = y
    BY <1>1, <1>2, AtKey
  <2> QED BY <2>1, UnwoundStaysLight
<1>3. CASE x # <<>>
  <2>0. /\ Path(x, k, y) # <<>> /\ Head(Path(x, k, y)) = Head(x)
        /\ Tail(Path(x, k, y)) = Path(Tail(x), k, y)
        /\ x = <<Head(x)>> \o Tail(x) /\ Head(x) \in Busy(b) /\ Tail(x) \in Seq(Busy(b))
    <3>1. x \in Seq(Busy(b)) /\ y \in Seq(Light(b))
      BY <1>1
    <3> QED BY <1>3, <3>1, BeforeKey
  <2> DEFINE rest == Tail(x)
             after == Unwound(Path(rest, k, y))
  <2>1. Tail(t) = Path(Tail(x), k, y) /\ Tail(x) \in Seq(Busy(b))
    BY <1>1, <2>0
  <2> HIDE DEF rest
  <2>2. rest \in Seq(Busy(b)) /\ Unwound(Tail(t)) = after
    BY <2>1 DEF rest
  <2>3. k.do \notin {"finally", "except", "catch"}
    BY KeyKinds
  <2>4. \/ after \in Seq(Light(b))
        \/ \E p \in Seq(Busy(b)) : Doomed(p) /\ after = Path(p, k, y)
    BY <2>2, <2>3, UnwoundOnPlan
  <2> HIDE DEF after
  <2>5. ASSUME NEW p \in Seq(Busy(b)), Doomed(p), after = Path(p, k, y)
        PROVE  Planned(b, after, c, rs, g)
    <3>1. OnPlan(b, p, k, y, c, rs, g)
      BY <2>5 DEF OnPlan
    <3> QED BY <2>5, <3>1 DEF Planned
  <2> QED BY <2>2, <2>4, <2>5
<1> QED BY <1>2, <1>3


LEMMA PlanIsSequence ==
    ASSUME NEW b \in BOOLEAN, NEW t, NEW c, NEW rs, NEW h, Planned(b, t, c, rs, h)
    PROVE  \E S : t \in Seq(S)
<1>1. PICK x \in Seq(Busy(b)), k \in Keys(b), y \in Seq(Light(b)) : t = Path(x, k, y)
  BY DEF Planned
<1>2. PICK S : S = Busy(b) \cup {k}
  OBVIOUS
<1>3. x \in Seq(S) /\ y \in Seq(S) /\ k \in S
  <2>1. Busy(b) \subseteq S /\ Light(b) \subseteq S /\ k \in S
    BY <1>2, Classes
  <2> QED BY <2>1, SeqMonotonic
<1> DEFINE r == <<k>> \o y
<1>4. r \in Seq(S)
  BY <1>3, FirstOfOne
<1> HIDE DEF r
<1>5. x \o r \in Seq(S)
  BY <1>3, <1>4, Joined
<1> QED BY <1>1, <1>5 DEF Path, r

----------------------------------------------------------------------------
(* The steps a plan turns on.                                              *)
LEMMA PathLengthens ==
    ASSUME NEW b \in BOOLEAN, NEW p \in Seq(Busy(b)), NEW k, NEW q \in Seq(Light(b)),
           NEW y \in Seq(Light(b))
    PROVE  Path(p, k, q) \o y = Path(p, k, q \o y)
<1>1. PICK S : S = Busy(b) \cup {k}
  OBVIOUS
<1>2. p \in Seq(S) /\ q \in Seq(S) /\ y \in Seq(S) /\ k \in S
  <2>1. Busy(b) \subseteq S /\ Light(b) \subseteq S /\ k \in S
    BY <1>1, Classes
  <2> QED BY <2>1, SeqMonotonic
<1> DEFINE r == <<k>> \o q
           one == <<k>>
<1>3. r \in Seq(S) /\ one \in Seq(S)
  BY <1>2, FirstOfOne
<1>4. r \o y = one \o (q \o y)
  <2>1. one \in Seq(S) /\ q \in Seq(S) /\ y \in Seq(S)
    BY <1>2, <1>3
  <2>2. r = one \o q
    OBVIOUS
  <2> HIDE DEF one, r
  <2>3. (one \o q) \o y = one \o (q \o y)
    BY <2>1, SetApart
  <2> QED BY <2>2, <2>3
<1> HIDE DEF r
<1>5. (p \o r) \o y = p \o (r \o y)
  BY <1>2, <1>3, SetApart
<1>6. Path(p, k, q) \o y = (p \o r) \o y
  BY DEF Path, r
<1> QED BY <1>4, <1>5, <1>6 DEF Path

LEMMA NothingBefore ==
    ASSUME NEW b \in BOOLEAN, NEW k \in Keys(b), NEW y, NEW c, NEW rs, NEW h,
           OnPlan(b, <<>>, k, y, c, rs, h)
    PROVE  /\ y \in Seq(Light(b))
           /\ k = Classifying => Len(c) = 1 /\ Len(rs) = Wanted(b)
           /\ k # Classifying => rs = <<>> /\ Len(c) = IF k = Judging(b) THEN 1 ELSE 0
           /\ ~b => h = None
           /\ b => h # None \/ k \in {Trial(b), Whole(b)}
<1>1. Weigh(<<>>) = 0
  BY FS_EmptySet DEF Weigh
<1>2. ~Doomed(<<>>) /\ ~Checked(<<>>)
  BY MarksOfOne
<1>3. y \in Seq(Light(b)) /\ Ahead(b, <<>>, k, c, rs) /\ Held(b, <<>>, k, h)
  BY <1>2 DEF OnPlan
<1>4. k = Classifying => Len(c) = 1 /\ Len(rs) + 0 = Wanted(b)
  BY <1>1, <1>3 DEF Ahead
<1>5. k # Classifying => rs = <<>> /\ Len(c) + 0 = IF k = Judging(b) THEN 1 ELSE 0
  BY <1>1, <1>3 DEF Ahead
<1>6. (~b => h = None) /\ (b => h # None \/ k \in {Trial(b), Whole(b)})
  BY <1>2, <1>3 DEF Held
<1> QED BY <1>3, <1>4, <1>5, <1>6

LEMMA FinSCIsLight ==
    ASSUME NEW b \in BOOLEAN
    PROVE  FinSC \in LightOver(Steps(b), Owned(b)) /\ FinSC \in Light(b)
<1>1. SandboxCleanup \in Seq(Tidying(Owned(b)))
  BY StepsAndNames, CleanupIsTidying
<1>2. FinSC \in LightOver(Steps(b), Owned(b))
  BY <1>1 DEF FinSC, LightOver
<1> QED BY <1>2, Classes

LEMMA KeyEntered ==
    ASSUME NEW b \in BOOLEAN, NEW k \in Keys(b), k.do = "try", NEW y \in Seq(Light(b)),
           NEW c \in Seq(Execution), NEW rs, NEW h, OnPlan(b, <<>>, k, y, c, rs, h)
    PROVE  Planned(b, Entered(k) \o y, c, rs, h)
<1>1. k \in {Trial(b), Whole(b)} /\ k # Classifying /\ k # Judging(b)
  BY KeyKinds
<1>2. rs = <<>> /\ Len(c) = 0 /\ (~b => h = None)
  BY <1>1, NothingBefore
<1>3. Judging(b) \in Keys(b) /\ Trial(b) \in Keys(b)
      /\ Judging(b) # Classifying /\ Trial(b) # Classifying /\ Trial(b) # Judging(b)
  <2>1. Judging(b) \in Keys(b) /\ Trial(b) \in Keys(b) /\ Classifying \in Keys(b)
    BY DEF Keys
  <2> QED BY <2>1, KeyKinds DEF Classifying, Judging
<1>4. ASSUME k = Trial(b)
      PROVE  Planned(b, Entered(k) \o y, c, rs, h)
  <2> DEFINE q == <<FinSC>>
  <2>1. PICK p : /\ Entered(k) = p \o (<<Judging(b)>> \o <<FinSC>>)
                 /\ p \in Seq(Running(b)) /\ Weigh(p) = 1 /\ (b => Checked(p))
    BY <1>4, TrialEntered
  <2>q. q \in Seq(Light(b))
    <3>1. FinSC \in Light(b)
      BY FinSCIsLight
    <3> QED BY <3>1, OneOf, Zenon
  <2>2. p \in Seq(Busy(b)) /\ Weigh(p) = 1 /\ Entered(k) = Path(p, Judging(b), q)
    BY <2>1, LateIsLight DEF Path
  <2> HIDE DEF q
  <2>3. Entered(k) \o y = Path(p, Judging(b), q \o y) /\ q \o y \in Seq(Light(b))
    <3>1. q \o y \in Seq(Light(b))
      BY <2>q, Joined
    <3>2. p \in Seq(Busy(b)) /\ q \in Seq(Light(b)) /\ y \in Seq(Light(b))
      BY <2>q, <2>2
    <3> DEFINE key == Judging(b)
    <3> HIDE DEF key
    <3>3. Path(p, key, q) \o y = Path(p, key, q \o y)
      BY <3>2, PathLengthens
    <3> QED BY <2>2, <3>1, <3>3 DEF key
  <2>4. Ahead(b, p, Judging(b), c, rs)
    BY <1>2, <1>3, <2>2 DEF Ahead
  <2>5. Held(b, p, Judging(b), h)
    BY <1>2, <2>1 DEF Held
  <2>6. OnPlan(b, p, Judging(b), q \o y, c, rs, h)
    BY <1>3, <2>2, <2>3, <2>4, <2>5 DEF OnPlan
  <2> QED BY <1>3, <2>2, <2>3, <2>6 DEF Planned
<1>5. ASSUME k = Whole(b)
      PROVE  Planned(b, Entered(k) \o y, c, rs, h)
  <2>1. PICK p \in Seq(Light(b)), q \in Seq(Light(b)) :
          Entered(k) = p \o (<<Trial(b)>> \o q)
    BY <1>5, WholeEntered
  <2>2. p \in Seq(Busy(b)) /\ Weigh(p) = 0 /\ Entered(k) = Path(p, Trial(b), q)
    BY <2>1, LightWeighsNothing, Classes DEF Path
  <2>3. Entered(k) \o y = Path(p, Trial(b), q \o y) /\ q \o y \in Seq(Light(b))
    <3>1. q \o y \in Seq(Light(b))
      BY <2>1, Joined
    <3>2. p \in Seq(Busy(b)) /\ q \in Seq(Light(b)) /\ y \in Seq(Light(b))
      BY <2>1, <2>2
    <3> DEFINE key == Trial(b)
    <3> HIDE DEF key
    <3>3. Path(p, key, q) \o y = Path(p, key, q \o y)
      BY <3>2, PathLengthens
    <3> QED BY <2>2, <3>1, <3>3 DEF key
  <2>4. Ahead(b, p, Trial(b), c, rs)
    BY <1>2, <1>3, <2>2 DEF Ahead
  <2>5. Held(b, p, Trial(b), h)
    BY <1>2 DEF Held
  <2>6. OnPlan(b, p, Trial(b), q \o y, c, rs, h)
    BY <1>3, <2>2, <2>3, <2>4, <2>5 DEF OnPlan
  <2> QED BY <1>3, <2>2, <2>3, <2>6 DEF Planned
<1> QED BY <1>1, <1>4, <1>5

LEMMA PlanEnters ==
    ASSUME NEW b \in BOOLEAN, NEW t, NEW c \in Seq(Execution), NEW rs, NEW h,
           Planned(b, t, c, rs, h), Head(t).do = "try"
    PROVE  Planned(b, Entered(Head(t)) \o Tail(t), c, rs, h)
<1>1. PICK x \in Seq(Busy(b)), k \in Keys(b), y \in Seq(Light(b)) :
         t = Path(x, k, y) /\ OnPlan(b, x, k, y, c, rs, h)
  BY DEF Planned
<1>2. CASE x = <<>>
  <2>1. Head(t) = k /\ Tail(t) = y
    BY <1>1, <1>2, AtKey
  <2>2. OnPlan(b, <<>>, k, y, c, rs, h)
    BY <1>1, <1>2
  <2> QED BY <2>1, <2>2, KeyEntered
<1>3. CASE x # <<>>
  <2>1. Head(t) = Head(x) /\ Head(x) \in Busy(b)
    <3>1. /\ Path(x, k, y) # <<>> /\ Head(Path(x, k, y)) = Head(x)
          /\ Tail(Path(x, k, y)) = Path(Tail(x), k, y)
          /\ x = <<Head(x)>> \o Tail(x) /\ Head(x) \in Busy(b) /\ Tail(x) \in Seq(Busy(b))
      BY <1>3, BeforeKey
    <3> QED BY <1>1, <3>1
  <2> DEFINE first == Head(t)
             inner == Entered(first)
  <2>2. /\ inner \in Seq(Busy(b))
        /\ Weigh(inner) = Weigh(<<first>>)
    <3>1. CASE first \in Light(b)
      <4>1. inner \in Seq(Light(b)) /\ <<first>> \in Seq(Light(b))
        BY <3>1, LightEntered
      <4> HIDE DEF first, inner
      <4> QED BY <4>1, LightWeighsNothing, Classes
    <3>2. CASE first \in Heavy
      BY <3>2, RunEntered, HeavyWeighsOne
    <3> QED BY <2>1, <3>1, <3>2 DEF Busy
  <2>3. Head(t).do # "raise" /\ Head(t).do # "revalidate"
    OBVIOUS
  <2> HIDE DEF inner
  <2>4. Planned(b, inner \o Tail(t), c, rs, h)
    BY <1>1, <1>3, <2>2, <2>3, PathGoesOn DEF first
  <2> QED BY <2>4 DEF inner, first
<1> QED BY <1>2, <1>3

----------------------------------------------------------------------------
(* The steps of Reproduction.  Either nothing that is left to do runs or   *)
(* judges, and the verdict is earned, or no verdict is given yet and the   *)
(* program is on its plan.                                                 *)
Bound(b) ==
    \/ todo \in Seq(Light(b)) /\ AcceptanceIsEarned
    \/ verdict = None /\ Planned(b, todo, collection, runs, handle)
EarnedInv ==
    /\ collection \in Seq(Execution) /\ runs \in Seq(Execution)
    /\ \E b \in BOOLEAN : Bound(b)

LEMMA NoVerdictIsEarned ==
    ASSUME verdict' \notin {"repeatable_base_failure", "differential_reproduction"}
    PROVE  AcceptanceIsEarned'
  BY DEF AcceptanceIsEarned

LEMMA OldVerdictStaysEarned ==
    ASSUME AcceptanceIsEarned, UNCHANGED <<runs, verdict>>
    PROVE  AcceptanceIsEarned'
  BY DEF AcceptanceIsEarned

LEMMA NowIsLight ==
    ASSUME NEW b \in BOOLEAN, Bound(b), todo # <<>>,
           Now.do \notin {"attach", "judge", "judge-differential", "classify", "try"}
    PROVE  Now \in Light(b) /\ Now \notin Keys(b) /\ Now \notin Heavy
<1>1. Now \notin Keys(b) /\ Now \notin Heavy
  BY KeyKinds, HeavyKinds DEF Attach
<1>2. CASE todo \in Seq(Light(b))
  <2>1. Now \in Light(b)
    BY <1>2 DEF Now
  <2> QED BY <1>1, <2>1
<1>3. CASE Planned(b, todo, collection, runs, handle)
  <2>1. Now \in Keys(b) \/ Now \in Busy(b)
    BY <1>3, PlanHead DEF Now
  <2> QED BY <1>1, <2>1 DEF Busy
<1> QED BY <1>2, <1>3 DEF Bound

LEMMA GoesOn ==
    ASSUME NEW b \in BOOLEAN, Bound(b), todo # <<>>,
           Now.do \notin {"attach", "judge", "judge-differential", "classify", "try",
                          "raise"},
           NEW P \in Seq(Light(b)), todo' = P \o Rest,
           UNCHANGED <<collection, runs, verdict>>,
           \/ handle' = handle
           \/ Now.do \in {"ready", "revoke", "cleaned"} /\ handle' # None,
           Now.do = "revalidate" => handle # None
    PROVE  Bound(b)'
<1>1. Now \in Light(b) /\ Now \notin Keys(b) /\ Now \notin Heavy
  BY NowIsLight
<1>2. CASE todo \in Seq(Light(b)) /\ AcceptanceIsEarned
  <2>1. Rest \in Seq(Light(b))
    BY <1>2 DEF Rest
  <2>2. P \o Rest \in Seq(Light(b))
    BY <2>1, Joined
  <2> QED BY <1>2, <2>2, OldVerdictStaysEarned DEF Bound
<1>3. CASE verdict = None /\ Planned(b, todo, collection, runs, handle)
  <2>1. P \in Seq(Busy(b)) /\ Weigh(P) = Weigh(<<Now>>)
    <3>1. <<Now>> \in Seq(Light(b))
      BY <1>1
    <3> QED BY <3>1, LightWeighsNothing, Classes
  <2>2. handle' = handle \/ (b /\ handle' # None)
    BY <1>1, LightKinds
  <2>3. Now.do = "revalidate" => handle' # None
    OBVIOUS
  <2>4. Planned(b, P \o Tail(todo), collection, runs, handle')
    BY <1>1, <1>3, <2>1, <2>2, <2>3, PlanGoesOn DEF Now
  <2> QED BY <1>3, <2>4 DEF Bound, Rest
<1> QED BY <1>2, <1>3 DEF Bound

LEMMA GoesOnBare ==
    ASSUME NEW b \in BOOLEAN, Bound(b), todo # <<>>,
           Now.do \notin {"attach", "judge", "judge-differential", "classify", "try",
                          "raise"},
           todo' = Rest, UNCHANGED <<collection, runs, verdict>>,
           \/ handle' = handle
           \/ Now.do \in {"ready", "revoke", "cleaned"} /\ handle' # None,
           Now.do = "revalidate" => handle # None
    PROVE  Bound(b)'
<1>1. PICK S : todo \in Seq(S)
  <2>1. CASE todo \in Seq(Light(b))
    BY <2>1
  <2>2. CASE Planned(b, todo, collection, runs, handle)
    BY <2>2, PlanIsSequence
  <2> QED BY <2>1, <2>2 DEF Bound
<1>2. Rest \in Seq(S)
  BY <1>1 DEF Rest
<1> DEFINE rest == Rest
<1> HIDE DEF rest
<1>3. <<>> \o rest = rest
  BY <1>2, ConcatEmptySeq DEF rest
<1>4. todo' = <<>> \o Rest
  BY <1>3 DEF rest
<1>5. <<>> \in Seq(Light(b))
  OBVIOUS
<1> DEFINE P == <<>>
<1> HIDE DEF P
<1>6. P \in Seq(Light(b)) /\ todo' = P \o Rest
  BY <1>4, <1>5 DEF P
<1> QED BY <1>6, GoesOn

LEMMA Raises ==
    ASSUME NEW b \in BOOLEAN, Bound(b), todo # <<>>, todo' = Unwound(Rest),
           UNCHANGED <<collection, runs, verdict>>
    PROVE  Bound(b)'
<1>1. CASE todo \in Seq(Light(b)) /\ AcceptanceIsEarned
  <2>1. Rest \in Seq(Light(b))
    BY <1>1 DEF Rest
  <2>2. Unwound(Rest) \in Seq(Light(b))
    BY <2>1, UnwoundStaysLight
  <2> QED BY <1>1, <2>2, OldVerdictStaysEarned DEF Bound
<1>2. CASE verdict = None /\ Planned(b, todo, collection, runs, handle)
  <2>1. \/ Unwound(Tail(todo)) \in Seq(Light(b))
        \/ Planned(b, Unwound(Tail(todo)), collection, runs, handle')
    BY <1>2, PlanRaises
  <2>2. AcceptanceIsEarned'
    BY <1>2, NoVerdictIsEarned DEF None
  <2> QED BY <1>2, <2>1, <2>2 DEF Bound, Rest
<1> QED BY <1>1, <1>2 DEF Bound

LEMMA Stays ==
    ASSUME NEW b \in BOOLEAN, Bound(b), UNCHANGED <<todo, outcomeVars>>
    PROVE  Bound(b)'
  BY OldVerdictStaysEarned DEF Bound, outcomeVars

(* The steps of DockerOwnership.                                           *)
LEMMA EnterTryBound ==
    ASSUME NEW b \in BOOLEAN, Bound(b), collection \in Seq(Execution), EnterTry,
           UNCHANGED outcomeVars
    PROVE  Bound(b)'
<1>1. Now.do = "try" /\ todo # <<>> /\ todo' = Entered(Now) \o Rest
  BY DEF EnterTry, Doing, Entered
<1>2. CASE todo \in Seq(Light(b)) /\ AcceptanceIsEarned
  <2>1. Rest \in Seq(Light(b)) /\ Now \in Light(b)
    BY <1>1, <1>2 DEF Rest, Now
  <2>2. Entered(Now) \in Seq(Light(b))
    BY <1>1, <2>1, LightEntered
  <2>3. Entered(Now) \o Rest \in Seq(Light(b))
    BY <2>1, <2>2, Joined
  <2> QED BY <1>1, <1>2, <2>3, OldVerdictStaysEarned DEF Bound, outcomeVars
<1>3. CASE verdict = None /\ Planned(b, todo, collection, runs, handle)
  <2>1. Planned(b, Entered(Head(todo)) \o Tail(todo), collection, runs, handle)
    BY <1>1, <1>3, PlanEnters DEF Now
  <2> QED BY <1>1, <1>3, <2>1 DEF Bound, outcomeVars, Now, Rest
<1> QED BY <1>2, <1>3 DEF Bound

LEMMA LeaveTryBound ==
    ASSUME NEW b \in BOOLEAN, Bound(b), LeaveTry, UNCHANGED outcomeVars
    PROVE  Bound(b)'
<1>1. Now.do \in {"finally", "except", "catch"} /\ todo # <<>>
  BY DEF LeaveTry
<1>2. Now \in Light(b)
  BY <1>1, NowIsLight
<1>3. CASE Now.do = "finally"
  <2>1. Now.then \in Seq(Light(b)) /\ todo' = Now.then \o Rest
    BY <1>2, <1>3, LightKinds, Classes DEF LeaveTry
  <2> QED BY <1>1, <2>1, GoesOn DEF outcomeVars
<1>4. CASE Now.do # "finally"
  <2> DEFINE P == <<>>
  <2>1. P \in Seq(Light(b)) /\ todo' = P \o Rest
    BY <1>4 DEF LeaveTry
  <2> HIDE DEF P
  <2> QED BY <1>1, <2>1, GoesOn DEF outcomeVars
<1> QED BY <1>3, <1>4

LEMMA SweepIsTidying ==
    ASSUME NEW D, NEW left \in SUBSET D, NEW ok \in BOOLEAN
    PROVE  Sweeping(left, ok) \in Tidying(D)
<1> DEFINE sweeps == [do : {"sweep"}, left : SUBSET D, ok : BOOLEAN]
<1>1. Sweeping(left, ok) \in sweeps
  BY DEF Sweeping
<1>2. sweeps \subseteq Tidying(D)
  BY Zenon DEF Tidying
<1> QED BY <1>1, <1>2

LEMMA SweepIsLight ==
    ASSUME NEW b \in BOOLEAN, NEW left \in SUBSET Owned(b), NEW ok \in BOOLEAN
    PROVE  <<Sweeping(left, ok)>> \in Seq(Light(b))
<1>1. Sweeping(left, ok) \in Tidying(Owned(b))
  BY SweepIsTidying
<1>2. Sweeping(left, ok) \in Light(b)
  BY <1>1, ClassesOver, Classes
<1> QED BY <1>2

LEMMA SweepBound ==
    ASSUME NEW b \in BOOLEAN, Bound(b), UNCHANGED outcomeVars,
           NEW o, SweepSucceeds(o) \/ SweepFails(o)
    PROVE  Bound(b)'
<1>1. Now.do = "sweep" /\ todo # <<>>
  BY DEF SweepSucceeds, SweepFails, Doing
<1>2. Now \in Light(b)
  BY <1>1, NowIsLight
<1>3. Now.left \subseteq Owned(b) /\ Now.ok \in BOOLEAN
  BY <1>1, <1>2, LightKinds
<1>4. \E ok \in BOOLEAN : todo' = <<Sweeping(Now.left \ {o}, ok)>> \o Rest
  BY <1>3 DEF SweepSucceeds, SweepFails
<1>5. PICK ok \in BOOLEAN : todo' = <<Sweeping(Now.left \ {o}, ok)>> \o Rest
  BY <1>4
<1> DEFINE P == <<Sweeping(Now.left \ {o}, ok)>>
<1>6. P \in Seq(Light(b))
  BY <1>3, SweepIsLight
<1> HIDE DEF P
<1>7. todo' = P \o Rest
  BY <1>5 DEF P
<1> QED BY <1>1, <1>6, <1>7, GoesOn DEF outcomeVars

LEMMA StartSweepBound ==
    ASSUME NEW b \in BOOLEAN, Bound(b), UNCHANGED outcomeVars, StartSweep
    PROVE  Bound(b)'
<1>1. Now.do = "cleanup" /\ todo # <<>>
  BY DEF StartSweep, Doing
<1>2. Now \in Light(b)
  BY <1>1, NowIsLight
<1>3. Now.objs \subseteq Owned(b)
  BY <1>1, <1>2, LightKinds
<1> DEFINE P == <<Sweeping(Now.objs \cap registered, TRUE)>>
<1>4. P \in Seq(Light(b))
  <2>1. Now.objs \cap registered \in SUBSET Owned(b) /\ TRUE \in BOOLEAN
    BY <1>3
  <2> QED BY <2>1, SweepIsLight
<1>5. todo' = P \o Rest
  BY DEF StartSweep
<1> HIDE DEF P
<1> QED BY <1>1, <1>4, <1>5, GoesOn DEF outcomeVars

LEMMA OwnershipBound ==
    ASSUME NEW b \in BOOLEAN, Bound(b), collection \in Seq(Execution), Ownership
    PROVE  Bound(b)'
<1>0. DockerNext /\ UNCHANGED outcomeVars
  BY DEF Ownership
<1> USE <1>0
<1>1. CASE EnterTry
  BY <1>1, EnterTryBound
<1>2. CASE LeaveTry
  BY <1>2, LeaveTryBound
<1>3. CASE Reraise
  BY <1>3, Raises DEF Reraise, Doing, outcomeVars
<1>4. CASE CreateSucceeds \/ CommandSucceeds \/ SkipRelease \/ RemovalSucceeds
  <2>1. /\ todo # <<>> /\ todo' = Rest
        /\ Now.do \in {"create", "command", "release", "remove"}
    BY <1>4 DEF CreateSucceeds, CommandSucceeds, SkipRelease, RemovalSucceeds, Skips,
                Removes, Doing
  <2> QED BY <2>1, GoesOnBare DEF outcomeVars
<1>5. CASE (\E effect \in {"done", "later", "never"} : CreateFails(effect))
             \/ CommandFails \/ RemovalFails
  <2>1. todo # <<>> /\ todo' = Unwound(Rest)
    BY <1>5 DEF CreateFails, CommandFails, RemovalFails, Removes, Doing
  <2> QED BY <2>1, Raises DEF outcomeVars
<1>6. CASE \E o \in Objects : Arrive(o)
  <2>1. UNCHANGED todo
    BY <1>6 DEF Arrive
  <2> QED BY <2>1, Stays
<1>7. CASE StartSweep
  BY <1>7, StartSweepBound
<1>8. CASE \E o \in Objects : SweepSucceeds(o) \/ SweepFails(o)
  BY <1>8, SweepBound
<1>9. CASE EndSweep
  <2>1. /\ todo # <<>> /\ Now.do = "sweep"
        /\ todo' = Rest \/ todo' = Unwound(Rest)
    BY <1>9 DEF EndSweep, Doing
  <2> QED BY <2>1, GoesOnBare, Raises DEF outcomeVars
<1> QED BY <1>1, <1>2, <1>3, <1>4, <1>5, <1>6, <1>7, <1>8, <1>9 DEF DockerNext

(* The steps of the verifier, the workflow and the executor.               *)
LEMMA HandleStepsBound ==
    ASSUME NEW b \in BOOLEAN, Bound(b),
           IssueHandle \/ RevokeHandle \/ ExecutorCleaned \/ RevalidateHandle
    PROVE  Bound(b)'
<1>1. CASE IssueHandle \/ RevokeHandle \/ ExecutorCleaned
  <2>1. /\ todo # <<>> /\ todo' = Rest /\ UNCHANGED <<collection, runs, verdict>>
        /\ Now.do \in {"ready", "revoke", "cleaned"} /\ handle' # None
    BY <1>1 DEF IssueHandle, RevokeHandle, ExecutorCleaned, Doing, None
  <2> QED BY <2>1, GoesOnBare
<1>2. CASE RevalidateHandle
  <2>1. /\ todo # <<>> /\ Now.do = "revalidate" /\ UNCHANGED outcomeVars
        /\ (todo' = Rest /\ handle # None) \/ todo' = Unwound(Rest)
    BY <1>2 DEF RevalidateHandle, Doing, None
  <2> QED BY <2>1, GoesOnBare, Raises DEF outcomeVars
<1> QED BY <1>1, <1>2

LEMMA HostStepsBound ==
    ASSUME NEW b \in BOOLEAN, Bound(b), HostStep \/ DiscardFile \/ FactsExit
    PROVE  Bound(b)'
<1>1. /\ todo # <<>> /\ Now.do \in {"host", "discard", "exits"}
      /\ todo' = Rest \/ todo' = Unwound(Rest)
      /\ UNCHANGED <<collection, runs, verdict, handle>>
  BY DEF HostStep, DiscardFile, FactsExit, Doing, outcomeVars
<1> QED BY <1>1, GoesOnBare, Raises

(* The step that runs the candidate, and what is read of it.               *)
LEMMA AttachedBound ==
    ASSUME NEW b \in BOOLEAN, Bound(b), collection \in Seq(Execution),
           runs \in Seq(Execution), AttachAndRead
    PROVE  Bound(b)' /\ collection' \in Seq(Execution) /\ runs' \in Seq(Execution)
<1>1. todo # <<>> /\ Now.do = "attach" /\ UNCHANGED <<verdict, handle>>
  BY DEF AttachAndRead, Doing
<1>2. PICK r \in Possible :
        /\ todo' = (IF r.killed # "no" THEN <<Remove(Now.obj)>>
                                        ELSE <<Command({Now.obj})>>) \o Rest
        /\ IF collection = <<>> THEN collection' = <<r>> /\ UNCHANGED runs
           ELSE runs' = Append(runs, r) /\ UNCHANGED collection
  BY DEF AttachAndRead
<1>3. todo \notin Seq(Light(b))
  <2> SUFFICES ASSUME todo \in Seq(Light(b)) PROVE FALSE
    OBVIOUS
  <2>1. Now \in Light(b)
    BY <1>1 DEF Now
  <2> QED BY <1>1, <2>1, LightKinds
<1>4. verdict = None /\ Planned(b, todo, collection, runs, handle)
  BY <1>3 DEF Bound
<1>5. Now \in Heavy
  <2>1. Now \in Keys(b) \/ Now \in Busy(b)
    BY <1>4, PlanHead DEF Now
  <2>2. Now \notin Keys(b) /\ Now \notin Light(b)
    BY <1>1, KeyKinds, LightKinds
  <2> QED BY <2>1, <2>2 DEF Busy
<1>6. Now.obj \in RunNames
  BY <1>1, <1>5, HeavyKinds DEF Attach
<1>7. r \in Execution
  <2>1. Possible \subseteq Results[Now.obj]
    BY <1>6, ResultsAssumption DEF Possible, RunNames
  <2>2. Results[Now.obj] \subseteq Execution
    BY <1>6, ResultsAssumption DEF RunNames
  <2> QED BY <1>2, <2>1, <2>2
<1> DEFINE P == IF r.killed # "no" THEN <<Remove(Now.obj)>> ELSE <<Command({Now.obj})>>
<1>8. P \in Seq(Light(b))
  <2>1. Now.obj \in Owned(b) /\ {Now.obj} \in SUBSET Names /\ Owned(b) \in SUBSET Names
    BY <1>6, AllNamed, StepsAndNames DEF RunNames, SandboxObjects
  <2>2. /\ Remove(Now.obj) \in SimpleOver(Steps(b), Owned(b))
        /\ Command({Now.obj}) \in SimpleOver(Steps(b), Owned(b))
    BY <2>1, StepsAreSimple
  <2>3. Remove(Now.obj) \in Light(b) /\ Command({Now.obj}) \in Light(b)
    BY <2>2, ClassesOver, Classes
  <2> QED BY <2>3
<1>9. todo' = P \o Rest
  BY <1>2
<1> HIDE DEF P
<1>10. Planned(b, P \o Tail(todo), collection', runs', handle)
  <2>1. Head(todo) \in Heavy /\ Head(todo).do = "attach"
    BY <1>1, <1>5 DEF Now
  <2>2. IF collection = <<>> THEN collection' = <<r>> /\ runs' = runs
                             ELSE runs' = Append(runs, r) /\ collection' = collection
    BY <1>2
  <2> QED BY <1>4, <1>7, <1>8, <2>1, <2>2, PlanRuns
<1>11. Bound(b)'
  BY <1>1, <1>4, <1>9, <1>10 DEF Bound, Rest
<1>12. <<r>> \in Seq(Execution) /\ Append(runs, r) \in Seq(Execution)
  BY <1>7, AppendProperties
<1>13. collection' \in Seq(Execution) /\ runs' \in Seq(Execution)
  <2>1. CASE collection = <<>>
    BY <1>2, <1>12, <2>1
  <2>2. CASE collection # <<>>
    BY <1>2, <1>12, <2>2
  <2> QED BY <2>1, <2>2
<1> QED BY <1>11, <1>13

(* At a judgment nothing is left before it.                                *)
LEMMA NowIsKey ==
    ASSUME NEW b \in BOOLEAN, Bound(b), todo # <<>>,
           Now.do \in {"judge", "judge-differential", "classify"}
    PROVE  /\ Now \in Keys(b) /\ Rest \in Seq(Light(b)) /\ verdict = None
           /\ OnPlan(b, <<>>, Now, Rest, collection, runs, handle)
<1>1. todo \notin Seq(Light(b))
  <2> SUFFICES ASSUME todo \in Seq(Light(b)) PROVE FALSE
    OBVIOUS
  <2>1. Now \in Light(b)
    BY DEF Now
  <2> QED BY <2>1, LightKinds
<1>2. verdict = None /\ Planned(b, todo, collection, runs, handle)
  BY <1>1 DEF Bound
<1>3. PICK x \in Seq(Busy(b)), k \in Keys(b), y \in Seq(Light(b)) :
         todo = Path(x, k, y) /\ OnPlan(b, x, k, y, collection, runs, handle)
  BY <1>2 DEF Planned
<1>4. x = <<>>
  <2> SUFFICES ASSUME x # <<>> PROVE FALSE
    OBVIOUS
  <2>1. /\ Path(x, k, y) # <<>> /\ Head(Path(x, k, y)) = Head(x)
        /\ Tail(Path(x, k, y)) = Path(Tail(x), k, y)
        /\ x = <<Head(x)>> \o Tail(x) /\ Head(x) \in Busy(b) /\ Tail(x) \in Seq(Busy(b))
    BY BeforeKey
  <2>2. Now \in Busy(b)
    BY <1>3, <2>1 DEF Now
  <2>3. Now \notin Light(b)
    BY LightKinds
  <2>4. Now \notin Heavy
    BY HeavyKinds DEF Attach
  <2> QED BY <2>2, <2>3, <2>4 DEF Busy
<1>5. Now = k /\ Rest = y
  BY <1>3, <1>4, AtKey DEF Now, Rest
<1> QED BY <1>2, <1>3, <1>4, <1>5

LEMMA JudgedBound ==
    ASSUME NEW b \in BOOLEAN, Bound(b), JudgeCollection
    PROVE  Bound(b)'
<1>1. /\ todo # <<>> /\ Now.do \in {"judge", "judge-differential"}
      /\ UNCHANGED <<collection, runs, handle>>
  BY DEF JudgeCollection, Doing
<1>2. /\ Now \in Keys(b) /\ Rest \in Seq(Light(b)) /\ verdict = None
      /\ OnPlan(b, <<>>, Now, Rest, collection, runs, handle)
  BY <1>1, NowIsKey
<1>3. Now = Judging(b) /\ Now # Classifying
  BY <1>1, <1>2, KeyKinds DEF Classifying
<1>4. /\ Len(collection) = 1 /\ runs = <<>>
      /\ (~b => handle = None) /\ (b => handle # None)
  <2>1. Judging(b) \notin {Trial(b), Whole(b)}
    BY <1>1, <1>2, <1>3, KeyKinds
  <2>2. /\ Now # Classifying => runs = <<>> /\ Len(collection) = IF Now = Judging(b) THEN 1 ELSE 0
        /\ ~b => handle = None
        /\ b => handle # None \/ Now \in {Trial(b), Whole(b)}
    BY <1>2, NothingBefore
  <2> QED BY <1>3, <2>1, <2>2
<1> DEFINE rejection == ClassifyCollection(Head(collection))
           staged == StageAttestedSource("workspace2", "stage2", "owner2", "attest2")
                       \o Interleaved
           repeated == Times(Repeats, RunPytest("run"))
           go == IF b THEN staged ELSE repeated
<1>5. go \in Seq(Busy(b)) /\ Weigh(go) = Wanted(b)
  BY RunsToCome, LateIsLight
<1>6. Now.do = "judge" <=> ~b
  BY <1>3 DEF Judging
<1>7. IF rejection = Accepted
      THEN todo' = (go \o Classify) \o Rest /\ UNCHANGED verdict
      ELSE todo' = Rest /\ verdict' = rejection
  <2>1. CASE b
    BY <1>6, <2>1 DEF JudgeCollection
  <2>2. CASE ~b
    BY <1>6, <2>2 DEF JudgeCollection
  <2> QED BY <2>1, <2>2
<1>8. rejection \notin {"repeatable_base_failure", "differential_reproduction"}
  BY DEF ClassifyCollection, Accepted
<1> HIDE DEF go, rejection, staged, repeated
<1>9. CASE rejection = Accepted
  <2>1. go \in Seq(Busy(b)) /\ Weigh(go) = Wanted(b)
    BY <1>5
  <2>2. Classifying \in Keys(b)
    BY DEF Keys
  <2>3. (go \o Classify) \o Rest = Path(go, Classifying, Rest)
    <3>1. Classify = <<Classifying>>
      BY DEF Classify, Classifying
    <3> DEFINE k == Classifying
               y == Rest
               one == <<k>>
               S == Busy(b) \cup {k}
    <3>2. go \in Seq(S) /\ one \in Seq(S) /\ y \in Seq(S)
      <4>1. Busy(b) \subseteq S /\ Light(b) \subseteq S /\ k \in S
        BY Classes
      <4>2. go \in Seq(S) /\ y \in Seq(S)
        BY <1>2, <2>1, <4>1, SeqMonotonic
      <4> HIDE DEF k, S
      <4> QED BY <4>1, <4>2
    <3> HIDE DEF S, y, one
    <3>3. (go \o one) \o y = go \o (one \o y)
      BY <3>2, SetApart
    <3> QED BY <3>1, <3>3 DEF Path, y, one
  <2>4. Weigh(go) = Wanted(b) /\ Len(runs) + Weigh(go) = Wanted(b)
    <3>1. Len(runs) = 0
      BY <1>4
    <3>2. Wanted(b) \in Nat
      BY ResultsAssumption DEF Wanted
    <3> QED BY <2>1, <3>1, <3>2
  <2>5. Ahead(b, go, Classifying, collection, runs)
    BY <1>4, <2>4 DEF Ahead
  <2>6. Held(b, go, Classifying, handle)
    BY <1>4 DEF Held
  <2>7. OnPlan(b, go, Classifying, Rest, collection, runs, handle)
    BY <1>2, <2>1, <2>2, <2>5, <2>6 DEF OnPlan
  <2>8. todo' = Path(go, Classifying, Rest) /\ verdict' = None
    BY <1>2, <1>7, <1>9, <2>3
  <2>9. Planned(b, todo', collection, runs, handle)
    BY <1>2, <2>1, <2>2, <2>7, <2>8 DEF Planned
  <2> QED BY <1>1, <2>8, <2>9 DEF Bound
<1>10. CASE rejection # Accepted
  <2>1. todo' = Rest /\ verdict' = rejection
    BY <1>7, <1>10
  <2>2. AcceptanceIsEarned'
    BY <1>8, <2>1, NoVerdictIsEarned
  <2> QED BY <1>2, <2>1, <2>2 DEF Bound
<1> QED BY <1>9, <1>10

(* The verdict of the six runs is never the one of the base runs alone.    *)
LEMMA DifferentialIsNotBase ==
    ASSUME NEW rs
    PROVE  ClassifyDifferential(rs) # "repeatable_base_failure"
  BY DEF ClassifyDifferential, ClassifyFixed

LEMMA ClassifiedBound ==
    ASSUME NEW b \in BOOLEAN, Bound(b), runs \in Seq(Execution), ClassifyRuns
    PROVE  Bound(b)'
<1>1. /\ todo # <<>> /\ Now.do = "classify" /\ todo' = Rest
      /\ UNCHANGED <<collection, runs, handle>>
      /\ verdict' = IF handle = None THEN ClassifyBase(runs)
                                     ELSE ClassifyDifferential(runs)
  BY DEF ClassifyRuns, Doing
<1>2. /\ Now \in Keys(b) /\ Rest \in Seq(Light(b))
      /\ OnPlan(b, <<>>, Now, Rest, collection, runs, handle)
  BY <1>1, NowIsKey
<1>3. Now = Classifying /\ Now \notin {Trial(b), Whole(b)}
  BY <1>1, <1>2, KeyKinds
<1>4. Len(runs) = Wanted(b) /\ (~b => handle = None) /\ (b => handle # None)
  <2>1. /\ Now = Classifying => Len(collection) = 1 /\ Len(runs) = Wanted(b)
        /\ ~b => handle = None
        /\ b => handle # None \/ Now \in {Trial(b), Whole(b)}
    BY <1>2, NothingBefore
  <2> QED BY <1>3, <2>1
<1>5. runs \in [1 .. Wanted(b) -> Execution] /\ DOMAIN runs = 1 .. Wanted(b)
  BY <1>4, LenProperties
<1>6. CASE ~b
  <2>1. Wanted(b) = Repeats /\ Repeats \in Nat \ {0}
    BY <1>6, ResultsAssumption DEF Wanted
  <2>2. runs \in [1 .. Repeats -> Execution] /\ DOMAIN runs = 1 .. Repeats
        /\ Len(runs) = Repeats /\ verdict' = ClassifyBase(runs)
    BY <1>1, <1>4, <1>5, <1>6, <2>1
  <2>3. ClassifyBase(runs) # "differential_reproduction"
    BY <2>1, <2>2, BaseIsNotDifferential
  <2>4. ClassifyBase(runs) = "repeatable_base_failure" =>
           \E print \in Fingerprints :
              \A i \in 1 .. Repeats : FailedAsExpected(runs[i], print)
    BY <2>1, <2>2, BaseIsExact
  <2>5. AcceptanceIsEarned'
    BY <1>1, <2>2, <2>3, <2>4 DEF AcceptanceIsEarned
  <2> QED BY <1>1, <1>2, <2>5 DEF Bound
<1>7. CASE b
  <2>1. Wanted(b) = 6 /\ Len(Schedule) = 6
    BY <1>7 DEF Wanted, Schedule
  <2>2. runs \in [1 .. 6 -> Execution] /\ DOMAIN runs = 1 .. 6
        /\ Len(runs) = Len(Schedule) /\ verdict' = ClassifyDifferential(runs)
    BY <1>1, <1>4, <1>5, <1>7, <2>1
  <2>3. ClassifyDifferential(runs) # "repeatable_base_failure"
    BY DifferentialIsNotBase
  <2>4. ClassifyDifferential(runs) = "differential_reproduction" =>
           \E print \in Fingerprints : \A i \in 1 .. 6 :
              IF Schedule[i] = "base" THEN FailedAsExpected(runs[i], print)
                                      ELSE PassedOnFixed(runs[i])
    BY <2>2, DifferentialIsExact
  <2>5. AcceptanceIsEarned'
    BY <1>1, <2>2, <2>3, <2>4 DEF AcceptanceIsEarned
  <2> QED BY <1>1, <1>2, <2>5 DEF Bound
<1> QED BY <1>6, <1>7

(* Both programs begin with the whole plan before them.                    *)
LEMMA InitStarts ==
    ASSUME Init
    PROVE  \E b \in BOOLEAN : /\ todo = <<Whole(b)>> /\ todo = Path(<<>>, Whole(b), <<>>)
                               /\ Bound(b)
                               /\ collection \in Seq(Execution) /\ runs \in Seq(Execution)
<1>1. PICK program \in Programs, budget \in Budgets : DockerInit(program, budget)
  BY DEF Init
<1>2. todo = program /\ collection = <<>> /\ runs = <<>> /\ verdict = None /\ handle = None
  BY <1>1 DEF Init, DockerInit
<1>3. \E b \in BOOLEAN : program = <<Whole(b)>>
  <2>1. CASE program = Workflow
    <3>1. Workflow = <<Head(Workflow)>>
      BY DEF Workflow, Try
    <3>2. Head(Workflow) = Whole(FALSE)
      BY DEF Whole
    <3> QED BY <2>1, <3>1, <3>2
  <2>2. CASE program = Differential
    <3>1. Differential = <<Head(Differential)>>
      BY DEF Differential, Try
    <3>2. Head(Differential) = Whole(TRUE)
      BY DEF Whole
    <3> QED BY <2>2, <3>1, <3>2
  <2> QED BY <2>1, <2>2 DEF Programs
<1>4. PICK b \in BOOLEAN : program = <<Whole(b)>>
  BY <1>3
<1> DEFINE k == Whole(b)
           x == <<>>
<1>5. k \in Keys(b) /\ k # Classifying /\ k # Judging(b)
  <2>1. k \in Keys(b)
    BY DEF Keys
  <2>2. k.do = "try"
    BY WholeEntered
  <2> QED BY <2>1, <2>2, KeyKinds
<1>6. x \in Seq(Busy(b)) /\ x \in Seq(Light(b)) /\ Weigh(x) = 0
  BY FS_EmptySet DEF Weigh
<1>7. program = Path(x, k, x)
  <2> HIDE DEF k
  <2>1. <<k>> \o <<>> = <<k>> /\ <<>> \o <<k>> = <<k>>
    <3>1. <<k>> \in Seq({k})
      OBVIOUS
    <3> DEFINE one == <<k>>
    <3> HIDE DEF one
    <3>2. one \o <<>> = one /\ <<>> \o one = one
      BY <3>1, ConcatEmptySeq DEF one
    <3> QED BY <3>2 DEF one
  <2> QED BY <1>4, <2>1 DEF Path, k
<1> HIDE DEF k, x
<1>8. Ahead(b, x, k, <<>>, <<>>)
  <2>1. Len(<<>>) + Weigh(x) = 0
    BY <1>6
  <2> QED BY <1>5, <2>1 DEF Ahead
<1>9. Held(b, x, k, None)
  BY DEF Held, k
<1>10. OnPlan(b, x, k, x, <<>>, <<>>, None)
  BY <1>5, <1>6, <1>8, <1>9 DEF OnPlan
<1>11. Planned(b, todo, collection, runs, handle)
  BY <1>2, <1>5, <1>6, <1>7, <1>10 DEF Planned
<1>12. Bound(b) /\ collection \in Seq(Execution) /\ runs \in Seq(Execution)
  BY <1>2, <1>11 DEF Bound
<1> QED BY <1>2, <1>4, <1>7, <1>12 DEF k, x

LEMMA InitBound ==
    ASSUME Init
    PROVE  EarnedInv
  BY InitStarts DEF EarnedInv

LEMMA NextKeepsBound ==
    ASSUME NEW b \in BOOLEAN, Bound(b), [Next]_vars,
           collection \in Seq(Execution), runs \in Seq(Execution)
    PROVE  Bound(b)' /\ collection' \in Seq(Execution) /\ runs' \in Seq(Execution)
<1>3. CASE Ownership
  BY <1>3, OwnershipBound DEF Ownership, outcomeVars
<1>4. CASE HostStep \/ DiscardFile \/ FactsExit
  <2>1. UNCHANGED <<collection, runs>>
    BY <1>4 DEF HostStep, DiscardFile, FactsExit, outcomeVars
  <2> QED BY <1>4, <2>1, HostStepsBound
<1>5. CASE IssueHandle \/ RevokeHandle \/ ExecutorCleaned \/ RevalidateHandle
  <2>1. UNCHANGED <<collection, runs>>
    BY <1>5 DEF IssueHandle, RevokeHandle, ExecutorCleaned, RevalidateHandle, outcomeVars
  <2> QED BY <1>5, <2>1, HandleStepsBound
<1>6. CASE AttachAndRead
  BY <1>6, AttachedBound
<1>7. CASE JudgeCollection
  <2>1. UNCHANGED <<collection, runs>>
    BY <1>7 DEF JudgeCollection
  <2> QED BY <1>7, <2>1, JudgedBound
<1>8. CASE ClassifyRuns
  <2>1. UNCHANGED <<collection, runs>>
    BY <1>8 DEF ClassifyRuns
  <2> QED BY <1>8, <2>1, ClassifiedBound
<1>9. CASE Finished \/ UNCHANGED vars
  <2>1. UNCHANGED <<todo, outcomeVars>>
    BY <1>9 DEF Finished, vars, dockerVars
  <2>2. Bound(b)'
    BY <2>1, Stays
  <2> QED BY <2>1, <2>2 DEF outcomeVars
<1> QED BY <1>3, <1>4, <1>5, <1>6, <1>7, <1>8, <1>9 DEF Next

LEMMA NextKeepsEarned ==
    ASSUME EarnedInv, [Next]_vars
    PROVE  EarnedInv'
<1>1. PICK b \in BOOLEAN : Bound(b)
  BY DEF EarnedInv
<1>2. collection \in Seq(Execution) /\ runs \in Seq(Execution)
  BY DEF EarnedInv
<1>3. Bound(b)' /\ collection' \in Seq(Execution) /\ runs' \in Seq(Execution)
  BY <1>1, <1>2, NextKeepsBound
<1> QED BY <1>3 DEF EarnedInv

(* verifier.py, differential.py: whatever commands fail and whatever the   *)
(* runs return, repeatable_base_failure is given only to as many runs as   *)
(* were asked for that all failed in one expected way, and                 *)
(* differential_reproduction only to the six of the schedule of which the  *)
(* base runs failed so and the fixed runs passed.                          *)
THEOREM AcceptanceIsAlwaysEarned == Spec => []AcceptanceIsEarned
<1>1. EarnedInv => AcceptanceIsEarned
  BY DEF EarnedInv, Bound, AcceptanceIsEarned, None
<1> QED BY <1>1, InitBound, NextKeepsEarned, PTL DEF Spec

(* An exception in a sequence put together goes to a handler of the first  *)
(* part, if it has one, and goes on there; else it passes that part by.    *)
LEMMA LastOfTwo ==
    ASSUME NEW S, NEW s \in Seq(S), NEW t \in Seq(S), NEW i \in 1 .. Len(s)
    PROVE  /\ SubSeq(s, i + 1, Len(s)) \in Seq(S)
           /\ SubSeq(s \o t, i + 1, Len(s \o t)) = SubSeq(s, i + 1, Len(s)) \o t
<1> DEFINE u == s \o t
           z == SubSeq(s, i + 1, Len(s))
           v == SubSeq(u, i + 1, Len(u))
<1>0. Len(s) \in Nat /\ Len(t) \in Nat /\ i \in Nat
  BY LenProperties
<1>1. /\ u \in Seq(S) /\ Len(u) = Len(s) + Len(t)
      /\ \A j \in 1 .. Len(s) + Len(t) : u[j] = IF j <= Len(s) THEN s[j] ELSE t[j - Len(s)]
  BY ConcatProperties
<1> HIDE DEF u
<1>2. /\ z \in Seq(S) /\ Len(z) = Len(s) - i
      /\ \A j \in 1 .. Len(s) - i : z[j] = s[i + j]
  <2>1. i + 1 \in Int /\ Len(s) \in Int
    BY <1>0
  <2>2. \A j \in i + 1 .. Len(s) : s[j] \in S
    BY <1>0, ElementOfSeq
  <2>3. /\ z \in Seq(S) /\ Len(z) = (IF i + 1 <= Len(s) THEN Len(s) - (i + 1) + 1 ELSE 0)
        /\ \A j \in 1 .. Len(s) - (i + 1) + 1 : z[j] = s[i + 1 + j - 1]
    BY <2>1, <2>2, SubSeqProperties
  <2> HIDE DEF z
  <2> QED BY <1>0, <2>3
<1>3. /\ v \in Seq(S) /\ Len(v) = Len(s) - i + Len(t)
      /\ \A j \in 1 .. Len(s) - i + Len(t) : v[j] = u[i + j]
  <2>1. i + 1 \in Int /\ Len(u) \in Int
    BY <1>0, <1>1
  <2>2. \A j \in i + 1 .. Len(u) : u[j] \in S
    BY <1>0, <1>1, ElementOfSeq
  <2>3. /\ v \in Seq(S) /\ Len(v) = (IF i + 1 <= Len(u) THEN Len(u) - (i + 1) + 1 ELSE 0)
        /\ \A j \in 1 .. Len(u) - (i + 1) + 1 : v[j] = u[i + 1 + j - 1]
    BY <2>1, <2>2, SubSeqProperties
  <2>4. Len(u) - (i + 1) + 1 = Len(s) - i + Len(t)
    BY <1>0, <1>1
  <2> HIDE DEF v
  <2>5. Len(v) = Len(s) - i + Len(t)
    BY <1>0, <1>1, <2>3
  <2>6. ASSUME NEW j \in 1 .. Len(s) - i + Len(t) PROVE v[j] = u[i + j]
    <3>1. j \in 1 .. Len(u) - (i + 1) + 1 /\ i + 1 + j - 1 = i + j
      BY <1>0, <2>4
    <3>2. v[j] = u[i + 1 + j - 1]
      BY <2>3, <3>1
    <3> QED BY <3>1, <3>2
  <2> QED BY <2>3, <2>5, <2>6
<1> HIDE DEF z, v
<1>4. /\ z \o t \in Seq(S) /\ Len(z \o t) = Len(s) - i + Len(t)
      /\ \A j \in 1 .. Len(s) - i + Len(t) :
            (z \o t)[j] = IF j <= Len(s) - i THEN z[j] ELSE t[j - (Len(s) - i)]
  <2>1. /\ z \o t \in Seq(S) /\ Len(z \o t) = Len(z) + Len(t)
        /\ \A j \in 1 .. Len(z) + Len(t) :
              (z \o t)[j] = IF j <= Len(z) THEN z[j] ELSE t[j - Len(z)]
    BY <1>2, ConcatProperties
  <2> QED BY <1>2, <2>1
<1>5. ASSUME NEW j \in 1 .. Len(s) - i + Len(t) PROVE v[j] = (z \o t)[j]
  <2>0. v[j] = u[i + j] /\ i + j \in 1 .. Len(s) + Len(t)
    BY <1>0, <1>3
  <2>1. CASE j <= Len(s) - i
    <3>1. i + j <= Len(s) /\ j \in 1 .. Len(s) - i
      BY <1>0, <2>1
    <3>2. u[i + j] = s[i + j]
      BY <1>1, <2>0, <3>1
    <3>3. z[j] = s[i + j] /\ (z \o t)[j] = z[j]
      BY <1>2, <1>4, <3>1
    <3> QED BY <2>0, <3>2, <3>3
  <2>2. CASE ~(j <= Len(s) - i)
    <3>1. ~(i + j <= Len(s)) /\ i + j - Len(s) = j - (Len(s) - i)
      BY <1>0, <2>2
    <3>2. u[i + j] = t[i + j - Len(s)]
      BY <1>1, <2>0, <3>1
    <3>3. (z \o t)[j] = t[j - (Len(s) - i)]
      BY <1>4, <2>2
    <3> QED BY <2>0, <3>1, <3>2, <3>3
  <2> QED BY <2>1, <2>2
<1>6. v = z \o t
  BY <1>3, <1>4, <1>5, SeqEqual
<1> QED BY <1>2, <1>6 DEF u, v, z

LEMMA HandlersOfTwo ==
    ASSUME NEW S, NEW s \in Seq(S), NEW t \in Seq(S)
    PROVE  /\ Len(s) \in Nat /\ Len(t) \in Nat /\ s \o t \in Seq(S)
           /\ \A i \in 1 .. Len(s) : (s \o t)[i] = s[i] /\ (i \in Handlers(s \o t) <=> i \in Handlers(s))
           /\ \A i \in 1 .. Len(t) : /\ (s \o t)[Len(s) + i] = t[i]
                                     /\ Len(s) + i \in Handlers(s \o t) <=> i \in Handlers(t)
           /\ Handlers(s) \subseteq 1 .. Len(s) /\ Handlers(t) \subseteq 1 .. Len(t)
           /\ \A i \in Handlers(s \o t) : i \in 1 .. Len(s) \/ i - Len(s) \in 1 .. Len(t)
<1> DEFINE u == s \o t
<1>1. Len(s) \in Nat /\ Len(t) \in Nat /\ DOMAIN s = 1 .. Len(s) /\ DOMAIN t = 1 .. Len(t)
  BY LenProperties
<1>2. /\ u \in Seq(S) /\ Len(u) = Len(s) + Len(t)
      /\ \A j \in 1 .. Len(s) + Len(t) : u[j] = IF j <= Len(s) THEN s[j] ELSE t[j - Len(s)]
  BY ConcatProperties
<1> HIDE DEF u
<1>3. DOMAIN u = 1 .. Len(s) + Len(t)
  BY <1>2, LenProperties
<1>4. ASSUME NEW i \in 1 .. Len(s) PROVE i \in 1 .. Len(s) + Len(t) /\ u[i] = s[i]
  BY <1>1, <1>2
<1>5. ASSUME NEW i \in 1 .. Len(t) PROVE Len(s) + i \in 1 .. Len(s) + Len(t) /\ u[Len(s) + i] = t[i]
  <2> DEFINE j == Len(s) + i
  <2>1. j \in 1 .. Len(s) + Len(t) /\ ~(j <= Len(s)) /\ j - Len(s) = i
    BY <1>1
  <2> HIDE DEF j
  <2>2. u[j] = t[j - Len(s)]
    BY <1>2, <2>1
  <2> QED BY <2>1, <2>2 DEF j
<1>6. Handlers(s) \subseteq 1 .. Len(s) /\ Handlers(t) \subseteq 1 .. Len(t)
      /\ Handlers(u) \subseteq 1 .. Len(s) + Len(t)
  BY <1>1, <1>3 DEF Handlers
<1>7. \A i \in 1 .. Len(s) : u[i] = s[i] /\ (i \in Handlers(u) <=> i \in Handlers(s))
  BY <1>1, <1>3, <1>4 DEF Handlers
<1>8. \A i \in 1 .. Len(t) : /\ u[Len(s) + i] = t[i]
                             /\ Len(s) + i \in Handlers(u) <=> i \in Handlers(t)
  BY <1>1, <1>3, <1>5 DEF Handlers
<1>9. \A i \in Handlers(u) : i \in 1 .. Len(s) \/ i - Len(s) \in 1 .. Len(t)
  BY <1>1, <1>6
<1> QED BY <1>1, <1>2, <1>6, <1>7, <1>8, <1>9 DEF u

LEMMA FirstIsInnermost ==
    ASSUME NEW S, NEW s \in Seq(S), NEW i \in Handlers(s), \A j \in Handlers(s) : i <= j
    PROVE  Innermost(s) = i
<1>1. /\ Innermost(s) \in Handlers(s) /\ Innermost(s) \in 1 .. Len(s)
      /\ \A j \in Handlers(s) : Innermost(s) <= j
  BY InnermostIsFirst
<1>2. i \in 1 .. Len(s) /\ Len(s) \in Nat
  BY LenProperties DEF Handlers
<1> QED BY <1>1, <1>2

LEMMA UnwoundPast ==
    ASSUME NEW S, NEW s \in Seq(S), NEW t \in Seq(S), Handlers(s) = {}
    PROVE  Unwound(s \o t) = Unwound(t)
<1> DEFINE u == s \o t
           i == Innermost(t)
<1>1. /\ Len(s) \in Nat /\ Len(t) \in Nat /\ u \in Seq(S)
      /\ \A j \in 1 .. Len(s) : u[j] = s[j] /\ (j \in Handlers(u) <=> j \in Handlers(s))
      /\ \A j \in 1 .. Len(t) : /\ u[Len(s) + j] = t[j]
                                /\ Len(s) + j \in Handlers(u) <=> j \in Handlers(t)
      /\ Handlers(s) \subseteq 1 .. Len(s) /\ Handlers(t) \subseteq 1 .. Len(t)
      /\ \A j \in Handlers(u) : j \in 1 .. Len(s) \/ j - Len(s) \in 1 .. Len(t)
  BY HandlersOfTwo
<1>2. Len(u) = Len(s) + Len(t)
  BY ConcatProperties
<1> HIDE DEF u, i
<1>3. \A j \in Handlers(u) : j - Len(s) \in Handlers(t) /\ j \in Int
  <2> SUFFICES ASSUME NEW j \in Handlers(u) PROVE j - Len(s) \in Handlers(t) /\ j \in Int
    OBVIOUS
  <2>1. j \notin 1 .. Len(s)
    BY <1>1
  <2>2. j - Len(s) \in 1 .. Len(t)
    BY <1>1, <2>1
  <2>3. j \in Int
    BY <1>1 DEF Handlers
  <2>4. Len(s) + (j - Len(s)) = j
    BY <1>1, <2>3
  <2> QED BY <1>1, <2>2, <2>3, <2>4
<1>4. CASE Handlers(t) = {}
  BY <1>3, <1>4 DEF Unwound, u
<1>5. CASE Handlers(t) # {}
  <2>1. i \in Handlers(t) /\ i \in 1 .. Len(t) /\ \A j \in Handlers(t) : i <= j
    BY <1>5, InnermostIsFirst DEF i
  <2>2. Len(s) + i \in Handlers(u) /\ u[Len(s) + i] = t[i]
    BY <1>1, <2>1
  <2>3. \A j \in Handlers(u) : Len(s) + i <= j
    <3> SUFFICES ASSUME NEW j \in Handlers(u) PROVE Len(s) + i <= j
      OBVIOUS
    <3>1. i <= j - Len(s) /\ j \in Int
      BY <1>3, <2>1
    <3> QED BY <1>1, <2>1, <3>1
  <2>4. Innermost(u) = Len(s) + i
    BY <1>1, <2>2, <2>3, FirstIsInnermost
  <2>5. SubSeq(u, Len(s) + i + 1, Len(u)) = SubSeq(t, i + 1, Len(t))
    <3> DEFINE v == SubSeq(u, Len(s) + i + 1, Len(u))
               w == SubSeq(t, i + 1, Len(t))
    <3>1. /\ v \in Seq(S) /\ Len(v) = Len(t) - i
          /\ \A j \in 1 .. Len(t) - i : v[j] = u[Len(s) + (i + j)]
      <4>1. Len(s) + i + 1 \in Int /\ Len(u) \in Int
        BY <1>1, <1>2, <2>1
      <4>2. \A j \in Len(s) + i + 1 .. Len(u) : u[j] \in S
        BY <1>1, <1>2, <2>1, ElementOfSeq
      <4>3. /\ v \in Seq(S)
            /\ Len(v) = (IF Len(s) + i + 1 <= Len(u) THEN Len(u) - (Len(s) + i + 1) + 1 ELSE 0)
            /\ \A j \in 1 .. Len(u) - (Len(s) + i + 1) + 1 : v[j] = u[Len(s) + i + 1 + j - 1]
        BY <4>1, <4>2, SubSeqProperties
      <4> HIDE DEF v
      <4>4. Len(u) - (Len(s) + i + 1) + 1 = Len(t) - i
        BY <1>1, <1>2, <2>1
      <4>5. Len(v) = Len(t) - i
        BY <1>1, <1>2, <2>1, <4>3
      <4>6. ASSUME NEW j \in 1 .. Len(t) - i PROVE v[j] = u[Len(s) + (i + j)]
        <5>1. j \in 1 .. Len(u) - (Len(s) + i + 1) + 1
          BY <4>4
        <5>2. Len(s) + i + 1 + j - 1 = Len(s) + (i + j)
          BY <1>1, <2>1
        <5>3. v[j] = u[Len(s) + i + 1 + j - 1]
          BY <4>3, <5>1
        <5> QED BY <5>2, <5>3
      <4> QED BY <4>3, <4>5, <4>6
    <3>2. /\ w \in Seq(S) /\ Len(w) = Len(t) - i
          /\ \A j \in 1 .. Len(t) - i : w[j] = t[i + j]
      <4>1. i + 1 \in Int /\ Len(t) \in Int
        BY <1>1, <2>1
      <4>2. \A j \in i + 1 .. Len(t) : t[j] \in S
        BY <1>1, <2>1, ElementOfSeq
      <4>3. /\ w \in Seq(S) /\ Len(w) = (IF i + 1 <= Len(t) THEN Len(t) - (i + 1) + 1 ELSE 0)
            /\ \A j \in 1 .. Len(t) - (i + 1) + 1 : w[j] = t[i + 1 + j - 1]
        BY <4>1, <4>2, SubSeqProperties
      <4> HIDE DEF w
      <4> QED BY <1>1, <2>1, <4>3
    <3> HIDE DEF v, w
    <3>3. ASSUME NEW j \in 1 .. Len(t) - i PROVE v[j] = w[j]
      <4>1. i + j \in 1 .. Len(t)
        BY <1>1, <2>1
      <4>2. u[Len(s) + (i + j)] = t[i + j]
        BY <1>1, <4>1
      <4> QED BY <3>1, <3>2, <4>2
    <3>4. v = w
      BY <3>1, <3>2, <3>3, SeqEqual
    <3> QED BY <3>4 DEF v, w
  <2>6. Handlers(u) # {}
    BY <2>2
  <2> DEFINE a == t[i].then
             c == IF t[i].do = "catch" THEN <<>> ELSE <<Raise>>
  <2>7. Unwound(u) = a \o c \o SubSeq(u, Len(s) + i + 1, Len(u))
    BY <2>2, <2>4, <2>6 DEF Unwound
  <2>8. Unwound(t) = a \o c \o SubSeq(t, i + 1, Len(t))
    BY <1>5 DEF Unwound, i
  <2> DEFINE p == SubSeq(u, Len(s) + i + 1, Len(u))
             q == SubSeq(t, i + 1, Len(t))
  <2>9. p = q
    BY <2>5
  <2>10. Unwound(u) = a \o c \o p /\ Unwound(t) = a \o c \o q
    BY <2>7, <2>8
  <2> HIDE DEF a, c, p, q
  <2>11. Unwound(u) = Unwound(t)
    BY <2>9, <2>10
  <2> QED BY <2>11 DEF u
<1> QED BY <1>4, <1>5

LEMMA UnwoundWithin ==
    ASSUME NEW S, NEW s \in Seq(S), NEW t \in Seq(S), Handlers(s) # {}, Raise \in S,
           \A v \in S : /\ v.do # "catch"
                        /\ v.do \in {"finally", "except"} => v.then \in Seq(S)
    PROVE  /\ Unwound(s \o t) = Unwound(s) \o t
           /\ \E i \in 1 .. Len(s) :
                 /\ s[i].do \in {"finally", "except"} /\ s[i].then \in Seq(S)
                 /\ SubSeq(s, i + 1, Len(s)) \in Seq(S)
                 /\ Unwound(s) = (s[i].then \o <<Raise>>) \o SubSeq(s, i + 1, Len(s))
<1> DEFINE u == s \o t
           i == Innermost(s)
<1>1. /\ Len(s) \in Nat /\ Len(t) \in Nat /\ u \in Seq(S)
      /\ \A j \in 1 .. Len(s) : u[j] = s[j] /\ (j \in Handlers(u) <=> j \in Handlers(s))
      /\ \A j \in 1 .. Len(t) : /\ u[Len(s) + j] = t[j]
                                /\ Len(s) + j \in Handlers(u) <=> j \in Handlers(t)
      /\ Handlers(s) \subseteq 1 .. Len(s) /\ Handlers(t) \subseteq 1 .. Len(t)
      /\ \A j \in Handlers(u) : j \in 1 .. Len(s) \/ j - Len(s) \in 1 .. Len(t)
  BY HandlersOfTwo
<1>2. i \in Handlers(s) /\ i \in 1 .. Len(s) /\ \A j \in Handlers(s) : i <= j
  BY InnermostIsFirst
<1>3. /\ SubSeq(s, i + 1, Len(s)) \in Seq(S)
      /\ SubSeq(u, i + 1, Len(u)) = SubSeq(s, i + 1, Len(s)) \o t
  BY <1>2, LastOfTwo
<1> HIDE DEF u
<1>4. i \in Handlers(u) /\ u[i] = s[i]
  BY <1>1, <1>2
<1>5. \A j \in Handlers(u) : i <= j
  <2> SUFFICES ASSUME NEW j \in Handlers(u) PROVE i <= j
    OBVIOUS
  <2>1. CASE j \in 1 .. Len(s)
    BY <1>1, <1>2, <2>1
  <2>2. CASE j - Len(s) \in 1 .. Len(t)
    <3>1. j \in Int
      BY <1>1 DEF Handlers
    <3> QED BY <1>1, <1>2, <2>2, <3>1
  <2> QED BY <1>1, <2>1, <2>2
<1>6. Innermost(u) = i
  BY <1>1, <1>4, <1>5, FirstIsInnermost
<1>7. s[i] \in S /\ s[i].do \in {"finally", "except", "catch"}
  BY <1>2, ElementOfSeq DEF Handlers
<1>8. s[i].do \in {"finally", "except"} /\ s[i].then \in Seq(S)
  BY <1>7
<1> DEFINE z == SubSeq(s, i + 1, Len(s))
           a == s[i].then \o <<Raise>>
<1>9. Unwound(s) = a \o z
  BY <1>2, <1>8 DEF Unwound
<1>10. Unwound(u) = a \o (z \o t)
  BY <1>3, <1>4, <1>6, <1>8 DEF Unwound
<1>11. a \in Seq(S) /\ z \in Seq(S)
  <2>1. s[i].then \in Seq(S) /\ <<Raise>> \in Seq(S)
    BY <1>8
  <2>2. a \in Seq(S)
    BY <2>1, ConcatProperties
  <2> QED BY <1>3, <2>2
<1>12. Unwound(u) = Unwound(s) \o t
  <2> HIDE DEF a, z, i
  <2>1. (a \o z) \o t = a \o (z \o t)
    BY <1>11, ConcatAssociative
  <2> QED BY <1>9, <1>10, <2>1
<1> QED BY <1>2, <1>8, <1>9, <1>11, <1>12 DEF u

----------------------------------------------------------------------------
(* What one step does: nothing to what is left to do, or it raises, or it  *)
(* puts in the place of the present instruction what that gives way to.    *)
Following(what) ==
    IF what = "judge" THEN Times(Repeats, RunPytest("run"))
    ELSE StageAttestedSource("workspace2", "stage2", "owner2", "attest2") \o Interleaved
Gives(u, P) ==
    \/ u.do = "try" /\ P = Entered(u)
    \/ u.do = "finally" /\ P = u.then
    \/ u.do = "cleanup" /\ \E left \in SUBSET u.objs : P = <<Sweeping(left, TRUE)>>
    \/ u.do = "sweep" /\ \E left \in SUBSET u.left, ok \in {u.ok, FALSE} : P = <<Sweeping(left, ok)>>
    \/ u.do = "attach" /\ P \in {<<Remove(u.obj)>>, <<Command({u.obj})>>}
    \/ u.do \in {"judge", "judge-differential"} /\ P \in {<<>>, Following(u.do) \o Classify}
    \/ /\ u.do \notin {"try", "finally", "cleanup", "attach", "judge", "judge-differential",
                       "raise", "raised"}
       /\ P = <<>>

(* What the present instruction may do to the engine and the registries.   *)
Brought == IF Now.do = "create" THEN {Now.obj} ELSE {}
Taken ==
    IF Now.do \in {"remove", "release"} THEN {Now.obj} \cup Containers
    ELSE IF Now.do = "sweep" THEN Now.left \cup Containers
    ELSE IF Now.do = "exits" THEN {Now.obj} ELSE {}
Effects ==
    /\ todo # <<>>
    /\ existing' \subseteq existing \cup Brought
    /\ existing \ existing' \subseteq Taken
    /\ registered' \subseteq registered \cup Brought
    /\ late' \subseteq late \cup Brought
    /\ Now.do \notin {"ready", "revoke", "cleaned"} => handle' = handle
    /\ Now.do \notin {"judge", "judge-differential", "classify"} => verdict' = verdict
    /\ files' \subseteq files \cup (IF Now.do = "host" THEN {Now.file} ELSE {})
    /\ files \ files' \subseteq IF Now.do = "discard" THEN {Now.file} ELSE {}

Waits ==
    /\ UNCHANGED <<todo, registered, unacknowledged, files, verdict, handle>>
    /\ \/ UNCHANGED <<existing, late, arrived>>
       \/ \E o \in late : /\ late' = late \ {o}
                          /\ existing' = existing \cup {o}
                                  \cup (IF o \in Containers THEN Mounts[o] ELSE {})
                          /\ arrived \subseteq arrived'
Throws ==
    /\ Effects /\ todo' = Unwound(Rest)
    /\ Now.do \in {"raise", "create", "command", "remove", "release", "sweep", "host",
                   "revalidate"}
    /\ UNCHANGED <<arrived, files, verdict, handle>>
GoesBy(P) ==
    /\ Effects /\ todo' = P \o Rest /\ Gives(Now, P)
    /\ UNCHANGED <<late, arrived, unacknowledged>>

LEMMA GoesBare ==
    ASSUME NEW S, todo \in Seq(S), todo # <<>>
    PROVE  Rest = <<>> \o Rest
<1> DEFINE rest == Rest
<1>1. rest \in Seq(S)
  BY DEF Rest
<1> HIDE DEF rest
<1>2. rest = <<>> \o rest
  BY <1>1, ConcatEmptySeq
<1> QED BY <1>2 DEF rest

LEMMA DropsFew ==
    ASSUME NEW o
    PROVE  /\ Drop(o) \subseteq {o} \cup Containers
           /\ \A done \in {{}, AnchorsToGo(o)} \cup (IF Removable(o) THEN {Drop(o)} ELSE {}) :
                 done \subseteq Drop(o)
  BY ObjectsAssumption DEF Drop, AnchorsToGo

LEMMA FailedRemovalTakes ==
    ASSUME NEW o, FailedRemoval(o)
    PROVE  /\ existing' \subseteq existing /\ registered' \subseteq registered
           /\ existing \ existing' \subseteq {o} \cup Containers
<1>1. PICK done \in {{}, AnchorsToGo(o)} \cup (IF Removable(o) THEN {Drop(o)} ELSE {}) :
        existing' = existing \ done /\ registered' = registered \ (done \ {o})
  BY DEF FailedRemoval
<1>2. done \subseteq {o} \cup Containers
  BY DropsFew
<1> QED BY <1>1, <1>2

LEMMA OwnershipKinds ==
    ASSUME NEW S, todo \in Seq(S), Ownership
    PROVE  Waits \/ Throws \/ \E P : GoesBy(P)
<1>0. DockerNext /\ UNCHANGED outcomeVars
  BY DEF Ownership
<1>1. UNCHANGED <<files, verdict, handle>>
  BY <1>0 DEF outcomeVars
<1> USE DEF engineVars, Doing, Brought, Taken
<1>2. CASE EnterTry
  <2>1. Effects /\ Now.do = "try" /\ UNCHANGED <<late, arrived, unacknowledged>>
    BY <1>1, <1>2 DEF EnterTry, Effects
  <2>2. todo' = Entered(Now) \o Rest
    BY <1>2 DEF EnterTry, Entered
  <2> QED BY <2>1, <2>2 DEF GoesBy, Gives
<1>3. CASE LeaveTry
  <2>1. /\ Effects /\ UNCHANGED <<late, arrived, unacknowledged>>
        /\ Now.do \in {"finally", "except", "catch"}
    BY <1>1, <1>3 DEF LeaveTry, Effects
  <2> DEFINE P == IF Now.do = "finally" THEN Now.then ELSE <<>>
  <2>2. todo' = P \o Rest
    BY <1>3 DEF LeaveTry
  <2>3. Gives(Now, P)
    BY <2>1 DEF Gives
  <2> HIDE DEF P
  <2> QED BY <2>1, <2>2, <2>3 DEF GoesBy
<1>4. CASE Reraise
  BY <1>1, <1>4 DEF Reraise, Effects, Throws
<1>5. CASE CreateSucceeds
  <2>1. /\ Effects /\ UNCHANGED <<late, arrived, unacknowledged>>
        /\ Now.do = "create" /\ todo' = Rest
    BY <1>1, <1>5 DEF CreateSucceeds, Effects
  <2>2. todo' = <<>> \o Rest
    BY <2>1, GoesBare DEF Effects
  <2> QED BY <2>1, <2>2 DEF GoesBy, Gives
<1>6. CASE \E effect \in {"done", "later", "never"} : CreateFails(effect)
  BY <1>1, <1>6 DEF CreateFails, Effects, Throws
<1>7. CASE \E o \in Objects : Arrive(o)
  BY <1>1, <1>7 DEF Arrive, Waits
<1>8. CASE CommandSucceeds \/ SkipRelease
  <2>1. /\ Effects /\ UNCHANGED <<late, arrived, unacknowledged>>
        /\ Now.do \in {"command", "release"} /\ todo' = Rest
    BY <1>1, <1>8 DEF CommandSucceeds, SkipRelease, Skips, Effects
  <2>2. todo' = <<>> \o Rest
    BY <2>1, GoesBare DEF Effects
  <2> QED BY <2>1, <2>2 DEF GoesBy, Gives
<1>9. CASE CommandFails
  BY <1>1, <1>9 DEF CommandFails, Effects, Throws
<1>10. CASE RemovalSucceeds
  <2>1. /\ Effects /\ UNCHANGED <<late, arrived, unacknowledged>>
        /\ Now.do \in {"remove", "release"} /\ todo' = Rest
    BY <1>1, <1>10, DropsFew DEF RemovalSucceeds, Removes, Effects
  <2>2. todo' = <<>> \o Rest
    BY <2>1, GoesBare DEF Effects
  <2> QED BY <2>1, <2>2 DEF GoesBy, Gives
<1>11. CASE RemovalFails
  <2>1. /\ existing' \subseteq existing /\ registered' \subseteq registered
        /\ existing \ existing' \subseteq {Now.obj} \cup Containers
    BY <1>11, FailedRemovalTakes DEF RemovalFails
  <2> QED BY <1>1, <1>11, <2>1 DEF RemovalFails, Removes, Effects, Throws
<1>12. CASE StartSweep
  <2>1. /\ Effects /\ UNCHANGED <<late, arrived, unacknowledged>> /\ Now.do = "cleanup"
        /\ todo' = <<Sweeping(Now.objs \cap registered, TRUE)>> \o Rest
    BY <1>1, <1>12 DEF StartSweep, Effects
  <2> QED BY <2>1 DEF GoesBy, Gives
<1>13. ASSUME NEW o \in Objects, SweepSucceeds(o) \/ SweepFails(o)
       PROVE  \E P : GoesBy(P)
  <2>1. Now.do = "sweep" /\ o \in Now.left /\ todo # <<>>
    BY <1>13 DEF SweepSucceeds, SweepFails, NextToSweep
  <2>2. /\ existing' \subseteq existing /\ registered' \subseteq registered
        /\ existing \ existing' \subseteq {o} \cup Containers
    BY <1>13, FailedRemovalTakes, DropsFew DEF SweepSucceeds, SweepFails
  <2>3. UNCHANGED <<late, arrived, unacknowledged>>
    BY <1>13 DEF SweepSucceeds, SweepFails
  <2>4. Effects
    BY <1>1, <2>1, <2>2, <2>3 DEF Effects
  <2>5. \/ todo' = <<Sweeping(Now.left \ {o}, Now.ok)>> \o Rest
        \/ todo' = <<Sweeping(Now.left \ {o}, FALSE)>> \o Rest
    BY <1>13 DEF SweepSucceeds, SweepFails
  <2> DEFINE left == Now.left \ {o}
  <2>6. left \in SUBSET Now.left
    OBVIOUS
  <2> HIDE DEF left
  <2>7. Gives(Now, <<Sweeping(left, Now.ok)>>) /\ Gives(Now, <<Sweeping(left, FALSE)>>)
    BY <2>1, <2>6 DEF Gives
  <2> QED BY <2>3, <2>4, <2>5, <2>7 DEF GoesBy, left
<1>14. CASE EndSweep
  <2>1. /\ Effects /\ UNCHANGED <<late, arrived, unacknowledged>> /\ Now.do = "sweep"
        /\ todo' = Rest \/ todo' = Unwound(Rest)
    BY <1>1, <1>14 DEF EndSweep, Effects
  <2>2. ASSUME todo' = Rest PROVE todo' = <<>> \o Rest
    BY <2>1, <2>2, GoesBare DEF Effects
  <2>3. CASE todo' = Rest
    BY <2>1, <2>2, <2>3 DEF GoesBy, Gives
  <2>4. CASE todo' = Unwound(Rest)
    BY <1>1, <2>1, <2>4 DEF Throws
  <2> QED BY <2>1, <2>3, <2>4
<1> QED BY <1>0, <1>2, <1>3, <1>4, <1>5, <1>6, <1>7, <1>8, <1>9, <1>10, <1>11, <1>12,
           <1>13, <1>14 DEF DockerNext

LEMMA StepKinds ==
    ASSUME NEW S, todo \in Seq(S), [Next]_vars
    PROVE  Waits \/ Throws \/ \E P : GoesBy(P)
<1> USE DEF engineVars, Doing, Brought, Taken
<1>1. CASE Ownership
  BY <1>1, OwnershipKinds
<1>2. CASE FactsExit \/ DiscardFile \/ IssueHandle \/ RevokeHandle \/ ExecutorCleaned
             \/ ClassifyRuns
  <2>1. /\ Effects /\ UNCHANGED <<late, arrived, unacknowledged>> /\ todo' = Rest
        /\ Now.do \in {"exits", "discard", "ready", "revoke", "cleaned", "classify"}
    <3>1. CASE FactsExit
      BY <3>1 DEF FactsExit, Effects, outcomeVars
    <3>2. CASE DiscardFile
      BY <3>2 DEF DiscardFile, Effects
    <3>3. CASE IssueHandle \/ RevokeHandle \/ ExecutorCleaned
      BY <3>3 DEF IssueHandle, RevokeHandle, ExecutorCleaned, Effects
    <3>4. CASE ClassifyRuns
      BY <3>4 DEF ClassifyRuns, Effects
    <3> QED BY <1>2, <3>1, <3>2, <3>3, <3>4
  <2>2. todo' = <<>> \o Rest
    BY <2>1, GoesBare DEF Effects
  <2> QED BY <2>1, <2>2 DEF GoesBy, Gives
<1>3. CASE AttachAndRead
  <2>1. Effects /\ UNCHANGED <<late, arrived, unacknowledged>> /\ Now.do = "attach"
    BY <1>3 DEF AttachAndRead, Effects
  <2>2. \/ todo' = <<Remove(Now.obj)>> \o Rest
        \/ todo' = <<Command({Now.obj})>> \o Rest
    BY <1>3 DEF AttachAndRead
  <2>3. Gives(Now, <<Remove(Now.obj)>>) /\ Gives(Now, <<Command({Now.obj})>>)
    BY <2>1 DEF Gives
  <2> QED BY <2>1, <2>2, <2>3 DEF GoesBy
<1>4. CASE JudgeCollection
  <2>1. /\ Effects /\ UNCHANGED <<late, arrived, unacknowledged>>
        /\ Now.do \in {"judge", "judge-differential"}
    BY <1>4 DEF JudgeCollection, Effects
  <2>2. \/ todo' = Rest
        \/ todo' = (Following(Now.do) \o Classify) \o Rest
    BY <1>4 DEF JudgeCollection, Following
  <2>3. ASSUME todo' = Rest PROVE todo' = <<>> \o Rest
    BY <2>1, <2>3, GoesBare DEF Effects
  <2>4. Gives(Now, <<>>) /\ Gives(Now, Following(Now.do) \o Classify)
    BY <2>1 DEF Gives
  <2> QED BY <2>1, <2>2, <2>3, <2>4 DEF GoesBy
<1>5. CASE HostStep
  <2>1. CASE todo' = Rest /\ files' = files \cup ({Now.file} \ {None})
    <3>1. /\ Effects /\ UNCHANGED <<late, arrived, unacknowledged>> /\ Now.do = "host"
      BY <1>5, <2>1 DEF HostStep, Effects
    <3>2. todo' = <<>> \o Rest
      BY <2>1, <3>1, GoesBare DEF Effects
    <3> QED BY <3>1, <3>2 DEF GoesBy, Gives
  <2>2. CASE todo' = Unwound(Rest) /\ UNCHANGED files
    BY <1>5, <2>2 DEF HostStep, Effects, Throws
  <2> QED BY <1>5, <2>1, <2>2 DEF HostStep
<1>6. CASE RevalidateHandle
  <2>1. Effects /\ Now.do = "revalidate" /\ UNCHANGED <<late, arrived, unacknowledged, outcomeVars>>
    BY <1>6 DEF RevalidateHandle, Effects, outcomeVars
  <2>2. CASE todo' = Rest
    <3>1. todo' = <<>> \o Rest
      BY <2>1, <2>2, GoesBare DEF Effects
    <3> QED BY <2>1, <3>1 DEF GoesBy, Gives
  <2>3. CASE todo' = Unwound(Rest)
    BY <2>1, <2>3 DEF Throws, outcomeVars
  <2> QED BY <1>6, <2>2, <2>3 DEF RevalidateHandle
<1>7. CASE Finished \/ UNCHANGED vars
  BY <1>7 DEF Finished, Waits, vars, dockerVars, outcomeVars
<1> QED BY <1>1, <1>2, <1>3, <1>4, <1>5, <1>6, <1>7 DEF Next

----------------------------------------------------------------------------
(* Classes of instructions that hold what their members give way to.       *)
Core(b) ==
    LightOver(Steps(b), Owned(b)) \cup (IF b THEN {PrepTry, ExceptEC} ELSE {})
    \cup Heavy \cup {Judging(b), Classifying}
Lending == Running(TRUE) \cup {ExceptEC, Trial(TRUE), Judging(TRUE), Classifying}

LEMMA OverGives ==
    ASSUME NEW e \in SUBSET {"ready", "revalidate"}, NEW D \in SUBSET Names,
           NEW u \in LightOver(e, D), NEW P, Gives(u, P)
    PROVE  P \in Seq(LightOver(e, D))
<1>1. /\ u.do \notin {"attach", "catch", "judge", "judge-differential", "classify",
                      "revoke", "cleaned"}
      /\ u.do \in {"finally", "except"} => u.then \in Seq(Tidying(D))
      /\ u.do = "cleanup" => u.objs \subseteq D
      /\ u.do = "sweep" => u.left \subseteq D /\ u.ok \in BOOLEAN
  BY OverKinds
<1>2. Seq(Tidying(D)) \subseteq Seq(LightOver(e, D)) /\ Tidying(D) \subseteq LightOver(e, D)
  BY ClassesOver
<1>3. ASSUME NEW left \in SUBSET D, NEW ok \in BOOLEAN
      PROVE  <<Sweeping(left, ok)>> \in Seq(LightOver(e, D))
  <2>1. Sweeping(left, ok) \in LightOver(e, D)
    BY <1>2, SweepIsTidying
  <2> QED BY <2>1
<1>4. CASE u.do = "try" /\ P = Entered(u)
  BY <1>4, OverEntered
<1>5. CASE u.do = "finally" /\ P = u.then
  BY <1>1, <1>2, <1>5
<1>6. CASE u.do = "cleanup" /\ \E left \in SUBSET u.objs : P = <<Sweeping(left, TRUE)>>
  BY <1>1, <1>3, <1>6
<1>7. CASE u.do = "sweep" /\ \E left \in SUBSET u.left, ok \in {u.ok, FALSE} :
                                P = <<Sweeping(left, ok)>>
  BY <1>1, <1>3, <1>7
<1>8. CASE P = <<>>
  BY <1>8
<1> QED BY <1>1, <1>4, <1>5, <1>6, <1>7, <1>8 DEF Gives

LEMMA HeavyGives ==
    ASSUME NEW e \in SUBSET {"ready", "revalidate"}, NEW D \in SUBSET Names,
           SandboxObjects \subseteq D, NEW u \in Heavy, NEW P, Gives(u, P)
    PROVE  P \in Seq(BusyOver(e, D))
<1>1. \E n \in RunNames : \/ u = Attach(n) /\ u.do = "attach" /\ u.obj = n
                          \/ u.do = "try"
  BY HeavyKinds DEF Attach
<1>2. CASE u.do = "try"
  BY <1>2, HeavyEntered DEF Gives
<1>3. CASE u.do # "try"
  <2>1. u.do = "attach" /\ u.obj \in D /\ {u.obj} \in SUBSET Names
    BY <1>1, <1>3, AllNamed DEF RunNames, SandboxObjects
  <2>2. Remove(u.obj) \in SimpleOver(e, D) /\ Command({u.obj}) \in SimpleOver(e, D)
    BY <2>1, StepsAreSimple
  <2>3. Remove(u.obj) \in BusyOver(e, D) /\ Command({u.obj}) \in BusyOver(e, D)
    BY <2>2, ClassesOver
  <2>4. P \in {<<Remove(u.obj)>>, <<Command({u.obj})>>}
    BY <2>1 DEF Gives
  <2>5. /\ <<Remove(u.obj)>> \in Seq(BusyOver(e, D))
        /\ <<Command({u.obj})>> \in Seq(BusyOver(e, D))
    BY <2>3, OneOf, Zenon
  <2> QED BY <2>4, <2>5, Zenon
<1> QED BY <1>2, <1>3

LEMMA JudgingGives ==
    ASSUME NEW b \in BOOLEAN, NEW P, Gives(Judging(b), P)
    PROVE  P \in Seq(Running(b) \cup {Classifying})
<1> DEFINE go == IF b THEN StageAttestedSource("workspace2", "stage2", "owner2", "attest2")
                            \o Interleaved
                      ELSE Times(Repeats, RunPytest("run"))
           S == Running(b) \cup {Classifying}
<1>1. Judging(b).do = IF b THEN "judge-differential" ELSE "judge"
  BY DEF Judging
<1>2. Following(Judging(b).do) = go
  <2>1. CASE b = TRUE
    BY <1>1, <2>1 DEF Following
  <2>2. CASE b = FALSE
    BY <1>1, <2>2 DEF Following
  <2> QED BY <2>1, <2>2
<1>3. go \in Seq(Running(b))
  BY RunsToCome
<1>4. Running(b) \subseteq S /\ Classifying \in S
  OBVIOUS
<1> HIDE DEF go, S
<1>5. go \in Seq(S) /\ <<Classifying>> \in Seq(S)
  BY <1>3, <1>4, SeqMonotonic
<1>6. Classify = <<Classifying>>
  BY DEF Classify, Classifying
<1>7. go \o Classify \in Seq(S) /\ <<>> \in Seq(S)
  BY <1>5, <1>6, Joined
<1>8. P \in {<<>>, Following(Judging(b).do) \o Classify}
  BY <1>1 DEF Gives
<1> QED BY <1>2, <1>7, <1>8 DEF S

LEMMA LateGives ==
    ASSUME NEW b \in BOOLEAN, NEW u \in Running(b), NEW P, Gives(u, P)
    PROVE  P \in Seq(Running(b))
<1> DEFINE e == LateSteps(b)
           D == LateObjects(b)
<1>0. /\ e \in SUBSET {"ready", "revalidate"} /\ D \in SUBSET Names
      /\ SandboxObjects \subseteq D /\ Running(b) = BusyOver(e, D)
  BY LateIsLight
<1> HIDE DEF e, D
<1>1. CASE u \in LightOver(e, D)
  BY <1>0, <1>1, OverGives, ClassesOver
<1>2. CASE u \in Heavy
  BY <1>0, <1>2, HeavyGives
<1> QED BY <1>0, <1>1, <1>2 DEF BusyOver

LEMMA PlainGivesNothing ==
    ASSUME NEW u, NEW P, Gives(u, P),
           u.do \in {"except", "classify", "revoke", "cleaned", "create", "ready", "host",
                     "remove", "release", "command", "exits", "discard", "revalidate"}
    PROVE  P = <<>>
  BY DEF Gives

LEMMA LendingGives ==
    ASSUME NEW u \in Lending, NEW P, Gives(u, P)
    PROVE  P \in Seq(Lending)
<1>1. /\ Running(TRUE) \subseteq Lending /\ Trial(TRUE) \in Lending
      /\ Judging(TRUE) \in Lending /\ Classifying \in Lending
  BY DEF Lending
<1>2. Seq(Running(TRUE)) \subseteq Seq(Lending)
      /\ Seq(Running(TRUE) \cup {Classifying}) \subseteq Seq(Lending)
  BY <1>1, SeqMonotonic
<1>3. CASE u \in Running(TRUE)
  BY <1>2, <1>3, LateGives
<1>4. CASE u \in {ExceptEC, Classifying}
  <2>1. u.do \in {"except", "classify"}
    BY <1>4 DEF ExceptEC, Classifying
  <2>2. P = <<>>
    BY <2>1, PlainGivesNothing
  <2> QED BY <2>2
<1>5. CASE u = Trial(TRUE)
  <2>1. u.do = "try"
    BY <1>5, TrialEntered
  <2>2. P = Entered(Trial(TRUE))
    BY <1>5, <2>1 DEF Gives
  <2>3. PICK p : /\ Entered(Trial(TRUE)) = p \o (<<Judging(TRUE)>> \o <<FinSC>>)
                 /\ p \in Seq(Running(TRUE))
    BY TrialEntered
  <2>4. FinSC \in Running(TRUE)
    <3>1. SandboxCleanup \in Seq(Tidying(LateObjects(TRUE)))
      BY LateIsLight, CleanupIsTidying
    <3>2. FinSC \in LightOver(LateSteps(TRUE), LateObjects(TRUE))
      BY <3>1 DEF FinSC, LightOver
    <3> QED BY <3>2 DEF Running
  <2>5. <<Judging(TRUE)>> \in Seq(Lending) /\ <<FinSC>> \in Seq(Lending)
    <3> DEFINE k == Judging(TRUE)
    <3>1. k \in Lending /\ FinSC \in Lending
      BY <1>1, <2>4
    <3> HIDE DEF k
    <3>2. <<k>> \in Seq(Lending) /\ <<FinSC>> \in Seq(Lending)
      BY <3>1, OneOf, Zenon
    <3> QED BY <3>2 DEF k
  <2> DEFINE a == <<Judging(TRUE)>>
             h == <<FinSC>>
  <2> HIDE DEF a, h
  <2>6. a \o h \in Seq(Lending) /\ p \in Seq(Lending)
    BY <1>2, <2>3, <2>5, Joined DEF a, h
  <2>7. p \o (a \o h) \in Seq(Lending)
    BY <2>6, Joined
  <2> QED BY <2>2, <2>3, <2>7 DEF a, h
<1>6. CASE u = Judging(TRUE)
  BY <1>2, <1>6, JudgingGives
<1> QED BY <1>3, <1>4, <1>5, <1>6 DEF Lending

LEMMA PreparingGives ==
    ASSUME NEW u \in Preparing, NEW P, Gives(u, P)
    PROVE  P \in Seq(Preparing)
<1>1. CASE u \in LightOver({}, Others)
  BY <1>1, PreparingClasses, OverGives
<1>2. CASE u = Create("dependencies")
  <2>1. u.do = "create"
    BY <1>2 DEF Create
  <2>2. P = <<>>
    BY <2>1, PlainGivesNothing
  <2> QED BY <2>2
<1> QED BY <1>1, <1>2 DEF Preparing

LEMMA PrepareGives ==
    \E s \in Seq(Preparing) :
        /\ Entered(PrepTry) = (s \o LastSteps) \o <<ExceptEC>> /\ Makes(s)
<1>1. PICK s \in Seq(Preparing) : Prepare = s \o LastSteps /\ Makes(s)
  BY PrepareMakes
<1>2. /\ PrepTry.body = Prepare /\ PrepTry.handler = "except"
      /\ PrepTry.then = ExecutorCleanup
  BY DEF PrepTry
<1>3. [do |-> PrepTry.handler, then |-> PrepTry.then] = ExceptEC
  BY <1>2 DEF ExceptEC
<1> DEFINE h == [do |-> PrepTry.handler, then |-> PrepTry.then]
           x == PrepTry
<1>4. Entered(x) = x.body \o <<h>>
  BY DEF Entered
<1> HIDE DEF h, x
<1>5. x.body = Prepare /\ h = ExceptEC
  BY <1>2, <1>3 DEF x, h
<1> QED BY <1>1, <1>4, <1>5 DEF x

LEMMA CoreGives ==
    ASSUME NEW b \in BOOLEAN, NEW u \in Core(b), NEW P, Gives(u, P)
    PROVE  P \in Seq(Core(b))
<1> DEFINE e == Steps(b)
           D == Owned(b)
<1>0. e \in SUBSET {"ready", "revalidate"} /\ D \in SUBSET Names /\ SandboxObjects \subseteq D
  BY StepsAndNames
<1>1. /\ LightOver(e, D) \subseteq Core(b) /\ BusyOver(e, D) \subseteq Core(b)
      /\ Running(b) \cup {Classifying} \subseteq Core(b)
  <2>1. LightOver(LateSteps(b), LateObjects(b)) \subseteq LightOver(e, D)
    BY LateIsLight
  <2> QED BY <2>1 DEF Core, BusyOver, Running
<1>2. /\ Seq(LightOver(e, D)) \subseteq Seq(Core(b)) /\ Seq(BusyOver(e, D)) \subseteq Seq(Core(b))
      /\ Seq(Running(b) \cup {Classifying}) \subseteq Seq(Core(b))
  BY <1>1, SeqMonotonic
<1> HIDE DEF e, D
<1>3. CASE u \in LightOver(e, D)
  BY <1>0, <1>2, <1>3, OverGives
<1>4. CASE u \in Heavy
  BY <1>0, <1>2, <1>4, HeavyGives
<1>5. CASE u = Judging(b)
  BY <1>2, <1>5, JudgingGives
<1>6. CASE u \in {ExceptEC, Classifying}
  <2>1. u.do \in {"except", "classify"}
    BY <1>6 DEF ExceptEC, Classifying
  <2>2. P = <<>>
    BY <2>1, PlainGivesNothing
  <2> QED BY <2>2
<1>7. CASE b = TRUE /\ u = PrepTry
  <2>1. u.do = "try"
    BY <1>7 DEF PrepTry
  <2>2. P = Entered(PrepTry)
    BY <1>7, <2>1 DEF Gives
  <2>3. PICK s \in Seq(Preparing) : Entered(PrepTry) = (s \o LastSteps) \o <<ExceptEC>>
    BY PrepareGives
  <2>4. e = {"ready", "revalidate"} /\ D = Names
    BY <1>7, StepsAndNames DEF e, D
  <2>5. Preparing \subseteq LightOver(e, D)
    <3>1. Others \subseteq D /\ {} \subseteq e
      BY <2>4 DEF Others
    <3>2. LightOver({}, Others) \subseteq LightOver(e, D)
      BY <3>1, OverGrows
    <3>3. Create("dependencies") \in SimpleOver(e, D)
      BY <2>4, AllNamed, StepsAreSimple
    <3> QED BY <3>2, <3>3, ClassesOver DEF Preparing
  <2>6. LastSteps \in Seq(LightOver(e, D))
    <3> DEFINE S == LightOver(e, D)
               p == Remove("input")
               q == Remove("wheelhouse")
               r == Host(None)
               v == Ready
    <3>1. p \in S /\ q \in S /\ r \in S
      <4>1. p \in SimpleOver(e, D) /\ q \in SimpleOver(e, D) /\ r \in SimpleOver(e, D)
        BY <2>4, AllNamed, StepsAreSimple DEF Files
      <4> QED BY <4>1, ClassesOver
    <3>2. v \in S
      <4>1. v \in SimpleOver(e, D)
        BY <2>4 DEF SimpleOver, Ready
      <4> QED BY <4>1, ClassesOver
    <3>3. LastSteps = <<p, q, r, v>>
      BY DEF LastSteps
    <3> HIDE DEF S, p, q, r, v
    <3>4. LastSteps \in Seq(S)
      BY <3>1, <3>2, <3>3
    <3> QED BY <3>4 DEF S
  <2>7. s \in Seq(Core(b)) /\ LastSteps \in Seq(Core(b)) /\ <<ExceptEC>> \in Seq(Core(b))
    <3>1. s \in Seq(LightOver(e, D))
      BY <2>3, <2>5, SeqMonotonic
    <3>2. ExceptEC \in Core(b)
      BY <1>7 DEF Core
    <3>3. <<ExceptEC>> \in Seq(Core(b))
      BY <3>2, OneOf, Zenon
    <3> QED BY <1>2, <2>6, <3>1, <3>3
  <2> DEFINE h == <<ExceptEC>>
             C == Core(b)
  <2> HIDE DEF h, C
  <2>8. (s \o LastSteps) \o h \in Seq(C)
    <3>1. s \o LastSteps \in Seq(C)
      BY <2>7, Joined DEF C
    <3> QED BY <2>7, <3>1, Joined DEF C, h
  <2> QED BY <2>2, <2>3, <2>8 DEF h, C
<1>8. \/ u \in LightOver(e, D) \/ u \in Heavy \/ u = Judging(b) \/ u \in {ExceptEC, Classifying}
      \/ b = TRUE /\ u = PrepTry
  BY DEF Core, e, D
<1> QED BY <1>3, <1>4, <1>5, <1>6, <1>7, <1>8

LEMMA BarrenKinds ==
    ASSUME NEW b \in BOOLEAN, NEW u \in Barren(b)
    PROVE  /\ u.do \in {"remove", "release", "cleanup", "sweep", "discard", "finally", "except",
                        "host", "revoke", "cleaned"}
           /\ u.do = "cleanup" => u.objs \subseteq Names
           /\ u.do = "sweep" => u.left \subseteq Names /\ u.ok \in BOOLEAN
           /\ u.do \in {"finally", "except"} => u.then \in Seq(Barren(b))
           /\ u.do = "discard" => u.file \in Files
           /\ b = FALSE => u.do \notin {"revoke", "cleaned"}
<1>1. Tidying(Names) \subseteq Barren(b)
  BY DEF Barren
<1>2. Seq(Tidying(Names)) \subseteq Seq(Barren(b))
  BY <1>1, SeqMonotonic
<1>3. CASE u \in Tidying(Names)
  BY <1>3, TidyingKinds
<1>4. CASE u \in [do : {"finally", "except"}, then : Seq(Tidying(Names))]
  <2>1. u.do \in {"finally", "except"} /\ u.then \in Seq(Tidying(Names))
    BY <1>4
  <2> QED BY <1>2, <2>1
<1>5. CASE u \in [do : {"host"}, file : Files \cup {"report"}]
  BY <1>5
<1>6. CASE b = TRUE /\ u \in {FinEC, Revoke, Cleaned}
  <2>1. CASE u = FinEC
    <3>1. u.do = "finally" /\ u.then = ExecutorCleanup
      BY <2>1 DEF FinEC
    <3>2. ExecutorCleanup \in Seq(Barren(b))
      <4> DEFINE p == Revoke
                 q == Cleanup(ExecutorObjects)
                 r == Cleaned
                 S == Barren(b)
      <4>1. p \in S /\ r \in S
        BY <1>6 DEF Barren
      <4>2. q \in S
        <5>1. q \in Tidying(Names)
          BY AllNamed, StepsAreSimple
        <5> QED BY <1>1, <5>1
      <4>3. ExecutorCleanup = <<p, q, r>>
        BY DEF ExecutorCleanup, Cleaned
      <4> HIDE DEF p, q, r, S
      <4>4. ExecutorCleanup \in Seq(S)
        BY <4>1, <4>2, <4>3
      <4> QED BY <4>4 DEF S
    <3> QED BY <1>6, <3>1, <3>2
  <2>2. CASE u \in {Revoke, Cleaned}
    <3>1. u.do \in {"revoke", "cleaned"}
      BY <2>2 DEF Revoke, Cleaned
    <3> QED BY <1>6, <3>1
  <2> QED BY <1>6, <2>1, <2>2
<1> QED BY <1>3, <1>4, <1>5, <1>6 DEF Barren

LEMMA BarrenGives ==
    ASSUME NEW b \in BOOLEAN, NEW u \in Barren(b), NEW P, Gives(u, P)
    PROVE  P \in Seq(Barren(b))
<1>1. /\ u.do \in {"remove", "release", "cleanup", "sweep", "discard", "finally", "except",
                   "host", "revoke", "cleaned"}
      /\ u.do = "cleanup" => u.objs \subseteq Names
      /\ u.do = "sweep" => u.left \subseteq Names /\ u.ok \in BOOLEAN
      /\ u.do \in {"finally", "except"} => u.then \in Seq(Barren(b))
  BY BarrenKinds
<1>2. ASSUME NEW left \in SUBSET Names, NEW ok \in BOOLEAN
      PROVE  <<Sweeping(left, ok)>> \in Seq(Barren(b))
  <2>1. Sweeping(left, ok) \in Tidying(Names)
    BY SweepIsTidying
  <2>2. Sweeping(left, ok) \in Barren(b)
    BY <2>1 DEF Barren
  <2> QED BY <2>2
<1>3. CASE u.do = "finally" /\ P = u.then
  BY <1>1, <1>3
<1>4. CASE u.do = "cleanup" /\ \E left \in SUBSET u.objs : P = <<Sweeping(left, TRUE)>>
  BY <1>1, <1>2, <1>4
<1>5. CASE u.do = "sweep" /\ \E left \in SUBSET u.left, ok \in {u.ok, FALSE} :
                                P = <<Sweeping(left, ok)>>
  BY <1>1, <1>2, <1>5
<1>6. CASE P = <<>>
  BY <1>6
<1> QED BY <1>1, <1>3, <1>4, <1>5, <1>6 DEF Gives

----------------------------------------------------------------------------
(* An exception that is under way: the rest of the handler that runs, and  *)
(* then the exception again.                                               *)
Any(b) == Busy(b) \cup Keys(b)
Falling == Tidying(Names) \cup {Revoke, Cleaned}
Falls(b, s) ==
    \E p \in Seq(Falling), u \in Any(b), w \in Seq(Any(b)) :
        u.do \in {"raise", "raised"} /\ s = Path(p, u, w)

LEMMA PathParts ==
    ASSUME NEW S, NEW x \in Seq(S), NEW k \in S, NEW y \in Seq(S)
    PROVE  /\ Path(x, k, y) \in Seq(S) /\ Path(x, k, y) # <<>>
           /\ x = <<>> => Head(Path(x, k, y)) = k /\ Tail(Path(x, k, y)) = y
           /\ x # <<>> => /\ Head(Path(x, k, y)) = Head(x) /\ Head(x) \in S
                          /\ Tail(Path(x, k, y)) = Path(Tail(x), k, y) /\ Tail(x) \in Seq(S)
<1> DEFINE r == <<k>> \o y
           t == x \o r
<1>1. r \in Seq(S) /\ r # <<>> /\ Head(r) = k /\ Tail(r) = y
  BY FirstOfOne
<1> HIDE DEF r
<1>2. t \in Seq(S)
  BY <1>1, Joined
<1>3. x # <<>> => /\ t # <<>> /\ Head(t) = Head(x) /\ Head(x) \in S
                  /\ Tail(t) = Tail(x) \o r /\ Tail(x) \in Seq(S)
  BY <1>1, FirstOfTwo
<1>4. x = <<>> => t = r
  <2>1. <<>> \o r = r
    BY <1>1, ConcatEmptySeq
  <2> QED BY <2>1
<1> HIDE DEF t
<1>5. Path(x, k, y) = t
  BY DEF Path, t, r
<1>6. t # <<>> /\ (x = <<>> => Head(t) = k /\ Tail(t) = y)
  BY <1>1, <1>3, <1>4
<1>7. x # <<>> => Path(Tail(x), k, y) = Tail(x) \o r
  BY DEF Path, r
<1> QED BY <1>2, <1>3, <1>5, <1>6, <1>7

(* One sequence before another.                                            *)
Before(p, s) == p \o s

LEMMA BeforeStays ==
    ASSUME NEW S, NEW p \in Seq(S), NEW s \in Seq(S)
    PROVE  Before(p, s) \in Seq(S)
  BY Joined DEF Before

LEMMA PathGrows ==
    ASSUME NEW S, NEW p \in Seq(S), NEW x \in Seq(S), NEW k \in S, NEW y \in Seq(S)
    PROVE  Before(p, Path(x, k, y)) = Path(Before(p, x), k, y)
<1> DEFINE r == <<k>> \o y
<1>1. r \in Seq(S)
  BY FirstOfOne
<1> HIDE DEF r
<1>2. p \o (x \o r) = (p \o x) \o r
  BY <1>1, AddedBefore
<1> QED BY <1>2 DEF Path, Before, r

LEMMA ExecutorCleanupFalls == ExecutorCleanup \in Seq(Falling)
<1> DEFINE p == Revoke
           q == Cleanup(ExecutorObjects)
           r == Cleaned
           S == Falling
<1>1. p \in S /\ r \in S
  BY DEF Falling
<1>2. q \in S
  <2>1. q \in Tidying(Names)
    BY AllNamed, StepsAreSimple
  <2> QED BY <2>1 DEF Falling
<1>3. ExecutorCleanup = <<p, q, r>>
  BY DEF ExecutorCleanup, Cleaned
<1> HIDE DEF p, q, r, S
<1>4. ExecutorCleanup \in Seq(S)
  BY <1>1, <1>2, <1>3
<1> QED BY <1>4 DEF S

LEMMA HandlersTidy ==
    ASSUME NEW b \in BOOLEAN, NEW u \in Any(b)
    PROVE  /\ u.do # "catch"
           /\ u.do \in {"finally", "except"} => u.then \in Seq(Any(b)) /\ u.then \in Seq(Falling)
<1>0. Seq(Light(b)) \subseteq Seq(Any(b)) /\ Seq(Tidying(Names)) \subseteq Seq(Falling)
  <2>1. Light(b) \subseteq Any(b) /\ Tidying(Names) \subseteq Falling
    BY Classes DEF Any, Falling
  <2> QED BY <2>1, SeqMonotonic
<1>1. CASE u \in Keys(b)
  BY <1>1, KeyKinds
<1>2. CASE u \in Heavy
  BY <1>2, HeavyKinds DEF Attach
<1>3. CASE u \in Light(b)
  <2>1. u.do # "catch" /\ (u.do \in {"finally", "except"} => u.then \in Seq(Light(b)))
    BY <1>3, LightKinds
  <2>2. ASSUME u.do \in {"finally", "except"} PROVE u.then \in Seq(Falling)
    <3>1. CASE u \in LightOver(Steps(b), Owned(b))
      <4>1. u.then \in Seq(Tidying(Owned(b)))
        BY <2>2, <3>1, StepsAndNames, OverKinds
      <4>2. Seq(Tidying(Owned(b))) \subseteq Seq(Tidying(Names))
        BY StepsAndNames, TidyingGrows
      <4> QED BY <1>0, <4>1, <4>2
    <3>2. CASE u \in {PrepTry, Revoke, Cleaned, Filing}
      <4>1. u.do \in {"try", "revoke", "cleaned", "host"}
        BY <3>2 DEF PrepTry, Revoke, Cleaned, Filing, Host
      <4> QED BY <2>2, <4>1
    <3>3. CASE u \in {ExceptEC, FinEC}
      <4>1. u.then = ExecutorCleanup
        BY <3>3 DEF ExceptEC, FinEC
      <4> QED BY <4>1, ExecutorCleanupFalls
    <3> QED BY <1>3, <3>1, <3>2, <3>3 DEF Light
  <2> QED BY <1>0, <2>1, <2>2
<1> QED BY <1>1, <1>2, <1>3 DEF Any, Busy

LEMMA RaisesAreAny ==
    ASSUME NEW b \in BOOLEAN
    PROVE  Raise \in Any(b) /\ [do |-> "raised"] \in Any(b)
<1>1. Raise \in SimpleOver(Steps(b), Owned(b))
      /\ [do |-> "raised"] \in SimpleOver(Steps(b), Owned(b))
  BY DEF SimpleOver, Raise
<1> QED BY <1>1, ClassesOver, Classes DEF Any

LEMMA UnwoundFalls ==
    ASSUME NEW b \in BOOLEAN, NEW s \in Seq(Any(b))
    PROVE  Falls(b, Unwound(s))
<1>0. <<>> \in Seq(Falling) /\ <<>> \in Seq(Any(b))
  OBVIOUS
<1>1. CASE Handlers(s) = {}
  <2> DEFINE u == [do |-> "raised"]
             e == <<>>
  <2>1. Unwound(s) = <<u>>
    BY <1>1 DEF Unwound, Raised
  <2>2. u \in Any(b) /\ u.do = "raised"
    BY RaisesAreAny
  <2> HIDE DEF u
  <2>3. <<u>> = Path(<<>>, u, <<>>)
    <3>1. <<u>> \in Seq({u})
      OBVIOUS
    <3> DEFINE one == <<u>>
    <3> HIDE DEF one
    <3>2. one \o <<>> = one /\ <<>> \o one = one
      BY <3>1, ConcatEmptySeq DEF one
    <3> QED BY <3>2 DEF one, Path
  <2>4. Unwound(s) = Path(e, u, e) /\ e \in Seq(Falling) /\ e \in Seq(Any(b))
    BY <1>0, <2>1, <2>3
  <2> HIDE DEF e
  <2> QED BY <2>2, <2>4 DEF Falls
<1>2. CASE Handlers(s) # {}
  <2>1. \A v \in Any(b) : /\ v.do # "catch"
                          /\ v.do \in {"finally", "except"} => v.then \in Seq(Any(b))
    BY HandlersTidy
  <2>2. Raise \in Any(b)
    BY RaisesAreAny
  <2>3. PICK i \in 1 .. Len(s) :
                 /\ s[i].do \in {"finally", "except"} /\ s[i].then \in Seq(Any(b))
                 /\ SubSeq(s, i + 1, Len(s)) \in Seq(Any(b))
                 /\ Unwound(s) = (s[i].then \o <<Raise>>) \o SubSeq(s, i + 1, Len(s))
    BY <1>0, <1>2, <2>1, <2>2, UnwoundWithin
  <2> DEFINE p == s[i].then
             w == SubSeq(s, i + 1, Len(s))
  <2>4. p \in Seq(Falling)
    <3>1. s[i] \in Any(b)
      BY ElementOfSeq
    <3> QED BY <2>3, <3>1, HandlersTidy
  <2>5. p \in Seq(Any(b)) /\ w \in Seq(Any(b)) /\ <<Raise>> \in Seq(Any(b))
    BY <2>2, <2>3
  <2>6. Unwound(s) = (p \o <<Raise>>) \o w
    BY <2>3
  <2> HIDE DEF p, w
  <2>7. Unwound(s) = Path(p, Raise, w)
    <3> DEFINE one == <<Raise>>
    <3> HIDE DEF one
    <3>1. (p \o one) \o w = p \o (one \o w)
      BY <2>5, SetApart DEF one
    <3> QED BY <2>6, <3>1 DEF Path, one
  <2>8. Raise.do = "raise"
    BY DEF Raise
  <2> QED BY <2>2, <2>4, <2>5, <2>7, <2>8 DEF Falls
<1> QED BY <1>1, <1>2

LEMMA FallingGives ==
    ASSUME NEW u \in Falling, NEW P, Gives(u, P)
    PROVE  P \in Seq(Falling)
<1>1. Tidying(Names) \subseteq Falling
  BY DEF Falling
<1>2. ASSUME NEW left \in SUBSET Names, NEW ok \in BOOLEAN
      PROVE  <<Sweeping(left, ok)>> \in Seq(Falling)
  <2>1. Sweeping(left, ok) \in Falling
    BY <1>1, SweepIsTidying
  <2> QED BY <2>1
<1>3. CASE u \in Tidying(Names)
  <2>1. /\ u.do \in {"remove", "release", "cleanup", "sweep", "discard"}
        /\ u.do = "cleanup" => u.objs \subseteq Names
        /\ u.do = "sweep" => u.left \subseteq Names /\ u.ok \in BOOLEAN
    BY <1>3, TidyingKinds
  <2>2. CASE u.do = "cleanup" /\ \E left \in SUBSET u.objs : P = <<Sweeping(left, TRUE)>>
    BY <1>2, <2>1, <2>2
  <2>3. CASE u.do = "sweep" /\ \E left \in SUBSET u.left, ok \in {u.ok, FALSE} :
                                  P = <<Sweeping(left, ok)>>
    BY <1>2, <2>1, <2>3
  <2>4. CASE P = <<>>
    BY <2>4
  <2> QED BY <2>1, <2>2, <2>3, <2>4 DEF Gives
<1>4. CASE u \in {Revoke, Cleaned}
  <2>1. u.do \in {"revoke", "cleaned"}
    BY <1>4 DEF Revoke, Cleaned
  <2>2. P = <<>>
    BY <2>1, PlainGivesNothing
  <2> QED BY <2>2
<1> QED BY <1>3, <1>4 DEF Falling

LEMMA FallingKinds ==
    ASSUME NEW u \in Falling
    PROVE  u.do \in {"remove", "release", "cleanup", "sweep", "discard", "revoke", "cleaned"}
<1>1. CASE u \in Tidying(Names)
  BY <1>1, TidyingKinds
<1>2. CASE u \in {Revoke, Cleaned}
  BY <1>2 DEF Revoke, Cleaned
<1> QED BY <1>1, <1>2 DEF Falling

LEMMA FallsParts ==
    ASSUME NEW b \in BOOLEAN, NEW p \in Seq(Falling), NEW u \in Any(b), NEW w \in Seq(Any(b)),
           u.do \in {"raise", "raised"}
    PROVE  /\ Path(p, u, w) # <<>>
           /\ p = <<>> => Head(Path(p, u, w)) = u /\ Tail(Path(p, u, w)) = w
           /\ p # <<>> => Head(Path(p, u, w)) \in Falling
           /\ \A q \in Seq(Falling) : p # <<>> => Falls(b, Before(q, Tail(Path(p, u, w))))
           /\ p # <<>> => Tail(Path(p, u, w)) \in Seq(Falling \cup Any(b))
<1>1. PICK S : S = Falling \cup Any(b)
  OBVIOUS
<1>2. Seq(Falling) \subseteq Seq(S) /\ Seq(Any(b)) \subseteq Seq(S) /\ u \in S
  <2>1. Falling \subseteq S /\ Any(b) \subseteq S
    BY <1>1
  <2> QED BY <2>1, SeqMonotonic
<1>3. p \in Seq(S) /\ w \in Seq(S)
  BY <1>2
<1>4. /\ Path(p, u, w) \in Seq(S) /\ Path(p, u, w) # <<>>
      /\ p = <<>> => Head(Path(p, u, w)) = u /\ Tail(Path(p, u, w)) = w
      /\ p # <<>> => /\ Head(Path(p, u, w)) = Head(p) /\ Head(p) \in S
                     /\ Tail(Path(p, u, w)) = Path(Tail(p), u, w) /\ Tail(p) \in Seq(S)
  <2>1. p \in Seq(S) /\ u \in S /\ w \in Seq(S)
    BY <1>2, <1>3
  <2> QED BY <2>1, PathParts
<1>5. ASSUME p # <<>> PROVE Head(p) \in Falling /\ Tail(p) \in Seq(Falling)
  BY <1>5, HeadTailProperties
<1>6. ASSUME NEW q \in Seq(Falling), p # <<>>
      PROVE  Falls(b, Before(q, Tail(Path(p, u, w))))
  <2> DEFINE r == Tail(p)
  <2>1. r \in Seq(Falling) /\ r \in Seq(S) /\ q \in Seq(S)
    BY <1>2, <1>5, <1>6
  <2>2. Tail(Path(p, u, w)) = Path(r, u, w)
    BY <1>4, <1>6
  <2> HIDE DEF r
  <2>3. Before(q, r) \in Seq(Falling)
    BY <2>1, BeforeStays
  <2>4. Before(q, Path(r, u, w)) = Path(Before(q, r), u, w)
    <3>1. q \in Seq(S) /\ r \in Seq(S) /\ u \in S /\ w \in Seq(S)
      BY <1>2, <1>3, <2>1
    <3> QED BY <3>1, PathGrows
  <2> QED BY <2>2, <2>3, <2>4 DEF Falls
<1>7. p # <<>> => Tail(Path(p, u, w)) \in Seq(S)
  BY <1>4, HeadTailProperties
<1> QED BY <1>1, <1>4, <1>5, <1>6, <1>7

(* While an exception is under way nothing is created or filed.            *)
LEMMA FallsNow ==
    ASSUME NEW b \in BOOLEAN, Falls(b, todo)
    PROVE  /\ todo # <<>>
           /\ Now.do \in {"raise", "raised"} \/ Now \in Falling
           /\ Now.do \in {"raise", "raised", "remove", "release", "cleanup", "sweep", "discard",
                          "revoke", "cleaned"}
<1>1. PICK p \in Seq(Falling), u \in Any(b), w \in Seq(Any(b)) :
        u.do \in {"raise", "raised"} /\ todo = Path(p, u, w)
  BY DEF Falls
<1>2. /\ Path(p, u, w) # <<>>
      /\ p = <<>> => Head(Path(p, u, w)) = u /\ Tail(Path(p, u, w)) = w
      /\ p # <<>> => Head(Path(p, u, w)) \in Falling
  BY <1>1, FallsParts
<1>3. todo # <<>> /\ (Now.do \in {"raise", "raised"} \/ Now \in Falling)
  BY <1>1, <1>2 DEF Now
<1> QED BY <1>3, FallingKinds

LEMMA FallsOn ==
    ASSUME NEW b \in BOOLEAN, Falls(b, todo), todo \in Seq(Any(b)), [Next]_vars
    PROVE  /\ Falls(b, todo)'
           /\ existing' \subseteq existing \/ Waits
           /\ registered' \subseteq registered
           /\ files' \subseteq files
           /\ Now.do \notin {"revoke", "cleaned"} => handle' = handle
<1>1. /\ todo # <<>>
      /\ Now.do \in {"raise", "raised"} \/ Now \in Falling
      /\ Now.do \in {"raise", "raised", "remove", "release", "cleanup", "sweep", "discard",
                     "revoke", "cleaned"}
  BY FallsNow
<1>2. Waits \/ Throws \/ \E P : GoesBy(P)
  BY StepKinds
<1>3. CASE Waits
  BY <1>3 DEF Waits
<1>4. CASE Throws
  <2>1. Rest \in Seq(Any(b))
    BY <1>1 DEF Rest
  <2>2. Falls(b, Unwound(Rest))
    BY <2>1, UnwoundFalls
  <2>3. Effects /\ todo' = Unwound(Rest) /\ Brought = {}
    BY <1>1, <1>4 DEF Throws, Brought
  <2> QED BY <1>1, <1>4, <2>2, <2>3 DEF Effects, Throws
<1>5. ASSUME NEW P, GoesBy(P) 
      PROVE  /\ Falls(b, todo)' /\ existing' \subseteq existing /\ registered' \subseteq registered
             /\ files' \subseteq files
             /\ Now.do \notin {"revoke", "cleaned"} => handle' = handle
  <2>1. Effects /\ todo' = P \o Rest /\ Gives(Now, P) /\ Brought = {}
    BY <1>1, <1>5 DEF GoesBy, Brought
  <2>2. Now.do \notin {"raise", "raised"}
    BY <2>1 DEF Gives
  <2>3. Now \in Falling /\ P \in Seq(Falling)
    BY <1>1, <2>1, <2>2, FallingGives
  <2>4. PICK p \in Seq(Falling), u \in Any(b), w \in Seq(Any(b)) :
          u.do \in {"raise", "raised"} /\ todo = Path(p, u, w)
    BY DEF Falls
  <2>5. /\ p = <<>> => Head(Path(p, u, w)) = u /\ Tail(Path(p, u, w)) = w
        /\ \A q \in Seq(Falling) : p # <<>> => Falls(b, Before(q, Tail(Path(p, u, w))))
    BY <2>4, FallsParts
  <2>6. p # <<>>
    BY <2>2, <2>4, <2>5 DEF Now
  <2>7. Falls(b, Before(P, Rest))
    BY <2>3, <2>4, <2>5, <2>6 DEF Rest
  <2> QED BY <1>1, <2>1, <2>7 DEF Effects, Before
<1> QED BY <1>2, <1>3, <1>4, <1>5

LEMMA BoundIsSequence ==
    ASSUME NEW b \in BOOLEAN, Bound(b)
    PROVE  todo \in Seq(Any(b))
<1>0. Busy(b) \subseteq Any(b) /\ Light(b) \subseteq Any(b) /\ Keys(b) \subseteq Any(b)
  BY Classes DEF Any
<1>1. Seq(Busy(b)) \subseteq Seq(Any(b)) /\ Seq(Light(b)) \subseteq Seq(Any(b))
  BY <1>0, SeqMonotonic
<1>2. CASE todo \in Seq(Light(b))
  BY <1>1, <1>2
<1>3. CASE Planned(b, todo, collection, runs, handle)
  <2>1. PICK x \in Seq(Busy(b)), k \in Keys(b), y \in Seq(Light(b)) : todo = Path(x, k, y)
    BY <1>3 DEF Planned
  <2>2. x \in Seq(Any(b)) /\ k \in Any(b) /\ y \in Seq(Any(b))
    BY <1>0, <1>1, <2>1
  <2>3. Path(x, k, y) \in Seq(Any(b))
    BY <2>2, PathParts
  <2> QED BY <2>1, <2>3
<1> QED BY <1>2, <1>3 DEF Bound

----------------------------------------------------------------------------
(* What a step that neither waits nor throws does in particular.           *)
Details ==
    /\ Now.do = "cleanup" => /\ todo' = Before(<<Sweeping(Now.objs \cap registered, TRUE)>>, Rest)
                             /\ registered' = registered
    /\ Now.do = "sweep" =>
          \/ \E o \in Now.left, ok \in {Now.ok, FALSE} :
                /\ todo' = Before(<<Sweeping(Now.left \ {o}, ok)>>, Rest)
                /\ ok = FALSE \/ o \notin registered'
          \/ Now.left = {} /\ Now.ok = TRUE /\ todo' = Rest /\ registered' = registered
    /\ Now.do = "remove" => Now.obj \notin existing'
    /\ Now.do = "create" => Now.obj \in existing'
    /\ Now.do = "ready" => handle' = "ready" /\ existing' = existing
    /\ Now.do = "revoke" => /\ handle' = IF handle = "cleaned" THEN "cleaned" ELSE "failed"
                            /\ registered' = registered
    /\ Now.do = "cleaned" => handle' = "cleaned" /\ registered' = registered
    /\ Now.do \in {"judge", "judge-differential"} =>
          verdict' # None \/ todo' = Before(Following(Now.do) \o Classify, Rest)
    /\ Now.do = "classify" /\ handle = None => verdict' = ClassifyBase(runs)

LEMMA DetailsOnlyOf ==
    ASSUME Now.do \in {"try", "finally", "except", "catch", "command", "release", "exits",
                       "attach", "host", "discard", "revalidate", "raise"}
    PROVE  Details
  BY DEF Details

LEMMA OwnershipDetails ==
    ASSUME Ownership
    PROVE  Waits \/ Throws \/ Details
<1>0. DockerNext /\ UNCHANGED outcomeVars
  BY DEF Ownership
<1>1. UNCHANGED <<files, verdict, handle>>
  BY <1>0 DEF outcomeVars
<1> USE DEF engineVars, Doing, Brought, Taken
<1>2. CASE EnterTry \/ LeaveTry \/ Reraise \/ CommandSucceeds \/ CommandFails \/ SkipRelease
  <2>1. CASE Doing("remove") \/ Doing("create")
    BY <1>2, <2>1 DEF EnterTry, LeaveTry, Reraise, CommandSucceeds, CommandFails, SkipRelease, Skips
  <2> QED BY <1>2, <2>1, DetailsOnlyOf
      DEF EnterTry, LeaveTry, Reraise, CommandSucceeds, CommandFails, SkipRelease, Skips
<1>3. CASE CreateSucceeds
  BY <1>3 DEF CreateSucceeds, Details
<1>4. CASE \E effect \in {"done", "later", "never"} : CreateFails(effect)
  BY <1>1, <1>4 DEF CreateFails, Effects, Throws
<1>5. CASE \E o \in Objects : Arrive(o)
  BY <1>1, <1>5 DEF Arrive, Waits
<1>6. CASE RemovalSucceeds
  <2>1. Now.do \in {"remove", "release"} /\ Now.obj \notin existing'
    BY <1>6 DEF RemovalSucceeds, Removes, Drop
  <2> QED BY <2>1 DEF Details
<1>7. CASE RemovalFails
  <2>1. /\ existing' \subseteq existing /\ registered' \subseteq registered
        /\ existing \ existing' \subseteq {Now.obj} \cup Containers
    BY <1>7, FailedRemovalTakes DEF RemovalFails
  <2> QED BY <1>1, <1>7, <2>1 DEF RemovalFails, Removes, Effects, Throws
<1>8. CASE StartSweep
  <2>1. Now.do = "cleanup" /\ registered' = registered
    BY <1>8 DEF StartSweep
  <2>2. todo' = Before(<<Sweeping(Now.objs \cap registered, TRUE)>>, Rest)
    BY <1>8 DEF StartSweep, Before
  <2> QED BY <2>1, <2>2 DEF Details
<1>9. ASSUME NEW o \in Objects, SweepSucceeds(o) PROVE Details
  <2>1. Now.do = "sweep" /\ o \in Now.left /\ o \notin registered'
    BY <1>9 DEF SweepSucceeds, NextToSweep, Drop
  <2>2. todo' = Before(<<Sweeping(Now.left \ {o}, Now.ok)>>, Rest)
    BY <1>9 DEF SweepSucceeds, Before
  <2> QED BY <2>1, <2>2 DEF Details
<1>10. ASSUME NEW o \in Objects, SweepFails(o) PROVE Details
  <2>1. Now.do = "sweep" /\ o \in Now.left
    BY <1>10 DEF SweepFails, NextToSweep
  <2>2. todo' = Before(<<Sweeping(Now.left \ {o}, FALSE)>>, Rest)
    BY <1>10 DEF SweepFails, Before
  <2> QED BY <2>1, <2>2 DEF Details
<1>11. CASE EndSweep
  <2>1. Now.do = "sweep" /\ Now.left = {} /\ registered' = registered
    BY <1>11 DEF EndSweep
  <2>2. CASE Now.ok = TRUE /\ todo' = Rest
    BY <2>1, <2>2 DEF Details
  <2>3. CASE todo' = Unwound(Rest)
    BY <1>1, <1>11, <2>3 DEF EndSweep, Effects, Throws
  <2> QED BY <1>11, <2>2, <2>3 DEF EndSweep
<1> QED BY <1>0, <1>2, <1>3, <1>4, <1>5, <1>6, <1>7, <1>8, <1>9, <1>10, <1>11 DEF DockerNext

LEMMA StepDetails ==
    ASSUME [Next]_vars
    PROVE  Waits \/ Throws \/ Details
<1> USE DEF engineVars, Doing, Brought, Taken
<1>1. CASE Ownership
  BY <1>1, OwnershipDetails
<1>2. CASE FactsExit \/ AttachAndRead \/ DiscardFile \/ HostStep \/ RevalidateHandle
  BY <1>2, DetailsOnlyOf DEF FactsExit, AttachAndRead, DiscardFile, HostStep, RevalidateHandle
<1>3. CASE IssueHandle \/ RevokeHandle \/ ExecutorCleaned
  BY <1>3 DEF IssueHandle, RevokeHandle, ExecutorCleaned, Details
<1>4. CASE JudgeCollection
  <2>1. Now.do \in {"judge", "judge-differential"}
    BY <1>4 DEF JudgeCollection
  <2>2. \/ verdict' # None
        \/ todo' = (Following(Now.do) \o Classify) \o Rest
    BY <1>4 DEF JudgeCollection, Following, None, Accepted
  <2>3. verdict' # None \/ todo' = Before(Following(Now.do) \o Classify, Rest)
    BY <2>2 DEF Before
  <2> QED BY <2>1, <2>3 DEF Details
<1>5. CASE ClassifyRuns
  BY <1>5 DEF ClassifyRuns, Details
<1>6. CASE Finished \/ UNCHANGED vars
  BY <1>6 DEF Finished, Waits, vars, dockerVars, outcomeVars
<1> QED BY <1>1, <1>2, <1>3, <1>4, <1>5, <1>6 DEF Next

----------------------------------------------------------------------------
(* Sequences seen from the front.                                          *)
LEMMA BeforeOne ==
    ASSUME NEW S, NEW x, NEW w \in Seq(S)
    PROVE  /\ Before(<<x>>, w) # <<>> /\ Head(Before(<<x>>, w)) = x /\ Tail(Before(<<x>>, w)) = w
           /\ Before(<<x>>, w) \in Seq(S \cup {x})
           /\ Path(<<>>, x, w) = Before(<<x>>, w)
<1>1. PICK T : T = S \cup {x}
  OBVIOUS
<1>2. w \in Seq(T) /\ x \in T
  <2>1. S \subseteq T /\ x \in T
    BY <1>1
  <2> QED BY <2>1, SeqMonotonic
<1> DEFINE r == <<x>> \o w
<1>3. r # <<>> /\ r \in Seq(T) /\ Head(r) = x /\ Tail(r) = w
  BY <1>2, FirstOfOne
<1> HIDE DEF r
<1>4. <<>> \o r = r
  BY <1>3, ConcatEmptySeq
<1>5. Before(<<x>>, w) = r /\ Path(<<>>, x, w) = <<>> \o r
  BY DEF Before, Path, r
<1> QED BY <1>1, <1>3, <1>4, <1>5

LEMMA BeforeTwo ==
    ASSUME NEW S, NEW s \in Seq(S), NEW w \in Seq(S)
    PROVE  /\ Before(<<>>, w) = w
           /\ s # <<>> => /\ Before(s, w) # <<>> /\ Head(Before(s, w)) = Head(s)
                          /\ Head(s) \in S /\ Tail(Before(s, w)) = Before(Tail(s), w)
                          /\ Tail(s) \in Seq(S)
<1>1. <<>> \o w = w
  BY ConcatEmptySeq
<1>2. s # <<>> => /\ s \o w # <<>> /\ Head(s \o w) = Head(s) /\ Tail(s \o w) = Tail(s) \o w
                  /\ Head(s) \in S /\ Tail(s) \in Seq(S)
  BY FirstOfTwo
<1> QED BY <1>1, <1>2 DEF Before

(* A path of which the parts are in classes of their own.                  *)
LEMMA PathAhead ==
    ASSUME NEW A, NEW B, NEW x \in Seq(A), NEW k, NEW y \in Seq(B)
    PROVE  /\ Path(x, k, y) # <<>>
           /\ x = <<>> => Head(Path(x, k, y)) = k /\ Tail(Path(x, k, y)) = y
           /\ x # <<>> => /\ Head(Path(x, k, y)) = Head(x) /\ Head(x) \in A
                          /\ Tail(Path(x, k, y)) = Path(Tail(x), k, y) /\ Tail(x) \in Seq(A)
<1>1. PICK S : S = A \cup (B \cup {k})
  OBVIOUS
<1>2. A \subseteq S /\ B \subseteq S /\ k \in S
  BY <1>1
<1>3. x \in Seq(S) /\ y \in Seq(S) /\ k \in S
  BY <1>2, SeqMonotonic
<1>4. /\ Path(x, k, y) \in Seq(S) /\ Path(x, k, y) # <<>>
      /\ x = <<>> => Head(Path(x, k, y)) = k /\ Tail(Path(x, k, y)) = y
      /\ x # <<>> => /\ Head(Path(x, k, y)) = Head(x) /\ Head(x) \in S
                     /\ Tail(Path(x, k, y)) = Path(Tail(x), k, y) /\ Tail(x) \in Seq(S)
  BY <1>3, PathParts
<1>5. x # <<>> => Head(x) \in A /\ Tail(x) \in Seq(A)
  BY HeadTailProperties
<1> QED BY <1>1, <1>4, <1>5

LEMMA PathReplaced ==
    ASSUME NEW A, NEW B, NEW x \in Seq(A), x # <<>>, NEW k, NEW y \in Seq(B), NEW P \in Seq(A)
    PROVE  \E z \in Seq(A) : Before(P, Tail(Path(x, k, y))) = Path(z, k, y)
<1>1. PICK S : S = A \cup (B \cup {k})
  OBVIOUS
<1>2. A \subseteq S /\ B \subseteq S /\ k \in S
  BY <1>1
<1> DEFINE r == Tail(x)
<1>3. Tail(Path(x, k, y)) = Path(r, k, y) /\ r \in Seq(A)
  <2>1. /\ Path(x, k, y) # <<>>
        /\ x = <<>> => Head(Path(x, k, y)) = k /\ Tail(Path(x, k, y)) = y
        /\ x # <<>> => /\ Head(Path(x, k, y)) = Head(x) /\ Head(x) \in A
                       /\ Tail(Path(x, k, y)) = Path(Tail(x), k, y) /\ Tail(x) \in Seq(A)
    BY PathAhead
  <2> QED BY <2>1
<1> HIDE DEF r
<1>4. Before(P, r) \in Seq(A)
  BY <1>3, BeforeStays
<1>5. P \in Seq(S) /\ r \in Seq(S) /\ y \in Seq(S) /\ k \in S
  BY <1>2, <1>3, SeqMonotonic
<1>6. Before(P, Path(r, k, y)) = Path(Before(P, r), k, y)
  BY <1>5, PathGrows
<1> QED BY <1>3, <1>4, <1>6

LEMMA PathExtended ==
    ASSUME NEW A, NEW B, NEW x \in Seq(A), NEW k, NEW q \in Seq(B), NEW y \in Seq(B)
    PROVE  Before(Path(x, k, q), y) = Path(x, k, Before(q, y)) /\ Before(q, y) \in Seq(B)
<1>1. PICK S : S = A \cup (B \cup {k})
  OBVIOUS
<1>2. A \subseteq S /\ B \subseteq S /\ k \in S
  BY <1>1
<1>3. x \in Seq(S) /\ q \in Seq(S) /\ y \in Seq(S) /\ k \in S
  BY <1>2, SeqMonotonic
<1> DEFINE r == <<k>> \o q
           one == <<k>>
<1>4. r \in Seq(S) /\ one \in Seq(S)
  BY <1>3, FirstOfOne
<1>5. r \o y = one \o (q \o y)
  <2>1. one \in Seq(S) /\ q \in Seq(S) /\ y \in Seq(S)
    BY <1>3, <1>4
  <2>2. r = one \o q
    OBVIOUS
  <2> HIDE DEF one, r
  <2>3. (one \o q) \o y = one \o (q \o y)
    BY <2>1, SetApart
  <2> QED BY <2>2, <2>3
<1> HIDE DEF r
<1>6. (x \o r) \o y = x \o (r \o y)
  BY <1>3, <1>4, SetApart
<1>7. Path(x, k, q) \o y = (x \o r) \o y
  BY DEF Path, r
<1>8. Path(x, k, q) \o y = Path(x, k, q \o y)
  BY <1>5, <1>6, <1>7 DEF Path
<1> QED BY <1>8, BeforeStays DEF Before

(* A sweep over the objects of D is under way, and w is to follow.         *)
AtSweep(D, w) ==
    \E left, ok : /\ todo = Before(<<Sweeping(left, ok)>>, w)
                  /\ ok = TRUE => registered \cap D \subseteq left

LEMMA SweepBegins ==
    ASSUME NEW S, NEW w \in Seq(S), NEW D, todo = Before(<<Cleanup(D)>>, w), Details
    PROVE  AtSweep(D, w)'
<1>1. Now = Cleanup(D) /\ Rest = w
  BY BeforeOne DEF Now, Rest
<1>2. Now.do = "cleanup" /\ Now.objs = D
  BY <1>1 DEF Cleanup
<1>3. todo' = Before(<<Sweeping(D \cap registered, TRUE)>>, w) /\ registered' = registered
  BY <1>1, <1>2 DEF Details
<1> QED BY <1>3 DEF AtSweep

LEMMA SweepGoesOn ==
    ASSUME NEW S, NEW w \in Seq(S), NEW D, AtSweep(D, w), Details, registered' \subseteq registered
    PROVE  AtSweep(D, w)' \/ (todo' = w /\ registered' \cap D = {})
<1>1. PICK left, ok : /\ todo = Before(<<Sweeping(left, ok)>>, w)
                      /\ ok = TRUE => registered \cap D \subseteq left
  BY DEF AtSweep
<1>2. Now = Sweeping(left, ok) /\ Rest = w
  BY <1>1, BeforeOne DEF Now, Rest
<1>3. Now.do = "sweep" /\ Now.left = left /\ Now.ok = ok
  BY <1>2 DEF Sweeping
<1>4. ASSUME NEW o \in left, NEW o2 \in {ok, FALSE},
             todo' = Before(<<Sweeping(left \ {o}, o2)>>, w), o2 = FALSE \/ o \notin registered'
      PROVE  AtSweep(D, w)'
  <2>1. o2 = TRUE => registered' \cap D \subseteq left \ {o}
    BY <1>1, <1>4
  <2> QED BY <1>4, <2>1 DEF AtSweep
<1>5. CASE left = {} /\ ok = TRUE /\ todo' = w /\ registered' = registered
  BY <1>1, <1>5
<1>6. \/ \E o \in left, o2 \in {ok, FALSE} :
                /\ todo' = Before(<<Sweeping(left \ {o}, o2)>>, w)
                /\ o2 = FALSE \/ o \notin registered'
      \/ left = {} /\ ok = TRUE /\ todo' = w /\ registered' = registered
  BY <1>2, <1>3 DEF Details
<1> QED BY <1>4, <1>5, <1>6

----------------------------------------------------------------------------
(* While nothing has failed the sandbox's cleanup lies ahead, or is under  *)
(* way, or has left nothing registered; and after it nothing is created.   *)
SweepMarks(b) == {Whole(b), Trial(b), FinSC, Cleanup(SandboxObjects)}
Settled(b) == registered \cap SandboxObjects = {} /\ todo \in Seq(Barren(b))
Unsettled(b) ==
    \E x \in Seq(Core(b)), k \in SweepMarks(b), y \in Seq(Barren(b)) : todo = Path(x, k, y)
Swept(b) ==
    \/ Settled(b) \/ Unsettled(b)
    \/ \E w \in Seq(Barren(b)) : AtSweep(SandboxObjects, w)

LEMMA GoneBy ==
    ASSUME NEW P, GoesBy(P)
    PROVE  /\ todo # <<>> /\ todo' = Before(P, Rest) /\ Gives(Now, P) /\ Effects
           /\ Now.do # "create" => registered' \subseteq registered
  BY DEF GoesBy, Effects, Before, Brought

LEMMA MarksAhead ==
    ASSUME NEW b \in BOOLEAN
    PROVE  /\ Whole(b).do = "try" /\ Trial(b).do = "try"
           /\ \E p, q : /\ Entered(Whole(b)) = Path(p, Trial(b), q)
                        /\ p \in Seq(Core(b)) /\ q \in Seq(Barren(b))
           /\ \E p : Entered(Trial(b)) = Path(p, FinSC, <<>>) /\ p \in Seq(Core(b))
<1>1. /\ LightOver(Steps(b), Owned(b)) \subseteq Core(b) /\ Running(b) \subseteq Core(b)
      /\ Judging(b) \in Core(b)
  BY LateIsLight DEF Core, Running
<1>2. /\ Seq(LightOver(Steps(b), Owned(b))) \subseteq Seq(Core(b))
      /\ Seq(Running(b)) \subseteq Seq(Core(b))
  BY <1>1, SeqMonotonic
<1>3. Whole(b).do = "try" /\ \E p, q : /\ Entered(Whole(b)) = Path(p, Trial(b), q)
                                      /\ p \in Seq(Core(b)) /\ q \in Seq(Barren(b))
  <2>1. CASE b = FALSE
    <3>1. PICK p, q : /\ Entered(Whole(b)) = p \o (<<Trial(b)>> \o q)
                      /\ p \in Seq(LightOver(Steps(b), Owned(b)))
                      /\ q \in Seq(Light(b)) /\ q \in Seq(Barren(b))
      BY <2>1, WorkflowEntered
    <3>2. Entered(Whole(b)) = Path(p, Trial(b), q)
      BY <3>1 DEF Path
    <3>3. p \in Seq(Core(b))
      BY <1>2, <3>1
    <3>4. Whole(b).do = "try"
      BY <2>1, WorkflowEntered
    <3> QED BY <3>1, <3>2, <3>3, <3>4
  <2>2. CASE b = TRUE
    <3>1. /\ Whole(b).do = "try"
          /\ Entered(Whole(b)) = <<PrepTry>> \o (<<Trial(b)>> \o <<FinEC>>)
          /\ <<PrepTry>> \in Seq(Light(b)) /\ <<FinEC>> \in Seq(Light(b))
          /\ <<FinEC>> \in Seq(Barren(b))
      BY <2>2, DifferentialEntered
    <3> DEFINE p == <<PrepTry>>
               q == <<FinEC>>
    <3>2. p \in Seq(Core(b))
      <4>1. PrepTry \in Core(b)
        BY <2>2 DEF Core
      <4> QED BY <4>1, OneOf
    <3>3. Entered(Whole(b)) = Path(p, Trial(b), q)
      BY <3>1 DEF Path
    <3>4. q \in Seq(Barren(b))
      BY <3>1
    <3> HIDE DEF p, q
    <3> QED BY <3>1, <3>2, <3>3, <3>4
  <2> QED BY <2>1, <2>2
<1>4. PICK p : /\ Entered(Trial(b)) = p \o (<<Judging(b)>> \o <<FinSC>>)
               /\ p \in Seq(Running(b)) /\ Weigh(p) = 1
  BY TrialEntered
<1> DEFINE one == <<Judging(b)>>
           fin == <<FinSC>>
           e == <<>>
           s == p \o one
<1>5. p \in Seq(Core(b)) /\ one \in Seq(Core(b))
  BY <1>1, <1>2, <1>4, OneOf
<1>6. s \in Seq(Core(b))
  BY <1>5, Joined
<1>7. fin \in Seq({FinSC}) /\ fin \o e = fin
  <2>1. fin \in Seq({FinSC})
    BY OneOf
  <2> HIDE DEF fin
  <2> QED BY <2>1, ConcatEmptySeq
<1> HIDE DEF fin
<1>8. s \o fin = p \o (one \o fin)
  <2>1. PICK S : S = Core(b) \cup {FinSC}
    OBVIOUS
  <2>2. Core(b) \subseteq S /\ {FinSC} \subseteq S
    BY <2>1
  <2>3. p \in Seq(S) /\ one \in Seq(S) /\ fin \in Seq(S)
    BY <1>5, <1>7, <2>2, SeqMonotonic
  <2> HIDE DEF one
  <2> QED BY <2>3, SetApart
<1> HIDE DEF s, one, e
<1>9. Entered(Trial(b)) = s \o fin
  BY <1>4, <1>8 DEF one, fin
<1>10. Path(s, FinSC, e) = s \o fin
  <2>1. Path(s, FinSC, e) = s \o (fin \o e)
    BY DEF Path, fin
  <2> QED BY <1>7, <2>1
<1>11. Entered(Trial(b)) = Path(s, FinSC, <<>>)
  BY <1>9, <1>10 DEF e
<1>12. Trial(b).do = "try"
  BY TrialEntered
<1> QED BY <1>3, <1>6, <1>11, <1>12

LEMMA SweptOn ==
    ASSUME NEW b \in BOOLEAN, Swept(b), NEW P, GoesBy(P), Details
    PROVE  Swept(b)'
<1>0. /\ todo # <<>> /\ todo' = Before(P, Rest) /\ Gives(Now, P) /\ Effects
      /\ Now.do # "create" => registered' \subseteq registered
  BY GoneBy
<1>1. CASE Settled(b)
  <2>1. Now \in Barren(b) /\ Rest \in Seq(Barren(b))
    BY <1>0, <1>1, HeadTailProperties DEF Settled, Now, Rest
  <2>2. P \in Seq(Barren(b)) /\ Now.do # "create"
    BY <1>0, <2>1, BarrenGives, BarrenKinds
  <2>3. Before(P, Rest) \in Seq(Barren(b))
    BY <2>1, <2>2, BeforeStays
  <2>4. registered' \cap SandboxObjects = {}
    BY <1>0, <1>1, <2>2 DEF Settled
  <2> QED BY <1>0, <2>3, <2>4 DEF Swept, Settled
<1>2. CASE Unsettled(b)
  <2>1. PICK x \in Seq(Core(b)), k \in SweepMarks(b), y \in Seq(Barren(b)) : todo = Path(x, k, y)
    BY <1>2 DEF Unsettled
  <2>2. /\ Path(x, k, y) # <<>>
        /\ x = <<>> => Head(Path(x, k, y)) = k /\ Tail(Path(x, k, y)) = y
        /\ x # <<>> => /\ Head(Path(x, k, y)) = Head(x) /\ Head(x) \in Core(b)
                       /\ Tail(Path(x, k, y)) = Path(Tail(x), k, y) /\ Tail(x) \in Seq(Core(b))
    BY PathAhead
  <2>3. CASE x # <<>>
    <3>1. P \in Seq(Core(b))
      BY <1>0, <2>1, <2>2, <2>3, CoreGives DEF Now
    <3>2. PICK z \in Seq(Core(b)) : Before(P, Tail(Path(x, k, y))) = Path(z, k, y)
      BY <2>3, <3>1, PathReplaced
    <3>3. todo' = Path(z, k, y)
      BY <1>0, <2>1, <3>2 DEF Rest
    <3> QED BY <3>3 DEF Swept, Unsettled
  <2>4. CASE x = <<>>
    <3>1. Now = k /\ Rest = y
      BY <2>1, <2>2, <2>4 DEF Now, Rest
    <3>2. /\ Whole(b).do = "try" /\ Trial(b).do = "try"
          /\ \E p, q : /\ Entered(Whole(b)) = Path(p, Trial(b), q)
                       /\ p \in Seq(Core(b)) /\ q \in Seq(Barren(b))
          /\ \E p : Entered(Trial(b)) = Path(p, FinSC, <<>>) /\ p \in Seq(Core(b))
      BY MarksAhead
    <3>3. CASE k = Whole(b)
      <4>1. P = Entered(k)
        BY <1>0, <3>1, <3>2, <3>3 DEF Gives
      <4>2. PICK p, q : /\ Entered(k) = Path(p, Trial(b), q)
                        /\ p \in Seq(Core(b)) /\ q \in Seq(Barren(b))
        BY <3>2, <3>3
      <4>3. Before(Path(p, Trial(b), q), y) = Path(p, Trial(b), Before(q, y))
            /\ Before(q, y) \in Seq(Barren(b))
        BY <4>2, PathExtended
      <4>4. todo' = Path(p, Trial(b), Before(q, y))
        BY <1>0, <3>1, <4>1, <4>2, <4>3
      <4>5. Trial(b) \in SweepMarks(b)
        BY DEF SweepMarks
      <4> QED BY <4>2, <4>3, <4>4, <4>5 DEF Swept, Unsettled
    <3>4. CASE k = Trial(b)
      <4>1. P = Entered(k)
        BY <1>0, <3>1, <3>2, <3>4 DEF Gives
      <4>2. PICK p : Entered(k) = Path(p, FinSC, <<>>) /\ p \in Seq(Core(b))
        BY <3>2, <3>4
      <4> DEFINE e == <<>>
      <4>3. e \in Seq(Barren(b)) /\ Before(e, y) = y
        BY BeforeTwo
      <4>4. Entered(k) = Path(p, FinSC, e)
        BY <4>2
      <4> HIDE DEF e
      <4>5. Before(Path(p, FinSC, e), y) = Path(p, FinSC, Before(e, y))
            /\ Before(e, y) \in Seq(Barren(b))
        BY <4>2, <4>3, PathExtended
      <4>6. todo' = Path(p, FinSC, y)
        BY <1>0, <3>1, <4>1, <4>3, <4>4, <4>5
      <4>7. FinSC \in SweepMarks(b)
        BY DEF SweepMarks
      <4> QED BY <4>2, <4>6, <4>7 DEF Swept, Unsettled
    <3>5. CASE k = FinSC
      <4>1. P = SandboxCleanup
        BY <1>0, <3>1, <3>5 DEF Gives, FinSC
      <4>2. todo' = Path(<<>>, Cleanup(SandboxObjects), y)
        BY <1>0, <3>1, <4>1, BeforeOne DEF SandboxCleanup
      <4> DEFINE e == <<>>
      <4>3. e \in Seq(Core(b)) /\ todo' = Path(e, Cleanup(SandboxObjects), y)
        BY <4>2
      <4> HIDE DEF e
      <4>4. Cleanup(SandboxObjects) \in SweepMarks(b)
        BY DEF SweepMarks
      <4> QED BY <4>3, <4>4 DEF Swept, Unsettled
    <3>6. CASE k = Cleanup(SandboxObjects)
      <4>1. todo = Before(<<Cleanup(SandboxObjects)>>, y)
        BY <2>1, <2>4, <3>6, BeforeOne
      <4>2. AtSweep(SandboxObjects, y)'
        BY <4>1, SweepBegins
      <4> QED BY <4>2 DEF Swept
    <3> QED BY <3>3, <3>4, <3>5, <3>6 DEF SweepMarks
  <2> QED BY <2>3, <2>4
<1>3. ASSUME NEW w \in Seq(Barren(b)), AtSweep(SandboxObjects, w)
      PROVE  Swept(b)'
  <2>1. Now.do = "sweep"
    <3>1. PICK left, ok : todo = Before(<<Sweeping(left, ok)>>, w)
      BY <1>3 DEF AtSweep
    <3>2. Now = Sweeping(left, ok)
      BY <3>1, BeforeOne DEF Now
    <3> QED BY <3>2 DEF Sweeping
  <2>2. registered' \subseteq registered
    BY <1>0, <2>1
  <2>3. AtSweep(SandboxObjects, w)' \/ (todo' = w /\ registered' \cap SandboxObjects = {})
    BY <1>3, <2>2, SweepGoesOn
  <2> QED BY <2>3 DEF Swept, Settled
<1> QED BY <1>1, <1>2, <1>3 DEF Swept

LEMMA AnyGives ==
    ASSUME NEW b \in BOOLEAN, NEW u \in Any(b), u \notin Keys(b), NEW P, Gives(u, P)
    PROVE  P \in Seq(Any(b))
<1>1. u \in Busy(b)
  BY DEF Any
<1>2. Seq(Busy(b)) \subseteq Seq(Any(b)) /\ Seq(Light(b)) \subseteq Seq(Busy(b))
  <2>1. Busy(b) \subseteq Any(b)
    BY DEF Any
  <2> QED BY <2>1, SeqMonotonic, Classes
<1>3. CASE u \in Heavy
  <2>1. P \in Seq(BusyOver(Steps(b), Owned(b)))
    BY <1>3, StepsAndNames, HeavyGives
  <2> QED BY <1>2, <2>1, Classes
<1>4. CASE u \in LightOver(Steps(b), Owned(b))
  <2>1. P \in Seq(LightOver(Steps(b), Owned(b)))
    BY <1>4, StepsAndNames, OverGives
  <2> QED BY <1>2, <2>1, Classes
<1>5. CASE b = TRUE /\ u \in {PrepTry, ExceptEC, FinEC, Revoke, Cleaned}
  <2>1. u \in Light(b)
    BY <1>5, CleanupIsLight
  <2>2. CASE u = PrepTry
    <3>1. u.do = "try"
      BY <2>2 DEF PrepTry
    <3>2. P = Entered(u)
      BY <3>1 DEF Gives
    <3> QED BY <1>2, <2>1, <3>1, <3>2, LightEntered
  <2>3. CASE u = FinEC
    <3>1. P = ExecutorCleanup
      BY <2>3 DEF Gives, FinEC
    <3> QED BY <1>2, <1>5, <3>1, CleanupIsLight
  <2>4. CASE u \in {ExceptEC, Revoke, Cleaned}
    <3>1. u.do \in {"except", "revoke", "cleaned"}
      BY <2>4 DEF ExceptEC, Revoke, Cleaned
    <3>2. P = <<>>
      BY <3>1, PlainGivesNothing
    <3> QED BY <3>2
  <2> QED BY <1>5, <2>2, <2>3, <2>4
<1>6. CASE b = FALSE /\ u = Filing
  <2>1. u.do = "host"
    BY <1>6 DEF Filing, Host
  <2>2. P = <<>>
    BY <2>1, PlainGivesNothing
  <2> QED BY <2>2
<1> QED BY <1>1, <1>3, <1>4, <1>5, <1>6 DEF Busy, Light

----------------------------------------------------------------------------
(* A verdict is given, or lies ahead, or an exception is under way.        *)
Keyed(b, s) == \E i \in DOMAIN s : s[i] \in Keys(b)
Decided(b) == verdict # None \/ Falls(b, todo) \/ Keyed(b, todo)

LEMMA KeyedOfTwo ==
    ASSUME NEW b, NEW S, NEW s \in Seq(S), NEW t \in Seq(S)
    PROVE  Keyed(b, Before(s, t)) <=> Keyed(b, s) \/ Keyed(b, t)
<1>1. /\ Len(s) \in Nat /\ Len(t) \in Nat
      /\ DOMAIN s = 1 .. Len(s) /\ DOMAIN t = 1 .. Len(t)
  BY LenProperties
<1>2. /\ s \o t \in Seq(S) /\ Len(s \o t) = Len(s) + Len(t)
      /\ \A i \in 1 .. Len(s) + Len(t) : (s \o t)[i] =
            IF i <= Len(s) THEN s[i] ELSE t[i - Len(s)]
  BY ConcatProperties
<1>3. DOMAIN (s \o t) = 1 .. Len(s) + Len(t)
  BY <1>2, LenProperties
<1>4. \A i \in DOMAIN s : i \in DOMAIN (s \o t) /\ (s \o t)[i] = s[i]
  BY <1>1, <1>2, <1>3
<1>5. \A i \in DOMAIN t : i + Len(s) \in DOMAIN (s \o t) /\ (s \o t)[i + Len(s)] = t[i]
  BY <1>1, <1>2, <1>3
<1>6. ASSUME NEW i \in DOMAIN (s \o t)
      PROVE  \/ i \in DOMAIN s /\ (s \o t)[i] = s[i]
             \/ i - Len(s) \in DOMAIN t /\ (s \o t)[i] = t[i - Len(s)]
  BY <1>1, <1>2, <1>3
<1> DEFINE u == s \o t
<1>7. /\ \A i \in DOMAIN s : \E j \in DOMAIN u : u[j] = s[i]
      /\ \A i \in DOMAIN t : \E j \in DOMAIN u : u[j] = t[i]
  BY <1>4, <1>5
<1>8. \A j \in DOMAIN u : \/ \E i \in DOMAIN s : u[j] = s[i]
                          \/ \E i \in DOMAIN t : u[j] = t[i]
  BY <1>6
<1> HIDE DEF u
<1>9. Keyed(b, u) <=> Keyed(b, s) \/ Keyed(b, t)
  BY <1>7, <1>8 DEF Keyed
<1> QED BY <1>9 DEF u, Before

LEMMA KeyedOne ==
    ASSUME NEW b, NEW S, NEW k, NEW w \in Seq(S)
    PROVE  Keyed(b, Before(<<k>>, w)) <=> k \in Keys(b) \/ Keyed(b, w)
<1>1. PICK T : T = S \cup {k}
  OBVIOUS
<1>2. w \in Seq(T) /\ k \in T
  <2>1. S \subseteq T /\ k \in T
    BY <1>1
  <2> QED BY <2>1, SeqMonotonic
<1> DEFINE one == <<k>>
<1>3. one \in Seq(T) /\ DOMAIN one = {1} /\ one[1] = k
  BY <1>2
<1> HIDE DEF one
<1>4. Keyed(b, one) <=> k \in Keys(b)
  BY <1>3 DEF Keyed
<1>5. Keyed(b, Before(one, w)) <=> Keyed(b, one) \/ Keyed(b, w)
  BY <1>2, <1>3, KeyedOfTwo
<1> QED BY <1>4, <1>5 DEF one

LEMMA KeyedPath ==
    ASSUME NEW b, NEW A, NEW B, NEW x \in Seq(A), NEW k \in Keys(b), NEW y \in Seq(B)
    PROVE  Keyed(b, Path(x, k, y))
<1>1. PICK S : S = A \cup (B \cup {k})
  OBVIOUS
<1>2. A \subseteq S /\ B \subseteq S /\ k \in S
  BY <1>1
<1>3. x \in Seq(S) /\ y \in Seq(S) /\ k \in S
  BY <1>2, SeqMonotonic
<1> DEFINE r == <<k>> \o y
<1>4. r \in Seq(S) /\ r = Before(<<k>>, y)
  BY <1>3, FirstOfOne DEF Before
<1>5. Keyed(b, r)
  BY <1>4, KeyedOne
<1> HIDE DEF r
<1>6. Keyed(b, Before(x, r))
  BY <1>3, <1>4, <1>5, KeyedOfTwo
<1>7. Path(x, k, y) = Before(x, r)
  BY DEF Path, Before, r
<1> QED BY <1>6, <1>7

LEMMA KeyedFront ==
    ASSUME NEW b, NEW S, NEW t \in Seq(S), t # <<>>
    PROVE  Keyed(b, t) <=> Head(t) \in Keys(b) \/ Keyed(b, Tail(t))
<1> DEFINE k == Head(t)
           w == Tail(t)
<1>1. t = <<k>> \o w /\ w \in Seq(S)
  BY HeadTailProperties
<1> HIDE DEF k, w
<1>2. Keyed(b, Before(<<k>>, w)) <=> k \in Keys(b) \/ Keyed(b, w)
  BY <1>1, KeyedOne
<1> QED BY <1>1, <1>2 DEF Before, k, w

(* The base runs give a verdict.                                           *)
LEMMA BaseIsAVerdict ==
    ASSUME NEW n \in Nat \ {0}, NEW rs \in [1 .. n -> Execution]
    PROVE  ClassifyBase(rs) # None
<1> DEFINE bad == {i \in 1 .. n : ReadReport(rs[i]) \notin Fingerprints}
           first == CHOOSE i \in bad : \A j \in bad : i <= j
<1>1. ASSUME bad # {} PROVE ReadReport(rs[first]) \in OtherReports
  <2>1. first \in bad
    <3>1. \E i \in bad : \A j \in bad : i <= j
      BY <1>1, LeastOf
    <3> QED BY <3>1
  <2> QED BY <2>1 DEF ReadReport, Execution, Reports, OtherReports
<1>2. ASSUME bad # {} PROVE ReasonFor(ReadReport(rs[first])) # None
  <2> HIDE DEF first, bad
  <2> QED BY <1>1, <1>2 DEF ReasonFor, OtherReports, None
<1>3. DOMAIN rs = 1 .. n
  OBVIOUS
<1>4. ClassifyBase(rs) = ReasonFor(ReadReport(rs[first])) => bad # {}
      \/ ClassifyBase(rs) # None
  BY <1>3 DEF ClassifyBase, None
<1> QED BY <1>2, <1>3 DEF ClassifyBase, None

LEMMA DecidedOn ==
    ASSUME NEW b \in BOOLEAN, b = FALSE, Bound(b), runs \in Seq(Execution), handle = None,
           Decided(b), NEW P, GoesBy(P), Details, [Next]_vars
    PROVE  Decided(b)'
<1>0. /\ todo # <<>> /\ todo' = Before(P, Rest) /\ Gives(Now, P) /\ Effects
      /\ Now.do # "create" => registered' \subseteq registered
  BY GoneBy
<1>1. todo \in Seq(Any(b))
  BY BoundIsSequence
<1>2. CASE Falls(b, todo)
  <2>1. /\ Falls(b, todo)'
        /\ existing' \subseteq existing \/ Waits
        /\ registered' \subseteq registered
        /\ files' \subseteq files
        /\ Now.do \notin {"revoke", "cleaned"} => handle' = handle
    BY <1>1, <1>2, FallsOn
  <2> QED BY <2>1 DEF Decided
<1>3. CASE Now.do \in {"judge", "judge-differential"}
  <2>1. CASE verdict' # None
    BY <2>1 DEF Decided
  <2>2. CASE todo' = Before(Following(Now.do) \o Classify, Rest)
    <3>1. Now \in Keys(b) /\ Rest \in Seq(Light(b))
      BY <1>0, <1>3, NowIsKey
    <3>2. Now = Judging(b)
      BY <1>3, <3>1, KeyKinds
    <3> DEFINE F == Following(Now.do)
    <3>3. Now.do = "judge"
      BY <3>2 DEF Judging
    <3>4. F \in Seq(Running(b))
      <4>1. LET go == IF b THEN StageAttestedSource("workspace2", "stage2", "owner2", "attest2")
                                 \o Interleaved
                            ELSE Times(Repeats, RunPytest("run"))
            IN  go \in Seq(Running(b)) /\ Weigh(go) = Wanted(b)
        BY RunsToCome
      <4> QED BY <3>3, <4>1 DEF Following
    <3> HIDE DEF F
    <3>5. F \o Classify = Path(F, Classifying, <<>>)
      BY ConcatEmptySeq DEF Path, Classify, Classifying
    <3> DEFINE e == <<>>
    <3>6. e \in Seq(Light(b)) /\ F \o Classify = Path(F, Classifying, e)
      BY <3>5
    <3> HIDE DEF e
    <3>7. Classifying \in Keys(b)
      BY DEF Keys
    <3>8. Before(Path(F, Classifying, e), Rest) = Path(F, Classifying, Before(e, Rest))
          /\ Before(e, Rest) \in Seq(Light(b))
      BY <3>1, <3>4, <3>6, PathExtended
    <3>9. Keyed(b, Path(F, Classifying, Before(e, Rest)))
      BY <3>4, <3>7, <3>8, KeyedPath
    <3>10. todo' = Path(F, Classifying, Before(e, Rest))
      BY <2>2, <3>6, <3>8 DEF F
    <3> QED BY <3>9, <3>10 DEF Decided, Keyed
  <2> QED BY <1>3, <2>1, <2>2 DEF Details
<1>4. CASE Now.do = "classify"
  <2>1. /\ Now \in Keys(b) /\ Rest \in Seq(Light(b))
        /\ OnPlan(b, <<>>, Now, Rest, collection, runs, handle)
    BY <1>0, <1>4, NowIsKey
  <2>2. Now = Classifying
    BY <1>4, <2>1, KeyKinds
  <2>3. Len(runs) = Wanted(b)
    <3>1. Now = Classifying => Len(collection) = 1 /\ Len(runs) = Wanted(b)
      BY <2>1, NothingBefore
    <3> QED BY <2>2, <3>1
  <2>4. Wanted(b) = Repeats /\ Repeats \in Nat \ {0}
    BY ResultsAssumption DEF Wanted
  <2>5. runs \in [1 .. Repeats -> Execution]
    BY <2>3, <2>4, LenProperties
  <2>6. ClassifyBase(runs) # None
    BY <2>4, <2>5, BaseIsAVerdict
  <2>7. verdict' # None
    BY <1>4, <2>6 DEF Details
  <2> QED BY <2>7 DEF Decided
<1>5. CASE Now.do \notin {"judge", "judge-differential", "classify"} /\ ~Falls(b, todo)
  <2>1. verdict' = verdict
    BY <1>0, <1>5 DEF Effects
  <2>2. CASE verdict # None
    BY <2>1, <2>2 DEF Decided
  <2>3. CASE Keyed(b, todo) /\ Now \notin Keys(b)
    <3>1. Now \in Any(b) /\ Rest \in Seq(Any(b))
      BY <1>0, <1>1, HeadTailProperties DEF Now, Rest
    <3>2. Keyed(b, Rest)
      BY <1>0, <1>1, <2>3, KeyedFront DEF Now, Rest
    <3>3. P \in Seq(Any(b))
      BY <1>0, <2>3, <3>1, AnyGives
    <3>4. Keyed(b, Before(P, Rest))
      BY <3>1, <3>2, <3>3, KeyedOfTwo
    <3> QED BY <1>0, <3>4 DEF Decided, Keyed
  <2>4. CASE Now \in Keys(b)
    <3>1. Rest \in Seq(Any(b))
      BY <1>0, <1>1, HeadTailProperties DEF Rest
    <3>2. Now.do = "try" /\ Now \in {Trial(b), Whole(b)} /\ P = Entered(Now)
      BY <1>0, <1>5, <2>4, KeyKinds DEF Gives
    <3>3. \E p, q, k : /\ P = Path(p, k, q) /\ k \in Keys(b)
                       /\ p \in Seq(Busy(b)) /\ q \in Seq(Any(b))
      <4>0. Seq(Running(b)) \subseteq Seq(Busy(b)) /\ Seq(Light(b)) \subseteq Seq(Busy(b))
            /\ Seq(Light(b)) \subseteq Seq(Any(b))
        <5>1. Light(b) \subseteq Any(b)
          BY Classes DEF Any
        <5> QED BY <5>1, LateIsLight, Classes, SeqMonotonic
      <4>1. CASE Now = Trial(b)
        <5>1. PICK p : /\ Entered(Trial(b)) = p \o (<<Judging(b)>> \o <<FinSC>>)
                       /\ p \in Seq(Running(b)) /\ Weigh(p) = 1
          BY TrialEntered
        <5>2. Entered(Trial(b)) = Path(p, Judging(b), <<FinSC>>)
          BY <5>1 DEF Path
        <5>3. <<FinSC>> \in Seq(Light(b))
          BY FinSCIsLight, OneOf
        <5>4. Judging(b) \in Keys(b)
          BY DEF Keys
        <5> QED BY <3>2, <4>0, <4>1, <5>1, <5>2, <5>3, <5>4
      <4>2. CASE Now = Whole(b)
        <5>1. PICK p, q \in Seq(Light(b)) : Entered(Whole(b)) = p \o (<<Trial(b)>> \o q)
          BY WholeEntered
        <5>2. Entered(Whole(b)) = Path(p, Trial(b), q)
          BY <5>1 DEF Path
        <5>3. Trial(b) \in Keys(b)
          BY DEF Keys
        <5> QED BY <3>2, <4>0, <4>2, <5>1, <5>2, <5>3
      <4> QED BY <3>2, <4>1, <4>2
    <3>4. PICK p, q, k : /\ P = Path(p, k, q) /\ k \in Keys(b)
                         /\ p \in Seq(Busy(b)) /\ q \in Seq(Any(b))
      BY <3>3
    <3>5. Before(Path(p, k, q), Rest) = Path(p, k, Before(q, Rest))
          /\ Before(q, Rest) \in Seq(Any(b))
      BY <3>1, <3>4, PathExtended
    <3>6. Keyed(b, Path(p, k, Before(q, Rest)))
      BY <3>4, <3>5, KeyedPath
    <3>7. todo' = Path(p, k, Before(q, Rest))
      BY <1>0, <3>4, <3>5
    <3> QED BY <3>6, <3>7 DEF Decided, Keyed
  <2> QED BY <1>5, <2>2, <2>3, <2>4 DEF Decided
<1> QED BY <1>2, <1>3, <1>4, <1>5

----------------------------------------------------------------------------
(* Success, failure and the report.  While nothing has failed (Calm) every *)
(* object is registered that is there; once something has, nothing is      *)
(* filed any more; and when the report is filed nothing is left.           *)
Calm(b) ==
    /\ late = {} /\ arrived = {} /\ unacknowledged = {} /\ "report" \notin files /\ Swept(b)
Fallen(b) == Falls(b, todo) /\ "report" \notin files
Ending(b) == Barren(b) \cup {Raise, [do |-> "raised"]}
Reported(b) ==
    /\ b = FALSE /\ "report" \in files /\ existing = {} /\ late = {} /\ registered = {}
    /\ verdict # None /\ todo \in Seq(Ending(b))

LEMMA CoreKinds ==
    ASSUME NEW b \in BOOLEAN, NEW u \in Core(b)
    PROVE  /\ u.do \notin {"revoke", "cleaned", "catch"}
           /\ u.do = "host" => u.file \in Files
           /\ u # FinEC
<1>1. CASE u \in LightOver(Steps(b), Owned(b))
  <2>1. /\ u.do \notin {"attach", "catch", "judge", "judge-differential", "classify",
                        "revoke", "cleaned"}
        /\ u.do \in {"ready", "revalidate"} => u.do \in Steps(b)
        /\ u.do \in {"finally", "except"} => u.then \in Seq(Tidying(Owned(b)))
        /\ u.do = "try" => /\ u.body \in Seq(ShallowOver(Steps(b), Owned(b)))
                           /\ u.handler \in {"finally", "except"}
                           /\ u.then \in Seq(Tidying(Owned(b)))
        /\ u.do \in {"create", "exits", "remove", "release"} => u.obj \in Owned(b)
        /\ u.do = "cleanup" => u.objs \subseteq Owned(b)
        /\ u.do = "command" => u.objs \subseteq Names
        /\ u.do = "sweep" => u.left \subseteq Owned(b) /\ u.ok \in BOOLEAN
        /\ u.do \in {"host", "discard"} => u.file \in Files
    BY <1>1, StepsAndNames, OverKinds
  <2>2. u # FinEC
    <3> SUFFICES ASSUME u = FinEC PROVE FALSE
      OBVIOUS
    <3>1. u.do = "finally" /\ u.then = ExecutorCleanup
      BY DEF FinEC
    <3>2. ExecutorCleanup \in Seq(Tidying(Owned(b)))
      BY <2>1, <3>1
    <3>3. ExecutorCleanup # <<>> /\ Head(ExecutorCleanup) = Revoke
      BY DEF ExecutorCleanup
    <3>4. Revoke \in Tidying(Owned(b))
      BY <3>2, <3>3, HeadTailProperties
    <3>5. Revoke.do = "revoke"
      BY DEF Revoke
    <3>6. Owned(b) \in SUBSET Names
      BY StepsAndNames
    <3> QED BY <3>4, <3>5, <3>6, TidyingKinds
  <2> QED BY <2>1, <2>2
<1>2. CASE u \in {PrepTry, ExceptEC}
  <2>1. u.do \in {"try", "except"} /\ FinEC.do = "finally"
    BY <1>2 DEF PrepTry, ExceptEC, FinEC
  <2> QED BY <2>1
<1>3. CASE u \in Heavy
  <2>1. u.do \in {"attach", "try"} /\ FinEC.do = "finally"
    BY <1>3, HeavyKinds DEF Attach, FinEC
  <2> QED BY <2>1
<1>4. CASE u \in {Judging(b), Classifying}
  <2>1. u.do \in {"judge", "judge-differential", "classify"} /\ FinEC.do = "finally"
    BY <1>4 DEF Judging, Classifying, FinEC
  <2> QED BY <2>1
<1> QED BY <1>1, <1>2, <1>3, <1>4 DEF Core

(* The steps that close the executor and the one that files the report     *)
(* come when the sandbox is clean.                                         *)
LEMMA SettledNow ==
    ASSUME NEW b \in BOOLEAN, Swept(b), todo # <<>>,
           \/ Now.do \in {"revoke", "cleaned"} \/ Now = FinEC
           \/ Now.do = "host" /\ Now.file = "report"
    PROVE  Settled(b)
<1>1. CASE Unsettled(b)
  <2>1. PICK x \in Seq(Core(b)), k \in SweepMarks(b), y \in Seq(Barren(b)) : todo = Path(x, k, y)
    BY <1>1 DEF Unsettled
  <2>2. /\ Path(x, k, y) # <<>>
        /\ x = <<>> => Head(Path(x, k, y)) = k /\ Tail(Path(x, k, y)) = y
        /\ x # <<>> => /\ Head(Path(x, k, y)) = Head(x) /\ Head(x) \in Core(b)
                       /\ Tail(Path(x, k, y)) = Path(Tail(x), k, y) /\ Tail(x) \in Seq(Core(b))
    BY PathAhead
  <2>3. CASE x # <<>>
    <3>1. Now \in Core(b)
      BY <2>1, <2>2, <2>3 DEF Now
    <3>2. "report" \notin Files
      BY DEF Files, None
    <3> QED BY <3>1, <3>2, CoreKinds
  <2>4. CASE x = <<>>
    <3>1. Now \in SweepMarks(b)
      BY <2>1, <2>2, <2>4 DEF Now
    <3>2. Now.do \in {"try", "finally", "cleanup"} /\ Now # FinEC
      <4>1. CASE Now \in {Whole(b), Trial(b)}
        <5>1. Now.do = "try" /\ FinEC.do = "finally"
          BY <4>1, MarksAhead DEF FinEC
        <5> QED BY <5>1
      <4>2. CASE Now = FinSC
        <5>1. Now.do = "finally"
          BY <4>2 DEF FinSC
        <5>2. FinSC.then = SandboxCleanup /\ FinEC.then = ExecutorCleanup
          BY DEF FinSC, FinEC
        <5>3. Head(SandboxCleanup).do = "cleanup" /\ Head(ExecutorCleanup).do = "revoke"
          BY DEF SandboxCleanup, ExecutorCleanup, Cleanup, Revoke
        <5>4. ASSUME FinSC = FinEC PROVE FALSE
          <6>1. SandboxCleanup = ExecutorCleanup
            BY <5>2, <5>4
          <6> QED BY <5>3, <6>1
        <5> QED BY <4>2, <5>1, <5>4
      <4>3. CASE Now = Cleanup(SandboxObjects)
        <5>1. Now.do = "cleanup" /\ FinEC.do = "finally"
          BY <4>3 DEF Cleanup, FinEC
        <5> QED BY <5>1
      <4> QED BY <3>1, <4>1, <4>2, <4>3 DEF SweepMarks
    <3> QED BY <3>2
  <2> QED BY <2>3, <2>4
<1>2. ASSUME NEW w \in Seq(Barren(b)), AtSweep(SandboxObjects, w) PROVE FALSE
  <2>1. PICK left, ok : todo = Before(<<Sweeping(left, ok)>>, w)
    BY <1>2 DEF AtSweep
  <2>2. Now = Sweeping(left, ok)
    BY <2>1, BeforeOne DEF Now
  <2>3. Now.do = "sweep" /\ FinEC.do = "finally"
    BY <2>2 DEF Sweeping, FinEC
  <2> QED BY <2>3
<1> QED BY <1>1, <1>2 DEF Swept

(* What is created is the program's own, and only the workflow files.      *)
LEMMA OwnSteps ==
    ASSUME NEW b \in BOOLEAN, Bound(b), todo # <<>>
    PROVE  /\ Now.do = "create" => Now.obj \in Owned(b)
           /\ b = TRUE /\ Now.do = "host" => Now.file # "report"
           /\ b = FALSE => Now.do \notin {"ready", "revoke", "cleaned"}
<1>1. CASE Now.do \in {"create", "host", "ready", "revoke", "cleaned"}
  <2>1. Now \in Light(b)
    BY <1>1, NowIsLight
  <2>2. Now.do = "create" => Now.obj \in Owned(b)
    BY <2>1, LightKinds
  <2>3. b = FALSE => Now.do \notin {"ready", "revoke", "cleaned"}
    BY <2>1, LightKinds
  <2>4. ASSUME b = TRUE, Now.do = "host" PROVE Now.file # "report"
    <3>1. Now \notin {PrepTry, ExceptEC, FinEC, Revoke, Cleaned}
      <4>1. ASSUME NEW u \in {PrepTry, ExceptEC, FinEC, Revoke, Cleaned} PROVE u.do # "host"
        BY DEF PrepTry, ExceptEC, FinEC, Revoke, Cleaned
      <4> QED BY <2>4, <4>1
    <3>2. Now \in LightOver(Steps(b), Owned(b))
      BY <2>1, <2>4, <3>1 DEF Light
    <3>3. Now.file \in Files
      BY <2>4, <3>2, StepsAndNames, OverKinds
    <3> QED BY <3>3 DEF Files, None
  <2> QED BY <2>2, <2>3, <2>4
<1> QED BY <1>1

LEMMA OwnedOn ==
    ASSUME NEW b \in BOOLEAN, Bound(b), registered \subseteq Owned(b), Effects
    PROVE  /\ registered' \subseteq Owned(b)
           /\ b = FALSE => handle' = handle
<1>1. /\ Now.do = "create" => Now.obj \in Owned(b)
      /\ b = TRUE /\ Now.do = "host" => Now.file # "report"
      /\ b = FALSE => Now.do \notin {"ready", "revoke", "cleaned"}
  BY OwnSteps DEF Effects
<1> QED BY <1>1 DEF Effects, Brought

LEMMA WaitingKeeps ==
    ASSUME NEW b \in BOOLEAN, Waits
    PROVE  /\ Calm(b) => Calm(b)' /\ existing' = existing
           /\ Fallen(b) => Fallen(b)'
           /\ Reported(b) => Reported(b)'
           /\ Decided(b) => Decided(b)'
<1>1. UNCHANGED <<todo, registered, unacknowledged, files, verdict, handle>>
  BY DEF Waits
<1>2. ASSUME late = {} PROVE UNCHANGED <<existing, late, arrived>>
  BY <1>2 DEF Waits
<1>3. Swept(b) => Swept(b)'
  BY <1>1 DEF Swept, Settled, Unsettled, AtSweep
<1>4. Falls(b, todo) => Falls(b, todo)'
  BY <1>1
<1>5. Decided(b) => Decided(b)'
  BY <1>1, <1>4 DEF Decided, Keyed
<1> QED BY <1>1, <1>2, <1>3, <1>4, <1>5 DEF Calm, Fallen, Reported

LEMMA ThrowingFalls ==
    ASSUME NEW b \in BOOLEAN, Bound(b), Throws
    PROVE  /\ Falls(b, todo)' /\ "report" \notin files => Fallen(b)'
           /\ Decided(b)' /\ Falls(b, todo)'
<1>1. Effects /\ todo' = Unwound(Rest) /\ UNCHANGED files
  BY DEF Throws
<1>2. todo \in Seq(Any(b)) /\ todo # <<>>
  BY <1>1, BoundIsSequence DEF Effects
<1>3. Rest \in Seq(Any(b))
  BY <1>2 DEF Rest
<1>4. Falls(b, Unwound(Rest))
  BY <1>3, UnwoundFalls
<1>5. Falls(b, todo)'
  BY <1>1, <1>4
<1> QED BY <1>1, <1>5 DEF Fallen, Decided

LEMMA FallenOn ==
    ASSUME NEW b \in BOOLEAN, Bound(b), Fallen(b), [Next]_vars
    PROVE  Fallen(b)'
<1>1. todo \in Seq(Any(b)) /\ Falls(b, todo)
  BY BoundIsSequence DEF Fallen
<1>2. /\ Falls(b, todo)'
      /\ existing' \subseteq existing \/ Waits
      /\ registered' \subseteq registered
      /\ files' \subseteq files
      /\ Now.do \notin {"revoke", "cleaned"} => handle' = handle
  BY <1>1, FallsOn
<1> QED BY <1>2 DEF Fallen

(* What is not registered is gone, while nothing came late.                *)
LEMMA AllRegistered ==
    ASSUME LeftoversExplained
    PROVE  /\ arrived = {} /\ unacknowledged = {} => existing \subseteq registered
           /\ existing \cap ExecutorObjects \subseteq registered \cup arrived
  BY OwnersAssumption DEF LeftoversExplained

LEMMA ReportFiled ==
    ASSUME NEW b \in BOOLEAN, Bound(b), registered \subseteq Owned(b), LeftoversExplained,
           b = FALSE => Decided(b), Calm(b), NEW P, GoesBy(P), Details,
           Now.do = "host", Now.file = "report"
    PROVE  Calm(b)' \/ Reported(b)'
<1>0. /\ todo # <<>> /\ todo' = Before(P, Rest) /\ Gives(Now, P) /\ Effects
      /\ Now.do # "create" => registered' \subseteq registered
  BY GoneBy
<1>1. b = FALSE
  <2>1. /\ Now.do = "create" => Now.obj \in Owned(b)
        /\ b = TRUE /\ Now.do = "host" => Now.file # "report"
        /\ b = FALSE => Now.do \notin {"ready", "revoke", "cleaned"}
    BY <1>0, OwnSteps
  <2> QED BY <2>1
<1>2. Settled(b)
  BY <1>0, SettledNow DEF Calm
<1>3. registered = {} /\ existing = {}
  <2>1. Owned(b) = SandboxObjects
    BY <1>1 DEF Owned
  <2>2. registered = {}
    BY <1>2, <2>1 DEF Settled
  <2> QED BY <2>2, AllRegistered DEF Calm
<1>4. existing' = {} /\ registered' = {} /\ late' = {} /\ verdict' = verdict
  BY <1>0, <1>3 DEF Effects, Brought, Calm
<1>5. Now \in Barren(b) /\ Rest \in Seq(Barren(b)) /\ P \in Seq(Barren(b))
  <2>1. Now \in Barren(b) /\ Rest \in Seq(Barren(b))
    BY <1>0, <1>2, HeadTailProperties DEF Settled, Now, Rest
  <2> QED BY <1>0, <2>1, BarrenGives
<1>6. Before(P, Rest) \in Seq(Barren(b))
  BY <1>5, BeforeStays
<1>7. todo' \in Seq(Ending(b))
  <2>1. Barren(b) \subseteq Ending(b)
    BY DEF Ending
  <2>2. Seq(Barren(b)) \subseteq Seq(Ending(b))
    BY <2>1, SeqMonotonic
  <2> QED BY <1>0, <1>6, <2>2
<1>8. verdict # None
  <2>1. ~Falls(b, todo)
    <3> SUFFICES ASSUME Falls(b, todo) PROVE FALSE
      OBVIOUS
    <3>1. /\ todo # <<>>
          /\ Now.do \in {"raise", "raised"} \/ Now \in Falling
          /\ Now.do \in {"raise", "raised", "remove", "release", "cleanup", "sweep", "discard",
                         "revoke", "cleaned"}
      BY FallsNow
    <3> QED BY <3>1
  <2>2. ~Keyed(b, todo)
    <3> SUFFICES ASSUME NEW i \in DOMAIN todo, todo[i] \in Keys(b) PROVE FALSE
      BY DEF Keyed
    <3>1. todo \in Seq(Barren(b))
      BY <1>2 DEF Settled
    <3>2. todo[i] \in Barren(b)
      BY <3>1, LenProperties, ElementOfSeq
    <3>3. todo[i].do \in {"judge", "judge-differential", "classify", "try"}
      BY KeyKinds
    <3> QED BY <3>2, <3>3, BarrenKinds
  <2> QED BY <1>1, <2>1, <2>2 DEF Decided
<1>9. files' \subseteq files \cup {"report"}
  BY <1>0 DEF Effects
<1>10. CASE "report" \in files'
  BY <1>1, <1>4, <1>7, <1>8, <1>10 DEF Reported, Ending
<1>11. CASE "report" \notin files'
  <2>1. Swept(b)'
    BY SweptOn DEF Calm
  <2>2. UNCHANGED <<late, arrived, unacknowledged>>
    BY DEF GoesBy
  <2> QED BY <1>11, <2>1, <2>2 DEF Calm
<1> QED BY <1>10, <1>11

LEMMA CalmOn ==
    ASSUME NEW b \in BOOLEAN, Bound(b), registered \subseteq Owned(b), LeftoversExplained,
           b = FALSE => Decided(b), Calm(b), NEW P, GoesBy(P), Details
    PROVE  Calm(b)' \/ Reported(b)'
<1>1. CASE Now.do = "host" /\ Now.file = "report"
  BY <1>1, ReportFiled
<1>2. CASE ~(Now.do = "host" /\ Now.file = "report")
  <2>1. Swept(b)'
    BY SweptOn DEF Calm
  <2>2. UNCHANGED <<late, arrived, unacknowledged>> /\ Effects
    BY DEF GoesBy
  <2>3. "report" \notin files'
    BY <1>2, <2>2 DEF Effects, Calm
  <2> QED BY <2>1, <2>2, <2>3 DEF Calm
<1> QED BY <1>1, <1>2

LEMMA EndingStays ==
    ASSUME NEW b \in BOOLEAN, b = FALSE, NEW s \in Seq(Ending(b))
    PROVE  Unwound(s) \in Seq(Ending(b))
<1>1. Barren(b) \subseteq Ending(b) /\ Raise \in Ending(b) /\ [do |-> "raised"] \in Ending(b)
  BY DEF Ending
<1>2. Seq(Barren(b)) \subseteq Seq(Ending(b))
  BY <1>1, SeqMonotonic
<1>3. Raised \in Seq(Ending(b))
  BY <1>1 DEF Raised
<1>4. ASSUME NEW u \in Ending(b)
      PROVE  /\ u.do # "catch"
             /\ u.do \in {"finally", "except"} => u.then \in Seq(Ending(b))
  <2>1. CASE u \in Barren(b)
    BY <1>2, <2>1, BarrenKinds
  <2>2. CASE u \in {Raise, [do |-> "raised"]}
    BY <2>2 DEF Raise
  <2> QED BY <2>1, <2>2 DEF Ending
<1> QED BY <1>1, <1>3, <1>4, UnwoundStays

LEMMA ReportedOn ==
    ASSUME NEW b \in BOOLEAN, Reported(b), Throws \/ \E P : GoesBy(P)
    PROVE  Reported(b)'
<1>0. /\ b = FALSE /\ "report" \in files /\ existing = {} /\ late = {} /\ registered = {}
      /\ verdict # None /\ todo \in Seq(Ending(b))
  BY DEF Reported
<1>1. Effects /\ todo # <<>>
  BY DEF Throws, GoesBy, Effects
<1>2. Now \in Ending(b) /\ Rest \in Seq(Ending(b))
  BY <1>0, <1>1, HeadTailProperties DEF Now, Rest
<1>3. Now.do \in {"remove", "release", "cleanup", "sweep", "discard", "finally", "except",
                  "host", "raise", "raised"} /\ (Now.do = "discard" => Now.file \in Files)
  <2>1. CASE Now \in Barren(b)
    BY <1>0, <2>1, BarrenKinds
  <2>2. CASE Now \in {Raise, [do |-> "raised"]}
    BY <2>2 DEF Raise
  <2> QED BY <1>2, <2>1, <2>2 DEF Ending
<1>4. existing' = {} /\ late' = {} /\ registered' = {} /\ verdict' = verdict
  BY <1>0, <1>1, <1>3 DEF Effects, Brought
<1>5. "report" \in files'
  <2>1. "report" \notin Files
    BY DEF Files, None
  <2> QED BY <1>0, <1>1, <1>3, <2>1 DEF Effects
<1>6. todo' \in Seq(Ending(b))
  <2>1. CASE Throws
    <3>1. todo' = Unwound(Rest)
      BY <2>1 DEF Throws
    <3>2. Unwound(Rest) \in Seq(Ending(b))
      BY <1>0, <1>2, EndingStays
    <3> QED BY <3>1, <3>2
  <2>2. ASSUME NEW P, GoesBy(P) PROVE todo' \in Seq(Ending(b))
    <3>0. /\ todo # <<>> /\ todo' = Before(P, Rest) /\ Gives(Now, P) /\ Effects
          /\ Now.do # "create" => registered' \subseteq registered
      BY <2>2, GoneBy
    <3>1. Now \in Barren(b)
      <4>1. Now.do \notin {"raise", "raised"}
        BY <3>0 DEF Gives
      <4> QED BY <1>2, <4>1 DEF Ending, Raise
    <3>2. P \in Seq(Barren(b))
      BY <3>0, <3>1, BarrenGives
    <3>3. P \in Seq(Ending(b))
      <4>1. Barren(b) \subseteq Ending(b)
        BY DEF Ending
      <4> QED BY <3>2, <4>1, SeqMonotonic
    <3> QED BY <1>2, <3>0, <3>3, BeforeStays
  <2> QED BY <2>1, <2>2
<1> QED BY <1>0, <1>4, <1>5, <1>6 DEF Reported, Ending
----------------------------------------------------------------------------
(* How the executor is closed.  ExecutorCleanup comes from a handler, and  *)
(* runs as a whole: when "cleaned" is next, its sweep has left nothing of  *)
(* the executor's registered.                                              *)
Plain == Core(TRUE) \cup {FinEC, Trial(TRUE), Whole(TRUE)}
Closing ==
    \/ todo \in Seq(Plain)
    \/ \E w \in Seq(Plain) :
          \/ todo = Before(ExecutorCleanup, w)
          \/ todo = Before(<<Cleanup(ExecutorObjects)>>, Before(<<Cleaned>>, w))
          \/ AtSweep(ExecutorObjects, Before(<<Cleaned>>, w))
          \/ todo = Before(<<Cleaned>>, w) /\ registered \cap ExecutorObjects = {}

LEMMA ClassSequences ==
    ASSUME NEW A, NEW B, A \subseteq B
    PROVE  Seq(A) \subseteq Seq(B)
  OBVIOUS

(* What the instructions outside ExecutorCleanup are.                      *)
LEMMA PlainKinds ==
    /\ LightOver(Steps(TRUE), Owned(TRUE)) \subseteq Plain /\ Core(TRUE) \subseteq Plain
    /\ Raise \in Plain /\ <<Raise>> \in Seq(Plain) /\ Raised \in Seq(Plain)
    /\ \A u \in Plain : /\ u.do \notin {"revoke", "cleaned", "catch"}
                        /\ u.do \in {"finally", "except"} =>
                              u.then \in Seq(Plain) \/ u.then = ExecutorCleanup
<1> DEFINE L == LightOver(Steps(TRUE), Owned(TRUE))
<1>0. TRUE \in BOOLEAN /\ L \subseteq Core(TRUE) /\ Core(TRUE) \subseteq Plain
  BY DEF Core, Plain
<1>1. /\ Steps(TRUE) \in SUBSET {"ready", "revalidate"} /\ Owned(TRUE) \in SUBSET Names
      /\ Tidying(Owned(TRUE)) \subseteq L
  BY <1>0, StepsAndNames, ClassesOver
<1>2. Raise \in L /\ [do |-> "raised"] \in L
  <2>1. Raise \in SimpleOver(Steps(TRUE), Owned(TRUE))
    BY DEF Raise, SimpleOver
  <2>2. [do |-> "raised"] \in SimpleOver(Steps(TRUE), Owned(TRUE))
    BY DEF SimpleOver
  <2> QED BY <2>1, <2>2, ClassesOver
<1>3. Raise \in Plain /\ [do |-> "raised"] \in Plain
  BY <1>0, <1>2
<1>4. <<Raise>> \in Seq(Plain) /\ Raised \in Seq(Plain)
  BY <1>3, OneOf DEF Raised
<1>5. ASSUME NEW u \in Plain
      PROVE  /\ u.do \notin {"revoke", "cleaned", "catch"}
             /\ u.do \in {"finally", "except"} =>
                   u.then \in Seq(Plain) \/ u.then = ExecutorCleanup
  <2>1. CASE u \in L
    <3>1. /\ u.do \notin {"revoke", "cleaned", "catch"}
          /\ u.do \in {"finally", "except"} => u.then \in Seq(Tidying(Owned(TRUE)))
      <4> HIDE DEF L
      <4>1. u.do \notin {"attach", "catch", "judge", "judge-differential", "classify",
                           "revoke", "cleaned"}
        BY <1>1, <2>1, OverKinds DEF L
      <4>2. u.do \in {"finally", "except"} => u.then \in Seq(Tidying(Owned(TRUE)))
        BY <1>1, <2>1, OverKinds DEF L
      <4> QED BY <4>1, <4>2
    <3>2. Seq(Tidying(Owned(TRUE))) \subseteq Seq(Plain)
      <4>1. Tidying(Owned(TRUE)) \subseteq Plain
        BY <1>0, <1>1
      <4> QED BY <4>1, ClassSequences
    <3> QED BY <3>1, <3>2
  <2>2. CASE u \in {PrepTry}
    BY <2>2 DEF PrepTry
  <2>3. CASE u \in {ExceptEC, FinEC}
    BY <2>3 DEF ExceptEC, FinEC
  <2>4. CASE u \in Heavy
    BY <2>4, HeavyKinds DEF Attach
  <2>5. CASE u \in {Judging(TRUE), Classifying}
    BY <2>5 DEF Judging, Classifying
  <2>6. CASE u \in {Trial(TRUE), Whole(TRUE)}
    <3>1. u.do = "try"
      BY <1>0, <2>6, MarksAhead
    <3> QED BY <3>1
  <2> QED BY <2>1, <2>2, <2>3, <2>4, <2>5, <2>6 DEF Plain, Core
<1> QED BY <1>0, <1>3, <1>4, <1>5

LEMMA WholeGives ==
    /\ Whole(TRUE).do = "try" /\ Trial(TRUE) \in Plain /\ FinEC \in Plain /\ PrepTry \in Plain
    /\ \A P : Gives(Whole(TRUE), P) => /\ P = <<PrepTry>> \o (<<Trial(TRUE)>> \o <<FinEC>>)
                                       /\ P \in Seq(Plain)
<1>1. /\ Whole(TRUE).do = "try"
      /\ Entered(Whole(TRUE)) = <<PrepTry>> \o (<<Trial(TRUE)>> \o <<FinEC>>)
  BY DifferentialEntered
<1>2. Trial(TRUE) \in Plain /\ FinEC \in Plain /\ PrepTry \in Plain
  BY DEF Plain, Core
<1>3. <<PrepTry>> \o (<<Trial(TRUE)>> \o <<FinEC>>) \in Seq(Plain)
  BY <1>2, Joined, OneOf
<1>4. ASSUME NEW P, Gives(Whole(TRUE), P) PROVE P = Entered(Whole(TRUE))
  BY <1>1, <1>4 DEF Gives
<1> QED BY <1>1, <1>2, <1>3, <1>4

LEMMA TrialGives ==
    /\ Trial(TRUE).do = "try"
    /\ \A P : Gives(Trial(TRUE), P) => P \in Seq(Core(TRUE))
<1>1. TRUE \in BOOLEAN /\ Trial(TRUE).do = "try"
  BY MarksAhead
<1>2. PICK p : Entered(Trial(TRUE)) = p \o (<<Judging(TRUE)>> \o <<FinSC>>)
               /\ p \in Seq(Running(TRUE))
  BY <1>1, TrialEntered
<1>3. Running(TRUE) \subseteq Core(TRUE)
  BY <1>1, LateIsLight DEF Running, Core
<1>4. FinSC \in LightOver(Steps(TRUE), Owned(TRUE))
  <2>1. SandboxCleanup \in Seq(Tidying(Owned(TRUE)))
    BY <1>1, StepsAndNames, CleanupIsTidying
  <2> QED BY <2>1 DEF FinSC, LightOver
<1>5. <<Judging(TRUE)>> \o <<FinSC>> \in Seq(Core(TRUE))
  <2>1. Judging(TRUE) \in Core(TRUE) /\ FinSC \in Core(TRUE)
    BY <1>4 DEF Core
  <2> QED BY <2>1, Joined, OneOf
<1>6. p \in Seq(Core(TRUE))
  BY <1>2, <1>3, ClassSequences
<1>7. Entered(Trial(TRUE)) \in Seq(Core(TRUE))
  BY <1>2, <1>5, <1>6, Joined
<1>8. ASSUME NEW P, Gives(Trial(TRUE), P) PROVE P = Entered(Trial(TRUE))
  BY <1>1, <1>8 DEF Gives
<1> QED BY <1>1, <1>7, <1>8

LEMMA PlainGives ==
    ASSUME NEW u \in Plain, NEW P, Gives(u, P)
    PROVE  P \in Seq(Plain) \/ (u = FinEC /\ P = ExecutorCleanup)
<1>1. CASE u \in Core(TRUE)
  <2>1. P \in Seq(Core(TRUE))
    BY <1>1, CoreGives
  <2> QED BY <2>1, PlainKinds, ClassSequences
<1>2. CASE u = FinEC
  <2>1. FinEC.do = "finally" /\ FinEC.then = ExecutorCleanup
    BY DEF FinEC
  <2> QED BY <1>2, <2>1 DEF Gives
<1>3. CASE u = Trial(TRUE)
  <2>1. P \in Seq(Core(TRUE))
    BY <1>3, TrialGives
  <2> QED BY <2>1, PlainKinds, ClassSequences
<1>4. CASE u = Whole(TRUE)
  BY <1>4, WholeGives
<1> QED BY <1>1, <1>2, <1>3, <1>4 DEF Plain

(* An exception goes to ExecutorCleanup, or to a handler that is none of it.*)
LEMMA UnwoundCloses ==
    ASSUME NEW s \in Seq(Plain)
    PROVE  \/ Unwound(s) \in Seq(Plain)
           \/ \E w \in Seq(Plain) : Unwound(s) = Before(ExecutorCleanup, w)
<1>1. CASE Handlers(s) = {}
  BY <1>1, PlainKinds DEF Unwound
<1>2. CASE Handlers(s) # {}
  <2> DEFINE i == Innermost(s)
             w == <<Raise>> \o SubSeq(s, i + 1, Len(s))
  <2>1. i \in Handlers(s) /\ i \in 1 .. Len(s)
    BY <1>2, InnermostIsFirst
  <2>2. s[i] \in Plain /\ s[i].do \in {"finally", "except", "catch"}
    BY <2>1 DEF Handlers
  <2>3. /\ s[i].do # "catch"
        /\ s[i].then \in Seq(Plain) \/ s[i].then = ExecutorCleanup
    BY <2>2, PlainKinds
  <2>4. Unwound(s) = (s[i].then \o <<Raise>>) \o SubSeq(s, i + 1, Len(s))
    BY <1>2, <2>3 DEF Unwound
  <2>5. SubSeq(s, i + 1, Len(s)) \in Seq(Plain) /\ <<Raise>> \in Seq(Plain)
    <3>1. <<>> \in Seq(Plain)
      OBVIOUS
    <3> HIDE DEF i
    <3>2. SubSeq(s, i + 1, Len(s)) \in Seq(Plain)
      BY <2>1, <3>1, LastOfTwo
    <3> QED BY <3>2, PlainKinds
  <2>6. w \in Seq(Plain)
    <3> DEFINE rest == SubSeq(s, i + 1, Len(s))
    <3> HIDE DEF rest
    <3> QED BY <2>5, Joined DEF rest
  <2>7. CASE s[i].then \in Seq(Plain)
    <3> DEFINE then == s[i].then
               rest == SubSeq(s, i + 1, Len(s))
    <3>1. then \in Seq(Plain) /\ rest \in Seq(Plain) /\ Unwound(s) = (then \o <<Raise>>) \o rest
      BY <2>4, <2>5, <2>7
    <3> HIDE DEF then, rest
    <3> QED BY <2>5, <3>1, Joined
  <2>8. CASE s[i].then = ExecutorCleanup
    <3> DEFINE rest == SubSeq(s, i + 1, Len(s))
               S == Plain \cup Falling
    <3>1. Unwound(s) = (ExecutorCleanup \o <<Raise>>) \o rest /\ rest \in Seq(Plain)
      BY <2>4, <2>5, <2>8
    <3>2. ExecutorCleanup \in Seq(S) /\ <<Raise>> \in Seq(S) /\ rest \in Seq(S)
      <4>1. Plain \subseteq S /\ Falling \subseteq S
        OBVIOUS
      <4> HIDE DEF S, rest
      <4> QED BY <2>5, <3>1, <4>1, ClassSequences, ExecutorCleanupFalls
    <3> HIDE DEF rest, S
    <3>3. (ExecutorCleanup \o <<Raise>>) \o rest = ExecutorCleanup \o (<<Raise>> \o rest)
      BY <3>2, SetApart
    <3>4. Unwound(s) = Before(ExecutorCleanup, <<Raise>> \o rest)
      BY <3>1, <3>3 DEF Before
    <3> QED BY <2>6, <3>4 DEF rest
  <2> QED BY <2>3, <2>7, <2>8
<1> QED BY <1>1, <1>2

(* ExecutorCleanup, from its first step on.                                *)
LEMMA ClosingSteps ==
    ASSUME NEW w \in Seq(Plain)
    PROVE  /\ Before(ExecutorCleanup, w) # <<>> /\ Head(Before(ExecutorCleanup, w)) = Revoke
           /\ Tail(Before(ExecutorCleanup, w))
                 = Before(<<Cleanup(ExecutorObjects)>>, Before(<<Cleaned>>, w))
           /\ Before(<<Cleaned>>, w) \in Seq(Plain \cup {Cleaned})
           /\ Before(<<Cleaned>>, w) # <<>> /\ Head(Before(<<Cleaned>>, w)) = Cleaned
           /\ Tail(Before(<<Cleaned>>, w)) = w
           /\ Unwound(Before(<<Cleaned>>, w)) = Unwound(w)
<1> DEFINE T == Plain \cup {Cleaned}
           S == (Plain \cup Falling) \cup {Cleaned}
<1>1. /\ Before(<<Cleaned>>, w) \in Seq(Plain \cup {Cleaned})
      /\ Before(<<Cleaned>>, w) # <<>> /\ Head(Before(<<Cleaned>>, w)) = Cleaned
      /\ Tail(Before(<<Cleaned>>, w)) = w
  BY BeforeOne
<1>2. w \in Seq(S) /\ Revoke \in S /\ Cleaned \in S /\ Cleanup(ExecutorObjects) \in S
  <2>1. Plain \subseteq S
    OBVIOUS
  <2>2. w \in Seq(S)
    <3> HIDE DEF S
    <3> QED BY <2>1, ClassSequences
  <2>3. Cleanup(ExecutorObjects) \in Tidying(Names)
    BY AllNamed DEF Tidying, Cleanup
  <2> QED BY <2>2, <2>3 DEF Falling
<1>3. ExecutorCleanup = <<Revoke>> \o (<<Cleanup(ExecutorObjects)>> \o <<Cleaned>>)
  BY DEF ExecutorCleanup, Cleaned
<1>4. Before(ExecutorCleanup, w)
        = Before(<<Revoke>>, Before(<<Cleanup(ExecutorObjects)>>, Before(<<Cleaned>>, w)))
  <2> HIDE DEF S
  <2> DEFINE r == <<Revoke>>
             c == <<Cleanup(ExecutorObjects)>>
             d == <<Cleaned>>
  <2>1. r \in Seq(S) /\ c \in Seq(S) /\ d \in Seq(S)
    BY <1>2, OneOf
  <2>2. ExecutorCleanup = r \o (c \o d)
    BY <1>3
  <2> HIDE DEF r, c, d
  <2>3. c \o d \in Seq(S)
    BY <2>1, Joined
  <2>4. (r \o (c \o d)) \o w = r \o ((c \o d) \o w)
    BY <1>2, <2>1, <2>3, SetApart
  <2>5. (c \o d) \o w = c \o (d \o w)
    BY <1>2, <2>1, SetApart
  <2>6. Before(ExecutorCleanup, w) = Before(r, Before(c, Before(d, w)))
    BY <2>2, <2>4, <2>5 DEF Before
  <2> QED BY <2>6 DEF r, c, d
<1>5. /\ Before(ExecutorCleanup, w) # <<>> /\ Head(Before(ExecutorCleanup, w)) = Revoke
      /\ Tail(Before(ExecutorCleanup, w))
            = Before(<<Cleanup(ExecutorObjects)>>, Before(<<Cleaned>>, w))
  <2> DEFINE d == Before(<<Cleaned>>, w)
             c == Before(<<Cleanup(ExecutorObjects)>>, d)
  <2>1. d \in Seq(T)
    BY <1>1
  <2> HIDE DEF d, T
  <2>2. c \in Seq(T \cup {Cleanup(ExecutorObjects)})
    BY <2>1, BeforeOne
  <2> HIDE DEF c
  <2>3. /\ Before(<<Revoke>>, c) # <<>> /\ Head(Before(<<Revoke>>, c)) = Revoke
        /\ Tail(Before(<<Revoke>>, c)) = c
    BY <2>2, BeforeOne
  <2>4. Before(ExecutorCleanup, w) = Before(<<Revoke>>, c)
    BY <1>4 DEF c, d
  <2> QED BY <2>3, <2>4 DEF c, d
<1>6. Unwound(Before(<<Cleaned>>, w)) = Unwound(w)
  <2>1. Handlers(<<Cleaned>>) = {}
    BY DEF Handlers, Cleaned
  <2>2. <<Cleaned>> \in Seq(S)
    BY <1>2, OneOf
  <2> HIDE DEF S
  <2>3. Unwound(<<Cleaned>> \o w) = Unwound(w)
    BY <1>2, <2>1, <2>2, UnwoundPast
  <2> QED BY <2>3 DEF Before
<1> QED BY <1>1, <1>5, <1>6

(* Where ExecutorCleanup stands, by what is next.                          *)
LEMMA ClosingNow ==
    ASSUME Closing, todo # <<>>
    PROVE  /\ Now.do = "cleaned" => registered \cap ExecutorObjects = {}
           /\ \/ todo \in Seq(Plain) /\ Now \in Plain /\ Rest \in Seq(Plain)
              \/ \E w \in Seq(Plain) :
                    \/ Now = Revoke
                       /\ Rest = Before(<<Cleanup(ExecutorObjects)>>, Before(<<Cleaned>>, w))
                    \/ Now.do = "cleanup"
                       /\ todo = Before(<<Cleanup(ExecutorObjects)>>, Before(<<Cleaned>>, w))
                    \/ /\ Now.do = "sweep" /\ Rest = Before(<<Cleaned>>, w)
                       /\ AtSweep(ExecutorObjects, Before(<<Cleaned>>, w))
                    \/ Now = Cleaned /\ Rest = w
<1>1. CASE todo \in Seq(Plain)
  <2>1. Now \in Plain /\ Rest \in Seq(Plain)
    BY <1>1 DEF Now, Rest
  <2> QED BY <1>1, <2>1, PlainKinds
<1>2. CASE \E w \in Seq(Plain) : todo = Before(ExecutorCleanup, w)
  <2>1. PICK w \in Seq(Plain) : todo = Before(ExecutorCleanup, w)
    BY <1>2
  <2>2. /\ Now = Revoke
        /\ Rest = Before(<<Cleanup(ExecutorObjects)>>, Before(<<Cleaned>>, w))
    BY <2>1, ClosingSteps DEF Now, Rest
  <2>3. Revoke.do = "revoke"
    BY DEF Revoke
  <2> QED BY <2>2, <2>3
<1>3. CASE \E w \in Seq(Plain) :
             todo = Before(<<Cleanup(ExecutorObjects)>>, Before(<<Cleaned>>, w))
  <2>1. PICK w \in Seq(Plain) :
             todo = Before(<<Cleanup(ExecutorObjects)>>, Before(<<Cleaned>>, w))
    BY <1>3
  <2> DEFINE d == Before(<<Cleaned>>, w)
  <2>2. d \in Seq(Plain \cup {Cleaned})
    BY ClosingSteps
  <2> HIDE DEF d
  <2>3. Head(Before(<<Cleanup(ExecutorObjects)>>, d)) = Cleanup(ExecutorObjects)
    BY <2>2, BeforeOne
  <2>4. Now.do = "cleanup"
    BY <2>1, <2>3 DEF Now, Cleanup, d
  <2> QED BY <2>1, <2>4
<1>4. CASE \E w \in Seq(Plain) : AtSweep(ExecutorObjects, Before(<<Cleaned>>, w))
  <2>1. PICK w \in Seq(Plain) : AtSweep(ExecutorObjects, Before(<<Cleaned>>, w))
    BY <1>4
  <2> DEFINE d == Before(<<Cleaned>>, w)
  <2>2. d \in Seq(Plain \cup {Cleaned}) /\ AtSweep(ExecutorObjects, d)
    BY <2>1, ClosingSteps
  <2> HIDE DEF d
  <2>3. PICK left, ok : todo = Before(<<Sweeping(left, ok)>>, d)
    BY <2>2 DEF AtSweep
  <2>4. Now = Sweeping(left, ok) /\ Rest = d
    BY <2>2, <2>3, BeforeOne DEF Now, Rest
  <2>5. Now.do = "sweep"
    BY <2>4 DEF Sweeping
  <2> QED BY <2>1, <2>4, <2>5 DEF d
<1>5. CASE \E w \in Seq(Plain) :
             todo = Before(<<Cleaned>>, w) /\ registered \cap ExecutorObjects = {}
  <2>1. PICK w \in Seq(Plain) :
             todo = Before(<<Cleaned>>, w) /\ registered \cap ExecutorObjects = {}
    BY <1>5
  <2>2. Now = Cleaned /\ Rest = w
    BY <2>1, ClosingSteps DEF Now, Rest
  <2> QED BY <2>1, <2>2
<1> QED BY <1>1, <1>2, <1>3, <1>4, <1>5 DEF Closing

LEMMA ClosingThrown ==
    ASSUME Closing, Throws
    PROVE  Closing'
<1>1. /\ todo # <<>> /\ todo' = Unwound(Rest)
      /\ Now.do \notin {"revoke", "cleanup", "cleaned"}
  BY DEF Throws, Effects
<1>2. Revoke.do = "revoke" /\ Cleaned.do = "cleaned"
  BY DEF Revoke, Cleaned
<1>3. \E s \in Seq(Plain) : todo' = Unwound(s)
  BY <1>1, <1>2, ClosingNow, ClosingSteps
<1>4. \/ todo' \in Seq(Plain)
      \/ \E w \in Seq(Plain) : todo' = Before(ExecutorCleanup, w)
  BY <1>3, UnwoundCloses
<1> QED BY <1>4 DEF Closing

LEMMA ClosingOn ==
    ASSUME Closing, NEW P, GoesBy(P), Details
    PROVE  Closing'
<1>1. /\ todo # <<>> /\ todo' = Before(P, Rest) /\ Gives(Now, P)
      /\ Now.do # "create" => registered' \subseteq registered
  BY GoneBy
<1>2. Revoke.do = "revoke" /\ Cleaned.do = "cleaned"
  BY DEF Revoke, Cleaned
<1>3. CASE Now \in Plain /\ Rest \in Seq(Plain)
  <2>1. P \in Seq(Plain) \/ P = ExecutorCleanup
    BY <1>1, <1>3, PlainGives
  <2>2. CASE P \in Seq(Plain)
    BY <1>1, <1>3, <2>2, BeforeStays DEF Closing
  <2>3. CASE P = ExecutorCleanup
    BY <1>1, <1>3, <2>3 DEF Closing
  <2> QED BY <2>1, <2>2, <2>3
<1>4. ASSUME NEW w \in Seq(Plain), Now = Revoke,
             Rest = Before(<<Cleanup(ExecutorObjects)>>, Before(<<Cleaned>>, w))
      PROVE  Closing'
  <2>1. P = <<>>
    BY <1>1, <1>2, <1>4, PlainGivesNothing
  <2> DEFINE d == Before(<<Cleaned>>, w)
             c == Before(<<Cleanup(ExecutorObjects)>>, d)
  <2>2. d \in Seq(Plain \cup {Cleaned})
    BY ClosingSteps
  <2> HIDE DEF d
  <2>3. c \in Seq((Plain \cup {Cleaned}) \cup {Cleanup(ExecutorObjects)})
    BY <2>2, BeforeOne
  <2> HIDE DEF c
  <2>4. Before(<<>>, c) = c
    BY <2>3, BeforeTwo
  <2>5. todo' = c
    BY <1>1, <1>4, <2>1, <2>4 DEF c, d
  <2> QED BY <2>5 DEF Closing, c, d
<1>5. ASSUME NEW w \in Seq(Plain),
             todo = Before(<<Cleanup(ExecutorObjects)>>, Before(<<Cleaned>>, w))
      PROVE  Closing'
  <2> DEFINE d == Before(<<Cleaned>>, w)
  <2>1. d \in Seq(Plain \cup {Cleaned}) /\ todo = Before(<<Cleanup(ExecutorObjects)>>, d)
    BY <1>5, ClosingSteps
  <2> HIDE DEF d
  <2>2. AtSweep(ExecutorObjects, d)'
    BY <2>1, SweepBegins
  <2>3. \E v \in Seq(Plain) : AtSweep(ExecutorObjects, Before(<<Cleaned>>, v))'
    BY <2>2 DEF d
  <2> QED BY <2>3 DEF Closing
<1>6. ASSUME NEW w \in Seq(Plain), Now.do = "sweep",
             AtSweep(ExecutorObjects, Before(<<Cleaned>>, w))
      PROVE  Closing'
  <2> DEFINE d == Before(<<Cleaned>>, w)
  <2>1. d \in Seq(Plain \cup {Cleaned}) /\ AtSweep(ExecutorObjects, d)
    BY <1>6, ClosingSteps
  <2>2. registered' \subseteq registered
    BY <1>1, <1>6
  <2> HIDE DEF d
  <2>3. \/ AtSweep(ExecutorObjects, d)'
        \/ todo' = d /\ registered' \cap ExecutorObjects = {}
    BY <2>1, <2>2, SweepGoesOn
  <2>4. CASE AtSweep(ExecutorObjects, d)'
    <3>1. \E v \in Seq(Plain) : AtSweep(ExecutorObjects, Before(<<Cleaned>>, v))'
      BY <2>4 DEF d
    <3> QED BY <3>1 DEF Closing
  <2>5. CASE todo' = d /\ registered' \cap ExecutorObjects = {}
    BY <2>5 DEF d, Closing
  <2> QED BY <2>3, <2>4, <2>5
<1>7. ASSUME NEW w \in Seq(Plain), Now = Cleaned, Rest = w
      PROVE  Closing'
  <2>1. P = <<>>
    BY <1>1, <1>2, <1>7, PlainGivesNothing
  <2>2. todo' = w
    BY <1>1, <1>7, <2>1, BeforeTwo
  <2> QED BY <2>2 DEF Closing
<1>8. \/ Now \in Plain /\ Rest \in Seq(Plain)
      \/ \E w \in Seq(Plain) :
            \/ Now = Revoke
               /\ Rest = Before(<<Cleanup(ExecutorObjects)>>, Before(<<Cleaned>>, w))
            \/ todo = Before(<<Cleanup(ExecutorObjects)>>, Before(<<Cleaned>>, w))
            \/ /\ Now.do = "sweep" /\ AtSweep(ExecutorObjects, Before(<<Cleaned>>, w))
            \/ Now = Cleaned /\ Rest = w
  BY <1>1, ClosingNow
<1> QED BY <1>3, <1>4, <1>5, <1>6, <1>7, <1>8

LEMMA FirstAndRest ==
    ASSUME NEW S, todo \in Seq(S), todo # <<>>
    PROVE  Now \in S /\ Rest \in Seq(S)
  BY DEF Now, Rest

(* A closed executor has nothing registered, and nothing creates any more. *)
Closed ==
    handle = "cleaned" =>
        /\ registered \cap ExecutorObjects = {}
        /\ Falls(TRUE, todo) \/ todo \in Seq(Barren(TRUE))

LEMMA ClosedNow ==
    ASSUME Closed, handle = "cleaned", Effects
    PROVE  /\ registered' \subseteq registered
           /\ Now.do # "ready"
<1>1. todo # <<>>
  BY DEF Effects
<1>2. Now.do \notin {"create", "ready"}
  <2>1. CASE Falls(TRUE, todo)
    BY <2>1, FallsNow
  <2>2. CASE todo \in Seq(Barren(TRUE))
    <3>1. Now \in Barren(TRUE)
      BY <1>1, <2>2, FirstAndRest
    <3> QED BY <3>1, BarrenKinds
  <2> QED BY <2>1, <2>2 DEF Closed
<1> QED BY <1>2 DEF Effects, Brought

LEMMA ClosedThrown ==
    ASSUME Closed, Bound(TRUE), Throws
    PROVE  Closed'
<1>1. Effects /\ handle' = handle
  BY DEF Throws
<1>2. Falls(TRUE, todo)'
  BY ThrowingFalls
<1>3. handle = "cleaned" => registered' \subseteq registered
  BY <1>1, ClosedNow
<1> QED BY <1>1, <1>2, <1>3 DEF Closed

LEMMA ClosedOn ==
    ASSUME Closed, Closing, Bound(TRUE), Calm(TRUE) \/ Fallen(TRUE),
           NEW P, GoesBy(P), Details, [Next]_vars
    PROVE  Closed'
<1>1. /\ todo # <<>> /\ todo' = Before(P, Rest) /\ Gives(Now, P) /\ Effects
      /\ todo \in Seq(Any(TRUE))
  BY GoneBy, BoundIsSequence
<1>2. Falls(TRUE, todo) => Falls(TRUE, todo)'
  BY <1>1, FallsOn
<1>3. todo \in Seq(Barren(TRUE)) => todo' \in Seq(Barren(TRUE))
  <2> SUFFICES ASSUME todo \in Seq(Barren(TRUE)) PROVE todo' \in Seq(Barren(TRUE))
    OBVIOUS
  <2>1. Now \in Barren(TRUE) /\ Rest \in Seq(Barren(TRUE))
    BY <1>1, FirstAndRest
  <2>2. P \in Seq(Barren(TRUE))
    BY <1>1, <2>1, BarrenGives
  <2> QED BY <1>1, <2>1, <2>2, BeforeStays
<1>4. CASE handle = "cleaned"
  <2>1. registered' \subseteq registered
    BY <1>1, <1>4, ClosedNow
  <2> QED BY <1>2, <1>3, <1>4, <2>1 DEF Closed
<1>5. CASE handle # "cleaned" /\ Now.do = "cleaned"
  <2>1. registered' = registered /\ registered \cap ExecutorObjects = {}
    BY <1>1, <1>5, ClosingNow DEF Details
  <2>2. Falls(TRUE, todo) \/ todo \in Seq(Barren(TRUE))
    <3>1. CASE Calm(TRUE)
      <4>1. Swept(TRUE)
        BY <3>1 DEF Calm
      <4>2. Settled(TRUE)
        BY <1>1, <1>5, <4>1, SettledNow
      <4> QED BY <4>2 DEF Settled
    <3>2. CASE Fallen(TRUE)
      BY <3>2 DEF Fallen
    <3> QED BY <3>1, <3>2
  <2> QED BY <1>2, <1>3, <2>1, <2>2 DEF Closed
<1>6. CASE handle # "cleaned" /\ Now.do # "cleaned"
  <2>1. handle' # "cleaned"
    <3>1. CASE Now.do = "ready"
      BY <3>1 DEF Details
    <3>2. CASE Now.do = "revoke"
      BY <1>6, <3>2 DEF Details
    <3>3. CASE Now.do \notin {"ready", "revoke", "cleaned"}
      BY <1>1, <1>6, <3>3 DEF Effects
    <3> QED BY <1>6, <3>1, <3>2, <3>3
  <2> QED BY <2>1 DEF Closed
<1> QED BY <1>4, <1>5, <1>6
----------------------------------------------------------------------------
(* While the handle is good: the two volumes that were removed stay away,  *)
(* also when a creation that was given up on is carried out after all, and *)
(* the volume that is lent stays; for what runs now creates and removes    *)
(* the sandbox's objects only, and a helper of that volume.                *)
Honest ==
    /\ {"input", "wheelhouse"} \cap (existing \cup late) = {}
    /\ "dependencies" \in existing /\ late \subseteq LateObjects(TRUE)
Lends ==
    \/ \E x \in Seq(Lending) : todo = Path(x, FinEC, <<>>)
    \/ \E w \in Seq(Any(TRUE)) : todo = Before(ExecutorCleanup, w)
Lent == handle = "ready" => Honest /\ Lends

LEMMA LateObjectsAre ==
    /\ LateObjects(TRUE) = SandboxObjects \cup {"dependenciesHelper"}
    /\ {"input", "wheelhouse", "dependencies"} \cap LateObjects(TRUE) = {}
    /\ {"input", "wheelhouse", "dependencies"} \cap Containers = {}
<1>1. LateObjects(TRUE) = SandboxObjects \cup {"dependenciesHelper"}
  BY DEF LateObjects
<1>2. {"input", "wheelhouse", "dependencies"} \cap LateObjects(TRUE) = {}
  BY <1>1 DEF SandboxObjects
<1>3. /\ DOMAIN SandboxMounts = {"facts", "stage", "owner", "attest", "run", "anchor", "stage2",
                                 "owner2", "attest2", "baseRun", "fixedRun"}
      /\ DOMAIN ExecutorMounts = {"runtime", "inputHelper", "wheelhouseHelper",
             "dependenciesHelper", "inputAnchor", "wheelhouseAnchor", "dependenciesAnchor",
             "download", "install"}
  BY DEF SandboxMounts, ExecutorMounts
<1>4. {"input", "wheelhouse", "dependencies"} \cap Containers = {}
  BY <1>3, OwnersAssumption
<1> QED BY <1>1, <1>2, <1>4

(* No container that may still turn up mounts a volume that was removed.   *)
LEMMA LateMounts ==
    ASSUME NEW o \in LateObjects(TRUE)
    PROVE  {"input", "wheelhouse"}
              \cap ({o} \cup (IF o \in Containers THEN Mounts[o] ELSE {})) = {}
<1>1. o \notin {"input", "wheelhouse"}
  BY LateObjectsAre
<1>2. \A c \in DOMAIN SandboxMounts : {"input", "wheelhouse"} \cap SandboxMounts[c] = {}
  BY DEF SandboxMounts
<1>3. {"input", "wheelhouse"} \cap ExecutorMounts["dependenciesHelper"] = {}
  BY DEF ExecutorMounts
<1>4. o \in DOMAIN ExecutorMounts => o = "dependenciesHelper"
  BY LateObjectsAre DEF ExecutorMounts, SandboxObjects
<1>5. ASSUME o \in Containers PROVE {"input", "wheelhouse"} \cap Mounts[o] = {}
  <2>1. CASE o \in DOMAIN SandboxMounts
    BY <1>2, <2>1, OwnersAssumption
  <2>2. CASE o \in DOMAIN ExecutorMounts
    <3>1. o = "dependenciesHelper" /\ Mounts[o] = ExecutorMounts[o]
      BY <1>4, <2>2, OwnersAssumption
    <3> QED BY <1>3, <3>1
  <2> QED BY <1>5, <2>1, <2>2, OwnersAssumption
<1> QED BY <1>1, <1>5

LEMMA HonestWaits ==
    ASSUME Honest, Waits
    PROVE  Honest'
<1>1. CASE UNCHANGED <<existing, late, arrived>>
  BY <1>1 DEF Honest
<1>2. ASSUME NEW o \in late, late' = late \ {o},
             existing' = existing \cup {o} \cup (IF o \in Containers THEN Mounts[o] ELSE {})
      PROVE  Honest'
  <2> DEFINE new == {o} \cup (IF o \in Containers THEN Mounts[o] ELSE {})
  <2>1. o \in LateObjects(TRUE)
    BY DEF Honest
  <2>2. {"input", "wheelhouse"} \cap new = {}
    BY <2>1, LateMounts
  <2>3. existing' = existing \cup new
    BY <1>2
  <2> HIDE DEF new
  <2> QED BY <1>2, <2>2, <2>3 DEF Honest
<1> QED BY <1>1, <1>2 DEF Waits

LEMMA HonestKept ==
    ASSUME Honest, Effects, Brought \subseteq LateObjects(TRUE), "dependencies" \notin Taken
    PROVE  Honest'
<1>1. /\ existing' \subseteq existing \cup Brought /\ existing \ existing' \subseteq Taken
      /\ late' \subseteq late \cup Brought
  BY DEF Effects
<1> QED BY <1>1, LateObjectsAre DEF Honest

(* What runs while the volume is lent.                                     *)
LEMMA LendingKinds ==
    ASSUME NEW u \in Lending
    PROVE  /\ u.do \in {"create", "exits", "remove", "release"} => u.obj \in LateObjects(TRUE)
           /\ u.do = "sweep" => u.left \subseteq LateObjects(TRUE)
           /\ u.do \notin {"ready", "revoke", "cleaned", "catch"}
           /\ u.do \in {"finally", "except"} => u.then \in Seq(Lending) \/ u = ExceptEC
<1> DEFINE e == LateSteps(TRUE)
           D == LateObjects(TRUE)
           L == LightOver(e, D)
<1>1. e \in SUBSET {"ready", "revalidate"} /\ D \in SUBSET Names /\ e = {"revalidate"}
  <2>1. TRUE \in BOOLEAN
    OBVIOUS
  <2> QED BY <2>1, LateIsLight DEF LateSteps
<1>2. L \subseteq Lending
  BY DEF Lending, Running
<1>3. CASE u \in L
  <2> HIDE DEF e, D
  <2>1. /\ u.do \notin {"catch", "revoke", "cleaned"}
        /\ u.do \in {"ready", "revalidate"} => u.do \in e
        /\ u.do \in {"finally", "except"} => u.then \in Seq(Tidying(D))
        /\ u.do \in {"create", "exits", "remove", "release"} => u.obj \in D
        /\ u.do = "sweep" => u.left \subseteq D
    BY <1>1, <1>3, OverKinds
  <2>2. Seq(Tidying(D)) \subseteq Seq(Lending)
    <3>1. Tidying(D) \subseteq L
      BY ClassesOver
    <3>2. Tidying(D) \subseteq Lending
      BY <1>2, <3>1
    <3> QED BY <3>2, ClassSequences
  <2> QED BY <1>1, <2>1, <2>2 DEF D
<1>4. CASE u \in Heavy
  <2>1. u.do \in {"attach", "try"}
    BY <1>4, HeavyKinds DEF Attach
  <2> QED BY <2>1
<1>5. CASE u = ExceptEC
  BY <1>5 DEF ExceptEC
<1>6. CASE u = Trial(TRUE)
  BY <1>6, TrialGives
<1>7. CASE u \in {Judging(TRUE), Classifying}
  <2>1. Judging(TRUE).do = "judge-differential" /\ Classifying.do = "classify"
    BY DEF Judging, Classifying
  <2>2. u.do \in {"judge-differential", "classify"}
    BY <1>7, <2>1
  <2> QED BY <2>2
<1> QED BY <1>3, <1>4, <1>5, <1>6, <1>7 DEF Lending, Running

LEMMA LendingKeeps ==
    ASSUME Now \in Lending, Effects, Honest
    PROVE  Honest' /\ handle' = handle
<1>1. /\ Now.do \in {"create", "exits", "remove", "release"} => Now.obj \in LateObjects(TRUE)
      /\ Now.do = "sweep" => Now.left \subseteq LateObjects(TRUE)
      /\ Now.do \notin {"ready", "revoke", "cleaned"}
  BY LendingKinds
<1>2. Brought \subseteq LateObjects(TRUE)
  BY <1>1 DEF Brought
<1>3. "dependencies" \notin Taken
  BY <1>1, LateObjectsAre DEF Taken
<1>4. Honest'
  BY <1>2, <1>3, HonestKept
<1> QED BY <1>1, <1>4 DEF Effects

LEMMA LendingIsAny ==
    /\ Lending \subseteq Any(TRUE) /\ FinEC \in Any(TRUE) /\ ExceptEC \in Any(TRUE)
    /\ Raise \in Any(TRUE) /\ Raise \in Lending
    /\ ExecutorCleanup \in Seq(Any(TRUE)) /\ PrepTry \in Any(TRUE)
    /\ \A v \in Any(TRUE) : /\ v.do # "catch"
                            /\ v.do \in {"finally", "except"} => v.then \in Seq(Any(TRUE))
<1>0. TRUE \in BOOLEAN
  OBVIOUS
<1>1. /\ FinEC \in Light(TRUE) /\ ExceptEC \in Light(TRUE) /\ PrepTry \in Light(TRUE)
      /\ ExecutorCleanup \in Seq(Light(TRUE)) /\ Raise \in Light(TRUE)
  BY <1>0, CleanupIsLight, RaiseIsSimple
<1>2. Light(TRUE) \subseteq Busy(TRUE) /\ Running(TRUE) \subseteq Busy(TRUE)
  BY <1>0, Classes, LateIsLight
<1>3. Light(TRUE) \subseteq Any(TRUE) /\ Running(TRUE) \subseteq Any(TRUE)
  BY <1>2 DEF Any
<1>4. {Trial(TRUE), Judging(TRUE), Classifying} \subseteq Any(TRUE)
  BY DEF Any, Keys
<1>5. Lending \subseteq Any(TRUE)
  BY <1>1, <1>3, <1>4 DEF Lending
<1>6. ExecutorCleanup \in Seq(Any(TRUE))
  BY <1>1, <1>3, ClassSequences
<1>7. Raise \in Lending
  <2>1. Raise \in SimpleOver(LateSteps(TRUE), LateObjects(TRUE))
    BY DEF Raise, SimpleOver
  <2> QED BY <2>1, ClassesOver DEF Lending, Running
<1>8. \A v \in Any(TRUE) : /\ v.do # "catch"
                           /\ v.do \in {"finally", "except"} => v.then \in Seq(Any(TRUE))
  BY <1>0, HandlersTidy
<1> QED BY <1>1, <1>3, <1>5, <1>6, <1>7, <1>8

(* What ExecutorCleanup is followed by when it runs for an exception.      *)
LEMMA CleanupThenRaise ==
    ASSUME NEW r \in Seq(Any(TRUE)), NEW t \in Seq(Any(TRUE))
    PROVE  /\ \E w \in Seq(Any(TRUE)) :
                  (ExecutorCleanup \o <<Raise>>) \o r = Before(ExecutorCleanup, w)
           /\ \E w \in Seq(Any(TRUE)) :
                  ((ExecutorCleanup \o <<Raise>>) \o r) \o t = Before(ExecutorCleanup, w)
<1> DEFINE S == Any(TRUE)
           c == ExecutorCleanup
           d == <<Raise>>
<1>1. c \in Seq(S) /\ d \in Seq(S) /\ r \in Seq(S) /\ t \in Seq(S)
  BY LendingIsAny, OneOf
<1> HIDE DEF S, c, d
<1>2. d \o r \in Seq(S) /\ c \o d \in Seq(S)
  BY <1>1, Joined
<1>3. (d \o r) \o t \in Seq(S)
  BY <1>1, <1>2, Joined
<1>4. (c \o d) \o r = c \o (d \o r)
  BY <1>1, SetApart
<1>5. (c \o (d \o r)) \o t = c \o ((d \o r) \o t)
  <2> DEFINE m == d \o r
  <2>1. m \in Seq(S)
    BY <1>2
  <2> HIDE DEF m
  <2>2. (c \o m) \o t = c \o (m \o t)
    BY <1>1, <2>1, SetApart
  <2> QED BY <2>2 DEF m
<1>6. (c \o d) \o r = Before(c, d \o r)
  BY <1>4 DEF Before
<1>7. ((c \o d) \o r) \o t = Before(c, (d \o r) \o t)
  BY <1>4, <1>5 DEF Before
<1> QED BY <1>2, <1>3, <1>6, <1>7 DEF S, c, d

LEMMA UnwoundLends ==
    ASSUME NEW x \in Seq(Lending)
    PROVE  \/ \E z \in Seq(Lending) : Unwound(Path(x, FinEC, <<>>)) = Path(z, FinEC, <<>>)
           \/ \E w \in Seq(Any(TRUE)) :
                 Unwound(Path(x, FinEC, <<>>)) = Before(ExecutorCleanup, w)
<1> DEFINE S == Any(TRUE)
           f == <<FinEC>>
           e == <<>>
           t == f \o e
<1>1. x \in Seq(S) /\ f \in Seq(S) /\ e \in Seq(S) /\ Raise \in S
  <2>1. x \in Seq(S)
    BY LendingIsAny, ClassSequences
  <2>2. e \in Seq(S)
    OBVIOUS
  <2> QED BY <2>1, <2>2, LendingIsAny, OneOf
<1>2. \A v \in S : /\ v.do # "catch"
                   /\ v.do \in {"finally", "except"} => v.then \in Seq(S)
  BY LendingIsAny
<1>3. Path(x, FinEC, <<>>) = x \o t
  BY DEF Path
<1>4. Handlers(f) # {} /\ f \in Seq({FinEC}) /\ FinEC.then = ExecutorCleanup
      /\ \A i \in 1 .. Len(f) : f[i] = FinEC
  <2>1. FinEC.do = "finally" /\ FinEC.then = ExecutorCleanup
    BY DEF FinEC
  <2>2. 1 \in Handlers(f)
    BY <2>1 DEF Handlers
  <2> QED BY <2>1, <2>2
<1> HIDE DEF S, f, e
<1>5. t \in Seq(S)
  BY <1>1, Joined
<1>6. \E w \in Seq(S) : Unwound(t) = Before(ExecutorCleanup, w)
  <2>1. /\ Unwound(t) = Unwound(f) \o e
        /\ \E i \in 1 .. Len(f) :
              /\ SubSeq(f, i + 1, Len(f)) \in Seq(S)
              /\ Unwound(f) = (f[i].then \o <<Raise>>) \o SubSeq(f, i + 1, Len(f))
    BY <1>1, <1>2, <1>4, UnwoundWithin
  <2>2. PICK r \in Seq(S) : Unwound(f) = (ExecutorCleanup \o <<Raise>>) \o r
    BY <1>4, <2>1
  <2>3. \E w \in Seq(S) : ((ExecutorCleanup \o <<Raise>>) \o r) \o e = Before(ExecutorCleanup, w)
    BY <1>1, <2>2, CleanupThenRaise DEF S
  <2> QED BY <2>1, <2>2, <2>3
<1>7. CASE Handlers(x) = {}
  <2>1. Unwound(x \o t) = Unwound(t)
    <3> HIDE DEF t
    <3> QED BY <1>1, <1>5, <1>7, UnwoundPast
  <2> QED BY <1>3, <1>6, <2>1 DEF S
<1>8. CASE Handlers(x) # {}
  <2> HIDE DEF t
  <2>1. /\ Unwound(x \o t) = Unwound(x) \o t
        /\ \E i \in 1 .. Len(x) :
              /\ x[i].do \in {"finally", "except"} /\ x[i].then \in Seq(S)
              /\ SubSeq(x, i + 1, Len(x)) \in Seq(S)
              /\ Unwound(x) = (x[i].then \o <<Raise>>) \o SubSeq(x, i + 1, Len(x))
    BY <1>1, <1>2, <1>5, <1>8, UnwoundWithin
  <2>2. PICK i \in 1 .. Len(x) :
              /\ x[i].do \in {"finally", "except"}
              /\ SubSeq(x, i + 1, Len(x)) \in Seq(S)
              /\ Unwound(x) = (x[i].then \o <<Raise>>) \o SubSeq(x, i + 1, Len(x))
    BY <2>1
  <2> DEFINE r == SubSeq(x, i + 1, Len(x))
             h == x[i].then
  <2>3. x[i] \in Lending
    OBVIOUS
  <2>4. h \in Seq(Lending) \/ h = ExecutorCleanup
    <3>1. h \in Seq(Lending) \/ x[i] = ExceptEC
      BY <2>2, <2>3, LendingKinds
    <3>2. ExceptEC.then = ExecutorCleanup
      BY DEF ExceptEC
    <3> QED BY <3>1, <3>2
  <2>5. r \in Seq(Lending)
    <3>1. x \in Seq(Lending) /\ <<>> \in Seq(Lending) /\ i \in 1 .. Len(x)
      OBVIOUS
    <3> QED BY <3>1, LastOfTwo
  <2>6. r \in Seq(S) /\ Unwound(x) = (h \o <<Raise>>) \o r
    BY <2>2
  <2> HIDE DEF r, h
  <2>7. CASE h \in Seq(Lending)
    <3> DEFINE d == <<Raise>>
               z == (h \o d) \o r
    <3>1. d \in Seq(Lending)
      BY LendingIsAny, OneOf
    <3> HIDE DEF d
    <3>2. h \o d \in Seq(Lending)
      BY <2>7, <3>1, Joined
    <3>3. z \in Seq(Lending)
      BY <2>5, <3>2, Joined
    <3>4. Unwound(x \o t) = z \o t
      BY <2>1, <2>6 DEF d
    <3> HIDE DEF z
    <3>5. z \o t = Path(z, FinEC, <<>>)
      BY DEF Path, t, f, e
    <3> QED BY <1>3, <3>3, <3>4, <3>5
  <2>8. CASE h = ExecutorCleanup
    <3>1. \E w \in Seq(S) : ((ExecutorCleanup \o <<Raise>>) \o r) \o t = Before(ExecutorCleanup, w)
      BY <1>5, <2>6, CleanupThenRaise DEF S
    <3> QED BY <1>3, <2>1, <2>6, <2>8, <3>1 DEF S
  <2> QED BY <2>4, <2>7, <2>8
<1> QED BY <1>7, <1>8

(* Where the programs stand while the handle is good.                      *)
LEMMA LendsNow ==
    ASSUME Lends
    PROVE  /\ todo # <<>>
           /\ \/ \E x \in Seq(Lending) :
                    /\ todo = Path(x, FinEC, <<>>)
                    /\ x = <<>> => Now = FinEC /\ Rest = <<>>
                    /\ x # <<>> => /\ Now \in Lending /\ Tail(x) \in Seq(Lending)
                                   /\ Rest = Path(Tail(x), FinEC, <<>>)
              \/ Now = Revoke
<1>1. CASE \E x \in Seq(Lending) : todo = Path(x, FinEC, <<>>)
  <2>1. PICK x \in Seq(Lending) : todo = Path(x, FinEC, <<>>)
    BY <1>1
  <2> DEFINE e == <<>>
             S == Any(TRUE)
  <2>2. e \in Seq(S) /\ todo = Path(x, FinEC, e)
    BY <2>1
  <2> HIDE DEF e, S
  <2>3. /\ Path(x, FinEC, e) # <<>>
        /\ x = <<>> => Head(Path(x, FinEC, e)) = FinEC /\ Tail(Path(x, FinEC, e)) = e
        /\ x # <<>> => /\ Head(Path(x, FinEC, e)) = Head(x) /\ Head(x) \in Lending
                       /\ Tail(Path(x, FinEC, e)) = Path(Tail(x), FinEC, e)
                       /\ Tail(x) \in Seq(Lending)
    BY <2>2, PathAhead
  <2>4. /\ todo # <<>>
        /\ x = <<>> => Now = FinEC /\ Rest = e
        /\ x # <<>> => /\ Now \in Lending /\ Tail(x) \in Seq(Lending)
                       /\ Rest = Path(Tail(x), FinEC, e)
    BY <2>2, <2>3 DEF Now, Rest
  <2> QED BY <2>1, <2>4 DEF e
<1>2. CASE \E w \in Seq(Any(TRUE)) : todo = Before(ExecutorCleanup, w)
  <2>1. PICK w \in Seq(Any(TRUE)) : todo = Before(ExecutorCleanup, w)
    BY <1>2
  <2> DEFINE S == Any(TRUE)
             c == ExecutorCleanup
  <2>2. c # <<>> /\ Head(c) = Revoke
    BY DEF ExecutorCleanup
  <2>3. c \in Seq(S) /\ w \in Seq(S)
    BY LendingIsAny
  <2> HIDE DEF S, c
  <2>4. Before(c, w) # <<>> /\ Head(Before(c, w)) = Head(c)
    BY <2>2, <2>3, BeforeTwo
  <2> QED BY <2>1, <2>2, <2>4 DEF Now, c
<1> QED BY <1>1, <1>2 DEF Lends

LEMMA LentThrown ==
    ASSUME Lent, Throws
    PROVE  Lent'
<1> SUFFICES ASSUME handle' = "ready" PROVE Honest' /\ Lends'
  BY DEF Lent
<1>1. /\ Effects /\ todo' = Unwound(Rest) /\ handle = "ready"
      /\ Now.do \notin {"revoke", "finally"}
  BY DEF Throws
<1>2. Honest /\ Lends
  BY <1>1 DEF Lent
<1>3. Revoke.do = "revoke" /\ FinEC.do = "finally"
  BY DEF Revoke, FinEC
<1>4. PICK x \in Seq(Lending) :
         /\ todo = Path(x, FinEC, <<>>)
         /\ x = <<>> => Now = FinEC /\ Rest = <<>>
         /\ x # <<>> => /\ Now \in Lending /\ Tail(x) \in Seq(Lending)
                        /\ Rest = Path(Tail(x), FinEC, <<>>)
  BY <1>1, <1>2, <1>3, LendsNow
<1>5. /\ Now \in Lending /\ Tail(x) \in Seq(Lending) /\ Rest = Path(Tail(x), FinEC, <<>>)
  BY <1>1, <1>3, <1>4
<1>6. Honest'
  BY <1>1, <1>2, <1>5, LendingKeeps
<1>7. \/ \E z \in Seq(Lending) : todo' = Path(z, FinEC, <<>>)
      \/ \E w \in Seq(Any(TRUE)) : todo' = Before(ExecutorCleanup, w)
  BY <1>1, <1>5, UnwoundLends
<1> QED BY <1>6, <1>7 DEF Lends

LEMMA LentWaits ==
    ASSUME Lent, Waits
    PROVE  Lent'
<1>1. todo' = todo /\ handle' = handle
  BY DEF Waits
<1>2. Lends => Lends'
  BY <1>1 DEF Lends
<1> QED BY <1>1, <1>2, HonestWaits DEF Lent

LEMMA LentOn ==
    ASSUME Lent, handle = "ready", NEW P, GoesBy(P), Details
    PROVE  Lent'
<1> SUFFICES ASSUME handle' = "ready" PROVE Honest' /\ Lends'
  BY DEF Lent
<1>1. todo' = Before(P, Rest) /\ Gives(Now, P) /\ Effects
  BY GoneBy
<1>2. Honest /\ Lends
  BY DEF Lent
<1>3. Now # Revoke
  BY DEF Revoke, Details
<1>4. PICK x \in Seq(Lending) :
         /\ todo = Path(x, FinEC, <<>>)
         /\ x = <<>> => Now = FinEC /\ Rest = <<>>
         /\ x # <<>> => /\ Now \in Lending /\ Tail(x) \in Seq(Lending)
                        /\ Rest = Path(Tail(x), FinEC, <<>>)
  BY <1>2, <1>3, LendsNow
<1>5. CASE x = <<>>
  <2>1. Now = FinEC /\ Rest = <<>> /\ FinEC.do = "finally" /\ FinEC.then = ExecutorCleanup
    BY <1>4, <1>5 DEF FinEC
  <2>2. P = ExecutorCleanup
    BY <1>1, <2>1 DEF Gives
  <2>3. Brought = {} /\ Taken = {}
    BY <2>1 DEF Brought, Taken
  <2>4. Honest'
    BY <1>1, <1>2, <2>3, HonestKept
  <2> DEFINE e == <<>>
  <2>5. e \in Seq(Any(TRUE)) /\ todo' = Before(ExecutorCleanup, e)
    BY <1>1, <2>1, <2>2
  <2> HIDE DEF e
  <2> QED BY <2>4, <2>5 DEF Lends
<1>6. CASE x # <<>>
  <2>1. Now \in Lending /\ Rest = Path(Tail(x), FinEC, <<>>) /\ Rest = Tail(Path(x, FinEC, <<>>))
    BY <1>4, <1>6 DEF Rest
  <2>2. P \in Seq(Lending)
    BY <1>1, <2>1, LendingGives
  <2> DEFINE e == <<>>
             S == Any(TRUE)
  <2>3. e \in Seq(S) /\ Rest = Tail(Path(x, FinEC, e))
    BY <2>1
  <2> HIDE DEF e, S
  <2>4. \E z \in Seq(Lending) : Before(P, Tail(Path(x, FinEC, e))) = Path(z, FinEC, e)
    BY <1>6, <2>2, <2>3, PathReplaced
  <2>5. Lends'
    BY <1>1, <2>3, <2>4 DEF Lends, e
  <2> QED BY <1>1, <1>2, <2>1, <2>5, LendingKeeps
<1> QED BY <1>5, <1>6
----------------------------------------------------------------------------
(* How the handle comes to be given, while nothing fails: the dependencies *)
(* are prepared, the volume that will be lent is made on the way, and then *)
(* the other two are removed.                                              *)
Last3 == <<ExceptEC, Trial(TRUE), FinEC>>
Last4 == <<Ready, ExceptEC, Trial(TRUE), FinEC>>
Last5 == <<Host(None), Ready, ExceptEC, Trial(TRUE), FinEC>>
Last6 == <<Remove("wheelhouse"), Host(None), Ready, ExceptEC, Trial(TRUE), FinEC>>
ToPrepare ==
    \/ todo = <<Whole(TRUE)>>
    \/ todo = <<PrepTry, Trial(TRUE), FinEC>>
    \/ \E x \in Seq(Preparing) : /\ todo = Path(x, Remove("input"), Last6)
                                 /\ "dependencies" \in existing \/ Makes(x)
    \/ "dependencies" \in existing /\ "input" \notin existing /\ todo = Last6
    \/ /\ "dependencies" \in existing /\ {"input", "wheelhouse"} \cap existing = {}
       /\ todo = Last5 \/ todo = Last4
Underway ==
    \/ handle = None /\ ToPrepare
    \/ handle = "ready"
    \/ todo \in Seq(Barren(TRUE))

LEMMA PreparingKinds ==
    ASSUME NEW u \in Preparing
    PROVE  /\ u.do \notin {"ready", "revoke", "cleaned"}
           /\ u.do \in {"remove", "release", "exits"} => u.obj # "dependencies"
           /\ u.do = "sweep" => "dependencies" \notin u.left
<1>1. CASE u \in LightOver({}, Others)
  <2> DEFINE e == {}
  <2>1. e \in SUBSET {"ready", "revalidate"} /\ Others \in SUBSET Names
        /\ u \in LightOver(e, Others) /\ "dependencies" \notin Others
    BY <1>1 DEF Others
  <2>2. \A s \in {"ready", "revalidate"} : s \notin e
    OBVIOUS
  <2> HIDE DEF e
  <2>3. /\ u.do \notin {"revoke", "cleaned"}
        /\ u.do \in {"ready", "revalidate"} => u.do \in e
        /\ u.do \in {"create", "exits", "remove", "release"} => u.obj \in Others
        /\ u.do = "sweep" => u.left \subseteq Others
    BY <2>1, OverKinds
  <2> QED BY <2>1, <2>2, <2>3
<1>2. CASE u = Create("dependencies")
  <2>1. u.do = "create"
    BY <1>2 DEF Create
  <2> QED BY <2>1
<1> QED BY <1>1, <1>2 DEF Preparing

(* The last steps of the preparation, as they are taken.                   *)
LEMMA LastOnes ==
    /\ Last6 # <<>> /\ Head(Last6) = Remove("wheelhouse") /\ Tail(Last6) = Last5
    /\ Last5 # <<>> /\ Head(Last5) = Host(None) /\ Tail(Last5) = Last4
    /\ Last4 # <<>> /\ Head(Last4) = Ready /\ Tail(Last4) = Last3
    /\ <<PrepTry, Trial(TRUE), FinEC>> # <<>>
    /\ Head(<<PrepTry, Trial(TRUE), FinEC>>) = PrepTry
    /\ Tail(<<PrepTry, Trial(TRUE), FinEC>>) = <<Trial(TRUE), FinEC>>
<1> DEFINE t == Trial(TRUE)
           w == Remove("wheelhouse")
           h == Host(None)
<1> HIDE DEF t, w, h
<1>1. Last6 = <<w, h, Ready, ExceptEC, t, FinEC>> /\ Last5 = <<h, Ready, ExceptEC, t, FinEC>>
      /\ Last4 = <<Ready, ExceptEC, t, FinEC>> /\ Last3 = <<ExceptEC, t, FinEC>>
  BY DEF Last6, Last5, Last4, Last3, t, w, h
<1>2. Head(Last6) = w /\ Tail(Last6) = Last5 /\ Last6 # <<>>
  BY <1>1
<1>3. Head(Last5) = h /\ Tail(Last5) = Last4 /\ Last5 # <<>>
  BY <1>1
<1>4. Head(Last4) = Ready /\ Tail(Last4) = Last3 /\ Last4 # <<>>
  BY <1>1
<1>5. /\ <<PrepTry, t, FinEC>> # <<>> /\ Head(<<PrepTry, t, FinEC>>) = PrepTry
      /\ Tail(<<PrepTry, t, FinEC>>) = <<t, FinEC>>
  OBVIOUS
<1> QED BY <1>2, <1>3, <1>4, <1>5 DEF t, w, h

(* Two sequences joined, by their parts.                                   *)
LEMMA JoinedIs ==
    ASSUME NEW S, NEW s \in Seq(S), NEW t \in Seq(S), NEW q \in Seq(S),
           Len(q) = Len(s) + Len(t),
           \A j \in 1 .. Len(s) : q[j] = s[j],
           \A j \in 1 .. Len(t) : q[Len(s) + j] = t[j]
    PROVE  s \o t = q
<1>1. Len(s) \in Nat /\ Len(t) \in Nat
  OBVIOUS
<1>2. /\ s \o t \in Seq(S) /\ Len(s \o t) = Len(s) + Len(t)
      /\ \A i \in 1 .. Len(s) + Len(t) :
            (s \o t)[i] = IF i <= Len(s) THEN s[i] ELSE t[i - Len(s)]
  BY ConcatProperties
<1>3. ASSUME NEW i \in 1 .. Len(s) + Len(t) PROVE (s \o t)[i] = q[i]
  <2>1. CASE i <= Len(s)
    BY <1>1, <1>2, <2>1
  <2>2. CASE ~(i <= Len(s))
    <3> DEFINE j == i - Len(s)
    <3>1. j \in 1 .. Len(t) /\ i = Len(s) + j
      BY <1>1, <2>2
    <3>2. q[Len(s) + j] = t[j]
      BY <3>1
    <3> QED BY <1>2, <2>2, <3>1, <3>2
  <2> QED BY <2>1, <2>2
<1> QED BY <1>2, <1>3, SeqEqual

LEMMA FourAndOne ==
    ASSUME NEW a, NEW b, NEW c, NEW d, NEW e
    PROVE  <<a, b, c, d>> \o <<e>> = <<a, b, c, d, e>>
<1> DEFINE S == {a, b, c, d, e}
           x == <<a, b, c, d>>
           y == <<e>>
           q == <<a, b, c, d, e>>
<1>1. x \in Seq(S) /\ y \in Seq(S) /\ q \in Seq(S) /\ Len(x) = 4 /\ Len(y) = 1 /\ Len(q) = 5
  OBVIOUS
<1>2. /\ \A j \in 1 .. 4 : q[j] = x[j]
      /\ \A j \in 1 .. 1 : q[4 + j] = y[j]
  OBVIOUS
<1> HIDE DEF S, x, y, q
<1>3. /\ Len(q) = Len(x) + Len(y) /\ \A j \in 1 .. Len(x) : q[j] = x[j]
      /\ \A j \in 1 .. Len(y) : q[Len(x) + j] = y[j]
  BY <1>1, <1>2
<1>4. x \o y = q
  BY <1>1, <1>3, JoinedIs
<1> QED BY <1>4 DEF x, y, q

LEMMA FiveAndTwo ==
    ASSUME NEW a, NEW b, NEW c, NEW d, NEW e, NEW f, NEW g
    PROVE  <<a, b, c, d, e>> \o <<f, g>> = <<a, b, c, d, e, f, g>>
<1> DEFINE S == {a, b, c, d, e, f, g}
           x == <<a, b, c, d, e>>
           y == <<f, g>>
           q == <<a, b, c, d, e, f, g>>
<1>1. x \in Seq(S) /\ y \in Seq(S) /\ q \in Seq(S) /\ Len(x) = 5 /\ Len(y) = 2 /\ Len(q) = 7
  OBVIOUS
<1>2. /\ \A j \in 1 .. 5 : q[j] = x[j]
      /\ \A j \in 1 .. 2 : q[5 + j] = y[j]
  OBVIOUS
<1> HIDE DEF S, x, y, q
<1>3. /\ Len(q) = Len(x) + Len(y) /\ \A j \in 1 .. Len(x) : q[j] = x[j]
      /\ \A j \in 1 .. Len(y) : q[Len(x) + j] = y[j]
  BY <1>1, <1>2
<1>4. x \o y = q
  BY <1>1, <1>3, JoinedIs
<1> QED BY <1>4 DEF x, y, q

LEMMA OneAndSix ==
    ASSUME NEW a, NEW b, NEW c, NEW d, NEW e, NEW f, NEW g
    PROVE  <<a>> \o <<b, c, d, e, f, g>> = <<a, b, c, d, e, f, g>>
<1> DEFINE S == {a, b, c, d, e, f, g}
           x == <<a>>
           y == <<b, c, d, e, f, g>>
           q == <<a, b, c, d, e, f, g>>
<1>1. x \in Seq(S) /\ y \in Seq(S) /\ q \in Seq(S) /\ Len(x) = 1 /\ Len(y) = 6 /\ Len(q) = 7
  OBVIOUS
<1>2. /\ \A j \in 1 .. 1 : q[j] = x[j]
      /\ \A j \in 1 .. 6 : q[1 + j] = y[j]
  OBVIOUS
<1> HIDE DEF S, x, y, q
<1>3. /\ Len(q) = Len(x) + Len(y) /\ \A j \in 1 .. Len(x) : q[j] = x[j]
      /\ \A j \in 1 .. Len(y) : q[Len(x) + j] = y[j]
  BY <1>1, <1>2
<1>4. x \o y = q
  BY <1>1, <1>3, JoinedIs
<1> QED BY <1>4 DEF x, y, q

(* Entering the preparation.                                               *)
LEMMA PrepareEntered ==
    ASSUME NEW P, Gives(PrepTry, P)
    PROVE  \E x \in Seq(Preparing) :
              /\ P \o <<Trial(TRUE), FinEC>> = Path(x, Remove("input"), Last6)
              /\ Makes(x)
<1>1. PrepTry.do = "try"
  BY DEF PrepTry
<1>2. P = Entered(PrepTry)
  BY <1>1 DEF Gives
<1>3. PICK s \in Seq(Preparing) :
        Entered(PrepTry) = (s \o LastSteps) \o <<ExceptEC>> /\ Makes(s)
  BY PrepareGives
<1> DEFINE t == Trial(TRUE)
           w == Remove("wheelhouse")
           i == Remove("input")
           h == Host(None)
           S == Preparing \cup {t, w, i, h, Ready, ExceptEC, FinEC}
           l == <<i, w, h, Ready>>
           e == <<ExceptEC>>
           f == <<t, FinEC>>
           g == <<w, h, Ready, ExceptEC, t, FinEC>>
<1>4. l = LastSteps /\ g = Last6
  BY DEF LastSteps, Last6
<1>5. s \in Seq(S) /\ l \in Seq(S) /\ e \in Seq(S) /\ f \in Seq(S)
  <2>1. Preparing \subseteq S
    OBVIOUS
  <2>2. l \in Seq(S) /\ e \in Seq(S) /\ f \in Seq(S)
    OBVIOUS
  <2> HIDE DEF S
  <2>3. s \in Seq(S)
    BY <2>1, ClassSequences
  <2> QED BY <2>2, <2>3
<1>6. (l \o e) \o f = <<i>> \o g
  <2> HIDE DEF t, w, i, h
  <2>1. l \o e = <<i, w, h, Ready, ExceptEC>>
    BY FourAndOne
  <2>2. <<i, w, h, Ready, ExceptEC>> \o f = <<i, w, h, Ready, ExceptEC, t, FinEC>>
    BY FiveAndTwo
  <2>3. <<i>> \o g = <<i, w, h, Ready, ExceptEC, t, FinEC>>
    BY OneAndSix
  <2> QED BY <2>1, <2>2, <2>3
<1> HIDE DEF S, l, e, f, g
<1>7. (s \o l) \o e = s \o (l \o e) /\ l \o e \in Seq(S)
  BY <1>5, SetApart, Joined
<1>8. (s \o (l \o e)) \o f = s \o ((l \o e) \o f)
  <2> DEFINE m == l \o e
  <2>1. m \in Seq(S) /\ s \in Seq(S) /\ f \in Seq(S)
    BY <1>5, <1>7
  <2> HIDE DEF m
  <2>2. (s \o m) \o f = s \o (m \o f)
    BY <2>1, SetApart
  <2> QED BY <2>2 DEF m
<1>9. P \o f = s \o (<<i>> \o g)
  BY <1>2, <1>3, <1>4, <1>6, <1>7, <1>8 DEF e
<1>10. P \o f = Path(s, Remove("input"), Last6)
  BY <1>4, <1>9 DEF Path, i
<1> QED BY <1>3, <1>10 DEF f, t

LEMMA MakesStill ==
    ASSUME NEW x \in Seq(Preparing), x # <<>>, Makes(x), Head(x) # Create("dependencies"),
           NEW p \in Seq(Preparing)
    PROVE  Makes(Before(p, Tail(x)))
<1> DEFINE h == Head(x)
           r == Tail(x)
           f == <<h>>
<1>1. x = f \o r /\ h \in Preparing /\ r \in Seq(Preparing)
  <2>1. <<>> \in Seq(Preparing)
    OBVIOUS
  <2> QED BY <2>1, FirstOfTwo
<1>2. f \in Seq(Preparing)
  BY <1>1, OneOf
<1>3. ~Makes(f)
  BY DEF Makes
<1> HIDE DEF f, r, h
<1>4. Makes(r)
  BY <1>1, <1>2, <1>3, MakesOfTwo
<1>5. Makes(p \o r)
  BY <1>1, <1>4, MakesOfTwo
<1> QED BY <1>5 DEF Before, r

LEMMA LastSequence ==
    \E B : /\ Last6 \in Seq(B) /\ Last5 \in Seq(B) /\ Last4 \in Seq(B) /\ Last3 \in Seq(B)
           /\ <<Trial(TRUE), FinEC>> \in Seq(B) /\ Remove("input") \in B
<1> DEFINE t == Trial(TRUE)
           w == Remove("wheelhouse")
           h == Host(None)
           i == Remove("input")
           B == {w, h, Ready, ExceptEC, t, FinEC, i}
<1> HIDE DEF t, w, h, i
<1>1. Last6 = <<w, h, Ready, ExceptEC, t, FinEC>> /\ Last5 = <<h, Ready, ExceptEC, t, FinEC>>
      /\ Last4 = <<Ready, ExceptEC, t, FinEC>> /\ Last3 = <<ExceptEC, t, FinEC>>
  BY DEF Last6, Last5, Last4, Last3, t, w, h
<1>2. Last6 \in Seq(B)
  BY <1>1
<1>3. Last5 \in Seq(B)
  BY <1>1
<1>4. Last4 \in Seq(B)
  BY <1>1
<1>5. Last3 \in Seq(B)
  BY <1>1
<1>6. <<t, FinEC>> \in Seq(B)
  OBVIOUS
<1>7. i \in B
  OBVIOUS
<1> HIDE DEF B
<1> QED BY <1>2, <1>3, <1>4, <1>5, <1>6, <1>7 DEF t, i

(* A step of the preparation.                                              *)
LEMMA PreparingOn ==
    ASSUME handle = None, NEW x \in Seq(Preparing), todo = Path(x, Remove("input"), Last6),
           "dependencies" \in existing \/ Makes(x), NEW P, GoesBy(P), Details
    PROVE  handle' = None /\ ToPrepare'
<1> DEFINE k == Remove("input")
<1>1. PICK B : Last6 \in Seq(B) /\ k \in B
  BY LastSequence
<1>2. todo' = Before(P, Rest) /\ Gives(Now, P) /\ Effects
  BY GoneBy
<1>3. k.do = "remove" /\ k.obj = "input"
  BY DEF Remove
<1>4. existing \ existing' \subseteq Taken
  BY <1>2 DEF Effects
<1> HIDE DEF k
<1>5. /\ x = <<>> => Head(Path(x, k, Last6)) = k /\ Tail(Path(x, k, Last6)) = Last6
      /\ x # <<>> => /\ Head(Path(x, k, Last6)) = Head(x) /\ Head(x) \in Preparing
                     /\ Tail(Path(x, k, Last6)) = Path(Tail(x), k, Last6)
                     /\ Tail(x) \in Seq(Preparing)
  <2>1. /\ Path(x, k, Last6) # <<>>
        /\ x = <<>> => Head(Path(x, k, Last6)) = k /\ Tail(Path(x, k, Last6)) = Last6
        /\ x # <<>> => /\ Head(Path(x, k, Last6)) = Head(x) /\ Head(x) \in Preparing
                       /\ Tail(Path(x, k, Last6)) = Path(Tail(x), k, Last6)
                       /\ Tail(x) \in Seq(Preparing)
    BY <1>1, PathAhead
  <2> QED BY <2>1
<1>6. todo = Path(x, k, Last6)
  BY DEF k
<1>7. CASE x = <<>>
  <2>1. Now = k /\ Rest = Last6
    BY <1>5, <1>6, <1>7 DEF Now, Rest
  <2>2. P = <<>>
    BY <1>2, <1>3, <2>1, PlainGivesNothing
  <2>3. todo' = Last6
    <3>1. Before(<<>>, Last6) = Last6
      BY <1>1, BeforeTwo
    <3> QED BY <1>2, <2>1, <2>2, <3>1
  <2>4. ~Makes(x)
    BY <1>7 DEF Makes
  <2>5. "dependencies" \notin Taken
    BY <1>3, <2>1, LateObjectsAre DEF Taken
  <2>6. "input" \notin existing' /\ handle' = None
    BY <1>2, <1>3, <2>1 DEF Details, Effects
  <2> QED BY <1>4, <2>3, <2>4, <2>5, <2>6 DEF ToPrepare
<1>8. CASE x # <<>>
  <2>1. Now \in Preparing /\ Now = Head(x) /\ Rest = Path(Tail(x), k, Last6)
        /\ Tail(x) \in Seq(Preparing)
    BY <1>5, <1>6, <1>8 DEF Now, Rest
  <2>2. P \in Seq(Preparing)
    BY <1>2, <2>1, PreparingGives
  <2>3. /\ Now.do \notin {"ready", "revoke", "cleaned"}
        /\ Now.do \in {"remove", "release", "exits"} => Now.obj # "dependencies"
        /\ Now.do = "sweep" => "dependencies" \notin Now.left
    BY <2>1, PreparingKinds
  <2>4. "dependencies" \notin Taken
    BY <2>3, LateObjectsAre DEF Taken
  <2>5. handle' = None
    BY <1>2, <2>3 DEF Effects
  <2> DEFINE r == Tail(x)
             z == Before(P, r)
  <2>6. z \in Seq(Preparing)
    BY <2>1, <2>2, BeforeStays
  <2>7. todo' = Path(z, k, Last6)
    <3> DEFINE S == Preparing \cup B
    <3>1. Preparing \subseteq S /\ B \subseteq S
      OBVIOUS
    <3> HIDE DEF S, r
    <3>2. P \in Seq(S) /\ r \in Seq(S) /\ k \in S /\ Last6 \in Seq(S)
      <4>1. r \in Seq(Preparing)
        BY <2>1 DEF r
      <4> QED BY <1>1, <2>2, <3>1, <4>1, ClassSequences
    <3>3. Before(P, Path(r, k, Last6)) = Path(Before(P, r), k, Last6)
      BY <3>2, PathGrows
    <3> QED BY <1>2, <2>1, <3>3 DEF r
  <2>8. "dependencies" \in existing' \/ Makes(z)
    <3>1. CASE "dependencies" \in existing
      BY <1>4, <2>4, <3>1
    <3>2. CASE Makes(x) /\ Now = Create("dependencies")
      <4>1. Now.do = "create" /\ Now.obj = "dependencies"
        BY <3>2 DEF Create
      <4> QED BY <4>1 DEF Details
    <3>3. CASE Makes(x) /\ Now # Create("dependencies")
      BY <1>8, <2>1, <2>2, <3>3, MakesStill
    <3> QED BY <3>1, <3>2, <3>3
  <2> HIDE DEF z
  <2> QED BY <2>5, <2>6, <2>7, <2>8 DEF ToPrepare, k
<1> QED BY <1>7, <1>8

LEMMA ThreeInARow ==
    ASSUME NEW a, NEW c, NEW d
    PROVE  /\ <<a>> \o (<<c>> \o <<d>>) = <<a, c, d>>
           /\ <<a, c, d>> = Path(<<a, c>>, d, <<>>)
           /\ Before(<<a, c, d>>, <<>>) = <<a, c, d>>
<1> DEFINE S == {a, c, d}
           x == <<a>>
           y == <<c, d>>
           q == <<a, c, d>>
           u == <<a, c>>
           v == <<d>>
           e == <<>>
<1>1. /\ x \in Seq(S) /\ y \in Seq(S) /\ q \in Seq(S) /\ u \in Seq(S) /\ v \in Seq(S) /\ e \in Seq(S)
      /\ Len(x) = 1 /\ Len(y) = 2 /\ Len(q) = 3 /\ Len(u) = 2 /\ Len(v) = 1 /\ Len(e) = 0
  OBVIOUS
<1>2. /\ \A j \in 1 .. 1 : q[j] = x[j]
      /\ \A j \in 1 .. 2 : q[1 + j] = y[j]
      /\ \A j \in 1 .. 2 : q[j] = u[j]
      /\ \A j \in 1 .. 1 : q[2 + j] = v[j]
  OBVIOUS
<1>3. <<c>> \o <<d>> = y
  BY OneAndOne
<1> HIDE DEF S, x, y, q, u, v, e
<1>4. x \o y = q
  <2>1. /\ Len(q) = Len(x) + Len(y) /\ \A j \in 1 .. Len(x) : q[j] = x[j]
        /\ \A j \in 1 .. Len(y) : q[Len(x) + j] = y[j]
    BY <1>1, <1>2
  <2> QED BY <1>1, <2>1, JoinedIs
<1>5. u \o v = q
  <2>1. /\ Len(q) = Len(u) + Len(v) /\ \A j \in 1 .. Len(u) : q[j] = u[j]
        /\ \A j \in 1 .. Len(v) : q[Len(u) + j] = v[j]
    BY <1>1, <1>2
  <2> QED BY <1>1, <2>1, JoinedIs
<1>6. ASSUME NEW s \in Seq(S) PROVE s \o e = s
  <2>1. /\ Len(s) = Len(s) + Len(e) /\ \A j \in 1 .. Len(s) : s[j] = s[j]
        /\ \A j \in 1 .. Len(e) : s[Len(s) + j] = e[j]
    BY <1>1
  <2> QED BY <1>1, <2>1, JoinedIs
<1>7. v \o e = v /\ q \o e = q
  BY <1>1, <1>6
<1>8. q = Path(u, d, <<>>)
  BY <1>5, <1>7 DEF Path, v, e
<1>9. Before(q, <<>>) = q
  BY <1>7 DEF Before, e
<1>10. x \o (<<c>> \o <<d>>) = q
  BY <1>3, <1>4
<1> QED BY <1>8, <1>9, <1>10 DEF x, q, u

(* While nothing has failed the preparation goes on until the handle is    *)
(* given; then what the handle promises is true.                           *)
LEMMA PrepareOn ==
    ASSUME handle = None, ToPrepare, late = {}, NEW P, GoesBy(P), Details
    PROVE  \/ handle' = None /\ ToPrepare'
           \/ handle' = "ready" /\ Honest' /\ Lends'
<1>1. todo' = Before(P, Rest) /\ Gives(Now, P) /\ Effects
  BY GoneBy
<1>2. PICK B : /\ Last6 \in Seq(B) /\ Last5 \in Seq(B) /\ Last4 \in Seq(B) /\ Last3 \in Seq(B)
               /\ <<Trial(TRUE), FinEC>> \in Seq(B)
  BY LastSequence
<1>3. /\ existing' \subseteq existing \cup Brought /\ existing \ existing' \subseteq Taken
      /\ late' \subseteq late \cup Brought
      /\ Now.do \notin {"ready", "revoke", "cleaned"} => handle' = handle
  BY <1>1 DEF Effects
<1>4. \A s : s \in Seq(B) => Before(<<>>, s) = s
  BY BeforeTwo
<1>5. CASE todo = <<Whole(TRUE)>>
  <2>1. Now = Whole(TRUE) /\ Rest = <<>>
    BY <1>5 DEF Now, Rest
  <2>2. Whole(TRUE).do = "try" /\ P = <<PrepTry>> \o (<<Trial(TRUE)>> \o <<FinEC>>)
    BY <1>1, <2>1, WholeGives
  <2>3. P = <<PrepTry, Trial(TRUE), FinEC>> /\ Before(P, <<>>) = P
    BY <2>2, ThreeInARow
  <2>4. handle' = None
    BY <1>3, <2>1, <2>2
  <2>5. todo' = <<PrepTry, Trial(TRUE), FinEC>>
    BY <1>1, <2>1, <2>3
  <2> QED BY <2>4, <2>5 DEF ToPrepare
<1>6. CASE todo = <<PrepTry, Trial(TRUE), FinEC>>
  <2>1. Now = PrepTry /\ Rest = <<Trial(TRUE), FinEC>>
    BY <1>6, LastOnes DEF Now, Rest
  <2>2. \E x \in Seq(Preparing) : /\ P \o <<Trial(TRUE), FinEC>> = Path(x, Remove("input"), Last6)
                                  /\ Makes(x)
    BY <1>1, <2>1, PrepareEntered
  <2>3. todo' = P \o <<Trial(TRUE), FinEC>>
    BY <1>1, <2>1 DEF Before
  <2>4. PrepTry.do = "try"
    BY DEF PrepTry
  <2>5. handle' = None
    BY <1>3, <2>1, <2>4
  <2> QED BY <2>2, <2>3, <2>5 DEF ToPrepare
<1>7. CASE \E x \in Seq(Preparing) : /\ todo = Path(x, Remove("input"), Last6)
                                     /\ "dependencies" \in existing \/ Makes(x)
  <2>1. PICK x \in Seq(Preparing) : /\ todo = Path(x, Remove("input"), Last6)
                                    /\ "dependencies" \in existing \/ Makes(x)
    BY <1>7
  <2>2. handle' = None /\ ToPrepare'
    BY <2>1, PreparingOn
  <2> QED BY <2>2
<1>8. CASE "dependencies" \in existing /\ "input" \notin existing /\ todo = Last6
  <2>1. Now = Remove("wheelhouse") /\ Rest = Last5
    BY <1>8, LastOnes DEF Now, Rest
  <2>2. Now.do = "remove" /\ Now.obj = "wheelhouse"
    BY <2>1 DEF Remove
  <2>3. P = <<>>
    BY <1>1, <2>2, PlainGivesNothing
  <2>4. Brought = {} /\ "dependencies" \notin Taken
    BY <2>2, LateObjectsAre DEF Brought, Taken
  <2>5. "wheelhouse" \notin existing'
    BY <2>2 DEF Details
  <2>6. todo' = Last5
    BY <1>1, <1>2, <1>4, <2>1, <2>3
  <2>7. handle' = None /\ "dependencies" \in existing' /\ {"input", "wheelhouse"} \cap existing' = {}
    BY <1>3, <1>8, <2>2, <2>4, <2>5
  <2> QED BY <2>6, <2>7 DEF ToPrepare
<1>9. CASE /\ "dependencies" \in existing /\ {"input", "wheelhouse"} \cap existing = {}
           /\ todo = Last5
  <2>1. Now = Host(None) /\ Rest = Last4
    BY <1>9, LastOnes DEF Now, Rest
  <2>2. Now.do = "host"
    BY <2>1 DEF Host
  <2>3. P = <<>>
    BY <1>1, <2>2, PlainGivesNothing
  <2>4. Brought = {} /\ Taken = {}
    BY <2>2 DEF Brought, Taken
  <2>6. todo' = Last4
    BY <1>1, <1>2, <1>4, <2>1, <2>3
  <2>7. handle' = None /\ "dependencies" \in existing' /\ {"input", "wheelhouse"} \cap existing' = {}
    BY <1>3, <1>9, <2>2, <2>4
  <2> QED BY <2>6, <2>7 DEF ToPrepare
<1>10. CASE /\ "dependencies" \in existing /\ {"input", "wheelhouse"} \cap existing = {}
            /\ todo = Last4
  <2>1. Now = Ready /\ Rest = Last3
    BY <1>10, LastOnes DEF Now, Rest
  <2>2. Now.do = "ready"
    BY <2>1 DEF Ready
  <2>3. P = <<>>
    BY <1>1, <2>2, PlainGivesNothing
  <2>4. Brought = {} /\ handle' = "ready" /\ existing' = existing
    BY <2>2 DEF Brought, Details
  <2>5. todo' = Last3
    BY <1>1, <1>2, <1>4, <2>1, <2>3
  <2>6. Honest'
    BY <1>3, <1>10, <2>4 DEF Honest
  <2>7. Lends'
    <3>1. ExceptEC \in Lending /\ Trial(TRUE) \in Lending
      BY DEF Lending
    <3>2. <<ExceptEC, Trial(TRUE)>> \in Seq(Lending)
      <4>1. <<ExceptEC>> \o <<Trial(TRUE)>> \in Seq(Lending)
        BY <3>1, OneOf, Joined
      <4> QED BY <4>1, OneAndOne
    <3>3. Last3 = Path(<<ExceptEC, Trial(TRUE)>>, FinEC, <<>>)
      BY ThreeInARow DEF Last3
    <3> QED BY <2>5, <3>2, <3>3 DEF Lends
  <2> QED BY <2>4, <2>6, <2>7
<1> QED BY <1>5, <1>6, <1>7, <1>8, <1>9, <1>10 DEF ToPrepare

LEMMA UnderwayOn ==
    ASSUME Underway, Calm(TRUE), NEW P, GoesBy(P), Details
    PROVE  /\ Underway'
           /\ handle # "ready" /\ handle' = "ready" => Honest' /\ Lends'
<1>1. todo # <<>> /\ todo' = Before(P, Rest) /\ Gives(Now, P) /\ Effects
  BY GoneBy
<1>2. late = {} /\ Swept(TRUE)
  BY DEF Calm
<1>3. Now.do \notin {"ready", "revoke", "cleaned"} => handle' = handle
  BY <1>1 DEF Effects
<1>4. ASSUME todo \in Seq(Barren(TRUE))
      PROVE  todo' \in Seq(Barren(TRUE)) /\ Now.do # "ready"
  <2>1. Now \in Barren(TRUE) /\ Rest \in Seq(Barren(TRUE))
    BY <1>1, <1>4, FirstAndRest
  <2>2. P \in Seq(Barren(TRUE))
    BY <1>1, <2>1, BarrenGives
  <2>3. Now.do # "ready"
    BY <2>1, BarrenKinds
  <2> QED BY <1>1, <2>1, <2>2, <2>3, BeforeStays
<1>5. ASSUME todo \in Seq(Barren(TRUE)), handle' = "ready" PROVE handle = "ready"
  <2>1. Now.do # "ready"
    BY <1>4, <1>5
  <2>2. Now.do \notin {"revoke", "cleaned"}
    BY <1>5 DEF Details
  <2> QED BY <1>3, <1>5, <2>1, <2>2
<1>6. CASE handle = None /\ ToPrepare
  <2>1. None # "ready"
    BY DEF None
  <2>2. \/ handle' = None /\ ToPrepare'
        \/ handle' = "ready" /\ Honest' /\ Lends'
    BY <1>2, <1>6, PrepareOn
  <2> QED BY <2>1, <2>2 DEF Underway
<1>7. CASE handle = "ready"
  <2>1. CASE Now.do \in {"revoke", "cleaned"}
    <3>1. Settled(TRUE)
      BY <1>1, <1>2, <2>1, SettledNow
    <3>2. todo' \in Seq(Barren(TRUE))
      BY <1>4, <3>1 DEF Settled
    <3> QED BY <1>7, <3>2 DEF Underway
  <2>2. CASE Now.do \notin {"revoke", "cleaned"}
    <3>1. handle' = "ready"
      BY <1>3, <1>7, <2>2 DEF Details
    <3> QED BY <1>7, <3>1 DEF Underway
  <2> QED BY <2>1, <2>2
<1>8. CASE todo \in Seq(Barren(TRUE))
  BY <1>4, <1>5, <1>8 DEF Underway
<1> QED BY <1>6, <1>7, <1>8 DEF Underway

(* The differential evaluation ends in its executor's cleanup.             *)
Ends ==
    \/ todo = <<>> /\ handle = "cleaned"
    \/ \E x \in Seq(Any(TRUE)), e \in {Whole(TRUE), FinEC, Cleaned} : todo = Path(x, e, <<>>)

LEMMA AllGive ==
    ASSUME NEW u \in Any(TRUE), NEW P, Gives(u, P)
    PROVE  P \in Seq(Any(TRUE))
<1>0. TRUE \in BOOLEAN
  OBVIOUS
<1>1. CASE u \notin Keys(TRUE)
  BY <1>0, <1>1, AnyGives
<1>2. Running(TRUE) \cup {Classifying} \subseteq Any(TRUE)
  BY LendingIsAny DEF Lending
<1>3. CASE u = Judging(TRUE)
  <2>1. P \in Seq(Running(TRUE) \cup {Classifying})
    BY <1>0, <1>3, JudgingGives
  <2> QED BY <1>2, <2>1, ClassSequences
<1>4. CASE u = Classifying
  <2>1. u.do = "classify"
    BY <1>4 DEF Classifying
  <2>2. P = <<>>
    BY <2>1, PlainGivesNothing
  <2> QED BY <2>2
<1>5. CASE u = Trial(TRUE)
  <2>1. P \in Seq(Core(TRUE))
    BY <1>5, TrialGives
  <2>2. Core(TRUE) \subseteq Any(TRUE)
    <3>1. LightOver(Steps(TRUE), Owned(TRUE)) \subseteq Light(TRUE) /\ Light(TRUE) \subseteq Busy(TRUE)
      BY <1>0, Classes
    <3>2. Heavy \subseteq Busy(TRUE) /\ Busy(TRUE) \subseteq Any(TRUE)
      BY DEF Busy, Any
    <3>3. {Judging(TRUE), Classifying} \subseteq Any(TRUE)
      BY DEF Any, Keys
    <3> QED BY <3>1, <3>2, <3>3, LendingIsAny DEF Core
  <2> QED BY <2>1, <2>2, ClassSequences
<1>6. CASE u = Whole(TRUE)
  <2>1. P = <<PrepTry>> \o (<<Trial(TRUE)>> \o <<FinEC>>)
    BY <1>6, WholeGives
  <2>2. PrepTry \in Any(TRUE) /\ FinEC \in Any(TRUE) /\ Trial(TRUE) \in Any(TRUE)
    BY LendingIsAny DEF Any, Keys
  <2>3. <<PrepTry>> \o (<<Trial(TRUE)>> \o <<FinEC>>) \in Seq(Any(TRUE))
    BY <2>2, Joined, OneOf
  <2> QED BY <2>1, <2>3
<1> QED BY <1>1, <1>3, <1>4, <1>5, <1>6 DEF Keys

LEMMA EndsOn ==
    ASSUME Ends, NEW P, GoesBy(P), Details, todo \in Seq(Any(TRUE))
    PROVE  Ends'
<1> DEFINE S == Any(TRUE)
           n == <<>>
<1>1. todo # <<>> /\ todo' = Before(P, Rest) /\ Gives(Now, P) /\ n \in Seq(S)
  BY GoneBy
<1>2. PICK x \in Seq(S), e \in {Whole(TRUE), FinEC, Cleaned} : todo = Path(x, e, n)
  BY <1>1 DEF Ends
<1>3. P \in Seq(S)
  <2>1. Now \in Any(TRUE)
    BY <1>1, FirstAndRest
  <2> QED BY <1>1, <2>1, AllGive
<1>4. Before(P, n) = P
  <2> HIDE DEF S
  <2> QED BY <1>3, ConcatEmptySeq DEF Before
<1>5. CASE x = <<>>
  <2>1. Now = e /\ Rest = n
    <3>1. /\ Path(x, e, n) # <<>>
          /\ x = <<>> => Head(Path(x, e, n)) = e /\ Tail(Path(x, e, n)) = n
          /\ x # <<>> => /\ Head(Path(x, e, n)) = Head(x) /\ Head(x) \in S
                         /\ Tail(Path(x, e, n)) = Path(Tail(x), e, n) /\ Tail(x) \in Seq(S)
      <4> HIDE DEF S, n
      <4> QED BY <1>1, PathAhead
    <3> HIDE DEF S, n
    <3> QED BY <1>2, <1>5, <3>1 DEF Now, Rest
  <2>2. todo' = P
    BY <1>1, <1>4, <2>1
  <2>3. CASE e = Whole(TRUE)
    <3>1. P = <<PrepTry>> \o (<<Trial(TRUE)>> \o <<FinEC>>)
      BY <1>1, <2>1, <2>3, WholeGives
    <3>2. P = Path(<<PrepTry, Trial(TRUE)>>, FinEC, <<>>)
      BY <3>1, ThreeInARow
    <3>3. PrepTry \in S /\ Trial(TRUE) \in S
      BY LendingIsAny DEF Any, Keys
    <3>4. <<PrepTry, Trial(TRUE)>> \in Seq(S)
      <4>1. <<PrepTry>> \o <<Trial(TRUE)>> \in Seq(S)
        BY <3>3, OneOf, Joined
      <4> QED BY <4>1, OneAndOne
    <3> QED BY <2>2, <3>2, <3>4 DEF Ends
  <2>4. CASE e = FinEC
    <3>1. FinEC.do = "finally" /\ FinEC.then = ExecutorCleanup
      BY DEF FinEC
    <3>2. P = ExecutorCleanup
      BY <1>1, <2>1, <2>4, <3>1 DEF Gives
    <3> DEFINE c == Cleanup(ExecutorObjects)
    <3>3. ExecutorCleanup = <<Revoke, c, Cleaned>>
      BY DEF ExecutorCleanup, Cleaned
    <3>4. Revoke \in S /\ c \in S
      <4>1. ExecutorCleanup \in Seq(S)
        BY LendingIsAny
      <4>2. ExecutorCleanup[1] = Revoke /\ ExecutorCleanup[2] = c /\ Len(ExecutorCleanup) = 3
        BY <3>3
      <4>3. ExecutorCleanup[1] \in S /\ ExecutorCleanup[2] \in S
        <5> DEFINE q == ExecutorCleanup
        <5>1. q \in Seq(S) /\ Len(q) = 3
          BY <4>1, <4>2
        <5> HIDE DEF S, q
        <5>2. 1 \in 1 .. Len(q) /\ 2 \in 1 .. Len(q)
          BY <5>1
        <5>3. \A k \in 1 .. Len(q) : q[k] \in S
          BY <5>1, ElementOfSeq
        <5> QED BY <5>2, <5>3 DEF q
      <4> QED BY <4>2, <4>3
    <3> HIDE DEF c
    <3>5. <<Revoke, c>> \in Seq(S)
      <4>1. <<Revoke>> \o <<c>> \in Seq(S)
        BY <3>4, OneOf, Joined
      <4> QED BY <4>1, OneAndOne
    <3>6. P = Path(<<Revoke, c>>, Cleaned, <<>>)
      BY <3>2, <3>3, ThreeInARow
    <3> QED BY <2>2, <3>5, <3>6 DEF Ends
  <2>5. CASE e = Cleaned
    <3>1. Now.do = "cleaned"
      BY <2>1, <2>5 DEF Cleaned
    <3>2. P = <<>>
      BY <1>1, <3>1, PlainGivesNothing
    <3>3. handle' = "cleaned"
      BY <3>1 DEF Details
    <3> QED BY <2>2, <3>2, <3>3 DEF Ends
  <2> QED BY <2>3, <2>4, <2>5
<1>6. CASE x # <<>>
  <2>1. Rest = Tail(Path(x, e, n))
    BY <1>2 DEF Rest
  <2>2. \E z \in Seq(S) : Before(P, Tail(Path(x, e, n))) = Path(z, e, n)
    <3> HIDE DEF S, n
    <3> QED BY <1>1, <1>3, <1>6, PathReplaced
  <2> QED BY <1>1, <2>1, <2>2 DEF Ends
<1> QED BY <1>5, <1>6
----------------------------------------------------------------------------
(* What is kept, whichever program runs.                                   *)
Kept(b) ==
    /\ Bound(b) /\ collection \in Seq(Execution) /\ runs \in Seq(Execution)
    /\ registered \subseteq Owned(b)
    /\ \/ Calm(b) /\ (b = TRUE => Underway /\ Ends)
       \/ Fallen(b)
       \/ Reported(b)
    /\ b = FALSE => handle = None /\ Decided(b)
    /\ b = TRUE => Closing /\ Closed /\ Lent
GoneInv == \E b \in BOOLEAN : Kept(b)

LEMMA InitGone ==
    ASSUME Init
    PROVE  GoneInv
<1>1. PICK b \in BOOLEAN : /\ todo = <<Whole(b)>> /\ todo = Path(<<>>, Whole(b), <<>>)
                           /\ Bound(b)
                           /\ collection \in Seq(Execution) /\ runs \in Seq(Execution)
  BY InitStarts
<1>2. /\ existing = {} /\ late = {} /\ arrived = {} /\ unacknowledged = {} /\ registered = {}
      /\ files = {} /\ verdict = None /\ handle = None
  BY DEF Init, DockerInit
<1>3. Swept(b)
  <2>1. <<>> \in Seq(Core(b)) /\ <<>> \in Seq(Barren(b)) /\ Whole(b) \in SweepMarks(b)
    BY DEF SweepMarks
  <2> QED BY <1>1, <2>1 DEF Swept, Unsettled
<1>4. Calm(b)
  BY <1>2, <1>3 DEF Calm
<1>5. None # "cleaned" /\ None # "ready"
  BY DEF None
<1>6. ASSUME b = TRUE PROVE Underway /\ Ends /\ Closing /\ Closed /\ Lent
  <2>1. todo = <<Whole(TRUE)>> /\ todo = Path(<<>>, Whole(TRUE), <<>>)
    BY <1>1, <1>6
  <2>2. Underway
    BY <1>2, <2>1 DEF Underway, ToPrepare
  <2>3. Ends
    <3>1. <<>> \in Seq(Any(TRUE))
      OBVIOUS
    <3> QED BY <2>1, <3>1 DEF Ends
  <2>4. Closing
    <3>1. Whole(TRUE) \in Plain
      BY DEF Plain
    <3>2. todo \in Seq(Plain)
      BY <2>1, <3>1, OneOf
    <3> QED BY <3>2 DEF Closing
  <2> QED BY <1>2, <1>5, <2>2, <2>3, <2>4 DEF Closed, Lent
<1>7. ASSUME b = FALSE PROVE Decided(b)
  <2>1. Whole(b) \in Keys(b)
    BY DEF Keys
  <2> DEFINE k == Whole(b)
  <2>2. 1 \in DOMAIN todo /\ todo[1] = k
    BY <1>1
  <2>3. Keyed(b, todo)
    BY <2>1, <2>2 DEF Keyed
  <2> QED BY <2>3 DEF Decided
<1>8. Kept(b)
  BY <1>1, <1>2, <1>4, <1>6, <1>7 DEF Kept
<1> QED BY <1>8 DEF GoneInv

(* While the engine carries out a creation that was given up on.           *)
LEMMA KeptWaiting ==
    ASSUME NEW b \in BOOLEAN, Kept(b), Waits
    PROVE  /\ (Calm(b)' /\ (b = TRUE => Underway' /\ Ends')) \/ Fallen(b)' \/ Reported(b)'
           /\ b = FALSE => handle' = None /\ Decided(b)'
           /\ b = TRUE => Closing' /\ Closed' /\ Lent'
<1>1. /\ todo' = todo /\ registered' = registered /\ handle' = handle
  BY DEF Waits
<1>2. /\ Calm(b) => Calm(b)' /\ existing' = existing
      /\ Fallen(b) => Fallen(b)'
      /\ Reported(b) => Reported(b)'
      /\ Decided(b) => Decided(b)'
  BY WaitingKeeps
<1>3. Closing => Closing'
  BY <1>1 DEF Closing, AtSweep
<1>4. Closed => Closed'
  BY <1>1 DEF Closed
<1>5. Lent => Lent'
  BY LentWaits
<1>6. Ends => Ends'
  BY <1>1 DEF Ends
<1>7. ASSUME existing' = existing PROVE Underway => Underway'
  <2>1. ToPrepare => ToPrepare'
    BY <1>1, <1>7 DEF ToPrepare
  <2> QED BY <1>1, <2>1 DEF Underway
<1>8. Calm(b) /\ (b = TRUE => Underway /\ Ends) =>
         Calm(b)' /\ (b = TRUE => Underway' /\ Ends')
  BY <1>2, <1>6, <1>7
<1> QED BY <1>1, <1>2, <1>3, <1>4, <1>5, <1>8 DEF Kept

LEMMA KeptThrowing ==
    ASSUME NEW b \in BOOLEAN, Kept(b), Throws
    PROVE  /\ Fallen(b)' \/ Reported(b)'
           /\ b = FALSE => handle' = None /\ Decided(b)'
           /\ b = TRUE => Closing' /\ Closed' /\ Lent'
<1>1. Bound(b) /\ (Calm(b) \/ Fallen(b) \/ Reported(b))
  BY DEF Kept
<1>2. handle' = handle
  BY DEF Throws
<1>3. /\ Falls(b, todo)' /\ "report" \notin files => Fallen(b)'
      /\ Decided(b)' /\ Falls(b, todo)'
  BY <1>1, ThrowingFalls
<1>4. Calm(b) \/ Fallen(b) => "report" \notin files
  BY DEF Calm, Fallen
<1>5. Reported(b) => Reported(b)'
  BY ReportedOn
<1>6. ASSUME b = TRUE PROVE Closing' /\ Closed' /\ Lent'
  <2>1. Bound(TRUE) /\ Closing /\ Closed /\ Lent
    BY <1>1, <1>6 DEF Kept
  <2> QED BY <2>1, ClosingThrown, ClosedThrown, LentThrown
<1>7. b = FALSE => handle = None
  BY DEF Kept
<1>8. Fallen(b)' \/ Reported(b)'
  BY <1>1, <1>3, <1>4, <1>5
<1> QED BY <1>2, <1>3, <1>6, <1>7, <1>8

(* The differential evaluation goes on.                                    *)
LEMMA DifferentialGoesOn ==
    ASSUME Kept(TRUE), NEW P, GoesBy(P), Details, [Next]_vars
    PROVE  /\ Closing' /\ Closed' /\ Lent'
           /\ Calm(TRUE) /\ Underway /\ Ends => Underway' /\ Ends'
<1>1. /\ Bound(TRUE) /\ Closing /\ Closed /\ Lent
      /\ (Calm(TRUE) /\ Underway /\ Ends) \/ Fallen(TRUE)
  BY DEF Kept, Reported
<1>2. Closing'
  BY <1>1, ClosingOn
<1>3. Closed'
  BY <1>1, ClosedOn
<1>4. todo \in Seq(Any(TRUE)) /\ Effects
  BY <1>1, BoundIsSequence, GoneBy
<1>5. CASE Calm(TRUE) /\ Underway /\ Ends
  <2>1. /\ Underway'
        /\ handle # "ready" /\ handle' = "ready" => Honest' /\ Lends'
    BY <1>5, UnderwayOn
  <2>2. Ends'
    BY <1>4, <1>5, EndsOn
  <2>3. handle = "ready" => Lent'
    BY <1>1, LentOn
  <2>4. handle # "ready" => Lent'
    BY <2>1 DEF Lent
  <2> QED BY <1>2, <1>3, <2>1, <2>2, <2>3, <2>4
<1>6. CASE Fallen(TRUE)
  <2>1. Falls(TRUE, todo)
    BY <1>6 DEF Fallen
  <2>2. Now.do # "ready"
    BY <2>1, FallsNow
  <2>3. handle # "ready" => handle' # "ready"
    <3>1. CASE Now.do \in {"revoke", "cleaned"}
      BY <3>1 DEF Details
    <3>2. CASE Now.do \notin {"revoke", "cleaned"}
      BY <1>4, <2>2, <3>2 DEF Effects
    <3> QED BY <3>1, <3>2
  <2>4. handle = "ready" => Lent'
    BY <1>1, LentOn
  <2>5. handle # "ready" => Lent'
    BY <2>3 DEF Lent
  <2> QED BY <1>2, <1>3, <1>5, <2>4, <2>5
<1> QED BY <1>1, <1>5, <1>6

LEMMA KeptOn ==
    ASSUME NEW b \in BOOLEAN, Kept(b), LeftoversExplained, NEW P, GoesBy(P), Details, [Next]_vars
    PROVE  /\ (Calm(b)' /\ (b = TRUE => Underway' /\ Ends')) \/ Fallen(b)' \/ Reported(b)'
           /\ b = FALSE => handle' = None /\ Decided(b)'
           /\ b = TRUE => Closing' /\ Closed' /\ Lent'
<1>1. /\ Bound(b) /\ registered \subseteq Owned(b) /\ runs \in Seq(Execution)
      /\ b = FALSE => handle = None /\ Decided(b)
      /\ (Calm(b) /\ (b = TRUE => Underway /\ Ends)) \/ Fallen(b) \/ Reported(b)
  BY DEF Kept
<1>2. Effects
  BY GoneBy
<1>3. ASSUME b = FALSE PROVE handle' = None /\ Decided(b)'
  <2>1. handle' = handle
    BY <1>1, <1>2, <1>3, OwnedOn
  <2>2. Decided(b)'
    BY <1>1, <1>3, DecidedOn
  <2> QED BY <1>1, <1>3, <2>1, <2>2
<1>4. ASSUME b = TRUE
      PROVE  /\ Closing' /\ Closed' /\ Lent'
             /\ Calm(b) /\ Underway /\ Ends => Underway' /\ Ends'
  <2>1. Kept(TRUE)
    BY <1>4
  <2>2. /\ Closing' /\ Closed' /\ Lent'
        /\ Calm(TRUE) /\ Underway /\ Ends => Underway' /\ Ends'
    BY <2>1, DifferentialGoesOn
  <2> QED BY <1>4, <2>2
<1>5. CASE Calm(b) /\ (b = TRUE => Underway /\ Ends)
  <2>1. Calm(b)' \/ Reported(b)'
    <3>1. b = FALSE => Decided(b)
      BY <1>1
    <3> QED BY <1>1, <1>5, <3>1, CalmOn
  <2>2. b = TRUE => Underway' /\ Ends'
    BY <1>4, <1>5
  <2> QED BY <1>3, <1>4, <2>1, <2>2
<1>6. CASE Fallen(b)
  <2>1. Fallen(b)'
    BY <1>1, <1>6, FallenOn
  <2> QED BY <1>3, <1>4, <2>1
<1>7. CASE Reported(b)
  <2>1. Reported(b)'
    BY <1>7, ReportedOn
  <2> QED BY <1>3, <1>4, <2>1
<1> QED BY <1>1, <1>5, <1>6, <1>7

LEMMA NextKeepsGone ==
    ASSUME GoneInv, LeftoversExplained, [Next]_vars
    PROVE  GoneInv'
<1>1. PICK b \in BOOLEAN : Kept(b)
  BY DEF GoneInv
<1>2. /\ Bound(b) /\ collection \in Seq(Execution) /\ runs \in Seq(Execution)
      /\ registered \subseteq Owned(b)
  BY <1>1 DEF Kept
<1>3. Bound(b)' /\ collection' \in Seq(Execution) /\ runs' \in Seq(Execution)
  BY <1>2, NextKeepsBound
<1>4. todo \in Seq(Any(b))
  BY <1>2, BoundIsSequence
<1>5. \/ Waits \/ Throws
      \/ Details /\ \E P : GoesBy(P)
  <2>1. Waits \/ Throws \/ \E P : GoesBy(P)
    BY <1>4, StepKinds
  <2> QED BY <2>1, StepDetails
<1>6. CASE Waits
  <2>1. registered' = registered
    BY <1>6 DEF Waits
  <2>2. /\ (Calm(b)' /\ (b = TRUE => Underway' /\ Ends')) \/ Fallen(b)' \/ Reported(b)'
        /\ b = FALSE => handle' = None /\ Decided(b)'
        /\ b = TRUE => Closing' /\ Closed' /\ Lent'
    BY <1>1, <1>6, KeptWaiting
  <2>3. Kept(b)'
    BY <1>2, <1>3, <2>1, <2>2 DEF Kept
  <2> QED BY <2>3 DEF GoneInv
<1>7. CASE Throws
  <2>1. registered' \subseteq Owned(b)
    <3>1. Effects
      BY <1>7 DEF Throws
    <3> QED BY <1>2, <3>1, OwnedOn
  <2>2. /\ Fallen(b)' \/ Reported(b)'
        /\ b = FALSE => handle' = None /\ Decided(b)'
        /\ b = TRUE => Closing' /\ Closed' /\ Lent'
    BY <1>1, <1>7, KeptThrowing
  <2>3. Kept(b)'
    BY <1>3, <2>1, <2>2 DEF Kept
  <2> QED BY <2>3 DEF GoneInv
<1>8. ASSUME NEW P, GoesBy(P), Details
      PROVE  GoneInv'
  <2>1. registered' \subseteq Owned(b)
    <3>1. Effects
      BY <1>8, GoneBy
    <3> QED BY <1>2, <3>1, OwnedOn
  <2>2. /\ (Calm(b)' /\ (b = TRUE => Underway' /\ Ends')) \/ Fallen(b)' \/ Reported(b)'
        /\ b = FALSE => handle' = None /\ Decided(b)'
        /\ b = TRUE => Closing' /\ Closed' /\ Lent'
    BY <1>1, <1>8, KeptOn
  <2>3. Kept(b)'
    BY <1>3, <2>1, <2>2 DEF Kept
  <2> QED BY <2>3 DEF GoneInv
<1> QED BY <1>5, <1>6, <1>7, <1>8

(* A program that ended while nothing had failed left nothing registered.  *)
LEMMA EndedCalm ==
    ASSUME NEW b \in BOOLEAN, Kept(b), todo = <<>>, ~Reported(b)
    PROVE  registered = {} /\ late = {} /\ arrived = {} /\ unacknowledged = {}
<1>1. ~Fallen(b)
  BY FallsNow DEF Fallen
<1>2. Calm(b) /\ (b = TRUE => Ends /\ Closed) /\ registered \subseteq Owned(b)
  BY <1>1 DEF Kept
<1>3. registered \cap SandboxObjects = {}
  <2>1. ~Unsettled(b)
    <3> SUFFICES ASSUME NEW x \in Seq(Core(b)), NEW k \in SweepMarks(b), NEW y \in Seq(Barren(b)),
                        todo = Path(x, k, y)
                 PROVE  FALSE
      BY DEF Unsettled
    <3>1. Path(x, k, y) # <<>>
      BY PathAhead
    <3> QED BY <3>1
  <2>2. ~\E w \in Seq(Barren(b)) : AtSweep(SandboxObjects, w)
    <3> SUFFICES ASSUME NEW w \in Seq(Barren(b)), AtSweep(SandboxObjects, w) PROVE FALSE
      OBVIOUS
    <3>1. PICK left, ok : todo = Before(<<Sweeping(left, ok)>>, w)
      BY DEF AtSweep
    <3>2. Before(<<Sweeping(left, ok)>>, w) # <<>>
      BY BeforeOne
    <3> QED BY <3>1, <3>2
  <2>3. Settled(b)
    BY <1>2, <2>1, <2>2 DEF Calm, Swept
  <2> QED BY <2>3 DEF Settled
<1>4. registered = {}
  <2>1. CASE b = FALSE
    BY <1>2, <1>3, <2>1 DEF Owned
  <2>2. CASE b = TRUE
    <3>1. handle = "cleaned"
      <4>1. ASSUME NEW x \in Seq(Any(TRUE)), NEW e \in {Whole(TRUE), FinEC, Cleaned},
                   todo = Path(x, e, <<>>)
            PROVE  FALSE
        <5> DEFINE S == Any(TRUE)
                   n == <<>>
        <5>1. n \in Seq(S) /\ x \in Seq(S)
          <6>1. x \in Seq(S)
            BY <4>1
          <6>2. n \in Seq(S)
            OBVIOUS
          <6> QED BY <6>1, <6>2
        <5> HIDE DEF S, n
        <5>2. Path(x, e, n) # <<>>
          BY <5>1, PathAhead
        <5> QED BY <4>1, <5>2 DEF n
      <4> QED BY <1>2, <2>2, <4>1 DEF Ends
    <3>2. registered \cap ExecutorObjects = {}
      BY <1>2, <2>2, <3>1 DEF Closed
    <3> QED BY <1>2, <1>3, <2>2, <3>2 DEF Owned, Names
  <2> QED BY <2>1, <2>2
<1> QED BY <1>2, <1>4 DEF Calm

LEMMA GoneIsSuccess ==
    ASSUME GoneInv, LeftoversExplained
    PROVE  SuccessMeansGone
<1>1. PICK b \in BOOLEAN : Kept(b)
  BY DEF GoneInv
<1>2. /\ Calm(b) \/ Fallen(b) \/ Reported(b)
      /\ b = FALSE => handle = None
      /\ b = TRUE => Closed /\ Lent
  BY <1>1 DEF Kept
<1>3. "report" \in files => Reported(b)
  BY <1>2 DEF Calm, Fallen
<1>4. Reported(b) => verdict # None /\ existing = {} /\ late = {}
  BY DEF Reported
<1>5. todo = <<>> => existing = {} /\ late = {}
  <2>1. CASE todo = <<>> /\ ~Reported(b)
    <3>1. registered = {} /\ late = {} /\ arrived = {} /\ unacknowledged = {}
      BY <1>1, <2>1, EndedCalm
    <3> QED BY <3>1, AllRegistered
  <2> QED BY <1>4, <2>1
<1>6. None # "cleaned" /\ None # "ready"
  BY DEF None
<1>7. ASSUME handle = "cleaned" PROVE existing \cap ExecutorObjects \subseteq arrived
  <2>1. registered \cap ExecutorObjects = {}
    BY <1>2, <1>6, <1>7 DEF Closed
  <2>2. existing \cap ExecutorObjects \subseteq registered \cup arrived
    BY AllRegistered
  <2> QED BY <2>1, <2>2
<1>8. ASSUME handle = "ready"
      PROVE  /\ Receipt.removed \cap (existing \cup late) = {}
             /\ Receipt.retained \subseteq existing
  <2>1. Honest
    BY <1>2, <1>6, <1>8 DEF Lent
  <2> QED BY <2>1 DEF Honest, Receipt
<1> QED BY <1>3, <1>4, <1>5, <1>7, <1>8 DEF SuccessMeansGone

(* workflow.py, differential.py, dependency_executor.py: whatever commands *)
(* fail and whenever the engine carries out what was given up on, a report *)
(* is on file or a program returned only when nothing is left in the       *)
(* engine; an executor that says it is clean left only what came late; and *)
(* while the handle of its volume is good, its receipt is true.            *)
THEOREM SuccessAlwaysMeansGone == Spec => []SuccessMeansGone
<1>1. GoneInv /\ LeftoversExplained => SuccessMeansGone
  BY GoneIsSuccess
<1> QED BY <1>1, InitGone, NextKeepsGone, LeftoversAlwaysExplained, PTL DEF Spec
=============================================================================
