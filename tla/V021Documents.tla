--------------------------- MODULE V021Documents ---------------------------
(***************************************************************************)
(* The documents a v0.2.1 campaign rests on, beside those of the exact one *)
(* in ExactDocuments, with which it shares the extraction, the runtime,    *)
(* the gold smoke, the chronology and the mapping packets.                 *)
(*                                                                         *)
(* There is no controller here: a program calls the library, with paths of *)
(* its own for each call, and holds what the verifiers issue.  An issued   *)
(* authority is the document that was verified and the path it was read    *)
(* from, and outlives the file.  Only the automated mode is modelled: what *)
(* the packets say of the extraction never satisfies the other one.        *)
(***************************************************************************)
EXTENDS ExactDocuments

VARIABLES session  \* the authorities that the process of a workspace holds

vars21 == <<vars, session>>

Kinds21 == {"smoke19", "amendment", "capability21", "cases21", "evidence", "prereg21",
            "authorization21", "plan"}

ASSUME KindsAssumption == Kinds21 \subseteq Further

(* The amended specs are a digest in the code: the first ones there were. *)
FrozenSpecs == 1

Nothing == [held |-> <<>>, path |-> <<>>, candidate |-> None]
Holds(w, d) == d \in DOMAIN session[w].held
Held(w, d) == session[w].held[d]

-----------------------------------------------------------------------------
(* Verifiers. *)

AmendmentInputs == {"specs", "smoke19", "smoke", "manifest", "hidden", "amendment"}

(* Two smokes over the same runtime and extraction, by one commit: the     *)
(* first with a case that failed, the second with the amended specs.       *)
SmokePairOk(a) ==
  /\ Binds(Is(a, "smoke"), a, {"specs", "manifest", "hidden"})
  /\ Binds(Is(a, "smoke19"), a, {"manifest", "hidden"})
  /\ Is(a, "smoke19").tool = Is(a, "smoke").tool

AmendmentDerivable(a) ==
  /\ There(a, {"specs", "smoke19", "smoke", "manifest", "hidden"})
  /\ At(a, "specs") = FrozenSpecs
  /\ SmokePairOk(a)

AmendmentOk(a) ==
  /\ There(a, {"amendment"})
  /\ AmendmentDerivable(a)
  /\ Binds(Is(a, "amendment"), a, {"smoke19", "smoke", "manifest", "hidden"})

(* The amendments that an authority can be issued for. *)
Amendments ==
  {At(a, "amendment") : a \in {b \in Arguments(AmendmentInputs) : AmendmentOk(b)}}

Capability21Derivable(a, m, amendment, t) ==
  /\ CapabilityDerivable(a, m)
  /\ Is(a, "smoke").specs = FrozenSpecs
  /\ Binds(content["amendment"][amendment], a, {"manifest", "hidden", "smoke"})
  /\ content["amendment"][amendment].tool = t

Capability21Ok(a, m, amendment) ==
  /\ There(a, {"capability21"})
  /\ Capability21Derivable(a, m, amendment, Is(a, "capability21").tool)
  /\ Is(a, "capability21").amendment = amendment
  /\ Binds(Is(a, "capability21"), a, {"manifest", "smoke", "hidden"})

CasesInputs == AmendmentInputs \cup {"capability21"}

Cases21Derivable(a, t) ==
  /\ AmendmentOk(a)
  /\ Capability21Ok(a, At(a, "manifest"), At(a, "amendment"))
  /\ Is(a, "capability21").tool = t

(* What each package says of its case's capability. *)
PackageBinding(a) == Bound(a, {"hidden", "manifest", "capability21"})

(* The preparation names all of its inputs by the paths it was made with. *)
Cases21Ok(a) ==
  /\ There(a, {"cases21"})
  /\ LET cases == Is(a, "cases21") IN
     /\ Cases21Derivable(cases.paths, cases.tool)
     /\ LET binding == PackageBinding(cases.paths) IN
        \A d \in DOMAIN binding : cases[d] = binding[d]

(* The packets' human fixes are those of the extraction, with no reviews. *)
PacketsOf(a) == Binds(Is(a, "packets"), a, {"hidden"})

(* The index is the amendment's, and so is the smoke it rests on. *)
RowsOf(a, amendment) ==
  /\ Is(a, "capability21").amendment = amendment
  /\ Binds(content["amendment"][amendment], a, {"smoke"})

OneProducer(a, t) ==
  \A d \in {"cases21", "capability21", "chronology", "packets"} : Is(a, d).tool = t

(* The preparation's own amendment and capability are not compared with    *)
(* the ones that are supplied here.                                        *)
EvidenceDerivable(a, amendment, t) ==
  /\ Cases21Ok(a) /\ ChronologyOk(a) /\ There(a, {"packets"})
  /\ Capability21Ok(a, At(a, "manifest"), amendment)
  /\ Binds(Is(a, "cases21"), a, {"hidden"})
  /\ PacketsOf(a) /\ RowsOf(a, amendment) /\ OneProducer(a, t)

EvidenceInputs == {"cases21", "capability21", "chronology", "packets", "hidden",
                   "manifest", "smoke"}

EvidenceOk(a) ==
  /\ There(a, {"evidence"})
  /\ Is(a, "evidence").amendment \in Amendments
  /\ EvidenceDerivable(a, Is(a, "evidence").amendment, Is(a, "evidence").tool)
  /\ Binds(Is(a, "evidence"), a, EvidenceInputs)

(* The document of an authority is read again where it was read before. *)
Unchanged(w, d) == file[d][session[w].path[d]] = Held(w, d)

(* What is frozen of the evidence that the process holds. *)
FromEvidence(w) ==
  LET evidence == content["evidence"][Held(w, "evidence")] IN
  [tool |-> evidence.tool, rows |-> evidence.rows, evidence |-> Held(w, "evidence"),
   capability21 |-> evidence.capability21, manifest |-> evidence.manifest]

\* Mutant: any requests of the same number.
AnyRequests(plan, authorization) == TRUE

(* The envelopes in the plan are the twenty authorized ones. *)
RequestsOf(plan, authorization) == plan.rows = authorization.rows

PlanOk(w, a) ==
  LET authorization == content["authorization21"][Held(w, "authorization21")] IN
  /\ Unchanged(w, "prereg21")
  /\ There(a, {"capability21", "plan"})
  /\ At(a, "capability21") = content["prereg21"][Held(w, "prereg21")].capability21
  /\ authorization.prereg21 = Held(w, "prereg21")
  /\ Is(a, "plan").authorization21 = Held(w, "authorization21")
  /\ Is(a, "plan").prereg21 = Held(w, "prereg21")
  /\ RequestsOf(Is(a, "plan"), authorization)
  /\ Binds(Is(a, "plan"), a, {"capability21"})

(* The statement a person makes names all of it, the ledger included. *)
AuthorizationRecord(w) ==
  [prereg21 |-> Held(w, "prereg21"), workspace |-> w,
   rows |-> content["prereg21"][Held(w, "prereg21")].rows]

-----------------------------------------------------------------------------
(* Preparation. *)

Prepare(d, p, record) == Write(d, p, record) /\ UNCHANGED session

(* Like the amended smoke, with the specs before the amendment. *)
PrepareSmoke19(a, p) ==
  /\ There(a, {"manifest", "hidden"})
  /\ Prepare("smoke19", p, Record(Made, a, {"manifest", "hidden"}))

PrepareAmendment(a, p) ==
  /\ AmendmentDerivable(a)
  /\ Prepare("amendment", p, Record(Made, a, {"smoke19", "smoke", "manifest", "hidden"}))

PrepareCapability21(a, p) ==
  \E amendment \in Amendments :
    /\ Capability21Derivable(a, At(a, "manifest"), amendment, tool)
    /\ Prepare("capability21", p, Record([tool |-> tool, amendment |-> amendment], a,
                                         {"manifest", "smoke", "hidden"}))

PrepareCases21(a, p) ==
  /\ There(a, CasesInputs)
  /\ Cases21Derivable(a, tool)
  /\ \E rows \in Packages :
       Prepare("cases21", p,
         Record([tool |-> tool, rows |-> rows, paths |-> [d \in CasesInputs |-> a[d]]],
                a, DOMAIN PackageBinding(a)))

PrepareEvidence(a, p) ==
  \E amendment \in Amendments :
    /\ EvidenceDerivable(a, amendment, tool)
    /\ Prepare("evidence", p,
         Record([tool |-> tool, rows |-> Is(a, "cases21").rows, amendment |-> amendment],
                a, EvidenceInputs))

PreparePreregistration21(w, p) ==
  /\ Holds(w, "evidence") /\ Unchanged(w, "evidence")
  /\ Prepare("prereg21", p, FromEvidence(w))

(* The issuance claim of a preregistration is never taken away. *)
Authorize21(w, p) ==
  /\ Holds(w, "prereg21") /\ Unchanged(w, "prereg21")
  /\ \A v \in DOMAIN content["authorization21"] :
       content["authorization21"][v].prereg21 # Held(w, "prereg21")
  /\ Prepare("authorization21", p, AuthorizationRecord(w))

(* The plan is written from the files that are there, and verified after. *)
PreparePlan(w, a, p) ==
  /\ Holds(w, "authorization21") /\ There(a, {"capability21"})
  /\ \E rows \in Packages :
       Prepare("plan", p, Record(
         [authorization21 |-> Held(w, "authorization21"), rows |-> rows,
          prereg21 |-> content["authorization21"][Held(w, "authorization21")].prereg21],
         a, {"capability21"}))

-----------------------------------------------------------------------------
(* The process of workspace w. *)

Put(f, d, x) == [e \in DOMAIN f \cup {d} |-> IF e = d THEN x ELSE f[e]]

Issue(w, d, a) ==
  /\ w \in scope.sessions
  /\ session' = [session EXCEPT ![w].held = Put(@, d, At(a, d)),
                                ![w].path = Put(@, d, a[d])]
  /\ UNCHANGED vars

VerifyEvidence(w, a) == EvidenceOk(a) /\ Issue(w, "evidence", a)

VerifyPreregistration(w, a) ==
  /\ Holds(w, "evidence") /\ Unchanged(w, "evidence")
  /\ There(a, {"prereg21"})
  /\ Is(a, "prereg21") = FromEvidence(w)
  /\ Issue(w, "prereg21", a)

VerifyAuthorization(w, a) ==
  /\ Holds(w, "prereg21") /\ Unchanged(w, "prereg21")
  /\ There(a, {"authorization21"})
  /\ Is(a, "authorization21") = AuthorizationRecord(w)
  /\ Issue(w, "authorization21", a)

VerifyPlan(w, a) ==
  /\ Holds(w, "prereg21") /\ Holds(w, "authorization21")
  /\ PlanOk(w, a)
  /\ Issue(w, "plan", a)

Plan(w) == content["plan"][Held(w, "plan")]

(* Authorizations are compared with the plan, and the ledger with both. *)
Generate(w) ==
  /\ w \in scope.sessions /\ Holds(w, "plan")
  /\ Held(w, "authorization21") = Plan(w).authorization21
  /\ ClaimedFor(w, <<"automated", Held(w, "authorization21")>>)
  /\ calls' = calls \cup
       {[workspace |-> w, kind |-> "automated", authorization |-> Held(w, "authorization21"),
         prereg |-> Plan(w).prereg21, plan |-> Held(w, "plan"), rows |-> Plan(w).rows]}
  /\ UNCHANGED <<content, file, tool, config, lock, run, evaluations, work, scope, session>>

(* The capability of a case is issued anew, by an amendment's authority. *)
IssueCapability(w, a) ==
  /\ w \in scope.sessions
  /\ \E amendment \in Amendments :
       /\ Capability21Derivable(a, At(a, "manifest"), amendment,
                                content["amendment"][amendment].tool)
       /\ session' = [session EXCEPT ![w].candidate =
            Record([amendment |-> amendment], a, {"manifest", "smoke", "hidden"})]
  /\ UNCHANGED vars

\* Mutant: the capability is taken as it was issued.
AuthorityIssued(held, evidence) == held # None

(* The capability is of the evidence the campaign was prepared with. *)
AuthorityBinds(held, evidence) == \A d \in DOMAIN held : held[d] = evidence[d]

(* The evaluator reads the inputs again. *)
InputsBound(held, a) ==
  /\ There(a, {"hidden", "manifest", "smoke", "specs"})
  /\ \A d \in {"hidden", "manifest", "smoke"} : At(a, d) = held[d]
  /\ Binds(Is(a, "smoke"), a, {"specs"})

(* Of the evidence, the requests alone are compared with the plan's. *)
EvaluateAutomated(w, a) ==
  LET held == session[w].candidate
      evidence == content["evidence"][Held(w, "evidence")] IN
  /\ w \in scope.sessions
  /\ Holds(w, "plan") /\ Holds(w, "evidence") /\ held # None
  /\ \E c \in calls : c.kind = "automated" /\ c.authorization = Plan(w).authorization21
  /\ evidence.rows = Plan(w).rows
  /\ Unchanged(w, "evidence")
  /\ AuthorityBinds(held, evidence) /\ InputsBound(held, a)
  /\ evaluations' = evaluations \cup
       {[kind |-> "automated", workspace |-> w, prereg |-> Plan(w).prereg21,
         evidence |-> Held(w, "evidence"), specs |-> At(a, "specs"),
         manifest |-> held.manifest, smoke |-> held.smoke, hidden |-> held.hidden]}
  /\ UNCHANGED <<content, file, tool, config, lock, run, claims, calls, work, scope, session>>

End(w) ==
  /\ session[w] # Nothing
  /\ session' = [session EXCEPT ![w] = Nothing]
  /\ UNCHANGED vars

Operate21 ==
  \E p \in Paths :
    \/ \E a \in Arguments(CasesInputs) :
         \/ PrepareSmoke19(a, p) \/ PrepareAmendment(a, p)
         \/ PrepareCapability21(a, p) \/ PrepareCases21(a, p)
    \/ \E a \in Arguments(EvidenceInputs \cup {"issues"}) : PrepareEvidence(a, p)
    \/ \E w \in Workspaces :
         \/ PreparePreregistration21(w, p) \/ Authorize21(w, p)
         \/ \E a \in Arguments({"capability21"}) : PreparePlan(w, a, p)

Campaign21(w) ==
  \/ \E a \in Arguments(EvidenceInputs \cup {"issues", "evidence"}) : VerifyEvidence(w, a)
  \/ \E a \in Arguments({"prereg21", "authorization21", "capability21", "plan"}) :
       VerifyPreregistration(w, a) \/ VerifyAuthorization(w, a) \/ VerifyPlan(w, a)
  \/ \E a \in Arguments({"manifest", "smoke", "hidden", "specs"}) :
       IssueCapability(w, a) \/ EvaluateAutomated(w, a)
  \/ Generate(w) \/ End(w)

-----------------------------------------------------------------------------
FirstRecord21(d) ==
  CASE d = "smoke19" -> First(FirstMade, {"manifest", "hidden"})
    [] d = "amendment" -> First(FirstMade, {"smoke19", "smoke", "manifest", "hidden"})
    [] d = "capability21" -> First(FirstMade, {"amendment", "manifest", "smoke", "hidden"})
    [] d = "cases21" -> First([tool |-> FirstTool, rows |-> FirstPackage,
                               paths |-> First(<<>>, CasesInputs)],
                              {"hidden", "manifest", "capability21"})
    [] d = "evidence" -> First(Carried, EvidenceInputs \cup {"amendment"})
    [] d = "prereg21" -> First(Carried, {"evidence", "capability21", "manifest"})
    [] OTHER -> FirstRecord(d)

FirstRecords21 ==
  [d \in (Roots \cup Derived \cup Kinds21) \ {"legacy", "authorization21", "plan"} |->
     FirstRecord21(d)]

Init21 ==
  /\ InitFrom(FirstRecords21)
  /\ session = [w \in Workspaces |-> Nothing]

Next21 ==
  \/ Next /\ UNCHANGED session
  \/ Operate21
  \/ \E w \in Workspaces : Campaign21(w)

Spec21 == Init21 /\ [][Next21]_vars21
-----------------------------------------------------------------------------
(* Properties. *)

(* A paid call of a v0.2.1 campaign is made under one lineage, although    *)
(* its documents are verified one by one and held across replacements: the *)
(* requests are the ones that were prepared, the extraction is the same in *)
(* the preparation, the chronology, the packets and the smoke, the index   *)
(* the plan commits to is the evidence's and rests on the amendment, and   *)
(* one commit made all of it.                                              *)
AutomatedLineage ==
  \A c \in calls : c.kind = "automated" =>
    LET plan == content["plan"][c.plan]
        authorization == content["authorization21"][c.authorization]
        prereg == content["prereg21"][c.prereg]
        evidence == content["evidence"][prereg.evidence]
        capability == content["capability21"][evidence.capability21]
        amendment == content["amendment"][evidence.amendment]
        cases == content["cases21"][evidence.cases21] IN
    /\ plan.authorization21 = c.authorization /\ authorization.prereg21 = c.prereg
    /\ authorization.workspace = c.workspace
    /\ {c.rows, authorization.rows, evidence.rows} = {cases.rows}
    /\ plan.capability21 = evidence.capability21
    /\ capability.amendment = evidence.amendment
    /\ {capability.smoke, evidence.smoke} = {amendment.smoke}
    /\ {capability.manifest, evidence.manifest} = {amendment.manifest}
    /\ {capability.hidden, amendment.hidden, cases.hidden,
        content["packets"][evidence.packets].hidden,
        content["chronology"][evidence.chronology].hidden,
        content["smoke"][amendment.smoke].hidden,
        content["smoke19"][amendment.smoke19].hidden} = {evidence.hidden}
    /\ {capability.tool, amendment.tool, cases.tool,
        content["packets"][evidence.packets].tool,
        content["chronology"][evidence.chronology].tool, prereg.tool} = {evidence.tool}

(* Every campaign calls under one lineage. *)
EveryLineage == OneLineage /\ AutomatedLineage

(* Each case is evaluated with what was committed before its call: an      *)
(* exact one with its preregistered row, a v0.2.1 one with one evidence    *)
(* over the same requests, though all of it is read again.                 *)
EvaluatedAsCommitted ==
  /\ EvaluatedAsPreregistered
  /\ \A e \in evaluations : e.kind = "automated" =>
       LET evidence == content["evidence"][e.evidence] IN
       /\ e.manifest = evidence.manifest /\ e.smoke = evidence.smoke
       /\ e.hidden = evidence.hidden /\ e.specs = FrozenSpecs
       /\ evidence.rows = content["prereg21"][e.prereg].rows

=============================================================================
