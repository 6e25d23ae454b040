--------------------------- MODULE ExactDocuments ---------------------------
(***************************************************************************)
(* The documents an exact-image campaign rests on: what is prepared from   *)
(* what, what each verifier recomputes, and which of them a provider call  *)
(* and an evaluation are made under.                                       *)
(*                                                                         *)
(* Every command takes the paths of its inputs from an operator, who may   *)
(* have prepared a document twice, may mix the paths of two preparations,  *)
(* and may remove a file and prepare another one in its place, before a    *)
(* campaign and in the middle of it.  A digest stands for the content it   *)
(* is the digest of: document v of a kind is entry v of content[d], which  *)
(* says what it binds, and file[d][p] is the document at path p (0: none). *)
(* Times are given truthfully, so a document is later than what it binds.  *)
(***************************************************************************)
EXTENDS Naturals, Sequences

CONSTANTS
  Tools,       \* commits of the checkout
  Packages,    \* what the twenty rendered requests can be
  Workspaces,  \* campaign workspaces, each with a ledger of its own
  MaxVersions, \* documents of one kind
  Further,     \* kinds of documents of another campaign, see V021Documents
  Scopes       \* what the operators do: bounds, see scope

ASSUME DocumentAssumption ==
  /\ Tools # {} /\ Packages # {}
  /\ MaxVersions \in Nat \ {0}
  /\ Scopes # {} /\ \A s \in Scopes : s.work \in Nat

VARIABLES
  content,    \* every document that was written, by kind
  file,       \* the document at each path
  tool,       \* the commit of the checkout
  config,     \* the configuration of a workspace
  lock,       \* the identity in a workspace's lock file
  run,        \* the controller of a workspace
  claims,     \* the authorization claims below the user's home
  calls,      \* under what provider calls were made
  evaluations,\* what cases were evaluated with
  work,       \* how much the operators have done (a bound)
  scope       \* bounds: the kinds they prepare again (with "tool" they upgrade, with
              \* "remove" they remove), how often in all, and the workspaces they use, for
              \* an exact campaign and for one of V021Documents

vars == <<content, file, tool, config, lock, run, claims, calls, evaluations, work, scope>>

Roots == {"hidden", "issues", "manifest", "specs"}
Derived == {"smoke", "capability", "chronology", "packets", "consensus", "cases",
            "prereg", "campaign", "freeze", "approval", "authorization", "legacy"}
Docs == Roots \cup Derived \cup Further
Paths == 1..2
None == [none |-> TRUE]

Stopped == [pc |-> "stopped"]

-----------------------------------------------------------------------------
(* Reading.  An argument vector a names one path of each kind. *)

At(a, d) == file[d][a[d]]
Is(a, d) == content[d][At(a, d)]
There(a, ds) == \A d \in ds : At(a, d) # 0

(* The argument vectors for ds that name a file where there is one. *)
Arguments(ds) ==
  {[d \in ds |-> IF d \in second \/ file[d][1] = 0 THEN 2 ELSE 1] :
     second \in SUBSET {d \in ds : \A p \in Paths : file[d][p] # 0}}

Bound(a, ds) == [d \in ds |-> At(a, d)]

(* A record of its own fields and of what it binds. *)
Record(own, a, ds) ==
  [d \in DOMAIN own \cup ds |-> IF d \in DOMAIN own THEN own[d] ELSE At(a, d)]

(* The record r binds what the paths of a name. *)
Binds(r, a, ds) == \A d \in ds : r[d] = At(a, d)

-----------------------------------------------------------------------------
(* Verifiers. *)

(* The preparation names its hidden extraction by path and digest, and     *)
(* carries its own copies of the plan and of the pricing.                  *)
CasesOk(a) ==
  /\ There(a, {"cases"})
  /\ file["hidden"][Is(a, "cases").hiddenPath] = Is(a, "cases").hidden

ChronologyOk(a) ==
  /\ There(a, {"chronology", "hidden", "issues"})
  /\ Binds(Is(a, "chronology"), a, {"hidden", "issues"})

ConsensusOk(a) ==
  /\ There(a, {"consensus", "packets"})
  /\ Binds(Is(a, "consensus"), a, {"packets"})

(* What a capability rests on; m is the digest the manifest must have. *)
CapabilityDerivable(a, m) ==
  /\ There(a, {"hidden", "manifest", "smoke"})
  /\ At(a, "manifest") = m
  /\ Binds(Is(a, "smoke"), a, {"manifest", "hidden"})

CapabilityOk(a, m) ==
  /\ There(a, {"capability"})
  /\ CapabilityDerivable(a, m)
  /\ Binds(Is(a, "capability"), a, {"manifest", "smoke", "hidden"})

PreregistrationDerivable(a, m, t) ==
  /\ CasesOk(a) /\ ChronologyOk(a) /\ ConsensusOk(a) /\ CapabilityOk(a, m)
  /\ Is(a, "cases").tool = t /\ Is(a, "capability").tool = t

PreregistrationOk(a, m) ==
  /\ There(a, {"prereg"})
  /\ PreregistrationDerivable(a, m, Is(a, "prereg").tool)
  /\ Is(a, "prereg").rows = Is(a, "cases").rows
  /\ Binds(Is(a, "prereg"), a,
           {"capability", "cases", "chronology", "consensus", "packets", "manifest"})

(* Of the preregistration this one reads the structure alone. *)
CampaignOk(a) ==
  /\ There(a, {"campaign", "prereg"})
  /\ Binds(Is(a, "campaign"), a, {"prereg"})

FreezeDerivable(a, t) ==
  /\ CampaignOk(a) /\ CasesOk(a) /\ There(a, {"manifest", "smoke"})
  /\ Is(a, "cases").tool = t

\* Mutant: the requests are compared, but not the preparation they are from.
FreezeOkByRows(a) ==
  /\ There(a, {"freeze"})
  /\ FreezeDerivable(a, Is(a, "freeze").tool)
  /\ Is(a, "freeze").rows = Is(a, "cases").rows
  /\ Binds(Is(a, "freeze"), a, {"campaign", "prereg", "manifest", "smoke"})

FreezeOk(a) ==
  /\ There(a, {"freeze"})
  /\ FreezeDerivable(a, Is(a, "freeze").tool)
  /\ Is(a, "freeze").rows = Is(a, "cases").rows
  /\ Binds(Is(a, "freeze"), a, {"campaign", "prereg", "cases", "manifest", "smoke"})

AuthorizationOk(a) ==
  /\ There(a, {"authorization"})
  /\ FreezeOk(a)
  /\ Binds(Is(a, "authorization"), a, {"freeze"})

(* The older authorization, without a freeze of the requests' bytes. *)
LegacyOk(a) ==
  /\ There(a, {"legacy"})
  /\ CampaignOk(a)
  /\ Binds(Is(a, "legacy"), a, {"campaign", "prereg"})
  /\ Is(a, "legacy").tool = Is(a, "campaign").tool

(* Eight of the documents name the commit that made them. *)
OneFinalTool(a, t) ==
  \A d \in {"cases", "chronology", "packets", "capability", "prereg", "campaign",
            "freeze", "smoke"} : Is(a, d).tool = t

(* What a configuration is derived from, when it is made and again before  *)
(* every run.                                                              *)
ConfigDerivable(a, m, t) ==
  /\ There(a, {"specs"})
  /\ PreregistrationOk(a, m) /\ AuthorizationOk(a)
  /\ Binds(Is(a, "smoke"), a, {"specs"})
  /\ OneFinalTool(a, t)
-----------------------------------------------------------------------------
(* Preparation.  A file is created exclusively, so the path must be free.  *)

Works(d) == d \in scope.may /\ work < scope.work /\ work' = work + 1

Write(d, p, record) ==
  /\ Works(d)
  /\ file[d][p] = 0
  /\ Len(content[d]) < MaxVersions
  /\ content' = [content EXCEPT ![d] = Append(@, record)]
  /\ file' = [file EXCEPT ![d][p] = Len(content[d]) + 1]
  /\ UNCHANGED <<tool, config, lock, run, claims, calls, evaluations, scope>>

Made == [tool |-> tool]

(* What is extracted, captured or written down outside this chain. *)
PrepareRoot(d, p) == Write(d, p, Made)

(* The smoke runs with a manifest and specs that the command line pins. *)
PrepareSmoke(a, p) ==
  /\ There(a, {"manifest", "specs", "hidden"})
  /\ Write("smoke", p, Record(Made, a, {"manifest", "specs", "hidden"}))

PrepareCapability(a, p) ==
  /\ CapabilityDerivable(a, At(a, "manifest"))
  /\ Write("capability", p, Record(Made, a, {"manifest", "smoke", "hidden"}))

PrepareChronology(a, p) ==
  /\ There(a, {"hidden", "issues"})
  /\ Write("chronology", p, Record(Made, a, {"hidden", "issues"}))

PreparePackets(a, p) ==
  /\ There(a, {"hidden"})
  /\ Write("packets", p, Record(Made, a, {"hidden"}))

SealConsensus(a, p) ==
  /\ There(a, {"packets"})
  /\ Write("consensus", p, Bound(a, {"packets"}))

PrepareCases(a, p) ==
  /\ There(a, {"hidden"})
  /\ \E rows \in Packages :
       Write("cases", p, Record([tool |-> tool, rows |-> rows, hiddenPath |-> a["hidden"]],
                                a, {"hidden"}))

PreparePreregistration(a, p) ==
  /\ PreregistrationDerivable(a, At(a, "manifest"), tool)
  /\ Write("prereg", p, Record([tool |-> tool, rows |-> Is(a, "cases").rows], a,
       {"capability", "cases", "chronology", "consensus", "packets", "manifest"}))

PrepareCampaign(a, p) ==
  /\ There(a, {"prereg"})
  /\ Write("campaign", p, Record(Made, a, {"prereg"}))

PrepareFreeze(a, p) ==
  /\ FreezeDerivable(a, tool)
  /\ Write("freeze", p, Record([tool |-> tool, rows |-> Is(a, "cases").rows], a,
       {"campaign", "prereg", "cases", "manifest", "smoke"}))

(* A person who approves names the digest of one freeze. *)
Approve(a, p) ==
  /\ There(a, {"freeze"})
  /\ Write("approval", p, Bound(a, {"freeze"}))

Authorize(a, p) ==
  /\ FreezeOk(a)
  /\ There(a, {"approval"})
  /\ Binds(Is(a, "approval"), a, {"freeze"})
  /\ Write("authorization", p, Bound(a, {"freeze"}))

(* The requests are a list of an operator's own for the preregistration,     *)
(* tied to no preparation.                                                 *)
RequestBindings == Packages
LegacyRecord(a, rows) ==
  Record([tool |-> tool, rows |-> rows], a, {"campaign", "prereg"})

AuthorizeLegacy(a, p) ==
  /\ CampaignOk(a)
  /\ Is(a, "campaign").tool = tool
  /\ \E rows \in RequestBindings : Write("legacy", p, LegacyRecord(a, rows))

RemoveFile(d, p) ==
  /\ "remove" \in scope.may /\ Works(d)
  /\ file[d][p] # 0
  /\ file' = [file EXCEPT ![d][p] = 0]
  /\ UNCHANGED <<content, tool, config, lock, run, claims, calls, evaluations, scope>>

Upgrade ==
  /\ Works("tool")
  /\ tool' \in Tools \ {tool}
  /\ UNCHANGED <<content, file, config, lock, run, claims, calls, evaluations, scope>>

(* A workspace is published whole, and an existing one is only verified. *)
PrepareConfig(w, a) ==
  /\ w \in scope.workspaces /\ config[w] = None
  /\ ConfigDerivable(a, At(a, "manifest"), tool)
  /\ config' = [config EXCEPT ![w] =
       [paths |-> a, manifest |-> At(a, "manifest"), tool |-> tool,
        artifacts |-> Bound(a, (Roots \cup Derived) \ {"issues", "approval", "legacy"})]]
  /\ UNCHANGED <<content, file, tool, lock, run, claims, calls, evaluations, work, scope>>

Operate ==
  \/ \E p \in Paths :
       \/ \E d \in Roots : PrepareRoot(d, p)
       \/ \E a \in Arguments({"manifest", "specs", "hidden", "smoke", "issues", "packets"}) :
            \/ PrepareSmoke(a, p) \/ PrepareCapability(a, p) \/ PrepareChronology(a, p)
            \/ PreparePackets(a, p) \/ SealConsensus(a, p) \/ PrepareCases(a, p)
       \/ \E a \in Arguments(Roots \cup Derived) :
            \/ PreparePreregistration(a, p) \/ PrepareCampaign(a, p)
            \/ PrepareFreeze(a, p) \/ Approve(a, p) \/ Authorize(a, p)
            \/ AuthorizeLegacy(a, p)
       \/ \E d \in Docs : RemoveFile(d, p)
  \/ Upgrade
  \/ \E w \in Workspaces, a \in Arguments(Roots \cup Derived) : PrepareConfig(w, a)

-----------------------------------------------------------------------------
(* A controller of workspace w.  Between its steps files may be replaced.  *)

Path(w) == config[w].paths
Continue(w, next) == run' = [run EXCEPT ![w] = next]

(* The configuration is derived again and compared with the one on file. *)
VerifyConfig(w) ==
  /\ run[w].pc = "stopped" /\ config[w] # None
  /\ ConfigDerivable(Path(w), config[w].manifest, config[w].tool)
  /\ \A d \in DOMAIN config[w].artifacts : At(Path(w), d) = config[w].artifacts[d]
  /\ Continue(w, [pc |-> "verified"])
  /\ UNCHANGED <<content, file, tool, config, lock, claims, calls, evaluations, work, scope>>

(* The identity is read from the files, and must be that of the lock file, *)
(* which the first run of the workspace wrote.                             *)
TakeLock(w) ==
  LET identity == [authorization |-> At(Path(w), "authorization"),
                   prereg |-> At(Path(w), "prereg")] IN
  /\ run[w].pc = "verified"
  /\ There(Path(w), {"authorization", "prereg"})
  /\ lock[w] \in {None, identity}
  /\ lock' = [lock EXCEPT ![w] = identity]
  /\ Continue(w, [pc |-> "locked", identity |-> identity])
  /\ UNCHANGED <<content, file, tool, config, claims, calls, evaluations, work, scope>>

(* The verified evidence must be that of the lock. *)
CrossBound(w, a) ==
  /\ At(a, "prereg") = run[w].identity.prereg
  /\ At(a, "authorization") = run[w].identity.authorization

(* Everything is verified once more, and the policy taken from the freeze. *)
Preflight(w) ==
  LET a == Path(w) IN
  /\ run[w].pc = "locked"
  /\ PreregistrationOk(a, config[w].manifest) /\ AuthorizationOk(a)
  /\ Is(a, "freeze").tool = config[w].tool
  /\ CrossBound(w, a)
  /\ Continue(w, [pc |-> "bound", prereg |-> At(a, "prereg"),
                  authorization |-> At(a, "authorization"), freeze |-> At(a, "freeze"),
                  campaign |-> Is(a, "freeze").campaign, tool |-> Is(a, "freeze").tool])
  /\ UNCHANGED <<content, file, tool, config, lock, claims, calls, evaluations, work, scope>>

(* The campaign freeze on file is the policy's. *)
CampaignBound(policy, a) ==
  /\ CampaignOk(a)
  /\ At(a, "campaign") = policy.campaign
  /\ Is(a, "campaign").tool = policy.tool

(* The request is rendered from the case preparation and must be the one   *)
(* that was preregistered.                                                 *)
RenderedAsPreregistered(a) ==
  There(a, {"cases", "prereg"}) /\ Is(a, "cases").rows = Is(a, "prereg").rows

(* The bytes on file are the ones that were verified, and bind one another. *)
AuthorizationBound(held, a) ==
  /\ There(a, {"freeze", "authorization"})
  /\ At(a, "authorization") = held.authorization
  /\ At(a, "freeze") = held.freeze
  /\ Binds(Is(a, "authorization"), a, {"freeze"})
  /\ CampaignOk(a)
  /\ Is(a, "freeze").rows = Is(a, "prereg").rows
  /\ Binds(Is(a, "freeze"), a, {"prereg", "campaign"})

(* An authorization is claimed for one ledger, below the user's home. *)
\* Mutant: the claim is written but an existing one is not compared.
ClaimedAgain(w, authorization) ==
  claims' = claims \cup {[authorization |-> authorization, workspace |-> w]}

ClaimedFor(w, authorization) ==
  /\ \A c \in claims : c.authorization = authorization => c.workspace = w
  /\ claims' = claims \cup {[authorization |-> authorization, workspace |-> w]}

Call(w) ==
  LET a == Path(w) IN
  /\ run[w].pc = "bound"
  /\ CampaignBound(run[w], a)
  /\ RenderedAsPreregistered(a)
  /\ AuthorizationBound(run[w], a)
  /\ ClaimedFor(w, <<"exact", run[w].authorization>>)
  /\ calls' = calls \cup
       {[workspace |-> w, kind |-> "exact", authorization |-> run[w].authorization,
         freeze |-> run[w].freeze, campaign |-> At(a, "campaign"),
         prereg |-> At(a, "prereg"), rows |-> Is(a, "cases").rows]}
  /\ UNCHANGED <<content, file, tool, config, lock, run, evaluations, work, scope>>

(* After the barrier the evaluation's authorities are issued afresh. *)
IssueAuthorities(w) ==
  LET a == Path(w) IN
  /\ run[w].pc = "bound"
  /\ CapabilityDerivable(a, config[w].manifest)
  /\ Continue(w, [pc |-> "evaluating", prereg |-> run[w].prereg,
                  capability |-> [manifest |-> At(a, "manifest"), smoke |-> At(a, "smoke"),
                                  hidden |-> At(a, "hidden")]])
  /\ UNCHANGED <<content, file, tool, config, lock, claims, calls, evaluations, work, scope>>

(* The commitment of a preregistered row. *)
Commitment(prereg) == content["capability"][content["prereg"][prereg].capability]

\* Mutant: the authorities are taken as they were issued.
EvaluateAsIssued(w) ==
  LET a == Path(w)
      held == run[w].capability IN
  /\ run[w].pc = "evaluating"
  /\ There(a, {"prereg", "hidden", "manifest", "smoke", "specs"})
  /\ At(a, "prereg") = run[w].prereg
  /\ \A d \in DOMAIN held : At(a, d) = held[d]
  /\ Binds(Is(a, "smoke"), a, {"specs"})
  /\ evaluations' = evaluations \cup
       {[kind |-> "exact", workspace |-> w, prereg |-> run[w].prereg, specs |-> At(a, "specs"),
         manifest |-> held.manifest, smoke |-> held.smoke, hidden |-> held.hidden]}
  /\ UNCHANGED <<content, file, tool, config, lock, run, claims, calls, work, scope>>

Evaluate(w) ==
  LET a == Path(w)
      held == run[w].capability
      row == Commitment(run[w].prereg) IN
  /\ run[w].pc = "evaluating"
  /\ There(a, {"prereg", "hidden", "manifest", "smoke", "specs"})
  /\ At(a, "prereg") = run[w].prereg
  /\ \A d \in DOMAIN held : held[d] = row[d]
  /\ \A d \in DOMAIN held : At(a, d) = held[d]
  /\ Binds(Is(a, "smoke"), a, {"specs"})
  /\ evaluations' = evaluations \cup
       {[kind |-> "exact", workspace |-> w, prereg |-> run[w].prereg, specs |-> At(a, "specs"),
         manifest |-> held.manifest, smoke |-> held.smoke, hidden |-> held.hidden]}
  /\ UNCHANGED <<content, file, tool, config, lock, run, claims, calls, work, scope>>

(* A run is refused, halts, finishes or is killed. *)
Stop(w) ==
  /\ run[w].pc # "stopped"
  /\ Continue(w, Stopped)
  /\ UNCHANGED <<content, file, tool, config, lock, claims, calls, evaluations, work, scope>>

-----------------------------------------------------------------------------
(* The same runner without a controller, by an authorization of the older  *)
(* kind: each call is a command with paths of its own.                     *)
LegacyCall(w, a) ==
  /\ w \in scope.workspaces
  /\ LegacyOk(a)
  /\ RenderedAsPreregistered(a)
  /\ Is(a, "legacy").rows = Is(a, "cases").rows
  /\ ClaimedFor(w, <<"legacy", At(a, "legacy")>>)
  /\ calls' = calls \cup
       {[workspace |-> w, kind |-> "legacy", authorization |-> At(a, "legacy"),
         freeze |-> 0, campaign |-> At(a, "campaign"), prereg |-> At(a, "prereg"),
         rows |-> Is(a, "cases").rows]}
  /\ UNCHANGED <<content, file, tool, config, lock, run, evaluations, work, scope>>

Control(w) ==
  \/ VerifyConfig(w) \/ TakeLock(w) \/ Preflight(w) \/ Call(w)
  \/ IssueAuthorities(w) \/ Evaluate(w) \/ Stop(w)
  \/ \E a \in Arguments({"cases", "prereg", "campaign", "legacy"}) : LegacyCall(w, a)

-----------------------------------------------------------------------------
(* One preparation of everything, by one commit, with nothing run yet. *)
FirstTool == CHOOSE t \in Tools : TRUE
FirstPackage == CHOOSE r \in Packages : TRUE
First(own, ds) == [d \in DOMAIN own \cup ds |-> IF d \in DOMAIN own THEN own[d] ELSE 1]
FirstMade == [tool |-> FirstTool]
Carried == [tool |-> FirstTool, rows |-> FirstPackage]

FirstRecord(d) ==
  CASE d \in Roots -> FirstMade
    [] d = "smoke" -> First(FirstMade, {"manifest", "specs", "hidden"})
    [] d = "capability" -> First(FirstMade, {"manifest", "smoke", "hidden"})
    [] d = "chronology" -> First(FirstMade, {"hidden", "issues"})
    [] d = "packets" -> First(FirstMade, {"hidden"})
    [] d = "consensus" -> First(<<>>, {"packets"})
    [] d = "cases" -> First(Carried, {"hidden", "hiddenPath"})
    [] d = "prereg" -> First(Carried, {"capability", "cases", "chronology",
                                       "consensus", "packets", "manifest"})
    [] d = "campaign" -> First(FirstMade, {"prereg"})
    [] d = "freeze" -> First(Carried, {"campaign", "prereg", "cases", "manifest", "smoke"})
    [] d \in {"approval", "authorization"} -> First(<<>>, {"freeze"})

FirstRecords == [d \in (Roots \cup Derived) \ {"legacy"} |-> FirstRecord(d)]

(* The first documents are first, each at path 1. *)
InitFrom(first) ==
  /\ content = [d \in Docs |-> IF d \in DOMAIN first THEN <<first[d]>> ELSE <<>>]
  /\ file = [d \in Docs |-> [p \in Paths |-> IF d \in DOMAIN first /\ p = 1 THEN 1 ELSE 0]]
  /\ tool = FirstTool
  /\ config = [w \in Workspaces |-> None]
  /\ lock = [w \in Workspaces |-> None]
  /\ run = [w \in Workspaces |-> Stopped]
  /\ claims = {} /\ calls = {} /\ evaluations = {}
  /\ work = 0 /\ scope \in Scopes

Init == InitFrom(FirstRecords)

Next == Operate \/ \E w \in Workspaces : Control(w)

Spec == Init /\ [][Next]_vars
-----------------------------------------------------------------------------
(* Properties. *)

(* The kinds of values of the variables that grow. *)
TypeOK ==
  /\ \A d \in Docs : Len(content[d]) \in 0..MaxVersions
  /\ file \in [Docs -> [Paths -> 0..MaxVersions]]
  /\ tool \in Tools /\ work \in 0..scope.work
  /\ \A w \in Workspaces :
       run[w].pc \in {"stopped", "verified", "locked", "bound", "evaluating"}

(* Everything a call of an exact campaign is made under is of one lineage: *)
(* the preregistration and the freeze that a person approved rest on the   *)
(* same preparation of the requests, the same runtime and gold smoke, the  *)
(* request is the one both of them name, and all of it was made by one     *)
(* commit.  Each verifier looks at a part of this, some of it twice; at    *)
(* the commit of the smoke only that of the configuration does, so it is   *)
(* the same if the preregistration is still the configuration's own.       *)
OneLineage ==
  \A c \in calls : c.kind = "exact" =>
    LET prereg == content["prereg"][c.prereg]
        freeze == content["freeze"][c.freeze]
        capability == content["capability"][prereg.capability]
        smoke == content["smoke"][freeze.smoke] IN
    /\ content["authorization"][c.authorization].freeze = c.freeze
    /\ \E v \in DOMAIN content["approval"] : content["approval"][v].freeze = c.freeze
    /\ freeze.prereg = c.prereg /\ freeze.campaign = c.campaign
    /\ content["campaign"][c.campaign].prereg = c.prereg
    /\ freeze.cases = prereg.cases
    /\ c.rows = prereg.rows /\ c.rows = freeze.rows
    /\ freeze.smoke = capability.smoke
    /\ freeze.manifest = prereg.manifest /\ freeze.manifest = capability.manifest
    /\ smoke.manifest = freeze.manifest /\ smoke.hidden = capability.hidden
    /\ content["chronology"][prereg.chronology].hidden = capability.hidden
    /\ content["consensus"][prereg.consensus].packets = prereg.packets
    /\ {prereg.tool, capability.tool, content["campaign"][c.campaign].tool,
        content["cases"][prereg.cases].tool} = {freeze.tool}
    /\ c.prereg = config[c.workspace].artifacts["prereg"] => smoke.tool = freeze.tool

(* An authorization, of either kind, is spent in the ledger of one         *)
(* workspace, and the controller of a workspace spends under one           *)
(* authorization and one preregistration, whatever is replaced between its *)
(* runs and between the steps of a run: what a person approved is spent    *)
(* once.                                                                   *)
OneLedgerPerAuthorization ==
  \A c, e \in calls : c.kind = e.kind =>
    /\ c.authorization = e.authorization => c.workspace = e.workspace
    /\ c.kind = "exact" /\ c.workspace = e.workspace =>
         c.authorization = e.authorization /\ c.prereg = e.prereg

(* A case is evaluated with the hidden inputs, the runtime and the specs   *)
(* that its preregistered row commits to, although all of them are read    *)
(* again, after the calls, from paths that anybody may have replaced.      *)
EvaluatedAsPreregistered ==
  \A e \in evaluations : e.kind = "exact" =>
    LET row == Commitment(e.prereg) IN
    /\ e.manifest = row.manifest /\ e.smoke = row.smoke /\ e.hidden = row.hidden
    /\ e.specs = content["smoke"][row.smoke].specs
=============================================================================
