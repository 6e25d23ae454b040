-------------------------- MODULE DockerOwnership --------------------------
(***************************************************************************)
(* How the controllers of this repository own Docker objects.  Three of    *)
(* them drive `docker` as a child process: DockerSandbox (sandbox.py),     *)
(* DependencyExecutor (dependency_executor.py) and InstanceRuntimeExecutor *)
(* (benchmark_v02_instance_executor.py).  Each keeps a registry of the     *)
(* containers and volumes it created, removes them in `finally` and        *)
(* `except` blocks, and sweeps the registry in cleanup().  Any docker      *)
(* command may fail, or be killed by its timeout and take effect at once,  *)
(* later or never.                                                         *)
(*                                                                         *)
(* A controller's method is a sequence of instructions; `todo` is what is  *)
(* left to do, with the handlers of the open try statements in place.  The *)
(* modules that extend this one write the methods as such sequences.       *)
(***************************************************************************)
EXTENDS Naturals, Sequences, FiniteSets

CONSTANTS Containers, Volumes, \* the names the controllers make up
          Mounts,              \* Mounts[c]: the volumes container c mounts
          AnchorsOf,           \* AnchorsOf[v]: the containers removed with v
          Early,               \* registered before `docker create` is called
          Unproven,            \* removed without asking whether it is there
          Unregistered         \* never entered in a registry

Objects == Containers \cup Volumes

ASSUME ObjectsAssumption ==
    /\ Containers \cap Volumes = {}
    /\ Mounts \in [Containers -> SUBSET Volumes]
    /\ AnchorsOf \in [Volumes -> SUBSET Containers]
    /\ Early \subseteq Objects /\ Unproven \subseteq Objects
    /\ Unregistered \subseteq Objects /\ Early \cap Unregistered = {}

VARIABLES existing,        \* what the Docker engine has
          late,            \* creations the engine has still to carry out
          arrived,         \* what a late creation brought
          unacknowledged,  \* created by a command that was not seen to succeed
          registered,      \* what the controllers' registries hold
          todo,            \* instructions left, outermost handlers last
          faults,          \* docker commands that may still go wrong
          sweepFailed      \* some cleanup() reported that it failed

dockerVars == <<existing, late, arrived, unacknowledged, registered,
                todo, faults, sweepFailed>>
engineVars == <<existing, late, arrived, unacknowledged, registered>>

----------------------------------------------------------------------------
(* Instructions.                                                           *)

Create(o) == [do |-> "create", obj |-> o]
Command(os) == [do |-> "command", objs |-> os]     \* inspect, start, cp, exec
Remove(o) == [do |-> "remove", obj |-> o]
Release(o) == [do |-> "release", obj |-> o]        \* remove it if registered
Cleanup(os) == [do |-> "cleanup", objs |-> os]
Try(body, handler, then) ==
    <<[do |-> "try", body |-> body, handler |-> handler, then |-> then]>>
Raise == [do |-> "raise"]
Raised == <<[do |-> "raised"]>>

Now == Head(todo)
Rest == Tail(todo)
Doing(what) == todo # <<>> /\ Now.do = what
Over == todo \in {<<>>, Raised}

(* What is left after an exception: the handler of the innermost open try, *)
(* and after a finally or an except block the exception goes on.           *)
Handlers(s) == {i \in DOMAIN s : s[i].do \in {"finally", "except", "catch"}}
Innermost(s) == CHOOSE i \in Handlers(s) : \A j \in Handlers(s) : i <= j

Unwound(s) ==
    IF Handlers(s) = {} THEN Raised
    ELSE LET i == Innermost(s)
         IN  s[i].then \o (IF s[i].do = "catch" THEN <<>> ELSE <<Raise>>)
                       \o SubSeq(s, i + 1, Len(s))

Fault == faults > 0 /\ faults' = faults - 1
InUse(v) == \E c \in existing \cap Containers : v \in Mounts[c]

----------------------------------------------------------------------------
DockerInit(program, budget) ==
    /\ existing = {} /\ late = {} /\ arrived = {} /\ unacknowledged = {}
    /\ registered = {} /\ todo = program /\ faults = budget
    /\ sweepFailed = FALSE

EnterTry ==
    /\ Doing("try")
    /\ todo' = Now.body \o <<[do |-> Now.handler, then |-> Now.then]>> \o Rest
    /\ UNCHANGED <<engineVars, faults, sweepFailed>>

LeaveTry ==
    /\ todo # <<>> /\ Now.do \in {"finally", "except", "catch"}
    /\ todo' = (IF Now.do = "finally" THEN Now.then ELSE <<>>) \o Rest
    /\ UNCHANGED <<engineVars, faults, sweepFailed>>

Reraise ==
    /\ Doing("raise")
    /\ todo' = Unwound(Rest)
    /\ UNCHANGED <<engineVars, faults, sweepFailed>>

CreateSucceeds ==
    /\ Doing("create")
    /\ existing' = existing \cup {Now.obj}
    /\ registered' = registered \cup ({Now.obj} \ Unregistered)
    /\ todo' = Rest
    /\ UNCHANGED <<late, arrived, unacknowledged, faults, sweepFailed>>

(* docker create fails or is killed by its timeout: the engine may have    *)
(* done it, may do it later, or may never do it.                           *)
CreateFails(effect) ==
    /\ Doing("create") /\ Fault
    /\ existing' = existing \cup (IF effect = "done" THEN {Now.obj} ELSE {})
    /\ late' = late \cup (IF effect = "later" THEN {Now.obj} ELSE {})
    /\ unacknowledged' = unacknowledged \cup {Now.obj}
    /\ registered' = registered \cup ({Now.obj} \cap Early)
    /\ todo' = Unwound(Rest)
    /\ UNCHANGED <<arrived, sweepFailed>>

(* The engine carries out a creation its client gave up on.  A volume the  *)
(* container mounts and that is gone by then is created with it.           *)
Arrive(o) ==
    /\ o \in late
    /\ late' = late \ {o}
    /\ LET new == {o} \cup (IF o \in Containers THEN Mounts[o] ELSE {})
       IN  /\ existing' = existing \cup new
           /\ arrived' = arrived \cup {o} \cup (new \ existing)
    /\ UNCHANGED <<unacknowledged, registered, todo, faults, sweepFailed>>

CommandSucceeds ==
    /\ Doing("command") /\ Now.objs \subseteq existing
    /\ todo' = Rest
    /\ UNCHANGED <<engineVars, faults, sweepFailed>>

CommandFails ==
    /\ Doing("command")
    /\ IF Now.objs \subseteq existing THEN Fault ELSE UNCHANGED faults
    /\ todo' = Unwound(Rest)
    /\ UNCHANGED <<engineVars, sweepFailed>>

(* A volume's anchor goes first, then the volume; absence has to be proved *)
(* except for the objects in Unproven, whose removal fails when they are   *)
(* gone already.                                                           *)
AnchorsToGo(o) == IF o \in Volumes THEN AnchorsOf[o] \cap registered ELSE {}
Removable(o) ==
    /\ o \in Volumes =>
           \A c \in existing \cap Containers : o \in Mounts[c] => c \in AnchorsToGo(o)
    /\ o \in Unproven => o \in existing
Drop(o) == {o} \cup AnchorsToGo(o)

Skips == Doing("release") /\ Now.obj \notin registered
Removes == (Doing("remove") \/ Doing("release")) /\ ~Skips

SkipRelease ==
    /\ Skips
    /\ todo' = Rest
    /\ UNCHANGED <<engineVars, faults, sweepFailed>>

RemovalSucceeds ==
    /\ Removes /\ Removable(Now.obj)
    /\ existing' = existing \ Drop(Now.obj)
    /\ registered' = registered \ Drop(Now.obj)
    /\ todo' = Rest
    /\ UNCHANGED <<late, arrived, unacknowledged, faults, sweepFailed>>

\* Mutant: an object is struck off before its removal is known to be good.
FailedRemovalForgets(o) ==
    \E done \in {{}, AnchorsToGo(o)} \cup (IF Removable(o) THEN {Drop(o)} ELSE {}) :
        /\ existing' = existing \ done
        /\ registered' = registered \ (done \cup {o})

(* What a removal that is reported as failed may have done all the same:   *)
(* nothing, the anchors, or everything but the proof that it is gone.      *)
FailedRemoval(o) ==
    \E done \in {{}, AnchorsToGo(o)} \cup (IF Removable(o) THEN {Drop(o)} ELSE {}) :
        /\ existing' = existing \ done
        /\ registered' = registered \ (done \ {o})

FailureOf(o) == IF Removable(o) THEN Fault ELSE UNCHANGED faults

RemovalFails ==
    /\ Removes /\ FailureOf(Now.obj) /\ FailedRemoval(Now.obj)
    /\ todo' = Unwound(Rest)
    /\ UNCHANGED <<late, arrived, unacknowledged, sweepFailed>>

(* cleanup(): every registered container, then every registered volume;    *)
(* the sweep goes on after a failure and raises at the end.                *)
Sweeping(left, ok) == [do |-> "sweep", left |-> left, ok |-> ok]
StartSweep ==
    /\ Doing("cleanup")
    /\ todo' = <<Sweeping(Now.objs \cap registered, TRUE)>> \o Rest
    /\ UNCHANGED <<engineVars, faults, sweepFailed>>

NextToSweep ==
    {o \in Now.left : Now.left \cap Containers # {} => o \in Containers}

SweepSucceeds(o) ==
    /\ Doing("sweep") /\ o \in NextToSweep /\ Removable(o)
    /\ existing' = existing \ Drop(o)
    /\ registered' = registered \ Drop(o)
    /\ todo' = <<Sweeping(Now.left \ {o}, Now.ok)>> \o Rest
    /\ UNCHANGED <<late, arrived, unacknowledged, faults, sweepFailed>>

SweepFails(o) ==
    /\ Doing("sweep") /\ o \in NextToSweep /\ FailureOf(o) /\ FailedRemoval(o)
    /\ todo' = <<Sweeping(Now.left \ {o}, FALSE)>> \o Rest
    /\ UNCHANGED <<late, arrived, unacknowledged, sweepFailed>>

\* Mutants: a sweep that failed does not raise; nor is it reported.
EndSweepQuietly ==
    /\ Doing("sweep") /\ Now.left = {}
    /\ todo' = Rest
    /\ sweepFailed' = (sweepFailed \/ ~Now.ok)
    /\ UNCHANGED <<engineVars, faults>>

EndSweepUnreported ==
    /\ Doing("sweep") /\ Now.left = {}
    /\ todo' = Rest
    /\ UNCHANGED <<engineVars, faults, sweepFailed>>

EndSweep ==
    /\ Doing("sweep") /\ Now.left = {}
    /\ todo' = IF Now.ok THEN Rest ELSE Unwound(Rest)
    /\ sweepFailed' = (sweepFailed \/ ~Now.ok)
    /\ UNCHANGED <<engineVars, faults>>

DockerNext ==
    \/ EnterTry \/ LeaveTry \/ Reraise
    \/ CreateSucceeds \/ (\E effect \in {"done", "later", "never"} : CreateFails(effect))
    \/ (\E o \in Objects : Arrive(o))
    \/ CommandSucceeds \/ CommandFails
    \/ SkipRelease \/ RemovalSucceeds \/ RemovalFails
    \/ StartSweep \/ (\E o \in Objects : SweepSucceeds(o) \/ SweepFails(o)) \/ EndSweep

DockerTypeOK ==
    /\ existing \subseteq Objects /\ late \subseteq Objects
    /\ arrived \subseteq Objects /\ unacknowledged \subseteq Objects
    /\ registered \subseteq Objects
    /\ sweepFailed \in BOOLEAN

(* Whatever the engine has and no registry holds came late, or was never   *)
(* seen to be created by a controller that registers after the fact, or is *)
(* the staging volume that InstanceRuntimeExecutor registers nowhere: no   *)
(* failure of any docker command in any order makes a controller lose an   *)
(* object it knows it created.                                             *)
LeftoversExplained ==
    \A o \in existing \ registered :
        \/ o \in arrived
        \/ o \in unacknowledged \ Early
        \/ o \in Unregistered
=============================================================================
