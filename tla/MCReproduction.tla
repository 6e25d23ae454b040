--------------------------- MODULE MCReproduction ---------------------------
EXTENDS Reproduction

MCContainers == DOMAIN SandboxMounts \cup DOMAIN ExecutorMounts
MCVolumes == {"workspace", "workspace2", "result"} \cup Roles
MCMounts == [c \in MCContainers |-> IF c \in DOMAIN SandboxMounts
                                    THEN SandboxMounts[c] ELSE ExecutorMounts[c]]
MCAnchorsOf == [v \in MCVolumes |-> IF v = "result" THEN {"anchor"}
                                    ELSE IF v \in Roles THEN {AnchorOf[v]} ELSE {}]
MCEarly == ExecutorObjects \cup {"facts"}

(* A finished run; the runs a limit ends; a start that never happened, with *)
(* the exit status Docker shows of a container it has only created.        *)
Finished1(exit, report) ==
    [killed |-> "no", overflow |-> FALSE, oom |-> FALSE, exit |-> exit,
     report |-> report, listed |-> TRUE, started |-> TRUE]
Good == Finished1(1, "f1")
Passed == Finished1(0, "pass")
Killed(why) == [Good EXCEPT !.killed = why, !.overflow = (why = "overflow")]
NotStarted == [Passed EXCEPT !.report = "none", !.listed = FALSE, !.started = FALSE]
MCResults ==
    [run |-> {Good, Passed, NotStarted, Killed("timeout"), Killed("overflow"),
              Finished1(1, "f2"), Finished1(1, "none"), Finished1(2, "none"),
              Finished1(0, "none"), Finished1(1, "other"),
              [Good EXCEPT !.oom = TRUE], [Good EXCEPT !.overflow = TRUE]},
     baseRun |-> {Good, Passed, NotStarted, Killed("timeout"), Finished1(1, "f2")},
     fixedRun |-> {Passed, Good, NotStarted, Killed("overflow")}]
MCFewResults ==
    [run |-> {Good, Passed, Killed("overflow")}, baseRun |-> {Good, Passed},
     fixedRun |-> {Passed, Killed("overflow")}]
=============================================================================
