-------------------------- MODULE MCExactDocuments --------------------------
(* Operators who prepare some kinds of documents again. *)
EXTENDS V021Documents

CONSTANTS w1, w2

Exact(may, n, workspaces) ==
  [may |-> may, work |-> n, workspaces |-> workspaces, sessions |-> {}]

Automated(may, n, workspaces) ==
  [may |-> may, work |-> n, workspaces |-> {}, sessions |-> workspaces]

(* A second preparation beside the first one, files replaced in the middle *)
(* of a campaign, another commit, and two workspaces.                      *)
Scenarios ==
  {Exact({"cases", "freeze", "approval", "authorization"}, 5, {w1}),
   Exact({"prereg", "campaign", "freeze", "approval", "authorization"}, 5, {w1}),
   Exact({"remove", "cases", "freeze", "authorization"}, 3, {w1}),
   Exact({"remove", "manifest", "specs", "hidden", "smoke", "capability"}, 3, {w1}),
   Exact({"remove", "issues", "chronology", "packets", "consensus"}, 3, {w1}),
   Exact({"tool", "cases", "capability", "prereg"}, 4, {w1}),
   Exact({"legacy"}, 1, {w1, w2}),
   Automated({"evidence", "prereg21", "authorization21", "plan"}, 4, {w1}),
   Automated({"remove", "smoke", "amendment", "authorization21", "plan"}, 4, {w1}),
   Automated({"tool", "packets", "smoke19", "capability21", "cases21", "evidence"}, 3, {w1}),
   Automated({"authorization21", "plan"}, 3, {w1, w2})}
=============================================================================
