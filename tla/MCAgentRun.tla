---------------------------- MODULE MCAgentRun -----------------------------
(* The plans of the AgentRun runs.  The long plan has the parts of the       *)
(* workflows (src/src/agent/workflows): a read, a destructive store on it    *)
(* that is verified and can be undone, a label on the store, an independent  *)
(* verified step on the read, and a destructive step on both branches.       *)
EXTENDS AgentRun

LongDeps ==
    [s \in 1..5 |-> CASE s = 1 -> {}  [] s = 2 -> {1} [] s = 3 -> {2}
                      [] s = 4 -> {1} [] s = 5 -> {3, 4}]
ShortDeps == [s \in 1..2 |-> IF s = 1 THEN {} ELSE {1}]
=============================================================================
