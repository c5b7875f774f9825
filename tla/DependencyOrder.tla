-------------------------- MODULE DependencyOrder --------------------------
(***************************************************************************)
(* What execute_plan promises (src/src/agent/executor.py:132): each step   *)
(* of a plan is done or given up at most once at a time, and a guarded     *)
(* step is done only after the steps it depends on.  Recovery may forget   *)
(* outcomes, but never so that a guarded step stays done without them.     *)
(***************************************************************************)
CONSTANTS Steps, Deps, Guarded

VARIABLE outcome

Ordered(o) ==
    \A s \in Guarded : o[s] = "done" => \A d \in Deps[s] : o[d] = "done"

Init == outcome = [s \in Steps |-> "todo"]

Finish(s) ==
    /\ outcome[s] = "todo"
    /\ s \in Guarded => \A d \in Deps[s] : outcome[d] = "done"
    /\ outcome' = [outcome EXCEPT ![s] = "done"]

\* A step fails, is declined or is rolled back, and others are skipped with it.
GiveUp(S) ==
    /\ \A s \in S : outcome[s] = "todo"
    /\ outcome' = [s \in Steps |-> IF s \in S THEN "dead" ELSE outcome[s]]

Recover ==
    \E F \in SUBSET Steps :
        /\ outcome' = [s \in Steps |-> IF s \in F THEN "todo" ELSE outcome[s]]
        /\ Ordered(outcome')

Next ==
    \/ \E s \in Steps : Finish(s)
    \/ \E S \in SUBSET Steps : GiveUp(S)
    \/ Recover

Spec == Init /\ [][Next]_outcome
=============================================================================
