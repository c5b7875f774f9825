---------------------------- MODULE Orchestrator ----------------------------
(***************************************************************************)
(* One run of the orchestrator (orchestrator.py): the console is hydrated, *)
(* a goal becomes a plan, and the steps of the plan are executed one after *)
(* the other, in batches, or through the agent bridge, over a console      *)
(* where anybody may load another show at any time.                        *)
(*                                                                         *)
(* A step is known by its place in the ordered plan.  Results are kept in  *)
(* `result`; a step whose result is "ok" is one of `completed`.            *)
(***************************************************************************)
EXTENDS TaskPlans, FiniteSets

CONSTANTS
    Plans,      \* plans as their builders list them
    Shows,      \* show files an operator may load
    Unknown,    \* no baseline showfile was read
    UserRights  \* tiers of the console's user; 0 stands for unread as well

ASSUME ConstantsAssumption ==
    /\ Unknown \notin Shows
    /\ UserRights \subseteq Nat

\* Builders name every step once, and depend on steps of their own plan.
ASSUME PlansAssumption ==
    \A p \in Plans :
        /\ \A i, j \in DOMAIN p : p[i].name = p[j].name => i = j
        /\ OrderedSteps(p) \in
               Seq([name : Names(p), risk : {"read", "write", "destructive"},
                    tool : STRING \cup {NoTool}, deps : SUBSET Names(p), retryable : BOOLEAN])

\* None depends on itself in a circle: in the order in which a plan is executed a
\* step comes after those it depends on.
ASSUME OrderAssumption ==
    \A p \in Plans : \A i \in DOMAIN OrderedSteps(p) :
        OrderedSteps(p)[i].deps \subseteq {OrderedSteps(p)[j].name : j \in 1..i - 1}

VARIABLES
    plan, mode, confirmed,  \* ordered steps, strategy, auto_confirm_destructive
    wired,      \* whether the orchestrator has a telnet_send
    pc, at,     \* where the run is, and at which step
    flight,     \* steps whose tool has been called and has not answered
    result,     \* result of each step
    snapshot,   \* wm.console_state: none, fresh, or older than 60 seconds
    baseline,   \* wm.baseline_showfile
    right,      \* wm.rights_context.user_right
    outcome,    \* outcome of the run
    show,       \* the show the console has open
    unchecked,  \* ghost: the guard of the step in hand could not read the show
    raced,      \* ghost: a show was loaded after the guard of the step in hand
    changed     \* ghost: a guard has seen another show

setup == <<plan, mode, confirmed, wired>>
memory == <<snapshot, baseline, right>>
ghosts == <<unchecked, raced, changed>>
vars == <<setup, pc, at, flight, result, memory, outcome, show, ghosts>>

Steps == DOMAIN plan
Destructive(s) == plan[s].risk = "destructive"

\* Mutant: a step that completes replaces the completed ones.
CompletedLast == {plan[s].name : s \in {t \in Steps : result[t] = "ok" /\ t = at - 1}}

Completed == {plan[s].name : s \in {t \in Steps : result[t] = "ok"}}
Ready(s) == plan[s].deps \subseteq Completed

\* Mutant: a step that failed remains.
RemainingUntilOk == {s \in Steps : result[s] \notin {"ok", "skipped"}}

Remaining == {s \in Steps : result[s] = "none"}

\* Type correctness of the run, its working memory and its results.
TypeOK ==
    /\ plan \in {OrderedSteps(p) : p \in Plans}
    /\ mode \in {"sequential", "parallel", "bridge"}
    /\ confirmed \in BOOLEAN /\ wired \in BOOLEAN
    /\ pc \in {"hydrate", "pools", "next", "guard", "tool", "report", "done", "cancelled"}
    /\ at \in 1..Len(plan) + 1
    /\ flight \subseteq Steps /\ (flight # {} <=> pc = "tool")
    /\ result \in [Steps -> {"none", "ok", "failed", "skipped", "undone"}]
    /\ snapshot \in {"none", "fresh", "stale"}
    /\ baseline \in Shows \cup {Unknown}
    /\ right \in UserRights \cup {0}
    /\ outcome \in {"none", "success", "partial", "failed"}
    /\ show \in Shows
    /\ unchecked \in BOOLEAN /\ raced \in BOOLEAN /\ changed \in BOOLEAN

Init ==
    /\ plan \in {OrderedSteps(p) : p \in Plans}
    /\ mode \in {"sequential", "parallel", "bridge"}
    /\ confirmed \in BOOLEAN /\ wired \in BOOLEAN
    /\ pc = IF wired THEN "hydrate" ELSE "next"
    /\ at = 1
    /\ flight = {}
    /\ result = [s \in Steps |-> "none"]
    /\ snapshot = "none" /\ baseline = Unknown /\ right = 0
    /\ outcome = "none"
    /\ show \in Shows
    /\ unchecked = FALSE /\ raced = FALSE /\ changed = FALSE

-----------------------------------------------------------------------------
(* Hydration: the system variables, then the pools. *)

\* ListVar: the show and the rights as they are now, or nothing if it fails.
ReadVars ==
    /\ pc = "hydrate"
    /\ pc' = "pools"
    /\ \/ baseline' = show /\ right' \in UserRights
       \/ baseline' = Unknown /\ right' = 0
    /\ UNCHANGED <<setup, at, flight, result, snapshot, outcome, show, ghosts>>

\* The age of a snapshot counts from before ListVar.  An exception leaves the run
\* without a snapshot, except for one raised by the graph sync that follows.
ReadPools ==
    /\ pc = "pools"
    /\ pc' = "next"
    /\ \/ snapshot' = "fresh" /\ UNCHANGED <<baseline, right>>
       \/ snapshot' = "none" /\ baseline' = Unknown /\ right' = 0
    /\ UNCHANGED <<setup, at, flight, result, outcome, show, ghosts>>

-----------------------------------------------------------------------------
(* _default_sub_agent for one step: preflight, then its tool. *)

\* _preflight_guard: rights (if known), approval, age of the snapshot.
Preflight(s) ==
    /\ right = 0 \/ MinRight(plan[s].tool) <= right
    /\ Destructive(s) => confirmed /\ snapshot = "fresh"

Callable(s) == plan[s].tool # NoTool /\ Preflight(s)

\* A failed step lets the others go on, unless it is not retryable.
After(s) == IF plan[s].retryable THEN "next" ELSE "report"

\* The sub agent of step s: its tool is called, or it fails at once.
Launch(s) ==
    \/ /\ Callable(s)
       /\ pc' = "tool"
       /\ flight' = {s}
       /\ UNCHANGED <<at, result>>
    \/ /\ ~Callable(s)
       /\ pc' = After(s)
       /\ result' = [result EXCEPT ![s] = "failed"]
       /\ at' = at + 1
       /\ UNCHANGED flight

-----------------------------------------------------------------------------
(* _run_sequential *)

\* A dependency has not completed: the step is skipped.
Skip ==
    /\ mode = "sequential" /\ pc = "next" /\ at \in Steps
    /\ ~Ready(at)
    /\ result' = [result EXCEPT ![at] = "skipped"]
    /\ at' = at + 1
    /\ UNCHANGED <<setup, pc, flight, memory, outcome, show, ghosts>>

Guarded(s) == Destructive(s) /\ wired /\ baseline # Unknown

\* Mutant: skipping asks whether a dependency failed, not whether it completed.
TakeUnlessFailed ==
    /\ mode = "sequential" /\ pc = "next" /\ at \in Steps
    /\ \A t \in Steps : plan[t].name \in plan[at].deps => result[t] # "failed"
    /\ IF Guarded(at) THEN pc' = "guard" /\ UNCHANGED <<at, flight, result>>
                      ELSE Launch(at)
    /\ unchecked' = FALSE /\ raced' = FALSE
    /\ UNCHANGED <<setup, memory, outcome, show, changed>>

\* A step is taken up; a destructive one meets the showfile guard first.
Take ==
    /\ mode = "sequential" /\ pc = "next" /\ at \in Steps
    /\ Ready(at)
    /\ IF Guarded(at) THEN pc' = "guard" /\ UNCHANGED <<at, flight, result>>
                      ELSE Launch(at)
    /\ unchecked' = FALSE /\ raced' = FALSE
    /\ UNCHANGED <<setup, memory, outcome, show, changed>>

\* Mutant: any name that ListVar returns will do.
GuardPassesAny ==
    /\ pc = "guard"
    /\ Launch(at)
    /\ unchecked' = FALSE /\ raced' = FALSE
    /\ UNCHANGED <<setup, memory, outcome, show, changed>>

\* ListVar names the baseline show, or raises, and then the check is skipped.
GuardPasses ==
    /\ pc = "guard"
    /\ \/ show = baseline /\ unchecked' = FALSE
       \/ unchecked' = TRUE
    /\ Launch(at)
    /\ raced' = FALSE
    /\ UNCHANGED <<setup, memory, outcome, show, changed>>

\* Mutant: the guard ends the run without a result for its step.
GuardBlocksSilently ==
    /\ pc = "guard" /\ show # baseline
    /\ snapshot' = "none"
    /\ pc' = "report"
    /\ at' = at + 1
    /\ changed' = TRUE
    /\ UNCHANGED <<setup, flight, result, baseline, right, outcome, show, unchecked, raced>>

\* Mutant: the guard fails its step only; the snapshot stays and the run goes on.
GuardBlocksOne ==
    /\ pc = "guard" /\ show # baseline
    /\ result' = [result EXCEPT ![at] = "failed"]
    /\ pc' = "next"
    /\ at' = at + 1
    /\ changed' = TRUE
    /\ UNCHANGED <<setup, flight, memory, outcome, show, unchecked, raced>>

\* ListVar names another show: the snapshot is dropped and the run aborted.
GuardBlocks ==
    /\ pc = "guard" /\ show # baseline
    /\ snapshot' = "none"
    /\ result' = [result EXCEPT ![at] = "failed"]
    /\ pc' = "report"
    /\ at' = at + 1
    /\ changed' = TRUE
    /\ UNCHANGED <<setup, flight, baseline, right, outcome, show, unchecked, raced>>

\* ListVar names no show at all, which differs from every baseline.
GuardReadsNothing ==
    /\ pc = "guard"
    /\ snapshot' = "none"
    /\ result' = [result EXCEPT ![at] = "failed"]
    /\ pc' = "report"
    /\ at' = at + 1
    /\ UNCHANGED <<setup, flight, baseline, right, outcome, show, ghosts>>

\* The tool answers: allowed, or denied, erroneous or raising.
AnswerStep ==
    /\ mode = "sequential" /\ pc = "tool"
    /\ flight' = {}
    /\ at' = at + 1
    /\ \/ result' = [result EXCEPT ![at] = "ok"] /\ pc' = "next"
       \/ result' = [result EXCEPT ![at] = "failed"] /\ pc' = After(at)
    /\ unchecked' = FALSE /\ raced' = FALSE
    /\ UNCHANGED <<setup, memory, outcome, show, changed>>

-----------------------------------------------------------------------------
(* _run_parallel *)

\* Mutant: without a ready step the run waits for one.
BatchOfReady == {s \in Remaining : Ready(s)}

\* The ready steps, or the first remaining one whatever its dependencies did.
Batch ==
    LET ready == {s \in Remaining : Ready(s)}
    IN IF ready # {} THEN ready ELSE {CHOOSE s \in Remaining : \A t \in Remaining : s <= t}

\* gather: every step of the batch is called or fails at once.
Gather ==
    /\ mode = "parallel" /\ pc = "next" /\ Remaining # {}
    /\ flight' = {s \in Batch : Callable(s)}
    /\ result' = [s \in Steps |-> IF s \in Batch \ flight' THEN "failed" ELSE result[s]]
    /\ pc' = IF flight' = {} THEN "next" ELSE "tool"
    /\ UNCHANGED <<setup, at, memory, outcome, show, ghosts>>

\* Tools of a batch answer in any order; the next batch waits for all of them.
AnswerBatch(s) ==
    /\ mode = "parallel" /\ pc = "tool" /\ s \in flight
    /\ flight' = flight \ {s}
    /\ \E answer \in {"ok", "failed"} : result' = [result EXCEPT ![s] = answer]
    /\ pc' = IF flight' = {} THEN "next" ELSE "tool"
    /\ UNCHANGED <<setup, at, memory, outcome, show, ghosts>>

-----------------------------------------------------------------------------
(* _run_via_agent_bridge: execute_plan without checkpoints (see AgentRun) and   *)
(* without on_confirm, so that destructive steps confirm themselves.            *)

\* A set of steps that keeps those that wait for one of its own.
Closed(C) == \A t \in Remaining : (\E s \in C : plan[s].name \in plan[t].deps) => t \in C

\* The steps that wait, directly or not, for one that has failed or been blocked.
Dependents(s) ==
    {t \in Remaining \ {s} : \A C \in SUBSET Steps : s \in C /\ Closed(C) => t \in C}

Settle(s, how) ==
    result' = [t \in Steps |-> IF t = s THEN how
                               ELSE IF t \in Dependents(s) THEN "skipped" ELSE result[t]]

\* gate_step blocks a step that is not destructive; others were settled before.
BridgeOver ==
    /\ mode = "bridge" /\ pc = "next" /\ at \in Steps
    /\ \/ result[at] # "none" /\ UNCHANGED result
       \/ result[at] = "none" /\ ~Destructive(at) /\ ~Ready(at) /\ Settle(at, "skipped")
    /\ at' = at + 1
    /\ UNCHANGED <<setup, pc, flight, memory, outcome, show, ghosts>>

BridgeStep ==
    /\ mode = "bridge" /\ pc = "next" /\ at \in Steps
    /\ result[at] = "none"
    /\ Destructive(at) \/ Ready(at)
    /\ pc' = "tool"
    /\ flight' = {at}
    /\ UNCHANGED <<setup, at, result, memory, outcome, show, ghosts>>

\* After its retries, verification and rollback a step has completed, failed, or
\* been rolled back, which does not skip its dependents.
BridgeAnswer ==
    /\ mode = "bridge" /\ pc = "tool"
    /\ flight' = {}
    /\ pc' = "next"
    /\ at' = at + 1
    /\ \/ \E how \in {"ok", "undone"} : result' = [result EXCEPT ![at] = how]
       \/ Settle(at, "failed")
    /\ UNCHANGED <<setup, memory, outcome, show, ghosts>>

-----------------------------------------------------------------------------

EndPlan ==
    /\ pc = "next"
    /\ IF mode = "parallel" THEN Remaining = {} ELSE at = Len(plan) + 1
    /\ pc' = "report"
    /\ UNCHANGED <<setup, at, flight, result, memory, outcome, show, ghosts>>

\* Accounting, over the results there are, and save_session.
Report ==
    /\ pc = "report"
    /\ pc' = "done"
    /\ LET got == {result[s] : s \in Steps} \ {"none"}
       IN outcome' = IF got \subseteq {"ok"} THEN "success"
                     ELSE IF "ok" \in got THEN "partial" ELSE "failed"
    /\ UNCHANGED <<setup, at, flight, result, memory, show, ghosts>>

\* The MCP request is cancelled at an await: no session is saved.
Cancel ==
    /\ pc \in {"hydrate", "pools", "guard", "tool"}
    /\ pc' = "cancelled"
    /\ flight' = {}
    /\ UNCHANGED <<setup, at, result, memory, outcome, show, ghosts>>

\* Somebody loads a show.
LoadShow ==
    /\ pc \notin {"done", "cancelled"}
    /\ show' \in Shows \ {show}
    /\ raced' = (raced \/ (mode = "sequential" /\ pc = "tool"))
    /\ UNCHANGED <<setup, pc, at, flight, result, memory, outcome, unchecked, changed>>

\* Sixty seconds pass since the hydration.
Age ==
    /\ pc \notin {"done", "cancelled"}
    /\ snapshot = "fresh"
    /\ snapshot' = "stale"
    /\ UNCHANGED <<setup, pc, at, flight, result, baseline, right, outcome, show, ghosts>>

Proceed ==
    \/ ReadVars \/ ReadPools
    \/ Skip \/ Take \/ GuardPasses \/ GuardBlocks \/ GuardReadsNothing \/ AnswerStep
    \/ Gather \/ \E s \in Steps : AnswerBatch(s)
    \/ BridgeOver \/ BridgeStep \/ BridgeAnswer
    \/ EndPlan \/ Report

Next == Proceed \/ Cancel \/ LoadShow \/ Age

Spec == Init /\ [][Next]_vars

\* Every await of a run ends: tools, telnet reads and retries have timeouts.
FairSpec == Spec /\ WF_vars(Proceed)

-----------------------------------------------------------------------------
(* Properties. *)

Calls(s) == s \notin flight /\ s \in flight'

\* A run that reports success has executed every step of its plan with success:
\* none was skipped, blocked or left out by an abort (orchestrator.py:584-620).
SuccessIsWhole == outcome = "success" => \A s \in Steps : result[s] = "ok"

\* The tool of a step is called only after the steps it depends on have succeeded.
\* There are two exceptions: a batch run takes a step whose dependencies will never
\* succeed (orchestrator.py:663), and the bridge a destructive one whose
\* dependency was rolled back (agent/policy.py:154).
CalledAfterDependencies ==
    [][\A s \in Steps : Calls(s) =>
          \/ Ready(s)
          \/ mode = "parallel" /\ \E t \in Steps : result[t] = "failed"
          \/ /\ mode = "bridge" /\ Destructive(s)
             /\ \E t \in Steps : plan[t].name \in plan[s].deps /\ result[t] = "undone"]_vars

\* A sequential run changes another show than the one it was hydrated from only if
\* that show was loaded while the tool was out, or if no show could be read in the
\* guard or at hydration (orchestrator.py:549-580).
WrongShowOnlyIfRaced ==
    [][\A s \in Steps :
          /\ mode = "sequential" /\ Destructive(s) /\ s \in flight \ flight'
          /\ baseline # Unknown
          => show = baseline \/ raced \/ unchecked]_vars

\* Once a guard has seen another show, the run calls no tool any more.
NothingAfterShowChange == [][changed => ~\E s \in Steps : Calls(s)]_vars

\* A step is skipped only after a failure: the order of the steps never skips one
\* (task_decomposer.py:62-77).
SkippedOnlyAfterFailure ==
    \A s \in Steps : result[s] = "skipped" =>
        \E t \in Steps : result[t] \in {"failed", "undone"}

\* In every mode a step is executed at most once and its result is final: its tool is
\* called only while there is no result, the answer becomes the result unless the run
\* is cancelled, and neither another answer of the batch, a late failure nor
\* the skipping of dependents replaces it (orchestrator.py:584-681).
ExecutedOnce ==
    [][\A s \in Steps :
          /\ Calls(s) => result[s] = "none"
          /\ s \in flight \ flight' => result'[s] # "none" \/ pc' = "cancelled"
          /\ result[s] # "none" => result'[s] = result[s]]_vars

\* Every run ends, whatever its steps depend on.
RunEnds == <>(pc \in {"done", "cancelled"})
=============================================================================
