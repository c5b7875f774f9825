------------------------------ MODULE AgentRun ------------------------------
(***************************************************************************)
(* One agent run: StepExecutor.execute_plan (src/src/agent/executor.py)    *)
(* inside AgentRuntime.run and resume_run (src/src/agent/runtime.py), the  *)
(* gate of PolicyEngine, the verification and rollback of a step, the      *)
(* ProgressMonitor, and the checkpoints and the run record in SQLite.      *)
(*                                                                         *)
(* A run is one coroutine: an action is the code between two awaits, or    *)
(* between two commits.  A cancellation arrives at an await, a crash       *)
(* anywhere; resume_run then starts from what SQLite holds.                *)
(***************************************************************************)
EXTENDS Naturals, FiniteSets

CONSTANTS
    N,              \* the length of the plan
    Deps,           \* depends_on
    Destructive,    \* the steps whose risk_tier is DESTRUCTIVE
    Verified,       \* the steps whose tool has a verification strategy
    Undoable,       \* the steps for which suggest_rollback names a strategy
    MaxRetries,     \* max_retries
    StallLimit,     \* max_consecutive_failures of the ProgressMonitor
    MaxResumes      \* bound: how often the run is resumed

Steps == 1..N

\* The planner, the workflows and the task decomposer only refer to steps that
\* stand earlier in the plan.
ASSUME ConstantsAssumption ==
    /\ N \in Nat \ {0}
    /\ Deps \in [Steps -> SUBSET Steps]
    /\ \A s \in Steps : \A d \in Deps[s] : d < s
    /\ Destructive \in SUBSET Steps
    /\ Verified \in SUBSET Steps
    /\ Undoable \in SUBSET Verified
    /\ MaxRetries \in Nat
    /\ StallLimit \in Nat \ {0}
    /\ MaxResumes \in Nat

VARIABLES
    pc,         \* where the coroutine stands
    cur,        \* current_step_index (N + 1: the loop is over)
    attempt,    \* the retry loop's counter
    status,     \* PlanStep.status of each step
    run,        \* RunContext.status
    failures,   \* ProgressMonitor._failures, counted up to StallLimit
    seen,       \* steps with an entry in ProgressMonitor._output_hashes
    cp,         \* the status column of step_checkpoints
    record,     \* what run_history holds: the plan, or the final trace
    resumes,    \* how many times resume_run was called
    settled     \* ghost: steps whose last finished execution ended COMPLETED

vars == <<pc, cur, attempt, status, run, failures, seen, cp, record, resumes, settled>>
monitor == <<failures, seen>>
durable == <<cp, record>>

Executing == {"tool", "verify", "undo", "save"}     \* inside the step cur
Awaiting == {"confirm", "tool", "verify", "undo"}
Alive == Awaiting \cup {"scan", "save", "record", "clean"}
Terminal == {"completed", "failed", "skipped", "rolled_back"}

\* Type correctness of the run's context, monitor and tables
\* (state.py:23-40, executor.py:64-73, memory.py:267-298).
TypeOK ==
    /\ pc \in Alive \cup {"done", "raised", "down"}
    /\ cur \in 1..(N + 1)
    /\ attempt \in 0..MaxRetries
    /\ status \in [Steps -> Terminal \cup {"pending", "awaiting", "running"}]
    /\ run \in {"executing", "completed", "failed", "aborted"}
    /\ failures \in [Steps -> 0..StallLimit]
    /\ seen \in SUBSET Steps
    /\ cp \in [Steps -> Terminal \cup {"none"}]
    /\ record \in {"in_progress", "final"}
    /\ resumes \in 0..MaxResumes
    /\ settled \in SUBSET Steps

\* The plan was validated and stored with result "in_progress".
Init ==
    /\ pc = "scan"
    /\ cur = 1
    /\ attempt = 0
    /\ status = [s \in Steps |-> "pending"]
    /\ run = "executing"
    /\ failures = [s \in Steps |-> 0]
    /\ seen = {}
    /\ cp = [s \in Steps |-> "none"]
    /\ record = "in_progress"
    /\ resumes = 0
    /\ settled = {}

-----------------------------------------------------------------------------
(* The loop over the plan. *)

\* Mutant: only a failed dependency holds a step back.
DependenciesNotFailed(s) == \A d \in Deps[s] : status[d] # "failed"

DependenciesMet(s) == \A d \in Deps[s] : status[d] = "completed"

\* Mutant: dependents of dependents are not skipped.
DirectDependents(failed) ==
    {s \in Steps : status[s] = "pending" /\ failed \in Deps[s]}

\* What waits for a member of C is a member of C.
Closed(C) ==
    \A t \in Steps : status[t] = "pending" /\ Deps[t] \cap C # {} => t \in C

\* _skip_dependents: the pending steps that reach `failed` through depends_on, the
\* smallest set closed under waiting for one of its own.
Dependents(failed) ==
    {t \in Steps \ {failed} :
        /\ status[t] = "pending"
        /\ \A C \in SUBSET Steps : failed \in C /\ Closed(C) => t \in C}

\* The status function after `s` took status `v` and the steps D were skipped.
Settle(s, v, D) ==
    [x \in Steps |-> IF x = s THEN v ELSE IF x \in D THEN "skipped" ELSE status[x]]

\* _save_checkpoint.  The steps that resume_run builds hold risk_tier as a plain
\* string, so to_dict() raises and the checkpoint is lost with a warning.
Checkpoint(s, v) == cp' = IF resumes = 0 THEN [cp EXCEPT ![s] = v] ELSE cp

StepOver ==
    /\ pc = "scan" /\ cur <= N
    /\ status[cur] \in Terminal
    /\ cur' = cur + 1
    /\ UNCHANGED <<pc, attempt, status, run, monitor, durable, resumes, settled>>

\* gate_step: a destructive step is to be confirmed, whatever its dependencies.
GateConfirm ==
    /\ pc = "scan" /\ cur <= N
    /\ status[cur] = "pending"
    /\ cur \in Destructive
    /\ status' = [status EXCEPT ![cur] = "awaiting"]
    /\ pc' = "confirm"
    /\ UNCHANGED <<cur, attempt, run, monitor, durable, resumes, settled>>

GateBlock ==
    /\ pc = "scan" /\ cur <= N
    /\ status[cur] = "pending"
    /\ cur \notin Destructive
    /\ ~DependenciesMet(cur)
    /\ status' = Settle(cur, "skipped", Dependents(cur))
    /\ Checkpoint(cur, "skipped")
    /\ cur' = cur + 1
    /\ UNCHANGED <<pc, attempt, run, monitor, record, resumes, settled>>

BeginStep ==
    /\ status' = [status EXCEPT ![cur] = "running"]
    /\ attempt' = 0
    /\ pc' = "tool"
    /\ UNCHANGED <<cur, run, monitor, durable, resumes, settled>>

GateExecute ==
    /\ pc = "scan" /\ cur <= N
    /\ status[cur] = "pending"
    /\ cur \notin Destructive
    /\ DependenciesMet(cur)
    /\ BeginStep

\* on_confirm said yes, or there is no callback.
Confirmed == pc = "confirm" /\ BeginStep

Declined ==
    /\ pc = "confirm"
    /\ status' = [status EXCEPT ![cur] = "skipped"]
    /\ run' = "aborted"
    /\ pc' = "record"
    /\ UNCHANGED <<cur, attempt, monitor, durable, resumes, settled>>

-----------------------------------------------------------------------------
(* _execute_with_retries on the step cur. *)

\* The tool answered.  An output the monitor has seen before is a loop: the step
\* stays completed and is not verified.
ToolSucceeds ==
    /\ pc = "tool"
    /\ status' = [status EXCEPT ![cur] = "completed"]
    /\ failures' = [failures EXCEPT ![cur] = 0]
    /\ seen' = seen \cup {cur}
    /\ \E repeated \in BOOLEAN :
          /\ repeated => cur \in seen
          /\ pc' = IF cur \in Verified /\ ~repeated THEN "verify" ELSE "save"
    /\ UNCHANGED <<cur, attempt, run, durable, resumes, settled>>

\* Mutant: no failure is final, the attempts start over.
ToolFailsForEver ==
    /\ pc = "tool"
    /\ attempt' = IF attempt < MaxRetries THEN attempt + 1 ELSE 0
    /\ UNCHANGED <<pc, cur, status, run, monitor, durable, resumes, settled>>

\* The tool raised or answered with an error, with or without an effect.
ToolFails ==
    LET count == IF failures[cur] < StallLimit THEN failures[cur] + 1 ELSE StallLimit IN
    /\ pc = "tool"
    /\ failures' = [failures EXCEPT ![cur] = count]
    /\ IF count = StallLimit \/ attempt = MaxRetries
       THEN /\ status' = [status EXCEPT ![cur] = "failed"]
            /\ pc' = "save"
            /\ UNCHANGED attempt
       ELSE /\ attempt' = attempt + 1
            /\ UNCHANGED <<status, pc>>
    /\ UNCHANGED <<cur, run, seen, durable, resumes, settled>>

\* verify_step passed, failed, or raised (which counts as failed).
Verify ==
    /\ pc = "verify"
    /\ \E passed \in BOOLEAN :
          pc' = IF ~passed /\ cur \in Undoable THEN "undo" ELSE "save"
    /\ UNCHANGED <<cur, attempt, status, run, monitor, durable, resumes, settled>>

\* The rollback worked, or it did not and the step stays completed.
Rollback ==
    /\ pc = "undo"
    /\ \E ok \in BOOLEAN :
          status' = IF ok THEN [status EXCEPT ![cur] = "rolled_back"] ELSE status
    /\ pc' = "save"
    /\ UNCHANGED <<cur, attempt, run, monitor, durable, resumes, settled>>

\* Mutant: only the next step is looked at.
NextIsNotPending(after) == cur = N \/ after[cur + 1] # "pending"

NothingRemains(after) == ~\E s \in Steps : s > cur /\ after[s] = "pending"

\* Persist the step; after a failure skip its dependents, and end the run when
\* no later step is pending.
SaveStep ==
    LET failed == status[cur] = "failed"
        after == Settle(cur, status[cur], IF failed THEN Dependents(cur) ELSE {})
    IN
    /\ pc = "save"
    /\ Checkpoint(cur, status[cur])
    /\ status' = after
    /\ settled' = IF status[cur] = "completed" THEN settled \cup {cur} ELSE settled \ {cur}
    /\ IF failed /\ NothingRemains(after)
       THEN run' = "failed" /\ pc' = "record" /\ UNCHANGED cur
       ELSE cur' = cur + 1 /\ pc' = "scan" /\ UNCHANGED run
    /\ UNCHANGED <<attempt, monitor, record, resumes>>

EndLoop ==
    /\ pc = "scan" /\ cur = N + 1
    /\ run' = IF \E s \in Steps : status[s] = "failed" THEN "failed" ELSE "completed"
    /\ pc' = "record"
    /\ UNCHANGED <<cur, attempt, status, monitor, durable, resumes, settled>>

-----------------------------------------------------------------------------
(* build_trace, the final record and the checkpoints. *)

\* build_trace reads risk_tier.value too: it raises out of resume_run.
BuildTraceRaises ==
    /\ pc = "record" /\ resumes > 0
    /\ pc' = "raised"
    /\ UNCHANGED <<cur, attempt, status, run, monitor, durable, resumes, settled>>

\* Mutant: the checkpoints are deleted before the final trace is stored.
DeleteBeforeRecord ==
    /\ pc = "record" /\ resumes = 0
    /\ cp' = [s \in Steps |-> "none"]
    /\ pc' = "clean"
    /\ UNCHANGED <<cur, attempt, status, run, monitor, record, resumes, settled>>

RecordRun ==
    /\ pc = "record" /\ resumes = 0
    /\ record' = "final"
    /\ pc' = "clean"
    /\ UNCHANGED <<cur, attempt, status, run, monitor, cp, resumes, settled>>

DeleteCheckpoints ==
    /\ pc = "clean"
    /\ cp' = [s \in Steps |-> "none"]
    /\ pc' = "done"
    /\ UNCHANGED <<cur, attempt, status, run, monitor, record, resumes, settled>>

-----------------------------------------------------------------------------
(* Interruption and resumption. *)

LoseContext ==
    /\ pc' = "down"
    /\ cur' = 1
    /\ attempt' = 0
    /\ status' = [s \in Steps |-> "pending"]
    /\ run' = "executing"
    /\ UNCHANGED <<durable, resumes, settled>>

\* CancelledError leaves the coroutine; the runtime and its monitor live on.
Cancel ==
    /\ pc \in Awaiting
    /\ LoseContext
    /\ UNCHANGED monitor

Crash ==
    /\ pc # "done"
    /\ LoseContext
    /\ failures' = [s \in Steps |-> 0]
    /\ seen' = {}

\* Mutants: a completed step is forgotten; a rolled back step counts as completed.
RestoredUnlessCompleted(s) == IF cp[s] \in {"failed", "skipped"} THEN cp[s] ELSE "pending"
RestoredRolledBack(s) ==
    IF cp[s] = "none" THEN "pending"
    ELSE IF cp[s] = "rolled_back" THEN "completed" ELSE cp[s]

\* The status that resume_run gives a step: a rolled back step starts afresh.
Restored(s) == IF cp[s] \in {"completed", "failed", "skipped"} THEN cp[s] ELSE "pending"

\* resume_run, after an interruption or after a resume that raised.  Once the
\* final trace is stored it fails before it executes anything.
Resume ==
    /\ pc \in {"down", "raised"}
    /\ record = "in_progress"
    /\ resumes < MaxResumes
    /\ resumes' = resumes + 1
    /\ status' = [s \in Steps |-> Restored(s)]
    /\ run' = "executing"
    /\ cur' = 1
    /\ attempt' = 0
    /\ pc' = "scan"
    /\ UNCHANGED <<monitor, durable, settled>>

-----------------------------------------------------------------------------
Proceed ==
    \/ StepOver \/ GateConfirm \/ GateBlock \/ GateExecute
    \/ Confirmed \/ Declined
    \/ ToolSucceeds \/ ToolFails \/ Verify \/ Rollback \/ SaveStep
    \/ EndLoop \/ BuildTraceRaises \/ RecordRun \/ DeleteCheckpoints

Next == Proceed \/ Cancel \/ Crash \/ Resume

Spec == Init /\ [][Next]_vars

\* Every await of a run ends: tools, verification and rollback talk to the
\* console with timeouts, the operator answers, and the retry delay is finite.
FairSpec == Spec /\ WF_vars(Proceed)

-----------------------------------------------------------------------------
(* Properties. *)

Starts(s) == status[s] # "running" /\ status'[s] = "running"

\* A step that is not destructive calls its tool only when every step it depends
\* on has really run to completion, in this incarnation or, by its checkpoint, in
\* an earlier one (the gate reads statuses that resume_run restored).
GuardedAfterDependencies ==
    [][\A s \in Steps \ Destructive : Starts(s) => Deps[s] \subseteq settled]_vars

\* A destructive step skips the dependency check of the gate.  Until the run is
\* resumed, the transitive skipping of dependents makes up for it, except for a
\* dependency that was rolled back.
DestructiveAfterDependencies ==
    [][\A s \in Destructive : Starts(s) /\ resumes = 0 =>
          \A d \in Deps[s] : status[d] \in {"completed", "rolled_back"}]_vars

\* One interruption, wherever it strikes, never makes a step run again that had
\* completed and was saved.
RedoneOnlyAfterTwoResumes ==
    [][\A s \in settled : Starts(s) => resumes >= 2]_vars

\* Recovery has what it needs: until the final trace is stored, the checkpoints of
\* the first incarnation name as completed exactly the steps that completed.
CheckpointsMatch ==
    record = "in_progress" /\ resumes = 0 =>
        \A s \in Steps : cp[s] = "completed" <=> s \in settled

\* When the loop ends without an abort, no step is left unconsidered, although it
\* breaks early, and the run is failed exactly if a step is.
LoopEndsSettled ==
    pc = "record" /\ run # "aborted" =>
        /\ \A s \in Steps : status[s] \in Terminal
        /\ run = "failed" <=> \E s \in Steps : status[s] = "failed"

\* Every incarnation of the run ends, whatever the tools, the verifications, the
\* rollbacks and the operator answer.
RunEnds == pc \in Alive ~> pc \notin Alive

\* What a step amounts to for DependencyOrder; while nothing runs, what SQLite
\* says of it.
Outcome(s) ==
    LET known == IF pc = "down" THEN Restored(s) ELSE status[s] IN
    IF s = cur /\ pc \in Executing THEN "todo"
    ELSE IF known = "completed" THEN "done"
    ELSE IF known \in {"failed", "skipped", "rolled_back"} THEN "dead"
    ELSE "todo"

Order == INSTANCE DependencyOrder WITH
    Guarded <- Steps \ Destructive,
    outcome <- [s \in Steps |-> Outcome(s)]

\* The run, its interruptions and resumptions implement DependencyOrder: no
\* recovery leaves a guarded step done whose dependencies are not.
KeepsOrder == Order!Spec

\* resume_run's docstring: a run goes on from its last checkpoint, so what had
\* completed when it was interrupted does not run again.
ResumesFromLastCheckpoint == [][\A s \in settled : ~Starts(s)]_vars
=============================================================================
