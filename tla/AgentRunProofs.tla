--------------------------- MODULE AgentRunProofs ---------------------------
(* What holds of an agent run for every plan, retry limit and number of      *)
(* interruptions.                                                            *)
EXTENDS AgentRun, Integers, TLAPS

USE ConstantsAssumption DEF ConstantsAssumption, Steps

\* A step whose completion is no longer open to verification and rollback.
Settled(s) == status[s] = "completed" /\ ~(s = cur /\ pc \in Executing)

\* The status of the step in hand, and what may be said of the others.
StepInv ==
    /\ pc \in Executing \cup {"confirm"} => cur \in Steps
    /\ pc = "confirm" => status[cur] = "awaiting" /\ cur \in Destructive
    /\ pc = "tool" => status[cur] = "running"
    /\ pc \in {"verify", "undo"} => status[cur] = "completed"
    /\ pc = "save" => status[cur] \in {"completed", "failed", "rolled_back"}
    /\ \A s \in Steps : status[s] = "awaiting" => s = cur /\ pc = "confirm"
    /\ \A s \in Steps : status[s] = "running" => s = cur /\ pc = "tool"

\* The loop leaves no step behind, and the run is executing until it ends.
LoopInv ==
    /\ pc \in Executing \cup {"confirm", "scan"} =>
          /\ run = "executing"
          /\ \A s \in Steps : s < cur => status[s] \in Terminal
    /\ record = "final" => pc \in {"clean", "done", "down"}
    /\ pc \in {"clean", "done"} => record = "final"
    /\ LoopEndsSettled

\* While a run is alive its statuses say at least what the checkpoints say.
CheckpointInv ==
    \A s \in Steps :
        /\ cp[s] = "completed" => s \in settled
        /\ pc # "down" /\ cp[s] \in {"completed", "failed", "skipped"} =>
              status[s] = cp[s] /\ ~(s = cur /\ pc \in Executing)

\* What has completed is known: to the checkpoints in the first incarnation, to
\* the statuses in any, and to nothing more before the second resume.
KnownInv ==
    \A s \in Steps :
        /\ pc # "down" /\ Settled(s) => s \in settled
        /\ s \in settled /\ resumes = 0 /\ record = "in_progress" => cp[s] = "completed"
        /\ s \in settled /\ resumes = 1 /\ pc \in Alive => Settled(s)

\* Guarded steps settle after their dependencies, in memory and in SQLite.
OrderInv ==
    \A s \in Steps \ Destructive :
        /\ s = cur /\ pc \in Executing => DependenciesMet(s)
        /\ Settled(s) => \A d \in Deps[s] : Settled(d)
        /\ cp[s] = "completed" => \A d \in Deps[s] : cp[d] = "completed"

\* In the first incarnation nothing ahead of the loop has been begun, and what
\* depends on a step that failed or was skipped is skipped when the loop goes on.
SkipInv ==
    pc \in Executing \cup {"confirm", "scan"} /\ resumes = 0 =>
        /\ \A s \in Steps : s > cur \/ (s = cur /\ pc = "scan") =>
              status[s] \in {"pending", "skipped"}
        /\ \A s \in Steps : \A d \in Deps[s] :
              status[d] \in {"failed", "skipped"} /\ ~(d = cur /\ pc = "save") =>
                 status[s] = "skipped"

IInv == TypeOK /\ StepInv /\ LoopInv /\ CheckpointInv /\ KnownInv /\ OrderInv

\* _skip_dependents only touches pending steps.
LEMMA DependentsPending ==
  \A f \in Steps : \A s \in Dependents(f) : s \in Steps /\ status[s] = "pending"
  BY DEF Dependents

\* Nothing pending that waits for a skipped dependent, or for the failed step
\* itself, is left out.
LEMMA DependentsClosed ==
  ASSUME NEW f \in Steps, NEW s \in Steps \ {f}, NEW d \in Deps[s],
         d \in Dependents(f) \cup {f}, status[s] = "pending"
  PROVE  s \in Dependents(f)
<1>1. ASSUME NEW C \in SUBSET Steps, f \in C, Closed(C) PROVE s \in C
  <2>1. d \in C
    BY <1>1 DEF Dependents
  <2>2. QED
    BY <1>1, <2>1 DEF Closed
<1>2. QED
  BY <1>1 DEF Dependents

\* Settling a step gives it its status and leaves every step that is neither
\* pending nor itself as it was; pending ones may turn to skipped.
LEMMA SettleEffect ==
  ASSUME NEW s \in Steps, NEW v, NEW D \in SUBSET Dependents(s), status' = Settle(s, v, D)
  PROVE  /\ status' = [x \in Steps |-> status'[x]]
         /\ status'[s] = v
         /\ \A x \in Steps \ {s} :
               \/ status'[x] = status[x]
               \/ status[x] = "pending" /\ status'[x] = "skipped"
<1>1. status' = [x \in Steps |-> IF x = s THEN v
                                ELSE IF x \in D THEN "skipped" ELSE status[x]]
  BY DEF Settle
<1>2. \A x \in D : status[x] = "pending"
  BY DependentsPending
<1>3. status' = [x \in Steps |-> status'[x]]
  BY <1>1
<1>4. \A x \in Steps : status'[x] = IF x = s THEN v
                                    ELSE IF x \in D THEN "skipped" ELSE status[x]
  BY <1>1
<1>5. QED
  BY <1>2, <1>3, <1>4

LEMMA InitInv == Init => IInv
  BY DEF Init, IInv, TypeOK, StepInv, LoopInv, LoopEndsSettled, CheckpointInv, KnownInv,
         OrderInv, Settled, Executing, Awaiting, Alive, Terminal

LEMMA NextInv == IInv /\ [Next]_vars => IInv'
<1> SUFFICES ASSUME IInv, [Next]_vars PROVE IInv'
  OBVIOUS
<1> USE DEF IInv, TypeOK, StepInv, LoopInv, LoopEndsSettled, CheckpointInv, KnownInv,
            OrderInv, Settled, DependenciesMet, Executing, Awaiting, Alive, Terminal,
            monitor, durable
<1>1. CASE StepOver
  BY <1>1 DEF StepOver
<1>2. CASE GateConfirm
  BY <1>2 DEF GateConfirm
<1>3. CASE GateBlock
  <2> HIDE DEF IInv, TypeOK, StepInv, LoopInv, LoopEndsSettled, CheckpointInv, KnownInv,
               OrderInv, Settled
  <2>1. /\ cur \in Steps /\ status[cur] = "pending" /\ cur' = cur + 1 /\ pc = "scan"
        /\ UNCHANGED <<pc, attempt, run, failures, seen, record, resumes, settled>>
    BY <1>3 DEF GateBlock, IInv, TypeOK
  <2>0. status' = Settle(cur, "skipped", Dependents(cur))
    BY <1>3 DEF GateBlock
  <2>2. /\ status' = [x \in Steps |-> status'[x]]
        /\ status'[cur] = "skipped"
        /\ \A x \in Steps \ {cur} :
               \/ status'[x] = status[x]
               \/ status[x] = "pending" /\ status'[x] = "skipped"
    BY <2>0, <2>1, SettleEffect
  <2>3. /\ cp' \in [Steps -> Terminal \cup {"none"}]
        /\ \A x \in Steps \ {cur} : cp'[x] = cp[x]
        /\ resumes = 0 => cp'[cur] = "skipped"
        /\ resumes # 0 => cp' = cp
    BY <1>3, <2>1 DEF GateBlock, Checkpoint, IInv, TypeOK
  <2>4. TypeOK'
    <3>1. \A x \in Steps : status'[x] \in Terminal \cup {"pending", "awaiting", "running"}
      BY <2>2 DEF IInv, TypeOK
    <3>2. QED
      BY <2>1, <2>2, <2>3, <3>1 DEF IInv, TypeOK
  <2>5. StepInv'
    <3>1. pc' = "scan"
      BY <2>1
    <3>2. \A s \in Steps : status[s] \notin {"awaiting", "running"}
      BY <2>1 DEF IInv, StepInv
    <3>3. \A s \in Steps : status'[s] \notin {"awaiting", "running"}
      BY <2>1, <2>2, <3>2
    <3>4. QED
      BY <3>1, <3>3 DEF StepInv
  <2>6. LoopInv'
    <3>1. \A s \in Steps : s < cur => status'[s] = status[s]
      BY <2>1, <2>2 DEF IInv, LoopInv
    <3>2. \A s \in Steps : s < cur' => s < cur \/ s = cur
      BY <2>1 DEF IInv, TypeOK
    <3>3. QED
      BY <2>1, <2>2, <3>1, <3>2 DEF IInv, LoopInv, LoopEndsSettled
  <2>7. CheckpointInv'
    BY <2>1, <2>2, <2>3 DEF IInv, CheckpointInv
  <2>8. KnownInv'
    BY <2>1, <2>2, <2>3 DEF IInv, CheckpointInv, KnownInv, Settled
  <2>9. OrderInv'
    <3>1. \A x \in Steps : Settled(x)' <=> Settled(x)
      BY <2>1, <2>2 DEF Settled
    <3>2. \A x \in Steps : cp'[x] = "completed" <=> cp[x] = "completed"
      BY <2>1, <2>2, <2>3 DEF IInv, CheckpointInv
    <3>3. QED
      BY <2>1, <3>1, <3>2 DEF IInv, OrderInv
  <2>10. QED
    BY <2>4, <2>5, <2>6, <2>7, <2>8, <2>9 DEF IInv
<1>4. CASE GateExecute
  BY <1>4, SMTT(30) DEF GateExecute, BeginStep
<1>5. CASE Confirmed
  BY <1>5, SMTT(30) DEF Confirmed, BeginStep
<1>6. CASE Declined
  BY <1>6 DEF Declined
<1>7. CASE ToolSucceeds
  BY <1>7 DEF ToolSucceeds
<1>8. CASE ToolFails
  <2>1. /\ pc = "tool" /\ cur \in Steps
        /\ UNCHANGED <<cur, run, seen, cp, record, resumes, settled>>
    BY <1>8 DEF ToolFails
  <2>2. failures' \in [Steps -> 0..StallLimit]
    BY <1>8, <2>1 DEF ToolFails
  <2>3. CASE status' = [status EXCEPT ![cur] = "failed"] /\ pc' = "save" /\ attempt' = attempt
    BY <2>1, <2>2, <2>3, SMTT(30)
  <2>4. CASE attempt' = attempt + 1 /\ attempt # MaxRetries /\ UNCHANGED <<status, pc>>
    BY <2>1, <2>2, <2>4, SMTT(30)
  <2>5. QED
    BY <1>8, <2>3, <2>4 DEF ToolFails
<1>9. CASE Verify
  BY <1>9 DEF Verify
<1>10. CASE Rollback
  BY <1>10 DEF Rollback
<1>11. CASE SaveStep
  <2> DEFINE D == IF status[cur] = "failed" THEN Dependents(cur) ELSE {}
             after == Settle(cur, status[cur], D)
  <2>1. /\ cur \in Steps /\ pc = "save" /\ status' = after
        /\ status[cur] \in {"completed", "failed", "rolled_back"}
        /\ UNCHANGED <<attempt, failures, seen, record, resumes>>
    BY <1>11 DEF SaveStep
  <2>2. /\ status' = [x \in Steps |-> status'[x]]
        /\ status'[cur] = status[cur]
        /\ \A x \in Steps \ {cur} :
               \/ status'[x] = status[x]
               \/ status[x] = "pending" /\ status'[x] = "skipped"
    <3>1. D \in SUBSET Dependents(cur)
      OBVIOUS
    <3>2. QED
      BY <2>1, <3>1, SettleEffect
  <2>3. /\ cp' \in [Steps -> Terminal \cup {"none"}]
        /\ \A x \in Steps \ {cur} : cp'[x] = cp[x]
        /\ resumes = 0 => cp'[cur] = status[cur]
        /\ resumes # 0 => cp' = cp
    BY <1>11, <2>1 DEF SaveStep, Checkpoint
  <2>4. /\ settled' \in SUBSET Steps
        /\ \A x \in Steps \ {cur} : x \in settled' <=> x \in settled
        /\ cur \in settled' <=> status[cur] = "completed"
    BY <1>11, <2>1 DEF SaveStep
  <2>5. \/ cur' = cur + 1 /\ pc' = "scan" /\ run' = run
        \/ /\ run' = "failed" /\ pc' = "record" /\ cur' = cur /\ status[cur] = "failed"
           /\ \A s \in Steps : s > cur => status'[s] # "pending"
    BY <1>11, <2>1 DEF SaveStep, NothingRemains
  <2> HIDE DEF after, D
  <2>6. TypeOK'
    <3>1. \A x \in Steps : status'[x] \in Terminal \cup {"pending", "awaiting", "running"}
      BY <2>1, <2>2
    <3>2. QED
      BY <2>1, <2>2, <2>3, <2>4, <2>5, <3>1, SMTT(30)
  <2>20. pc' \in {"scan", "record"}
    BY <2>5
  <2>7. StepInv'
    <3>1. \A s \in Steps : status[s] \notin {"awaiting", "running"}
      BY <2>1
    <3>2. \A s \in Steps : status'[s] \notin {"awaiting", "running"}
      BY <2>1, <2>2, <3>1
    <3>3. QED
      BY <2>20, <3>2
  <2>8. LoopInv'
    <3>1. \A s \in Steps : s < cur => status'[s] = status[s] /\ status'[s] \in Terminal
      BY <2>1, <2>2
    <3>2. status'[cur] \in Terminal
      BY <2>1, <2>2
    <3>3. CASE pc' = "scan"
      <4>1. cur' = cur + 1 /\ run' = "executing"
        BY <2>1, <2>5, <3>3
      <4>2. \A s \in Steps : s < cur' => s < cur \/ s = cur
        BY <2>1, <4>1
      <4>3. QED
        BY <2>1, <3>1, <3>2, <3>3, <4>1, <4>2
    <3>4. CASE pc' = "record"
      <4>1. /\ run' = "failed" /\ status'[cur] = "failed"
            /\ \A s \in Steps : s > cur => status'[s] # "pending"
        BY <2>2, <2>5, <3>4
      <4>2. \A s \in Steps : s > cur => status'[s] \in Terminal
        BY <2>1, <2>2, <4>1
      <4>3. \A s \in Steps : status'[s] \in Terminal
        BY <2>1, <3>1, <3>2, <4>2
      <4>4. QED
        BY <2>1, <3>4, <4>1, <4>3
    <3>5. QED
      BY <2>20, <3>3, <3>4
  <2>21. \A x \in Steps : Settled(x)' <=> Settled(x) \/ (x = cur /\ status[cur] = "completed")
    BY <2>1, <2>2, <2>20
  <2>9. CheckpointInv'
    <3> SUFFICES ASSUME NEW s \in Steps
        PROVE /\ cp'[s] = "completed" => s \in settled'
              /\ pc' # "down" /\ cp'[s] \in {"completed", "failed", "skipped"} =>
                    status'[s] = cp'[s] /\ ~(s = cur' /\ pc' \in Executing)
      OBVIOUS
    <3>1. CASE s = cur
      BY <2>1, <2>2, <2>3, <2>4, <2>20, <3>1
    <3>2. CASE s # cur
      BY <2>1, <2>2, <2>3, <2>4, <2>20, <3>2
    <3>3. QED
      BY <3>1, <3>2
  <2>10. KnownInv'
    <3> SUFFICES ASSUME NEW s \in Steps
        PROVE /\ Settled(s)' => s \in settled'
              /\ s \in settled' /\ resumes = 0 /\ record = "in_progress" =>
                    cp'[s] = "completed"
              /\ s \in settled' /\ resumes = 1 => Settled(s)'
      BY <2>1
    <3>1. CASE s = cur
      BY <2>1, <2>3, <2>4, <2>21, <3>1
    <3>2. CASE s # cur
      <4>1. (s \in settled' <=> s \in settled) /\ cp'[s] = cp[s] /\ pc \in Alive
        BY <2>1, <2>3, <2>4, <3>2
      <4>2. Settled(s)' <=> Settled(s)
        BY <2>21, <3>2 DEF Settled
      <4>3. QED
        BY <2>1, <4>1, <4>2
    <3>3. QED
      BY <3>1, <3>2
  <2>11. OrderInv'
    <3> SUFFICES ASSUME NEW s \in Steps \ Destructive, NEW d \in Deps[s]
        PROVE /\ Settled(s)' => Settled(d)'
              /\ cp'[s] = "completed" => cp'[d] = "completed"
      BY <2>20
    <3>0. d \in Steps /\ d # s
      OBVIOUS
    <3>1. CASE s = cur
      <4>1. status[d] = "completed" /\ Settled(d) /\ d \in settled
        BY <2>1, <3>0, <3>1
      <4>2. QED
        BY <2>1, <2>3, <2>21, <3>0, <3>1, <4>1
    <3>2. CASE s # cur
      <4>1. Settled(s)' => Settled(d)'
        BY <2>21, <3>0, <3>2
      <4>2. cp'[s] = "completed" => cp'[d] = "completed"
        <5>1. cp[s] = "completed" => cp[d] = "completed" /\ d # cur
          BY <2>1, <3>0
        <5>2. QED
          BY <2>3, <3>0, <3>2, <5>1
      <4>3. QED
        BY <4>1, <4>2
    <3>3. QED
      BY <3>1, <3>2
  <2>12. QED
    BY <2>6, <2>7, <2>8, <2>9, <2>10, <2>11
<1>12. CASE EndLoop
  BY <1>12 DEF EndLoop
<1>13. CASE BuildTraceRaises
  BY <1>13 DEF BuildTraceRaises
<1>14. CASE RecordRun
  BY <1>14 DEF RecordRun
<1>15. CASE DeleteCheckpoints
  BY <1>15 DEF DeleteCheckpoints
<1>16. CASE Cancel
  BY <1>16 DEF Cancel, LoseContext
<1>17. CASE Crash
  BY <1>17 DEF Crash, LoseContext
<1>18. CASE Resume
  BY <1>18, SMTT(30) DEF Resume, Restored
<1>19. CASE UNCHANGED vars
  BY <1>19 DEF vars
<1>20. QED
  BY <1>1, <1>2, <1>3, <1>4, <1>5, <1>6, <1>7, <1>8, <1>9, <1>10, <1>11, <1>12, <1>13,
     <1>14, <1>15, <1>16, <1>17, <1>18, <1>19 DEF Next, Proceed

LEMMA SpecInv == Spec => []IInv
  BY InitInv, NextInv, PTL DEF Spec

\* The run's context, monitor and tables have their types.
THEOREM TypeCorrect == Spec => []TypeOK
  BY SpecInv, PTL DEF IInv

\* However the loop ends without an abort, every step is settled and the status of
\* the run says whether one failed.
THEOREM LoopSettlesAll == Spec => []LoopEndsSettled
  BY SpecInv, PTL DEF IInv, LoopInv

\* In the first incarnation the checkpoints name exactly the completed steps.
THEOREM CheckpointsExact == Spec => []CheckpointsMatch
<1>1. IInv => CheckpointsMatch
  BY DEF IInv, CheckpointInv, KnownInv, CheckpointsMatch
<1>2. QED
  BY <1>1, SpecInv, PTL

\* Only the step in hand starts, by the gate or by a confirmation.
LEMMA WhoStarts ==
  ASSUME IInv, Next, NEW s \in Steps, Starts(s)
  PROVE  s = cur /\ (GateExecute \/ Confirmed)
<1> USE DEF IInv, TypeOK, StepInv, Starts, Terminal
<1>1. CASE GateExecute \/ Confirmed
  BY <1>1 DEF GateExecute, Confirmed, BeginStep
<1>2. CASE StepOver \/ Verify \/ EndLoop \/ BuildTraceRaises \/ RecordRun \/ DeleteCheckpoints
  BY <1>2 DEF StepOver, Verify, EndLoop, BuildTraceRaises, RecordRun, DeleteCheckpoints
<1>3. CASE GateConfirm \/ Declined \/ ToolSucceeds \/ ToolFails \/ Rollback
  BY <1>3 DEF GateConfirm, Declined, ToolSucceeds, ToolFails, Rollback
<1>4. CASE GateBlock
  <2>1. cur \in Steps /\ status' = Settle(cur, "skipped", Dependents(cur))
    BY <1>4 DEF GateBlock
  <2>2. QED
    BY <2>1, SettleEffect
<1>5. CASE SaveStep
  <2> DEFINE D == IF status[cur] = "failed" THEN Dependents(cur) ELSE {}
  <2>1. /\ cur \in Steps /\ status[cur] # "running"
        /\ status' = Settle(cur, status[cur], D) /\ D \in SUBSET Dependents(cur)
    BY <1>5 DEF SaveStep, Executing
  <2> HIDE DEF D
  <2>2. QED
    BY <2>1, SettleEffect
<1>6. CASE Cancel \/ Crash \/ Resume
  BY <1>6 DEF Cancel, Crash, Resume, LoseContext, Restored
<1>7. QED
  BY <1>1, <1>2, <1>3, <1>4, <1>5, <1>6 DEF Next, Proceed

\* A guarded step calls its tool only after every step it depends on has completed,
\* in this incarnation of the run or in an earlier one.
THEOREM GuardedSteps == Spec => GuardedAfterDependencies
<1>1. IInv /\ [Next]_vars =>
        [\A s \in Steps \ Destructive : Starts(s) => Deps[s] \subseteq settled]_vars
  <2> SUFFICES ASSUME IInv, Next, NEW s \in Steps \ Destructive, Starts(s)
      PROVE  Deps[s] \subseteq settled
    BY DEF vars, Starts
  <2>1. s = cur /\ GateExecute
    BY WhoStarts DEF Confirmed, IInv, StepInv
  <2>2. \A d \in Deps[s] : status[d] = "completed" /\ pc = "scan" /\ d \in Steps
    BY <2>1 DEF GateExecute, DependenciesMet
  <2>3. QED
    BY <2>2 DEF IInv, KnownInv, Settled, Executing
<1>2. QED
  BY <1>1, SpecInv, PTL DEF Spec, GuardedAfterDependencies

\* A step that has completed is not started again before the second resume.
THEOREM NoRepetitionByOneResume == Spec => RedoneOnlyAfterTwoResumes
<1>1. IInv /\ [Next]_vars => [\A s \in settled : Starts(s) => resumes >= 2]_vars
  <2> SUFFICES ASSUME IInv, Next, NEW s \in settled, Starts(s)
      PROVE  resumes >= 2
    BY DEF vars, Starts
  <2>0. s \in Steps
    BY DEF IInv, TypeOK
  <2>1. s = cur /\ (GateExecute \/ Confirmed)
    BY <2>0, WhoStarts
  <2>2. pc \in {"scan", "confirm"} /\ status[s] # "completed"
    BY <2>1 DEF GateExecute, Confirmed, IInv, StepInv
  <2>3. resumes # 1
    BY <2>0, <2>2 DEF IInv, KnownInv, Settled, Alive, Awaiting
  <2>4. resumes # 0
    <3>1. record = "in_progress"
      BY <2>2 DEF IInv, TypeOK, LoopInv
    <3>2. resumes = 0 => cp[s] = "completed"
      BY <2>0, <3>1 DEF IInv, KnownInv
    <3>3. QED
      BY <2>0, <2>2, <3>2 DEF IInv, CheckpointInv
  <2>5. QED
    BY <2>3, <2>4 DEF IInv, TypeOK
<1>2. QED
  BY <1>1, SpecInv, PTL DEF Spec, RedoneOnlyAfterTwoResumes

\* When the loop settles the step in hand as failed or skipped and skips its
\* dependents, what waits for any of them is skipped too.
LEMMA SettledWithDependents ==
  ASSUME IInv, SkipInv, pc \in {"scan", "save"}, resumes = 0, cur \in Steps,
         status[cur] # "skipped", NEW v, NEW D,
         status' = Settle(cur, v, D), D = Dependents(cur) \/ (D = {} /\ v \notin {"failed", "skipped"}),
         NEW s \in Steps, NEW d \in Deps[s], status'[d] \in {"failed", "skipped"}
  PROVE  status'[s] = "skipped"
<1>1. d \in Steps /\ d < s /\ cur \in Nat /\ s \in Nat
  OBVIOUS
<1>2. \A x \in Steps : status'[x] = IF x = cur THEN v
                                   ELSE IF x \in D THEN "skipped" ELSE status[x]
  BY DEF Settle
<1>3. \A x \in D : status[x] = "pending" /\ x \in Steps /\ x > cur
  <2>1. \A x \in Dependents(cur) : x \in Steps \ {cur} /\ status[x] = "pending"
    BY DEF Dependents
  <2>2. \A x \in Steps : x < cur => status[x] # "pending"
    BY DEF IInv, LoopInv, Executing, Terminal
  <2>3. QED
    BY <2>1, <2>2
<1>4. CASE d = cur \/ d \in D
  <2>1. D = Dependents(cur)
    BY <1>2, <1>4
  <2>2. s > cur
    BY <1>1, <1>3, <1>4
  <2>3. status[s] \in {"pending", "skipped"}
    BY <2>2 DEF SkipInv, Executing
  <2>4. CASE status[s] = "pending"
    <3>1. s \in Dependents(cur)
      BY <1>4, <2>1, <2>2, <2>4, DependentsClosed
    <3>2. QED
      BY <1>2, <2>1, <2>2, <3>1
  <2>5. CASE status[s] = "skipped"
    BY <1>2, <2>2, <2>5
  <2>6. QED
    BY <2>3, <2>4, <2>5
<1>5. CASE d # cur /\ d \notin D
  <2>1. status[d] \in {"failed", "skipped"}
    BY <1>1, <1>2, <1>5
  <2>2. status[s] = "skipped"
    BY <1>5, <2>1 DEF SkipInv, Executing
  <2>3. s # cur
    BY <2>2
  <2>4. QED
    BY <1>2, <2>2, <2>3
<1>6. QED
  BY <1>4, <1>5

LEMMA SkipInit == Init => SkipInv
  BY DEF Init, SkipInv, Executing

LEMMA SkipNext == IInv /\ SkipInv /\ [Next]_vars => SkipInv'
<1> SUFFICES ASSUME IInv, SkipInv, [Next]_vars PROVE SkipInv'
  OBVIOUS
<1>1. CASE StepOver
  <2>1. /\ cur \in Steps /\ cur' = cur + 1 /\ pc = "scan" /\ status[cur] \in Terminal
        /\ UNCHANGED <<pc, status, resumes>>
    BY <1>1 DEF StepOver, IInv, TypeOK
  <2>2. QED
    BY <2>1 DEF SkipInv, Executing
<1>2. CASE GateConfirm \/ GateExecute \/ Confirmed
  <2>1. /\ cur \in Steps /\ pc \in {"scan", "confirm"} /\ pc' \in {"confirm", "tool"}
        /\ status[cur] \in {"pending", "awaiting"}
        /\ status' = [status EXCEPT ![cur] = status'[cur]]
        /\ status'[cur] \in {"awaiting", "running"}
        /\ UNCHANGED <<cur, resumes>>
    BY <1>2 DEF GateConfirm, GateExecute, Confirmed, BeginStep, IInv, TypeOK, StepInv
  <2>2. QED
    BY <2>1 DEF SkipInv, Executing, IInv, TypeOK
<1>3. CASE GateBlock \/ SaveStep
  <2>1. PICK v, D :
          /\ status' = Settle(cur, v, D)
          /\ D = Dependents(cur) \/ (D = {} /\ v \notin {"failed", "skipped"})
    <3>1. CASE GateBlock
      BY <3>1 DEF GateBlock
    <3>2. CASE SaveStep
      <4>1. status[cur] \in {"completed", "failed", "rolled_back"}
        BY <3>2 DEF SaveStep, IInv, StepInv
      <4>2. status' = Settle(cur, status[cur],
                             IF status[cur] = "failed" THEN Dependents(cur) ELSE {})
        BY <3>2 DEF SaveStep
      <4>3. QED
        BY <4>1, <4>2
    <3>3. QED
      BY <1>3, <3>1, <3>2
  <2>2. /\ cur \in Steps /\ pc \in {"scan", "save"} /\ resumes' = resumes
        /\ status[cur] # "skipped"
    BY <1>3 DEF GateBlock, SaveStep, IInv, TypeOK, StepInv, Executing
  <2>3. pc' \in {"scan", "record"} /\ (pc' = "scan" => cur' = cur + 1)
    BY <1>3 DEF GateBlock, SaveStep
  <2> SUFFICES ASSUME pc' = "scan", resumes = 0 PROVE SkipInv'
    BY <2>2, <2>3 DEF SkipInv, Executing
  <2>4. \A s \in Steps : \A d \in Deps[s] :
          status'[d] \in {"failed", "skipped"} => status'[s] = "skipped"
    BY <2>1, <2>2, SettledWithDependents
  <2>5. \A s \in Steps : s > cur => status'[s] \in {"pending", "skipped"}
    BY <2>1, <2>2 DEF SkipInv, Executing, Settle
  <2>6. QED
    BY <2>2, <2>3, <2>4, <2>5 DEF SkipInv
<1>4. CASE ToolSucceeds \/ ToolFails \/ Verify \/ Rollback
  <2>1. /\ cur \in Steps /\ pc \in {"tool", "verify", "undo"}
        /\ pc' \in Executing
        /\ status' = [status EXCEPT ![cur] = status'[cur]]
        /\ status'[cur] = "failed" => pc' = "save"
        /\ status'[cur] # "skipped"
        /\ status[cur] # "skipped"
        /\ UNCHANGED <<cur, resumes>>
    BY <1>4 DEF ToolSucceeds, ToolFails, Verify, Rollback, IInv, TypeOK, StepInv, Executing
  <2>2. \A x \in Steps \ {cur} : status'[x] = status[x]
    BY <2>1 DEF IInv, TypeOK
  <2> SUFFICES ASSUME resumes = 0 PROVE SkipInv'
    BY <2>1 DEF SkipInv
  <2>3. \A s \in Steps : s > cur => status'[s] \in {"pending", "skipped"}
    BY <2>1, <2>2 DEF SkipInv, Executing
  <2>4. ASSUME NEW s \in Steps, NEW d \in Deps[s], status'[d] \in {"failed", "skipped"},
               ~(d = cur /\ pc' = "save")
        PROVE  status'[s] = "skipped"
    <3>1. d \in Steps /\ d # cur /\ status[d] \in {"failed", "skipped"}
      BY <2>1, <2>2, <2>4
    <3>2. status[s] = "skipped"
      BY <2>1, <3>1 DEF SkipInv, Executing
    <3>3. QED
      BY <2>1, <2>2, <3>2
  <2>5. QED
    BY <2>1, <2>3, <2>4 DEF SkipInv, Executing
<1>5. CASE Declined \/ EndLoop \/ BuildTraceRaises \/ RecordRun \/ DeleteCheckpoints
  BY <1>5 DEF Declined, EndLoop, BuildTraceRaises, RecordRun, DeleteCheckpoints, SkipInv,
              Executing
<1>6. CASE Cancel \/ Crash \/ Resume
  BY <1>6 DEF Cancel, Crash, Resume, LoseContext, SkipInv, Executing, IInv, TypeOK
<1>7. CASE UNCHANGED vars
  BY <1>7 DEF vars, SkipInv, Executing
<1>8. QED
  BY <1>1, <1>2, <1>3, <1>4, <1>5, <1>6, <1>7 DEF Next, Proceed

\* Until the run is resumed, a destructive step, which the gate lets through
\* whatever its dependencies, is still only executed when each of them has
\* completed or was rolled back: the skipping of dependents sees to it.
THEOREM DestructiveSteps == Spec => DestructiveAfterDependencies
<1>1. IInv /\ SkipInv /\ [Next]_vars =>
        [\A s \in Destructive : Starts(s) /\ resumes = 0 =>
            \A d \in Deps[s] : status[d] \in {"completed", "rolled_back"}]_vars
  <2> SUFFICES ASSUME IInv, SkipInv, Next, NEW s \in Destructive, Starts(s), resumes = 0,
                      NEW d \in Deps[s]
      PROVE  status[d] \in {"completed", "rolled_back"}
    BY DEF vars, Starts
  <2>0. s \in Steps /\ d \in Steps /\ d < s
    OBVIOUS
  <2>1. s = cur /\ (GateExecute \/ Confirmed)
    BY <2>0, WhoStarts
  <2>2. pc = "confirm" /\ status[cur] = "awaiting"
    BY <2>1 DEF GateExecute, Confirmed, IInv, StepInv
  <2>3. status[d] \in Terminal
    BY <2>0, <2>1, <2>2 DEF IInv, LoopInv
  <2>4. status[d] \notin {"failed", "skipped"}
    BY <2>0, <2>1, <2>2 DEF SkipInv
  <2>5. QED
    BY <2>3, <2>4 DEF Terminal
<1>2. QED
  BY <1>1, SpecInv, SkipInit, SkipNext, PTL DEF Spec, DestructiveAfterDependencies

-----------------------------------------------------------------------------
(* The run implements DependencyOrder. *)

\* While the run is alive, a step is out of the coroutine's hands when its
\* checkpoint is final, and its status agrees with the checkpoint.
LEMMA OutcomeRestored ==
  ASSUME IInv, NEW s \in Steps
  PROVE  /\ Restored(s) \in {"pending", "completed", "failed", "skipped"}
         /\ Restored(s) = "completed" <=> cp[s] = "completed"
         /\ pc # "down" /\ Restored(s) # "pending" =>
               status[s] = Restored(s) /\ ~(s = cur /\ pc \in Executing)
  BY DEF IInv, CheckpointInv, Restored

\* A step that changes no outcome is a stuttering step of DependencyOrder.
LEMMA SameOutcome ==
  ASSUME \A s \in Steps : Outcome(s)' = Outcome(s)
  PROVE  UNCHANGED [s \in Steps |-> Outcome(s)]
  OBVIOUS

LEMMA OrderInit == Init => Order!Init
  BY DEF Init, Order!Init, Outcome, Executing

\* Every step of the run maps to a step of DependencyOrder or to a stutter.
LEMMA OrderNext == IInv /\ [Next]_vars => [Order!Next]_([s \in Steps |-> Outcome(s)])
<1> SUFFICES ASSUME IInv, [Next]_vars PROVE [Order!Next]_([s \in Steps |-> Outcome(s)])
  OBVIOUS
<1> DEFINE out == [s \in Steps |-> Outcome(s)]
<1>0. ASSUME NEW S \in SUBSET Steps,
             \A s \in S : Outcome(s) = "todo" /\ Outcome(s)' = "dead",
             \A s \in Steps \ S : Outcome(s)' = Outcome(s)
      PROVE  [Order!Next]_out
  <2>1. CASE S = {}
    BY <1>0, <2>1, SameOutcome
  <2>2. CASE S # {}
    <3>1. out' = [s \in Steps |-> IF s \in S THEN "dead" ELSE out[s]]
      BY <1>0
    <3>2. \A s \in S : out[s] = "todo"
      BY <1>0
    <3>3. QED
      BY <2>2, <3>1, <3>2 DEF Order!Next, Order!GiveUp
  <2>3. QED
    BY <2>1, <2>2
<1>1. ASSUME \A s \in Steps : Outcome(s)' = Outcome(s) \/ Outcome(s)' = "todo",
             \A s \in Steps \ Destructive : Outcome(s)' = "done" =>
                \A d \in Deps[s] : Outcome(d)' = "done"
      PROVE  [Order!Next]_out
  <2> DEFINE F == {s \in Steps : Outcome(s)' # Outcome(s)}
  <2>1. out' = [s \in Steps |-> IF s \in F THEN "todo" ELSE out[s]]
    BY <1>1
  <2>2. Order!Ordered(out')
    BY <1>1, ConstantsAssumption DEF Order!Ordered
  <2>3. Order!Recover
    BY <2>1, <2>2 DEF Order!Recover
  <2>4. QED
    BY <2>3 DEF Order!Next
<1>2. CASE StepOver \/ GateConfirm \/ GateExecute \/ Confirmed \/ EndLoop
  <2>1. \A s \in Steps : Outcome(s)' = Outcome(s)
    BY <1>2 DEF StepOver, GateConfirm, GateExecute, Confirmed, EndLoop, BeginStep, Outcome,
       Executing, Terminal, IInv, TypeOK, StepInv
  <2>2. QED
    BY <2>1, SameOutcome
<1>3. CASE ToolSucceeds \/ ToolFails \/ Verify \/ Rollback
  <2>1. \A s \in Steps : Outcome(s)' = Outcome(s)
    BY <1>3 DEF ToolSucceeds, ToolFails, Verify, Rollback, Outcome, Executing, IInv, TypeOK,
       StepInv
  <2>2. QED
    BY <2>1, SameOutcome
<1>4. CASE BuildTraceRaises \/ RecordRun \/ DeleteCheckpoints \/ UNCHANGED vars
  <2>1. \A s \in Steps : Outcome(s)' = Outcome(s)
    BY <1>4 DEF BuildTraceRaises, RecordRun, DeleteCheckpoints, vars, Outcome, Executing, Restored
  <2>2. QED
    BY <2>1, SameOutcome
<1>5. CASE GateBlock
  <2>1. /\ cur \in Steps /\ status[cur] = "pending" /\ pc = "scan" /\ pc' = "scan"
        /\ status' = Settle(cur, "skipped", Dependents(cur))
    BY <1>5 DEF GateBlock, IInv, TypeOK
  <2>2. /\ status'[cur] = "skipped"
        /\ \A x \in Steps \ {cur} :
               \/ status'[x] = status[x]
               \/ status[x] = "pending" /\ status'[x] = "skipped"
    BY <2>1, SettleEffect
  <2> DEFINE S == {x \in Steps : status'[x] # status[x]}
  <2>3. \A s \in S : Outcome(s) = "todo" /\ Outcome(s)' = "dead"
    BY <2>1, <2>2 DEF Outcome, Executing
  <2>4. \A s \in Steps \ S : Outcome(s)' = Outcome(s)
    BY <2>1, <2>2 DEF Outcome, Executing
  <2>5. QED
    BY <1>0, <2>3, <2>4
<1>6. CASE Declined
  <2>1. PICK c \in Steps : c = cur
    BY <1>6 DEF Declined, IInv, StepInv, Executing
  <2>2. Outcome(c) = "todo" /\ Outcome(c)' = "dead"
    BY <1>6, <2>1 DEF Declined, Outcome, Executing, IInv, TypeOK, StepInv
  <2>3. \A s \in Steps \ {c} : Outcome(s)' = Outcome(s)
    BY <1>6, <2>1 DEF Declined, Outcome, Executing
  <2> DEFINE S == {c}
  <2>4. /\ S \in SUBSET Steps
        /\ \A s \in S : Outcome(s) = "todo" /\ Outcome(s)' = "dead"
        /\ \A s \in Steps \ S : Outcome(s)' = Outcome(s)
    BY <2>2, <2>3
  <2> HIDE DEF S
  <2>5. QED
    BY <1>0, <2>4
<1>7. CASE SaveStep
  <2> DEFINE D == IF status[cur] = "failed" THEN Dependents(cur) ELSE {}
  <2>1. /\ cur \in Steps /\ pc = "save" /\ pc' \in {"scan", "record"}
        /\ status[cur] \in {"completed", "failed", "rolled_back"}
        /\ status' = Settle(cur, status[cur], D) /\ D \in SUBSET Dependents(cur)
    BY <1>7 DEF SaveStep, IInv, StepInv, Executing
  <2>2. D # {} => status[cur] = "failed"
    OBVIOUS
  <2> HIDE DEF D
  <2>3. /\ status'[cur] = status[cur]
        /\ \A x \in Steps \ {cur} :
               \/ status'[x] = status[x]
               \/ status[x] = "pending" /\ status'[x] = "skipped"
    BY <2>1, SettleEffect
  <2>4. PICK c \in Steps : c = cur
    BY <2>1
  <2>5. CASE status[cur] = "completed"
    <3>1. \A x \in Steps \ {c} : status'[x] = status[x]
      BY <2>1, <2>2, <2>4, <2>5 DEF Settle
    <3>2. Outcome(c) = "todo" /\ Outcome(c)' = "done"
      BY <2>1, <2>3, <2>4, <2>5 DEF Outcome, Executing
    <3>3. \A s \in Steps \ {c} : Outcome(s)' = Outcome(s)
      BY <2>1, <2>4, <3>1 DEF Outcome, Executing
    <3>4. c \in Steps \ Destructive => \A d \in Deps[c] : Outcome(d) = "done"
      BY <2>1, <2>4 DEF IInv, OrderInv, DependenciesMet, Outcome, Executing
    <3>5. Order!Finish(c)
      <4>1. out' = [out EXCEPT ![c] = "done"]
        BY <3>2, <3>3
      <4>2. c \in Steps \ Destructive => \A d \in Deps[c] : out[d] = "done"
        BY <3>4
      <4>3. QED
        BY <3>2, <4>1, <4>2 DEF Order!Finish
    <3>6. QED
      BY <3>5 DEF Order!Next
  <2>6. CASE status[cur] # "completed"
    <3> DEFINE S == {x \in Steps : x = c \/ status'[x] # status[x]}
    <3>1. \A s \in S : Outcome(s) = "todo" /\ Outcome(s)' = "dead"
      BY <2>1, <2>3, <2>4, <2>6 DEF Outcome, Executing
    <3>2. \A s \in Steps \ S : Outcome(s)' = Outcome(s)
      BY <2>1, <2>4 DEF Outcome, Executing
    <3>3. QED
      BY <1>0, <3>1, <3>2
  <2>7. QED
    BY <2>5, <2>6
<1>8. CASE Cancel \/ Crash \/ (Resume /\ pc = "raised")
  <2>1. /\ cp' = cp
        /\ \/ pc' = "down"
           \/ pc' = "scan" /\ pc = "raised" /\ status' = [s \in Steps |-> Restored(s)]
    BY <1>8 DEF Cancel, Crash, Resume, LoseContext, durable
  <2>2. \A s \in Steps : Restored(s)' = Restored(s)
    BY <2>1 DEF Restored
  <2>3. \A s \in Steps :
          Outcome(s)' = IF Restored(s) = "completed" THEN "done"
                        ELSE IF Restored(s) \in {"failed", "skipped"} THEN "dead" ELSE "todo"
    BY <2>1, <2>2, OutcomeRestored DEF Outcome, Executing
  <2>4. \A s \in Steps : Outcome(s)' = Outcome(s) \/ Outcome(s)' = "todo"
    <3>1. CASE pc = "down"
      BY <2>3, <3>1, OutcomeRestored DEF Outcome, Executing
    <3>2. CASE pc # "down"
      BY <2>3, <3>2, OutcomeRestored DEF Outcome
    <3>3. QED
      BY <3>1, <3>2
  <2>5. \A s \in Steps \ Destructive : Outcome(s)' = "done" =>
          \A d \in Deps[s] : Outcome(d)' = "done"
    BY <2>3, OutcomeRestored DEF IInv, OrderInv
  <2>6. QED
    BY <1>1, <2>4, <2>5
<1>9. CASE Resume /\ pc = "down"
  <2>1. \A s \in Steps : Outcome(s)' = Outcome(s)
    BY <1>9, OutcomeRestored DEF Resume, Outcome, Executing
  <2>2. QED
    BY <2>1, SameOutcome
<1>10. QED
  BY <1>2, <1>3, <1>4, <1>5, <1>6, <1>7, <1>8, <1>9 DEF Next, Proceed, Resume

\* Every behaviour of the run, with its crashes and resumptions, is a behaviour
\* of DependencyOrder.
THEOREM RunKeepsOrder == Spec => KeepsOrder
  BY SpecInv, OrderInit, OrderNext, PTL DEF Spec, KeepsOrder, Order!Spec

-----------------------------------------------------------------------------
(* How long an incarnation can last: what RunEnds needs beside fairness. *)

\* The most steps an incarnation can still take: for each step of the plan the gate,
\* the operator, max_retries + 1 calls, verification, rollback and saving, and three
\* to end the loop and the record.
PerStep == MaxRetries + 6
StepsLeft ==
    LET later == 3 + (N - cur) * PerStep IN
    CASE pc = "scan"    -> later + PerStep
      [] pc = "confirm" -> later + MaxRetries + 5
      [] pc = "tool"    -> later + MaxRetries - attempt + 4
      [] pc = "verify"  -> later + 3
      [] pc = "undo"    -> later + 2
      [] pc = "save"    -> later + 1
      [] pc = "record"  -> 2
      [] pc = "clean"   -> 1
      [] OTHER          -> 0

\* An incarnation is over after N * (max_retries + 6) + 3 steps at most, whatever is
\* answered and whatever statuses it was resumed with: no attempt, verification or
\* skipped step brings the loop back to where it was (executor.py:132-260).
StepsBounded == [][Proceed => StepsLeft' \in 0..StepsLeft - 1]_vars

\* What the steps behind the one in hand can still take.
Later(c) == 3 + (N - c) * PerStep

LEMMA LaterShrinks ==
    ASSUME NEW c \in 1..(N + 1)
    PROVE  /\ PerStep \in Nat /\ PerStep = MaxRetries + 6
           /\ Later(c) \in Int /\ Later(c) + PerStep >= 3
           /\ c \in Steps => Later(c) >= 3
           /\ Later(c + 1) + PerStep = Later(c)
<1>1. PerStep \in Nat /\ PerStep = MaxRetries + 6
  BY DEF PerStep
<1>2. \A n \in Nat, k \in Nat : n * k \in Nat
  OBVIOUS
<1>3. (N - c) * PerStep = (N - (c + 1)) * PerStep + PerStep
  BY <1>1
<1>4. (N - c) * PerStep + PerStep = (N + 1 - c) * PerStep
  BY <1>1
<1>5. (N + 1 - c) * PerStep \in Nat
  BY <1>1, <1>2
<1>6. c \in Steps => (N - c) * PerStep \in Nat
  BY <1>1, <1>2
<1>7. (N - c) * PerStep \in Int /\ (N - (c + 1)) * PerStep \in Int
  BY <1>1
<1> QED BY <1>1, <1>3, <1>4, <1>5, <1>6, <1>7 DEF Later

\* The steps left, place by place.
LeftAt ==
    /\ pc = "scan"    => StepsLeft = Later(cur) + PerStep
    /\ pc = "confirm" => StepsLeft = Later(cur) + MaxRetries + 5
    /\ pc = "tool"    => StepsLeft = Later(cur) + MaxRetries - attempt + 4
    /\ pc = "verify"  => StepsLeft = Later(cur) + 3
    /\ pc = "undo"    => StepsLeft = Later(cur) + 2
    /\ pc = "save"    => StepsLeft = Later(cur) + 1
    /\ pc = "record"  => StepsLeft = 2
    /\ pc = "clean"   => StepsLeft = 1
    /\ pc \notin Alive => StepsLeft = 0

LEMMA StepsLeftAt == LeftAt /\ LeftAt'
  BY DEF LeftAt, StepsLeft, Later, Alive, Awaiting

LEMMA OneLess ==
    ASSUME NEW l \in Int, l >= 3, NEW m \in Nat, NEW a \in 0..m
    PROVE  /\ l + m - a + 4 \in 0..(l + m + 5) - 1
           /\ {l + 1, l + 3} \subseteq 0..(l + m - a + 4) - 1
           /\ a + 1 <= m => l + m - (a + 1) + 4 \in 0..(l + m - a + 4) - 1
  OBVIOUS

\* Each step of the run uses up one of them.
LEMMA ProceedShrinks ==
    ASSUME IInv, Proceed
    PROVE  StepsLeft' \in 0..StepsLeft - 1
<1>1. /\ cur \in 1..(N + 1) /\ attempt \in 0..MaxRetries
      /\ pc \in Executing \cup {"confirm"} => cur \in Steps
  BY DEF IInv, TypeOK, StepInv
<1>2. /\ PerStep \in Nat /\ PerStep = MaxRetries + 6
      /\ Later(cur) \in Int /\ Later(cur) + PerStep >= 3
      /\ cur \in Steps => Later(cur) >= 3
      /\ Later(cur + 1) + PerStep = Later(cur) /\ Later(cur + 1) \in Int
  <2>1. Later(cur + 1) \in Int
    BY <1>1 DEF Later, PerStep
  <2> QED BY <1>1, <2>1, LaterShrinks
<1>3. cur \in Steps => Later(cur + 1) + PerStep >= 3
  BY <1>2
<1>4. LeftAt /\ LeftAt'
  BY StepsLeftAt
<1> HIDE DEF Later
<1>5. ASSUME pc = "scan", pc' = "scan", cur \in Steps, cur' = cur + 1
      PROVE  StepsLeft' \in 0..StepsLeft - 1
  <2>1. StepsLeft = Later(cur) + PerStep /\ StepsLeft' = Later(cur + 1) + PerStep
    BY <1>4, <1>5 DEF LeftAt
  <2> QED BY <1>2, <1>3, <1>5, <2>1
<1>6. CASE StepOver \/ GateBlock
  BY <1>1, <1>5, <1>6 DEF StepOver, GateBlock
<1>7. CASE GateConfirm
  <2>1. StepsLeft = Later(cur) + PerStep /\ StepsLeft' = Later(cur) + MaxRetries + 5 /\ cur \in Steps
    BY <1>1, <1>4, <1>7 DEF GateConfirm, LeftAt
  <2> QED BY <1>2, <2>1
<1>8. CASE GateExecute
  <2>1. StepsLeft = Later(cur) + PerStep /\ StepsLeft' = Later(cur) + MaxRetries + 4 /\ cur \in Steps
    BY <1>1, <1>2, <1>4, <1>8 DEF GateExecute, BeginStep, LeftAt
  <2> QED BY <1>2, <2>1
<1>9. CASE Confirmed
  <2>1. pc = "confirm" /\ pc' = "tool" /\ cur' = cur /\ attempt' = 0 /\ cur \in Steps
    BY <1>1, <1>9 DEF Confirmed, BeginStep
  <2>2. StepsLeft = Later(cur) + MaxRetries + 5
    BY <1>4, <2>1 DEF LeftAt
  <2>3. StepsLeft' = Later(cur) + MaxRetries - 0 + 4
    BY <1>4, <2>1 DEF LeftAt
  <2>4. Later(cur) + MaxRetries - 0 + 4 \in 0..(Later(cur) + MaxRetries + 5) - 1
    BY <1>2, <2>1, OneLess
  <2> QED BY <2>2, <2>3, <2>4
<1>10. CASE Declined
  <2>1. StepsLeft = Later(cur) + MaxRetries + 5 /\ StepsLeft' = 2 /\ cur \in Steps
    BY <1>1, <1>4, <1>10 DEF Declined, LeftAt
  <2> QED BY <1>2, <2>1
<1>11. CASE ToolSucceeds
  <2>1. StepsLeft = Later(cur) + MaxRetries - attempt + 4 /\ cur \in Steps
        /\ StepsLeft' \in {Later(cur) + 1, Later(cur) + 3}
    BY <1>1, <1>4, <1>11 DEF ToolSucceeds, LeftAt, Executing
  <2>2. {Later(cur) + 1, Later(cur) + 3} \subseteq 0..(Later(cur) + MaxRetries - attempt + 4) - 1
    BY <1>1, <1>2, <2>1, OneLess
  <2> QED BY <2>1, <2>2
<1>12. CASE ToolFails
  <2>1. StepsLeft = Later(cur) + MaxRetries - attempt + 4 /\ cur \in Steps
    BY <1>1, <1>4, <1>12 DEF ToolFails, LeftAt, Executing
  <2>2. CASE pc' = "save"
    <3>1. StepsLeft' = Later(cur) + 1
      BY <1>4, <1>12, <2>2 DEF ToolFails, LeftAt
    <3>2. Later(cur) + 1 \in 0..(Later(cur) + MaxRetries - attempt + 4) - 1
      BY <1>1, <1>2, <2>1, OneLess
    <3> QED BY <2>1, <3>1, <3>2
  <2>3. CASE pc' = "tool" /\ attempt # MaxRetries /\ attempt' = attempt + 1
    <3>1. StepsLeft' = Later(cur) + MaxRetries - (attempt + 1) + 4
      BY <1>4, <1>12, <2>3 DEF ToolFails, LeftAt
    <3>2. attempt + 1 <= MaxRetries
      BY <1>1, <2>3
    <3>3. Later(cur) + MaxRetries - (attempt + 1) + 4 \in 0..(Later(cur) + MaxRetries - attempt + 4) - 1
      BY <1>1, <1>2, <2>1, <3>2, OneLess
    <3> QED BY <2>1, <3>1, <3>3
  <2> QED BY <1>12, <2>2, <2>3 DEF ToolFails
<1>13. CASE Verify
  <2>1. StepsLeft = Later(cur) + 3 /\ cur \in Steps
        /\ StepsLeft' \in {Later(cur) + 2, Later(cur) + 1}
    BY <1>1, <1>4, <1>13 DEF Verify, LeftAt, Executing
  <2> QED BY <1>2, <2>1
<1>14. CASE Rollback
  <2>1. StepsLeft = Later(cur) + 2 /\ StepsLeft' = Later(cur) + 1 /\ cur \in Steps
    BY <1>1, <1>4, <1>14 DEF Rollback, LeftAt, Executing
  <2> QED BY <1>2, <2>1
<1>15. CASE SaveStep
  <2>1. StepsLeft = Later(cur) + 1 /\ cur \in Steps
        /\ StepsLeft' \in {2, Later(cur + 1) + PerStep}
    BY <1>1, <1>4, <1>15 DEF SaveStep, LeftAt, Executing
  <2> QED BY <1>2, <1>3, <2>1
<1>16. CASE EndLoop
  <2>1. StepsLeft = Later(cur) + PerStep /\ StepsLeft' = 2
    BY <1>4, <1>16 DEF EndLoop, LeftAt
  <2> QED BY <1>2, <2>1
<1>17. CASE BuildTraceRaises \/ RecordRun \/ DeleteCheckpoints
  BY <1>4, <1>17 DEF BuildTraceRaises, RecordRun, DeleteCheckpoints, LeftAt, Alive, Awaiting
<1> QED BY <1>6, <1>7, <1>8, <1>9, <1>10, <1>11, <1>12, <1>13, <1>14, <1>15, <1>16, <1>17
        DEF Proceed

\* However a step's calls, verifications and rollbacks are answered, and whatever
\* a run was resumed with, its incarnation ends within the bound.
THEOREM IncarnationsBounded == Spec => StepsBounded
<1>1. IInv /\ [Next]_vars => [Proceed => StepsLeft' \in 0..StepsLeft - 1]_vars
  BY ProceedShrinks
<1> QED BY <1>1, SpecInv, PTL DEF Spec, StepsBounded

\* The bound at the start of an incarnation, and at every place of it.
THEOREM BoundOfAnIncarnation == Spec => [](StepsLeft \in 0..N * PerStep + 3)
<1>1. ASSUME IInv PROVE StepsLeft \in 0..N * PerStep + 3
  <2>1. /\ cur \in 1..(N + 1) /\ attempt \in 0..MaxRetries
        /\ pc \in Executing \cup {"confirm"} => cur \in Steps
        /\ pc \in Executing \cup {"confirm", "scan", "record", "clean"} \/ pc \notin Alive
    BY <1>1 DEF IInv, TypeOK, StepInv, Alive, Awaiting, Executing
  <2>2. /\ PerStep \in Nat /\ PerStep = MaxRetries + 6
        /\ Later(cur) \in Int /\ Later(cur) + PerStep >= 3
        /\ cur \in Steps => Later(cur) >= 3
    BY <2>1, LaterShrinks
  <2>3. Later(cur) + PerStep <= N * PerStep + 3 /\ N * PerStep \in Nat
    <3>1. \A n \in Nat, k \in Nat : n * k \in Nat
      OBVIOUS
    <3>2. (cur - 1) * PerStep \in Nat /\ N * PerStep \in Nat
      BY <2>1, <2>2, <3>1
    <3>3. (N - cur) * PerStep + PerStep + (cur - 1) * PerStep = N * PerStep
      BY <2>1, <2>2
    <3>4. (N - cur) * PerStep \in Int
      BY <2>1, <2>2
    <3> QED BY <2>2, <3>2, <3>3, <3>4 DEF Later
  <2>4. \/ StepsLeft \in 0..2
        \/ StepsLeft = Later(cur) + PerStep
        \/ /\ cur \in Steps
           /\ \E left \in 1..MaxRetries + 5 : StepsLeft = Later(cur) + left
    <3>1. LeftAt
      BY StepsLeftAt
    <3>2. CASE pc = "tool"
      <4>1. MaxRetries - attempt + 4 \in 1..MaxRetries + 5
        BY <2>1
      <4>2. StepsLeft = Later(cur) + (MaxRetries - attempt + 4)
        BY <2>1, <2>2, <3>1, <3>2 DEF LeftAt
      <4> QED BY <2>1, <3>2, <4>1, <4>2 DEF Executing
    <3>3. CASE pc = "confirm"
      <4>1. StepsLeft = Later(cur) + (MaxRetries + 5)
        BY <2>1, <2>2, <3>1, <3>3 DEF LeftAt
      <4> QED BY <2>1, <3>3, <4>1
    <3>4. CASE pc \in {"verify", "undo", "save"}
      BY <2>1, <3>1, <3>4 DEF LeftAt, Executing
    <3>5. CASE pc = "scan" \/ pc \in {"record", "clean"} \/ pc \notin Alive
      BY <3>1, <3>5 DEF LeftAt
    <3> QED BY <2>1, <3>2, <3>3, <3>4, <3>5 DEF Executing
  <2> HIDE DEF Later
  <2> QED BY <2>2, <2>3, <2>4
<1> QED BY <1>1, SpecInv, PTL
=============================================================================
