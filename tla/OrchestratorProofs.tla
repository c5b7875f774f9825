-------------------------- MODULE OrchestratorProofs --------------------------
(* Proofs about Orchestrator, for all plans whose steps can be ordered, any     *)
(* shows and any rights.  Of the order of the steps only OrderAssumption is     *)
(* used, not the folds that compute it.                                         *)
EXTENDS Orchestrator, TLAPS, FiniteSetTheorems, WellFoundedInduction

\* What is known of the step in hand at each place.
HandInv ==
    /\ pc = "guard" => mode = "sequential" /\ at \in Steps /\ Ready(at) /\ result[at] = "none"
    /\ pc = "tool" => \A s \in flight : result[s] = "none"
    /\ pc = "tool" /\ mode # "parallel" => at \in Steps /\ flight = {at}

\* Steps that the run has passed have a result; a step of a batch run is never
\* skipped, and only the bridge undoes one.
PassedInv ==
    /\ mode # "parallel" => \A s \in Steps : s < at => result[s] # "none"
    /\ mode = "parallel" => \A s \in Steps : result[s] \in {"none", "ok", "failed"}
    /\ mode = "sequential" => \A s \in Steps : result[s] # "undone"

\* Steps from the place of the run on have none, unless the bridge has skipped them.
AheadInv ==
    mode = "sequential" => \A s \in Steps : s >= at => result[s] = "none"

\* The bridge: no remaining step depends on one that has failed or been skipped.
SettledInv ==
    mode = "bridge" => \A s \in Remaining, t \in Steps :
        plan[t].name \in plan[s].deps => result[t] \notin {"failed", "skipped"}

\* A run that is being reported has results for all its steps, or a failure.
ReportInv ==
    pc \in {"report", "done"} =>
        \/ \A s \in Steps : result[s] # "none"
        \/ \E s \in Steps : result[s] = "failed"

OutcomeInv == outcome # "none" => pc = "done"

\* Once a guard has seen another show, the run is over.
ChangedInv == changed => pc \in {"report", "done", "cancelled"}

\* The console was read only if there is a way to it.
WiredInv ==
    ~wired => baseline = Unknown /\ pc \notin {"hydrate", "pools"}

\* A destructive step whose tool is out works on the show its guard has seen.
ShowInv ==
    /\ mode = "sequential" /\ pc = "tool" /\ Destructive(at) /\ baseline # Unknown
    => show = baseline \/ raced \/ unchecked

IInv ==
    /\ TypeOK /\ HandInv /\ PassedInv /\ AheadInv /\ SettledInv /\ ReportInv
    /\ OutcomeInv /\ ChangedInv /\ WiredInv /\ ShowInv
    /\ SuccessIsWhole /\ SkippedOnlyAfterFailure

-----------------------------------------------------------------------------
(* Plans and the steps that remain. *)

LEMMA PlanFacts ==
    ASSUME TypeOK
    PROVE  /\ Len(plan) \in Nat /\ Steps = 1..Len(plan)
           /\ \A s \in Steps : plan[s].deps \subseteq {plan[t].name : t \in 1..s - 1}
           /\ \A s \in Steps : 1..s - 1 \subseteq Steps
<1>1. PICK p \in Plans : plan = OrderedSteps(p)
  BY DEF TypeOK
<1> DEFINE S == [name : Names(p), risk : {"read", "write", "destructive"},
                 tool : STRING \cup {NoTool}, deps : SUBSET Names(p), retryable : BOOLEAN]
<1>2. plan \in Seq(S)
  BY <1>1, PlansAssumption DEF PlansAssumption
<1>3. \A i \in DOMAIN plan : plan[i].deps \subseteq {plan[j].name : j \in 1..i - 1}
  <2> DEFINE Q(q) == \A i \in DOMAIN q : q[i].deps \subseteq {q[j].name : j \in 1..i - 1}
  <2>1. Q(OrderedSteps(p))
    BY OrderAssumption
  <2>2. Q(plan)
    <3> HIDE DEF Q
    <3> QED
      BY <1>1, <2>1
  <2>3. QED
    BY <2>2
<1>4. Len(plan) \in Nat /\ DOMAIN plan = 1..Len(plan)
  <2> HIDE DEF S
  <2>1. QED
    BY <1>2
<1>5. QED
  BY <1>3, <1>4 DEF Steps

\* A step that is not ready depends on an earlier one that has not completed.
LEMMA NotReady ==
    ASSUME TypeOK, NEW s \in Steps, ~Ready(s)
    PROVE  \E t \in Steps : t < s /\ plan[t].name \in plan[s].deps /\ result[t] # "ok"
<1>1. PICK n \in plan[s].deps : n \notin Completed
  BY DEF Ready
<1>2. s \in 1..Len(plan) /\ 1..s - 1 \subseteq Steps
  BY PlanFacts
<1>3. PICK t \in 1..s - 1 : plan[t].name = n
  BY <1>1, PlanFacts
<1>4. t \in Steps /\ t < s
  BY <1>2, <1>3
<1>5. result[t] # "ok"
  BY <1>1, <1>3, <1>4 DEF Completed
<1>6. QED
  BY <1>1, <1>3, <1>4, <1>5

\* There is a first remaining step.
LEMMA FirstRemains ==
    ASSUME TypeOK, Remaining # {}
    PROVE  \E s \in Remaining : \A t \in Remaining : s <= t
<1>1. Remaining \subseteq Nat
  BY PlanFacts DEF Remaining
<1>2. PICK s \in Remaining : \A t \in Remaining : <<t, s>> \notin OpToRel(<, Nat)
  BY <1>1, WFMin, NatLessThanWellFounded, Zenon
<1>3. s \in Remaining /\ \A t \in Remaining : <<t, s>> \in Nat \X Nat
  BY <1>1, <1>2
<1>4. \A t \in Remaining : ~(t < s)
  BY <1>2, <1>3 DEF OpToRel
<1>5. QED
  BY <1>1, <1>3, <1>4

\* Closedness keeps what waits for a settled step among the settled ones.
LEMMA DependentsClosed ==
    ASSUME NEW s \in Steps
    PROVE  /\ Dependents(s) \subseteq Remaining \ {s}
           /\ \A t \in Remaining \ {s}, u \in Dependents(s) \cup {s} :
                 plan[u].name \in plan[t].deps => t \in Dependents(s)
<1>1. Dependents(s) \subseteq Remaining \ {s}
  BY DEF Dependents
<1>2. ASSUME NEW t \in Remaining \ {s}, NEW u \in Dependents(s) \cup {s},
             plan[u].name \in plan[t].deps, NEW C \in SUBSET Steps, s \in C, Closed(C)
      PROVE  t \in C
  <2>1. u \in C
    BY <1>2 DEF Dependents
  <2>2. QED
    BY <1>2, <2>1 DEF Closed
<1>3. QED
  BY <1>1, <1>2 DEF Dependents

-----------------------------------------------------------------------------
(* What a step of the run does. *)

\* A step of the run changes neither its plan, nor a result there is.
LEMMA Frame ==
    ASSUME IInv, [Next]_vars
    PROVE  /\ plan' = plan /\ mode' = mode /\ wired' = wired /\ confirmed' = confirmed
           /\ \A s \in Steps : result[s] # "none" => result'[s] = result[s]
<1>1. plan' = plan /\ mode' = mode /\ wired' = wired /\ confirmed' = confirmed
  BY DEF Next, Proceed, vars, setup, ReadVars, ReadPools, Skip, Take, GuardPasses, GuardBlocks,
         GuardReadsNothing, AnswerStep, Gather, AnswerBatch, BridgeOver, BridgeStep,
         BridgeAnswer, EndPlan, Report, Cancel, LoadShow, Age
<1> USE DEF IInv, TypeOK
<1>2. ASSUME NEW s \in Steps, result[s] # "none" PROVE result'[s] = result[s]
  <2> USE <1>2
  <2>1. CASE ReadVars \/ ReadPools \/ BridgeStep \/ EndPlan \/ Report \/ Cancel \/ LoadShow \/ Age
    BY <2>1 DEF ReadVars, ReadPools, BridgeStep, EndPlan, Report, Cancel, LoadShow, Age
  <2>2. CASE Skip
    BY <2>2 DEF Skip, AheadInv
  <2>3. CASE Take
    BY <2>3 DEF Take, Launch, AheadInv
  <2>4. CASE GuardPasses
    BY <2>4 DEF GuardPasses, Launch, HandInv
  <2>5. CASE GuardBlocks
    BY <2>5 DEF GuardBlocks, HandInv
  <2>6. CASE GuardReadsNothing
    BY <2>6 DEF GuardReadsNothing, HandInv
  <2>7. CASE AnswerStep
    BY <2>7 DEF AnswerStep, HandInv
  <2>8. CASE Gather
    <3>1. s \notin Batch
      BY <2>8, FirstRemains DEF Gather, Batch, Remaining
    <3>2. QED
      BY <2>8, <3>1 DEF Gather
  <2>9. ASSUME NEW t \in Steps, AnswerBatch(t) PROVE result'[s] = result[s]
    BY <2>9 DEF AnswerBatch, HandInv
  <2>10. CASE BridgeOver
    BY <2>10, DependentsClosed DEF BridgeOver, Settle, Remaining
  <2>11. CASE BridgeAnswer
    BY <2>11, DependentsClosed DEF BridgeAnswer, Settle, Remaining, HandInv
  <2>12. CASE UNCHANGED vars
    BY <2>12 DEF vars
  <2>13. QED
    BY <2>1, <2>2, <2>3, <2>4, <2>5, <2>6, <2>7, <2>8, <2>9, <2>10, <2>11, <2>12
       DEF Next, Proceed
<1>3. QED
  BY <1>1, <1>2

LEMMA TypeStep ==
    ASSUME IInv, [Next]_vars
    PROVE  TypeOK'
<1> USE DEF TypeOK
<1>1. Steps = 1..Len(plan) /\ Len(plan) \in Nat /\ TypeOK /\ HandInv
  BY PlanFacts DEF IInv
<1>2. plan' = plan /\ Steps' = Steps
  BY Frame DEF Steps
<1>3. \A s \in Steps : After(s) \in {"next", "report"}
  BY DEF After
<1> USE <1>1, <1>2, <1>3
<1>4. CASE ReadVars
  BY <1>4 DEF ReadVars, setup, ghosts
<1>5. CASE ReadPools
  BY <1>5 DEF ReadPools, setup, ghosts
<1>6. CASE Skip
  BY <1>6 DEF Skip, setup, ghosts, memory
<1>7. ASSUME NEW s \in Steps, Launch(s), s = at
      PROVE  /\ at' \in 1..Len(plan) + 1 /\ flight' \subseteq Steps
             /\ pc' \in {"next", "report", "tool"}
             /\ flight = {} => (flight' # {} <=> pc' = "tool")
             /\ result' \in [Steps -> {"none", "ok", "failed", "skipped", "undone"}]
  <2>1. CASE Callable(s)
    BY <1>7, <2>1 DEF Launch
  <2>2. CASE ~Callable(s)
    <3>1. pc' = After(s) /\ result' = [result EXCEPT ![s] = "failed"] /\ at' = at + 1
          /\ flight' = flight
      BY <1>7, <2>2 DEF Launch
    <3>2. at' \in 1..Len(plan) + 1
      BY <1>7, <3>1
    <3>3. QED
      BY <3>1, <3>2
  <2>3. QED
    BY <2>1, <2>2
<1>8. CASE Take
  <2>1. CASE Guarded(at)
    BY <1>8, <2>1 DEF Take, setup, memory
  <2>2. CASE ~Guarded(at)
    BY <1>7, <1>8, <2>2 DEF Take, setup, memory
  <2>3. QED
    BY <2>1, <2>2
<1>9. CASE GuardPasses
  <2>1. Launch(at) /\ at \in Steps /\ flight = {}
    BY <1>9 DEF GuardPasses, HandInv
  <2>2. /\ at' \in 1..Len(plan) + 1 /\ flight' \subseteq Steps
        /\ pc' \in {"next", "report", "tool"} /\ (flight' # {} <=> pc' = "tool")
        /\ result' \in [Steps -> {"none", "ok", "failed", "skipped", "undone"}]
    BY <1>7, <2>1
  <2>3. unchecked' \in BOOLEAN /\ raced' = FALSE
        /\ UNCHANGED <<plan, mode, confirmed, wired, snapshot, baseline, right, outcome,
                         show, changed>>
    BY <1>9 DEF GuardPasses, setup, memory
  <2>4. /\ plan' \in {OrderedSteps(p) : p \in Plans}
        /\ baseline' \in Shows \cup {Unknown} /\ right' \in UserRights \cup {0}
    BY <2>3
  <2>5. /\ at' \in 1..Len(plan') + 1 /\ flight' \subseteq Steps'
        /\ result' \in [Steps' -> {"none", "ok", "failed", "skipped", "undone"}]
    BY <2>2, <2>3
  <2> HIDE <1>1, <1>2
  <2>6. QED
    BY <1>1, <2>2, <2>3, <2>4, <2>5
<1>10. CASE GuardBlocks
  <2>1. at \in Steps /\ at' = at + 1 /\ result' = [result EXCEPT ![at] = "failed"]
    BY <1>10 DEF GuardBlocks, HandInv
  <2>2. result' \in [Steps -> {"none", "ok", "failed", "skipped", "undone"}]
        /\ at' \in 1..Len(plan) + 1
    BY <2>1
  <2>3. QED
    BY <1>10, <2>2 DEF GuardBlocks, setup
<1>11. CASE GuardReadsNothing
  <2>1. at \in Steps /\ at' = at + 1 /\ result' = [result EXCEPT ![at] = "failed"]
    BY <1>11 DEF GuardReadsNothing, HandInv
  <2>2. result' \in [Steps -> {"none", "ok", "failed", "skipped", "undone"}]
        /\ at' \in 1..Len(plan) + 1
    BY <2>1
  <2>3. QED
    BY <1>11, <2>2 DEF GuardReadsNothing, setup, ghosts
<1>12. CASE AnswerStep
  <2>1. at \in Steps /\ at' = at + 1 /\ flight' = {} /\ pc' \in {"next", "report"}
    BY <1>12 DEF AnswerStep, HandInv
  <2>2. result' \in [Steps -> {"none", "ok", "failed", "skipped", "undone"}]
    BY <1>12, <2>1 DEF AnswerStep
  <2>3. at' \in 1..Len(plan) + 1
    BY <2>1
  <2>4. QED
    BY <1>12, <2>1, <2>2, <2>3 DEF AnswerStep, setup, memory
<1>13. CASE Gather
  <2>1. Batch \subseteq Steps
    BY <1>13, FirstRemains DEF Gather, Batch, Remaining
  <2>2. result' \in [Steps -> {"none", "ok", "failed", "skipped", "undone"}]
    BY <1>13 DEF Gather
  <2>3. flight' \subseteq Steps /\ (flight' # {} <=> pc' = "tool") /\ pc' \in {"next", "tool"}
    BY <1>13, <2>1 DEF Gather
  <2>4. QED
    BY <1>13, <2>2, <2>3 DEF Gather, setup, memory, ghosts
<1>14. ASSUME NEW s \in Steps, AnswerBatch(s) PROVE TypeOK'
  <2>1. result' \in [Steps -> {"none", "ok", "failed", "skipped", "undone"}]
    BY <1>14 DEF AnswerBatch
  <2>2. flight' \subseteq Steps /\ (flight' # {} <=> pc' = "tool") /\ pc' \in {"next", "tool"}
    BY <1>14 DEF AnswerBatch
  <2>3. QED
    BY <1>14, <2>1, <2>2 DEF AnswerBatch, setup, memory, ghosts
<1>15. ASSUME NEW s \in Steps, NEW how \in {"failed", "skipped"}, Settle(s, how)
       PROVE  result' \in [Steps -> {"none", "ok", "failed", "skipped", "undone"}]
  BY <1>15 DEF Settle
<1>16. CASE BridgeOver
  BY <1>15, <1>16 DEF BridgeOver, setup, memory, ghosts
<1>17. CASE BridgeStep
  BY <1>17 DEF BridgeStep, setup, memory, ghosts
<1>18. CASE BridgeAnswer
  BY <1>15, <1>18 DEF BridgeAnswer, HandInv, setup, memory, ghosts
<1>19. CASE EndPlan
  BY <1>19 DEF EndPlan, setup, memory, ghosts
<1>20. CASE Report
  BY <1>20 DEF Report, setup, memory, ghosts
<1>21. CASE Cancel
  BY <1>21 DEF Cancel, setup, memory, ghosts
<1>22. CASE LoadShow
  BY <1>22 DEF LoadShow, setup, memory
<1>23. CASE Age
  BY <1>23 DEF Age, setup, ghosts
<1>24. CASE UNCHANGED vars
  BY <1>24 DEF vars, setup, memory, ghosts
<1>25. QED
  BY <1>4, <1>5, <1>6, <1>8, <1>9, <1>10, <1>11, <1>12, <1>13, <1>14, <1>16, <1>17, <1>18,
     <1>19, <1>20, <1>21, <1>22, <1>23, <1>24 DEF IInv, Next, Proceed

\* The step of a tool that is called has no result; nothing is called out of a place
\* that is not the run's.
LEMMA HandStep ==
    ASSUME IInv, [Next]_vars
    PROVE  HandInv'
<1> USE DEF HandInv, IInv, TypeOK
<1>1. plan' = plan /\ Steps' = Steps /\ mode' = mode
  BY Frame DEF Steps
<1>2. Steps = 1..Len(plan) /\ Len(plan) \in Nat
  BY PlanFacts
<1> USE <1>1, <1>2
<1>3. \A s \in Steps : After(s) \in {"next", "report"}
  BY DEF After
<1>4. CASE ReadVars \/ ReadPools \/ EndPlan \/ Report \/ Cancel \/ GuardBlocks
           \/ GuardReadsNothing \/ BridgeAnswer \/ BridgeOver \/ Skip
  BY <1>4 DEF ReadVars, ReadPools, EndPlan, Report, Cancel, GuardBlocks, GuardReadsNothing,
              BridgeAnswer, BridgeOver, Skip
<1>5. CASE Take
  <2>1. result[at] = "none" /\ at \in Steps /\ Ready(at) /\ mode = "sequential"
    BY <1>5 DEF Take, AheadInv
  <2>2. CASE Guarded(at)
    BY <1>5, <2>1, <2>2 DEF Take, Ready, Completed
  <2>3. CASE ~Guarded(at) /\ Callable(at)
    BY <1>5, <2>1, <2>3 DEF Take, Launch
  <2>4. CASE ~Guarded(at) /\ ~Callable(at)
    BY <1>3, <1>5, <2>1, <2>4 DEF Take, Launch
  <2>5. QED
    BY <2>2, <2>3, <2>4
<1>6. CASE GuardPasses
  <2>1. CASE Callable(at)
    BY <1>6, <2>1 DEF GuardPasses, Launch
  <2>2. CASE ~Callable(at)
    BY <1>3, <1>6, <2>2 DEF GuardPasses, Launch
  <2>3. QED
    BY <2>1, <2>2
<1>7. CASE AnswerStep
  BY <1>3, <1>7 DEF AnswerStep
<1>8. CASE Gather
  <2>1. \A s \in flight' : s \in Batch /\ s \in Steps /\ result[s] = "none"
    BY <1>8, FirstRemains DEF Gather, Batch, Remaining
  <2>2. QED
    BY <1>8, <2>1 DEF Gather
<1>9. ASSUME NEW s \in Steps, AnswerBatch(s) PROVE HandInv'
  BY <1>9 DEF AnswerBatch
<1>10. CASE BridgeStep
  BY <1>10 DEF BridgeStep
<1>11. CASE LoadShow \/ Age \/ UNCHANGED vars
  <2>1. pc' = pc /\ at' = at /\ flight' = flight /\ result' = result
    BY <1>11 DEF LoadShow, Age, vars
  <2>2. Ready(at)' <=> Ready(at)
    BY <2>1 DEF Ready, Completed
  <2>3. QED
    BY <2>1, <2>2
<1>12. QED
  BY <1>4, <1>5, <1>6, <1>7, <1>8, <1>9, <1>10, <1>11 DEF Next, Proceed

\* The place of a run moves past a step when the step has got its result.
LEMMA PlaceStep ==
    ASSUME IInv, [Next]_vars
    PROVE  PassedInv' /\ AheadInv'
<1> USE DEF PassedInv, AheadInv, IInv, TypeOK
<1>1. plan' = plan /\ Steps' = Steps /\ mode' = mode
      /\ \A s \in Steps : result[s] # "none" => result'[s] = result[s]
  BY Frame DEF Steps
<1>2. Steps = 1..Len(plan) /\ Len(plan) \in Nat
  BY PlanFacts
<1> USE <1>1, <1>2
<1>3. CASE ReadVars \/ ReadPools \/ EndPlan \/ Report \/ Cancel \/ LoadShow \/ Age
           \/ BridgeStep \/ UNCHANGED vars
  BY <1>3 DEF ReadVars, ReadPools, EndPlan, Report, Cancel, LoadShow, Age, BridgeStep, vars
<1>4. ASSUME NEW how \in {"ok", "failed", "skipped"}, at \in Steps, mode = "sequential",
             result' = [result EXCEPT ![at] = how], at' = at + 1
      PROVE  PassedInv' /\ AheadInv'
  BY <1>4
<1>5. CASE Skip
  BY <1>4, <1>5 DEF Skip
<1>6. ASSUME Launch(at), at \in Steps, mode = "sequential" PROVE PassedInv' /\ AheadInv'
  <2>1. CASE Callable(at)
    BY <1>6, <2>1 DEF Launch
  <2>2. CASE ~Callable(at)
    BY <1>4, <1>6, <2>2 DEF Launch
  <2>3. QED
    BY <2>1, <2>2
<1>7. CASE Take
  <2>1. CASE Guarded(at)
    BY <1>7, <2>1 DEF Take
  <2>2. CASE ~Guarded(at)
    BY <1>6, <1>7, <2>2 DEF Take
  <2>3. QED
    BY <2>1, <2>2
<1>8. CASE GuardPasses
  BY <1>6, <1>8 DEF GuardPasses, HandInv
<1>9. CASE GuardBlocks
  BY <1>4, <1>9 DEF GuardBlocks, HandInv
<1>10. CASE GuardReadsNothing
  BY <1>4, <1>10 DEF GuardReadsNothing, HandInv
<1>11. CASE AnswerStep
  BY <1>4, <1>11 DEF AnswerStep, HandInv
<1>12. CASE Gather
  BY <1>12 DEF Gather
<1>13. ASSUME NEW s \in Steps, AnswerBatch(s) PROVE PassedInv' /\ AheadInv'
  BY <1>13 DEF AnswerBatch
<1>14. ASSUME at \in Steps, mode = "bridge", result'[at] # "none", at' = at + 1
       PROVE  PassedInv' /\ AheadInv'
  BY <1>14
<1>15. CASE BridgeOver
  BY <1>14, <1>15 DEF BridgeOver, Settle
<1>16. CASE BridgeAnswer
  BY <1>14, <1>16 DEF BridgeAnswer, Settle, HandInv
<1>17. QED
  BY <1>3, <1>5, <1>7, <1>8, <1>9, <1>10, <1>11, <1>12, <1>13, <1>15, <1>16
     DEF Next, Proceed

\* What fails over the bridge takes with it all that waits for it.
LEMMA SettledStep ==
    ASSUME IInv, [Next]_vars
    PROVE  SettledInv'
<1> USE DEF SettledInv, Remaining
<1>1. plan' = plan /\ Steps' = Steps /\ mode' = mode
      /\ \A s \in Steps : result[s] # "none" => result'[s] = result[s]
  BY Frame DEF Steps
<1>2. IInv /\ TypeOK
  BY DEF IInv
<1> USE <1>1, <1>2
<1>3. SUFFICES ASSUME mode = "bridge", NEW s \in Steps, NEW t \in Steps, result'[s] = "none",
                      plan[t].name \in plan[s].deps
               PROVE  result'[t] \notin {"failed", "skipped"}
  OBVIOUS
<1>4. result[s] = "none" /\ result[t] \notin {"failed", "skipped"}
  BY <1>3 DEF IInv
<1>5. ASSUME NEW how, at \in Steps, how # "none", Settle(at, how)
      PROVE  result'[t] \notin {"failed", "skipped"}
  <2>1. s # at /\ s \notin Dependents(at)
    BY <1>3, <1>5 DEF Settle
  <2>2. t # at /\ t \notin Dependents(at)
    BY <1>3, <1>4, <1>5, <2>1, DependentsClosed
  <2>3. QED
    BY <1>4, <1>5, <2>2 DEF Settle
<1>6. CASE BridgeOver
  BY <1>4, <1>5, <1>6 DEF BridgeOver
<1>7. CASE BridgeAnswer
  <2>1. at \in Steps
    BY <1>3, <1>7 DEF BridgeAnswer, IInv, HandInv
  <2>2. ASSUME NEW how \in {"ok", "undone"}, result' = [result EXCEPT ![at] = how]
        PROVE  result'[t] \notin {"failed", "skipped"}
    BY <1>4, <2>2 DEF TypeOK
  <2>3. QED
    BY <1>5, <1>7, <2>1, <2>2 DEF BridgeAnswer
<1>8. CASE UNCHANGED result
  BY <1>4, <1>8
<1>9. QED
  BY <1>3, <1>6, <1>7, <1>8
     DEF Next, Proceed, vars, ReadVars, ReadPools, Skip, Take, GuardPasses, GuardBlocks,
         GuardReadsNothing, AnswerStep, Gather, AnswerBatch, BridgeStep, EndPlan, Report,
         Cancel, LoadShow, Age, IInv, HandInv

\* How a run ends, what its guards have seen, and how its console is read.
LEMMA EndStep ==
    ASSUME IInv, [Next]_vars
    PROVE  ReportInv' /\ OutcomeInv' /\ ChangedInv' /\ WiredInv'
<1> USE DEF ReportInv, OutcomeInv, ChangedInv, WiredInv
<1>1. plan' = plan /\ Steps' = Steps /\ mode' = mode /\ wired' = wired
      /\ \A s \in Steps : result[s] # "none" => result'[s] = result[s]
  BY Frame DEF Steps
<1>2. ReportInv /\ OutcomeInv /\ ChangedInv /\ WiredInv /\ TypeOK /\ HandInv /\ PassedInv
  BY DEF IInv
<1>3. Steps = 1..Len(plan) /\ Len(plan) \in Nat
  BY PlanFacts, <1>2
<1> USE <1>1, <1>2, <1>3
<1>4. CASE ReadVars \/ ReadPools \/ Gather \/ BridgeOver \/ BridgeStep \/ BridgeAnswer \/ Skip
           \/ Cancel \/ LoadShow \/ Age \/ UNCHANGED vars
  BY <1>4 DEF ReadVars, ReadPools, Gather, BridgeOver, BridgeStep, BridgeAnswer, Skip,
              Cancel, LoadShow, Age, setup, memory, ghosts, vars
<1>5. ASSUME at \in Steps, Launch(at)
      PROVE  pc' \in {"next", "tool"} \/ (pc' = "report" /\ result'[at] = "failed")
  BY <1>5 DEF Launch, After, TypeOK
<1>6. CASE Take
  <2>1. CASE Guarded(at)
    BY <1>6, <2>1 DEF Take, memory
  <2>2. CASE ~Guarded(at)
    BY <1>5, <1>6, <2>2 DEF Take, memory
  <2>3. QED
    BY <2>1, <2>2
<1>7. CASE GuardPasses
  BY <1>5, <1>7 DEF GuardPasses, HandInv, memory
<1>8. CASE GuardBlocks
  BY <1>8 DEF GuardBlocks, HandInv, TypeOK
<1>9. CASE GuardReadsNothing
  BY <1>9 DEF GuardReadsNothing, HandInv, TypeOK, ghosts
<1>10. CASE AnswerStep
  BY <1>10 DEF AnswerStep, After, HandInv, TypeOK, memory
<1>11. ASSUME NEW s \in Steps, AnswerBatch(s)
       PROVE  ReportInv' /\ OutcomeInv' /\ ChangedInv' /\ WiredInv'
  BY <1>11 DEF AnswerBatch, memory, ghosts
<1>12. CASE EndPlan
  <2>1. \A s \in Steps : result[s] # "none"
    BY <1>12 DEF EndPlan, Remaining, PassedInv, TypeOK
  <2>2. QED
    BY <1>12, <2>1 DEF EndPlan, memory, ghosts
<1>13. CASE Report
  BY <1>13 DEF Report, memory, ghosts
<1>14. QED
  BY <1>4, <1>6, <1>7, <1>8, <1>9, <1>10, <1>11, <1>12, <1>13 DEF Next, Proceed

\* The show of a destructive step is the one its guard has seen, or was loaded since.
LEMMA ShowStep ==
    ASSUME IInv, [Next]_vars
    PROVE  ShowInv'
<1> USE DEF ShowInv
<1>1. plan' = plan /\ mode' = mode /\ wired' = wired
  BY Frame
<1>2. ShowInv /\ HandInv /\ WiredInv /\ TypeOK
  BY DEF IInv
<1> USE <1>1, <1>2
<1>3. \A s \in Steps : Destructive(s)' <=> Destructive(s)
  BY DEF Destructive
<1>4. SUFFICES ASSUME mode = "sequential", pc' = "tool", Destructive(at)', baseline' # Unknown
               PROVE  show' = baseline' \/ raced' \/ unchecked'
  OBVIOUS
<1> USE <1>4
<1>5. \A s \in Steps : After(s) # "tool"
  BY DEF After
<1>6. CASE Take
  <2>1. at' = at /\ Destructive(at) /\ baseline' = baseline /\ ~Guarded(at)
    BY <1>5, <1>6 DEF Take, Launch, Destructive, memory
  <2>2. QED
    BY <2>1 DEF Guarded, WiredInv
<1>7. CASE GuardPasses
  BY <1>7 DEF GuardPasses, memory
<1>8. CASE LoadShow
  BY <1>8 DEF LoadShow, TypeOK
<1>9. CASE Age \/ UNCHANGED vars
  BY <1>9 DEF Age, vars, memory, ghosts, Destructive
<1>10. QED
  BY <1>5, <1>6, <1>7, <1>8, <1>9
     DEF Next, Proceed, ReadVars, ReadPools, Skip, GuardBlocks, GuardReadsNothing, AnswerStep,
         Gather, AnswerBatch, BridgeOver, BridgeStep, BridgeAnswer, EndPlan, Report, Cancel,
         HandInv

\* Success is reported over results that are all there.
LEMMA SuccessStep ==
    ASSUME IInv, [Next]_vars
    PROVE  SuccessIsWhole'
<1> USE DEF SuccessIsWhole
<1>1. plan' = plan /\ Steps' = Steps
      /\ \A s \in Steps : result[s] # "none" => result'[s] = result[s]
  BY Frame DEF Steps
<1>2. SuccessIsWhole /\ ReportInv /\ TypeOK
  BY DEF IInv
<1> USE <1>1, <1>2
<1>3. CASE Report
  <2>1. ASSUME outcome' = "success", NEW s \in Steps PROVE result[s] \in {"none", "ok"}
    BY <1>3, <2>1 DEF Report
  <2>2. QED
    BY <1>3, <2>1 DEF Report, ReportInv
<1>4. CASE outcome' = outcome
  BY <1>4
<1>5. QED
  BY <1>3, <1>4
     DEF Next, Proceed, vars, ReadVars, ReadPools, Skip, Take, GuardPasses, GuardBlocks,
         GuardReadsNothing, AnswerStep, Gather, AnswerBatch, BridgeOver, BridgeStep,
         BridgeAnswer, EndPlan, Cancel, LoadShow, Age

\* A step is skipped behind one that has failed, or that was rolled back.
LEMMA SkippedStep ==
    ASSUME IInv, [Next]_vars
    PROVE  SkippedOnlyAfterFailure'
<1> USE DEF SkippedOnlyAfterFailure
<1>1. plan' = plan /\ Steps' = Steps
      /\ \A s \in Steps : result[s] # "none" => result'[s] = result[s]
  BY Frame DEF Steps
<1>2. IInv /\ SkippedOnlyAfterFailure /\ TypeOK /\ HandInv
  BY DEF IInv
<1> USE <1>1, <1>2
<1>3. ASSUME NEW t \in Steps, result[t] \in {"failed", "undone"}
      PROVE  SkippedOnlyAfterFailure'
  BY <1>3
<1>4. ASSUME at \in Steps, ~Ready(at), mode \in {"sequential", "bridge"}, result[at] = "none"
      PROVE  \E t \in Steps : result[t] \in {"failed", "undone"}
  <2>1. PICK t \in Steps : t < at /\ plan[t].name \in plan[at].deps /\ result[t] # "ok"
    BY <1>4, NotReady
  <2>2. result[t] \in {"failed", "undone", "skipped"}
    BY <1>4, <2>1 DEF IInv, PassedInv, TypeOK
  <2>3. QED
    BY <2>1, <2>2
<1>5. CASE Skip
  BY <1>3, <1>4, <1>5 DEF Skip, IInv, AheadInv, TypeOK
<1>6. CASE BridgeOver
  <2>1. CASE result' = result
    BY <2>1
  <2>2. CASE result' # result
    BY <1>3, <1>4, <1>6, <2>2 DEF BridgeOver
  <2>3. QED
    BY <2>1, <2>2
<1>7. CASE BridgeAnswer
  <2>1. at \in Steps
    BY <1>7 DEF BridgeAnswer, HandInv
  <2>2. ASSUME NEW how \in {"ok", "undone"}, result' = [result EXCEPT ![at] = how]
        PROVE  SkippedOnlyAfterFailure'
    BY <2>1, <2>2 DEF TypeOK
  <2>3. CASE Settle(at, "failed")
    BY <2>1, <2>3 DEF Settle
  <2>4. QED
    BY <1>7, <2>2, <2>3 DEF BridgeAnswer
<1>8. ASSUME NEW s \in Steps, Launch(s) PROVE SkippedOnlyAfterFailure'
  BY <1>8 DEF Launch, TypeOK
<1>9. CASE Take
  BY <1>8, <1>9 DEF Take
<1>10. CASE GuardPasses
  BY <1>8, <1>10 DEF GuardPasses, HandInv
<1>11. CASE GuardBlocks \/ GuardReadsNothing \/ AnswerStep
  BY <1>11 DEF GuardBlocks, GuardReadsNothing, AnswerStep, HandInv, TypeOK
<1>12. CASE Gather
  BY <1>12 DEF Gather, TypeOK
<1>13. ASSUME NEW s \in Steps, AnswerBatch(s) PROVE SkippedOnlyAfterFailure'
  BY <1>13 DEF AnswerBatch, TypeOK
<1>14. CASE UNCHANGED result
  BY <1>14
<1>15. QED
  BY <1>5, <1>6, <1>7, <1>9, <1>10, <1>11, <1>12, <1>13, <1>14
     DEF Next, Proceed, vars, ReadVars, ReadPools, BridgeStep, EndPlan, Report, Cancel,
         LoadShow, Age

LEMMA IInvStep == IInv /\ [Next]_vars => IInv'
  BY TypeStep, HandStep, PlaceStep, SettledStep, EndStep, ShowStep, SuccessStep, SkippedStep
     DEF IInv

LEMMA IInvInit == Init => IInv
<1> SUFFICES ASSUME Init PROVE IInv
  OBVIOUS
<1>1. PICK p \in Plans : plan = OrderedSteps(p)
  BY DEF Init
<1> DEFINE S == [name : Names(p), risk : {"read", "write", "destructive"},
                 tool : STRING \cup {NoTool}, deps : SUBSET Names(p), retryable : BOOLEAN]
<1>2. Len(plan) \in Nat
  <2>1. plan \in Seq(S)
    BY <1>1, PlansAssumption
  <2> HIDE DEF S
  <2>2. QED
    BY <2>1
<1>3. TypeOK
  <2>1. plan \in {OrderedSteps(q) : q \in Plans}
    BY DEF Init
  <2>2. at \in 1..Len(plan) + 1
    BY <1>2 DEF Init
  <2>3. result \in [Steps -> {"none", "ok", "failed", "skipped", "undone"}]
    BY DEF Init
  <2>4. flight \subseteq Steps /\ (flight # {} <=> pc = "tool")
        /\ pc \in {"hydrate", "pools", "next", "guard", "tool", "report", "done", "cancelled"}
    BY DEF Init
  <2>5. QED
    BY <2>1, <2>2, <2>3, <2>4 DEF Init, TypeOK
<1>4. SettledInv /\ SkippedOnlyAfterFailure
  BY DEF Init, SettledInv, SkippedOnlyAfterFailure
<1>5. PassedInv /\ AheadInv
  <2>1. Steps = 1..Len(plan)
    BY <1>3, PlanFacts
  <2>2. QED
    BY <1>2, <2>1 DEF Init, PassedInv, AheadInv
<1>6. HandInv /\ ReportInv /\ OutcomeInv /\ ChangedInv /\ WiredInv /\ ShowInv /\ SuccessIsWhole
  BY DEF Init, HandInv, ReportInv, OutcomeInv, ChangedInv, WiredInv, ShowInv, SuccessIsWhole
<1>7. QED
  BY <1>3, <1>4, <1>5, <1>6 DEF IInv

-----------------------------------------------------------------------------
(* The theorems. *)

\* The invariants together, which imply each other's step.
THEOREM Invariance == Spec => []IInv
  BY IInvInit, IInvStep, PTL DEF Spec

\* The run, its memory and its results keep their types.
THEOREM TypeCorrect == Spec => []TypeOK
<1>1. IInv => TypeOK
  BY DEF IInv
<1>2. QED
  BY <1>1, Invariance, PTL

\* Success is never reported over a step that has not succeeded.
THEOREM SuccessMeansWhole == Spec => []SuccessIsWhole
<1>1. IInv => SuccessIsWhole
  BY DEF IInv
<1>2. QED
  BY <1>1, Invariance, PTL

\* In the order of its steps a run skips none that no failure has cut off.
THEOREM NothingSkippedInVain == Spec => []SkippedOnlyAfterFailure
<1>1. IInv => SkippedOnlyAfterFailure
  BY DEF IInv
<1>2. QED
  BY <1>1, Invariance, PTL

\* The window of the showfile guard is from its reading to the tool's answer.
THEOREM GuardedUnlessRaced == Spec => WrongShowOnlyIfRaced
<1>1. ASSUME IInv, NEW s \in Steps, mode = "sequential", Destructive(s),
             s \in flight \ flight', baseline # Unknown
      PROVE  show = baseline \/ raced \/ unchecked
  <2>1. pc = "tool" /\ s = at
    BY <1>1 DEF IInv, TypeOK, HandInv
  <2>2. QED
    BY <1>1, <2>1 DEF IInv, ShowInv
<1>2. IInv /\ [Next]_vars => [\A s \in Steps :
          /\ mode = "sequential" /\ Destructive(s) /\ s \in flight \ flight'
          /\ baseline # Unknown
          => show = baseline \/ raced \/ unchecked]_vars
  BY <1>1
<1>3. QED
  BY <1>2, Invariance, PTL DEF Spec, WrongShowOnlyIfRaced

\* A guard that has seen another show ends the calls of its run.
THEOREM ShowChangeEndsCalls == Spec => NothingAfterShowChange
<1>1. ASSUME IInv, Next, changed, NEW s \in Steps PROVE ~Calls(s)
  <2>1. pc \in {"report", "done", "cancelled"}
    BY <1>1 DEF IInv, ChangedInv
  <2>2. flight' = flight
    BY <1>1, <2>1
       DEF Next, Proceed, ReadVars, ReadPools, Skip, Take, GuardPasses, GuardBlocks,
           GuardReadsNothing, AnswerStep, Gather, AnswerBatch, BridgeOver, BridgeStep,
           BridgeAnswer, EndPlan, Report, Cancel, LoadShow, Age
  <2>3. QED
    BY <2>2 DEF Calls
<1>2. IInv /\ [Next]_vars => [changed => ~\E s \in Steps : Calls(s)]_vars
  BY <1>1
<1>3. QED
  BY <1>2, Invariance, PTL DEF Spec, NothingAfterShowChange

\* What may be called when a step of a run calls a tool.
LEMMA CallStep ==
    ASSUME IInv, Next, NEW s \in Steps, Calls(s)
    PROVE  \/ Ready(s)
           \/ mode = "parallel" /\ \E t \in Steps : result[t] = "failed"
           \/ /\ mode = "bridge" /\ Destructive(s)
              /\ \E t \in Steps : plan[t].name \in plan[s].deps /\ result[t] = "undone"
<1> USE DEF Calls
<1>1. TypeOK /\ HandInv /\ PassedInv /\ SettledInv
  BY DEF IInv
<1>2. s \in Nat /\ Steps \subseteq Nat
  BY <1>1, PlanFacts
<1>3. CASE Take
  BY <1>3 DEF Take, Launch
<1>4. CASE GuardPasses
  BY <1>1, <1>4 DEF GuardPasses, Launch, HandInv
<1>5. CASE Gather /\ ~Ready(s)
  <2>1. s \in Remaining /\ \A t \in Remaining : s <= t
    BY <1>5, <1>1, FirstRemains DEF Gather, Batch
  <2>2. PICK t \in Steps : t < s /\ result[t] # "ok"
    BY <1>1, <1>5, NotReady
  <2>3. t \notin Remaining
    BY <1>2, <2>1, <2>2
  <2>4. result[t] = "failed"
    BY <1>1, <1>5, <2>2, <2>3 DEF Gather, PassedInv, Remaining
  <2>5. QED
    BY <1>5, <2>4 DEF Gather
<1>6. CASE BridgeStep /\ ~Ready(s)
  <2>1. s = at /\ s \in Remaining /\ Destructive(s) /\ mode = "bridge"
    BY <1>6 DEF BridgeStep, Remaining
  <2>2. PICK t \in Steps : t < s /\ plan[t].name \in plan[s].deps /\ result[t] # "ok"
    BY <1>1, <1>6, NotReady
  <2>3. result[t] = "undone"
    BY <1>1, <2>1, <2>2 DEF PassedInv, SettledInv, TypeOK
  <2>4. QED
    BY <2>1, <2>2, <2>3
<1>7. CASE Ready(s)
  BY <1>7
<1>8. QED
  BY <1>3, <1>4, <1>5, <1>6, <1>7
     DEF Next, Proceed, ReadVars, ReadPools, Skip, GuardBlocks, GuardReadsNothing, AnswerStep,
         AnswerBatch, BridgeOver, BridgeAnswer, EndPlan, Report, Cancel, LoadShow, Age

\* Out of order, a tool is called only in a batch after a failure, or for a
\* destructive step behind one that was rolled back.
THEOREM CallsFollowDependencies == Spec => CalledAfterDependencies
<1>1. IInv /\ [Next]_vars => [\A s \in Steps : Calls(s) =>
          \/ Ready(s)
          \/ mode = "parallel" /\ \E t \in Steps : result[t] = "failed"
          \/ /\ mode = "bridge" /\ Destructive(s)
             /\ \E t \in Steps : plan[t].name \in plan[s].deps /\ result[t] = "undone"]_vars
  BY CallStep
<1>2. QED
  BY <1>1, Invariance, PTL DEF Spec, CalledAfterDependencies

\* A step in flight is without a result, and leaves with one unless the run is cancelled.
LEMMA FlightStep ==
    ASSUME IInv, Next, NEW s \in Steps
    PROVE  /\ Calls(s) => result[s] = "none"
           /\ s \in flight \ flight' => result'[s] # "none" \/ pc' = "cancelled"
<1> USE DEF Calls
<1>1. TypeOK /\ HandInv /\ AheadInv
  BY DEF IInv
<1>2. CASE Take
  BY <1>1, <1>2 DEF Take, Launch, AheadInv, TypeOK
<1>3. CASE GuardPasses
  BY <1>1, <1>3 DEF GuardPasses, Launch, HandInv, TypeOK
<1>4. CASE AnswerStep
  BY <1>1, <1>4 DEF AnswerStep, HandInv, TypeOK
<1>5. CASE Gather
  <2>1. s \in Batch => result[s] = "none"
    BY <1>1, <1>5, FirstRemains DEF Gather, Batch, Remaining
  <2> QED BY <1>1, <1>5, <2>1 DEF Gather, TypeOK
<1>6. ASSUME NEW t \in Steps, AnswerBatch(t)
      PROVE  s \notin flight' \ flight /\ (s \in flight \ flight' => result'[s] # "none")
  BY <1>1, <1>6 DEF AnswerBatch, TypeOK
<1>7. CASE BridgeStep
  BY <1>1, <1>7 DEF BridgeStep, TypeOK
<1>8. CASE BridgeAnswer
  <2>1. s \in flight => s = at
    BY <1>1, <1>8 DEF BridgeAnswer, HandInv
  <2> QED BY <1>1, <1>8, <2>1 DEF BridgeAnswer, Settle, TypeOK
<1>9. CASE Cancel
  BY <1>9 DEF Cancel
<1>10. CASE UNCHANGED flight
  BY <1>10
<1> QED BY <1>2, <1>3, <1>4, <1>5, <1>6, <1>7, <1>8, <1>9, <1>10
        DEF Next, Proceed, ReadVars, ReadPools, Skip, GuardBlocks, GuardReadsNothing, BridgeOver,
            EndPlan, Report, LoadShow, Age

\* A run executes each step of its plan once at most and never revises a result,
\* whatever order the tools of a batch answer in.
THEOREM StepsExecutedOnce == Spec => ExecutedOnce
<1>1. IInv /\ [Next]_vars =>
        [\A s \in Steps :
            /\ Calls(s) => result[s] = "none"
            /\ s \in flight \ flight' => result'[s] # "none" \/ pc' = "cancelled"
            /\ result[s] # "none" => result'[s] = result[s]]_vars
  BY FlightStep, Frame
<1> QED BY <1>1, Invariance, PTL DEF Spec, ExecutedOnce

-----------------------------------------------------------------------------
(* How long a run can last: what RunEnds needs beside fairness. *)

\* What is left of the plan: in a batch run a call and an answer for each remaining
\* step, less the calls that are out; in the others a guard, a call and an answer.
ToDo ==
    IF mode = "parallel" THEN 2 * Cardinality(Remaining) - Cardinality(flight)
                         ELSE 3 * (Len(plan) + 1 - at)

\* The most steps the run can still take.
StepsLeft ==
    CASE pc = "hydrate" -> ToDo + 4
      [] pc = "pools"   -> ToDo + 3
      [] pc = "next"    -> ToDo + 2
      [] pc = "guard"   -> ToDo + 1
      [] pc = "tool"    -> IF mode = "parallel" THEN ToDo + 2 ELSE ToDo
      [] pc = "report"  -> 1
      [] OTHER          -> 0

\* Each of its steps brings a run nearer to its end, and nothing that happens around
\* it, no show that is loaded and no time that passes, takes it back: a batch that no
\* dependency lets through still settles a step (orchestrator.py:655-681).
StepsBounded ==
    [][StepsLeft' <= StepsLeft /\ (Proceed => StepsLeft' < StepsLeft)]_vars

\* The steps that remain, and those of them in flight, can be counted.
LEMMA BatchCount ==
    ASSUME TypeOK, HandInv
    PROVE  /\ IsFiniteSet(Remaining) /\ Cardinality(Remaining) \in 0..Len(plan)
           /\ flight \subseteq Remaining
           /\ IsFiniteSet(flight) /\ Cardinality(flight) \in 0..Cardinality(Remaining)
<1>1. Steps = 1..Len(plan) /\ Len(plan) \in Nat
  BY PlanFacts
<1>2. IsFiniteSet(Steps) /\ Cardinality(Steps) = Len(plan)
  <2>1. 1 \in Int /\ Len(plan) \in Int
    BY <1>1
  <2>2. IsFiniteSet(1..Len(plan))
        /\ Cardinality(1..Len(plan)) = IF 1 > Len(plan) THEN 0 ELSE Len(plan) - 1 + 1
    BY <2>1, FS_Interval
  <2> QED BY <1>1, <2>2
<1>3. Remaining \subseteq Steps
  BY DEF Remaining
<1>4. IsFiniteSet(Remaining) /\ Cardinality(Remaining) <= Len(plan)
  BY <1>2, <1>3, FS_Subset
<1>5. flight \subseteq Remaining
  BY DEF TypeOK, HandInv, Remaining
<1>6. IsFiniteSet(flight) /\ Cardinality(flight) <= Cardinality(Remaining)
  BY <1>4, <1>5, FS_Subset
<1>7. Cardinality(Remaining) \in Nat /\ Cardinality(flight) \in Nat
  BY <1>4, <1>6, FS_CardinalityType
<1> QED BY <1>1, <1>4, <1>5, <1>6, <1>7

\* What is left is a number; away from a batch it is three for each step ahead.
LEMMA ToDoBounds ==
    ASSUME IInv
    PROVE  /\ ToDo \in 0..3 * Len(plan)
           /\ mode # "parallel" => ToDo = 3 * (Len(plan) + 1 - at)
           /\ mode # "parallel" /\ at \in Steps => ToDo >= 3
<1>1. TypeOK /\ HandInv /\ Steps = 1..Len(plan) /\ Len(plan) \in Nat /\ at \in 1..Len(plan) + 1
  BY PlanFacts DEF IInv, TypeOK
<1>2. CASE mode = "parallel"
  <2>1. PICK r \in 0..Len(plan) : r = Cardinality(Remaining)
    BY <1>1, BatchCount
  <2>2. PICK f \in 0..r : f = Cardinality(flight)
    BY <1>1, <2>1, BatchCount
  <2>3. ToDo = 2 * r - f
    BY <1>2, <2>1, <2>2 DEF ToDo
  <2> QED BY <1>1, <1>2, <2>1, <2>2, <2>3
<1>3. CASE mode # "parallel"
  <2>1. ToDo = 3 * (Len(plan) + 1 - at)
    BY <1>3 DEF ToDo
  <2> QED BY <1>1, <1>3, <2>1
<1> QED BY <1>2, <1>3

\* A batch takes up or settles a step, and an answer settles one.
LEMMA BatchShrinks ==
    ASSUME IInv, IInv', Gather \/ \E s \in Steps : AnswerBatch(s)
    PROVE  ToDo' < ToDo
<1>1. TypeOK /\ HandInv /\ TypeOK' /\ HandInv'
  BY DEF IInv
<1>2. /\ IsFiniteSet(Remaining) /\ Cardinality(Remaining) \in Nat
      /\ IsFiniteSet(flight) /\ Cardinality(flight) \in Nat
  BY <1>1, BatchCount
<1>3. plan' = plan /\ mode' = mode /\ mode = "parallel" /\ Steps' = Steps
  BY DEF Gather, AnswerBatch, setup, Steps
<1>4. /\ ToDo = 2 * Cardinality(Remaining) - Cardinality(flight)
      /\ ToDo' = 2 * Cardinality(Remaining') - Cardinality(flight')
  BY <1>3 DEF ToDo
<1>5. CASE Gather
  <2>1. flight = {} /\ Cardinality(flight) = 0
    BY <1>1, <1>5, FS_EmptySet DEF Gather, TypeOK
  <2>2. Batch # {} /\ Batch \subseteq Remaining /\ flight' \subseteq Batch
    BY <1>1, <1>5, FirstRemains DEF Gather, Batch
  <2>3. Remaining' = Remaining \ (Batch \ flight')
    BY <1>1, <1>3, <1>5, <2>2 DEF Gather, Remaining, TypeOK
  <2>4. IsFiniteSet(Remaining') /\ Cardinality(Remaining') <= Cardinality(Remaining)
        /\ (Cardinality(Remaining') = Cardinality(Remaining) => Remaining' = Remaining)
    BY <1>2, <2>3, FS_Subset
  <2>5. IsFiniteSet(flight') /\ Cardinality(flight') \in Nat /\ Cardinality(Remaining') \in Nat
        /\ (Cardinality(flight') = 0 => flight' = {})
    <3>1. IsFiniteSet(flight')
      BY <1>2, <2>2, FS_Subset
    <3> QED BY <2>4, <3>1, FS_CardinalityType, FS_EmptySet
  <2>6. CASE flight' = {}
    <3>1. Remaining' # Remaining
      BY <2>2, <2>3, <2>6
    <3>2. Cardinality(flight') = 0
      BY <2>6, FS_EmptySet
    <3> QED BY <1>2, <1>4, <2>1, <2>4, <2>5, <3>1, <3>2
  <2>7. CASE flight' # {}
    <3>1. Cardinality(flight') >= 1
      BY <2>5, <2>7
    <3> QED BY <1>2, <1>4, <2>1, <2>4, <2>5, <3>1
  <2> QED BY <2>6, <2>7
<1>6. ASSUME NEW s \in Steps, AnswerBatch(s) PROVE ToDo' < ToDo
  <2>1. s \in flight /\ flight' = flight \ {s} /\ s \in Remaining
    BY <1>1, <1>6, BatchCount DEF AnswerBatch
  <2>2. Remaining' = Remaining \ {s}
    BY <1>1, <1>3, <1>6 DEF AnswerBatch, Remaining, TypeOK
  <2>3. Cardinality(flight') = Cardinality(flight) - 1
        /\ Cardinality(Remaining') = Cardinality(Remaining) - 1
    BY <1>2, <2>1, <2>2, FS_RemoveElement
  <2> QED BY <1>2, <1>4, <2>3
<1> QED BY <1>5, <1>6

\* It is a number after a step, too.
LEMMA ToDoNumber == (IInv => ToDo \in Nat) /\ (IInv => ToDo \in Nat)'
<1>1. IInv => ToDo \in Nat
  <2>1. IInv => ToDo \in 0..3 * Len(plan) /\ Len(plan) \in Nat
    BY ToDoBounds, PlanFacts DEF IInv
  <2> QED BY <2>1
<1> QED BY <1>1, PTL

\* The other actions move the place of the run or leave what is left as it is.
LEMMA ToDoStep ==
    ASSUME IInv, [Next]_vars
    PROVE  /\ mode' = mode /\ Len(plan') = Len(plan)
           /\ mode # "parallel" => ToDo' = 3 * (Len(plan) + 1 - at')
           /\ at' = at /\ flight' = flight /\ result' = result => ToDo' = ToDo
<1>1. plan' = plan /\ mode' = mode
  BY Frame
<1> QED BY <1>1 DEF ToDo, Remaining, Steps

\* The sub agent of the step at hand passes it, or calls its tool.
LEMMA LaunchShrinks ==
    ASSUME IInv, [Next]_vars, at \in Steps, Launch(at), mode = "sequential"
    PROVE  StepsLeft' <= ToDo
<1>1. TypeOK /\ Steps = 1..Len(plan) /\ Len(plan) \in Nat /\ at \in Nat
  BY PlanFacts DEF IInv
<1>2. mode' = mode /\ ToDo = 3 * (Len(plan) + 1 - at) /\ ToDo' = 3 * (Len(plan) + 1 - at')
  BY ToDoBounds, ToDoStep
<1>3. CASE Callable(at)
  <2>1. pc' = "tool" /\ at' = at
    BY <1>3 DEF Launch
  <2>2. StepsLeft' = ToDo'
    BY <1>2, <2>1 DEF StepsLeft
  <2> QED BY <1>1, <1>2, <2>1, <2>2
<1>4. CASE ~Callable(at)
  <2>1. pc' \in {"next", "report"} /\ at' = at + 1
    BY <1>4 DEF Launch, After
  <2>2. StepsLeft' \in {ToDo' + 2, 1}
    BY <2>1 DEF StepsLeft
  <2> QED BY <1>1, <1>2, <2>1, <2>2
<1> QED BY <1>3, <1>4

\* Every step of the run itself leaves it fewer.
LEMMA ProceedShrinks ==
    ASSUME IInv, IInv', [Next]_vars, Proceed
    PROVE  StepsLeft' < StepsLeft
<1>1. TypeOK /\ HandInv /\ Steps = 1..Len(plan) /\ Len(plan) \in Nat /\ at \in 1..Len(plan) + 1
  BY PlanFacts DEF IInv, TypeOK
<1>2. mode' = mode /\ ToDo \in Nat /\ ToDo' \in Nat
      /\ (mode # "parallel" /\ at \in Steps => ToDo >= 3)
      /\ (mode # "parallel" => /\ ToDo = 3 * (Len(plan) + 1 - at)
                               /\ ToDo' = 3 * (Len(plan) + 1 - at'))
      /\ (at' = at /\ flight' = flight /\ result' = result => ToDo' = ToDo)
  BY ToDoNumber, ToDoStep, ToDoBounds
<1> USE DEF StepsLeft
<1>3. ASSUME mode # "parallel", at \in Steps, at' = at + 1
      PROVE  ToDo' = ToDo - 3
  BY <1>1, <1>2, <1>3
<1>4. CASE ReadVars \/ ReadPools
  <2>1. ToDo' = ToDo
    BY <1>2, <1>4 DEF ReadVars, ReadPools
  <2> QED BY <1>2, <1>4, <2>1 DEF ReadVars, ReadPools
<1>5. CASE Skip \/ BridgeOver
  <2>1. pc = "next" /\ pc' = "next" /\ ToDo' = ToDo - 3
    BY <1>3, <1>5 DEF Skip, BridgeOver
  <2> QED BY <1>2, <2>1
<1>6. CASE Take
  <2>1. pc = "next" /\ StepsLeft = ToDo + 2
    BY <1>6 DEF Take
  <2>2. CASE Guarded(at)
    <3>1. pc' = "guard" /\ ToDo' = ToDo
      BY <1>2, <1>6, <2>2 DEF Take
    <3> QED BY <1>2, <2>1, <3>1
  <2>3. CASE ~Guarded(at)
    <3>1. StepsLeft' <= ToDo
      BY <1>6, <2>3, LaunchShrinks DEF Take
    <3>2. StepsLeft' \in Int
      BY <1>2
    <3> QED BY <1>2, <2>1, <3>1, <3>2
  <2> QED BY <2>2, <2>3
<1>7. CASE GuardPasses
  <2>1. pc = "guard" /\ StepsLeft = ToDo + 1 /\ StepsLeft' <= ToDo
    BY <1>1, <1>7, LaunchShrinks DEF GuardPasses, HandInv
  <2>2. StepsLeft' \in Int
    BY <1>2
  <2> QED BY <1>2, <2>1, <2>2
<1>8. CASE GuardBlocks \/ GuardReadsNothing
  <2>1. pc = "guard" /\ pc' = "report" /\ ToDo >= 3
    BY <1>1, <1>2, <1>8 DEF GuardBlocks, GuardReadsNothing, HandInv
  <2> QED BY <1>2, <2>1
<1>9. CASE AnswerStep \/ BridgeAnswer
  <2>1. pc = "tool" /\ mode # "parallel" /\ at \in Steps /\ at' = at + 1
        /\ pc' \in {"next", "report"}
    BY <1>1, <1>9 DEF AnswerStep, BridgeAnswer, HandInv, After
  <2>2. ToDo' = ToDo - 3 /\ ToDo >= 3
    BY <1>2, <1>3, <2>1
  <2> QED BY <1>2, <2>1, <2>2
<1>10. CASE Gather \/ \E s \in Steps : AnswerBatch(s)
  <2>1. ToDo' < ToDo
    BY <1>10, BatchShrinks
  <2>2. pc \in {"next", "tool"} /\ pc' \in {"next", "tool"} /\ mode = "parallel"
    BY <1>10 DEF Gather, AnswerBatch
  <2>3. StepsLeft = ToDo + 2 /\ StepsLeft' = ToDo' + 2
    BY <1>2, <2>2
  <2> QED BY <1>2, <2>1, <2>3
<1>11. CASE BridgeStep
  <2>1. pc = "next" /\ pc' = "tool" /\ mode = "bridge" /\ at' = at
    BY <1>11 DEF BridgeStep
  <2>2. ToDo' = ToDo
    BY <1>2, <2>1
  <2> QED BY <1>2, <2>1, <2>2
<1>12. CASE EndPlan
  <2>1. StepsLeft = ToDo + 2 /\ StepsLeft' = 1
    BY <1>12 DEF EndPlan
  <2> QED BY <1>2, <2>1
<1>13. CASE Report
  BY <1>13 DEF Report
<1> QED BY <1>4, <1>5, <1>6, <1>7, <1>8, <1>9, <1>10, <1>11, <1>12, <1>13 DEF Proceed

\* Whatever the tools answer and whatever happens to the console, a run gets nearer
\* to its end with each of its steps.
THEOREM RunsBounded == Spec => StepsBounded
<1>1. ASSUME IInv, IInv', [Next]_vars
      PROVE  StepsLeft' <= StepsLeft /\ (Proceed => StepsLeft' < StepsLeft)
  <2>1. ToDo \in Nat /\ ToDo' \in Nat
    BY <1>1, ToDoNumber
  <2>2. StepsLeft \in Nat /\ StepsLeft' \in Nat
    BY <2>1 DEF StepsLeft
  <2>3. CASE Proceed
    <3>1. StepsLeft' < StepsLeft
      BY <1>1, <2>3, ProceedShrinks
    <3> QED BY <2>2, <3>1
  <2>4. CASE Cancel
    <3>1. StepsLeft' = 0
      BY <2>4 DEF Cancel, StepsLeft
    <3>2. ~Proceed \/ StepsLeft' < StepsLeft
      BY <1>1, ProceedShrinks
    <3> QED BY <2>2, <3>1, <3>2
  <2>5. CASE ~Proceed /\ (LoadShow \/ Age \/ UNCHANGED vars)
    <3>1. pc' = pc /\ at' = at /\ flight' = flight /\ result' = result
      BY <2>5 DEF LoadShow, Age, vars
    <3>2. ToDo' = ToDo /\ mode' = mode
      BY <1>1, <3>1, ToDoStep
    <3>3. StepsLeft' = StepsLeft
      BY <3>1, <3>2 DEF StepsLeft
    <3> QED BY <2>2, <2>5, <3>3
  <2> QED BY <1>1, <2>3, <2>4, <2>5 DEF Next
<1>2. IInv /\ IInv' /\ [Next]_vars
        => [StepsLeft' <= StepsLeft /\ (Proceed => StepsLeft' < StepsLeft)]_vars
  BY <1>1
<1> QED BY <1>2, Invariance, PTL DEF Spec, StepsBounded

\* The bound at the start of a run, and at every place of it: three steps for each of
\* the plan, and four around it.
THEOREM BoundOfARun == Spec => [](StepsLeft \in 0..3 * Len(plan) + 4)
<1>1. ASSUME IInv PROVE StepsLeft \in 0..3 * Len(plan) + 4
  <2>1. ToDo \in 0..3 * Len(plan) /\ Len(plan) \in Nat
    BY <1>1, ToDoBounds, PlanFacts DEF IInv
  <2> QED BY <2>1 DEF StepsLeft
<1> QED BY <1>1, Invariance, PTL
=============================================================================
