------------------------ MODULE KnowledgeGraphProofs ------------------------
(***************************************************************************)
(* Proofs about KnowledgeGraph and the SkillRegistry in it: for any show,  *)
(* any tools and any number of skills, changes, syncs and faults.          *)
(***************************************************************************)
EXTENDS KnowledgeGraph, TLAPS

-----------------------------------------------------------------------------
\* The rows of the registry, for the proofs about it.
RowsOK == rows \in [Skills -> Row \cup {NoSkill}]

LEMMA RegistryStep ==
    ASSUME RowsOK, ApprovedVersionByVersion, RegistryNext
    PROVE  RowsOK' /\ ApprovedVersionByVersion'
<1> USE SkillsAssumption DEF RowsOK
<1>1. ASSUME NEW s \in Skills, NEW version \in Nat \ {0}, NEW parent \in Skills \cup {NoSkill},
             NEW destructive \in BOOLEAN, rows[s] = NoSkill,
             Insert(s, version, parent, destructive, ~destructive), UNCHANGED vetted,
             parent # NoSkill => /\ parent \in Stored
                                 /\ rows[parent].version < version
                                 /\ rows[parent].destructive = destructive
      PROVE  RowsOK' /\ ApprovedVersionByVersion'
  <2> DEFINE new == [version |-> version, parent |-> parent, destructive |-> destructive,
                     approved |-> ~destructive, deprecated |-> FALSE]
  <2>1. new \in Row /\ rows' = [rows EXCEPT ![s] = new]
    BY <1>1 DEF Insert, Row
  <2>2. RowsOK'
    BY <2>1
  <2>3. Stored' = Stored \cup {s} /\ s \notin Stored
    BY <2>1, <1>1 DEF Stored
  <2>4. \A t \in Stored : rows'[t] = rows[t] /\ t # s
    BY <2>1, <1>1 DEF Stored
  <2>5. rows'[s] = new
    BY <2>1
  <2>6. parent # NoSkill => parent \in Stored /\ rows'[parent] = rows[parent]
    BY <2>4, <1>1
  <2>7. ApprovedVersionByVersion'
    <3> SUFFICES ASSUME NEW t \in Stored'
                 PROVE  /\ Usable(t)' /\ rows'[t].destructive => t \in vetted'
                        /\ rows'[t].parent # NoSkill =>
                             /\ rows'[t].parent \in Stored'
                             /\ rows'[rows'[t].parent].version < rows'[t].version
                             /\ rows'[rows'[t].parent].destructive = rows'[t].destructive
      BY DEF ApprovedVersionByVersion
    <3>1. CASE t = s
      <4> HIDE DEF RowsOK
      <4>1. ~(Usable(s)' /\ rows'[s].destructive)
        <5>1. rows'[s].approved = ~destructive /\ rows'[s].destructive = destructive
          BY <2>5
        <5> QED BY <5>1 DEF Usable
      <4>2. /\ rows'[s].parent = parent /\ rows'[s].version = version
            /\ rows'[s].destructive = destructive
        BY <2>5
      <4>3. parent # NoSkill => /\ parent \in Stored'
                                /\ rows'[parent].version < version
                                /\ rows'[parent].destructive = destructive
        BY <2>3, <2>6, <1>1
      <4> QED BY <3>1, <4>1, <4>2, <4>3
    <3>2. CASE t \in Stored
      BY <3>2, <2>3, <2>4, <1>1 DEF ApprovedVersionByVersion, Usable
    <3> QED BY <3>1, <3>2, <2>3
  <2> QED BY <2>2, <2>7
<1>2. ASSUME NEW s \in Skills, s \in Stored, NEW row \in Row,
             rows' = [rows EXCEPT ![s] = row],
             row.version = rows[s].version, row.parent = rows[s].parent,
             row.destructive = rows[s].destructive,
             row.approved => rows[s].approved \/ s \in vetted',
             vetted \subseteq vetted'
      PROVE  RowsOK' /\ ApprovedVersionByVersion'
  <2>1. RowsOK'
    BY <1>2
  <2>2. Stored' = Stored
    BY <1>2 DEF Stored
  <2>3. \A t \in Stored : /\ rows'[t].version = rows[t].version
                          /\ rows'[t].parent = rows[t].parent
                          /\ rows'[t].destructive = rows[t].destructive
                          /\ rows'[t].approved => rows[t].approved \/ t \in vetted'
    BY <1>2 DEF Stored
  <2>4. ApprovedVersionByVersion'
    <3> SUFFICES ASSUME NEW t \in Stored
                 PROVE  /\ Usable(t)' /\ rows'[t].destructive => t \in vetted'
                        /\ rows'[t].parent # NoSkill =>
                             /\ rows'[t].parent \in Stored
                             /\ rows'[rows'[t].parent].version < rows'[t].version
                             /\ rows'[rows'[t].parent].destructive = rows'[t].destructive
      BY <2>2 DEF ApprovedVersionByVersion
    <3>1. /\ Usable(t) /\ rows[t].destructive => t \in vetted
          /\ rows[t].parent # NoSkill =>
                /\ rows[t].parent \in Stored
                /\ rows[rows[t].parent].version < rows[t].version
                /\ rows[rows[t].parent].destructive = rows[t].destructive
      BY DEF ApprovedVersionByVersion
    <3> HIDE DEF RowsOK
    <3>2. Usable(t)' /\ rows'[t].destructive => t \in vetted'
      BY <3>1, <2>2, <2>3, <1>2 DEF Usable
    <3>3. ASSUME rows'[t].parent # NoSkill
          PROVE  /\ rows'[t].parent \in Stored
                 /\ rows'[rows'[t].parent].version < rows'[t].version
                 /\ rows'[rows'[t].parent].destructive = rows'[t].destructive
      BY <3>1, <3>3, <2>3
    <3> QED BY <3>2, <3>3
  <2> QED BY <2>1, <2>4
<1>3. ASSUME NEW s \in Skills, NEW destructive \in BOOLEAN, PromoteFromSession(s, destructive)
      PROVE  RowsOK' /\ ApprovedVersionByVersion'
  BY <1>3, <1>1 DEF PromoteFromSession
<1>4. ASSUME NEW s \in Skills, NEW old \in Skills, BumpVersion(s, old)
      PROVE  RowsOK' /\ ApprovedVersionByVersion'
  <2>1. old \in Stored /\ rows[old] \in Row
    BY <1>4 DEF BumpVersion, Stored
  <2>2. /\ rows[old].version + 1 \in Nat \ {0} /\ rows[old].destructive \in BOOLEAN
        /\ rows[old].version < rows[old].version + 1
    BY <2>1 DEF Row
  <2> QED BY <1>4, <2>1, <2>2, <1>1 DEF BumpVersion
<1>5. ASSUME NEW s \in Skills, Approve(s)
      PROVE  RowsOK' /\ ApprovedVersionByVersion'
  <2>1. s \in Stored /\ rows[s] \in Row
    BY <1>5 DEF Approve, Stored
  <2> DEFINE row == [rows[s] EXCEPT !.approved = TRUE]
  <2>2. /\ row \in Row /\ row.version = rows[s].version /\ row.parent = rows[s].parent
        /\ row.destructive = rows[s].destructive
    BY <2>1 DEF Row
  <2>3. rows' = [rows EXCEPT ![s] = row] /\ s \in vetted' /\ vetted \subseteq vetted'
    BY <1>5 DEF Approve
  <2> QED BY <2>1, <2>2, <2>3, <1>2
<1>6. ASSUME NEW s \in Skills, Deprecate(s)
      PROVE  RowsOK' /\ ApprovedVersionByVersion'
  <2>1. s \in Stored /\ rows[s] \in Row
    BY <1>6 DEF Deprecate, Stored
  <2> DEFINE row == [rows[s] EXCEPT !.deprecated = TRUE]
  <2>2. /\ row \in Row /\ row.version = rows[s].version /\ row.parent = rows[s].parent
        /\ row.destructive = rows[s].destructive /\ row.approved = rows[s].approved
    BY <2>1 DEF Row
  <2>3. rows' = [rows EXCEPT ![s] = row] /\ vetted' = vetted
    BY <1>6 DEF Deprecate
  <2> QED BY <2>1, <2>2, <2>3, <1>2
<1> QED BY <1>3, <1>4, <1>5, <1>6 DEF RegistryNext

-----------------------------------------------------------------------------
\* TypeOK without the rows.
GraphOK ==
    /\ nodes \in [Objects -> Labels \cup {Absent}]
    /\ snap \in [Objects -> Labels \cup {Absent}]
    /\ others \subseteq McpNodes \cup Skills
    /\ fresh \subseteq Present
    /\ pc \in {"idle", "reading", "objects", "cues", "prune"}
    /\ edges \subseteq Node \X Node

ConsoleOK == console \in [Objects -> Labels \cup {Absent}]

\* Where a sync is, and what it has touched by then.
SyncOrder ==
    /\ pc = "idle" => snap = Nothing
    /\ pc = "cues" => Snapped \ Cues \subseteq seen
    /\ pc = "prune" => Snapped \subseteq seen

\* FreshIsCurrent for what the graph gets next: the snapshot is wrong only where the
\* graph may be, or where it was misread.
SnapshotIsCurrent ==
    \A o \in Snapped : snap[o] # console[o] => o \in excused \cup agent.did \cup misread

\* The step of an agent has changed objects of the types of its tool.
StepOK ==
    agent = NoStep \/
    /\ agent.tool \in Tools
    /\ agent.did \subseteq Objects
    /\ Impact[agent.tool] = {} \/ {Type[c] : c \in agent.did} \subseteq Impact[agent.tool]

Inv ==
    /\ RowsOK /\ ApprovedVersionByVersion
    /\ GraphOK /\ ConsoleOK /\ SyncOrder
    /\ SnapshotIsCurrent /\ FreshIsCurrent /\ StepOK

LEMMA ChangeStep ==
    ASSUME Inv, NEW o \in Objects, Change(o)
    PROVE  /\ ConsoleOK'
           /\ \A p \in Objects : console'[p] # console[p] => p \in Changed
           /\ Changed \subseteq Objects
BY DEF Change, Changed, ConsoleOK, Inv, With, Shows

LEMMA InitInv == Init => Inv
<1> SUFFICES ASSUME Init PROVE Inv
  OBVIOUS
<1> USE ConstantsAssumption, SkillsAssumption DEF Init
<1>1. RowsOK /\ ApprovedVersionByVersion
  BY DEF RegistryInit, RowsOK, ApprovedVersionByVersion, Stored, Usable
<1>2. Present = {} /\ Snapped = {}
  BY DEF Present, Snapped, Nothing
<1>3. GraphOK
  BY <1>2 DEF GraphOK, Node, Nothing
<1> QED BY <1>1, <1>2, <1>3 DEF Inv, ConsoleOK, Shows, SyncOrder, SnapshotIsCurrent,
             FreshIsCurrent, StepOK

LEMMA NextInv == Inv /\ [Next]_vars => Inv'
<1> SUFFICES ASSUME Inv, [Next]_vars PROVE Inv'
  OBVIOUS
<1> USE ConstantsAssumption, SkillsAssumption DEF Inv
<1>0. ASSUME UNCHANGED registry
      PROVE  RowsOK' /\ ApprovedVersionByVersion'
  BY <1>0 DEF registry, RowsOK, ApprovedVersionByVersion, Stored, Usable
<1>1. ASSUME UNCHANGED <<console, agent, graph, sync, excused>>
      PROVE  /\ GraphOK' /\ ConsoleOK' /\ SyncOrder'
             /\ SnapshotIsCurrent' /\ FreshIsCurrent' /\ StepOK'
  BY <1>1 DEF graph, sync, GraphOK, ConsoleOK, SyncOrder, SnapshotIsCurrent, FreshIsCurrent,
     StepOK, Present, Snapped, Node
<1>2. CASE UNCHANGED vars
  BY <1>2, <1>0, <1>1 DEF vars
<1>3. CASE RegistryNext /\ UNCHANGED <<console, agent, graph, sync, bounds, excused>>
  BY <1>3, <1>1, RegistryStep
<1>4. ASSUME NEW o \in Objects, OutsideChange(o) PROVE Inv'
  <2>1. UNCHANGED registry /\ UNCHANGED <<agent, graph, sync>>
    BY <1>4 DEF OutsideChange
  <2>2. GraphOK' /\ SyncOrder' /\ StepOK'
    BY <2>1 DEF graph, sync, GraphOK, SyncOrder, StepOK, Present, Snapped, Node
  <2>3. SnapshotIsCurrent' /\ FreshIsCurrent'
    BY <1>4, <2>1, ChangeStep DEF OutsideChange, graph, sync, SnapshotIsCurrent, FreshIsCurrent,
       Snapped, GraphOK, Present
  <2> QED BY <1>0, <1>4, <2>1, <2>2, <2>3, ChangeStep DEF OutsideChange
<1>5. ASSUME NEW o \in Objects, NEW tool \in Tools, StepChange(tool, o) PROVE Inv'
  <2>1. UNCHANGED registry /\ UNCHANGED <<excused, graph, sync>> /\ agent.did = {}
    BY <1>5 DEF StepChange, NoStep
  <2>2. GraphOK' /\ SyncOrder' /\ StepOK'
    BY <2>1, <1>5, ChangeStep DEF graph, sync, GraphOK, SyncOrder, StepOK, Present, Snapped, Node, StepChange
  <2>3. SnapshotIsCurrent' /\ FreshIsCurrent'
    BY <1>5, <2>1, ChangeStep DEF StepChange, graph, sync, SnapshotIsCurrent, FreshIsCurrent,
       Snapped, GraphOK, Present
  <2> QED BY <1>0, <1>5, <2>1, <2>2, <2>3, ChangeStep DEF StepChange
<1>6. CASE StepDone
  <2>1. UNCHANGED <<registry, console, nodes, others, edges, sync>> /\ agent' = NoStep
    BY <1>6 DEF StepDone
  <2>2. GraphOK' /\ SyncOrder' /\ StepOK' /\ ConsoleOK'
    BY <2>1, <1>6 DEF sync, GraphOK, SyncOrder, StepOK, ConsoleOK, Present, Snapped, Node, StepDone
  <2>3. SnapshotIsCurrent'
    BY <1>6, <2>1 DEF StepDone, sync, SnapshotIsCurrent, Snapped
  <2>4. FreshIsCurrent'
    BY <1>6, <2>1 DEF StepDone, FreshIsCurrent, MarkedBy, StepOK, GraphOK, Present
  <2> QED BY <1>0, <2>1, <2>2, <2>3, <2>4
<1>7. CASE StepFails
  <2>1. UNCHANGED <<registry, console, graph, sync>> /\ agent' = NoStep
    BY <1>7 DEF StepFails
  <2> QED BY <1>0, <2>1, <1>7 DEF StepFails, graph, sync, GraphOK, ConsoleOK, SyncOrder,
        SnapshotIsCurrent, FreshIsCurrent, StepOK, Present, Snapped, Node
<1>8. CASE Hydrate
  <2>1. Snapped' = {}
    BY <1>8 DEF Hydrate, Snapped, Nothing
  <2> QED BY <1>0, <2>1, <1>8 DEF Hydrate, graph, GraphOK, ConsoleOK, SyncOrder,
        SnapshotIsCurrent, FreshIsCurrent, StepOK, Present, Node, Nothing
<1>9. ASSUME NEW x, NEW heard, File(x, heard), misread \subseteq misread',
             \A o \in Content(x) : /\ heard[o] \in Labels \cup {Absent}
                                   /\ heard[o] # console[o] => o \in misread'
      PROVE  Inv'
  <2>1. UNCHANGED <<registry, console, agent, graph, pc, excused>> /\ pc = "reading"
    BY <1>9 DEF File
  <2>2. snap' = [o \in Objects |-> IF o \in Content(x) THEN heard[o] ELSE snap[o]]
    BY <1>9 DEF File
  <2>3. GraphOK'
    BY <2>1, <2>2, <1>9 DEF graph, GraphOK, Present, Node
  <2>4. SnapshotIsCurrent'
    BY <2>1, <2>2, <1>9 DEF SnapshotIsCurrent, Snapped
  <2>5. ConsoleOK' /\ SyncOrder' /\ FreshIsCurrent' /\ StepOK'
    BY <2>1 DEF graph, ConsoleOK, SyncOrder, FreshIsCurrent, StepOK
  <2> QED BY <1>0, <2>1, <2>3, <2>4, <2>5
<1>9a. ASSUME NEW x, ReadPool(x) PROVE Inv'
  <2>1. \A o \in Content(x) : console[o] \in Labels \cup {Absent}
    BY DEF Content, ConsoleOK
  <2> QED BY <1>9, <1>9a, <2>1 DEF ReadPool
<1>9b. ASSUME NEW x, Misread(x) PROVE Inv'
  BY <1>9, <1>9b DEF Misread
<1>10. ASSUME NEW x, ReadFails(x) PROVE Inv'
  BY <1>0, <1>10 DEF ReadFails, graph, GraphOK, ConsoleOK, SyncOrder,
        SnapshotIsCurrent, FreshIsCurrent, StepOK, Present, Node, Snapped
<1>11. CASE BeginSync
  BY <1>0, <1>11 DEF BeginSync, graph, GraphOK, ConsoleOK, SyncOrder,
        SnapshotIsCurrent, FreshIsCurrent, StepOK, Present, Node, Snapped
<1>12. ASSUME NEW o \in Snapped, UpsertNode(o), UNCHANGED <<registry, console, agent, others, pc, snap>>,
              pc # "idle", edges' \subseteq Node' \X Node', Snapped \ Cues \subseteq seen \/ pc = "objects",
              pc # "prune"
       PROVE  Inv'
  <2>1. /\ nodes' \in [Objects -> Labels \cup {Absent}] /\ Present' = Present \cup {o}
        /\ o \in Objects /\ Snapped' = Snapped
    BY <1>12 DEF UpsertNode, GraphOK, Present, Snapped
  <2>2. GraphOK' /\ ConsoleOK' /\ StepOK' /\ SyncOrder'
    BY <1>12, <2>1 DEF UpsertNode, GraphOK, ConsoleOK, StepOK, SyncOrder
  <2>3. SnapshotIsCurrent'
    BY <1>12, <2>1 DEF UpsertNode, SnapshotIsCurrent
  <2>4. FreshIsCurrent'
    BY <1>12, <2>1 DEF UpsertNode, SnapshotIsCurrent, FreshIsCurrent, GraphOK, Present
  <2> QED BY <1>0, <1>12, <2>2, <2>3, <2>4
<1>13. ASSUME NEW o \in Objects, SyncObject(o) PROVE Inv'
  <2>1. edges' \subseteq Node' \X Node'
    BY <1>13 DEF SyncObject, UpsertNode, GraphOK, Node, Present, Snapped
  <2> QED BY <2>1, <1>13, <1>12 DEF SyncObject
<1>14. CASE ObjectsSynced
  BY <1>0, <1>14 DEF ObjectsSynced, graph, GraphOK, ConsoleOK, SyncOrder,
        SnapshotIsCurrent, FreshIsCurrent, StepOK, Present, Node, Snapped
<1>15. ASSUME NEW o \in Objects, SyncCue(o) PROVE Inv'
  <2>1. Present' = Present \cup {o}
    BY <1>15 DEF SyncCue, UpsertNode, GraphOK, Present, Snapped
  <2>2. CueEdges(o) \subseteq (Present \cup {o}) \X (Present \cup {o})
    BY DEF CueEdges
  <2>3. edges' \subseteq Node' \X Node'
    BY <1>15, <2>1, <2>2 DEF SyncCue, GraphOK, Node
  <2> QED BY <2>3, <1>15, <1>12 DEF SyncCue, SyncOrder
<1>16. CASE CuesSynced
  BY <1>0, <1>16 DEF CuesSynced, graph, GraphOK, ConsoleOK, SyncOrder,
        SnapshotIsCurrent, FreshIsCurrent, StepOK, Present, Node, Snapped
<1>17. CASE PruneEdge
  BY <1>0, <1>17 DEF PruneEdge, sync, GraphOK, ConsoleOK, SyncOrder,
        SnapshotIsCurrent, FreshIsCurrent, StepOK, Present, Node, Snapped
<1>18. CASE PruneNode
  <2>1. PICK n \in ToPrune : DeleteNode(n)
    BY <1>18 DEF PruneNode
  <2>2. Present' = Present \ {n} /\ Node' = Node \ {n}
    BY <2>1 DEF DeleteNode, Present, Node, GraphOK
  <2>3. GraphOK'
    <3>1. edges' \subseteq Node' \X Node'
      BY <2>1, <2>2 DEF DeleteNode, GraphOK
    <3> QED BY <1>18, <2>1, <2>2, <3>1 DEF PruneNode, DeleteNode, GraphOK, sync
  <2>4. FreshIsCurrent'
    BY <1>18, <2>1 DEF PruneNode, DeleteNode, FreshIsCurrent, GraphOK, Present
  <2> QED BY <1>0, <1>18, <2>3, <2>4 DEF PruneNode, sync, ConsoleOK, SyncOrder,
        SnapshotIsCurrent, StepOK, Snapped
<1>19. ASSUME Return, UNCHANGED <<registry, console, agent, graph, excused>> PROVE Inv'
  <2>1. Snapped' = {}
    BY <1>19 DEF Return, Snapped, Nothing
  <2> QED BY <1>0, <2>1, <1>19 DEF Return, graph, GraphOK, ConsoleOK, SyncOrder,
        SnapshotIsCurrent, FreshIsCurrent, StepOK, Present, Node, Nothing
<1>20. CASE EndSync
  BY <1>20, <1>19 DEF EndSync
<1>21. CASE SyncRaises
  BY <1>21, <1>19 DEF SyncRaises
<1>22. CASE SyncSkills
  <2>1. edges' \subseteq Node' \X Node'
    BY <1>22 DEF SyncSkills, GraphOK, Node, Present
  <2> QED BY <1>0, <2>1, <1>22 DEF SyncSkills, sync, GraphOK, ConsoleOK, SyncOrder,
        SnapshotIsCurrent, FreshIsCurrent, StepOK, Present, Snapped, Listed, Stored
<1> QED
  BY <1>2, <1>3, <1>4, <1>5, <1>6, <1>7, <1>8, <1>9a, <1>9b, <1>10, <1>11, <1>13, <1>14, <1>15,
     <1>16, <1>17, <1>18, <1>20, <1>21, <1>22 DEF Next

-----------------------------------------------------------------------------
LEMMA Invariance == Spec => []Inv
BY InitInv, NextInv, PTL DEF Spec

\* The tables are well typed, edges are between nodes and no statement of a
\* sync meets a foreign key.
THEOREM TypeCorrect == Spec => []TypeOK
<1>1. Inv => TypeOK
  BY DEF Inv, TypeOK, RowsOK, GraphOK
<1> QED BY <1>1, Invariance, PTL

\* What is marked as fresh is current, but for the named exceptions.
THEOREM FreshIsCurrentAlways == Spec => []FreshIsCurrent
<1>1. Inv => FreshIsCurrent
  BY DEF Inv
<1> QED BY <1>1, Invariance, PTL

\* No version of a destructive skill is usable without its own approval.
THEOREM ApprovalIsPerVersion == Spec => []ApprovedVersionByVersion
<1>1. Inv => ApprovedVersionByVersion
  BY DEF Inv
<1> QED BY <1>1, Invariance, PTL

\* A sync, complete or not, removes nothing of the snapshot from the graph.
THEOREM ReadableThroughout == Spec => StaysReadable
<1> DEFINE Keeps == Syncing => \A o \in Present \cap Snapped : nodes'[o] # Absent
<1>1. Inv /\ [Next]_vars => [Keeps]_vars
  <2> SUFFICES ASSUME Inv, Next, Syncing, NEW o \in Present \cap Snapped
               PROVE  nodes'[o] # Absent
    OBVIOUS
  <2>1. o \in Objects /\ nodes[o] # Absent /\ snap[o] # Absent
    BY DEF Present, Snapped
  <2>2. CASE UNCHANGED nodes
    BY <2>1, <2>2
  <2>3. ASSUME NEW p \in Objects, UpsertNode(p) PROVE nodes'[o] # Absent
    BY <2>1, <2>3 DEF UpsertNode, Inv, GraphOK
  <2>4. CASE PruneNode
    <3>1. o \in seen
      BY <2>1, <2>4 DEF PruneNode, Inv, SyncOrder, Snapped
    <3> QED BY <2>1, <3>1, <2>4 DEF PruneNode, DeleteNode, ToPrune
  <2> QED BY <2>2, <2>3, <2>4 DEF Next, OutsideChange, StepChange, StepDone, StepFails, Hydrate,
        ReadPool, Misread, File, ReadFails, BeginSync, SyncObject, ObjectsSynced, SyncCue, CuesSynced,
        PruneEdge, EndSync, SyncRaises, SyncSkills, graph
<1> QED BY <1>1, Invariance, PTL DEF Spec, StaysReadable
=============================================================================
