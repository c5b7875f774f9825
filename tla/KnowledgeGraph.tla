--------------------------- MODULE KnowledgeGraph ---------------------------
(***************************************************************************)
(* The knowledge graph of the server (knowledge_graph/): a snapshot of the *)
(* console is read pool by pool (console_state.py) while other commands    *)
(* change the console, and then synced, statement by statement, each with  *)
(* a commit of its own; a tool step of an agent marks what it may have     *)
(* changed as stale (agent/executor.py); skills and MCP metadata are synced*)
(* as nodes too.  A sync runs without an await: in the server nothing but  *)
(* the console and other processes acts during one, but it may raise.      *)
(***************************************************************************)
EXTENDS SkillRegistry

CONSTANTS
    Objects,    \* what a console may hold
    Type,       \* node type of each
    Owner,      \* sequence of each cue
    Labels, Absent,
    Tools,      \* tools of the modifying steps of agents
    Impact,     \* node types each of them affects, {} for any
    McpNodes, McpEdges,         \* from sync_resources, at the start
    MaxChanges, MaxSyncs, MaxFaults     \* bounds

Cues == {o \in Objects : Type[o] = "cue"}
Pools == {Type[o] : o \in Objects \ Cues}
Sequences == {o \in Objects : Type[o] = "sequence"}

\* What "everything" is in _mark_stale_nodes.
Markable == {"fixture", "group", "sequence", "cue", "executor", "preset"}

ASSUME ConstantsAssumption ==
    /\ Owner \in [Cues -> Sequences]
    /\ Impact \in [Tools -> SUBSET Markable]
    /\ Absent \notin Labels
    /\ McpEdges \subseteq McpNodes \X McpNodes
    /\ Objects \cap McpNodes = {} /\ Skills \cap (Objects \cup McpNodes) = {}

VARIABLES
    console,    \* label of each object on the console
    agent,      \* the modifying step under way: idle or [tool, did]
    pc,         \* idle, reading, or the phase of sync_snapshot
    toRead,     \* pools, and sequences for their cues, not read yet
    snap,       \* label of each object in the snapshot
    nodes,      \* label of each object node
    fresh,      \* object nodes that are not marked as stale
    others,     \* the other nodes: skills and MCP metadata
    edges,
    seen, seenEdges,            \* touched by this sync
    changes, syncs, faults,
    misread,    \* ghost: objects of the snapshot with the label of something else
    excused     \* ghost: objects whose node is wrong for a cause that nothing marks

graph == <<nodes, fresh, others, edges>>
sync == <<pc, toRead, snap, misread, seen, seenEdges>>
bounds == <<changes, syncs, faults>>
vars == <<registry, console, agent, graph, sync, bounds, excused>>

Present == {o \in Objects : nodes[o] # Absent}
Node == Present \cup others
OnConsole == {o \in Objects : console[o] # Absent}
Snapped == {o \in Objects : snap[o] # Absent}
Syncing == pc \in {"objects", "cues", "prune"}
NoStep == [tool |-> "none", did |-> {}]
Nothing == [o \in Objects |-> Absent]

\* What a show may hold: a cue is part of a sequence.
Shows == {c \in [Objects -> Labels \cup {Absent}] :
            \A o \in Cues : c[o] # Absent => c[Owner[o]] # Absent}

Init ==
    /\ RegistryInit
    /\ console \in Shows
    /\ agent = NoStep
    /\ pc = "idle" /\ toRead = {} /\ snap = Nothing
    /\ nodes = Nothing /\ fresh = {} /\ others = McpNodes /\ edges = McpEdges
    /\ misread = {} /\ seen = {} /\ seenEdges = {}
    /\ changes = 0 /\ syncs = 0 /\ faults = 0
    /\ excused = {}

(***************************************************************************)
(* Changes of the console.                                                 *)
(***************************************************************************)
\* The objects that go when o goes.
With(o) == {o} \cup {c \in Cues : Owner[c] = o}

Change(o) ==
    /\ changes < MaxChanges
    /\ changes' = changes + 1
    /\ \/ \E new \in Labels \ {console[o]} : console' = [console EXCEPT ![o] = new]
       \/ console' = [c \in Objects |-> IF c \in With(o) THEN Absent ELSE console[c]]
    /\ console' # console /\ console' \in Shows

Changed == {o \in Objects : console'[o] # console[o]}

\* A change of the operator at the console, or of any tool called outside an
\* agent's plan: nothing marks the graph.
OutsideChange(o) ==
    /\ Change(o)
    /\ excused' = excused \cup Changed
    /\ UNCHANGED <<registry, agent, graph, sync, syncs, faults>>

\* The tool of an agent's step changes objects of the types it affects.
StepChange(tool, o) ==
    /\ agent = NoStep
    /\ Change(o)
    /\ Impact[tool] = {} \/ {Type[c] : c \in Changed} \subseteq Impact[tool]
    /\ agent' = [tool |-> tool, did |-> Changed]
    /\ UNCHANGED <<registry, graph, sync, syncs, faults, excused>>

\* Mutant: an empty list is taken for what it says.
MarkedByListed(tool) == Impact[tool]

\* Types that are marked after a step of the tool.
MarkedBy(tool) == IF Impact[tool] = {} THEN Markable ELSE Impact[tool]

\* The step is completed and marks the nodes of those types as stale.
StepDone ==
    /\ agent # NoStep /\ ~Syncing
    /\ LET stale == {o \in Objects : Type[o] \in MarkedBy(agent.tool)}
       IN  /\ fresh' = fresh \ stale
           \* worlds and filters are marked by no tool, and the mark is lost on what
           \* the hydration under way had read before it was changed
           /\ excused' = excused \cup {o \in agent.did : Type[o] \notin Markable}
                  \cup {o \in agent.did \cap Snapped : snap[o] # console[o]}
    /\ agent' = NoStep
    /\ UNCHANGED <<registry, console, nodes, others, edges, sync, bounds>>

\* The tool reports an error after its effect: the step marks nothing.
StepFails ==
    /\ agent # NoStep /\ ~Syncing
    /\ faults < MaxFaults
    /\ faults' = faults + 1
    /\ excused' = excused \cup agent.did
    /\ agent' = NoStep
    /\ UNCHANGED <<registry, console, graph, sync, changes, syncs>>

(***************************************************************************)
(* hydrate().                                                              *)
(***************************************************************************)
Hydrate ==
    /\ pc = "idle" /\ syncs < MaxSyncs
    /\ syncs' = syncs + 1
    /\ pc' = "reading"
    /\ \E deep \in SUBSET Sequences : toRead' = Pools \cup deep
    /\ snap' = Nothing /\ misread' = {}
    /\ UNCHANGED <<registry, console, agent, graph, seen, seenEdges, changes, faults, excused>>

\* What one read returns: the objects of a pool, or the cues of a sequence.
Content(x) == {o \in Objects : IF o \in Cues THEN Owner[o] = x ELSE Type[o] = x}

\* The pools come before the sequences.
Due == IF toRead \cap Pools # {} THEN toRead \cap Pools ELSE toRead

\* What was heard in the read of x is filed as the content of x.
File(x, heard) ==
    /\ pc = "reading" /\ x \in Due
    /\ toRead' = toRead \ {x}
    /\ snap' = [o \in Objects |-> IF o \in Content(x) THEN heard[o] ELSE snap[o]]
    /\ UNCHANGED <<registry, console, agent, graph, pc, seen, seenEdges, changes, syncs, excused>>

\* The list was taken in x.
ReadPool(x) ==
    /\ File(x, console)
    /\ UNCHANGED <<misread, faults>>

\* The list was taken elsewhere: a pool's after the walk of another pool has moved
\* the one location that all pools share, a sequence's when its cd has not moved it,
\* and either, for a fault, when another caller of the login has moved it or has had
\* the answer, or an earlier walk was cut short.  ConsoleLocation has the walks and
\* TelnetChannel the answers; here what may be heard is any choice.
Misread(x) ==
    /\ \E heard \in [Content(x) -> Labels \cup {Absent}] :
          /\ File(x, heard)
          /\ misread' = misread \cup {o \in Content(x) : heard[o] # console[o]}
    /\ IF x \in Pools \cup (Sequences \ OnConsole) THEN UNCHANGED faults
       ELSE faults < MaxFaults /\ faults' = faults + 1

\* A read raises: the snapshot is partial, and used all the same.
ReadFails(x) ==
    /\ pc = "reading" /\ x \in Due
    /\ faults < MaxFaults
    /\ faults' = faults + 1
    /\ toRead' = toRead \ {x}
    /\ UNCHANGED <<registry, console, agent, graph, pc, snap, misread, seen, seenEdges,
                   changes, syncs, excused>>

(***************************************************************************)
(* sync_snapshot().                                                        *)
(***************************************************************************)
BeginSync ==
    /\ pc = "reading" /\ toRead = {}
    /\ pc' = "objects"
    /\ seen' = {} /\ seenEdges' = {}
    /\ UNCHANGED <<registry, console, agent, graph, toRead, snap, misread, bounds, excused>>

\* upsert_node: the time it stamps is that of the statement, not of the read, and
\* nothing tells that the label was heard elsewhere.
UpsertNode(o) ==
    /\ nodes' = [nodes EXCEPT ![o] = snap[o]]
    /\ fresh' = fresh \cup {o}
    /\ seen' = seen \cup {o}
    /\ excused' = IF snap[o] = console[o] THEN excused \ {o} ELSE excused \cup ({o} \cap misread)
    /\ misread' = misread \ {o}

\* An entry of the name index.
SyncObject(o) ==
    /\ pc = "objects" /\ o \in (Snapped \ Cues) \ seen
    /\ UpsertNode(o)
    /\ UNCHANGED <<registry, console, agent, others, edges, pc, toRead, snap, seenEdges, bounds>>

ObjectsSynced ==
    /\ pc = "objects" /\ Snapped \ Cues \subseteq seen
    /\ pc' = "cues"
    /\ UNCHANGED <<registry, console, agent, graph, toRead, snap, misread, seen, seenEdges, bounds,
                   excused>>

\* Edges the store gets for a cue: HAS_CUE, if the graph has its sequence, be
\* it left from an earlier sync.
\* Mutant: whether it has or not.
CueEdgesAlways(o) == {<<Owner[o], o>>}

CueEdges(o) == {<<Owner[o], o>> : s \in Present \cap {Owner[o]}}

SyncCue(o) ==
    /\ pc = "cues" /\ o \in (Snapped \cap Cues) \ seen
    /\ UpsertNode(o)
    /\ edges' = edges \cup CueEdges(o)
    /\ seenEdges' = seenEdges \cup CueEdges(o)
    /\ UNCHANGED <<registry, console, agent, others, pc, toRead, snap, bounds>>

CuesSynced ==
    /\ pc = "cues" /\ Snapped \cap Cues \subseteq seen
    /\ pc' = "prune"
    /\ UNCHANGED <<registry, console, agent, graph, toRead, snap, misread, seen, seenEdges, bounds,
                   excused>>

\* _prune_stale: first the edges, one by one, ...
PruneEdge ==
    /\ pc = "prune"
    /\ \E e \in edges \ seenEdges : edges' = edges \ {e}
    /\ UNCHANGED <<registry, console, agent, nodes, fresh, others, sync, bounds, excused>>

\* delete_node, and what the foreign keys delete with it.
DeleteNode(n) ==
    /\ nodes' = [o \in Objects |-> IF o = n THEN Absent ELSE nodes[o]]
    /\ fresh' = fresh \ {n}
    /\ others' = others \ {n}
    /\ edges' = {e \in edges : n \notin {e[1], e[2]}}

\* Mutant: the nodes to keep are those of the name index.
ToPruneCues == Node \ (seen \ Cues)

ToPrune == Node \ seen

\* ... then the nodes, whoever made them.
PruneNode ==
    /\ pc = "prune" /\ edges \subseteq seenEdges
    /\ \E n \in ToPrune : DeleteNode(n)
    /\ UNCHANGED <<registry, console, agent, sync, bounds, excused>>

\* The locals of the sync are gone.
Return ==
    /\ pc' = "idle"
    /\ snap' = Nothing /\ misread' = {} /\ seen' = {} /\ seenEdges' = {}

EndSync ==
    /\ pc = "prune" /\ edges \subseteq seenEdges /\ ToPrune = {}
    /\ Return
    /\ UNCHANGED <<registry, console, agent, graph, toRead, bounds, excused>>

\* A statement raises: the orchestrator logs it and goes on.
SyncRaises ==
    /\ Syncing
    /\ faults < MaxFaults
    /\ faults' = faults + 1
    /\ Return
    /\ UNCHANGED <<registry, console, agent, graph, toRead, changes, syncs, excused>>

\* sync_skills(): the skills that are listed, and edges to those parents that
\* the graph has a node of.
SyncSkills ==
    /\ pc = "idle"
    /\ others' = others \cup Listed
    /\ edges' = edges \cup
          {<<s, rows[s].parent>> : s \in {c \in Listed : rows[c].parent \in others'}}
    /\ UNCHANGED <<registry, console, agent, nodes, fresh, sync, bounds, excused>>

\* Commits of the registry commute with everything but SyncSkills: they are
\* taken where that may be.
Next ==
    \/ pc = "idle" /\ RegistryNext /\ UNCHANGED <<console, agent, graph, sync, bounds, excused>>
    \/ \E o \in Objects :
          \/ OutsideChange(o) \/ SyncObject(o) \/ SyncCue(o)
          \/ \E tool \in Tools : StepChange(tool, o)
    \/ \E x \in Pools \cup Sequences : ReadPool(x) \/ Misread(x) \/ ReadFails(x)
    \/ StepDone \/ StepFails \/ Hydrate \/ BeginSync \/ ObjectsSynced
    \/ CuesSynced \/ PruneEdge \/ PruneNode \/ EndSync \/ SyncRaises \/ SyncSkills

Spec == Init /\ [][Next]_vars

-----------------------------------------------------------------------------
\* Type correctness and the foreign keys: an edge is between nodes.  SQLite
\* refuses another, which would end the sync.
TypeOK ==
    /\ rows \in [Skills -> Row \cup {NoSkill}]
    /\ nodes \in [Objects -> Labels \cup {Absent}]
    /\ snap \in [Objects -> Labels \cup {Absent}]
    /\ others \subseteq McpNodes \cup Skills
    /\ fresh \subseteq Present
    /\ pc \in {"idle", "reading", "objects", "cues", "prune"}
    /\ edges \subseteq Node \X Node

\* What is in the graph and in the snapshot that is synced never leaves the
\* graph, not even in a sync that raises half-way ("keeps the graph readable
\* during sync", sync_snapshot()).
StaysReadable ==
    [][Syncing => \A o \in Present \cap Snapped : nodes'[o] # Absent]_vars

\* A node that is not marked as stale has the label its object has on the
\* console (_mark_stale_nodes(); check_graph_freshness relies on it), with these
\* exceptions: a step is at work on the object; it was changed outside an agent's
\* step, by a step that reported an error, as a world or a filter, or by a step
\* that was completed after a hydration had read it with its old label and before
\* that was synced; or its label was misread, the list having been taken elsewhere.
FreshIsCurrent ==
    \A o \in fresh : nodes[o] # console[o] => o \in excused \cup agent.did
=============================================================================
