# Formal models of ma2-onPC-MCP

TLA+ models, TLC runs and TLAPS proofs for the MCP server that drives a grandMA2
lighting console over Telnet. Paths such as `session_manager.py` are relative to
`src/src/`; `rag/` and `README.md` of the program are relative to `src/`.

## The system

An MCP client calls tools. Every tool runs in one asyncio event loop, gets the
Telnet client of its operator from a pool, sends commands to the console and reads
text back. Around this core the repository has an agent that executes plans of
tools, an orchestrator that executes decomposed tasks, a picture of the console's
state, a permission stack, a knowledge graph, a skill registry and a RAG store.

| component | state it keeps | operations | talks to | what makes it correct |
|---|---|---|---|---|
| Session pool (`session_manager.py`) | `_sessions`, `_lock`, keepalive task | `get`, `release`, `cleanup_expired`, `close_all`, keepalive loop | one `GMA2TelnetClient` per operator; called by `server_core.get_client` | bound, no connection lost or shared between operators, open clients only, every call ends, idle sessions expire |
| Circuit breaker (`telnet_client.py`) | state, failure count, last failure time | `allow_request`, `record_success`, `record_failure`, `reset` | every command of a client | fails fast, recovers, state and count agree |
| Telnet client (`telnet_client.py`) | reader, writer, connection flag | `connect`, `login`, `send_command`, `send_command_with_response`, `disconnect` | the console | a response belongs to its command |
| Agent run (`agent/executor.py`, `runtime.py`, `memory.py`, `policy.py`, `verification.py`, `rollback.py`, `trace.py`) | `RunContext`, step statuses, `ProgressMonitor`; SQLite: `run_history`, `step_checkpoints` | `run`, `execute_plan`, `resume_run` | tools, operator (`on_confirm`), SQLite | dependencies, checkpoints that allow recovery, no repeated steps, every run ends |
| Planner and workflows (`agent/planner.py`, `agent/workflows/`) | none | goal text to plan | agent run | plans refer to earlier steps |
| Agent bridge (`agent_bridge.py`) | none | subtasks to plan steps and back | orchestrator, executor | dependencies survive the conversion |
| Orchestrator (`orchestrator.py`, `task_decomposer.py`, `agent_memory.py`) | working memory, long-term memory | `run`, sequential, parallel, bridge, guards, `delegate` | tools, hydrator, bridge | dependencies, guards before destructive steps |
| Console state hydrator (`console_state.py`) | snapshot, name index | `hydrate` in three phases, pools concurrently | console location | entries indexed under their own pool |
| Navigation (`navigation.py`, `prompt_parser.py`) | the console's current location (shared) | `navigate`, `list_destination`, `set_property`, `scan_indexes` | console | location restored, property really set |
| Tool wrapper (`server_core.py`) | singletons | licence gate, rights gate, tool, telemetry | everything | no console I/O behind a closed gate |
| Permissions (`rights.py`, `auth.py`, `credentials.py`, `license*.py`) | environment | scopes to rights, console user, tier | wrapper, pool | the layers agree |
| RAG ingest and store (`rag/ingest`, `rag/store`) | SQLite: documents, chunks | `ingest` in batches | embedding provider | every document ends up indexed |
| Knowledge graph (`knowledge_graph/`) | SQLite: nodes, edges | snapshot sync with pruning, skill, tool and resource sync | hydrator, skills | no writer removes another's nodes |
| Skill registry (`skill.py`) | SQLite: skills | save, approve, deprecate, promote, bump | tools | versions keep their restrictions |
| Everything else (`commands/`, `vocab.py`, `categorization/`, telemetry, sampling, completions, community tools) | none or append-only | string building, tables, adapters | | unit tests |

The hard behaviours are the interleavings at every `await` of the event loop (pool,
breaker, console location, shared reader), cancellation and crash between two
commits (agent run, RAG ingest), late and failing outcomes (breaker, retries,
verification and rollback), and expectations one layer has of another that no layer
enforces (gate and skipping, checkpoints and resume). `PROJECT.json` lists the
hazards line by line, with the properties that cover them.

## Modules

| module | models | composed with | theorems |
|---|---|---|---|
| `SessionPool` | the session pool and its callers | | `PoolAndBreakerProofs` |
| `CircuitBreaker` | the breaker and overlapping commands | | `PoolAndBreakerProofs` |
| `TelnetChannel` | the bytes of one client under overlapping commands | implements `CircuitBreaker` | `TelnetChannelProofs` |
| `ConsoleLocation` | the place the console stands at, and the coroutines that move it | | `ConsoleLocationProofs` |
| `DependencyOrder` | abstract: steps are done, given up and forgotten in dependency order | | |
| `AgentRun` | one agent run from its stored plan to its final record, interrupted and resumed | implements `DependencyOrder` | `AgentRunProofs` |
| `TaskPlans` | the plans of the task decomposer and the order in which they are executed | | |
| `Orchestrator` | one run of the orchestrator, in its three modes, over a console whose show changes | extends `TaskPlans` | `OrchestratorProofs` |
| `RagIngest` | ingests into the RAG store, commit by commit | | `RagIngestProofs` |
| `SkillRegistry` | the versioned skills and their approval | | with the graph |
| `KnowledgeGraph` | hydration, snapshot sync, staleness, skill sync | extends `SkillRegistry` | `KnowledgeGraphProofs` |
| `Permissions` | scopes, session right and console user as functions of the environment; the gates | | `ToolCallsProofs` |
| `ToolCalls` | overlapping tools of `tools_community.py` over one console | extends `Permissions` | `ToolCallsProofs` |
| `MC*` | the instances that TLC checks | | |

### SessionPool

Variables follow the fields: `pool` is `_sessions`, `idle` the idle time of a
session, `link` the socket of a client, `lock` the task suspended with `_lock`
held, `pc`, `ident` and `held` the place and the local variables of each tool call,
`keeper` the keepalive task. asyncio runs a coroutine without interruption up to an
await that suspends, so an action is the code between two of those. `disconnect()`
never suspends, hence popping sessions and closing their clients is one step; only
`open_connection` and `login` suspend while the lock is held. A call that waits for
the lock is one at `"get"`, `"release"` or `"close_all"` (`Admitted` is its turn).

`get` is `Reuse`, `BeginReconnect` or `BeginCreate`, then `Connect`, `LoggedIn`,
or one of the ways it fails: `ConnectFails`, `LoginRaises`, `CancelLogin`. A
connection opened by a `get` that was cancelled during login is never closed: the
ghost `leaked` collects such clients, and `NoStrayConnection` says that this is the
only way to lose one. `is_connected` is modelled as it is, true of a socket that
the peer has dropped, and in the repository nothing but the pool disconnects a
pooled client; so that the reconnecting branch is reached, the passing run lets
the holder of a client call the public `disconnect()` (`HolderCloses`), while the
run about dropped sockets does not.

The credentials of a client are abstracted to the identity they were made for
(`UserOf`); the console's answers are left out, as the pool ignores them.

### CircuitBreaker

A command asks for admission once (`Start`), then it is in `flying` until
`Succeed`, `Fail` or `Cancel`, in any order relative to the others. One whose first read
raises at once is admitted and fails in the same step (`StartAndFail`). Time is a
counter since the last failure, saturated at `Timeout`; the failure count is
saturated at `Threshold`, beyond which it acts alike. The breaker may be `Reset` at
any time, as the method is public.

### AgentRun and DependencyOrder

One coroutine, so interleavings come from outside: `Cancel` at every await and
`Crash` everywhere, then `Resume`. Step statuses, the retry counter and the
monitor's memory of failures and outputs are in memory; `cp` and `record` are in
SQLite and survive. The ghost `settled` remembers which steps had completed when
they were last saved. `ToolSucceeds` and `ToolFails` cover every answer of a tool,
an error after an effect included; `Verify` and `Rollback` every answer of theirs.

Two facts of the code shape the model after a resume. `resume_run` keeps
`risk_tier` as a plain string, so `to_dict()` raises and `_save_checkpoint` swallows
it (`Checkpoint` changes nothing when `resumes > 0`), and `build_trace` raises out of
`resume_run` (`BuildTraceRaises`). A run whose final trace is stored cannot be
resumed: `Resume` needs `record = "in_progress"`.

The plan is a constant. `validate_plan` has run before `Init`, and every step
depends on earlier steps only (`ConstantsAssumption`), which is how the planner, the
workflows and the task decomposer build plans. Writes to SQLite are assumed to
succeed except where the code itself makes them fail. Deferral
(`DEFER_TO_DISCOVERY`) is left out because `gate_step` never returns it.

`DependencyOrder` is the promise: a guarded step (one that is not destructive) is
done only when its dependencies are, and recovery may forget outcomes but never so
that a guarded step stays done without them. The refinement mapping reads an
outcome from the status while the run is alive and from the checkpoints while it
is not; a step still in the hands of the executor is undecided.

### TelnetChannel

One `GMA2TelnetClient`: its reader (`buffer`, and `waiter`, the one coroutine that
may be suspended inside `read()`), its writer (`link`), and two or more callers, each
a command at one of its awaits. `send_command_with_response` is `Begin` (breaker,
flush of stale output), `FlushEnds`, `Sent`, `DelayEnds`, `ReadGets` and `ReadEnds`;
`send_command` is `SendOnly`; the ways out are `Refused`, `FlushFails` and `Cancel`.
The console is what the client sees of it: answers in pieces, in order, late or never
(`Deliver`), silence, end of file and reset (`LoseConnection`). `Disconnect` and
`Connect` are the pool's, at any await of a command. asyncio's own rules are part of
the actions: a second `read()` on a reader that has a waiter raises `RuntimeError`, a
waiter that is woken reads what is there when its turn comes, and a reset raises only
at the next read.

`CB == INSTANCE CircuitBreaker WITH Requests <- Callers, flying <- Underway`: the
channel implements the breaker (`DrivesBreaker == CB!BreakerSpec`). A command that starts,
starts and fails, succeeds, fails or is cancelled takes that step of `CircuitBreaker`; every
other step, of a command, the pool or the console, leaves the breaker alone.

### ConsoleLocation

A Telnet login has one current place in the console's tree, and every `cd` of every
coroutine moves it. A place is a sequence of indexes. A task is one coroutine with a
job: one pool of the name index, the cues of sequences, `navigate_console`,
`discover_object_names`, `check_pool_availability`, `set_property`, `scan_indexes`.
Its commands are listed in `todo`, computed by operators named after the functions,
and sent one per step in any interleaving; `Raise` and `CancelHydration` are the
faults. What a task reads is recorded as where it takes the console to be (`here`) and
where it is (`loc`). The ghosts `movers`, `missed` and `astray` say what happened since
the last absolute `cd`, which is what the property allows as an explanation.

### TaskPlans and Orchestrator

`TaskPlans` holds the fifteen built-in templates step by step (name, risk, first tool,
dependencies), the rights table for the tools they use, and `ordered_steps` as folds.
`Orchestrator` is one `run()`: hydration (`ReadVars`, `ReadPools`), then one of three
executions: one by one with the showfile guard (`Skip`, `Take`, `GuardPasses`,
`GuardBlocks`, `GuardReadsNothing`, `AnswerStep`), in gathered batches (`Gather`,
`AnswerBatch`), or through the agent bridge (`BridgeOver`, `BridgeStep`,
`BridgeAnswer`), then `EndPlan` and `Report`. Around it anybody may load another show,
the snapshot ages, and the request may be cancelled at every await.

The bridge hands the steps to the executor of `AgentRun` without `on_confirm` and
without checkpoints; what a run of the executor does with one step is one step here.
`_skip_dependents` is stated as the smallest set that is closed under "waits for one of
its own" (`Closed`, `Dependents`).

### RagIngest

A process is the loop of `ingest()`, one action per commit: `Changed` (the hash
comparison), `CheckModel` (the guard of zero vectors), `Upsert`, `Clear`, `Store`. A
hash stands for its content. Processes overlap in any way; `Interrupted` is an
exception, a locked database or a death between two commits; `Edit` changes a file.
The ghosts `alone` and `torn` name the files whose last ingest overlapped another one
or did not finish.

### SkillRegistry and KnowledgeGraph

`SkillRegistry` has one action per method that writes, each a transaction.
`KnowledgeGraph` extends it: a hydration reads pool by pool while the console
changes, a sync writes node by node and edge by edge and then prunes, each statement a
commit that may be the last one (`SyncRaises`). A read is of the pool or sequence it is
filed under (`ReadPool`), or was taken elsewhere (`Misread`) and then says anything: the
pools of one hydration are gathered over one console location, as
`console_location_pools` shows, so a pool's read can be misfiled with no fault and no
other actor; that of a sequence only when its `cd` did not move, or for a fault. What is
misread enters the snapshot and the graph like anything else, marked as fresh; the ghost
`misread` names it until it is in the graph, and `excused` from then on, so that
`FreshIsCurrent` states this exception beside the others: a change that nothing marks,
and one whose mark is lost because the hydration under way had read the object before.
A modifying step of an agent changes
the console first (`StepChange`) and marks nodes as stale when it is done (`StepDone`).
A sync runs without an await, so in the server only other processes act during it.
Labels stand for all properties of a node.

### Permissions and ToolCalls

`Permissions` holds the tables and functions of the permission stack: the tiers of
scopes, what `GMA_SCOPE` grants (`Granted`), the right the session is taken to have
(`SessionTier`), the console user the server logs in as (`UserTier`, with `GMA_USER`
unset), and the gates of a tool (`Admitted`, `RawAllowed`).

`ToolCalls` is two or more tools of one operator between their awaits. `Call` passes or
is blocked by the gates; then the tool sends the commands of its `Script`, one action
each, and ends answered, blocked or with an error (`Raise`). The console is the
selection of the programmer, the executors of two pages, the current page and the cues.
`goto` of `playback_action` is the most involved: a look-up of the sequence
(`ListExecutor`, always on page 1, and in vain for a list of executors, be it of one), a look-up of the cue (`ListCue`), the command
(`SendGoto`); `Addressed` is what `goto()` then names. `TurnPage`, `DeleteCue`, `Assign`
and `SelectByHand` are other people. The ghosts `moved` and `touched` collect the calls
whose selection, or whose cues and executors, were changed under them.

## Runs

| run | bounds | result |
|---|---|---|
| `session_pool` | 2 calls, 2 operators, 3 + 1 clients, `max_sessions` 1, idle timeout 1 tick, 1 stranded client | 52,603 states, no error |
| `session_pool_drop` | 1 call, 1 operator | `ReconnectsWhenDropped` violated |
| `circuit_breaker` | 4 commands, threshold 3, timeout 3 ticks | 268 states, no error |
| `telnet_channel` | 2 callers, 3 commands, answers of up to 2 pieces, threshold 1, timeout 1 tick | 299,466 states, no error |
| `console_location` | 3 tasks in 5 mixes of jobs, tree of 10 places, 2 faults | 119,086 states, no error |
| `console_location_pools` | 2 pools, no fault | `IndexedFromItsPool` violated |
| `agent_run` | 5 steps, 2 destructive, 2 verified, 1 undoable, 2 retries, stall limit 3, 2 resumes | 23,190 states, no error |
| `agent_run_resume` | 2 plain steps, 2 resumes | `ResumesFromLastCheckpoint` violated |
| `orchestrator` | the 15 built-in plans and a scrambled one, 3 modes, 2 shows, rights unread or PROGRAM | 153,612 states, no error |
| `rag_ingest` | 2 processes (zero vectors without limit; real ones, 1 file per batch), 2 files, 3 contents, 1 change, 1 interruption | 445,081 states, no error |
| `knowledge_graph` | a sequence, its cue and a world, 2 skills, 3 writes, 1 change of the console, 2 syncs, 1 fault; 3 writes, changes and faults together | 2,760,485 states, no error |
| `tool_calls` | 2 calls, 18 jobs, 8 environments, 2 targets, 3 executors on 2 pages, 2 cues, 1 change by others | 976,062 states, no error |

Why these bounds are enough.

- `session_pool`: two calls and the keeper give every pairwise interleaving under one
  lock; a third call only waits as well. With `max_sessions` 1 and two operators every
  creation for the other operator evicts; the choice of the victim is then forced, and
  the proofs cover pools of any size, where `Oldest` is any session at least as idle as
  the others. Three clients of one operator are one in the pool, one held by an earlier
  call and one being created; the other operator needs one to evict and be evicted.
  One idle tick separates fresh, idle and expired.
- `circuit_breaker`: four commands and a threshold of three let three failures open the
  breaker with a command still out.
- `telnet_channel`: two callers overlap at every pair of awaits; the third command meets
  what the first two left behind (late output, a tripped breaker, a reset reader); two
  pieces split an answer across two reads. A third caller would only be one more reader
  that is refused, and the proofs are for any number.
- `console_location`: two coroutines suffice to misplace each other; the third makes the
  order of pools and sequences, and a scan among two tools, possible. The tree has a
  missing index at each level and a container that is looked into. The proofs are for
  all trees and jobs.
- `agent_run`: the plan has a chain, a branch and a join, so that skipping is
  transitive; the second resume is the first one that misses checkpoints.
- `orchestrator`: all plans the program has by itself, and one that lists a step before
  its dependencies and has a step that may not be retried. Two shows make "another
  show"; the two tiers of rights make a denied and a permitted step.
- `rag_ingest`: the two providers that can hurt each other, and a batch that is full
  after one file while two have changed; one content without chunks. One interruption
  already tears a file for good; the second would tear another one.
- `knowledge_graph`: the second sync prunes and refreshes what the first one wrote; one
  change lies before, in or after a hydration; three writes bump a promoted skill and
  approve, bump or deprecate the result. Writes, changes and faults share a budget of
  three (`FewEvents`), because commits of the registry meet the rest in `SyncSkills`
  only: one of each, or two writes and a change, or the three writes. A misfiled pool
  costs nothing of it. Without any one of the exceptions of
  `FreshIsCurrent` that this run can reach, TLC finds it violated. Skills are symmetric (no property names one).
- `tool_calls`: two tools meet at every pair of awaits, and one change by others falls
  between any two. The environments are whole tiers, tiers of which some scopes are
  granted, and the bypasses. Calls are symmetric.

`CHECK_DEADLOCK FALSE` stands where the system really stops: agent and orchestrator runs
end, a bounded number of commands, tasks, syncs and changes is used up.

### Properties

- `SessionPool`: `PoolBounded`, `NoStrayConnection`, `ClientOfIdentity`,
  `ReturnsOpenClient` (safety), `GetCompletes`, `ExpiredAreClosed` (liveness).
- `CircuitBreaker`: `ClosedIffBelowThreshold`, `FailsFast`, `Recovers` (liveness).
- `TelnetChannel`: `OwnOutputOnly`, `RaisedIffUnsent`, `DrivesBreaker` (refinement),
  `CommandEnds` (liveness).
- `ConsoleLocation`: `MisfiledOnlyWhenMoved`, `BackAtRoot`.
- `AgentRun`: `GuardedAfterDependencies`, `DestructiveAfterDependencies`,
  `RedoneOnlyAfterTwoResumes`, `CheckpointsMatch`, `LoopEndsSettled`, `RunEnds`
  (liveness), `KeepsOrder` (refinement).
- `Orchestrator`: `SuccessIsWhole`, `SkippedOnlyAfterFailure`,
  `CalledAfterDependencies`, `WrongShowOnlyIfRaced`, `NothingAfterShowChange`,
  `ExecutedOnce`, `RunEnds` (liveness).
- `RagIngest`: `IndexedAsHashed`, `RealOutlivesZero`, `EveryFileIngested` (liveness).
- `KnowledgeGraph`: `FreshIsCurrent`, `StaysReadable`; `SkillRegistry`:
  `ApprovedVersionByVersion`.
- `ToolCalls`: `AdmittedWithinConsoleRights`, `AppliedToOwnSelection`, `GotoFindsCue`,
  `FreeSlotsUnassigned`.

The type invariants of `SessionPool`, `CircuitBreaker`, `AgentRun`, `TelnetChannel`,
`ConsoleLocation`, `Orchestrator`, `RagIngest` and `ToolCalls` are proved (`TypeCorrect`,
`BreakerTypeCorrect`) and need no run.

Several of them name their exceptions instead of hiding them: an exception is what the
code really allows (a ghost such as `torn`, `raced`, `excused`, `movers`), and the
property says that nothing else does. Each property has a mutant of a modelled
operation, defined beside it (`... Mutant:`), that TLC finds to violate it.

### Fairness

- `SessionPool!Fairness`: the event loop runs what is ready; `connect` and `login`
  end because both have timeouts; `asyncio.Lock` is first come, first served, so a
  waiter that finds the lock free again and again is served, which is strong
  fairness of each call's `Proceed` and of the keeper's two steps that need the
  lock. Nothing is assumed of new calls, cancellations, dropped sockets or the time
  a tool takes.
- `CircuitBreaker!FairBreakerSpec`: time passes. Commands need not end.
- `TelnetChannel!FairSpec`: weak fairness of `Continue` of each caller: a sleep ends and
  a timed read ends, with or without data. Nothing is assumed of the console.
- `AgentRun!FairSpec`: weak fairness of `Proceed`: every await of a run ends (console
  timeouts, finite retry delay, an operator who answers). Nothing forces a resume.
- `Orchestrator!FairSpec`: weak fairness of `Proceed`, for the same reason.
- `RagIngest!FairSpec`: each process goes on and is run again when it has ended: the
  batches ask for it ("Re-run to continue"), the hook runs at every commit.
- `ConsoleLocation`, `KnowledgeGraph` and `ToolCalls` have no liveness property and no
  fairness.

### What the violations show

- `session_pool_drop`: the docstrings promise a reconnection when the Telnet
  connection drops; `is_connected` cannot see that, and `get()` returns the client.
- `agent_run_resume`: a resumed run saves no checkpoints, so the second resume
  repeats what the first completed. After one resume nothing is repeated
  (`RedoneOnlyAfterTwoResumes`).
- `console_location_pools`: the pools of one hydration are gathered over one location,
  so the contents of one pool are filed under another although nothing else happens.
  Sequences, which are read one after the other, are not misfiled by a hydration alone
  (`MisfiledOnlyWhenMoved`).

`PROJECT.json` holds more disagreements met while modelling, without a run: destructive
steps that are never checked against their dependencies, so that one follows a
dependency that was rolled back (short of that, `DestructiveAfterDependencies` holds);
a read-only level that only raw commands obey; a pre-flight check of `goto` that may look
at another sequence than the one addressed; what `resume_run` raises, the transitions and the reach of the breaker, self-confirming
destructive steps in bridge mode, a plan that can never succeed, hashes committed before
chunks, skill nodes that are pruned or never made, comments that say "everything".

## Proofs

All theorems are of `Spec` (the breaker's: `BreakerSpec`), without fairness, for every value of the constants that
the module's `ConstantsAssumption` admits.

**PoolAndBreakerProofs.** `BasicInv` joins the type invariant, what the locals of a call
hold at each of its places (`LocalsInv`) and that the lock is held exactly by the call
that is connecting or logging in (`LockInv`). `OwnerInv` adds who owns a client:
`ClientOfIdentity` and `NoStrayConnection` are inductive only together with what is
known of a client during login (`LoginInv`) and of stranded clients (`LeakedInv`): no
other reference to them exists, so closing or storing one touches nobody else.
`BoundInv` proves the bound: while a call is between the check and the insertion there
is still room (`RoomInv`), because only the lock's holder inserts. `ReturnsOpenClient`
follows from the same invariants, action by action. The breaker that each client carries
is proved about in the same module, from `BreakerInv`: beyond `ClosedIffBelowThreshold`, a
half-open breaker is one whose timeout has passed (`ProbesAfterTimeout`), because the only
action that resets the time is a failure, which opens the breaker at once.

**AgentRunProofs.** `IInv` is inductive: the status of the step in hand (`StepInv`),
what the loop leaves behind (`LoopInv`), that statuses never know less than the
checkpoints (`CheckpointInv`), what a resume knows of completed steps (`KnownInv`), and
that guarded steps settle after their dependencies in memory and in SQLite
(`OrderInv`). The effect of `_skip_dependents`, the smallest set that is closed under
"waits for one of its own", is used through two lemmas: it only turns pending steps to
skipped (`SettleEffect`), and it leaves no dependent of a failed step behind
(`SettledWithDependents`). From the second, `SkipInv` keeps in the first incarnation that
whatever depends on a failed or skipped step is itself skipped, which is all that
stands between a destructive step and its dependencies
(`DestructiveSteps`). `RunKeepsOrder`
is the refinement: a step of the run finishes one step, gives a set of steps up,
forgets some, or stutters. `IncarnationsBounded` is the part of `RunEnds` that needs no
fairness: `StepsLeft` counts what the step in hand and those behind it can still take
(the gate, the operator, `MaxRetries` + 1 calls, verification, rollback, saving), every
action of `Proceed` lowers it, a crash or a cancellation makes it zero, and only a resume
starts over; `BoundOfAnIncarnation` says where it starts.

**TelnetChannelProofs.** `Inv` joins the type invariant, `OneReader` (the only caller in
`read()` is the waiter), what has been written (`WrittenInv`, `RaisedIffUnsent`), who is
alone (`AloneInv`) and whose output the buffer and the console's debts are while somebody
is alone (`OutputInv`). `OwnOutputOnly` is inductive only with the last two: an
undisturbed command that has flushed is the only one whose answer can still arrive.
`ChannelDrivesBreaker` is the refinement: `Returns` is `Succeed`, `Raises` is `Fail` or
`StartAndFail`, `Admitted` is `Start`; that a wake-up (`Deliver`, `LoseConnection`) ends no
command needs `OneReader`. With it, and with the invariant of the breaker, `ChannelFailsFast` proves `CB!FailsFast` of the
composition, for any number of commands.

**ConsoleLocationProofs.** `TaskInv` says of each task: it has commands while it is busy
and they fit its job (`TodoOf`, `Fits`); the pools have ended before the sequences
start and never move the console for them again (`CuesOf`); the base of a scan is its
reset destination (`ScanOf`); and, unless the next command is an absolute `cd`, the
console is where the task takes it to be, or one of the named exceptions holds
(`WhereOf`). `AwayInv` says that away from the root somebody is at work or was asked to
stay. `MisfiledOnlyWhenMoved` follows for what is read, and is kept for what is filed
(`NotesInv`). The commands of each job are treated as sequences of any length: those of
a hydration come in threes, which `Fits` counts from the end, so that a failed sequence
leaves whole ones (`OthersFit`).

**OrchestratorProofs.** `IInv` has ten parts: the steps in flight (`HandInv`), what lies
behind and ahead of the run in each mode (`PassedInv`, `AheadInv`, `SettledInv`), what a
report counts (`ReportInv`, `OutcomeInv`), and what the guard has seen (`ChangedInv`,
`WiredInv`, `ShowInv`). The dependents of a failed step are used only through closed
sets, which needs no induction; that a skipped step had a failure before it needs the
order of the plan (`OrderAssumption`), which TLC evaluates for all plans of the program.
`ExecutedOnce` follows from `HandInv` (a step in flight is without a result) and from the
frame lemma: no action changes a result there is. `RunsBounded` and `BoundOfARun` give
`RunEnds` but for fairness. In a batch run `StepsLeft` counts the remaining steps and
those in flight, so that the proof needs their cardinalities, and that a batch without a
ready step still settles one; in the other modes the place in the plan is enough. Shows
that are loaded and time that passes leave it as it is.

**RagIngestProofs.** `IInv` adds to the types where an ingest can be (`Progress`), that two
ingests at one file are not `alone` (`Exclusive`), what the row of a file holds while it
is in hand (`OwnRow`), and that no real chunk is in a row that a lone zero-vector ingest
has passed (`NothingReal`). `IngestsBounded` and `BoundOfAnIngest` say that an ingest is
over after five steps for each file and one more, whatever others do to its files and
rows meanwhile: what `EveryFileIngested` needs beside fairness and batches that are run
again.

**KnowledgeGraphProofs.** `TypeOK` with the foreign keys is inductive by itself once the
locals of a sync are typed; `FreshIsCurrent` needs that a snapshot differs from the
console only at excused objects, those of the step under way or those that were misread
(`SnapshotIsCurrent`), whatever the misread list says; `StaysReadable` needs
that pruning starts after everything in the snapshot was touched;
`ApprovedVersionByVersion` is an invariant of the registry alone, whatever the graph
does.

**ToolCallsProofs.** The permissions come first: `SessionWithinUser`, the right of the
session is at most that of the console user for every set of scopes, because no tier is
without a scope; for whole tiers the two are equal (`WholeTierRights`, no scope is of two
tiers). The invariant says of each running call that what is left of its script fits its job
(`Stages`), that it was admitted, and what it has learnt: set_attribute that its
selection stands (`SelectionKnown`), goto which sequence to look through and that the cue was
there (`CueKnown`), a scan that it found the slots of the executors behind it
(`ScanKnown`), each unless the call is marked in `moved` or `touched`. One lemma,
`OthersKnow`, keeps that knowledge over every step of another call or person that marks
those it disturbs (`Marks`); one lemma per command extends it.

Only model-checked: the liveness properties `GetCompletes`, `ExpiredAreClosed`,
`Recovers`, `CommandEnds`, both `RunEnds` and `EveryFileIngested` (liveness under fairness
is outside the prover's reach). For both `RunEnds` and for a single ingest the bound on
the number of steps is proved, which leaves to TLC that some step can always be taken. A
command has no such bound in the code: its read loop goes on as long as the console keeps
answering within the timeout. Every other property of a passing run has a theorem.

## Not modelled

- Text: command builders, prompt and list parsing, planner templates, vocabulary. Their
  state is none, and unit tests reach them; where a parsed value decides something
  (`ListVar` in the guard, an empty list in a scan) the outcome is a choice of the model.
- Numbers: embeddings, similarity, clustering.
- Thin adapters: telemetry, sampling, elicitation, completions, subscriptions; HTTP
  crawling.
- Licence tiers: a table read from the environment at each call. Of the rights table,
  the entries of the community tools are in `Permissions`, those that plans meet in
  `TaskPlans!MinRight`; `GMA_USER`, which fixes the console user for every grant, is
  taken to be unset.
- `scripts/`: one-off programs for a console, each a sequence of commands of its own.
- Skills on disk, which `list_all` and `get` also return: files that the process only
  reads. Searches, quality scores and the skill improver, which proposes texts.
- Of the tools in `server.py`, `tools_community.py` and `tools_graph.py`: what is more
  than one console dialogue is in `ConsoleLocation`, `ToolCalls` and `SessionPool`; the
  rest sends one command and formats the answer.
- The private package that some imports name is not in the repository.

The status and the reason for each part stand in `PROJECT.json`.

## Plan

Done: `SessionPool`, `CircuitBreaker`, `DependencyOrder`, `AgentRun`, `TelnetChannel` with
the breaker, `ConsoleLocation` (the hydrator and navigation), `TaskPlans` and
`Orchestrator`, `RagIngest`, `SkillRegistry` and `KnowledgeGraph`, `Permissions` and `ToolCalls`,
each with its runs and proofs.

Left, in this order: the other actions of `playback_action` and the tools of
`server.py` that look something up before they write; the chunkers of the RAG ingest
against a reference definition.
