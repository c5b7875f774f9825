------------------------------ MODULE ToolCalls ------------------------------
(***************************************************************************)
(* Overlapping calls of the tools of tools_community.py by one operator,   *)
(* behind their gates, over one console: its programmer's selection, its   *)
(* cues, the executors of its pages.  An action is one command and its     *)
(* answer; other calls and the people at the console act between any two.  *)
(* The tools that move the console's location are in ConsoleLocation.      *)
(***************************************************************************)
EXTENDS Permissions, Sequences

CONSTANTS
    Calls,          \* tool calls, each made once
    Jobs,           \* what they may ask for: tool and arguments
    Environments,   \* scopes, bypasses and safety level the server may run with
    Targets,        \* fixtures and groups
    Nothing,        \* no target, or no sequence
    SequenceIds,
    Cues,
    Executors,      \* executor ids, the same on each page
    Pages,
    Layouts,        \* the layouts of executors to start from
    Assignable,     \* what other people may assign to an executor
    MaxChanges      \* bound: changes made at the console by other people

Slot == [seq : SequenceIds \cup {Nothing}, width : Nat]     \* width 0: unassigned
Layout == [Pages -> [Executors -> Slot]]

\* A call of playback_action "goto" is given no executor, one, or a list of them,
\* which may have one element or none.
AllJobs ==
    [tool : {"set_attribute"}, target : Targets \cup {Nothing}]
    \cup [tool : {"set_intensity"}, target : Targets]
    \cup [tool : {"clear_programmer"}, mode : {"all", "selection", "active", "clear"}]
    \cup {j \in [tool : {"playback_action"}, cue : Cues, seq : SequenceIds \cup {Nothing},
                 execs : SUBSET Executors, listed : BOOLEAN] :
             j.listed \/ \A d, e \in j.execs : d = e}
    \cup {j \in [tool : {"scan_page_executor_layout"}, page : Pages, first : Nat, last : Nat] :
             j.first..j.last \subseteq Executors}
    \cup [tool : {"send_raw_command"}, confirm : BOOLEAN,
          risk : {"SAFE_READ", "SAFE_WRITE", "DESTRUCTIVE", "UNKNOWN"}]
    \cup [tool : {"get_object_info"}]

ASSUME ConstantsAssumption ==
    /\ Jobs \subseteq AllJobs
    /\ Environments \subseteq
          [granted : SUBSET Scopes, auth_bypass : BOOLEAN, rights_bypass : BOOLEAN,
           level : {"standard", "admin", "read-only"}]
    /\ Nothing \notin Targets \cup SequenceIds
    /\ Executors \subseteq Nat /\ Pages \subseteq Nat /\ 1 \in Pages
    /\ Layouts \subseteq Layout /\ Assignable \subseteq Slot
    /\ MaxChanges \in Nat

VARIABLES
    env,            \* the environment of the server, which never changes
    pc,             \* where each call is
    job,            \* what it was asked for, while it runs
    todo,           \* the commands it has yet to send
    got,            \* the slots a scan has found occupied so far
    selection,      \* what is selected in the programmer
    layout,         \* what the executors of each page hold
    page,           \* the current page
    cues,           \* the cues there are, with their sequences
    changes,        \* changes made at the console so far
    moved,          \* ghost: calls during which somebody else changed the selection
    touched         \* ghost: calls since whose start cues or executors have changed

console == <<selection, layout, page, cues>>
vars == <<env, pc, job, todo, got, console, changes, moved, touched>>

NoJob == [tool |-> "none"]

\* Type correctness of the calls and of the console they see.
TypeOK ==
    /\ env \in Environments
    /\ pc \in [Calls -> {"idle", "tool", "answered", "blocked", "raised"}]
    /\ DOMAIN job = Calls /\ DOMAIN todo = Calls
    /\ \A c \in Calls : IF pc[c] = "tool" THEN job[c] \in Jobs ELSE job[c] = NoJob
    /\ \A c \in Calls : todo[c] # <<>> <=> pc[c] = "tool"
    /\ got \in [Calls -> SUBSET Nat]
    /\ selection \in Targets \cup {Nothing}
    /\ layout \in Layout
    /\ page \in Pages
    /\ cues \subseteq SequenceIds \X Cues
    /\ changes \in 0..MaxChanges
    /\ moved \subseteq Calls /\ touched \subseteq Calls

Init ==
    /\ env \in Environments
    /\ pc = [c \in Calls |-> "idle"]
    /\ job = [c \in Calls |-> NoJob]
    /\ todo = [c \in Calls |-> <<>>]
    /\ got = [c \in Calls |-> {}]
    /\ selection = Nothing
    /\ layout \in Layouts
    /\ page \in Pages
    /\ cues \in SUBSET (SequenceIds \X Cues)
    /\ changes = 0
    /\ moved = {} /\ touched = {}

Running == {c \in Calls : pc[c] = "tool"}

-----------------------------------------------------------------------------
(* What a call sends. *)

Command(do, arg) == [do |-> do, arg |-> arg]

\* Mutant: the attribute is set before the selection is made.
AttributeFirst(j) ==
    IF j.target = Nothing THEN <<Command("attribute", Nothing)>>
    ELSE <<Command("attribute", Nothing), Command("select", j.target)>>

\* set_attribute: a group or a fixture is selected first, if one is given.
SetAttribute(j) ==
    IF j.target = Nothing THEN <<Command("attribute", Nothing)>>
    ELSE <<Command("select", j.target), Command("attribute", Nothing)>>

\* Mutant: the cue is not looked for.
GotoAtOnce(j) == <<Command("goto", Nothing)>>

\* playback_action "goto": the cue is looked for in the sequence that is given or
\* that the executor holds; without either the command is sent at once.
Goto(j) ==
    IF j.seq # Nothing THEN <<Command("list_cue", j.seq), Command("goto", Nothing)>>
    ELSE IF j.execs # {} \/ j.listed THEN <<Command("list_executor", Nothing), Command("goto", Nothing)>>
    ELSE <<Command("goto", Nothing)>>

\* A scan at executor e of its range; past the last one it answers.
ScanFrom(j, e) ==
    IF e <= j.last THEN <<Command("read_slot", e)>> ELSE <<Command("report", Nothing)>>

Script(j) ==
    CASE j.tool = "set_attribute" -> SetAttribute(j)
      [] j.tool = "set_intensity" -> <<Command("select", j.target)>>
      [] j.tool = "clear_programmer" -> <<Command("clear", j.mode)>>
      [] j.tool = "playback_action" -> Goto(j)
      [] j.tool = "scan_page_executor_layout" -> ScanFrom(j, j.first)
      [] j.tool = "send_raw_command" -> <<Command("raw", j.risk)>>
      [] OTHER -> <<Command("read", Nothing)>>

-----------------------------------------------------------------------------
(* The calls. *)

\* The gates, and for a raw command the safety level.  A call that passes has its
\* client and is about to send.
Call(c, j) ==
    /\ pc[c] = "idle"
    /\ IF /\ Admitted(j.tool, env)
          /\ j.tool = "send_raw_command" => RawAllowed(j.risk, j.confirm, env.level)
       THEN /\ pc' = [pc EXCEPT ![c] = "tool"]
            /\ job' = [job EXCEPT ![c] = j]
            /\ todo' = [todo EXCEPT ![c] = Script(j)]
       ELSE pc' = [pc EXCEPT ![c] = "blocked"] /\ UNCHANGED <<job, todo>>
    /\ UNCHANGED <<env, got, console, changes, moved, touched>>

Next1(c) == Head(todo[c])
Sends(c, do) == pc[c] = "tool" /\ Next1(c).do = do

\* The call c ends in a way and its locals are gone.
Ends(c, way) ==
    /\ pc' = [pc EXCEPT ![c] = way]
    /\ job' = [job EXCEPT ![c] = NoJob]
    /\ todo' = [todo EXCEPT ![c] = <<>>]
    /\ got' = [got EXCEPT ![c] = {}]

\* The next command was answered and the call goes on with `rest`.
GoesOn(c, rest) ==
    IF rest = <<>> THEN Ends(c, "answered")
    ELSE todo' = [todo EXCEPT ![c] = rest] /\ UNCHANGED <<pc, job, got>>

Read(c) ==
    /\ Sends(c, "read")
    /\ GoesOn(c, Tail(todo[c]))
    /\ UNCHANGED <<env, console, changes, moved, touched>>

\* The selection is replaced by the call c.
Reselect(c, target) ==
    /\ selection' = target
    /\ moved' = moved \cup (Running \ {c})

Select(c) ==
    /\ Sends(c, "select")
    /\ Reselect(c, Next1(c).arg)
    /\ GoesOn(c, Tail(todo[c]))
    /\ UNCHANGED <<env, layout, page, cues, changes, touched>>

\* clear_programmer: "active" keeps the selection, and so does "clear" when it is
\* already empty.
Clear(c) ==
    /\ Sends(c, "clear")
    /\ IF Next1(c).arg = "active" THEN UNCHANGED <<selection, moved>> ELSE Reselect(c, Nothing)
    /\ GoesOn(c, Tail(todo[c]))
    /\ UNCHANGED <<env, layout, page, cues, changes, touched>>

\* attribute ... at: acts on whatever is selected now.
Attribute(c) ==
    /\ Sends(c, "attribute")
    /\ GoesOn(c, Tail(todo[c]))
    /\ UNCHANGED <<env, console, changes, moved, touched>>

\* The sequence on a page of the executor a call is given; a list, be it of one
\* executor, is no name of an executor, and nothing is found.
SequenceOn(p, j) ==
    IF ~j.listed /\ \E e \in Executors : j.execs = {e}
    THEN layout[p][CHOOSE e \in j.execs : TRUE].seq
    ELSE Nothing

\* _get_sequence_for_executor looks on page 1.
ListExecutor(c) ==
    LET found == SequenceOn(1, job[c]) IN
    /\ Sends(c, "list_executor")
    /\ GoesOn(c, IF found = Nothing THEN Tail(todo[c])
                 ELSE <<Command("list_cue", found), Command("goto", Nothing)>>)
    /\ UNCHANGED <<env, console, changes, moved, touched>>

\* _validate_object_exists: without the cue the call ends, blocked.
ListCue(c) ==
    /\ Sends(c, "list_cue")
    /\ IF <<Next1(c).arg, job[c].cue>> \in cues
       THEN GoesOn(c, Tail(todo[c]))
       ELSE Ends(c, "blocked")
    /\ UNCHANGED <<env, console, changes, moved, touched>>

SendGoto(c) ==
    /\ Sends(c, "goto")
    /\ GoesOn(c, Tail(todo[c]))
    /\ UNCHANGED <<env, console, changes, moved, touched>>

\* The scan adds the slots of executor e to those it found.
Found(c, e, slots) ==
    /\ got' = [got EXCEPT ![c] = @ \cup slots]
    /\ todo' = [todo EXCEPT ![c] = ScanFrom(job[c], e + 1)]
    /\ UNCHANGED <<pc, job>>

\* Mutant: an executor occupies its own slot only.
OccupiedOnly(p, e) == IF layout[p][e].width = 0 THEN {} ELSE {e}

\* The slots an executor of a page takes: none if it is unassigned.
Occupied(p, e) == e..(e + layout[p][e].width - 1)

\* One executor of scan_page_executor_layout and the slots it takes.
ReadSlot(c) ==
    LET e == Next1(c).arg IN
    /\ Sends(c, "read_slot")
    /\ Found(c, e, Occupied(job[c].page, e))
    /\ UNCHANGED <<env, console, changes, moved, touched>>

\* The scan answers; what is in its range and was not found is free.
FreeSlots(c) == (job[c].first..job[c].last) \ got[c]

Report(c) ==
    /\ Sends(c, "report")
    /\ Ends(c, "answered")
    /\ UNCHANGED <<env, console, changes, moved, touched>>

\* A raw command: a destructive one deletes a cue, a write selects something; of a
\* word the vocabulary does not know the console makes what it will.
Raw(c) ==
    LET risk == Next1(c).arg IN
    /\ Sends(c, "raw")
    /\ \/ /\ risk \in {"SAFE_READ", "UNKNOWN"}
          /\ UNCHANGED <<selection, cues, moved, touched>>
       \/ /\ risk \in {"SAFE_WRITE", "UNKNOWN"}
          /\ \E t \in Targets : Reselect(c, t)
          /\ UNCHANGED <<cues, touched>>
       \/ /\ risk \in {"DESTRUCTIVE", "UNKNOWN"}
          /\ \E q \in cues : cues' = cues \ {q}
          /\ touched' = touched \cup Running
          /\ UNCHANGED <<selection, moved>>
    /\ GoesOn(c, Tail(todo[c]))
    /\ UNCHANGED <<env, layout, page, changes>>

\* A destructive command when there is nothing left to delete.
RawInVain(c) ==
    /\ Sends(c, "raw") /\ Next1(c).arg = "DESTRUCTIVE" /\ cues = {}
    /\ GoesOn(c, Tail(todo[c]))
    /\ UNCHANGED <<env, console, changes, moved, touched>>

\* get_client or a send raises; _handle_errors answers with an error.
Raise(c) ==
    /\ pc[c] = "tool"
    /\ Ends(c, "raised")
    /\ UNCHANGED <<env, console, changes, moved, touched>>

-----------------------------------------------------------------------------
(* Other people at the console. *)

Changed == changes < MaxChanges /\ changes' = changes + 1

TurnPage ==
    /\ Changed
    /\ page' \in Pages \ {page}
    /\ UNCHANGED <<env, pc, job, todo, got, selection, layout, cues, moved, touched>>

DeleteCue ==
    /\ Changed
    /\ \E q \in cues : cues' = cues \ {q}
    /\ touched' = touched \cup Running
    /\ UNCHANGED <<env, pc, job, todo, got, selection, layout, page, moved>>

Assign ==
    /\ Changed
    /\ \E p \in Pages, e \in Executors, slot \in Assignable :
          layout' = [layout EXCEPT ![p][e] = slot]
    /\ touched' = touched \cup Running
    /\ UNCHANGED <<env, pc, job, todo, got, selection, page, cues, moved>>

SelectByHand ==
    /\ Changed
    /\ selection' \in Targets \cup {Nothing}
    /\ moved' = moved \cup Running
    /\ UNCHANGED <<env, pc, job, todo, got, layout, page, cues, touched>>

-----------------------------------------------------------------------------
Step(c) ==
    \/ \E j \in Jobs : Call(c, j)
    \/ Read(c) \/ Select(c) \/ Clear(c) \/ Attribute(c)
    \/ ListExecutor(c) \/ ListCue(c) \/ SendGoto(c)
    \/ ReadSlot(c) \/ Report(c) \/ Raw(c) \/ RawInVain(c) \/ Raise(c)

Next ==
    \/ \E c \in Calls : Step(c)
    \/ TurnPage \/ DeleteCue \/ Assign \/ SelectByHand

Spec == Init /\ [][Next]_vars

-----------------------------------------------------------------------------
(* Properties. *)

\* The gates assume a right of the session, the console enforces that of the user
\* the server logs in as: a tool that passes the gates is never refused there,
\* whatever scopes are granted.
AdmittedWithinConsoleRights ==
    ~env.rights_bypass =>
        \A c \in Running :
            RequiredRight(job[c].tool) <= UserTier(env.granted)

\* The step sends the next command of the call c, and it is answered.
Sent(c, do) == Sends(c, do) /\ todo'[c] # todo[c] /\ pc'[c] # "raised"

\* set_attribute sets the attribute of what it was asked to select, unless somebody
\* else changed the selection of the shared programmer while it ran.
AppliedToOwnSelection ==
    [][\A c \in Calls : Sent(c, "attribute") /\ job[c].target # Nothing =>
          selection = job[c].target \/ c \in moved]_vars

\* What the look-up and the command agree on: a sequence alone, or one executor, not
\* in a list, that holds one, while page 1 is the current page.
Resolvable(j) ==
    \/ j.seq # Nothing /\ j.execs = {} /\ ~j.listed
    \/ j.seq = Nothing /\ page = 1 /\ SequenceOn(1, j) # Nothing

\* goto(): executors win over a sequence and are addressed on the current page.
Addressed(j) == IF j.execs # {} THEN SequenceOn(page, j) ELSE j.seq

\* playback_action sends goto only to a cue that exists, as long as cues and
\* executors have stayed as they were since it was called.
GotoFindsCue ==
    [][\A c \in Calls : Sent(c, "goto") /\ Resolvable(job[c]) /\ c \notin touched =>
          <<Addressed(job[c]), job[c].cue>> \in cues]_vars

\* The free slots of a scan are those that no executor in its range extends over,
\* as long as the executors have stayed as they were since it began.
FreeSlotsUnassigned ==
    [][\A c \in Calls \ touched : Sent(c, "report") =>
          LET on == layout[job[c].page]
              range == job[c].first..job[c].last
              over(e) == {f \in range : f <= e /\ e < f + on[f].width}
          IN FreeSlots(c) = {e \in range : over(e) = {}}]_vars
=============================================================================
