--------------------------- MODULE ConsoleLocation ---------------------------
(***************************************************************************)
(* The place of the console tree a Telnet login stands at, and the         *)
(* coroutines that move it and list or assign what is there: the hydrator  *)
(* (console_state.py), the navigation functions (navigation.py) and the    *)
(* tools that use them (server_core.py, tools_community.py).  There is one *)
(* place for all commands of a login, and each command is a step: which    *)
(* answer reaches which of two callers is the subject of TelnetChannel.    *)
(*                                                                         *)
(* A place is the sequence of the indexes that lead to it; the keyword of a *)
(* pool stands for its index from the root.  "cd" to                       *)
(* a keyword or to "/" is absolute, "cd" to an index starts from the       *)
(* place the console is at, and "cd" to what does not exist moves nothing. *)
(***************************************************************************)
EXTENDS Naturals, FiniteSets, SequencesExt

CONSTANTS
    Tasks,      \* coroutines with commands to send
    Mixes,      \* possible choices of a job for each task
    Tree,       \* the places that exist
    Containers, \* those that list one pool object only
    MaxFaults   \* bound: sends that raise, cancelled hydrations

Root == << >>
Sequence == 25      \* index of the pool of that name

ASSUME ConstantsAssumption ==
    /\ Root \in Tree /\ Containers \subseteq Tree
    /\ MaxFaults \in Nat

\* A job names what it is about; a scan may be of the root.
ASSUME JobsAssumption ==
    /\ Tree \subseteq Seq(Nat)
    /\ \A mix \in Mixes, t \in Tasks :
          /\ mix[t].kind \in {"pool", "cues", "navigate", "names", "slots", "property", "scan"}
          /\ mix[t].to \in Seq(Nat)
          /\ mix[t].kind # "scan" => mix[t].to # << >>

VARIABLES
    loc,        \* where the console is
    job,        \* job of each task
    pc, todo,   \* of each task: state, and commands it has yet to send
    base,       \* of a scan: location of its reset destination
    notes,      \* what each task has read and not returned yet
    filed,      \* what was indexed, returned or assigned
    faults,
    here,       \* ghost: where each task takes the console to be
    movers,     \* ghost: tasks that moved it since the task's last absolute cd
    missed,     \* ghost: a cd of the task since then, or that one, moved nothing
    astray      \* ghost: it started relative to a place that was not the root

code == <<pc, todo, base, notes, filed>>
ghosts == <<here, movers, missed, astray>>
vars == <<loc, job, code, faults, ghosts>>

Kind(t) == job[t].kind
Pools == {t \in Tasks : Kind(t) = "pool"}
Hydrator == {t \in Tasks : Kind(t) \in {"pool", "cues"}}

(***************************************************************************)
(* The commands of each job.                                               *)
(***************************************************************************)
Goto(place) == [op |-> "goto", to |-> place, empty |-> 0]
Into(n) == [op |-> "into", to |-> <<n>>, empty |-> 0]
Do(op) == [op |-> op, to |-> << >>, empty |-> 0]

\* One pool of the name index.
IndexOnePool(j) == <<Goto(j.to), Do("list"), Goto(Root)>>

\* The cues of one sequence after the other.
HydrateSequences(j) ==
    [i \in 1..3 * Len(j.to) |->
        IF i % 3 = 1 THEN Goto(<<Sequence, j.to[(i + 2) \div 3]>>)
        ELSE IF i % 3 = 2 THEN Do("list") ELSE Goto(Root)]

\* What the loop has left to send after the sequence it is at.
OtherSequences(s) ==
    LET n == 3 * ((Len(s) - 1) \div 3)
    IN SubSeq(s, Len(s) - n + 1, Len(s))

\* navigate_console: a keyword, or an index of the current place.
Navigate(j) == IF j.by = "index" THEN <<Into(j.to[1])>> ELSE <<Goto(j.to)>>

\* Mutant: the console is left where it is.
DiscoverNamesStaying(j) == Navigate(j) \o <<Do("list")>>

\* discover_object_names.
DiscoverNames(j) == Navigate(j) \o <<Do("list"), Goto(Root)>>

\* check_pool_availability, which looks one level deeper into a container.
CheckPoolSlots(j) == Navigate(j) \o <<Do("slots"), Goto(Root)>>

\* Mutant: no clean state first.
SetPropertyFromHere(j) ==
    [i \in 1..Len(j.to) - 1 |-> Into(j.to[i])]
      \o <<Do("assign"), Do("verify"), Goto(Root)>>

\* set_property with verify: to the parent of the node, which is assigned to
\* as a child of the place the console is at then.
SetProperty(j) ==
    <<Goto(Root)>> \o [i \in 1..Len(j.to) - 1 |-> Into(j.to[i])]
                   \o <<Do("assign"), Do("verify"), Goto(Root)>>

\* scan_indexes: the base, then one index after the other, see Probe and Look.
Probing(n, empty) == [op |-> "probe", to |-> <<n>>, empty |-> empty]
ScanIndexes(j) == <<[Goto(j.to) EXCEPT !.op = "base"], Probing(1, 0)>>

Commands(j) ==
    CASE j.kind = "pool" -> IndexOnePool(j)
      [] j.kind = "cues" -> HydrateSequences(j)
      [] j.kind = "navigate" -> Navigate(j)
      [] j.kind = "names" -> DiscoverNames(j)
      [] j.kind = "slots" -> CheckPoolSlots(j)
      [] j.kind = "property" -> SetProperty(j)
      [] j.kind = "scan" -> ScanIndexes(j)

Init ==
    /\ loc = Root
    /\ job \in Mixes
    /\ pc = [t \in Tasks |-> "idle"]
    /\ todo = [t \in Tasks |-> << >>]
    /\ base = [t \in Tasks |-> Root]
    /\ notes = [t \in Tasks |-> {}]
    /\ filed = {}
    /\ faults = 0
    /\ here = [t \in Tasks |-> Root]
    /\ movers = [t \in Tasks |-> {}]
    /\ missed = [t \in Tasks |-> FALSE]
    /\ astray = [t \in Tasks |-> FALSE]

(***************************************************************************)
(* What the tasks do.                                                      *)
(***************************************************************************)

\* The pools are gathered; the sequences wait for all of them.
Turn(t) == Kind(t) = "cues" => \A p \in Pools : pc[p] \in {"ended", "failed"}

Begin(t) ==
    /\ pc[t] = "idle"
    /\ Turn(t)
    /\ pc' = [pc EXCEPT ![t] = "busy"]
    /\ todo' = [todo EXCEPT ![t] = Commands(job[t])]
    /\ astray' = [astray EXCEPT ![t] = loc # Root]
    /\ UNCHANGED <<loc, job, base, notes, filed, faults, here, movers, missed>>

\* The rest of the commands, and the end when there is none: what was read is
\* returned then.  The cues of a sequence are filed as soon as the console
\* has been sent back.
Proceed(t, rest, read) ==
    /\ todo' = [todo EXCEPT ![t] = rest]
    /\ pc' = [pc EXCEPT ![t] = IF rest = << >> THEN "ended" ELSE "busy"]
    /\ LET done == rest = << >> \/ (Kind(t) = "cues" /\ Head(todo[t]) = Goto(Root))
       IN  /\ filed' = IF done THEN filed \cup read ELSE filed
           /\ notes' = [notes EXCEPT ![t] = IF done THEN {} ELSE read]

\* The console, told to cd.
Absolute(c) == c.op \in {"goto", "base"}
Target(c) == IF Absolute(c) THEN c.to ELSE loc \o c.to

Moved(c) == IF Target(c) \in Tree THEN Target(c) ELSE loc

\* Ghosts of a cd of task t.  A scan notices an index that does not exist.
Traced(t, c) ==
    LET hit == Target(c) \in Tree
        afresh == hit /\ Absolute(c)
    IN  /\ here' = [here EXCEPT ![t] = IF Absolute(c) THEN c.to ELSE @ \o c.to]
        /\ movers' = [u \in Tasks |->
              IF u = t THEN (IF afresh THEN {} ELSE movers[u])
              ELSE IF pc[u] = "busy" /\ Moved(c) # loc
                   THEN movers[u] \cup {t} ELSE movers[u]]
        /\ missed' = [missed EXCEPT ![t] =
              IF afresh THEN FALSE ELSE @ \/ (~hit /\ c.op # "probe")]
        /\ astray' = [astray EXCEPT ![t] = @ /\ ~afresh]

\* One cd: navigate() or a send of the hydrator, neither of which looks at
\* where the console has got to.
Cd(t) ==
    /\ pc[t] = "busy"
    /\ LET c == Head(todo[t])
       IN  /\ c.op \in {"goto", "into", "base"}
           /\ loc' = Moved(c)
           /\ base' = [base EXCEPT ![t] = IF c.op = "base" THEN loc' ELSE @]
           /\ Proceed(t, Tail(todo[t]), notes[t])
           /\ Traced(t, c)
    /\ UNCHANGED <<job, faults>>

\* What task t takes for the contents of "here" is the contents of "loc".
Read(t) == [by |-> t, want |-> here[t], at |-> loc, movers |-> movers[t],
            missed |-> missed[t], astray |-> astray[t]]

ListHere(t) ==
    /\ pc[t] = "busy" /\ Head(todo[t]).op = "list"
    /\ Proceed(t, Tail(todo[t]), {Read(t)})
    /\ UNCHANGED <<loc, job, base, faults, ghosts>>

\* A list that shows a single pool is read again one level deeper.
ListSlots(t) ==
    /\ pc[t] = "busy" /\ Head(todo[t]).op = "slots"
    /\ Proceed(t, IF loc \in Containers
                  THEN <<Into(1), Do("list")>> \o Tail(todo[t])
                  ELSE Tail(todo[t]),
               {Read(t)})
    /\ UNCHANGED <<loc, job, base, faults, ghosts>>

\* The assignment takes effect at once, wherever the console is.
Assign(t) ==
    /\ pc[t] = "busy" /\ Head(todo[t]).op = "assign"
    /\ todo' = [todo EXCEPT ![t] = Tail(@)]
    /\ filed' = filed \cup {Read(t)}
    /\ UNCHANGED <<loc, job, pc, base, notes, faults, ghosts>>

\* The verifying list decides nothing.
Verify(t) ==
    /\ pc[t] = "busy" /\ Head(todo[t]).op = "verify"
    /\ Proceed(t, Tail(todo[t]), notes[t])
    /\ UNCHANGED <<loc, job, base, faults, ghosts>>

\* A scan goes on with the next index until the last, or until too many in a
\* row were empty.
NextIndex(t, n, empty) ==
    IF n = job[t].max \/ empty = job[t].stop THEN << >> ELSE <<Probing(n + 1, empty)>>

\* An index that leaves the console at the base does not exist: reset, next.
Probe(t) ==
    /\ pc[t] = "busy"
    /\ LET c == Head(todo[t])
           n == c.to[1]
       IN  /\ c.op = "probe"
           /\ loc' = Moved(c)
           /\ Proceed(t, IF loc' = base[t]
                         THEN <<Goto(job[t].to)>> \o NextIndex(t, n, c.empty + 1)
                         ELSE <<[c EXCEPT !.op = "look"]>>,
                      notes[t])
           /\ Traced(t, c)
    /\ UNCHANGED <<job, base, faults>>

\* The scan lists the index and resets; an empty list counts as empty.
Look(t) ==
    /\ pc[t] = "busy"
    /\ LET c == Head(todo[t])
           n == c.to[1]
           found == \E p \in Tree : Len(p) = Len(loc) + 1 /\ IsPrefix(loc, p)
       IN  /\ c.op = "look"
           /\ Proceed(t, <<Goto(job[t].to)>>
                           \o NextIndex(t, n, IF found THEN 0 ELSE c.empty + 1),
                      IF found THEN notes[t] \cup {Read(t)} ELSE notes[t])
    /\ UNCHANGED <<loc, job, base, faults, ghosts>>

\* A send raises and its command is not sent.  The loop over the sequences
\* goes on with the next one; every other task ends with the exception.
Raise(t) ==
    /\ pc[t] = "busy"
    /\ faults < MaxFaults
    /\ faults' = faults + 1
    /\ LET rest == IF Kind(t) = "cues" THEN OtherSequences(todo[t]) ELSE << >>
       IN  /\ todo' = [todo EXCEPT ![t] = rest]
           /\ pc' = [pc EXCEPT ![t] = IF rest = << >> THEN "failed" ELSE "busy"]
    /\ notes' = [notes EXCEPT ![t] = {}]
    /\ UNCHANGED <<loc, job, base, filed, ghosts>>

\* The caller of hydrate() is cancelled, and with it what it gathered.
CancelHydration ==
    /\ \E t \in Hydrator : pc[t] = "busy"
    /\ faults < MaxFaults
    /\ faults' = faults + 1
    /\ pc' = [t \in Tasks |-> IF t \in Hydrator /\ pc[t] # "ended" THEN "failed" ELSE pc[t]]
    /\ todo' = [t \in Tasks |-> IF t \in Hydrator THEN << >> ELSE todo[t]]
    /\ notes' = [t \in Tasks |-> IF t \in Hydrator THEN {} ELSE notes[t]]
    /\ UNCHANGED <<loc, job, base, filed, ghosts>>

Next ==
    \/ \E t \in Tasks :
          \/ Begin(t) \/ Cd(t) \/ ListHere(t) \/ ListSlots(t) \/ Assign(t)
          \/ Verify(t) \/ Probe(t) \/ Look(t) \/ Raise(t)
    \/ CancelHydration

Spec == Init /\ [][Next]_vars

-----------------------------------------------------------------------------
\* Type correctness; the console never stands at a place that does not exist.
TypeOK ==
    /\ loc \in Tree
    /\ pc \in [Tasks -> {"idle", "busy", "ended", "failed"}]
    /\ \A t \in Tasks : pc[t] = "busy" <=> todo[t] # << >>
    /\ base \in [Tasks -> Tree]
    /\ \A t \in Tasks : \A r \in notes[t] : r.by = t /\ r.at \in Tree
    /\ \A r \in filed : r.by \in Tasks /\ r.at \in Tree

\* Jobs that start with a cd from the place where the console happens to be.
Relative(t) == Kind(t) \in {"slots", "names", "navigate"} /\ job[t].by = "index"

\* What is indexed, returned or assigned for a place is what is at that place,
\* unless one of these happened since the task's last absolute cd: another
\* task moved the console, a cd of the task went nowhere, or, only for a tool
\* that starts from an index, the console was not at the root when it started.
\* A scan is not misled by an index that does not exist, and the sequences of a
\* hydration are not disturbed by its pools, whatever failed before
\* (console_state.py, navigation.py and _check_pool_slots()).
MisfiledOnlyWhenMoved ==
    \A r \in filed : r.at # r.want =>
        \/ r.missed
        \/ r.astray /\ Relative(r.by)
        \/ r.movers \ (IF Kind(r.by) = "cues" THEN Pools ELSE {}) # {}

\* Jobs that end with cd /.
Returning(t) == ~(Kind(t) = "navigate" \/ (Kind(t) = "scan" /\ job[t].to # Root))

\* When nothing is under way, and no send has raised and no tool was asked to
\* stay elsewhere, the console is back at the root, however the jobs
\* interleaved ("After this call the console is left at root", "then returns
\* to root").
BackAtRoot ==
    (/\ faults = 0
     /\ \A t \in Tasks : pc[t] = "idle" \/ (pc[t] = "ended" /\ Returning(t)))
    => loc = Root

\* The name index of a pool has the contents of that pool ("Navigate to the
\* pool and list its contents", _index_one_pool()).  The pools are gathered.
IndexedFromItsPool ==
    \A r \in filed : Kind(r.by) = "pool" => r.at = r.want
=============================================================================
