--------------------------- MODULE ToolCallsProofs ---------------------------
(***************************************************************************)
(* Proofs about ToolCalls: any number of overlapping calls, any scopes     *)
(* granted, any console.  First what the layers of permissions say of one  *)
(* another, then what is left of the script of a call and what the         *)
(* commands it has sent established.                                       *)
(***************************************************************************)
EXTENDS ToolCalls, TLAPS

-----------------------------------------------------------------------------
(* Permissions. *)

\* The loops from tier 5 down find the highest tier.
LEMMA HighestOf ==
    ASSUME NEW T \in SUBSET Tiers
    PROVE  /\ Highest(T) \in Tiers
           /\ \A t \in T : t <= Highest(T)
           /\ T # {} => Highest(T) \in T
<1>1. CASE T = {}
  BY <1>1 DEF Highest, Tiers
<1>2. CASE T # {}
  <2>1. \E t \in T : \A u \in T : u <= t
    <3>1. \A t \in T : t \in {0, 1, 2, 3, 4, 5}
      BY DEF Tiers
    <3> QED BY <1>2, <3>1
  <2>2. Highest(T) \in T /\ \A u \in T : u <= Highest(T)
    BY <1>2, <2>1 DEF Highest
  <2> QED BY <2>2 DEF Tiers
<1> QED BY <1>1, <1>2

\* Every tier has a scope.
LEMMA TierHasScope == ASSUME NEW t \in Tiers PROVE TierScopes[t] # {}
<1>1. t \in {0, 1, 2, 3, 4, 5}
  BY DEF Tiers
<1>2. \E s \in {"discover", "playback:go", "preset:update", "cue:store", "patch:write",
               "show:load"} : s \in TierScopes[t]
  BY <1>1 DEF TierScopes, Tiers
<1> QED BY <1>2

\* The right of a session never exceeds that of the console user its commands are
\* sent as: a tier granted as a whole is a tier of which some scope is granted.
LEMMA SessionWithinUser ==
    ASSUME NEW granted
    PROVE  /\ SessionTier(granted) \in Tiers /\ UserTier(granted) \in Tiers
           /\ SessionTier(granted) <= UserTier(granted)
<1> DEFINE Whole == {t \in Tiers : TierScopes[t] \subseteq granted}
           Some == {t \in Tiers : TierScopes[t] \cap granted # {}}
<1>1. Whole \subseteq Some
  BY TierHasScope
<1>2. Highest(Whole) \in Tiers /\ Highest(Some) \in Tiers
  BY HighestOf
<1>3. CASE Whole = {}
  <2>1. Highest(Whole) = 0
    BY <1>3 DEF Highest
  <2> QED BY <1>2, <2>1 DEF SessionTier, UserTier, Tiers
<1>4. CASE Whole # {}
  <2>1. Highest(Whole) \in Some
    BY <1>1, <1>4, HighestOf
  <2> QED BY <1>2, <2>1, HighestOf DEF SessionTier, UserTier, Tiers
<1> QED BY <1>3, <1>4

\* No scope belongs to two tiers.
LEMMA TiersDisjoint ==
    ASSUME NEW t \in Tiers, NEW u \in Tiers, t # u
    PROVE  TierScopes[t] \cap TierScopes[u] = {}
<1> DEFINE TierOf(s) ==
      CASE s \in {"discover", "state:read"} -> 0
        [] s \in {"playback:go", "executor:control"} -> 1
        [] s \in {"programmer:write", "preset:update"} -> 2
        [] s \in {"cue:store", "sequence:edit", "group:store", "macro:edit",
                  "effect:edit", "filter:manage"} -> 3
        [] s \in {"setup:console", "network:config", "patch:write", "fixture:import"} -> 4
        [] OTHER -> 5
<1>1. \A v \in Tiers : \A s \in TierScopes[v] : TierOf(s) = v
  <2> SUFFICES ASSUME NEW v \in Tiers, NEW s \in TierScopes[v] PROVE TierOf(s) = v
    OBVIOUS
  <2>1. v \in {0, 1, 2, 3, 4, 5}
    BY DEF Tiers
  <2> QED BY <2>1 DEF TierScopes, Tiers
<1> HIDE DEF TierOf
<1> QED BY <1>1

\* A server granted a whole tier and those below, as GMA_SCOPE "tier:N" grants them,
\* gives its session the very right of the console user it logs in as.
THEOREM WholeTierRights ==
    \A n \in Tiers : SessionTier(Cumulative(n)) = n /\ UserTier(Cumulative(n)) = n
<1> SUFFICES ASSUME NEW n \in Tiers
             PROVE  SessionTier(Cumulative(n)) = n /\ UserTier(Cumulative(n)) = n
  OBVIOUS
<1> DEFINE Whole == {t \in Tiers : TierScopes[t] \subseteq Cumulative(n)}
           Some == {t \in Tiers : TierScopes[t] \cap Cumulative(n) # {}}
<1>1. n \in Whole
  BY DEF Cumulative, Tiers
<1>2. \A t \in Some : t <= n
  <2> SUFFICES ASSUME NEW t \in Tiers, ~(t <= n) PROVE TierScopes[t] \cap Cumulative(n) = {}
    OBVIOUS
  <2>1. \A u \in Tiers : u <= n => TierScopes[t] \cap TierScopes[u] = {}
    BY TiersDisjoint
  <2> QED BY <2>1 DEF Cumulative
<1>3. n \in Some /\ Whole \subseteq Some
  BY <1>1, TierHasScope
<1>4. Highest(Whole) = n /\ Highest(Some) = n
  <2>1. /\ Highest(Whole) \in Whole /\ n <= Highest(Whole)
        /\ Highest(Some) \in Some /\ n <= Highest(Some)
    BY <1>1, <1>3, HighestOf
  <2> QED BY <1>2, <1>3, <2>1 DEF Tiers
<1> QED BY <1>4 DEF SessionTier, UserTier

-----------------------------------------------------------------------------
(* What is left of a call. *)

\* What may be left of the script of a job, from its start to its last command.
AttributeOnly == <<Command("attribute", Nothing)>>
GotoOnly == <<Command("goto", Nothing)>>
CueThenGoto(q) == <<Command("list_cue", q), Command("goto", Nothing)>>
ExecutorThenGoto == <<Command("list_executor", Nothing), Command("goto", Nothing)>>
SlotOnly(e) == <<Command("read_slot", e)>>
ReportOnly == <<Command("report", Nothing)>>

Stages(j) ==
    CASE j.tool = "set_attribute" -> {SetAttribute(j), AttributeOnly}
      [] j.tool = "set_intensity" -> {<<Command("select", j.target)>>}
      [] j.tool = "clear_programmer" -> {<<Command("clear", j.mode)>>}
      [] j.tool = "playback_action" ->
           {GotoOnly} \cup {CueThenGoto(q) : q \in SequenceIds}
           \cup (IF j.seq = Nothing THEN {ExecutorThenGoto} ELSE {})
      [] j.tool = "scan_page_executor_layout" ->
           {ReportOnly} \cup {SlotOnly(e) : e \in j.first..j.last}
      [] j.tool = "send_raw_command" -> {<<Command("raw", j.risk)>>}
      [] OTHER -> {<<Command("read", Nothing)>>}

\* The sequence whose cues the call looks through: it was given, or it is that of the
\* executor on page 1.
LookedUp(j) == IF j.seq # Nothing THEN j.seq ELSE SequenceOn(1, j)

\* What is selected is what set_attribute has selected.
SelectionKnown(c) ==
    job[c].tool = "set_attribute" /\ todo[c] = AttributeOnly /\ c \notin moved =>
        job[c].target \in {Nothing, selection}

\* The cue that goto is for is looked for in its sequence, and then it is there.
CueKnown(c) ==
    job[c].tool = "playback_action" /\ c \notin touched =>
        /\ \A q \in SequenceIds : todo[c] = CueThenGoto(q) => q = LookedUp(job[c])
        /\ todo[c] = GotoOnly =>
              LookedUp(job[c]) = Nothing \/ <<LookedUp(job[c]), job[c].cue>> \in cues

\* A scan has found the slots of the executors that are behind it.
Taken(p, execs) == UNION {Occupied(p, e) : e \in execs}

ScanKnown(c) ==
    job[c].tool = "scan_page_executor_layout" /\ c \notin touched =>
        /\ \A e \in job[c].first..job[c].last :
              todo[c] = SlotOnly(e) => got[c] = Taken(job[c].page, job[c].first..(e - 1))
        /\ todo[c] = ReportOnly => got[c] = Taken(job[c].page, job[c].first..job[c].last)

Knows(c) ==
    /\ todo[c] \in Stages(job[c])
    /\ Admitted(job[c].tool, env)
    /\ SelectionKnown(c) /\ CueKnown(c) /\ ScanKnown(c)

Inv ==
    /\ TypeOK
    /\ \A c \in Running : Knows(c)
    /\ \A c \in Calls \ Running : got[c] = {}
-----------------------------------------------------------------------------
(* The parts of a job and of its script. *)

\* What a job of each tool was asked for.
LEMMA JobParts ==
    ASSUME NEW j \in Jobs
    PROVE  /\ j.tool = "set_attribute" => j.target \in Targets \cup {Nothing}
           /\ j.tool = "set_intensity" => j.target \in Targets
           /\ j.tool = "playback_action" =>
                 /\ j.cue \in Cues /\ j.seq \in SequenceIds \cup {Nothing}
                 /\ j.execs \in SUBSET Executors /\ j.listed \in BOOLEAN
           /\ j.tool = "scan_page_executor_layout" =>
                 /\ j.page \in Pages /\ j.first \in Nat /\ j.last \in Nat
                 /\ j.first..j.last \subseteq Executors
           /\ j # NoJob
  BY ConstantsAssumption DEF ConstantsAssumption, AllJobs, NoJob

\* Of its script a call has a command left, and its word tells which stage it is at.
LEMMA StageParts ==
    ASSUME NEW j \in Jobs, NEW s \in Stages(j)
    PROVE  /\ s # <<>>
           /\ Head(s).do = "select" =>
                 /\ Head(s).arg \in Targets /\ Head(s).arg = j.target
                 /\ \/ j.tool = "set_attribute" /\ Tail(s) = AttributeOnly
                    \/ j.tool = "set_intensity" /\ Tail(s) = <<>>
           /\ Head(s).do = "attribute" => j.tool = "set_attribute" /\ s = AttributeOnly
           /\ Head(s).do = "list_executor" =>
                 j.tool = "playback_action" /\ j.seq = Nothing /\ Tail(s) = GotoOnly
           /\ Head(s).do = "list_cue" =>
                 /\ j.tool = "playback_action" /\ Tail(s) = GotoOnly
                 /\ Head(s).arg \in SequenceIds /\ s = CueThenGoto(Head(s).arg)
           /\ Head(s).do = "goto" => j.tool = "playback_action" /\ s = GotoOnly
           /\ Head(s).do = "read_slot" =>
                 /\ j.tool = "scan_page_executor_layout"
                 /\ Head(s).arg \in j.first..j.last /\ s = SlotOnly(Head(s).arg)
           /\ Head(s).do = "report" =>
                 j.tool = "scan_page_executor_layout" /\ s = ReportOnly
           /\ Head(s).do \in {"read", "clear", "raw", "attribute", "goto"} => Tail(s) = <<>>
<1>1. CASE j.tool = "set_attribute"
  <2>1. CASE s = AttributeOnly
    <3>1. s # <<>> /\ Head(s).do = "attribute" /\ Tail(s) = <<>>
      BY <2>1 DEF AttributeOnly, Command
    <3> QED BY <1>1, <2>1, <3>1
  <2>2. CASE j.target # Nothing /\ s = <<Command("select", j.target), Command("attribute", Nothing)>>
    <3>1. s # <<>> /\ Head(s).do = "select" /\ Head(s).arg = j.target /\ Tail(s) = AttributeOnly
      BY <2>2 DEF AttributeOnly, Command
    <3> QED BY <1>1, <2>2, <3>1, JobParts
  <2> QED BY <1>1, <2>1, <2>2 DEF Stages, SetAttribute, AttributeOnly
<1>2. CASE j.tool = "set_intensity"
  <2>1. s # <<>> /\ Head(s).do = "select" /\ Head(s).arg = j.target /\ Tail(s) = <<>>
    <3>1. s = <<Command("select", j.target)>>
      BY <1>2 DEF Stages
    <3> QED BY <3>1 DEF Command
  <2> QED BY <1>2, <2>1, JobParts
<1>3. CASE j.tool = "playback_action"
  <2>1. CASE s = GotoOnly
    <3>1. s # <<>> /\ Head(s).do = "goto" /\ Tail(s) = <<>>
      BY <2>1 DEF GotoOnly, Command
    <3> QED BY <1>3, <2>1, <3>1
  <2>2. CASE j.seq = Nothing /\ s = ExecutorThenGoto
    <3>1. s # <<>> /\ Head(s).do = "list_executor" /\ Tail(s) = GotoOnly
      BY <2>2 DEF ExecutorThenGoto, GotoOnly, Command
    <3> QED BY <1>3, <2>2, <3>1
  <2>3. ASSUME NEW q \in SequenceIds, s = CueThenGoto(q)
        PROVE  /\ s # <<>> /\ Head(s).do = "list_cue" /\ Head(s).arg \in SequenceIds
               /\ Tail(s) = GotoOnly /\ s = CueThenGoto(Head(s).arg)
    <3>1. s # <<>> /\ Head(s).do = "list_cue" /\ Head(s).arg = q /\ Tail(s) = GotoOnly
      BY <2>3 DEF CueThenGoto, GotoOnly, Command
    <3> QED BY <2>3, <3>1
  <2>4. \/ s = GotoOnly
        \/ j.seq = Nothing /\ s = ExecutorThenGoto
        \/ \E q \in SequenceIds : s = CueThenGoto(q)
    BY <1>3 DEF Stages
  <2> QED BY <1>3, <2>1, <2>2, <2>3, <2>4
<1>4. CASE j.tool = "scan_page_executor_layout"
  <2>1. CASE s = ReportOnly
    <3>1. s # <<>> /\ Head(s).do = "report"
      BY <2>1 DEF ReportOnly, Command
    <3> QED BY <1>4, <2>1, <3>1
  <2>2. ASSUME NEW e \in j.first..j.last, s = SlotOnly(e)
        PROVE  s # <<>> /\ Head(s).do = "read_slot" /\ Head(s).arg = e
    BY <2>2 DEF SlotOnly, Command
  <2>3. s = ReportOnly \/ \E e \in j.first..j.last : s = SlotOnly(e)
    BY <1>4 DEF Stages
  <2> QED BY <1>4, <2>1, <2>2, <2>3
<1>5. CASE j.tool \in {"clear_programmer", "send_raw_command", "get_object_info"}
  <2>1. PICK do \in {"clear", "raw", "read"} : \E arg : s = <<Command(do, arg)>>
    BY <1>5 DEF Stages
  <2>2. s # <<>> /\ Head(s).do = do /\ Tail(s) = <<>>
    BY <2>1 DEF Command
  <2> QED BY <2>1, <2>2
<1>6. j.tool \in {"set_attribute", "set_intensity", "clear_programmer", "playback_action",
                  "scan_page_executor_layout", "send_raw_command", "get_object_info"}
  BY ConstantsAssumption DEF ConstantsAssumption, AllJobs
<1> QED BY <1>1, <1>2, <1>3, <1>4, <1>5, <1>6

\* A script starts at one of its stages.
LEMMA ScriptStarts == ASSUME NEW j \in Jobs PROVE Script(j) \in Stages(j)
<1>1. j.tool \in {"set_attribute", "set_intensity", "clear_programmer", "playback_action",
                  "scan_page_executor_layout", "send_raw_command", "get_object_info"}
  BY ConstantsAssumption DEF ConstantsAssumption, AllJobs
<1>2. CASE j.tool = "playback_action"
  <2>1. Script(j) = Goto(j) /\ j.seq \in SequenceIds \cup {Nothing}
    BY <1>2, JobParts DEF Script
  <2>3. Goto(j) = CueThenGoto(j.seq) \/ j.seq = Nothing
    BY DEF Goto, CueThenGoto
  <2>4. CASE j.seq # Nothing
    BY <1>2, <2>1, <2>3, <2>4 DEF Stages
  <2>5. CASE j.seq = Nothing
    <3>1. Goto(j) \in {ExecutorThenGoto, GotoOnly}
      BY <2>5 DEF Goto, GotoOnly, ExecutorThenGoto
    <3> QED BY <1>2, <2>1, <2>5, <3>1 DEF Stages
  <2> QED BY <2>4, <2>5
<1>3. CASE j.tool = "scan_page_executor_layout"
  BY <1>3, JobParts DEF Script, Stages, ScanFrom, SlotOnly, ReportOnly
<1>4. CASE j.tool \notin {"playback_action", "scan_page_executor_layout"}
  BY <1>1, <1>4 DEF Script, Stages
<1> QED BY <1>2, <1>3, <1>4

\* The sequence that is found on an executor.
LEMMA SequenceFound ==
    ASSUME TypeOK, NEW p \in Pages, NEW j
    PROVE  SequenceOn(p, j) \in SequenceIds \cup {Nothing}
<1>1. ASSUME NEW e \in Executors, j.execs = {e}
      PROVE  layout[p][CHOOSE x \in j.execs : TRUE].seq \in SequenceIds \cup {Nothing}
  <2>1. (CHOOSE x \in j.execs : TRUE) = e
    BY <1>1
  <2>2. layout[p][e] \in Slot
    BY DEF TypeOK, Layout
  <2> QED BY <2>1, <2>2 DEF Slot
<1> QED BY <1>1 DEF SequenceOn

\* The slots of an executor are numbers, and so are those of many.
LEMMA SlotsTaken ==
    ASSUME TypeOK, NEW p \in Pages, NEW execs \in SUBSET Executors
    PROVE  Taken(p, execs) \in SUBSET Nat
<1>1. ASSUME NEW e \in Executors PROVE Occupied(p, e) \subseteq Nat
  <2>1. layout[p][e].width \in Nat /\ e \in Nat
    BY ConstantsAssumption DEF ConstantsAssumption, TypeOK, Layout, Slot
  <2> QED BY <2>1 DEF Occupied
<1> QED BY <1>1 DEF Taken

LEMMA TakenOneMore ==
    ASSUME NEW p, NEW first \in Nat, NEW e \in Nat, first <= e
    PROVE  Taken(p, first..e) = Taken(p, first..(e - 1)) \cup Occupied(p, e)
<1>1. first..e = (first..(e - 1)) \cup {e}
  OBVIOUS
<1> QED BY <1>1 DEF Taken

-----------------------------------------------------------------------------
(* What a call knows outlasts the steps of others. *)

LEMMA OthersKnow ==
    ASSUME NEW d \in Calls, Knows(d),
           job'[d] = job[d], todo'[d] = todo[d], got'[d] = got[d], env' = env,
           d \in moved' \/ (d \notin moved /\ selection' = selection),
           d \in touched' \/ (d \notin touched /\ UNCHANGED <<layout, cues>>)
    PROVE  Knows(d)'
<1> USE DEF Knows
<1>1. (todo[d] \in Stages(job[d]))' /\ Admitted(job[d].tool, env)'
  BY DEF Stages
<1>2. SelectionKnown(d)'
  BY DEF SelectionKnown
<1>3. CueKnown(d)'
  <2>1. CASE d \in touched'
    BY <2>1 DEF CueKnown
  <2>2. CASE d \notin touched /\ layout' = layout /\ cues' = cues
    <3>1. LookedUp(job[d])' = LookedUp(job[d])
      BY <2>2 DEF LookedUp, SequenceOn
    <3> QED BY <2>2, <3>1 DEF CueKnown
  <2> QED BY <2>1, <2>2
<1>4. ScanKnown(d)'
  BY DEF ScanKnown, Taken, Occupied
<1> QED BY <1>1, <1>2, <1>3, <1>4
-----------------------------------------------------------------------------
(* Steps. *)

\* What a step does at the console keeps its types, and every call of D whose
\* selection, cues or executors it changes is marked.
Marks(D) ==
    /\ env' = env
    /\ selection' \in Targets \cup {Nothing}
    /\ layout' \in Layout /\ page' \in Pages /\ cues' \subseteq cues
    /\ changes' \in 0..MaxChanges
    /\ moved' \subseteq Calls /\ touched' \subseteq Calls
    /\ \A d \in D : /\ d \in moved' \/ (d \notin moved /\ selection' = selection)
                    /\ d \in touched' \/ (d \notin touched /\ UNCHANGED <<layout, cues>>)

LEMMA UnmarkedQuiet ==
    ASSUME TypeOK, UNCHANGED <<env, console, changes, moved, touched>>
    PROVE  \A D : Marks(D)
  BY DEF TypeOK, Marks, console

\* Stages of a script that look different are different.
LEMMA StagesDiffer ==
    /\ \A t : AttributeOnly # <<Command("select", t), Command("attribute", Nothing)>>
    /\ GotoOnly # ExecutorThenGoto
    /\ \A q : CueThenGoto(q) # GotoOnly /\ CueThenGoto(q) # ExecutorThenGoto
    /\ \A q, r : CueThenGoto(q) = CueThenGoto(r) => q = r
    /\ \A e : SlotOnly(e) # ReportOnly
    /\ \A e, f : SlotOnly(e) = SlotOnly(f) => e = f
<1> USE DEF Command
<1>1. \A t : AttributeOnly # <<Command("select", t), Command("attribute", Nothing)>>
  BY DEF AttributeOnly
<1>2. GotoOnly # ExecutorThenGoto
  BY DEF GotoOnly, ExecutorThenGoto
<1>3. \A q : CueThenGoto(q) # GotoOnly /\ CueThenGoto(q) # ExecutorThenGoto
  BY DEF CueThenGoto, GotoOnly, ExecutorThenGoto
<1>4. \A q, r : CueThenGoto(q) = CueThenGoto(r) => q = r
  BY DEF CueThenGoto
<1>5. \A e : SlotOnly(e) # ReportOnly
  BY DEF SlotOnly, ReportOnly
<1>6. \A e, f : SlotOnly(e) = SlotOnly(f) => e = f
  BY DEF SlotOnly
<1> QED BY <1>1, <1>2, <1>3, <1>4, <1>5, <1>6

\* The other calls and their knowledge are as they were.
LEMMA RunningKnow ==
    ASSUME Inv, NEW D \in SUBSET Calls, Marks(D),
           \A d \in D : pc'[d] = pc[d] /\ job'[d] = job[d] /\ todo'[d] = todo[d]
                        /\ got'[d] = got[d]
    PROVE  \A d \in D : (d \in Running)' => Knows(d)'
<1> SUFFICES ASSUME NEW d \in D, (d \in Running)' PROVE Knows(d)'
  OBVIOUS
<1>1. d \in Calls /\ Knows(d)
  BY DEF Running, Inv
<1> QED BY <1>1, OthersKnow DEF Marks

\* A call ends.
LEMMA EndsInv ==
    ASSUME Inv, NEW c \in Running, NEW way \in {"answered", "blocked", "raised"},
           Ends(c, way), Marks(Running \ {c})
    PROVE  Inv'
<1> USE DEF Inv, Ends
<1>1. TypeOK'
  BY DEF TypeOK, Marks, Running
<1>2. \A d \in Running' : Knows(d)'
  <2>1. \A d \in Running \ {c} : pc'[d] = pc[d] /\ job'[d] = job[d] /\ todo'[d] = todo[d]
                               /\ got'[d] = got[d]
    BY DEF TypeOK
  <2>2. Running' \subseteq Running \ {c} /\ Running \ {c} \in SUBSET Calls
    BY DEF TypeOK, Running
  <2> QED BY <2>1, <2>2, RunningKnow
<1>3. \A d \in Calls \ Running' : got'[d] = {}
  BY DEF TypeOK, Running
<1> QED BY <1>1, <1>2, <1>3

\* A call goes on with the rest of its script, of which it knows what it must.
LEMMA GoesOnInv ==
    ASSUME Inv, NEW c \in Running, NEW rest, rest # <<>>, NEW slots \in SUBSET Nat,
           todo' = [todo EXCEPT ![c] = rest], got' = [got EXCEPT ![c] = slots],
           UNCHANGED <<pc, job>>, Marks(Running \ {c}), Knows(c)'
    PROVE  Inv'
<1> USE DEF Inv
<1>1. TypeOK'
  BY DEF TypeOK, Marks, Running
<1>2. \A d \in Running' : Knows(d)'
  <2>1. \A d \in Running \ {c} : pc'[d] = pc[d] /\ job'[d] = job[d] /\ todo'[d] = todo[d]
                               /\ got'[d] = got[d]
    BY DEF TypeOK
  <2>2. Running' \subseteq Running /\ Running \ {c} \in SUBSET Calls
    BY DEF Running
  <2> QED BY <2>1, <2>2, RunningKnow
<1>3. \A d \in Calls \ Running' : got'[d] = {}
  BY DEF TypeOK, Running
<1> QED BY <1>1, <1>2, <1>3

\* The people at the console act.
LEMMA AtRestInv ==
    ASSUME Inv, Marks(Running), UNCHANGED <<pc, job, todo, got>>
    PROVE  Inv'
<1> USE DEF Inv
<1>1. TypeOK'
  BY DEF TypeOK, Marks
<1>2. \A d \in Running' : Knows(d)'
  BY RunningKnow DEF Running
<1> QED BY <1>1, <1>2 DEF Running
\* The gates let a call through with the whole of its script before it.
LEMMA CallInv ==
    ASSUME Inv, NEW c \in Calls, NEW j \in Jobs, Call(c, j)
    PROVE  Inv'
<1> USE DEF Inv
<1>1. pc[c] = "idle" /\ c \notin Running /\ got[c] = {} /\ got' = got
  BY DEF Call, Running
<1>2. Marks(Calls)
  BY UnmarkedQuiet DEF Call
<1>3. CASE pc' = [pc EXCEPT ![c] = "blocked"] /\ UNCHANGED <<job, todo>>
  <2>1. TypeOK'
    BY <1>1, <1>2, <1>3 DEF TypeOK, Marks
  <2>2. \A d \in Running' : d \in Calls \ {c} /\ pc'[d] = pc[d]
    BY <1>3 DEF Running, TypeOK
  <2>3. \A d \in Running' : Knows(d)'
    <3> DEFINE D == Calls \ {c}
    <3>1. Marks(D)
      BY <1>2 DEF Marks
    <3>2. \A d \in D : pc'[d] = pc[d] /\ job'[d] = job[d] /\ todo'[d] = todo[d] /\ got'[d] = got[d]
      BY <1>1, <1>3 DEF TypeOK
    <3> QED BY <2>2, <3>1, <3>2, RunningKnow
  <2> QED BY <1>1, <1>3, <2>1, <2>3 DEF Running, TypeOK
<1>4. CASE /\ Admitted(j.tool, env)
           /\ pc' = [pc EXCEPT ![c] = "tool"]
           /\ job' = [job EXCEPT ![c] = j]
           /\ todo' = [todo EXCEPT ![c] = Script(j)]
  <2>1. Script(j) \in Stages(j) /\ Script(j) # <<>>
    BY ScriptStarts, StageParts
  <2>2. pc'[c] = "tool" /\ job'[c] = j /\ todo'[c] = Script(j) /\ got'[c] = {}
    BY <1>1, <1>4 DEF TypeOK
  <2>3. TypeOK'
    BY <1>1, <1>2, <1>4, <2>1 DEF TypeOK, Marks
  <2>4. Knows(c)'
    <3>1. (todo[c] \in Stages(job[c]))' /\ Admitted(job[c].tool, env)'
      BY <1>2, <1>4, <2>1, <2>2 DEF Marks, Stages
    <3>2. SelectionKnown(c)'
      <4>1. j.tool = "set_attribute" => Script(j) = SetAttribute(j)
        BY DEF Script
      <4>2. j.target # Nothing => SetAttribute(j) # AttributeOnly
        BY StagesDiffer DEF SetAttribute
      <4> QED BY <2>2, <4>1, <4>2 DEF SelectionKnown
    <3>3. CueKnown(c)'
      <4> SUFFICES ASSUME j.tool = "playback_action"
                   PROVE  /\ \A q \in SequenceIds : Script(j) = CueThenGoto(q) => q = LookedUp(j)'
                          /\ Script(j) = GotoOnly => LookedUp(j)' = Nothing
        BY <2>2 DEF CueKnown
      <4>1. Script(j) = Goto(j)
        BY DEF Script
      <4>2. CASE j.seq # Nothing
        <5>1. Goto(j) = CueThenGoto(j.seq) /\ LookedUp(j)' = j.seq
          BY <4>2 DEF Goto, CueThenGoto, LookedUp
        <5> QED BY <4>1, <5>1, StagesDiffer
      <4>3. CASE j.seq = Nothing /\ (j.execs # {} \/ j.listed)
        <5>1. Goto(j) = ExecutorThenGoto
          BY <4>3 DEF Goto, ExecutorThenGoto
        <5> QED BY <4>1, <5>1, StagesDiffer
      <4>4. CASE j.seq = Nothing /\ j.execs = {} /\ ~j.listed
        <5>1. Goto(j) = GotoOnly /\ LookedUp(j)' = Nothing
          BY <4>4 DEF Goto, GotoOnly, LookedUp, SequenceOn
        <5> QED BY <4>1, <5>1, StagesDiffer
      <4> QED BY <4>2, <4>3, <4>4
    <3>4. ScanKnown(c)'
      <4> SUFFICES ASSUME j.tool = "scan_page_executor_layout"
                   PROVE  /\ \A e \in j.first..j.last : Script(j) = SlotOnly(e) =>
                                Taken(j.page, j.first..(e - 1))' = {}
                          /\ Script(j) = ReportOnly => Taken(j.page, j.first..j.last)' = {}
        BY <2>2 DEF ScanKnown
      <4>1. Script(j) = ScanFrom(j, j.first) /\ j.first \in Nat /\ j.last \in Nat
        BY JobParts DEF Script
      <4>2. CASE j.first <= j.last
        <5>1. Script(j) = SlotOnly(j.first)
          BY <4>1, <4>2 DEF ScanFrom, SlotOnly
        <5>2. j.first..(j.first - 1) = {}
          BY <4>1
        <5> QED BY <5>1, <5>2, StagesDiffer DEF Taken
      <4>3. CASE ~(j.first <= j.last)
        <5>1. Script(j) = ReportOnly /\ j.first..j.last = {}
          BY <4>1, <4>3 DEF ScanFrom, ReportOnly
        <5> QED BY <5>1, StagesDiffer DEF Taken
      <4> QED BY <4>2, <4>3
    <3> QED BY <3>1, <3>2, <3>3, <3>4 DEF Knows
  <2>5. \A d \in Running' : Knows(d)'
    <3> DEFINE D == Calls \ {c}
    <3>1. Marks(D)
      BY <1>2 DEF Marks
    <3>2. \A d \in D : pc'[d] = pc[d] /\ job'[d] = job[d] /\ todo'[d] = todo[d] /\ got'[d] = got[d]
      BY <1>1, <1>4 DEF TypeOK
    <3>3. Running' \subseteq D \cup {c}
      BY DEF Running
    <3> QED BY <2>4, <3>1, <3>2, <3>3, RunningKnow
  <2> QED BY <1>1, <1>4, <2>3, <2>5 DEF Running, TypeOK
<1> QED BY <1>3, <1>4 DEF Call

\* What a call knows of the command it sends next.
LEMMA SendsParts ==
    ASSUME Inv, NEW c \in Calls, NEW do, Sends(c, do)
    PROVE  /\ c \in Running /\ job[c] \in Jobs /\ todo[c] \in Stages(job[c]) /\ Knows(c)
           /\ Next1(c) = Head(todo[c]) /\ Next1(c).do = do
  BY DEF Inv, TypeOK, Knows, Running, Sends, Next1

\* Commands after which a call is over, and errors.
LEMMA LastInv ==
    ASSUME Inv, NEW c \in Calls,
           NEW do \in {"read", "clear", "raw", "attribute", "goto"}, Sends(c, do),
           GoesOn(c, Tail(todo[c])), Marks(Running \ {c})
    PROVE  Inv'
<1>1. c \in Running /\ Tail(todo[c]) = <<>>
  BY SendsParts, StageParts
<1> QED BY <1>1, EndsInv DEF GoesOn

LEMMA QuietLastInv ==
    ASSUME Inv, NEW c \in Calls, Read(c) \/ Attribute(c) \/ SendGoto(c) \/ RawInVain(c)
    PROVE  Inv'
<1>1. Marks(Running \ {c})
  BY UnmarkedQuiet DEF Read, Attribute, SendGoto, RawInVain, Inv
<1> QED BY <1>1, LastInv DEF Read, Attribute, SendGoto, RawInVain

LEMMA QuietEndInv ==
    ASSUME Inv, NEW c \in Calls, Report(c) \/ Raise(c)
    PROVE  Inv'
<1>1. Marks(Running \ {c}) /\ c \in Running
  BY UnmarkedQuiet DEF Report, Raise, Sends, Running, Inv
<1> QED BY <1>1, EndsInv DEF Report, Raise

\* A call that replaces the selection marks the others that run.
LEMMA ReselectMarks ==
    ASSUME Inv, NEW c \in Calls, NEW target \in Targets \cup {Nothing}, Reselect(c, target),
           UNCHANGED <<env, layout, page, changes>>, cues' \subseteq cues,
           cues' = cues \/ touched' = touched \cup Running,
           touched' \subseteq Calls, touched \subseteq touched',
           pc[c] = "tool"
    PROVE  Marks(Running \ {c})
  BY DEF Reselect, Marks, Inv, TypeOK, Running
LEMMA SelectInv == ASSUME Inv, NEW c \in Calls, Select(c) PROVE Inv'
<1> DEFINE target == Next1(c).arg
<1>1. /\ c \in Running /\ job[c] \in Jobs /\ Knows(c) /\ pc[c] = "tool"
      /\ target \in Targets /\ target = job[c].target
      /\ \/ job[c].tool = "set_attribute" /\ Tail(todo[c]) = AttributeOnly
         \/ job[c].tool = "set_intensity" /\ Tail(todo[c]) = <<>>
  BY SendsParts, StageParts DEF Select, Running
<1>2. Marks(Running \ {c})
  BY <1>1, ReselectMarks DEF Select, Inv, TypeOK
<1>3. CASE Tail(todo[c]) = <<>>
  BY <1>1, <1>2, <1>3, EndsInv DEF Select, GoesOn
<1>4. CASE job[c].tool = "set_attribute" /\ Tail(todo[c]) = AttributeOnly
  <2>1. AttributeOnly # <<>>
    BY DEF AttributeOnly
  <2>2. todo' = [todo EXCEPT ![c] = AttributeOnly] /\ UNCHANGED <<pc, job, got>>
    BY <1>4, <2>1 DEF Select, GoesOn
  <2>3. todo'[c] = AttributeOnly /\ job'[c] = job[c] /\ selection' = job[c].target /\ env' = env
    BY <1>1, <2>2 DEF Select, Reselect, Inv, TypeOK
  <2>4. Knows(c)'
    BY <1>1, <1>4, <2>3 DEF Knows, Stages, SelectionKnown, CueKnown, ScanKnown
  <2>5. got[c] \in SUBSET Nat /\ got' = [got EXCEPT ![c] = got[c]]
    BY <2>2 DEF Inv, TypeOK
  <2> QED BY <1>1, <1>2, <2>1, <2>2, <2>4, <2>5, GoesOnInv
<1> QED BY <1>1, <1>3, <1>4

LEMMA ClearInv == ASSUME Inv, NEW c \in Calls, Clear(c) PROVE Inv'
<1>1. Marks(Running \ {c})
  <2>1. CASE UNCHANGED <<selection, moved>>
    BY <2>1, UnmarkedQuiet DEF Clear, console, Inv
  <2>2. CASE Reselect(c, Nothing)
    BY <2>2, ReselectMarks DEF Clear, Sends, Inv, TypeOK
  <2> QED BY <2>1, <2>2 DEF Clear
<1> QED BY <1>1, LastInv DEF Clear

LEMMA RawInv == ASSUME Inv, NEW c \in Calls, Raw(c) PROVE Inv'
<1>1. /\ pc[c] = "tool" /\ UNCHANGED <<env, layout, page, changes>>
      /\ touched \subseteq Calls /\ Running \subseteq Calls
  BY DEF Raw, Sends, Inv, TypeOK, Running
<1>2. CASE UNCHANGED <<selection, cues, moved, touched>>
  BY <1>1, <1>2, UnmarkedQuiet, LastInv DEF Raw, console, Inv
<1>3. ASSUME NEW t \in Targets, Reselect(c, t), UNCHANGED <<cues, touched>>
      PROVE  Marks(Running \ {c})
  BY <1>1, <1>3, ReselectMarks
<1>4. ASSUME cues' \subseteq cues, touched' = touched \cup Running, UNCHANGED <<selection, moved>>
      PROVE  Marks(Running \ {c})
  BY <1>1, <1>4 DEF Marks, Inv, TypeOK
<1> QED BY <1>2, <1>3, <1>4, LastInv DEF Raw

\* An executor's sequence is the one to look through, if its call is given none.
LEMMA ListExecutorInv == ASSUME Inv, NEW c \in Calls, ListExecutor(c) PROVE Inv'
<1> DEFINE found == SequenceOn(1, job[c])
<1>1. /\ c \in Running /\ job[c] \in Jobs /\ Knows(c)
      /\ job[c].tool = "playback_action" /\ job[c].seq = Nothing /\ Tail(todo[c]) = GotoOnly
  BY SendsParts, StageParts DEF ListExecutor
<1>2. found \in SequenceIds \cup {Nothing} /\ LookedUp(job[c]) = found
  <2>1. 1 \in Pages
    BY ConstantsAssumption DEF ConstantsAssumption
  <2> QED BY <1>1, <2>1, SequenceFound DEF LookedUp, Inv
<1>3. Marks(Running \ {c})
  BY UnmarkedQuiet DEF ListExecutor, Inv
<1> DEFINE rest == IF found = Nothing THEN GotoOnly ELSE CueThenGoto(found)
<1>4. rest # <<>> /\ todo' = [todo EXCEPT ![c] = rest] /\ UNCHANGED <<pc, job, got>>
  <2>1. GotoOnly # <<>> /\ CueThenGoto(found) # <<>>
    BY DEF GotoOnly, CueThenGoto
  <2> QED BY <1>1, <2>1 DEF ListExecutor, GoesOn, CueThenGoto
<1>5. rest \in Stages(job[c])
  BY <1>1, <1>2 DEF Stages
<1>6. todo'[c] = rest /\ job'[c] = job[c] /\ env' = env /\ LookedUp(job[c])' = found
  <2>1. todo'[c] = rest /\ UNCHANGED <<job, env, layout>>
    BY <1>4 DEF ListExecutor, console, Inv, TypeOK
  <2>2. LookedUp(job[c])' = LookedUp(job[c])
    BY <2>1 DEF LookedUp, SequenceOn
  <2> QED BY <1>2, <2>1, <2>2
<1>7. Knows(c)'
  <2>1. CueKnown(c)'
    BY <1>6, StagesDiffer DEF CueKnown
  <2> QED BY <1>1, <1>5, <1>6, <2>1 DEF Knows, Stages, SelectionKnown, ScanKnown
<1>8. got[c] \in SUBSET Nat /\ got' = [got EXCEPT ![c] = got[c]]
  BY <1>4 DEF Inv, TypeOK
<1> HIDE DEF rest
<1> QED BY <1>1, <1>3, <1>4, <1>7, <1>8, GoesOnInv

\* The command goes out only when the cue is there.
LEMMA ListCueInv == ASSUME Inv, NEW c \in Calls, ListCue(c) PROVE Inv'
<1> DEFINE q == Next1(c).arg
<1>1. /\ c \in Running /\ job[c] \in Jobs /\ Knows(c) /\ q \in SequenceIds
      /\ job[c].tool = "playback_action" /\ Tail(todo[c]) = GotoOnly /\ todo[c] = CueThenGoto(q)
  BY SendsParts, StageParts DEF ListCue
<1>2. Marks(Running \ {c})
  BY UnmarkedQuiet DEF ListCue, Inv
<1>3. CASE Ends(c, "blocked")
  BY <1>1, <1>2, <1>3, EndsInv
<1>4. CASE <<q, job[c].cue>> \in cues /\ GoesOn(c, Tail(todo[c]))
  <2>1. GotoOnly # <<>>
    BY DEF GotoOnly
  <2>2. todo' = [todo EXCEPT ![c] = GotoOnly] /\ UNCHANGED <<pc, job, got>>
    BY <1>1, <1>4, <2>1 DEF GoesOn
  <2>3. /\ todo'[c] = GotoOnly /\ job'[c] = job[c] /\ UNCHANGED <<env, layout, cues, touched>>
        /\ LookedUp(job[c])' = LookedUp(job[c])
    BY <2>2 DEF ListCue, console, Inv, TypeOK, LookedUp, SequenceOn
  <2>4. c \notin touched => LookedUp(job[c]) = q
    BY <1>1 DEF Knows, CueKnown
  <2>5. Knows(c)'
    <3>1. CueKnown(c)'
      BY <1>4, <2>3, <2>4, StagesDiffer DEF CueKnown
    <3> QED BY <1>1, <2>3, <3>1 DEF Knows, Stages, SelectionKnown, ScanKnown
  <2>6. got[c] \in SUBSET Nat /\ got' = [got EXCEPT ![c] = got[c]]
    BY <2>2 DEF Inv, TypeOK
  <2> QED BY <1>1, <1>2, <2>1, <2>2, <2>5, <2>6, GoesOnInv
<1> QED BY <1>3, <1>4 DEF ListCue

\* The scan is past one more executor and has found its slots.
LEMMA ReadSlotInv == ASSUME Inv, NEW c \in Calls, ReadSlot(c) PROVE Inv'
<1> DEFINE e == Next1(c).arg
           j == job[c]
           slots == got[c] \cup Occupied(j.page, e)
           rest == ScanFrom(j, e + 1)
<1>1. /\ c \in Running /\ j \in Jobs /\ Knows(c) /\ j.tool = "scan_page_executor_layout"
      /\ e \in j.first..j.last /\ todo[c] = SlotOnly(e)
  BY SendsParts, StageParts DEF ReadSlot
<1>2. j.first \in Nat /\ j.last \in Nat /\ j.page \in Pages /\ j.first..j.last \in SUBSET Executors
  BY <1>1, JobParts
<1>3. Marks(Running \ {c})
  BY UnmarkedQuiet DEF ReadSlot, Inv
<1>4. slots \in SUBSET Nat
  <2>1. Occupied(j.page, e) = Taken(j.page, {e})
    BY DEF Taken
  <2>2. Taken(j.page, {e}) \in SUBSET Nat
    BY <1>1, <1>2, SlotsTaken DEF Inv
  <2> QED BY <2>1, <2>2 DEF Inv, TypeOK
<1>5. /\ todo' = [todo EXCEPT ![c] = rest] /\ got' = [got EXCEPT ![c] = slots]
      /\ UNCHANGED <<pc, job, env, layout, touched>>
  BY DEF ReadSlot, Found, console, Inv, TypeOK
<1>6. \/ rest = SlotOnly(e + 1) /\ e + 1 \in j.first..j.last
      \/ rest = ReportOnly /\ e = j.last
  BY <1>1, <1>2 DEF ScanFrom, SlotOnly, ReportOnly
<1>7. rest # <<>> /\ rest \in Stages(j)
  <2> HIDE DEF rest
  <2>1. SlotOnly(e + 1) # <<>> /\ ReportOnly # <<>>
    BY DEF SlotOnly, ReportOnly
  <2>2. rest \in Stages(j)
    BY <1>1, <1>6 DEF Stages
  <2> QED BY <1>6, <2>1, <2>2
<1>8. todo'[c] = rest /\ job'[c] = j /\ got'[c] = slots
  BY <1>5 DEF Inv, TypeOK
<1>9. ScanKnown(c)'
  <2> SUFFICES ASSUME c \notin touched
               PROVE  /\ \A f \in j.first..j.last :
                            rest = SlotOnly(f) => slots = Taken(j.page, j.first..(f - 1))
                      /\ rest = ReportOnly => slots = Taken(j.page, j.first..j.last)
    BY <1>5, <1>8 DEF ScanKnown, Taken, Occupied
  <2>1. got[c] = Taken(j.page, j.first..(e - 1))
    BY <1>1 DEF Knows, ScanKnown
  <2>2. slots = Taken(j.page, j.first..e)
    BY <1>1, <1>2, <2>1, TakenOneMore
  <2>3. CASE rest = SlotOnly(e + 1)
    <3>1. (e + 1) - 1 = e
      BY <1>1, <1>2
    <3> QED BY <2>2, <2>3, <3>1, StagesDiffer
  <2>4. CASE rest = ReportOnly /\ e = j.last
    BY <2>2, <2>4, StagesDiffer
  <2> QED BY <1>6, <2>3, <2>4
<1>10. Knows(c)'
  BY <1>1, <1>5, <1>7, <1>8, <1>9 DEF Knows, Stages, SelectionKnown, CueKnown
<1> HIDE DEF rest, slots
<1> QED BY <1>1, <1>3, <1>4, <1>5, <1>7, <1>10, GoesOnInv

LEMMA PeopleInv ==
    ASSUME Inv, TurnPage \/ DeleteCue \/ Assign \/ SelectByHand
    PROVE  Inv'
<1> USE DEF Inv
<1>1. changes' \in 0..MaxChanges /\ Running \subseteq Calls
  <2>1. MaxChanges \in Nat
    BY ConstantsAssumption DEF ConstantsAssumption
  <2> QED BY <2>1 DEF TurnPage, DeleteCue, Assign, SelectByHand, Changed, TypeOK, Running
<1>2. CASE TurnPage
  BY <1>1, <1>2, AtRestInv DEF TurnPage, Marks, TypeOK
<1>3. CASE DeleteCue
  BY <1>1, <1>3, AtRestInv DEF DeleteCue, Marks, TypeOK
<1>4. CASE Assign
  <2>1. layout' \in Layout
    BY <1>4, ConstantsAssumption DEF ConstantsAssumption, Assign, Layout, TypeOK
  <2> QED BY <1>1, <1>4, <2>1, AtRestInv DEF Assign, Marks, TypeOK
<1>5. CASE SelectByHand
  BY <1>1, <1>5, AtRestInv DEF SelectByHand, Marks, TypeOK
<1> QED BY <1>2, <1>3, <1>4, <1>5

LEMMA InitInv == Init => Inv
<1> SUFFICES ASSUME Init PROVE Inv
  OBVIOUS
<1>1. TypeOK
  BY ConstantsAssumption DEF ConstantsAssumption, Init, TypeOK
<1>2. Running = {}
  BY DEF Init, Running
<1> QED BY <1>1, <1>2 DEF Inv, Init

LEMMA NextInv == Inv /\ [Next]_vars => Inv'
<1> SUFFICES ASSUME Inv, [Next]_vars PROVE Inv'
  OBVIOUS
<1>1. ASSUME NEW c \in Calls, Step(c) PROVE Inv'
  BY <1>1, CallInv, QuietLastInv, QuietEndInv, SelectInv, ClearInv, RawInv, ListExecutorInv,
     ListCueInv, ReadSlotInv DEF Step
<1>2. CASE UNCHANGED vars
  <2>1. Marks(Running)
    BY <1>2, UnmarkedQuiet DEF vars, Inv
  <2> QED BY <1>2, <2>1, AtRestInv DEF vars
<1> QED BY <1>1, <1>2, PeopleInv DEF Next

LEMMA SpecInv == Spec => []Inv
  BY InitInv, NextInv, PTL DEF Spec

-----------------------------------------------------------------------------
(* What holds of every behaviour. *)

\* Calls, their scripts and the console keep their types.
THEOREM TypeCorrect == Spec => []TypeOK
<1>1. Inv => TypeOK
  BY DEF Inv
<1> QED BY <1>1, SpecInv, PTL

\* No tool that passes the gates is refused by the console for want of rights,
\* whichever scopes are granted: the gates ask for no more than the session has, and
\* the session has no more than the user its commands are sent as.
THEOREM RightsWithinConsole == Spec => []AdmittedWithinConsoleRights
<1>1. ASSUME Inv, ~env.rights_bypass, NEW c \in Running
      PROVE  RequiredRight(job[c].tool) <= UserTier(env.granted)
  <2>1. RequiredRight(job[c].tool) <= SessionTier(env.granted)
    BY <1>1 DEF Inv, Knows, Admitted
  <2>2. RequiredRight(job[c].tool) \in 0..3
    BY DEF RequiredRight
  <2> QED BY <2>1, <2>2, SessionWithinUser DEF Tiers
<1>2. Inv => AdmittedWithinConsoleRights
  BY <1>1 DEF AdmittedWithinConsoleRights
<1> QED BY <1>2, SpecInv, PTL

\* set_attribute sets the attribute of what it was asked to select, for any number of
\* calls, unless it is marked: another call or a person has selected something else.
THEOREM OwnSelection == Spec => AppliedToOwnSelection
<1>1. ASSUME Inv, NEW c \in Calls, Sent(c, "attribute"), job[c].target # Nothing
      PROVE  selection = job[c].target \/ c \in moved
  <2>1. Sends(c, "attribute")
    BY <1>1 DEF Sent
  <2>2. Knows(c) /\ job[c].tool = "set_attribute" /\ todo[c] = AttributeOnly
    BY <1>1, <2>1, SendsParts, StageParts
  <2> QED BY <1>1, <2>2 DEF Knows, SelectionKnown
<1>2. Inv /\ [Next]_vars =>
        [\A c \in Calls : Sent(c, "attribute") /\ job[c].target # Nothing =>
            selection = job[c].target \/ c \in moved]_vars
  BY <1>1
<1> QED BY <1>2, SpecInv, PTL DEF Spec, AppliedToOwnSelection

\* goto is sent to a cue that exists where look-up and command agree on the sequence.
THEOREM GotoCueThere == Spec => GotoFindsCue
<1>1. ASSUME Inv, NEW c \in Calls, Sent(c, "goto"), Resolvable(job[c]), c \notin touched
      PROVE  <<Addressed(job[c]), job[c].cue>> \in cues
  <2>1. Sends(c, "goto")
    BY <1>1 DEF Sent
  <2>2. /\ Knows(c) /\ job[c].tool = "playback_action" /\ todo[c] = GotoOnly
    BY <1>1, <2>1, SendsParts, StageParts
  <2>3. LookedUp(job[c]) = Nothing \/ <<LookedUp(job[c]), job[c].cue>> \in cues
    BY <1>1, <2>2 DEF Knows, CueKnown
  <2>4. LookedUp(job[c]) = Addressed(job[c]) /\ LookedUp(job[c]) # Nothing
    BY <1>1 DEF Resolvable, Addressed, LookedUp, SequenceOn
  <2> QED BY <2>3, <2>4
<1>2. Inv /\ [Next]_vars =>
        [\A c \in Calls : Sent(c, "goto") /\ Resolvable(job[c]) /\ c \notin touched =>
            <<Addressed(job[c]), job[c].cue>> \in cues]_vars
  BY <1>1
<1> QED BY <1>2, SpecInv, PTL DEF Spec, GotoFindsCue

\* The free slots that a scan of any range reports are those no executor of the range
\* takes, for executors of any width that stayed as they were.
THEOREM FreeSlotsFree == Spec => FreeSlotsUnassigned
<1> DEFINE span(c) == job[c].first..job[c].last
           taking(c, e) == {f \in span(c) : f <= e /\ e < f + layout[job[c].page][f].width}
<1>1. ASSUME Inv, NEW c \in Calls, c \notin touched, Sent(c, "report")
      PROVE  FreeSlots(c) = {e \in span(c) : taking(c, e) = {}}
  <2>1. Sends(c, "report")
    BY <1>1 DEF Sent
  <2>2. /\ Knows(c) /\ job[c] \in Jobs
        /\ job[c].tool = "scan_page_executor_layout" /\ todo[c] = ReportOnly
    BY <1>1, <2>1, SendsParts, StageParts
  <2>3. got[c] = Taken(job[c].page, span(c))
    BY <1>1, <2>2 DEF Knows, ScanKnown
  <2>4. ASSUME NEW e \in span(c), NEW f \in span(c)
        PROVE  e \in Occupied(job[c].page, f)
                 <=> f <= e /\ e < f + layout[job[c].page][f].width
    <3>1. f \in Executors /\ job[c].page \in Pages /\ e \in Int /\ f \in Int
      BY <2>2, <2>4, JobParts
    <3>2. layout[job[c].page][f].width \in Nat
      BY <1>1, <3>1 DEF Inv, TypeOK, Layout, Slot
    <3> QED BY <3>1, <3>2 DEF Occupied
  <2>5. \A e \in span(c) : e \in got[c] <=> taking(c, e) # {}
    BY <2>3, <2>4 DEF Taken
  <2> QED BY <2>5 DEF FreeSlots
<1>2. Inv /\ [Next]_vars =>
        [\A c \in Calls \ touched : Sent(c, "report") =>
            LET on == layout[job[c].page]
                range == job[c].first..job[c].last
                over(e) == {f \in range : f <= e /\ e < f + on[f].width}
            IN FreeSlots(c) = {e \in range : over(e) = {}}]_vars
  BY <1>1
<1> QED BY <1>2, SpecInv, PTL DEF Spec, FreeSlotsUnassigned
=============================================================================
