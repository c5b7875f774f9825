------------------------ MODULE ConsoleLocationProofs ------------------------
(***************************************************************************)
(* Proofs about ConsoleLocation: any tree, any number of tasks with any    *)
(* jobs, any number of faults.                                             *)
(***************************************************************************)
EXTENDS ConsoleLocation, SequenceTheorems, TLAPS

OpNames == {"goto", "into", "base", "list", "slots", "assign", "verify", "probe", "look"}

Cmd == [op : OpNames, to : Seq(Nat), empty : Nat]

Reading == [by : Tasks, want : Seq(Nat), at : Tree, movers : SUBSET Tasks,
            missed : BOOLEAN, astray : BOOLEAN]

\* Kinds of jobs that end with cd /, wherever they went.
Homing == {"pool", "cues", "names", "slots", "property"}

\* Commands a job may have left, by kind.
Ops(kind) ==
    CASE kind \in {"pool", "cues"} -> {"goto", "list"}
      [] kind = "navigate" -> {"goto", "into"}
      [] kind = "names" -> {"goto", "into", "list"}
      [] kind = "slots" -> {"goto", "into", "list", "slots"}
      [] kind = "property" -> {"goto", "into", "assign", "verify"}
      [] kind = "scan" -> {"base", "goto", "probe", "look"}

\* The commands s fit a job: seen from the end, those of a sequence come in threes.
Fits(kind, s) ==
    /\ \A i \in 1..Len(s) : s[i].op \in Ops(kind)
    /\ kind \in Homing /\ s # << >> => s[Len(s)] = Goto(Root)
    /\ kind = "cues" => \A i \in 1..Len(s) : (Len(s) - i) % 3 = 2 => s[i].op = "goto"

\* What a scan has left to do.
ScanShape(s, to) ==
    \E n, e \in Nat :
        s \in {<<[Goto(to) EXCEPT !.op = "base"], Probing(n, e)>>,
               <<Probing(n, e)>>, <<[Probing(n, e) EXCEPT !.op = "look"]>>,
               <<Goto(to)>>, <<Goto(to), Probing(n, e)>>}

Types ==
    /\ job \in Mixes
    /\ loc \in Tree
    /\ pc \in [Tasks -> {"idle", "busy", "ended", "failed"}]
    /\ todo \in [Tasks -> Seq(Cmd)]
    /\ base \in [Tasks -> Tree]
    /\ notes \in [Tasks -> SUBSET Reading] /\ filed \in SUBSET Reading
    /\ faults \in Nat
    /\ here \in [Tasks -> Seq(Nat)]
    /\ movers \in [Tasks -> SUBSET Tasks]
    /\ missed \in [Tasks -> BOOLEAN] /\ astray \in [Tasks -> BOOLEAN]

\* The exceptions of MisfiledOnlyWhenMoved, for one result.
Explained(r) ==
    r.at # r.want =>
        \/ r.missed
        \/ r.astray /\ Relative(r.by)
        \/ r.movers \ (IF Kind(r.by) = "cues" THEN Pools ELSE {}) # {}

NotesInv ==
    /\ \A t \in Tasks : \A r \in notes[t] : r.by = t /\ Explained(r)
    /\ \A r \in filed : Explained(r)

\* A task has commands while it is busy; it starts from the root.
TodoOf(t) ==
    /\ pc[t] = "busy" <=> todo[t] # << >>
    /\ Fits(Kind(t), todo[t])
    /\ pc[t] = "idle" => here[t] = Root

\* The pools of a hydration have ended before its sequences start.
CuesOf(t) ==
    Kind(t) = "cues" =>
        /\ movers[t] \cap Pools = {}
        /\ pc[t] = "busy" => \A p \in Pools : pc[p] \in {"ended", "failed"}

\* The base of a scan is where it resets to, if there is such a place.
ScanOf(t) ==
    Kind(t) = "scan" /\ pc[t] = "busy" =>
        /\ ScanShape(todo[t], job[t].to)
        /\ Head(todo[t]).op # "base" =>
              IF job[t].to \in Tree THEN base[t] = job[t].to ELSE missed[t]
        /\ Head(todo[t]).op = "probe" => here[t] = job[t].to

\* The console is where the task takes it to be, with the exceptions named, unless
\* the task is about to send an absolute cd.
WhereOf(t) ==
    pc[t] = "busy" /\ ~Absolute(Head(todo[t])) =>
        \/ loc = here[t]
        \/ missed[t]
        \/ astray[t] /\ Relative(t)
        \/ movers[t] # {}

TaskInv(t) == TodoOf(t) /\ CuesOf(t) /\ ScanOf(t) /\ WhereOf(t)

\* Away from the root somebody is at work, or was asked to stay there.
AwayInv ==
    faults = 0 /\ loc # Root =>
        \E t \in Tasks : pc[t] = "busy" \/ (pc[t] = "ended" /\ ~Returning(t))

Inv == Types /\ NotesInv /\ (\A t \in Tasks : TaskInv(t)) /\ AwayInv

-----------------------------------------------------------------------------
(* Sequences of commands. *)

LEMMA JobTypes ==
    ASSUME Types, NEW t \in Tasks
    PROVE  /\ Kind(t) \in {"pool", "cues", "navigate", "names", "slots", "property", "scan"}
           /\ job[t].to \in Seq(Nat)
           /\ Kind(t) # "scan" => job[t].to # << >> /\ job[t].to[1] \in Nat
<1>1. job \in Mixes
  BY DEF Types
<1>2. /\ job[t].kind \in {"pool", "cues", "navigate", "names", "slots", "property", "scan"}
      /\ job[t].to \in Seq(Nat)
      /\ job[t].kind # "scan" => job[t].to # << >>
  BY <1>1, JobsAssumption
<1> QED BY <1>2 DEF Kind

LEMMA CmdTypes ==
    /\ Root \in Seq(Nat) /\ Root \in Tree
    /\ \A to \in Seq(Nat) : Goto(to) \in Cmd /\ Absolute(Goto(to)) /\ Goto(to).op = "goto"
    /\ \A n \in Nat : Into(n) \in Cmd
    /\ \A op \in OpNames : Do(op) \in Cmd
    /\ \A n, e \in Nat : Probing(n, e) \in Cmd /\ [Probing(n, e) EXCEPT !.op = "look"] \in Cmd
    /\ \A to \in Seq(Nat) : [Goto(to) EXCEPT !.op = "base"] \in Cmd
<1> USE DEF Cmd, OpNames
<1>1. Root \in Seq(Nat) /\ Root \in Tree
  BY ConstantsAssumption DEF Root
<1>2. \A to \in Seq(Nat) : Goto(to) \in Cmd /\ Absolute(Goto(to)) /\ Goto(to).op = "goto"
  BY DEF Goto, Absolute
<1>3. \A n \in Nat : <<n>> \in Seq(Nat)
  OBVIOUS
<1>4. \A n \in Nat : Into(n) \in Cmd
  BY <1>3 DEF Into
<1>5. \A op \in OpNames : Do(op) \in Cmd
  BY DEF Do
<1>6. \A n, e \in Nat : Probing(n, e) \in Cmd /\ [Probing(n, e) EXCEPT !.op = "look"] \in Cmd
  BY <1>3 DEF Probing
<1>7. \A to \in Seq(Nat) : [Goto(to) EXCEPT !.op = "base"] \in Cmd
  BY DEF Goto
<1> QED BY <1>1, <1>2, <1>4, <1>5, <1>6, <1>7

LEMMA TailFits ==
    ASSUME NEW kind, NEW s \in Seq(Cmd), s # << >>, Fits(kind, s)
    PROVE  /\ Head(s) = s[1] /\ Head(s) \in Cmd /\ Head(s).op \in Ops(kind)
           /\ Tail(s) \in Seq(Cmd) /\ Fits(kind, Tail(s))
           /\ Tail(s) = << >> /\ kind \in Homing => Head(s) = Goto(Root)
<1>1. /\ Head(s) \in Cmd /\ Tail(s) \in Seq(Cmd) /\ Len(Tail(s)) = Len(s) - 1
      /\ \A i \in 1..Len(Tail(s)) : Tail(s)[i] = s[i + 1]
  BY HeadTailProperties
<1>2. Head(s) = s[1] /\ Len(s) \in Nat /\ Len(s) >= 1
  OBVIOUS
<1>3. \A i \in 1..Len(Tail(s)) : i + 1 \in 1..Len(s) /\ Len(s) - (i + 1) = Len(Tail(s)) - i
  BY <1>1, <1>2
<1>4. Tail(s) # << >> => Len(Tail(s)) \in 1..Len(Tail(s)) /\ Tail(s)[Len(Tail(s))] = s[Len(s)]
  BY <1>1, <1>2
<1>5. Tail(s) = << >> => Len(s) = 1
  BY <1>1, <1>2
<1>6. Fits(kind, Tail(s))
  BY <1>1, <1>3, <1>4, <1>5 DEF Fits
<1>7. Head(s).op \in Ops(kind)
  BY <1>2 DEF Fits
<1>8. Tail(s) = << >> /\ kind \in Homing => Head(s) = Goto(Root)
  BY <1>2, <1>5 DEF Fits
<1> QED BY <1>1, <1>2, <1>6, <1>7, <1>8

LEMMA OthersFit ==
    ASSUME NEW s \in Seq(Cmd), s # << >>, Fits("cues", s)
    PROVE  /\ OtherSequences(s) \in Seq(Cmd)
           /\ Fits("cues", OtherSequences(s))
           /\ OtherSequences(s) # << >> => Absolute(Head(OtherSequences(s)))
<1> DEFINE n == 3 * ((Len(s) - 1) \div 3)
           r == OtherSequences(s)
<1>1. Len(s) \in Nat /\ Len(s) >= 1
  OBVIOUS
<1>2. n \in Nat /\ n % 3 = 0 /\ n < Len(s)
  BY <1>1
<1> HIDE DEF n
<1>3. r = SubSeq(s, Len(s) - n + 1, Len(s))
  BY DEF OtherSequences, n
<1> HIDE DEF r
<1>4. \A i \in Len(s) - n + 1 .. Len(s) : s[i] \in Cmd
  BY <1>1, <1>2
<1>5. /\ r \in Seq(Cmd) /\ Len(r) = n
      /\ \A i \in 1..n : r[i] = s[Len(s) - n + 1 + i - 1]
  BY <1>1, <1>2, <1>3, <1>4, SubSeqProperties
<1>6. \A i \in 1..n : Len(s) - n + i \in 1..Len(s) /\ r[i] = s[Len(s) - n + i]
                      /\ Len(s) - (Len(s) - n + i) = n - i
  <2> TAKE i \in 1..n
  <2>1. Len(s) - n + 1 + i - 1 = Len(s) - n + i
    BY <1>1, <1>2
  <2>2. r[i] = s[Len(s) - n + i]
    BY <1>5, <2>1
  <2>3. Len(s) - n + i \in 1..Len(s) /\ Len(s) - (Len(s) - n + i) = n - i
    BY <1>1, <1>2
  <2> QED BY <2>2, <2>3
<1>7. r # << >> => n >= 1 /\ n \in 1..n /\ r[Len(r)] = s[Len(s)]
  <2> SUFFICES ASSUME r # << >> PROVE n >= 1 /\ n \in 1..n /\ r[Len(r)] = s[Len(s)]
    OBVIOUS
  <2>1. n >= 1
    BY <1>2, <1>5
  <2>2. n \in 1..n /\ Len(s) - n + n = Len(s)
    BY <1>1, <1>2, <2>1
  <2>3. r[n] = s[Len(s) - n + n]
    BY <1>6, <2>2
  <2> QED BY <1>5, <2>1, <2>2, <2>3
<1>8. Fits("cues", r)
  <2>1. \A i \in 1..Len(r) : r[i].op \in Ops("cues")
    BY <1>5, <1>6 DEF Fits
  <2>2. r # << >> => r[Len(r)] = Goto(Root)
    BY <1>7 DEF Fits, Homing
  <2>3. \A i \in 1..Len(r) : (Len(r) - i) % 3 = 2 => r[i].op = "goto"
    BY <1>5, <1>6 DEF Fits
  <2> QED BY <2>1, <2>2, <2>3 DEF Fits
<1>9. ASSUME r # << >> PROVE Absolute(Head(r))
  <2>1. n >= 1 /\ (n - 1) % 3 = 2 /\ 1 \in 1..Len(r)
    BY <1>2, <1>5, <1>7, <1>9
  <2>2. Head(r) = r[1] /\ r[1].op = "goto"
    BY <2>1, <1>5, <1>8, <1>9 DEF Fits
  <2> QED BY <2>2 DEF Absolute
<1> QED BY <1>5, <1>8, <1>9 DEF r

LEMMA HeadOf ==
    ASSUME NEW S, NEW s \in Seq(S), s # << >>
    PROVE  Head(s) = s[1] /\ Head(s) \in S /\ 1 \in 1..Len(s)
  OBVIOUS

LEMMA NotEmpty == ASSUME NEW S, NEW s \in Seq(S), Len(s) >= 1 PROVE s # << >>
  OBVIOUS

LEMMA ConcatOf ==
    ASSUME NEW S, NEW s \in Seq(S), NEW u \in Seq(S)
    PROVE  /\ s \o u \in Seq(S) /\ Len(s \o u) = Len(s) + Len(u)
           /\ \A i \in 1..Len(s) + Len(u) : (s \o u)[i] = IF i <= Len(s) THEN s[i] ELSE u[i - Len(s)]
  OBVIOUS

\* Places in threes.
LEMMA Threes ==
    ASSUME NEW k \in Nat
    PROVE  /\ 3 * k \in Nat /\ (3 * k) % 3 = 0
           /\ \A i \in 1..3 * k : /\ i % 3 = 1 => (i + 2) \div 3 \in 1..k
                                 /\ (3 * k - i) % 3 = 2 => i % 3 = 1
  OBVIOUS

LEMMA ConcatFits ==
    ASSUME NEW kind, NEW s \in Seq(Cmd), NEW u \in Seq(Cmd),
           \A i \in 1..Len(s) : s[i].op \in Ops(kind),
           Fits(kind, u), u # << >>, kind # "cues"
    PROVE  s \o u \in Seq(Cmd) /\ s \o u # << >> /\ Fits(kind, s \o u)
<1>1. /\ s \o u \in Seq(Cmd) /\ Len(s \o u) = Len(s) + Len(u)
      /\ \A i \in 1..Len(s) + Len(u) : (s \o u)[i] = IF i <= Len(s) THEN s[i] ELSE u[i - Len(s)]
  OBVIOUS
<1>2. Len(s) \in Nat /\ Len(u) \in Nat /\ Len(u) >= 1
  OBVIOUS
<1>3. \A i \in 1..Len(s \o u) : (s \o u)[i].op \in Ops(kind)
  BY <1>1, <1>2 DEF Fits
<1>4. (s \o u)[Len(s \o u)] = u[Len(u)]
  BY <1>1, <1>2
<1> QED BY <1>1, <1>2, <1>3, <1>4 DEF Fits

\* The commands of every job fit it, and begin with an absolute cd unless the job
\* starts from an index.
LEMMA CommandsFit ==
    ASSUME Types, NEW t \in Tasks
    PROVE  /\ Commands(job[t]) \in Seq(Cmd) /\ Commands(job[t]) # << >>
           /\ Fits(Kind(t), Commands(job[t]))
           /\ ~Relative(t) => Absolute(Head(Commands(job[t])))
           /\ Kind(t) = "scan" => ScanShape(Commands(job[t]), job[t].to)
                                  /\ Head(Commands(job[t])).op = "base"
<1> DEFINE j == job[t]
           Good(s) == /\ s \in Seq(Cmd) /\ s # << >> /\ Fits(Kind(t), s)
                      /\ ~Relative(t) => Absolute(Head(s))
<1>1. /\ Kind(t) \in {"pool", "cues", "navigate", "names", "slots", "property", "scan"}
      /\ Kind(t) = j.kind
      /\ j.to \in Seq(Nat)
      /\ Kind(t) # "scan" => j.to # << >> /\ j.to[1] \in Nat
  BY JobTypes DEF Kind
<1> HIDE DEF j
<1>2. /\ Goto(j.to) \in Cmd /\ Goto(Root) \in Cmd /\ Do("list") \in Cmd /\ Do("slots") \in Cmd
      /\ Do("assign") \in Cmd /\ Do("verify") \in Cmd
      /\ Kind(t) # "scan" => Into(j.to[1]) \in Cmd
  BY <1>1, CmdTypes DEF OpNames
<1>3. /\ Goto(j.to).op = "goto" /\ Goto(Root).op = "goto" /\ Into(j.to[1]).op = "into"
      /\ \A op \in OpNames : Do(op).op = op
      /\ \A i : Into(j.to[i]).op = "into"
  BY DEF Goto, Into, Do
<1>4. CASE Kind(t) = "pool"
  <2> DEFINE s == <<Goto(j.to), Do("list"), Goto(Root)>>
  <2>1. s \in Seq(Cmd) /\ s # << >> /\ Len(s) = 3 /\ Head(s) = Goto(j.to)
    BY <1>2
  <2>2. Fits(Kind(t), s)
    BY <1>3, <1>4, <2>1 DEF Fits, Ops, Homing, OpNames
  <2>3. Commands(j) = s
    BY <1>1, <1>4 DEF Commands, IndexOnePool
  <2> QED BY <1>3, <1>4, <2>1, <2>2, <2>3 DEF Absolute, j
<1>5. CASE Kind(t) = "cues"
  <2> DEFINE n == 3 * Len(j.to)
             s == HydrateSequences(j)
  <2>1. n \in Nat /\ n >= 3 /\ n % 3 = 0
    <3>1. Len(j.to) \in Nat /\ Len(j.to) >= 1
      BY <1>1, <1>5
    <3>2. PICK k \in Nat : k = Len(j.to) /\ k >= 1
      BY <3>1
    <3>3. n = 3 * k
      BY <3>2
    <3> HIDE DEF n
    <3>4. 3 * k \in Nat /\ (3 * k) % 3 = 0
      BY Threes
    <3>5. n >= 3
      BY <3>2, <3>3
    <3>6. n \in Nat /\ n % 3 = 0
      BY <3>3, <3>4, Zenon
    <3> QED BY <3>5, <3>6
  <2>2. \A i \in 1..n : /\ i % 3 = 1 => (i + 2) \div 3 \in 1..Len(j.to)
                        /\ (n - i) % 3 = 2 => i % 3 = 1
    <3>1. Len(j.to) \in Nat
      BY <1>1
    <3>2. PICK k \in Nat : k = Len(j.to)
      BY <3>1
    <3>3. n = 3 * k
      BY <3>2
    <3>4. \A i \in 1..3 * k : /\ i % 3 = 1 => (i + 2) \div 3 \in 1..k
                             /\ (3 * k - i) % 3 = 2 => i % 3 = 1
      BY Threes
    <3> HIDE DEF n
    <3> SUFFICES ASSUME NEW i \in 1..n
                 PROVE  /\ i % 3 = 1 => (i + 2) \div 3 \in 1..Len(j.to)
                        /\ (n - i) % 3 = 2 => i % 3 = 1
      OBVIOUS
    <3>5. i \in 1..3 * k
      BY <3>3
    <3>6. /\ i % 3 = 1 => (i + 2) \div 3 \in 1..k
          /\ (3 * k - i) % 3 = 2 => i % 3 = 1
      BY <3>4, <3>5
    <3>7. 1..k = 1..Len(j.to)
      BY <3>2
    <3>8. (i + 2) \div 3 \in 1..k => (i + 2) \div 3 \in 1..Len(j.to)
      BY <3>7, Zenon
    <3>9. (n - i) % 3 = 2 => i % 3 = 1
      BY <3>3, <3>6, Zenon
    <3> QED BY <3>6, <3>8, <3>9, Zenon
  <2>3. \A i \in 1..n : <<Sequence, j.to[(i + 2) \div 3]>> \in Seq(Nat) \/ i % 3 # 1
    BY <1>1, <2>2 DEF Sequence
  <2>4. s = [i \in 1..n |->
               IF i % 3 = 1 THEN Goto(<<Sequence, j.to[(i + 2) \div 3]>>)
               ELSE IF i % 3 = 2 THEN Do("list") ELSE Goto(Root)]
    BY DEF HydrateSequences
  <2>5. \A i \in 1..n : s[i] \in Cmd /\ s[i].op \in Ops("cues") /\ (i % 3 = 1 => s[i].op = "goto")
    <3> SUFFICES ASSUME NEW i \in 1..n
                 PROVE  s[i] \in Cmd /\ s[i].op \in Ops("cues") /\ (i % 3 = 1 => s[i].op = "goto")
      OBVIOUS
    <3> DEFINE c == Goto(<<Sequence, j.to[(i + 2) \div 3]>>)
    <3>1. i % 3 = 1 => c \in Cmd /\ c.op = "goto"
      BY <2>3, CmdTypes
    <3> HIDE DEF c, n, s
    <3>2. s[i] = IF i % 3 = 1 THEN c ELSE IF i % 3 = 2 THEN Do("list") ELSE Goto(Root)
      BY <2>4 DEF c
    <3>3. Do("list").op = "list" /\ Do("list") \in Cmd /\ Goto(Root) \in Cmd /\ Goto(Root).op = "goto"
      BY <1>2, <1>3 DEF OpNames
    <3> QED BY <3>1, <3>2, <3>3 DEF Ops
  <2> HIDE DEF n, s
  <2>6. s \in Seq(Cmd) /\ Len(s) = n /\ s # << >>
    <3>1. s \in [1..n -> Cmd]
      BY <2>4, <2>5
    <3> QED BY <3>1, <2>1
  <2>7. s[n] = Goto(Root) /\ s[1].op = "goto"
    <3>1. n \in 1..n /\ 1 \in 1..n /\ n % 3 # 1 /\ n % 3 # 2 /\ 1 % 3 = 1
      BY <2>1
    <3> QED BY <3>1, <2>4, <2>5
  <2>8. Fits(Kind(t), s)
    BY <1>5, <2>2, <2>5, <2>6, <2>7 DEF Fits
  <2>9. Absolute(Head(s))
    <3>1. Head(s) = s[1]
      BY <2>6
    <3> QED BY <3>1, <2>7 DEF Absolute
  <2>10. Commands(j) = s
    BY <1>1, <1>5 DEF Commands, s
  <2> QED BY <1>5, <2>6, <2>8, <2>9, <2>10 DEF j
<1>6. Kind(t) \in {"navigate", "names", "slots"} =>
        /\ Navigate(j) \in Seq(Cmd) /\ Len(Navigate(j)) = 1
        /\ Navigate(j)[1].op \in {"goto", "into"}
        /\ ~Relative(t) => Absolute(Navigate(j)[1])
  <2> SUFFICES ASSUME Kind(t) \in {"navigate", "names", "slots"}
               PROVE  /\ Navigate(j) \in Seq(Cmd) /\ Len(Navigate(j)) = 1
                      /\ Navigate(j)[1].op \in {"goto", "into"}
                      /\ ~Relative(t) => Absolute(Navigate(j)[1])
    OBVIOUS
  <2>1. Relative(t) <=> j.by = "index"
    BY DEF Relative, j
  <2>2. CASE j.by = "index"
    <3>1. Navigate(j) = <<Into(j.to[1])>>
      BY <2>2 DEF Navigate
    <3> QED BY <3>1, <2>1, <2>2, <1>2, <1>3
  <2>3. CASE j.by # "index"
    <3>1. Navigate(j) = <<Goto(j.to)>>
      BY <2>3 DEF Navigate
    <3> QED BY <3>1, <1>2, <1>3 DEF Absolute
  <2> QED BY <2>2, <2>3
<1>7. CASE Kind(t) = "navigate"
  <2>1. Commands(j) = Navigate(j)
    BY <1>1, <1>7 DEF Commands
  <2>2. Fits(Kind(t), Navigate(j))
    BY <1>6, <1>7 DEF Fits, Ops, Homing
  <2>3. Navigate(j) # << >> /\ Head(Navigate(j)) = Navigate(j)[1]
    <3>1. Navigate(j) \in Seq(Cmd) /\ Navigate(j) # << >>
      <4>1. Navigate(j) \in Seq(Cmd) /\ Len(Navigate(j)) = 1
        BY <1>6, <1>7, Zenon
      <4>2. Len(Navigate(j)) >= 1
        BY <4>1
      <4> QED BY <4>1, <4>2, NotEmpty
    <3> QED BY <3>1, HeadOf
  <2> QED BY <1>6, <1>7, <2>1, <2>2, <2>3 DEF j
<1>8. ASSUME NEW op \in {"list", "slots"},
             \/ Kind(t) = "names" /\ op = "list"
             \/ Kind(t) = "slots" /\ op = "slots",
             Commands(j) = Navigate(j) \o <<Do(op), Goto(Root)>>
      PROVE  Good(Commands(j))
  <2> DEFINE u == <<Do(op), Goto(Root)>>
  <2>1. u \in Seq(Cmd) /\ u # << >> /\ Len(u) = 2
    BY <1>2, <1>8
  <2>2. Fits(Kind(t), u)
    BY <1>3, <1>8, <2>1 DEF Fits, Ops, Homing, OpNames
  <2>3. \A i \in 1..Len(Navigate(j)) : Navigate(j)[i].op \in Ops(Kind(t))
    BY <1>6, <1>8 DEF Ops
  <2> HIDE DEF u
  <2>4. Navigate(j) \o u \in Seq(Cmd) /\ Navigate(j) \o u # << >> /\ Fits(Kind(t), Navigate(j) \o u)
    BY <1>6, <1>8, <2>1, <2>2, <2>3, ConcatFits
  <2>5. Head(Navigate(j) \o u) = Navigate(j)[1]
    BY <1>6, <1>8, <2>1
  <2> QED BY <1>6, <1>8, <2>4, <2>5 DEF u
<1>9. CASE Kind(t) = "names"
  <2>1. Commands(j) = Navigate(j) \o <<Do("list"), Goto(Root)>>
    BY <1>1, <1>9 DEF Commands, DiscoverNames
  <2> QED BY <1>8, <1>9, <2>1 DEF j
<1>10. CASE Kind(t) = "slots"
  <2>1. Commands(j) = Navigate(j) \o <<Do("slots"), Goto(Root)>>
    BY <1>1, <1>10 DEF Commands, CheckPoolSlots
  <2> QED BY <1>8, <1>10, <2>1 DEF j
<1>11. CASE Kind(t) = "property"
  <2> DEFINE a == <<Goto(Root)>>
             b == [i \in 1..Len(j.to) - 1 |-> Into(j.to[i])]
             u == <<Do("assign"), Do("verify"), Goto(Root)>>
  <2>1. u \in Seq(Cmd) /\ u # << >> /\ Len(u) = 3
    BY <1>2
  <2>2. Fits(Kind(t), u)
    BY <1>3, <1>11, <2>1 DEF Fits, Ops, Homing, OpNames
  <2>3. b \in Seq(Cmd) /\ \A i \in 1..Len(b) : b[i].op = "into"
    <3>1. Len(j.to) - 1 \in Nat /\ \A i \in 1..Len(j.to) - 1 : j.to[i] \in Nat
      BY <1>1, <1>11
    <3>2. \A i \in 1..Len(j.to) - 1 : Into(j.to[i]) \in Cmd
      BY <3>1, CmdTypes
    <3>3. b \in [1..Len(j.to) - 1 -> Cmd]
      BY <3>2
    <3>4. b \in Seq(Cmd) /\ Len(b) = Len(j.to) - 1
      BY <3>1, <3>3
    <3> QED BY <3>4, <1>3
  <2>4. a \in Seq(Cmd) /\ Len(a) = 1 /\ a[1] = Goto(Root)
    BY <1>2
  <2> HIDE DEF a, b, u
  <2>5. a \o b \in Seq(Cmd) /\ \A i \in 1..Len(a \o b) : (a \o b)[i].op \in {"goto", "into"}
    <3>1. /\ a \o b \in Seq(Cmd) /\ Len(a \o b) = 1 + Len(b)
          /\ \A i \in 1..1 + Len(b) : (a \o b)[i] = IF i <= 1 THEN a[i] ELSE b[i - 1]
      <4>1. /\ a \o b \in Seq(Cmd) /\ Len(a \o b) = Len(a) + Len(b)
            /\ \A i \in 1..Len(a) + Len(b) :
                  (a \o b)[i] = IF i <= Len(a) THEN a[i] ELSE b[i - Len(a)]
        BY <2>3, <2>4, ConcatOf
      <4> QED BY <4>1, <2>4
    <3>2. \A i \in 1..1 + Len(b) : i <= 1 => i = 1
      BY <2>3
    <3>3. \A i \in 1..1 + Len(b) : i > 1 => i - 1 \in 1..Len(b)
      BY <2>3
    <3> QED BY <3>1, <3>2, <3>3, <2>3, <2>4, <1>3
  <2>6. (a \o b) \o u \in Seq(Cmd) /\ (a \o b) \o u # << >> /\ Fits(Kind(t), (a \o b) \o u)
    BY <1>11, <2>1, <2>2, <2>5, ConcatFits DEF Ops
  <2>7. Head((a \o b) \o u) = Goto(Root)
    <3>1. /\ Len(a \o b) = 1 + Len(b) /\ Len(b) \in Nat
          /\ \A i \in 1..1 + Len(b) : (a \o b)[i] = IF i <= 1 THEN a[i] ELSE b[i - 1]
      <4>1. /\ Len(a \o b) = Len(a) + Len(b)
            /\ \A i \in 1..Len(a) + Len(b) :
                  (a \o b)[i] = IF i <= Len(a) THEN a[i] ELSE b[i - Len(a)]
        BY <2>3, <2>4, ConcatOf
      <4> QED BY <4>1, <2>3, <2>4
    <3>2. Len(a \o b) >= 1 /\ 1 \in 1..1 + Len(b) /\ (a \o b)[1] = Goto(Root)
      BY <3>1, <2>4
    <3>3. /\ Len((a \o b) \o u) = Len(a \o b) + Len(u)
          /\ \A i \in 1..Len(a \o b) + Len(u) :
                ((a \o b) \o u)[i] = IF i <= Len(a \o b) THEN (a \o b)[i] ELSE u[i - Len(a \o b)]
      BY <2>1, <2>5, ConcatOf
    <3>4. 1 \in 1..Len(a \o b) + Len(u)
      BY <3>1, <3>2, <2>1
    <3>5. ((a \o b) \o u)[1] = Goto(Root)
      BY <3>2, <3>3, <3>4
    <3> QED BY <3>5, <2>6, HeadOf
  <2>8. Commands(j) = (a \o b) \o u
    BY <1>1, <1>11 DEF Commands, SetProperty, a, b, u
  <2> QED BY <1>11, <1>3, <2>6, <2>7, <2>8 DEF Absolute, j
<1>12. CASE Kind(t) = "scan"
  <2> DEFINE s == <<[Goto(j.to) EXCEPT !.op = "base"], Probing(1, 0)>>
  <2>1. s \in Seq(Cmd) /\ s # << >> /\ Len(s) = 2 /\ Head(s) = s[1]
    <3>1. [Goto(j.to) EXCEPT !.op = "base"] \in Cmd /\ Probing(1, 0) \in Cmd
      BY <1>1, CmdTypes
    <3>2. s \in Seq(Cmd) /\ s # << >> /\ Len(s) = 2
      BY <3>1
    <3> HIDE DEF s
    <3> QED BY <3>2, HeadOf
  <2>2. s[1].op = "base" /\ s[2].op = "probe"
    BY DEF Goto, Probing
  <2>3. Fits(Kind(t), s)
    BY <1>12, <2>1, <2>2 DEF Fits, Ops, Homing
  <2>4. ScanShape(s, j.to)
    BY DEF ScanShape
  <2>5. Commands(j) = s
    BY <1>1, <1>12 DEF Commands, ScanIndexes
  <2> QED BY <1>12, <2>1, <2>2, <2>3, <2>4, <2>5 DEF Absolute, j
<1> QED BY <1>1, <1>4, <1>5, <1>7, <1>9, <1>10, <1>11, <1>12

-----------------------------------------------------------------------------

LEMMA InitInv == Init => Inv
<1> SUFFICES ASSUME Init PROVE Inv
  OBVIOUS
<1> USE DEF Init
<1>1. Types
  <2>1. << >> \in Seq(Cmd) /\ Root \in Tree /\ Root \in Seq(Nat)
    BY CmdTypes
  <2> QED BY <2>1 DEF Types
<1>2. NotesInv
  BY DEF NotesInv
<1>3. \A t \in Tasks : TaskInv(t)
  BY DEF TaskInv, TodoOf, CuesOf, ScanOf, WhereOf, Fits
<1>4. AwayInv
  BY DEF AwayInv
<1> QED BY <1>1, <1>2, <1>3, <1>4 DEF Inv

\* What a busy task reads is explained unless it is about to send an absolute cd.
LEMMA ReadExplained ==
    ASSUME Inv, NEW t \in Tasks, pc[t] = "busy", ~Absolute(Head(todo[t]))
    PROVE  Read(t) \in Reading /\ Read(t).by = t /\ Explained(Read(t))
<1>1. /\ Read(t).by = t /\ Read(t).want = here[t] /\ Read(t).at = loc
      /\ Read(t).movers = movers[t] /\ Read(t).missed = missed[t] /\ Read(t).astray = astray[t]
  BY DEF Read
<1>2. Read(t) \in Reading
  BY DEF Read, Reading, Inv, Types
<1>3. TaskInv(t) /\ movers[t] \subseteq Tasks
  BY DEF Inv, Types
<1>4. movers[t] # {} => movers[t] \ (IF Kind(t) = "cues" THEN Pools ELSE {}) # {}
  BY <1>3 DEF TaskInv, CuesOf
<1>5. Explained(Read(t))
  BY <1>1, <1>3, <1>4 DEF Explained, TaskInv, WhereOf
<1> QED BY <1>1, <1>2, <1>5

\* The head of what a busy task has left.
LEMMA HeadFits ==
    ASSUME Inv, NEW t \in Tasks, pc[t] = "busy"
    PROVE  /\ todo[t] \in Seq(Cmd) /\ todo[t] # << >>
           /\ Fits(Kind(t), todo[t]) /\ Head(todo[t]) \in Cmd
           /\ Head(todo[t]).op \in Ops(Kind(t))
           /\ Tail(todo[t]) \in Seq(Cmd) /\ Fits(Kind(t), Tail(todo[t]))
           /\ Tail(todo[t]) = << >> /\ Kind(t) \in Homing => Head(todo[t]) = Goto(Root)
  BY TailFits DEF Inv, Types, TaskInv, TodoOf

\* Proceed keeps the types and the notes.
LEMMA ProceedNotes ==
    ASSUME Inv, NEW t \in Tasks, pc[t] = "busy", NEW rest \in Seq(Cmd), NEW read \in SUBSET Reading,
           \A r \in read : r.by = t /\ Explained(r),
           Proceed(t, rest, read), job' = job
    PROVE  /\ todo' = [todo EXCEPT ![t] = rest] /\ todo' \in [Tasks -> Seq(Cmd)]
           /\ pc' = [pc EXCEPT ![t] = IF rest = << >> THEN "ended" ELSE "busy"]
           /\ pc' \in [Tasks -> {"idle", "busy", "ended", "failed"}]
           /\ notes' \in [Tasks -> SUBSET Reading] /\ filed' \in SUBSET Reading
           /\ NotesInv'
<1> USE DEF Inv, Types, Proceed
<1>1. /\ todo' = [todo EXCEPT ![t] = rest] /\ todo' \in [Tasks -> Seq(Cmd)]
      /\ pc' = [pc EXCEPT ![t] = IF rest = << >> THEN "ended" ELSE "busy"]
      /\ pc' \in [Tasks -> {"idle", "busy", "ended", "failed"}]
  OBVIOUS
<1>2. /\ filed' \in {filed, filed \cup read}
      /\ \E left \in {{}, read} : notes' = [notes EXCEPT ![t] = left]
  OBVIOUS
<1>3. notes' \in [Tasks -> SUBSET Reading] /\ filed' \in SUBSET Reading
  BY <1>2
<1>4. \A r : Explained(r)' <=> Explained(r)
  BY DEF Explained, Relative, Kind, Pools
<1>5. NotesInv'
  BY <1>2, <1>4 DEF NotesInv
<1> QED BY <1>1, <1>3, <1>5

\* A step of task t leaves the others as they were, but it may move the console.
LEMMA OthersKeep ==
    ASSUME Inv, NEW t \in Tasks, NEW u \in Tasks, u # t, job' = job,
           pc[t] \notin {"ended", "failed"} \/ pc'[t] = pc[t],
           \A w \in Tasks : w # t => pc'[w] = pc[w],
           todo'[u] = todo[u], base'[u] = base[u], here'[u] = here[u],
           missed'[u] = missed[u], astray'[u] = astray[u],
           \/ movers'[u] = movers[u] /\ (loc' = loc \/ pc[u] # "busy")
           \/ movers'[u] = movers[u] \cup {t} /\ pc[u] = "busy" /\ pc[t] = "busy"
    PROVE  TaskInv(u)'
<1>1. TaskInv(u) /\ TaskInv(t) /\ pc'[u] = pc[u]
  BY DEF Inv
<1>2. /\ Kind(u)' = Kind(u) /\ Relative(u)' = Relative(u) /\ Pools' = Pools
  BY DEF Kind, Relative, Pools
<1>3. TodoOf(u)'
  BY <1>1, <1>2 DEF TaskInv, TodoOf
<1>4. ScanOf(u)'
  BY <1>1, <1>2 DEF TaskInv, ScanOf
<1>5. CuesOf(u)'
  <2>1. CASE movers'[u] = movers[u]
    BY <1>1, <1>2, <2>1 DEF TaskInv, CuesOf, Pools
  <2>2. CASE movers'[u] = movers[u] \cup {t} /\ pc[u] = "busy" /\ pc[t] = "busy"
    BY <1>1, <1>2, <2>2 DEF TaskInv, CuesOf, Pools
  <2> QED BY <2>1, <2>2
<1>6. WhereOf(u)'
  BY <1>1, <1>2 DEF TaskInv, WhereOf
<1> QED BY <1>3, <1>4, <1>5, <1>6 DEF TaskInv

\* The rest of the pools' story, for the task that takes the step.
LEMMA OwnCues ==
    ASSUME Inv, NEW t \in Tasks, pc[t] = "busy", job' = job,
           \A w \in Tasks : w # t => pc'[w] = pc[w],
           movers'[t] \subseteq movers[t]
    PROVE  CuesOf(t)'
  BY DEF Inv, TaskInv, CuesOf, Pools, Kind

LEMMA BeginInv == ASSUME Inv, NEW t \in Tasks, Begin(t) PROVE Inv'
<1> DEFINE s == Commands(job[t])
<1>1. /\ s \in Seq(Cmd) /\ s # << >>
      /\ Fits(Kind(t), s)
      /\ ~Relative(t) => Absolute(Head(s))
      /\ Kind(t) = "scan" => ScanShape(s, job[t].to) /\ Head(s).op = "base"
  BY CommandsFit DEF Inv
<1> HIDE DEF s
<1>2. /\ pc[t] = "idle" /\ Turn(t)
      /\ pc' = [pc EXCEPT ![t] = "busy"]
      /\ todo' = [todo EXCEPT ![t] = s]
      /\ astray' = [astray EXCEPT ![t] = loc # Root]
      /\ UNCHANGED <<loc, job, base, notes, filed, faults, here, movers, missed>>
  BY DEF Begin, s
<1>3. Types'
  BY <1>1, <1>2 DEF Inv, Types
<1>4. /\ pc'[t] = "busy" /\ todo'[t] = s /\ astray'[t] = (loc # Root)
      /\ \A u \in Tasks : u # t => /\ pc'[u] = pc[u] /\ todo'[u] = todo[u]
                                   /\ astray'[u] = astray[u]
  BY <1>2 DEF Inv, Types
<1>5. /\ \A u \in Tasks : Kind(u)' = Kind(u) /\ Relative(u)' = Relative(u)
      /\ Pools' = Pools
      /\ \A r : Explained(r)' <=> Explained(r)
  BY <1>2 DEF Kind, Relative, Pools, Explained
<1>6. NotesInv'
  BY <1>2, <1>5 DEF Inv, NotesInv
<1>7. TaskInv(t)'
  <2>1. TodoOf(t) /\ CuesOf(t)
    BY DEF Inv, TaskInv
  <2>2. TodoOf(t)'
    BY <1>1, <1>4, <1>5 DEF TodoOf
  <2>3. CuesOf(t)'
    <3>1. \A p \in Pools : Kind(t) = "cues" => pc[p] \in {"ended", "failed"} /\ p # t
      BY <1>2 DEF Turn, Pools
    <3> QED BY <2>1, <3>1, <1>2, <1>4, <1>5 DEF CuesOf, Pools
  <2>4. ScanOf(t)'
    BY <1>1, <1>2, <1>4, <1>5 DEF ScanOf
  <2>5. WhereOf(t)'
    BY <2>1, <1>1, <1>2, <1>4, <1>5 DEF WhereOf, TodoOf
  <2> QED BY <2>2, <2>3, <2>4, <2>5 DEF TaskInv
<1>8. ASSUME NEW u \in Tasks, u # t PROVE TaskInv(u)'
  BY <1>2, <1>4, <1>8, OthersKeep
<1>9. AwayInv'
  BY <1>4 DEF AwayInv
<1> QED BY <1>3, <1>6, <1>7, <1>8, <1>9 DEF Inv

-----------------------------------------------------------------------------
(* Steps that read or assign. *)

\* A busy task that does not move the console goes on with its rest, where no more
\* is known than before.
LEMMA StayInv ==
    ASSUME Inv, NEW t \in Tasks, pc[t] = "busy", Kind(t) # "scan",
           ~Absolute(Head(todo[t])),
           NEW rest \in Seq(Cmd), Fits(Kind(t), rest),
           rest = << >> => ~Returning(t),
           NEW read \in SUBSET Reading, \A r \in read : r.by = t /\ Explained(r),
           Proceed(t, rest, read),
           UNCHANGED <<loc, job, base, faults, ghosts>>
    PROVE  Inv'
<1>1. /\ todo' = [todo EXCEPT ![t] = rest] /\ todo' \in [Tasks -> Seq(Cmd)]
      /\ pc' = [pc EXCEPT ![t] = IF rest = << >> THEN "ended" ELSE "busy"]
      /\ pc' \in [Tasks -> {"idle", "busy", "ended", "failed"}]
      /\ notes' \in [Tasks -> SUBSET Reading] /\ filed' \in SUBSET Reading
      /\ NotesInv'
  BY ProceedNotes
<1>2. UNCHANGED <<loc, job, base, faults, here, movers, missed, astray>>
  BY DEF ghosts
<1>3. Types'
  BY <1>1, <1>2 DEF Inv, Types
<1>4. /\ pc'[t] = IF rest = << >> THEN "ended" ELSE "busy"
      /\ todo'[t] = rest
      /\ \A u \in Tasks : u # t => pc'[u] = pc[u] /\ todo'[u] = todo[u]
  BY <1>1 DEF Inv, Types
<1>5. /\ \A u \in Tasks : Kind(u)' = Kind(u) /\ Relative(u)' = Relative(u)
                          /\ Returning(u)' = Returning(u)
  BY <1>2 DEF Kind, Relative, Returning
<1>6. TaskInv(t)'
  <2>1. TaskInv(t)
    BY DEF Inv
  <2>2. TodoOf(t)'
    BY <1>4, <1>5 DEF TodoOf
  <2>3. CuesOf(t)'
    BY <1>2, <1>4, OwnCues
  <2>4. ScanOf(t)'
    BY <1>5 DEF ScanOf
  <2>5. WhereOf(t)'
    BY <2>1, <1>2, <1>4, <1>5 DEF TaskInv, WhereOf
  <2> QED BY <2>2, <2>3, <2>4, <2>5 DEF TaskInv
<1>7. ASSUME NEW u \in Tasks, u # t PROVE TaskInv(u)'
  BY <1>2, <1>4, <1>7, OthersKeep
<1>8. AwayInv'
  BY <1>2, <1>4, <1>5 DEF Inv, AwayInv
<1> QED BY <1>1, <1>3, <1>6, <1>7, <1>8 DEF Inv

\* A job that reads has cd / to come; one that does not may stay elsewhere.
LEMMA RestReturns ==
    ASSUME Inv, NEW t \in Tasks, pc[t] = "busy",
           Head(todo[t]).op \in {"list", "slots", "assign", "verify"}
    PROVE  /\ ~Absolute(Head(todo[t]))
           /\ Kind(t) \in Homing
           /\ Tail(todo[t]) # << >>
<1>1. /\ Head(todo[t]).op \in Ops(Kind(t))
      /\ Tail(todo[t]) = << >> /\ Kind(t) \in Homing => Head(todo[t]) = Goto(Root)
  BY HeadFits
<1>2. Kind(t) \in {"pool", "cues", "navigate", "names", "slots", "property", "scan"}
  BY JobTypes DEF Inv
<1>3. Kind(t) \in Homing
  BY <1>1, <1>2 DEF Ops, Homing
<1>4. Goto(Root).op = "goto"
  BY DEF Goto
<1> QED BY <1>1, <1>3, <1>4 DEF Absolute

LEMMA ListHereInv == ASSUME Inv, NEW t \in Tasks, ListHere(t) PROVE Inv'
<1>1. pc[t] = "busy" /\ Head(todo[t]).op = "list" /\ Proceed(t, Tail(todo[t]), {Read(t)})
      /\ UNCHANGED <<loc, job, base, faults, ghosts>>
  BY DEF ListHere
<1>2. ~Absolute(Head(todo[t])) /\ Kind(t) \in Homing /\ Tail(todo[t]) # << >>
  BY <1>1, RestReturns
<1>3. {Read(t)} \in SUBSET Reading /\ \A r \in {Read(t)} : r.by = t /\ Explained(r)
  BY <1>1, <1>2, ReadExplained
<1>4. Tail(todo[t]) \in Seq(Cmd) /\ Fits(Kind(t), Tail(todo[t]))
  BY <1>1, HeadFits
<1>5. Kind(t) # "scan"
  BY <1>2 DEF Homing
<1> QED BY <1>1, <1>2, <1>3, <1>4, <1>5, StayInv

LEMMA ListSlotsInv == ASSUME Inv, NEW t \in Tasks, ListSlots(t) PROVE Inv'
<1> DEFINE s == Tail(todo[t])
           rest == IF loc \in Containers THEN <<Into(1), Do("list")>> \o s ELSE s
<1>1. pc[t] = "busy" /\ Head(todo[t]).op = "slots" /\ Proceed(t, rest, {Read(t)})
      /\ UNCHANGED <<loc, job, base, faults, ghosts>>
  BY DEF ListSlots
<1>2. ~Absolute(Head(todo[t])) /\ Kind(t) \in Homing /\ s # << >>
  BY <1>1, RestReturns
<1>3. {Read(t)} \in SUBSET Reading /\ \A r \in {Read(t)} : r.by = t /\ Explained(r)
  BY <1>1, <1>2, ReadExplained
<1>4. s \in Seq(Cmd) /\ Fits(Kind(t), s) /\ Head(todo[t]).op \in Ops(Kind(t))
  BY <1>1, HeadFits
<1>5. Kind(t) = "slots"
  <2>1. Kind(t) \in {"pool", "cues", "navigate", "names", "slots", "property", "scan"}
    BY JobTypes DEF Inv
  <2> QED BY <1>1, <1>4, <2>1 DEF Ops
<1>6. rest \in Seq(Cmd) /\ rest # << >> /\ Fits(Kind(t), rest)
  <2> DEFINE p == <<Into(1), Do("list")>>
  <2>1. Into(1) \in Cmd /\ Do("list") \in Cmd
    BY CmdTypes DEF OpNames
  <2>2. p \in Seq(Cmd) /\ Len(p) = 2 /\ p[1].op = "into" /\ p[2].op = "list"
    BY <2>1 DEF Into, Do
  <2> HIDE DEF s, p
  <2>3. \A i \in 1..Len(p) : p[i].op \in Ops(Kind(t))
    BY <1>5, <2>2 DEF Ops
  <2>4. p \o s \in Seq(Cmd) /\ p \o s # << >> /\ Fits(Kind(t), p \o s)
    BY <1>2, <1>4, <1>5, <2>2, <2>3, ConcatFits
  <2> QED BY <1>2, <1>4, <2>4 DEF p
<1> HIDE DEF rest
<1> QED BY <1>1, <1>2, <1>3, <1>5, <1>6, StayInv

LEMMA VerifyInv == ASSUME Inv, NEW t \in Tasks, Verify(t) PROVE Inv'
<1>1. pc[t] = "busy" /\ Head(todo[t]).op = "verify" /\ Proceed(t, Tail(todo[t]), notes[t])
      /\ UNCHANGED <<loc, job, base, faults, ghosts>>
  BY DEF Verify
<1>2. ~Absolute(Head(todo[t])) /\ Kind(t) \in Homing /\ Tail(todo[t]) # << >>
  BY <1>1, RestReturns
<1>3. notes[t] \in SUBSET Reading /\ \A r \in notes[t] : r.by = t /\ Explained(r)
  BY DEF Inv, Types, NotesInv
<1>4. Tail(todo[t]) \in Seq(Cmd) /\ Fits(Kind(t), Tail(todo[t]))
  BY <1>1, HeadFits
<1>5. Kind(t) # "scan"
  BY <1>2 DEF Homing
<1> QED BY <1>1, <1>2, <1>3, <1>4, <1>5, StayInv

LEMMA AssignInv == ASSUME Inv, NEW t \in Tasks, Assign(t) PROVE Inv'
<1>1. /\ pc[t] = "busy" /\ Head(todo[t]).op = "assign"
      /\ todo' = [todo EXCEPT ![t] = Tail(todo[t])]
      /\ filed' = filed \cup {Read(t)}
      /\ UNCHANGED <<loc, job, pc, base, notes, faults, here, movers, missed, astray>>
  BY DEF Assign, ghosts
<1>2. ~Absolute(Head(todo[t])) /\ Kind(t) \in Homing /\ Tail(todo[t]) # << >>
  BY <1>1, RestReturns
<1>3. Read(t) \in Reading /\ Explained(Read(t))
  BY <1>1, <1>2, ReadExplained
<1>4. Tail(todo[t]) \in Seq(Cmd) /\ Fits(Kind(t), Tail(todo[t]))
  BY <1>1, HeadFits
<1>5. Types'
  BY <1>1, <1>3, <1>4 DEF Inv, Types
<1>6. /\ todo'[t] = Tail(todo[t])
      /\ \A u \in Tasks : u # t => todo'[u] = todo[u]
  BY <1>1 DEF Inv, Types
<1>7. /\ \A u \in Tasks : Kind(u)' = Kind(u) /\ Relative(u)' = Relative(u)
                          /\ Returning(u)' = Returning(u)
      /\ \A r : Explained(r)' <=> Explained(r)
  BY <1>1 DEF Kind, Relative, Returning, Explained, Pools
<1>8. NotesInv'
  BY <1>1, <1>3, <1>7 DEF Inv, NotesInv
<1>9. TaskInv(t)'
  <2>1. TaskInv(t) /\ Kind(t) # "scan"
    BY <1>2 DEF Inv, Homing
  <2>2. TodoOf(t)'
    BY <1>1, <1>2, <1>4, <1>6, <1>7 DEF TodoOf
  <2>3. CuesOf(t)'
    BY <1>1, OwnCues
  <2>4. ScanOf(t)'
    BY <2>1, <1>7 DEF ScanOf
  <2>5. WhereOf(t)'
    BY <2>1, <1>1, <1>2, <1>7 DEF TaskInv, WhereOf
  <2> QED BY <2>2, <2>3, <2>4, <2>5 DEF TaskInv
<1>10. ASSUME NEW u \in Tasks, u # t PROVE TaskInv(u)'
  BY <1>1, <1>6, <1>10, OthersKeep
<1>11. AwayInv'
  BY <1>1, <1>7 DEF Inv, AwayInv
<1> QED BY <1>5, <1>8, <1>9, <1>10, <1>11 DEF Inv

-----------------------------------------------------------------------------
(* Steps that move the console. *)

\* The ghosts of a cd of t: others see t among their movers if it moved anything.
LEMMA Trace ==
    ASSUME Inv, NEW t \in Tasks, pc[t] = "busy", NEW c \in Cmd, Traced(t, c),
           loc' = Moved(c), job' = job
    PROVE  /\ loc' \in Tree
           /\ here' \in [Tasks -> Seq(Nat)] /\ movers' \in [Tasks -> SUBSET Tasks]
           /\ missed' \in [Tasks -> BOOLEAN] /\ astray' \in [Tasks -> BOOLEAN]
           /\ \A u \in Tasks \ {t} :
                 /\ here'[u] = here[u] /\ missed'[u] = missed[u] /\ astray'[u] = astray[u]
                 /\ \/ movers'[u] = movers[u] /\ (loc' = loc \/ pc[u] # "busy")
                    \/ movers'[u] = movers[u] \cup {t} /\ pc[u] = "busy" /\ pc[t] = "busy"
           /\ movers'[t] \subseteq movers[t]
           /\ Absolute(c) => /\ here'[t] = c.to
                             /\ loc' = here'[t] \/ missed'[t]
                             /\ c.to \in Tree => loc' = c.to
                             /\ c.to \notin Tree => (missed[t] => missed'[t])
                                                    /\ (c.op # "probe" => missed'[t])
           /\ ~Absolute(c) =>
                 /\ here'[t] = here[t] \o c.to
                 /\ movers'[t] = movers[t] /\ astray'[t] = astray[t]
                 /\ missed[t] => missed'[t]
                 /\ \/ loc' = loc \o c.to
                    \/ loc' = loc /\ (c.op = "probe" \/ missed'[t])
<1> USE DEF Traced
<1>1. loc \in Tree /\ loc \in Seq(Nat) /\ c.to \in Seq(Nat)
  BY JobsAssumption DEF Inv, Types, Cmd
<1>2. loc' \in Tree
  BY <1>1 DEF Moved
<1>3. here' \in [Tasks -> Seq(Nat)]
  <2>1. here[t] \o c.to \in Seq(Nat)
    BY <1>1, ConcatOf DEF Inv, Types
  <2> QED BY <1>1, <2>1 DEF Inv, Types
<1>4. movers' \in [Tasks -> SUBSET Tasks]
  BY DEF Inv, Types
<1>5. missed' \in [Tasks -> BOOLEAN] /\ astray' \in [Tasks -> BOOLEAN]
  BY DEF Inv, Types
<1>6. ASSUME NEW u \in Tasks \ {t}
      PROVE  /\ here'[u] = here[u] /\ missed'[u] = missed[u] /\ astray'[u] = astray[u]
             /\ \/ movers'[u] = movers[u] /\ (loc' = loc \/ pc[u] # "busy")
                \/ movers'[u] = movers[u] \cup {t} /\ pc[u] = "busy" /\ pc[t] = "busy"
  BY <1>6 DEF Inv, Types
<1>7. movers'[t] \subseteq movers[t]
  BY DEF Inv, Types
<1>8. ASSUME Absolute(c)
      PROVE  /\ here'[t] = c.to
             /\ loc' = here'[t] \/ missed'[t]
             /\ c.to \in Tree => loc' = c.to
             /\ c.to \notin Tree => (missed[t] => missed'[t]) /\ (c.op # "probe" => missed'[t])
  BY <1>8 DEF Inv, Types, Moved, Target, Absolute
<1>9. ASSUME ~Absolute(c)
      PROVE  /\ here'[t] = here[t] \o c.to
             /\ movers'[t] = movers[t] /\ astray'[t] = astray[t]
             /\ missed[t] => missed'[t]
             /\ \/ loc' = loc \o c.to
                \/ loc' = loc /\ (c.op = "probe" \/ missed'[t])
  BY <1>9 DEF Inv, Types, Moved, Target
<1> QED BY <1>2, <1>3, <1>4, <1>5, <1>6, <1>7, <1>8, <1>9

\* What a scan has left, told by its head.
LEMMA ScanHeads ==
    ASSUME Inv, NEW t \in Tasks, pc[t] = "busy", Kind(t) = "scan"
    PROVE  \E n, e \in Nat :
             LET c == Head(todo[t])
             IN  /\ c.op \in {"base", "goto", "probe", "look"}
                 /\ c.op \in {"base", "goto"} =>
                       c.to = job[t].to /\ Tail(todo[t]) \in {<< >>, <<Probing(n, e)>>}
                 /\ c.op = "base" => Tail(todo[t]) = <<Probing(n, e)>>
                 /\ c.op = "probe" => c = Probing(n, e)
                 /\ c.op = "look" => c = [Probing(n, e) EXCEPT !.op = "look"]
<1>1. ScanShape(todo[t], job[t].to)
  BY DEF Inv, TaskInv, ScanOf
<1> DEFINE b == [Goto(job[t].to) EXCEPT !.op = "base"]
           g == Goto(job[t].to)
<1>2. PICK n, e \in Nat :
        todo[t] \in {<<b, Probing(n, e)>>, <<Probing(n, e)>>,
                     <<[Probing(n, e) EXCEPT !.op = "look"]>>, <<g>>, <<g, Probing(n, e)>>}
  BY <1>1 DEF ScanShape
<1> DEFINE p == Probing(n, e)
           l == [Probing(n, e) EXCEPT !.op = "look"]
<1>3. /\ b.op = "base" /\ b.to = job[t].to
      /\ g.op = "goto" /\ g.to = job[t].to
      /\ p.op = "probe" /\ l.op = "look"
  BY DEF Goto, Probing
<1>4. job[t].to \in Seq(Nat)
  BY JobTypes DEF Inv
<1>5. b \in Cmd /\ g \in Cmd /\ p \in Cmd /\ l \in Cmd
  BY <1>4, CmdTypes
<1> HIDE DEF b, g, p, l
<1>6. todo[t] \in {<<b, p>>, <<p>>, <<l>>, <<g>>, <<g, p>>}
  BY <1>2 DEF p, l
<1>7. \/ Head(todo[t]) = b /\ Tail(todo[t]) = <<p>>
      \/ Head(todo[t]) = p
      \/ Head(todo[t]) = l
      \/ Head(todo[t]) = g /\ Tail(todo[t]) \in {<< >>, <<p>>}
  <2>1. /\ Head(<<b, p>>) = b /\ Tail(<<b, p>>) = <<p>>
        /\ Head(<<p>>) = p /\ Head(<<l>>) = l
        /\ Head(<<g>>) = g /\ Tail(<<g>>) = << >>
        /\ Head(<<g, p>>) = g /\ Tail(<<g, p>>) = <<p>>
    BY <1>5
  <2> QED BY <2>1, <1>6
<1>8. LET c == Head(todo[t])
      IN  /\ c.op \in {"base", "goto", "probe", "look"}
          /\ c.op \in {"base", "goto"} => c.to = job[t].to /\ Tail(todo[t]) \in {<< >>, <<p>>}
          /\ c.op = "base" => Tail(todo[t]) = <<p>>
          /\ c.op = "probe" => c = p
          /\ c.op = "look" => c = l
  BY <1>3, <1>7
<1> QED BY <1>8 DEF p, l

LEMMA Paired ==
    ASSUME NEW S, NEW x \in S, NEW y \in S
    PROVE  <<x>> \o << >> = <<x>> /\ <<x>> \o <<y>> = <<x, y>>
<1>1. /\ <<x>> \in Seq(S) /\ << >> \in Seq(S) /\ <<y>> \in Seq(S) /\ <<x, y>> \in Seq(S)
      /\ Len(<<x>>) = 1 /\ Len(<<y>>) = 1 /\ Len(<<x, y>>) = 2
      /\ <<x>>[1] = x /\ <<y>>[1] = y /\ <<x, y>>[1] = x /\ <<x, y>>[2] = y
  OBVIOUS
<1>2. /\ <<x>> \o << >> = <<x>>
  BY <1>1, ConcatEmptySeq
<1>3. <<x>> \o <<y>> = <<x, y>>
  <2>1. /\ <<x>> \o <<y>> \in Seq(S) /\ Len(<<x>> \o <<y>>) = 2
        /\ \A i \in 1..2 : (<<x>> \o <<y>>)[i] = <<x, y>>[i]
    BY <1>1
  <2> QED BY <1>1, <2>1, SeqEqual
<1> QED BY <1>2, <1>3

\* What a probe or a look goes on with.
LEMMA ResetShape ==
    ASSUME NEW t \in Tasks, job[t].to \in Seq(Nat), NEW n \in Nat, NEW e \in Nat,
           Kind(t) = "scan"
    PROVE  LET s == <<Goto(job[t].to)>> \o NextIndex(t, n, e)
           IN  /\ s \in Seq(Cmd) /\ s # << >> /\ Fits("scan", s) /\ ScanShape(s, job[t].to)
               /\ Head(s) = Goto(job[t].to)
<1> DEFINE g == Goto(job[t].to)
           p == Probing(n + 1, e)
<1>0. n + 1 \in Nat
  OBVIOUS
<1>1. g \in Cmd /\ p \in Cmd /\ g.op = "goto" /\ p.op = "probe"
  BY <1>0, CmdTypes DEF Goto, Probing
<1> HIDE DEF g, p
<1>2. NextIndex(t, n, e) \in {<< >>, <<p>>}
  BY DEF NextIndex, p
<1>3. <<g>> \o << >> = <<g>> /\ <<g>> \o <<p>> = <<g, p>>
  BY <1>1, Paired
<1>4. ASSUME NEW u \in {<<g>>, <<g, p>>}
      PROVE  u \in Seq(Cmd) /\ u # << >> /\ Fits("scan", u) /\ ScanShape(u, job[t].to)
             /\ Head(u) = g
  <2>1. u \in Seq(Cmd) /\ u # << >> /\ Head(u) = g
    <3>1. <<g>> \in Seq(Cmd) /\ <<g>> # << >> /\ Head(<<g>>) = g
      BY <1>1
    <3>2. <<g, p>> \in Seq(Cmd) /\ <<g, p>> # << >> /\ Head(<<g, p>>) = g
      BY <1>1
    <3> QED BY <3>1, <3>2
  <2>2. \A i \in 1..Len(u) : u[i].op \in {"goto", "probe"}
    BY <1>1, <1>4
  <2>3. Fits("scan", u)
    BY <2>2 DEF Fits, Ops, Homing
  <2>4. ScanShape(u, job[t].to)
    <3>1. \E m \in Nat : u \in {<<g>>, <<g, Probing(m, e)>>}
      BY <1>0, <1>4 DEF p
    <3> QED BY <3>1 DEF ScanShape, g
  <2> QED BY <2>1, <2>3, <2>4
<1>5. <<g>> \o NextIndex(t, n, e) \in {<<g>>, <<g, p>>}
  BY <1>2, <1>3
<1> QED BY <1>4, <1>5 DEF g

LEMMA CdInv == ASSUME Inv, NEW t \in Tasks, Cd(t) PROVE Inv'
<1> DEFINE c == Head(todo[t])
           rest == Tail(todo[t])
<1>1. /\ pc[t] = "busy" /\ c.op \in {"goto", "into", "base"}
      /\ loc' = Moved(c)
      /\ base' = [base EXCEPT ![t] = IF c.op = "base" THEN loc' ELSE base[t]]
      /\ Proceed(t, rest, notes[t]) /\ Traced(t, c)
      /\ job' = job /\ faults' = faults
  BY DEF Cd
<1>2. /\ c \in Cmd /\ c.op \in Ops(Kind(t))
      /\ rest \in Seq(Cmd) /\ Fits(Kind(t), rest)
      /\ rest = << >> /\ Kind(t) \in Homing => c = Goto(Root)
  BY <1>1, HeadFits
<1>3. TaskInv(t) /\ faults \in Nat
  BY DEF Inv, Types
<1>4. Kind(t) = "scan" =>
         /\ c.to = job[t].to
         /\ \E n, e \in Nat : rest \in {<< >>, <<Probing(n, e)>>}
                              /\ (c.op = "base" => rest = <<Probing(n, e)>>)
  BY <1>1, ScanHeads
<1> HIDE DEF c, rest
<1>5. /\ loc' \in Tree
      /\ here' \in [Tasks -> Seq(Nat)] /\ movers' \in [Tasks -> SUBSET Tasks]
      /\ missed' \in [Tasks -> BOOLEAN] /\ astray' \in [Tasks -> BOOLEAN]
      /\ \A u \in Tasks \ {t} :
            /\ here'[u] = here[u] /\ missed'[u] = missed[u] /\ astray'[u] = astray[u]
            /\ \/ movers'[u] = movers[u] /\ (loc' = loc \/ pc[u] # "busy")
               \/ movers'[u] = movers[u] \cup {t} /\ pc[u] = "busy" /\ pc[t] = "busy"
      /\ movers'[t] \subseteq movers[t]
      /\ Absolute(c) => /\ here'[t] = c.to
                        /\ loc' = here'[t] \/ missed'[t]
                        /\ c.to \in Tree => loc' = c.to
                        /\ c.to \notin Tree => (missed[t] => missed'[t])
                                               /\ (c.op # "probe" => missed'[t])
      /\ ~Absolute(c) =>
            /\ here'[t] = here[t] \o c.to
            /\ movers'[t] = movers[t] /\ astray'[t] = astray[t]
            /\ missed[t] => missed'[t]
            /\ \/ loc' = loc \o c.to
               \/ loc' = loc /\ (c.op = "probe" \/ missed'[t])
  BY <1>1, <1>2, Trace
<1>6. notes[t] \in SUBSET Reading /\ \A r \in notes[t] : r.by = t /\ Explained(r)
  BY DEF Inv, Types, NotesInv
<1>7. /\ todo' = [todo EXCEPT ![t] = rest] /\ todo' \in [Tasks -> Seq(Cmd)]
      /\ pc' = [pc EXCEPT ![t] = IF rest = << >> THEN "ended" ELSE "busy"]
      /\ pc' \in [Tasks -> {"idle", "busy", "ended", "failed"}]
      /\ notes' \in [Tasks -> SUBSET Reading] /\ filed' \in SUBSET Reading
      /\ NotesInv'
  BY <1>1, <1>2, <1>6, ProceedNotes
<1>8. Types'
  BY <1>1, <1>5, <1>7 DEF Inv, Types
<1>9. /\ pc'[t] = IF rest = << >> THEN "ended" ELSE "busy"
      /\ todo'[t] = rest
      /\ base'[t] = IF c.op = "base" THEN loc' ELSE base[t]
      /\ \A u \in Tasks : u # t => pc'[u] = pc[u] /\ todo'[u] = todo[u] /\ base'[u] = base[u]
  BY <1>1, <1>7 DEF Inv, Types
<1>10. \A u \in Tasks : Kind(u)' = Kind(u) /\ Relative(u)' = Relative(u)
                        /\ Returning(u)' = Returning(u)
  BY <1>1 DEF Kind, Relative, Returning
<1>11. TaskInv(t)'
  <2>1. TodoOf(t)'
    BY <1>2, <1>9, <1>10 DEF TodoOf
  <2>2. CuesOf(t)'
    BY <1>1, <1>5, <1>9, OwnCues
  <2>3. ScanOf(t)'
    <3> SUFFICES ASSUME Kind(t) = "scan", rest # << >>
                 PROVE  /\ ScanShape(rest, job[t].to)
                        /\ IF job[t].to \in Tree THEN base'[t] = job[t].to ELSE missed'[t]
                        /\ here'[t] = job[t].to
      BY <1>1, <1>9, <1>10 DEF ScanOf
    <3>1. PICK n, e \in Nat : rest = <<Probing(n, e)>>
      BY <1>4
    <3>2. ScanShape(rest, job[t].to)
      BY <3>1 DEF ScanShape
    <3>3. Absolute(c) /\ c.to = job[t].to
      BY <1>1, <1>2, <1>4 DEF Absolute, Ops
    <3>4. c.op # "base" => IF job[t].to \in Tree THEN base[t] = job[t].to ELSE missed[t]
      BY <1>1, <1>3 DEF TaskInv, ScanOf, c
    <3>5. IF job[t].to \in Tree THEN base'[t] = job[t].to ELSE missed'[t]
      BY <1>1, <1>5, <1>9, <3>3, <3>4
    <3> QED BY <1>5, <3>2, <3>3, <3>5
  <2>4. WhereOf(t)'
    <3>1. CASE Absolute(c)
      BY <1>5, <3>1 DEF WhereOf
    <3>2. CASE ~Absolute(c)
      <4>1. \/ loc = here[t]
            \/ missed[t]
            \/ astray[t] /\ Relative(t)
            \/ movers[t] # {}
        BY <1>1, <1>3, <3>2 DEF TaskInv, WhereOf, c
      <4>2. c.op # "probe"
        BY <1>1
      <4>3. loc = here[t] => loc' = here'[t] \/ missed'[t]
        BY <1>5, <3>2, <4>2
      <4> QED BY <1>5, <1>10, <3>2, <4>1, <4>3 DEF WhereOf
    <3> QED BY <3>1, <3>2
  <2> QED BY <2>1, <2>2, <2>3, <2>4 DEF TaskInv
<1>12. ASSUME NEW u \in Tasks, u # t PROVE TaskInv(u)'
  <2>1. /\ here'[u] = here[u] /\ missed'[u] = missed[u] /\ astray'[u] = astray[u]
        /\ \/ movers'[u] = movers[u] /\ (loc' = loc \/ pc[u] # "busy")
           \/ movers'[u] = movers[u] \cup {t} /\ pc[u] = "busy" /\ pc[t] = "busy"
    BY <1>5, <1>12
  <2> QED BY <1>1, <1>9, <1>12, <2>1, OthersKeep
<1>13. AwayInv'
  <2>1. rest = << >> /\ Returning(t) => loc' = Root
    <3> SUFFICES ASSUME rest = << >>, Returning(t) PROVE loc' = Root
      OBVIOUS
    <3>1. Kind(t) \in {"pool", "cues", "navigate", "names", "slots", "property", "scan"}
      BY JobTypes DEF Inv
    <3>2. CASE Kind(t) \in Homing
      <4>1. c = Goto(Root) /\ Absolute(c) /\ c.to = Root
        BY <1>2, <3>2 DEF Goto, Absolute
      <4> QED BY <1>5, <4>1, CmdTypes
    <3>3. CASE Kind(t) = "scan"
      <4>1. Absolute(c) /\ c.to = Root
        BY <1>1, <1>2, <1>4, <3>3 DEF Returning, Absolute, Ops
      <4> QED BY <1>5, <4>1, CmdTypes
    <3> QED BY <3>1, <3>2, <3>3 DEF Returning, Homing
  <2> QED BY <2>1, <1>1, <1>9, <1>10 DEF AwayInv
<1> QED BY <1>7, <1>8, <1>11, <1>12, <1>13 DEF Inv

LEMMA ProbeInv == ASSUME Inv, NEW t \in Tasks, Probe(t) PROVE Inv'
<1> DEFINE c == Head(todo[t])
           rest == IF loc' = base[t]
                   THEN <<Goto(job[t].to)>> \o NextIndex(t, c.to[1], c.empty + 1)
                   ELSE <<[c EXCEPT !.op = "look"]>>
<1>1. /\ pc[t] = "busy" /\ c.op = "probe"
      /\ loc' = Moved(c)
      /\ Proceed(t, rest, notes[t]) /\ Traced(t, c)
      /\ job' = job /\ faults' = faults /\ base' = base
  BY DEF Probe
<1>2. c \in Cmd /\ c.op \in Ops(Kind(t))
  BY <1>1, HeadFits
<1>3. Kind(t) = "scan" /\ job[t].to \in Seq(Nat)
  <2>1. /\ Kind(t) \in {"pool", "cues", "navigate", "names", "slots", "property", "scan"}
        /\ job[t].to \in Seq(Nat)
    BY JobTypes DEF Inv
  <2> QED BY <1>1, <1>2, <2>1 DEF Ops
<1>4. TaskInv(t)
  BY DEF Inv
<1>5. PICK n, e \in Nat : c = Probing(n, e)
  BY <1>1, <1>3, ScanHeads
<1>6. c.to = <<n>> /\ c.to[1] = n /\ c.empty = e /\ e + 1 \in Nat
  BY <1>5 DEF Probing
<1>7. /\ rest \in Seq(Cmd) /\ rest # << >> /\ Fits("scan", rest) /\ ScanShape(rest, job[t].to)
      /\ Head(rest) = IF loc' = base[t] THEN Goto(job[t].to) ELSE [Probing(n, e) EXCEPT !.op = "look"]
  <2>1. CASE loc' = base[t]
    <3>1. rest = <<Goto(job[t].to)>> \o NextIndex(t, n, e + 1)
      BY <2>1, <1>6
    <3> QED BY <3>1, <2>1, <1>3, <1>6, ResetShape
  <2>2. CASE loc' # base[t]
    <3> DEFINE l == [Probing(n, e) EXCEPT !.op = "look"]
    <3>1. l \in Cmd /\ l.op = "look"
      BY CmdTypes DEF Probing
    <3>2. rest = <<l>>
      BY <2>2, <1>5
    <3>3. ScanShape(rest, job[t].to)
      BY <3>2 DEF ScanShape
    <3> HIDE DEF l, rest
    <3>4. rest \in Seq(Cmd) /\ rest # << >> /\ Len(rest) = 1 /\ rest[1] = l /\ Head(rest) = l
      BY <3>1, <3>2
    <3>5. Fits("scan", rest)
      BY <3>1, <3>4 DEF Fits, Ops, Homing
    <3> QED BY <2>2, <3>3, <3>4, <3>5 DEF l
  <2> QED BY <2>1, <2>2
<1> HIDE DEF c, rest
<1>8. /\ loc' \in Tree
      /\ here' \in [Tasks -> Seq(Nat)] /\ movers' \in [Tasks -> SUBSET Tasks]
      /\ missed' \in [Tasks -> BOOLEAN] /\ astray' \in [Tasks -> BOOLEAN]
      /\ \A u \in Tasks \ {t} :
            /\ here'[u] = here[u] /\ missed'[u] = missed[u] /\ astray'[u] = astray[u]
            /\ \/ movers'[u] = movers[u] /\ (loc' = loc \/ pc[u] # "busy")
               \/ movers'[u] = movers[u] \cup {t} /\ pc[u] = "busy" /\ pc[t] = "busy"
      /\ movers'[t] \subseteq movers[t]
      /\ ~Absolute(c) =>
            /\ here'[t] = here[t] \o c.to
            /\ movers'[t] = movers[t] /\ astray'[t] = astray[t]
            /\ missed[t] => missed'[t]
            /\ \/ loc' = loc \o c.to
               \/ loc' = loc /\ (c.op = "probe" \/ missed'[t])
  BY <1>1, <1>2, Trace
<1>9. ~Absolute(c)
  BY <1>1 DEF Absolute
<1>10. notes[t] \in SUBSET Reading /\ \A r \in notes[t] : r.by = t /\ Explained(r)
  BY DEF Inv, Types, NotesInv
<1>11. /\ todo' = [todo EXCEPT ![t] = rest] /\ todo' \in [Tasks -> Seq(Cmd)]
       /\ pc' = [pc EXCEPT ![t] = IF rest = << >> THEN "ended" ELSE "busy"]
       /\ pc' \in [Tasks -> {"idle", "busy", "ended", "failed"}]
       /\ notes' \in [Tasks -> SUBSET Reading] /\ filed' \in SUBSET Reading
       /\ NotesInv'
  BY <1>1, <1>7, <1>10, ProceedNotes
<1>12. Types'
  BY <1>1, <1>8, <1>11 DEF Inv, Types
<1>13. /\ pc'[t] = "busy" /\ todo'[t] = rest
       /\ \A u \in Tasks : u # t => pc'[u] = pc[u] /\ todo'[u] = todo[u] /\ base'[u] = base[u]
  BY <1>1, <1>7, <1>11 DEF Inv, Types
<1>14. \A u \in Tasks : Kind(u)' = Kind(u) /\ Relative(u)' = Relative(u)
  BY <1>1 DEF Kind, Relative
<1>15. Head(todo[t]).op # "base" /\ (~Absolute(Head(todo[t])))
  BY <1>1, <1>9 DEF c
<1>16. /\ IF job[t].to \in Tree THEN base[t] = job[t].to ELSE missed[t]
       /\ here[t] = job[t].to
       /\ \/ loc = here[t]
          \/ missed[t]
          \/ astray[t] /\ Relative(t)
          \/ movers[t] # {}
  BY <1>1, <1>3, <1>4, <1>15 DEF TaskInv, ScanOf, WhereOf, c
<1>17. TaskInv(t)'
  <2>1. TodoOf(t)'
    BY <1>3, <1>7, <1>13, <1>14 DEF TodoOf
  <2>2. CuesOf(t)'
    BY <1>1, <1>8, <1>13, OwnCues
  <2>3. ScanOf(t)'
    <3>1. Head(rest).op # "probe"
      BY <1>7 DEF Goto, Probing
    <3> QED BY <1>1, <1>7, <1>8, <1>9, <1>13, <1>16, <3>1 DEF ScanOf
  <2>4. WhereOf(t)'
    <3>1. CASE loc' = base[t]
      BY <3>1, <1>3, <1>7, <1>13, CmdTypes DEF WhereOf
    <3>2. CASE loc' # base[t]
      <4>1. loc = here[t] => loc' = here'[t]
        BY <3>2, <1>8, <1>9, <1>16
      <4> QED BY <4>1, <1>8, <1>9, <1>14, <1>16 DEF WhereOf
    <3> QED BY <3>1, <3>2
  <2> QED BY <2>1, <2>2, <2>3, <2>4 DEF TaskInv
<1>18. ASSUME NEW u \in Tasks, u # t PROVE TaskInv(u)'
  <2>1. /\ here'[u] = here[u] /\ missed'[u] = missed[u] /\ astray'[u] = astray[u]
        /\ \/ movers'[u] = movers[u] /\ (loc' = loc \/ pc[u] # "busy")
           \/ movers'[u] = movers[u] \cup {t} /\ pc[u] = "busy" /\ pc[t] = "busy"
    BY <1>8, <1>18
  <2> QED BY <1>1, <1>13, <1>18, <2>1, OthersKeep
<1>19. AwayInv'
  BY <1>13 DEF AwayInv
<1> QED BY <1>11, <1>12, <1>17, <1>18, <1>19 DEF Inv

LEMMA LookInv == ASSUME Inv, NEW t \in Tasks, Look(t) PROVE Inv'
<1> DEFINE c == Head(todo[t])
           found == \E p \in Tree : Len(p) = Len(loc) + 1 /\ IsPrefix(loc, p)
           left == IF found THEN 0 ELSE c.empty + 1
           rest == <<Goto(job[t].to)>> \o NextIndex(t, c.to[1], left)
           read == IF found THEN notes[t] \cup {Read(t)} ELSE notes[t]
<1>1. /\ pc[t] = "busy" /\ c.op = "look"
      /\ Proceed(t, rest, read)
      /\ UNCHANGED <<loc, job, base, faults, here, movers, missed, astray>>
  BY DEF Look, ghosts
<1>2. c.op \in Ops(Kind(t))
  BY <1>1, HeadFits
<1>3. Kind(t) = "scan" /\ job[t].to \in Seq(Nat)
  <2>1. /\ Kind(t) \in {"pool", "cues", "navigate", "names", "slots", "property", "scan"}
        /\ job[t].to \in Seq(Nat)
    BY JobTypes DEF Inv
  <2> QED BY <1>1, <1>2, <2>1 DEF Ops
<1>4. PICK n, e \in Nat : c = [Probing(n, e) EXCEPT !.op = "look"]
  BY <1>1, <1>3, ScanHeads
<1>5. c.to[1] = n /\ left \in Nat
  <2>1. c.to = <<n>> /\ c.empty = e
    BY <1>4 DEF Probing
  <2> HIDE DEF found, c
  <2> QED BY <2>1
<1>6. read \in SUBSET Reading /\ \A r \in read : r.by = t /\ Explained(r)
  <2>1. ~Absolute(Head(todo[t]))
    BY <1>1 DEF Absolute
  <2>2. Read(t) \in Reading /\ Read(t).by = t /\ Explained(Read(t))
    BY <1>1, <2>1, ReadExplained
  <2>3. notes[t] \in SUBSET Reading /\ \A r \in notes[t] : r.by = t /\ Explained(r)
    BY DEF Inv, Types, NotesInv
  <2> HIDE DEF found
  <2> QED BY <2>2, <2>3
<1> HIDE DEF left, read
<1>7. /\ rest \in Seq(Cmd) /\ rest # << >> /\ Fits("scan", rest) /\ ScanShape(rest, job[t].to)
      /\ Head(rest) = Goto(job[t].to)
  BY <1>3, <1>5, ResetShape
<1>8. c.op # "base" /\ TaskInv(t)
  BY <1>1 DEF Inv
<1> HIDE DEF rest
<1>9. /\ todo' = [todo EXCEPT ![t] = rest] /\ todo' \in [Tasks -> Seq(Cmd)]
      /\ pc' = [pc EXCEPT ![t] = IF rest = << >> THEN "ended" ELSE "busy"]
      /\ pc' \in [Tasks -> {"idle", "busy", "ended", "failed"}]
      /\ notes' \in [Tasks -> SUBSET Reading] /\ filed' \in SUBSET Reading
      /\ NotesInv'
  BY <1>1, <1>6, <1>7, ProceedNotes
<1>10. Types'
  BY <1>1, <1>9 DEF Inv, Types
<1>11. /\ pc'[t] = "busy" /\ todo'[t] = rest
       /\ \A u \in Tasks : u # t => pc'[u] = pc[u] /\ todo'[u] = todo[u]
  BY <1>7, <1>9 DEF Inv, Types
<1>12. \A u \in Tasks : Kind(u)' = Kind(u)
  BY <1>1 DEF Kind
<1>13. Absolute(Head(rest)) /\ Head(rest).op = "goto"
  BY <1>3, <1>7, CmdTypes
<1>14. TaskInv(t)'
  <2>1. TodoOf(t)'
    BY <1>3, <1>7, <1>11, <1>12 DEF TodoOf
  <2>2. CuesOf(t)'
    BY <1>1, <1>11, OwnCues
  <2>3. ScanOf(t)'
    BY <1>1, <1>3, <1>7, <1>8, <1>11, <1>13 DEF ScanOf, TaskInv
  <2>4. WhereOf(t)'
    BY <1>11, <1>13 DEF WhereOf
  <2> QED BY <2>1, <2>2, <2>3, <2>4 DEF TaskInv
<1>15. ASSUME NEW u \in Tasks, u # t PROVE TaskInv(u)'
  BY <1>1, <1>11, <1>15, OthersKeep
<1>16. AwayInv'
  BY <1>11 DEF AwayInv
<1> QED BY <1>9, <1>10, <1>14, <1>15, <1>16 DEF Inv

-----------------------------------------------------------------------------
(* Faults. *)

LEMMA RaiseInv == ASSUME Inv, NEW t \in Tasks, Raise(t) PROVE Inv'
<1> DEFINE rest == IF Kind(t) = "cues" THEN OtherSequences(todo[t]) ELSE << >>
<1>1. /\ pc[t] = "busy" /\ faults' = faults + 1
      /\ todo' = [todo EXCEPT ![t] = rest]
      /\ pc' = [pc EXCEPT ![t] = IF rest = << >> THEN "failed" ELSE "busy"]
      /\ notes' = [notes EXCEPT ![t] = {}]
      /\ UNCHANGED <<loc, job, base, filed, here, movers, missed, astray>>
  BY DEF Raise, ghosts
<1>2. /\ rest \in Seq(Cmd) /\ Fits(Kind(t), rest)
      /\ rest # << >> => Kind(t) = "cues" /\ Absolute(Head(rest))
  <2>1. CASE Kind(t) = "cues"
    BY <2>1, <1>1, HeadFits, OthersFit
  <2>2. CASE Kind(t) # "cues"
    BY <2>2 DEF Fits
  <2> QED BY <2>1, <2>2
<1> HIDE DEF rest
<1>3. Types'
  BY <1>1, <1>2 DEF Inv, Types
<1>4. /\ pc'[t] = IF rest = << >> THEN "failed" ELSE "busy"
      /\ todo'[t] = rest
      /\ \A u \in Tasks : u # t => pc'[u] = pc[u] /\ todo'[u] = todo[u]
      /\ \A u \in Tasks : notes'[u] \subseteq notes[u]
      /\ faults' # 0
  BY <1>1 DEF Inv, Types
<1>5. /\ \A u \in Tasks : Kind(u)' = Kind(u)
      /\ \A r : Explained(r)' <=> Explained(r)
  BY <1>1 DEF Kind, Relative, Explained, Pools
<1>6. NotesInv'
  BY <1>1, <1>4, <1>5 DEF Inv, NotesInv
<1>7. TaskInv(t)'
  <2>1. TodoOf(t)'
    BY <1>2, <1>4, <1>5 DEF TodoOf
  <2>2. CuesOf(t)'
    BY <1>1, <1>4, OwnCues
  <2>3. ScanOf(t)'
    BY <1>2, <1>4, <1>5 DEF ScanOf
  <2>4. WhereOf(t)'
    BY <1>2, <1>4 DEF WhereOf
  <2> QED BY <2>1, <2>2, <2>3, <2>4 DEF TaskInv
<1>8. ASSUME NEW u \in Tasks, u # t PROVE TaskInv(u)'
  BY <1>1, <1>4, <1>8, OthersKeep
<1>9. AwayInv'
  BY <1>4 DEF AwayInv
<1> QED BY <1>3, <1>6, <1>7, <1>8, <1>9 DEF Inv

LEMMA CancelInv == ASSUME Inv, CancelHydration PROVE Inv'
<1>1. /\ faults' = faults + 1
      /\ pc' = [t \in Tasks |-> IF t \in Hydrator /\ pc[t] # "ended" THEN "failed" ELSE pc[t]]
      /\ todo' = [t \in Tasks |-> IF t \in Hydrator THEN << >> ELSE todo[t]]
      /\ notes' = [t \in Tasks |-> IF t \in Hydrator THEN {} ELSE notes[t]]
      /\ UNCHANGED <<loc, job, base, filed, here, movers, missed, astray>>
  BY DEF CancelHydration, ghosts
<1>2. Types'
  BY <1>1 DEF Inv, Types
<1>3. /\ \A u \in Tasks : Kind(u)' = Kind(u) /\ Relative(u)' = Relative(u)
      /\ Pools' = Pools
      /\ \A r : Explained(r)' <=> Explained(r)
  BY <1>1 DEF Kind, Relative, Explained, Pools
<1>4. NotesInv'
  BY <1>1, <1>3 DEF Inv, NotesInv
<1>5. ASSUME NEW u \in Tasks PROVE TaskInv(u)'
  <2>1. TaskInv(u) /\ todo[u] \in Seq(Cmd)
    BY DEF Inv, Types
  <2>2. CASE u \in Hydrator
    <3>1. /\ todo'[u] = << >> /\ pc'[u] \in {"ended", "failed"}
          /\ Kind(u) \in {"pool", "cues"} /\ movers'[u] = movers[u]
      BY <1>1, <2>2 DEF Hydrator
    <3>2. TodoOf(u)'
      BY <3>1 DEF TodoOf, Fits
    <3> QED BY <1>3, <2>1, <3>1, <3>2 DEF TaskInv, CuesOf, ScanOf, WhereOf
  <2>3. CASE u \notin Hydrator
    <3>1. todo'[u] = todo[u] /\ pc'[u] = pc[u] /\ Kind(u) # "cues"
      BY <1>1, <2>3 DEF Hydrator
    <3>2. TodoOf(u)' /\ ScanOf(u)' /\ WhereOf(u)' /\ CuesOf(u)'
      BY <1>1, <1>3, <2>1, <3>1 DEF TaskInv, TodoOf, ScanOf, WhereOf, CuesOf
    <3> QED BY <3>2 DEF TaskInv
  <2> QED BY <2>2, <2>3
<1>6. AwayInv'
  BY <1>1 DEF AwayInv, Inv, Types
<1> QED BY <1>2, <1>4, <1>5, <1>6 DEF Inv

-----------------------------------------------------------------------------

LEMMA NextInv == Inv /\ [Next]_vars => Inv'
<1> SUFFICES ASSUME Inv, [Next]_vars PROVE Inv'
  OBVIOUS
<1>1. ASSUME NEW t \in Tasks,
             \/ Begin(t) \/ Cd(t) \/ ListHere(t) \/ ListSlots(t) \/ Assign(t)
             \/ Verify(t) \/ Probe(t) \/ Look(t) \/ Raise(t)
      PROVE  Inv'
  BY <1>1, BeginInv, CdInv, ListHereInv, ListSlotsInv, AssignInv, VerifyInv, ProbeInv,
     LookInv, RaiseInv
<1>2. CASE CancelHydration
  BY <1>2, CancelInv
<1>3. CASE UNCHANGED vars
  <2>1. UNCHANGED <<loc, job, pc, todo, base, notes, filed, faults, here, movers, missed, astray>>
    BY <1>3 DEF vars, code, ghosts
  <2>2. Types'
    BY <2>1 DEF Inv, Types
  <2>3. /\ \A t \in Tasks : Kind(t)' = Kind(t) /\ Relative(t)' = Relative(t)
                            /\ Returning(t)' = Returning(t)
        /\ Pools' = Pools /\ \A r : Explained(r)' <=> Explained(r)
    BY <2>1 DEF Kind, Relative, Returning, Pools, Explained
  <2>4. NotesInv'
    BY <2>1, <2>3 DEF Inv, NotesInv
  <2>5. ASSUME NEW t \in Tasks PROVE TaskInv(t)'
    <3>1. TaskInv(t)
      BY DEF Inv
    <3> QED BY <2>1, <2>3, <3>1 DEF TaskInv, TodoOf, CuesOf, ScanOf, WhereOf
  <2>6. AwayInv'
    BY <2>1, <2>3 DEF Inv, AwayInv
  <2> QED BY <2>2, <2>4, <2>5, <2>6 DEF Inv
<1> QED BY <1>1, <1>2, <1>3 DEF Next

LEMMA SpecInv == Spec => []Inv
  BY InitInv, NextInv, PTL DEF Spec

\* The console stands at a place that exists whatever the tasks send and whatever
\* raises, a task is busy exactly while it has commands to send, and what it has
\* read is its own (navigation.py, console_state.py).
THEOREM TypeCorrect == Spec => []TypeOK
<1>1. Inv => TypeOK
  <2> SUFFICES ASSUME Inv PROVE TypeOK
    OBVIOUS
  <2>1. \A t \in Tasks : pc[t] = "busy" <=> todo[t] # << >>
    BY DEF Inv, TaskInv, TodoOf
  <2>2. \A t \in Tasks : \A r \in notes[t] : r.by = t /\ r.at \in Tree
    BY DEF Inv, Types, NotesInv, Reading
  <2>3. \A r \in filed : r.by \in Tasks /\ r.at \in Tree
    BY DEF Inv, Types, Reading
  <2> QED BY <2>1, <2>2, <2>3 DEF Inv, Types, TypeOK
<1> QED BY <1>1, SpecInv, PTL

\* Whatever is indexed, returned or assigned for a place comes from that place,
\* unless another task moved the console, a cd of the task went nowhere, or a tool
\* that starts from an index was started away from the root (console_state.py,
\* navigation.py, _check_pool_slots()); a scan is not misled by missing indexes.
THEOREM MisfiledExplained == Spec => []MisfiledOnlyWhenMoved
<1>1. Inv => MisfiledOnlyWhenMoved
  BY DEF Inv, NotesInv, Explained, MisfiledOnlyWhenMoved
<1> QED BY <1>1, SpecInv, PTL

\* When nothing is under way, no send has raised and no tool was asked to stay
\* elsewhere, the console is back at the root, for any interleaving of any jobs
\* ("After this call the console is left at root", console_state.py).
THEOREM ReturnsToRoot == Spec => []BackAtRoot
<1>1. Inv => BackAtRoot
  BY DEF Inv, AwayInv, BackAtRoot
<1> QED BY <1>1, SpecInv, PTL
=============================================================================
