--------------------------- MODULE RagIngestProofs ---------------------------
(* Proofs about RagIngest, for any number of ingests, files, contents, edits   *)
(* and interruptions.                                                          *)
EXTENDS RagIngest, Integers, TLAPS

Models == {"real", "zero", "none"}

\* An ingest has counted no more files than it has left behind.
Progress == \A p \in Ingests : processed[p] < at[p]

\* An ingest that is alone at its file shares it with nobody.
Exclusive ==
    \A p, q \in Ingests :
        p # q /\ pc[p] \in Working /\ pc[q] \in Working /\ at[p] = at[q] => ~alone[p]

\* From its first commit to its last, such an ingest finds what it has written.
OwnRow ==
    \A p \in Ingests : alone[p] /\ pc[p] \in {"clear", "store"} =>
        hash[at[p]] = seen[p][at[p]] /\ chunks[at[p]] = {}

\* It has checked that there is nothing real to be lost.
NothingReal ==
    \A p \in Ingests :
        /\ Provider[p] = "zero" /\ alone[p] /\ pc[p] = "upsert" /\ at[p] \notin torn
        => ~RealIn(chunks[at[p]])

IInv == TypeOK /\ Progress /\ Exclusive /\ OwnRow /\ NothingReal /\ IndexedAsHashed

-----------------------------------------------------------------------------
(* Types and progress. *)

LEMMA NextFileTyped ==
    ASSUME ConstantsAssumption, TypeOK, NEW p \in Ingests,
           pc[p] \notin {"idle"}, at[p] \in File, NextFile(p)
    PROVE  /\ pc' \in [Ingests -> {"idle", "check"} \cup Working]
           /\ at' \in [Ingests -> 1..Files + 1]
           /\ alone' \in [Ingests -> BOOLEAN]
           /\ \A q \in Ingests : pc'[q] \in Working => at'[q] \in File /\ pc[q] \in Working
           /\ \A q \in Ingests : pc'[q] # "idle" => pc[q] # "idle"
  BY DEF ConstantsAssumption, TypeOK, NextFile, Goes, Working, File

LEMMA EndsTyped ==
    ASSUME ConstantsAssumption, TypeOK, NEW p \in Ingests, Ends(p)
    PROVE  /\ pc' \in [Ingests -> {"idle", "check"} \cup Working]
           /\ at' \in [Ingests -> 1..Files + 1]
           /\ alone' \in [Ingests -> BOOLEAN]
           /\ processed' \in [Ingests -> 0..Files]
           /\ seen' \in [Ingests -> [File -> Contents \cup {Missing}]]
           /\ \A q \in Ingests : pc'[q] \in Working => at'[q] \in File
           /\ \A q \in Ingests : pc'[q] # "idle" => seen'[q] \in [File -> Contents]
           /\ Progress => Progress'
  BY DEF ConstantsAssumption, TypeOK, Ends, Goes, Working, File, Progress

LEMMA CountedTyped ==
    ASSUME ConstantsAssumption, TypeOK, Progress, NEW p \in Ingests, NEW checked \in BOOLEAN,
           pc[p] = "store", at[p] \in File, Counted(p, checked)
    PROVE  /\ pc' \in [Ingests -> {"idle", "check"} \cup Working]
           /\ at' \in [Ingests -> 1..Files + 1]
           /\ alone' \in [Ingests -> BOOLEAN]
           /\ processed' \in [Ingests -> 0..Files]
           /\ seen' \in [Ingests -> [File -> Contents \cup {Missing}]]
           /\ \A q \in Ingests : pc'[q] \in Working => at'[q] \in File
           /\ \A q \in Ingests : pc'[q] # "idle" => seen'[q] \in [File -> Contents]
           /\ Progress'
<1>1. CASE Ends(p)
  BY <1>1, EndsTyped
<1>2. CASE NextFile(p) /\ processed' = [processed EXCEPT ![p] = @ + 1] /\ UNCHANGED seen
  <2>1. /\ pc' \in [Ingests -> {"idle", "check"} \cup Working]
        /\ at' \in [Ingests -> 1..Files + 1]
        /\ alone' \in [Ingests -> BOOLEAN]
        /\ \A q \in Ingests : pc'[q] \in Working => at'[q] \in File /\ pc[q] \in Working
        /\ \A q \in Ingests : pc'[q] # "idle" => pc[q] # "idle"
    BY <1>2, NextFileTyped
  <2>2. /\ seen' \in [Ingests -> [File -> Contents \cup {Missing}]]
        /\ \A q \in Ingests : pc'[q] # "idle" => seen'[q] \in [File -> Contents]
    BY <1>2, <2>1 DEF TypeOK
  <2>3. processed' \in [Ingests -> 0..Files] /\ Progress'
    BY <1>2 DEF ConstantsAssumption, TypeOK, Progress, NextFile, File
  <2>4. QED
    BY <2>1, <2>2, <2>3
<1>3. QED
  BY <1>1, <1>2 DEF Counted

LEMMA InsertTyped ==
    ASSUME NEW groups \in SUBSET Group, NEW c \in Contents, NEW m \in Models,
           NEW new \in Insert(groups, c, m)
    PROVE  new \in SUBSET Group
  BY DEF Insert, Group, Models

LEMMA StoreTyped ==
    ASSUME ConstantsAssumption, TypeOK, Progress, NEW p \in Ingests, Store(p)
    PROVE  TypeOK' /\ Progress'
<1>1. at[p] \in File /\ seen[p][at[p]] \in Contents /\ Provider[p] \in Models
  BY DEF ConstantsAssumption, TypeOK, Store, Working, Models
<1>2. chunks' \in [File -> SUBSET Group]
  <2>1. CASE seen[p][at[p]] \in Blank
    BY <2>1 DEF TypeOK, Store
  <2>2. CASE seen[p][at[p]] \notin Blank
    <3>1. PICK new \in Insert(chunks[at[p]], seen[p][at[p]], Provider[p]) :
             chunks' = [chunks EXCEPT ![at[p]] = new]
      BY <2>2 DEF Store
    <3>2. chunks[at[p]] \in SUBSET Group
      BY <1>1 DEF TypeOK
    <3>3. new \in SUBSET Group
      BY <1>1, <3>2, InsertTyped
    <3>4. QED
      BY <3>1, <3>3 DEF TypeOK
  <2>3. QED
    BY <2>1, <2>2
<1>3. \E checked \in BOOLEAN : Counted(p, checked)
  BY DEF Store
<1>4. /\ pc' \in [Ingests -> {"idle", "check"} \cup Working]
      /\ at' \in [Ingests -> 1..Files + 1]
      /\ alone' \in [Ingests -> BOOLEAN]
      /\ processed' \in [Ingests -> 0..Files]
      /\ seen' \in [Ingests -> [File -> Contents \cup {Missing}]]
      /\ \A q \in Ingests : pc'[q] \in Working => at'[q] \in File
      /\ \A q \in Ingests : pc'[q] # "idle" => seen'[q] \in [File -> Contents]
      /\ Progress'
  BY <1>1, <1>3, CountedTyped DEF Store
<1>5. torn' \subseteq File /\ UNCHANGED <<disk, hash, edits, faults>>
  BY <1>1 DEF Store, TypeOK
<1>6. QED
  BY <1>2, <1>4, <1>5 DEF TypeOK

LEMMA TypeStep ==
    ASSUME ConstantsAssumption, TypeOK, Progress, [Next]_vars
    PROVE  TypeOK' /\ Progress'
<1> USE DEF File, Working
<1>1. ASSUME NEW p \in Ingests, Start(p)
      PROVE  TypeOK' /\ Progress'
  BY <1>1 DEF Start, Goes, TypeOK, Progress, tables
<1>2. ASSUME NEW p \in Ingests, Skip(p)
      PROVE  TypeOK' /\ Progress'
  <2>1. NextFile(p) /\ pc[p] = "check" /\ at[p] \in File
    BY <1>2 DEF Skip
  <2>2. /\ UNCHANGED <<disk, hash, chunks, seen, processed, edits, faults, torn>>
    BY <1>2 DEF Skip, tables
  <2>3. TypeOK'
    BY <2>1, <2>2, NextFileTyped DEF TypeOK
  <2>4. QED
    BY <2>1, <2>2, <2>3 DEF NextFile, TypeOK, Progress
<1>3. ASSUME NEW p \in Ingests, Changed(p)
      PROVE  TypeOK' /\ Progress'
  BY <1>3 DEF Changed, Others, Goes, TypeOK, Progress, tables
<1>4. ASSUME NEW p \in Ingests, CheckModel(p)
      PROVE  TypeOK' /\ Progress'
  <2>1. /\ UNCHANGED <<disk, hash, chunks, seen, processed, edits, faults, torn>>
        /\ pc[p] = "model" /\ at[p] \in File
    BY <1>4 DEF CheckModel, tables, TypeOK
  <2>2. CASE NextFile(p)
    <3>1. TypeOK'
      BY <2>1, <2>2, NextFileTyped DEF TypeOK
    <3>2. QED
      BY <2>1, <2>2, <3>1 DEF NextFile, TypeOK, Progress
  <2>3. CASE Goes(p, "upsert") /\ UNCHANGED <<at, alone>>
    BY <2>1, <2>3 DEF Goes, TypeOK, Progress
  <2>4. QED
    BY <1>4, <2>2, <2>3 DEF CheckModel
<1>5. ASSUME NEW p \in Ingests, Upsert(p)
      PROVE  TypeOK' /\ Progress'
  BY <1>5 DEF Upsert, Goes, TypeOK, Progress
<1>6. ASSUME NEW p \in Ingests, Clear(p)
      PROVE  TypeOK' /\ Progress'
  BY <1>6 DEF Clear, Goes, TypeOK, Progress
<1>7. ASSUME NEW p \in Ingests, Store(p)
      PROVE  TypeOK' /\ Progress'
  BY <1>7, StoreTyped
<1>8. ASSUME NEW p \in Ingests, Finish(p)
      PROVE  TypeOK' /\ Progress'
  BY <1>8, EndsTyped DEF Finish, TypeOK, tables
<1>9. ASSUME NEW p \in Ingests, Interrupted(p)
      PROVE  TypeOK' /\ Progress'
  <2>1. torn' \subseteq File
    <3>1. pc[p] \in {"clear", "store"} => at[p] \in File
      BY DEF TypeOK
    <3>2. QED
      BY <1>9, <3>1 DEF Interrupted, TypeOK
  <2>2. Ends(p) /\ UNCHANGED <<disk, hash, chunks, edits>>
    BY <1>9 DEF Interrupted, tables
  <2>3. faults' \in 0..MaxFaults
    BY <1>9 DEF Interrupted, TypeOK, ConstantsAssumption
  <2>4. QED
    BY <2>1, <2>2, <2>3, EndsTyped DEF TypeOK
<1>10. ASSUME NEW f \in File, Edit(f)
       PROVE  TypeOK' /\ Progress'
  BY <1>10 DEF Edit, TypeOK, Progress, ConstantsAssumption, tables, locals
<1>11. CASE UNCHANGED vars
  BY <1>11 DEF vars, tables, locals, TypeOK, Progress
<1>12. QED
  BY <1>1, <1>2, <1>3, <1>4, <1>5, <1>6, <1>7, <1>8, <1>9, <1>10, <1>11
     DEF Next, Continue

-----------------------------------------------------------------------------
(* The rows of a file and the ingests at it. *)

\* What IndexedAsHashed says of one file.
Clean(f) ==
    IF hash[f] \in Blank \cup {Missing}
    THEN chunks[f] = {}
    ELSE \E m \in Models : chunks[f] = {[of |-> hash[f], model |-> m]}

\* Steps that write no row and take no file in hand.
LEMMA RowsKept ==
    ASSUME IndexedAsHashed, UNCHANGED <<hash, chunks>>, torn \subseteq torn',
           \A f \in File \ torn' : InHand(f) => InHand(f)'
    PROVE  IndexedAsHashed'
<1>1. SUFFICES ASSUME NEW f \in File \ torn', ~InHand(f)'
               PROVE  Clean(f)'
  BY DEF IndexedAsHashed, Clean, Models
<1>2. Clean(f)
  BY <1>1 DEF IndexedAsHashed, Clean, Models
<1>3. QED
  BY <1>2 DEF Clean

\* Steps after which an ingest is at no file, or has only looked at one, and no row
\* is written.
LEMMA LeavesFile ==
    ASSUME ConstantsAssumption, TypeOK, IInv, NEW p \in Ingests,
           NextFile(p) \/ Ends(p), UNCHANGED <<hash, chunks>>,
           \A q \in Ingests \ {p} : seen'[q] = seen[q],
           torn' = IF pc[p] \in {"clear", "store"} THEN torn \cup {at[p]} ELSE torn
    PROVE  Exclusive' /\ OwnRow' /\ NothingReal' /\ IndexedAsHashed'
<1>1. /\ pc' = [pc EXCEPT ![p] = pc'[p]] /\ pc'[p] \in {"idle", "check"}
      /\ \A q \in Ingests \ {p} : at'[q] = at[q] /\ alone'[q] = alone[q] /\ pc'[q] = pc[q]
  BY DEF TypeOK, NextFile, Ends, Goes
<1>2. pc'[p] \notin Working
  BY <1>1 DEF Working
<1>3. Exclusive'
  BY <1>1, <1>2 DEF IInv, Exclusive
<1>4. OwnRow'
  BY <1>1 DEF IInv, OwnRow
<1>5. NothingReal'
  <2>1. SUFFICES ASSUME NEW q \in Ingests, Provider[q] = "zero", alone'[q],
                        pc'[q] = "upsert", at'[q] \notin torn'
                 PROVE  ~RealIn(chunks'[at'[q]])
    BY DEF NothingReal, RealIn
  <2>2. q # p /\ alone[q] /\ pc[q] = "upsert" /\ at'[q] = at[q]
    BY <1>1, <2>1
  <2>3. ~RealIn(chunks[at[q]])
    BY <2>1, <2>2 DEF IInv, NothingReal
  <2>4. QED
    BY <2>2, <2>3 DEF RealIn
<1>6. IndexedAsHashed'
  <2>1. ASSUME NEW f \in File \ torn', InHand(f)
        PROVE  InHand(f)'
    <3>1. PICK q \in Ingests : pc[q] \in {"clear", "store"} /\ at[q] = f
      BY <2>1 DEF InHand
    <3>2. q # p
      BY <2>1, <3>1
    <3>3. pc'[q] = pc[q] /\ at'[q] = at[q]
      BY <1>1, <3>2
    <3>4. QED
      BY <3>1, <3>3 DEF InHand
  <2>2. QED
    BY <2>1, RowsKept DEF IInv
<1>7. QED
  BY <1>3, <1>4, <1>5, <1>6

\* Upsert and Clear: the row is in hand, without chunks.
LEMMA ClearsRow ==
    ASSUME ConstantsAssumption, TypeOK, IInv, NEW p \in Ingests,
           NEW place \in {"clear", "store"},
           pc[p] \in {"upsert", "clear"}, Goes(p, place), UNCHANGED <<at, alone, seen, torn>>,
           chunks' = [chunks EXCEPT ![at[p]] = {}],
           \A f \in File \ {at[p]} : hash'[f] = hash[f],
           alone[p] => hash'[at[p]] = seen[p][at[p]]
    PROVE  Exclusive' /\ OwnRow' /\ NothingReal' /\ IndexedAsHashed'
<1>1. /\ pc'[p] = place /\ \A q \in Ingests \ {p} : pc'[q] = pc[q]
      /\ at[p] \in File /\ pc[p] \in Working /\ chunks'[at[p]] = {}
      /\ \A f \in File \ {at[p]} : chunks'[f] = chunks[f]
  BY DEF TypeOK, Goes, Working
<1>2. Exclusive'
  BY <1>1 DEF IInv, Exclusive, Working
<1>3. ASSUME NEW q \in Ingests \ {p}, alone[q], pc[q] \in Working
      PROVE  at[q] \in File /\ at[q] # at[p]
  BY <1>1, <1>3 DEF IInv, Exclusive, TypeOK
<1>4. OwnRow'
  <2>1. SUFFICES ASSUME NEW q \in Ingests, alone[q], pc'[q] \in {"clear", "store"}
                 PROVE  hash'[at[q]] = seen[q][at[q]] /\ chunks'[at[q]] = {}
    BY DEF OwnRow
  <2>2. CASE q = p
    BY <1>1, <2>1, <2>2
  <2>3. CASE q # p
    <3>1. pc[q] \in {"clear", "store"}
      BY <1>1, <2>1, <2>3
    <3>2. at[q] \in File /\ at[q] # at[p]
      BY <1>3, <2>1, <2>3, <3>1 DEF Working
    <3>3. hash[at[q]] = seen[q][at[q]] /\ chunks[at[q]] = {}
      BY <2>1, <3>1 DEF IInv, OwnRow
    <3>4. QED
      BY <1>1, <3>2, <3>3
  <2>4. QED
    BY <2>2, <2>3
<1>5. NothingReal'
  <2>1. SUFFICES ASSUME NEW q \in Ingests, Provider[q] = "zero", alone[q],
                        pc'[q] = "upsert", at[q] \notin torn
                 PROVE  ~RealIn(chunks'[at[q]])
    BY DEF NothingReal, RealIn
  <2>2. q # p /\ pc[q] = "upsert"
    BY <1>1, <2>1
  <2>3. ~RealIn(chunks[at[q]])
    BY <2>1, <2>2 DEF IInv, NothingReal
  <2>4. at[q] \in File /\ at[q] # at[p]
    BY <1>3, <2>1, <2>2 DEF Working
  <2>5. QED
    BY <1>1, <2>3, <2>4
<1>6. IndexedAsHashed'
  <2>1. SUFFICES ASSUME NEW f \in File \ torn, ~InHand(f)'
                 PROVE  Clean(f)'
    BY DEF IndexedAsHashed, Clean, Models
  <2>2. f # at[p]
    BY <1>1, <2>1 DEF InHand
  <2>3. ~InHand(f)
    BY <1>1, <2>1, <2>2 DEF InHand
  <2>4. Clean(f)
    BY <2>1, <2>3 DEF IInv, IndexedAsHashed, Clean, Models
  <2>5. hash'[f] = hash[f] /\ chunks'[f] = chunks[f]
    BY <1>1, <2>1, <2>2
  <2>6. QED
    BY <2>4, <2>5 DEF Clean
<1>7. QED
  BY <1>2, <1>4, <1>5, <1>6

\* The chunks are stored: the row is complete if the ingest was alone.
LEMMA StoresRow ==
    ASSUME ConstantsAssumption, TypeOK, IInv, NEW p \in Ingests, Store(p)
    PROVE  Exclusive' /\ OwnRow' /\ NothingReal' /\ IndexedAsHashed'
<1>1. /\ pc[p] = "store" /\ at[p] \in File /\ UNCHANGED hash
      /\ Provider[p] \in Models /\ seen[p][at[p]] \in Contents
      /\ torn' = IF alone[p] THEN torn \ {at[p]} ELSE torn \cup {at[p]}
      /\ \A f \in File \ {at[p]} : chunks'[f] = chunks[f]
  BY DEF Store, TypeOK, Working, Models, ConstantsAssumption
<1>2. NextFile(p) \/ Ends(p)
  BY DEF Store, Counted
<1>3. /\ pc'[p] \in {"idle", "check"}
      /\ \A q \in Ingests \ {p} : /\ at'[q] = at[q] /\ alone'[q] = alone[q]
                                 /\ pc'[q] = pc[q]
  BY <1>2 DEF TypeOK, NextFile, Ends, Goes
<1>4. \A q \in Ingests \ {p} : seen'[q] = seen[q]
  BY DEF Store, Counted, Ends, TypeOK
<1>5. ASSUME NEW q \in Ingests \ {p}, pc[q] \in Working, alone[q] \/ alone[p]
      PROVE  at[q] \in File /\ at[q] # at[p]
  BY <1>1, <1>5 DEF IInv, Exclusive, TypeOK, Working
<1>6. Exclusive'
  BY <1>3 DEF IInv, Exclusive, Working
<1>7. OwnRow'
  <2>1. SUFFICES ASSUME NEW q \in Ingests, alone'[q], pc'[q] \in {"clear", "store"}
                 PROVE  hash'[at'[q]] = seen'[q][at'[q]] /\ chunks'[at'[q]] = {}
    BY DEF OwnRow
  <2>2. q # p /\ pc[q] \in {"clear", "store"} /\ alone[q]
    BY <1>3, <2>1
  <2>3. at[q] \in File /\ at[q] # at[p]
    BY <1>5, <2>2 DEF Working
  <2>4. hash[at[q]] = seen[q][at[q]] /\ chunks[at[q]] = {}
    BY <2>2 DEF IInv, OwnRow
  <2>5. QED
    BY <1>1, <1>3, <1>4, <2>2, <2>3, <2>4
<1>8. NothingReal'
  <2>1. SUFFICES ASSUME NEW q \in Ingests, Provider[q] = "zero", alone'[q],
                        pc'[q] = "upsert", at'[q] \notin torn'
                 PROVE  ~RealIn(chunks'[at'[q]])
    BY DEF NothingReal, RealIn
  <2>2. q # p /\ pc[q] = "upsert" /\ alone[q] /\ at'[q] = at[q]
    BY <1>3, <2>1
  <2>3. at[q] \in File /\ at[q] # at[p]
    BY <1>5, <2>2 DEF Working
  <2>4. ~RealIn(chunks[at[q]])
    BY <1>1, <2>1, <2>2, <2>3 DEF IInv, NothingReal
  <2>5. QED
    BY <1>1, <2>2, <2>3, <2>4
<1>9. IndexedAsHashed'
  <2>1. SUFFICES ASSUME NEW f \in File \ torn', ~InHand(f)'
                 PROVE  Clean(f)'
    BY DEF IndexedAsHashed, Clean, Models
  <2>2. CASE f = at[p]
    <3>1. alone[p]
      BY <1>1, <2>1, <2>2
    <3>2. hash[f] = seen[p][f] /\ chunks[f] = {}
      BY <1>1, <2>2, <3>1 DEF IInv, OwnRow
    <3>3. CASE seen[p][f] \in Blank
      <4>1. chunks' = chunks
        BY <2>2, <3>3 DEF Store
      <4>2. QED
        BY <1>1, <3>2, <3>3, <4>1 DEF Clean
    <3>4. CASE seen[p][f] \notin Blank
      <4>1. PICK new \in Insert(chunks[f], seen[p][f], Provider[p]) :
               chunks' = [chunks EXCEPT ![f] = new]
        BY <2>2, <3>4 DEF Store
      <4>2. new = {[of |-> seen[p][f], model |-> Provider[p]]}
        BY <3>2, <4>1 DEF Insert
      <4>3. chunks'[f] = new
        BY <2>1, <4>1 DEF TypeOK
      <4>4. hash'[f] = seen[p][f] /\ hash'[f] \notin Blank \cup {Missing}
        BY <1>1, <2>2, <3>2, <3>4 DEF ConstantsAssumption
      <4>5. QED
        BY <1>1, <4>2, <4>3, <4>4 DEF Clean
    <3>5. QED
      BY <3>3, <3>4
  <2>3. CASE f # at[p]
    <3>1. ~InHand(f) /\ f \in File \ torn
      BY <1>1, <1>3, <2>1, <2>3 DEF InHand
    <3>2. Clean(f)
      BY <3>1 DEF IInv, IndexedAsHashed, Clean, Models
    <3>3. QED
      BY <1>1, <2>3, <3>1, <3>2 DEF Clean
  <2>4. QED
    BY <2>2, <2>3
<1>10. QED
  BY <1>6, <1>7, <1>8, <1>9

-----------------------------------------------------------------------------
(* The steps that only look, and all of them together. *)

\* A file is taken up: its other ingests are not alone any more.
LEMMA TakesUp ==
    ASSUME ConstantsAssumption, TypeOK, IInv, NEW p \in Ingests, Changed(p)
    PROVE  Exclusive' /\ OwnRow' /\ NothingReal' /\ IndexedAsHashed'
<1>1. /\ pc[p] = "check" /\ pc'[p] \in {"model", "upsert"} /\ at[p] \in File
      /\ Provider[p] = "zero" => pc'[p] = "model"
      /\ \A q \in Ingests \ {p} : pc'[q] = pc[q]
      /\ UNCHANGED <<hash, chunks, at, seen, torn>>
      /\ alone'[p] <=> Others(p, at[p]) = {}
      /\ \A q \in Ingests \ {p} : alone'[q] <=> alone[q] /\ q \notin Others(p, at[p])
  BY DEF Changed, Goes, TypeOK, tables
<1>2. Exclusive'
  <2>1. SUFFICES ASSUME NEW q \in Ingests, NEW r \in Ingests, q # r, pc'[q] \in Working,
                        pc'[r] \in Working, at[q] = at[r], alone'[q]
                 PROVE  FALSE
    BY <1>1 DEF Exclusive
  <2>2. CASE q = p
    BY <1>1, <2>1, <2>2 DEF Others
  <2>3. CASE r = p
    BY <1>1, <2>1, <2>3 DEF Others
  <2>4. CASE q # p /\ r # p
    BY <1>1, <2>1, <2>4 DEF IInv, Exclusive
  <2>5. QED
    BY <2>2, <2>3, <2>4
<1>3. OwnRow'
  BY <1>1 DEF IInv, OwnRow
<1>4. NothingReal'
  BY <1>1 DEF IInv, NothingReal, RealIn
<1>5. IndexedAsHashed'
  <2>1. \A f \in File \ torn' : InHand(f) => InHand(f)'
    BY <1>1 DEF InHand
  <2>2. QED
    BY <1>1, <2>1, RowsKept DEF IInv
<1>6. QED
  BY <1>2, <1>3, <1>4, <1>5

\* The check of the stored model passes: no chunk of a whole row is real.
LEMMA ModelPasses ==
    ASSUME ConstantsAssumption, TypeOK, IInv, NEW p \in Ingests,
           CheckModel(p), Goes(p, "upsert"), UNCHANGED <<at, alone>>,
           chunks[at[p]] = {} \/ \E g \in chunks[at[p]] : g.model # "real"
    PROVE  Exclusive' /\ OwnRow' /\ NothingReal' /\ IndexedAsHashed'
<1>1. /\ pc[p] = "model" /\ pc'[p] = "upsert" /\ at[p] \in File
      /\ \A q \in Ingests \ {p} : pc'[q] = pc[q]
      /\ UNCHANGED <<hash, chunks, seen, torn, at, alone>>
  BY DEF CheckModel, Goes, TypeOK, Working, tables
<1>2. Exclusive'
  BY <1>1 DEF IInv, Exclusive, Working
<1>3. OwnRow'
  BY <1>1 DEF IInv, OwnRow
<1>4. ASSUME alone[p], at[p] \notin torn
      PROVE  ~RealIn(chunks[at[p]])
  <2>1. ~InHand(at[p])
    BY <1>1, <1>4 DEF IInv, Exclusive, InHand, Working
  <2>2. Clean(at[p])
    BY <1>1, <1>4, <2>1 DEF IInv, IndexedAsHashed, Clean, Models
  <2>3. chunks[at[p]] = {} \/ \E g : chunks[at[p]] = {g} /\ g.model # "real"
    BY <2>2 DEF Clean
  <2>4. QED
    BY <2>3 DEF RealIn
<1>5. NothingReal'
  <2>1. SUFFICES ASSUME NEW q \in Ingests, Provider[q] = "zero", alone[q],
                        pc'[q] = "upsert", at[q] \notin torn
                 PROVE  ~RealIn(chunks[at[q]])
    BY <1>1 DEF NothingReal, RealIn
  <2>2. CASE q = p
    BY <1>4, <2>1, <2>2
  <2>3. CASE q # p
    BY <1>1, <2>1, <2>3 DEF IInv, NothingReal
  <2>4. QED
    BY <2>2, <2>3
<1>6. IndexedAsHashed'
  <2>1. \A f \in File \ torn' : InHand(f) => InHand(f)'
    BY <1>1 DEF InHand
  <2>2. QED
    BY <1>1, <2>1, RowsKept DEF IInv
<1>7. QED
  BY <1>2, <1>3, <1>5, <1>6

\* Steps that touch neither the rows nor the place of an ingest at a file.
LEMMA Elsewhere ==
    ASSUME IInv, UNCHANGED <<hash, chunks, at, alone, torn>>,
           \A q \in Ingests : pc'[q] = pc[q] \/ {pc[q], pc'[q]} \subseteq {"idle", "check"},
           \A q \in Ingests : pc[q] \in Working => seen'[q] = seen[q]
    PROVE  Exclusive' /\ OwnRow' /\ NothingReal' /\ IndexedAsHashed'
<1>1. \A q \in Ingests : pc[q] \in Working \/ pc'[q] \in Working => pc'[q] = pc[q]
  BY DEF Working
<1>2. Exclusive'
  BY <1>1 DEF IInv, Exclusive
<1>3. OwnRow'
  BY <1>1 DEF IInv, OwnRow, Working
<1>4. NothingReal'
  BY <1>1 DEF IInv, NothingReal, RealIn, Working
<1>5. \A f \in File \ torn' : InHand(f) => InHand(f)'
  BY <1>1 DEF InHand, Working
<1>6. QED
  BY <1>2, <1>3, <1>4, <1>5, RowsKept DEF IInv

LEMMA IInvStep ==
    ASSUME ConstantsAssumption, IInv, [Next]_vars
    PROVE  IInv'
<1>0. TypeOK /\ Progress
  BY DEF IInv
<1>t. TypeOK' /\ Progress'
  BY <1>0, TypeStep
<1>1. ASSUME NEW p \in Ingests, Start(p)
      PROVE  Exclusive' /\ OwnRow' /\ NothingReal' /\ IndexedAsHashed'
  <2>1. /\ UNCHANGED <<hash, chunks, at, alone, torn>>
        /\ \A q \in Ingests : pc'[q] = pc[q] \/ {pc[q], pc'[q]} \subseteq {"idle", "check"}
        /\ \A q \in Ingests : pc[q] \in Working => seen'[q] = seen[q]
    BY <1>0, <1>1 DEF Start, Goes, TypeOK, tables, Working
  <2>2. QED
    BY <2>1, Elsewhere
<1>2. ASSUME NEW p \in Ingests, Skip(p)
      PROVE  Exclusive' /\ OwnRow' /\ NothingReal' /\ IndexedAsHashed'
  BY <1>0, <1>2, LeavesFile DEF Skip, tables
<1>3. ASSUME NEW p \in Ingests, Changed(p)
      PROVE  Exclusive' /\ OwnRow' /\ NothingReal' /\ IndexedAsHashed'
  BY <1>0, <1>3, TakesUp
<1>4. ASSUME NEW p \in Ingests, CheckModel(p)
      PROVE  Exclusive' /\ OwnRow' /\ NothingReal' /\ IndexedAsHashed'
  <2>1. CASE NextFile(p)
    BY <1>0, <1>4, <2>1, LeavesFile DEF CheckModel, tables
  <2>2. CASE ~NextFile(p)
    BY <1>0, <1>4, <2>2, ModelPasses DEF CheckModel
  <2>3. QED
    BY <2>1, <2>2
<1>5. ASSUME NEW p \in Ingests, Upsert(p)
      PROVE  Exclusive' /\ OwnRow' /\ NothingReal' /\ IndexedAsHashed'
  <2>1. at[p] \in File
    BY <1>0, <1>5 DEF Upsert, TypeOK, Working
  <2>2. /\ hash'[at[p]] = seen[p][at[p]]
        /\ \A f \in File \ {at[p]} : hash'[f] = hash[f]
    BY <1>0, <1>5, <2>1 DEF Upsert, TypeOK
  <2>3. QED
    BY <1>0, <1>5, <2>2, ClearsRow DEF Upsert
<1>6. ASSUME NEW p \in Ingests, Clear(p)
      PROVE  Exclusive' /\ OwnRow' /\ NothingReal' /\ IndexedAsHashed'
  <2>1. alone[p] => hash'[at[p]] = seen[p][at[p]]
    BY <1>6 DEF Clear, IInv, OwnRow
  <2>2. QED
    BY <1>0, <1>6, <2>1, ClearsRow DEF Clear
<1>7. ASSUME NEW p \in Ingests, Store(p)
      PROVE  Exclusive' /\ OwnRow' /\ NothingReal' /\ IndexedAsHashed'
  BY <1>0, <1>7, StoresRow
<1>8. ASSUME NEW p \in Ingests, Finish(p)
      PROVE  Exclusive' /\ OwnRow' /\ NothingReal' /\ IndexedAsHashed'
  <2>1. \A q \in Ingests \ {p} : seen'[q] = seen[q]
    BY <1>0, <1>8 DEF Finish, Ends, TypeOK
  <2>2. QED
    BY <1>0, <1>8, <2>1, LeavesFile DEF Finish, tables
<1>9. ASSUME NEW p \in Ingests, Interrupted(p)
      PROVE  Exclusive' /\ OwnRow' /\ NothingReal' /\ IndexedAsHashed'
  <2>1. \A q \in Ingests \ {p} : seen'[q] = seen[q]
    BY <1>0, <1>9 DEF Interrupted, Ends, TypeOK
  <2>2. QED
    BY <1>0, <1>9, <2>1, LeavesFile DEF Interrupted, tables
<1>10. ASSUME NEW f \in File, Edit(f)
       PROVE  Exclusive' /\ OwnRow' /\ NothingReal' /\ IndexedAsHashed'
  BY <1>10, Elsewhere DEF Edit, tables, locals
<1>11. ASSUME UNCHANGED vars
       PROVE  Exclusive' /\ OwnRow' /\ NothingReal' /\ IndexedAsHashed'
  BY <1>11, Elsewhere DEF vars, tables, locals
<1>12. QED
  BY <1>t, <1>1, <1>2, <1>3, <1>4, <1>5, <1>6, <1>7, <1>8, <1>9, <1>10, <1>11
     DEF Next, Continue, IInv

LEMMA IInvInit == ConstantsAssumption /\ Init => IInv
<1>1. SUFFICES ASSUME ConstantsAssumption, Init
               PROVE  IInv
  OBVIOUS
<1>2. TypeOK /\ Progress
  BY <1>1 DEF Init, TypeOK, Progress, ConstantsAssumption, Working, File, Group
<1>3. Exclusive /\ OwnRow /\ NothingReal /\ IndexedAsHashed
  BY <1>1 DEF Init, Exclusive, OwnRow, NothingReal, IndexedAsHashed, Working
<1>4. QED
  BY <1>2, <1>3 DEF IInv

\* The inductive invariant holds throughout.
LEMMA Invariant == Spec => []IInv
  BY IInvInit, IInvStep, ConstantsAssumption, PTL DEF Spec

-----------------------------------------------------------------------------
(* Results. *)

\* The tables and the locals of the ingests have their types.
THEOREM TypeCorrect == Spec => []TypeOK
<1>1. IInv => TypeOK
  BY DEF IInv
<1>2. QED
  BY <1>1, Invariant, PTL

\* A document at rest has the chunks of the content its hash stands for, unless its
\* last ingest was interrupted or not alone (rag/ingest/index.py:80-106).
THEOREM RowsMatchHashes == Spec => []IndexedAsHashed
<1>1. IInv => IndexedAsHashed
  BY DEF IInv
<1>2. QED
  BY <1>1, Invariant, PTL

\* A zero-vector ingest that is alone at a whole document does not remove real
\* embeddings (rag/ingest/index.py:60-69).
THEOREM RealEmbeddingsKept == Spec => RealOutlivesZero
<1> DEFINE Kept ==
        \A p \in Ingests, f \in File :
            Provider[p] = "zero" /\ pc'[p] # pc[p] /\ RealIn(chunks[f]) /\ ~RealIn(chunks'[f])
            => ~alone[p] \/ f \in torn
<1>1. ASSUME IInv, [Next]_vars
      PROVE  Kept
  <2>1. SUFFICES ASSUME NEW p \in Ingests, NEW f \in File, Provider[p] = "zero",
                        pc'[p] # pc[p], RealIn(chunks[f]), ~RealIn(chunks'[f]),
                        alone[p], f \notin torn
                 PROVE  FALSE
    OBVIOUS
  <2>2. chunks' # chunks
    BY <2>1
  <2>3. Upsert(p) \/ Clear(p) \/ Store(p)
    <3>1. ASSUME NEW q \in Ingests, Start(q) \/ Continue(q) \/ Interrupted(q)
          PROVE  q = p
      BY <1>1, <2>1, <3>1 DEF IInv, TypeOK, Start, Continue, Interrupted, Skip, Changed,
         CheckModel, Upsert, Clear, Store, Finish, Counted, NextFile, Ends, Goes
    <3>2. QED
      BY <1>1, <2>1, <2>2, <3>1 DEF Next, Continue, Start, Interrupted, Skip, Changed,
         CheckModel, Finish, Edit, vars, tables, locals
  <2>4. f = at[p] /\ at[p] \in File
    BY <1>1, <2>1, <2>3 DEF IInv, TypeOK, Upsert, Clear, Store, Working
  <2>5. CASE Upsert(p)
    BY <1>1, <2>1, <2>4, <2>5 DEF IInv, NothingReal, Upsert
  <2>6. CASE Clear(p) \/ Store(p)
    BY <1>1, <2>1, <2>4, <2>6 DEF IInv, OwnRow, RealIn, Clear, Store
  <2>7. QED
    BY <2>3, <2>5, <2>6
<1>2. QED
  BY <1>1, Invariant, PTL DEF Spec, RealOutlivesZero

-----------------------------------------------------------------------------
(* How long an ingest can last: what EveryFileIngested needs beside fairness. *)

\* What the files behind the one an ingest is at can still take.
Behind(p) == 5 * (Files - at[p])

\* The most steps an ingest can still take: five for each file, and one to finish.
StepsLeft(p) ==
    CASE pc[p] = "check"  -> Behind(p) + 6
      [] pc[p] = "model"  -> Behind(p) + 5
      [] pc[p] = "upsert" -> Behind(p) + 4
      [] pc[p] = "clear"  -> Behind(p) + 3
      [] pc[p] = "store"  -> Behind(p) + 2
      [] OTHER            -> 0

\* Each step of an ingest brings it nearer to its end, and nothing that other ingests
\* do to the tables, no change of a file and no interruption takes it back: only a
\* new start does (rag/ingest/index.py:45-125).
StepsBounded ==
    [][\A p \in Ingests :
          /\ Start(p) \/ StepsLeft(p)' <= StepsLeft(p)
          /\ Continue(p) => StepsLeft(p)' < StepsLeft(p)]_vars

\* What is left is a number, which the places of an ingest determine.
LEMMA LeftIsNumber ==
    ASSUME IInv, NEW p \in Ingests
    PROVE  /\ StepsLeft(p) \in 0..5 * Files + 1
           /\ Behind(p) \in Int /\ Behind(p) >= -5
           /\ pc[p] \in Working => Behind(p) >= 0
           /\ pc[p] # "idle" => StepsLeft(p) > 0
<1>1. /\ Files \in Nat /\ at[p] \in 1..Files + 1
      /\ pc[p] \in {"idle", "check", "model", "upsert", "clear", "store"}
      /\ pc[p] \in Working => at[p] \in 1..Files
  BY ConstantsAssumption DEF ConstantsAssumption, IInv, TypeOK, Working, File
<1>2. Behind(p) \in Int /\ Behind(p) >= -5 /\ Behind(p) <= 5 * Files - 5
      /\ (pc[p] \in Working => Behind(p) >= 0)
  BY <1>1 DEF Behind
<1> HIDE DEF Behind
<1> QED BY <1>1, <1>2 DEF StepsLeft, Working

\* It is one after a step, too.
LEMMA LeftIsNumberThen ==
    /\ IInv => \A p \in Ingests : StepsLeft(p) \in Nat
    /\ (IInv => \A p \in Ingests : StepsLeft(p) \in Nat)'
<1>1. IInv => \A p \in Ingests : StepsLeft(p) \in Nat
  <2>1. \A n \in 0..5 * Files + 1 : n \in Nat
    OBVIOUS
  <2> QED BY <2>1, LeftIsNumber
<1> QED BY <1>1, PTL

\* An ingest that goes on takes one of its steps.
LEMMA ContinueShrinks ==
    ASSUME IInv, NEW p \in Ingests, Continue(p)
    PROVE  StepsLeft(p)' < StepsLeft(p)
<1>1. /\ Files \in Nat /\ at[p] \in 1..Files + 1
      /\ pc \in [Ingests -> {"idle", "check"} \cup Working] /\ at \in [Ingests -> 1..Files + 1]
  BY ConstantsAssumption DEF ConstantsAssumption, IInv, TypeOK
<1>2. Behind(p) \in Int /\ Behind(p) >= -5 /\ (pc[p] \in Working => Behind(p) >= 0)
      /\ (pc[p] # "idle" => StepsLeft(p) > 0)
  BY LeftIsNumber
<1>3. at'[p] = at[p] => Behind(p)' = Behind(p)
  BY DEF Behind
<1>4. at'[p] = at[p] + 1 => Behind(p)' = Behind(p) - 5
  BY <1>1 DEF Behind
<1> HIDE DEF Behind
<1> USE DEF Working
<1>5. ASSUME NextFile(p), pc[p] # "idle" PROVE StepsLeft(p)' = Behind(p) + 1
  BY <1>1, <1>2, <1>4, <1>5 DEF NextFile, Goes, StepsLeft
<1>6. ASSUME Ends(p) PROVE StepsLeft(p)' = 0
  BY <1>1, <1>6 DEF Ends, Goes, StepsLeft
<1>7. CASE Skip(p)
  BY <1>2, <1>5, <1>7 DEF Skip, StepsLeft
<1>8. CASE Changed(p)
  <2>1. pc[p] = "check" /\ pc'[p] \in {"model", "upsert"} /\ at'[p] = at[p]
    BY <1>1, <1>8 DEF Changed, Goes
  <2> QED BY <1>2, <1>3, <2>1 DEF StepsLeft
<1>9. CASE CheckModel(p)
  <2>1. CASE NextFile(p)
    BY <1>2, <1>5, <1>9, <2>1 DEF CheckModel, StepsLeft
  <2>2. CASE Goes(p, "upsert") /\ at' = at
    BY <1>1, <1>2, <1>3, <1>9, <2>2 DEF CheckModel, Goes, StepsLeft
  <2> QED BY <1>9, <2>1, <2>2 DEF CheckModel
<1>10. CASE Upsert(p)
  BY <1>1, <1>2, <1>3, <1>10 DEF Upsert, Goes, StepsLeft
<1>11. CASE Clear(p)
  BY <1>1, <1>2, <1>3, <1>11 DEF Clear, Goes, StepsLeft
<1>12. CASE Store(p)
  <2>1. pc[p] = "store" /\ (NextFile(p) \/ Ends(p))
    BY <1>12 DEF Store, Counted
  <2> QED BY <1>2, <1>5, <1>6, <2>1 DEF StepsLeft
<1>13. CASE Finish(p)
  BY <1>2, <1>6, <1>13 DEF Finish
<1> QED BY <1>7, <1>8, <1>9, <1>10, <1>11, <1>12, <1>13 DEF Continue

\* A step that leaves an ingest where it is leaves it its steps.
LEMMA SamePlace ==
    ASSUME NEW p \in Ingests, pc'[p] = pc[p], at'[p] = at[p]
    PROVE  StepsLeft(p)' = StepsLeft(p)
<1>1. Behind(p)' = Behind(p)
  BY DEF Behind
<1> HIDE DEF Behind
<1> QED BY <1>1 DEF StepsLeft

\* Whatever else is done to its files and to the tables, an ingest gets nearer to its
\* end with each of its steps.
THEOREM IngestsBounded == Spec => StepsBounded
<1>1. ASSUME IInv, IInv', [Next]_vars, NEW p \in Ingests
      PROVE  /\ Start(p) \/ StepsLeft(p)' <= StepsLeft(p)
             /\ Continue(p) => StepsLeft(p)' < StepsLeft(p)
  <2>1. StepsLeft(p) \in Nat /\ StepsLeft(p)' \in Nat
    BY <1>1, LeftIsNumberThen
  <2>2. CASE Continue(p)
    <3>1. StepsLeft(p)' < StepsLeft(p)
      BY <1>1, <2>2, ContinueShrinks
    <3> QED BY <2>1, <3>1
  <2>3. CASE Interrupted(p)
    <3>1. StepsLeft(p)' = 0
      BY <1>1, <2>3 DEF Interrupted, Ends, Goes, StepsLeft, IInv, TypeOK
    <3>2. Continue(p) => StepsLeft(p)' < StepsLeft(p)
      BY <1>1, ContinueShrinks
    <3> QED BY <2>1, <3>1, <3>2
  <2>4. ASSUME NEW q \in Ingests \ {p}, Start(q) \/ Continue(q) \/ Interrupted(q)
        PROVE  pc'[p] = pc[p] /\ at'[p] = at[p]
    BY <1>1, <2>4
       DEF Start, Continue, Interrupted, Skip, Changed, CheckModel, Upsert, Clear, Store,
           Finish, Counted, NextFile, Ends, Goes, IInv, TypeOK
  <2>5. CASE ~Continue(p) /\ pc'[p] = pc[p] /\ at'[p] = at[p]
    BY <1>1, <2>1, <2>5, SamePlace
  <2>6. CASE Start(p) /\ ~Continue(p)
    BY <2>6
  <2>7. CASE (\E f \in File : Edit(f)) \/ UNCHANGED vars
    BY <2>2, <2>5, <2>7 DEF Edit, vars, locals
  <2> QED BY <1>1, <2>2, <2>3, <2>4, <2>5, <2>6, <2>7 DEF Next
<1>2. IInv /\ IInv' /\ [Next]_vars
        => [\A p \in Ingests :
              /\ Start(p) \/ StepsLeft(p)' <= StepsLeft(p)
              /\ Continue(p) => StepsLeft(p)' < StepsLeft(p)]_vars
  BY <1>1
<1> QED BY <1>2, Invariant, PTL DEF Spec, StepsBounded

\* The bound at the start of an ingest, and at every place of it.
THEOREM BoundOfAnIngest == Spec => [](\A p \in Ingests : StepsLeft(p) \in 0..5 * Files + 1)
<1>1. IInv => \A p \in Ingests : StepsLeft(p) \in 0..5 * Files + 1
  BY LeftIsNumber
<1> QED BY <1>1, Invariant, PTL
=============================================================================
