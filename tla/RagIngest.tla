------------------------------ MODULE RagIngest ------------------------------
(***************************************************************************)
(* Ingests into the RAG store (rag/ingest/index.py, rag/store/sqlite.py):  *)
(* processes that crawl the repository and bring one SQLite file up to     *)
(* date, document by document, in commits that others can interleave with  *)
(* and that an exception or the death of the process can fall between.     *)
(*                                                                         *)
(* A hash is the content it is the hash of.  The chunks of a document are  *)
(* grouped by the content they were cut from, as each group is stored in   *)
(* one transaction.                                                        *)
(***************************************************************************)
EXTENDS Naturals, FiniteSets

CONSTANTS
    Ingests,    \* processes that ingest, again and again
    Provider,   \* of each: "real", "zero" (ZeroVectorProvider) or "none"
    MaxNew,     \* of each: max_new, 0 for no limit
    Files,      \* number of files, which are crawled in this order
    Contents,   \* what a file may contain
    Blank,      \* the contents that give no chunks
    Missing,    \* no row in documents
    MaxEdits, MaxFaults     \* bounds: changes of files, interruptions

ASSUME ConstantsAssumption ==
    /\ Provider \in [Ingests -> {"real", "zero", "none"}]
    /\ MaxNew \in [Ingests -> Nat]
    /\ Files \in Nat
    /\ Blank \subseteq Contents /\ Missing \notin Contents
    /\ MaxEdits \in Nat /\ MaxFaults \in Nat

VARIABLES
    disk,       \* content of each file of the repository
    hash,       \* documents.file_hash of each file
    chunks,     \* groups of chunks of each document: [of, model]
    pc, at,     \* place of each ingest, and the file it is at
    seen,       \* contents its crawl has read
    processed,  \* its files_processed
    edits, faults,
    alone,      \* ghost: no other ingest has been at the same file
    torn        \* ghost: files whose last ingest was interrupted or not alone

tables == <<hash, chunks>>
locals == <<pc, at, seen, processed>>
vars == <<disk, tables, locals, edits, faults, alone, torn>>

File == 1..Files
Group == [of : Contents, model : {"real", "zero", "none"}]
Working == {"model", "upsert", "clear", "store"}

\* Type correctness of the tables and of the locals of the ingests.
TypeOK ==
    /\ disk \in [File -> Contents]
    /\ hash \in [File -> Contents \cup {Missing}]
    /\ chunks \in [File -> SUBSET Group]
    /\ pc \in [Ingests -> {"idle", "check"} \cup Working]
    /\ at \in [Ingests -> 1..Files + 1]
    /\ \A p \in Ingests : pc[p] \in Working => at[p] \in File
    /\ seen \in [Ingests -> [File -> Contents \cup {Missing}]]
    /\ \A p \in Ingests : pc[p] # "idle" => seen[p] \in [File -> Contents]
    /\ processed \in [Ingests -> 0..Files]
    /\ edits \in 0..MaxEdits /\ faults \in 0..MaxFaults
    /\ alone \in [Ingests -> BOOLEAN]
    /\ torn \subseteq File

Init ==
    /\ disk \in [File -> Contents]
    /\ hash = [f \in File |-> Missing]
    /\ chunks = [f \in File |-> {}]
    /\ pc = [p \in Ingests |-> "idle"]
    /\ at = [p \in Ingests |-> 1]
    /\ seen = [p \in Ingests |-> [f \in File |-> Missing]]
    /\ processed = [p \in Ingests |-> 0]
    /\ edits = 0 /\ faults = 0
    /\ alone = [p \in Ingests |-> TRUE]
    /\ torn = {}

-----------------------------------------------------------------------------

Goes(p, place) == pc' = [pc EXCEPT ![p] = place]

\* The loop goes on with the next file.
NextFile(p) ==
    /\ Goes(p, "check")
    /\ at' = [at EXCEPT ![p] = @ + 1]
    /\ alone' = [alone EXCEPT ![p] = TRUE]

\* The ingest is over: its locals are gone.
Ends(p) ==
    /\ Goes(p, "idle")
    /\ at' = [at EXCEPT ![p] = 1]
    /\ alone' = [alone EXCEPT ![p] = TRUE]
    /\ seen' = [seen EXCEPT ![p] = [f \in File |-> Missing]]
    /\ processed' = [processed EXCEPT ![p] = 0]

\* crawl_repo reads every file before the first one is considered.
Start(p) ==
    /\ pc[p] = "idle"
    /\ Goes(p, "check")
    /\ seen' = [seen EXCEPT ![p] = disk]
    /\ UNCHANGED <<disk, tables, at, processed, edits, faults, alone, torn>>

\* The other ingests that are at file f, past the check of its hash.
Others(p, f) == {q \in Ingests \ {p} : pc[q] \in Working /\ at[q] = f}

\* Counts the file; after one with chunks the batch may be full.
Counted(p, checked) ==
    IF checked /\ MaxNew[p] # 0 /\ processed[p] + 1 >= MaxNew[p]
    THEN Ends(p)
    ELSE /\ NextFile(p)
         /\ processed' = [processed EXCEPT ![p] = @ + 1]
         /\ UNCHANGED seen

\* Mutant: files that are skipped count as processed.
SkipCounting(p) ==
    /\ pc[p] = "check" /\ at[p] \in File
    /\ hash[at[p]] = seen[p][at[p]]
    /\ Counted(p, TRUE)
    /\ UNCHANGED <<disk, tables, edits, faults, torn>>

\* The stored hash is that of the file: unchanged.
Skip(p) ==
    /\ pc[p] = "check" /\ at[p] \in File
    /\ hash[at[p]] = seen[p][at[p]]
    /\ NextFile(p)
    /\ UNCHANGED <<disk, tables, seen, processed, edits, faults, torn>>

\* The stored hash differs, or there is none.
Changed(p) ==
    /\ pc[p] = "check" /\ at[p] \in File
    /\ hash[at[p]] # seen[p][at[p]]
    /\ Goes(p, IF Provider[p] = "zero" THEN "model" ELSE "upsert")
    /\ LET others == Others(p, at[p])
       IN alone' = [q \in Ingests |-> IF q = p THEN others = {}
                                      ELSE alone[q] /\ q \notin others]
    /\ UNCHANGED <<disk, tables, at, seen, processed, edits, faults, torn>>

\* Mutant: the model of the stored chunks is not asked for.
CheckModelNever(p) ==
    /\ pc[p] = "model"
    /\ Goes(p, "upsert") /\ UNCHANGED <<at, alone>>
    /\ UNCHANGED <<disk, tables, seen, processed, edits, faults, torn>>

\* "Never overwrite real embeddings with zero vectors": any stored chunk is asked
\* for its model.
CheckModel(p) ==
    /\ pc[p] = "model"
    /\ \/ /\ \E g \in chunks[at[p]] : g.model = "real"
          /\ NextFile(p)
       \/ /\ chunks[at[p]] = {} \/ \E g \in chunks[at[p]] : g.model # "real"
          /\ Goes(p, "upsert") /\ UNCHANGED <<at, alone>>
    /\ UNCHANGED <<disk, tables, seen, processed, edits, faults, torn>>

\* upsert_document: INSERT OR REPLACE, which deletes the chunks of a row it
\* replaces (ON DELETE CASCADE).
Upsert(p) ==
    /\ pc[p] = "upsert"
    /\ hash' = [hash EXCEPT ![at[p]] = seen[p][at[p]]]
    /\ chunks' = [chunks EXCEPT ![at[p]] = {}]
    /\ Goes(p, "clear")
    /\ UNCHANGED <<disk, at, seen, processed, edits, faults, alone, torn>>

\* delete_chunks_for_doc
Clear(p) ==
    /\ pc[p] = "clear"
    /\ chunks' = [chunks EXCEPT ![at[p]] = {}]
    /\ Goes(p, "store")
    /\ UNCHANGED <<disk, hash, at, seen, processed, edits, faults, alone, torn>>

\* upsert_chunks: the id of a chunk is made of the document and its lines, so that
\* chunks of another content are replaced where they have the same lines.
Insert(groups, c, m) ==
    {kept \cup {[of |-> c, model |-> m]} : kept \in SUBSET {g \in groups : g.of # c}}

\* Mutant: the chunks are cut from the file as it is by then.
StoreFromDisk(p) ==
    /\ pc[p] = "store"
    /\ LET f == at[p] IN
          /\ IF disk[f] \in Blank
             THEN UNCHANGED chunks /\ Counted(p, FALSE)
             ELSE /\ \E new \in Insert(chunks[f], disk[f], Provider[p]) :
                        chunks' = [chunks EXCEPT ![f] = new]
                  /\ Counted(p, TRUE)
          /\ torn' = IF alone[p] THEN torn \ {f} ELSE torn \cup {f}
    /\ UNCHANGED <<disk, hash, edits, faults>>

\* The file is chunked and embedded, and its chunks are stored; a file without
\* chunks goes on to the next file at once.
Store(p) ==
    /\ pc[p] = "store"
    /\ LET f == at[p] IN
          /\ IF seen[p][f] \in Blank
             THEN UNCHANGED chunks /\ Counted(p, FALSE)
             ELSE /\ \E new \in Insert(chunks[f], seen[p][f], Provider[p]) :
                        chunks' = [chunks EXCEPT ![f] = new]
                  /\ Counted(p, TRUE)
          /\ torn' = IF alone[p] THEN torn \ {f} ELSE torn \cup {f}
    /\ UNCHANGED <<disk, hash, edits, faults>>

Finish(p) ==
    /\ pc[p] = "check" /\ at[p] = Files + 1
    /\ Ends(p)
    /\ UNCHANGED <<disk, tables, edits, faults, torn>>

\* Chunking or embedding raises, the database stays locked, or the process dies:
\* what has been committed stays, and nothing else of the ingest does.
Interrupted(p) ==
    /\ pc[p] # "idle" /\ faults < MaxFaults
    /\ faults' = faults + 1
    /\ Ends(p)
    /\ torn' = IF pc[p] \in {"clear", "store"} THEN torn \cup {at[p]} ELSE torn
    /\ UNCHANGED <<disk, tables, edits>>

\* Somebody changes a file.
Edit(f) ==
    /\ edits < MaxEdits
    /\ edits' = edits + 1
    /\ \E c \in Contents \ {disk[f]} : disk' = [disk EXCEPT ![f] = c]
    /\ UNCHANGED <<tables, locals, faults, alone, torn>>

Continue(p) ==
    \/ Skip(p) \/ Changed(p) \/ CheckModel(p)
    \/ Upsert(p) \/ Clear(p) \/ Store(p) \/ Finish(p)

Next ==
    \/ \E p \in Ingests : Start(p) \/ Continue(p) \/ Interrupted(p)
    \/ \E f \in File : Edit(f)

Spec == Init /\ [][Next]_vars

\* A process that runs goes on, and ingests are run again ("Re-run to continue").
FairSpec == Spec /\ \A p \in Ingests : WF_vars(Start(p) \/ Continue(p))

-----------------------------------------------------------------------------
(* Properties. *)

InHand(f) == \E p \in Ingests : pc[p] \in {"clear", "store"} /\ at[p] = f

\* Unless an ingest has it in hand, a document has exactly the chunks of the content
\* its hash stands for, in one model, and none if that content gives none.  The
\* exceptions are files whose last ingest was interrupted, or overlapped
\* another ingest of the same file (rag/ingest/index.py:80-106); the next ingest of
\* a changed content repairs them.
IndexedAsHashed ==
    \A f \in File \ torn : ~InHand(f) =>
        IF hash[f] \in Blank \cup {Missing}
        THEN chunks[f] = {}
        ELSE \E m \in {"real", "zero", "none"} :
                chunks[f] = {[of |-> hash[f], model |-> m]}

RealIn(groups) == \E g \in groups : g.model = "real"

\* Real embeddings are lost to a zero-vector ingest only if another ingest was at
\* the same file between its check and its commit, or the file is still torn
\* (rag/ingest/index.py:60-69).
RealOutlivesZero ==
    [][\A p \in Ingests, f \in File :
          Provider[p] = "zero" /\ pc'[p] # pc[p] /\ RealIn(chunks[f]) /\ ~RealIn(chunks'[f])
          => ~alone[p] \/ f \in torn]_vars

\* Once the repository and the faults are at rest, batches of any size bring the
\* hash of every file up to date (rag/ingest/index.py:112-114).
EveryFileIngested == \A f \in File : <>[](hash[f] = disk[f])
=============================================================================
