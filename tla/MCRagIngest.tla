---------------------------- MODULE MCRagIngest ----------------------------
(* The RagIngest run: a commit hook that ingests with zero vectors, and     *)
(* batches of one file with real embeddings.                                *)
EXTENDS RagIngest

CONSTANTS hook, batch, draft, text, blank

MCProvider == [p \in Ingests |-> IF p = hook THEN "zero" ELSE "real"]
MCMaxNew == [p \in Ingests |-> IF p = hook THEN 0 ELSE 1]
=============================================================================
