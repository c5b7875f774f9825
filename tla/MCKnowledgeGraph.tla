-------------------------- MODULE MCKnowledgeGraph --------------------------
(* Knowledge graph run: a sequence with a cue, a world, a tool that affects  *)
(* cues and sequences, one that may change anything, and two skills.        *)
EXTENDS KnowledgeGraph, TLC

CONSTANTS k1, k2

MCObjects == {"s1", "c1", "w1"}
MCType == [s1 |-> "sequence", c1 |-> "cue", w1 |-> "world"]
MCOwner == [c1 |-> "s1"]
MCTools == {"store_current_cue", "label_object"}
MCImpact == [store_current_cue |-> {"cue", "sequence"}, label_object |-> {}]
MCMcpNodes == {"tool", "resource"}
MCMcpEdges == {<<"resource", "tool">>}
\* Bound: commits, changes and faults together.
FewEvents == writes + changes + faults <= 3

SkillSymmetry == Permutations(Skills)
=============================================================================
