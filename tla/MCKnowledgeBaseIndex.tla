------------------------ MODULE MCKnowledgeBaseIndex ------------------------
EXTENDS KnowledgeBaseIndex, TLC

(* Names are drawn and compared, never ordered.                            *)
Symmetry == Permutations(Names)
=============================================================================
