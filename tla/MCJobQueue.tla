----------------------------- MODULE MCJobQueue -----------------------------
(* One knowledge base with one file.                                       *)
EXTENDS JobQueue, TLC

CONSTANTS j1, j2, f1, kb1

MCJobs2 == {j1, j2}
MCFiles == {f1}
MCKnowledgeBases == {kb1}
MCHome == f1 :> kb1

JobSymmetry == Permutations(Jobs)
=============================================================================
