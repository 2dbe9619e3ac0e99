---------------------------- MODULE MCFileVectors ---------------------------
EXTENDS FileVectors, TLC

(* Jobs, settings and chunks are compared, never ordered.                  *)
Symmetry == Permutations(Runs) \union Permutations(Settings) \union Permutations(Chunks)
=============================================================================
