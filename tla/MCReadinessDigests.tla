-------------------------- MODULE MCReadinessDigests --------------------------
(***************************************************************************)
(* A batch of two Stories for ReadinessDigests.  Which definition is called  *)
(* v1, and which body b1, does not matter.                                  *)
(***************************************************************************)
EXTENDS ReadinessInvariant, TLC

CONSTANTS first, second

MCStoryOrder == <<first, second>>
MCOneStory   == <<first>>

Symmetry == Permutations(Runs) \cup Permutations(Versions) \cup Permutations(Bodies)
=============================================================================
