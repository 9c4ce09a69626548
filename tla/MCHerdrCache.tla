----------------------------- MODULE MCHerdrCache -----------------------------
(***************************************************************************)
(* HerdrCache with three processes and a binary that goes bad twice.       *)
(***************************************************************************)
EXTENDS HerdrCache, TLC

CONSTANTS r1, r2, r3

Three == {r1, r2, r3}
RunSymmetry == Permutations(Runs)
=============================================================================
