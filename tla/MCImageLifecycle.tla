--------------------------- MODULE MCImageLifecycle ---------------------------
(***************************************************************************)
(* ImageLifecycle on a small instance: two processes and two contents, so  *)
(* that every tag can be built from the wrong one.                         *)
(***************************************************************************)
EXTENDS ImageLifecycle, TLC

CONSTANTS p1, p2, a, b

Two == {p1, p2}
AB  == {a, b}
BothSymmetries == Permutations(Runs) \cup Permutations(AB)

\* No fault; and the faults the records survive, then those the claims do.
NoFaults   == {{}}
FaultPlans == {{"cli", "unread", "slow"}, {"cli", "builders", "aba", "kill", "state"}}
=============================================================================
