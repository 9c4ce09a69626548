------------------------------ MODULE MCRelayLife ------------------------------
(***************************************************************************)
(* RelayLife on a small instance: three runs, two of which come to have    *)
(* the same name.                                                          *)
(***************************************************************************)
EXTENDS RelayLife, TLC

CONSTANTS r1, r2, r3, s1, s2

MCRuns  == {r1, r2, r3}
MCPaths == {s1, s2}
MCNames == (r1 :> s1) @@ (r2 :> s1) @@ (r3 :> s2)
=============================================================================
