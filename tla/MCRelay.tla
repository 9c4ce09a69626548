------------------------------- MODULE MCRelay -------------------------------
(***************************************************************************)
(* Relay on a small instance: two connections for one slot, a first line   *)
(* of two units and two more after it, two answers of herdr's.             *)
(***************************************************************************)
EXTENDS Relay

CONSTANTS c1, c2

Two == {c1, c2}
=============================================================================
