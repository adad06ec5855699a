------------------------------- MODULE MCFleet -------------------------------
(* Two workers that share two streams. *)
EXTENDS Fleet
=============================================================================
