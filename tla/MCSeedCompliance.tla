-------------------------- MODULE MCSeedCompliance --------------------------
(* Model values for TLC runs of SeedCompliance. *)
EXTENDS SeedCompliance

CONSTANTS receiver, victim

TwoUsers == {receiver, victim}
=============================================================================
