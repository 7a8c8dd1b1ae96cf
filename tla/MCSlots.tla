------------------------------ MODULE MCSlots ------------------------------
(* Instance of Slots for TLC; liveness is checked without symmetry. *)
EXTENDS Slots
=============================================================================
