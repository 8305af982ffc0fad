------------------------- MODULE MCTemporalHardening -------------------------
(* The registries of MCTemporal, given to the hardening checker. *)
EXTENDS TemporalHardening, MCTemporal
==============================================================================
