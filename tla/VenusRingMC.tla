----------------------------- MODULE VenusRingMC -----------------------------
(* Values of the constants of VenusRing for TLC. *)
EXTENDS VenusRing, TLC

CONSTANTS d1, d2

MCData == {d1, d2}
=============================================================================
