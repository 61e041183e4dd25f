----------------------------- MODULE VenusQueryMC -----------------------------
(* Values of the constants of VenusQuery for TLC. *)
EXTENDS VenusQuery

CONSTANTS main, worker

MCThreads == {main, worker}
=============================================================================
