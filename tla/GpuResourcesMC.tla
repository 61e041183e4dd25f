---------------------------- MODULE GpuResourcesMC ----------------------------
(* Values of the constants of GpuResources for TLC. *)
EXTENDS GpuResources, TLC

CONSTANTS b1, b2

MCBlobs == {b1, b2}
MCSizes == {1, 3, 7}

\* Blob objects are interchangeable.
Symmetry == Permutations(MCBlobs)
=============================================================================
