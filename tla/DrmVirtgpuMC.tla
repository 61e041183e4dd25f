----------------------------- MODULE DrmVirtgpuMC -----------------------------
(* Values of the constants of DrmVirtgpu for TLC. *)
EXTENDS DrmVirtgpu, TLC

CONSTANTS t1, t2

MCThreads == {t1, t2}

\* An object with a broken page and one of a whole Width.
MCSizes == {3, 8}

\* Threads are interchangeable.
Symmetry == Permutations(MCThreads)
=============================================================================
