---------------------------- MODULE VulkanMemoryMC ----------------------------
(* Values of the constants of VulkanMemory for TLC. *)
EXTENDS VulkanMemory, TLC

CONSTANTS t1, t2

MCThreads == {t1, t2}

\* Threads are interchangeable.
Symmetry == Permutations(MCThreads)
=============================================================================
