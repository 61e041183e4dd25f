----------------------------- MODULE CtrlQueueMC -----------------------------
(* Values of the constants of CtrlQueue for TLC. *)
EXTENDS CtrlQueue, TLC

CONSTANTS t1, t2, r1, r2, p1, p2

MCThreads == {t1, t2}
MCReqAddrs == {r1, r2}
MCRespAddrs == {p1, p2}

\* Threads and addresses are interchangeable.
Symmetry == Permutations(MCThreads) \cup Permutations(MCReqAddrs)
              \cup Permutations(MCRespAddrs)
=============================================================================
