---------------------------- MODULE VulkanDispatchMC ----------------------------
(* Values of the constants of VulkanDispatch for TLC. *)
EXTENDS VulkanDispatch

CONSTANTS c1, c2, w1, a1

OneCmdBuf == {c1}
TwoCmdBufs == {c1, c2}
OneCompiler == {w1}
OneAllocator == {a1}
NoRing == {FALSE}
Ring == {TRUE}
Booleans == BOOLEAN
=============================================================================
