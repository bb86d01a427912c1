--------------------------- MODULE MCFaultDetector ---------------------------
(* A server that fails, and another one, whose echoes count.                *)
EXTENDS FaultDetector

CONSTANTS leader, a

MCPeer == {leader}
MCOther == {a}
MCSlot == {1}
=============================================================================
