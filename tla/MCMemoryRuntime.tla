--------------------------- MODULE MCMemoryRuntime ---------------------------
(* Instances of MemoryRuntime for TLC. *)
EXTENDS MemoryRuntime, TLC

CONSTANTS c1, c2, u1, u2, o1, o2, a, b

MCCallers == Memories \cup Uses
MCResetters == Ops \cup {Host}
==============================================================================
