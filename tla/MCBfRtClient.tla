---------------------------- MODULE MCBfRtClient ----------------------------
(***************************************************************************)
(* Two programs that emit three digests, one of them too large to be kept; *)
(* the buffer holds two of the smallest, or one of the next.               *)
(***************************************************************************)
EXTENDS BfRtClient

CONSTANTS d1, d2, d3, p1, p2

MCSizeOf == [d \in Digests |-> CASE d = d1 -> 1 [] d = d2 -> 2 [] d = d3 -> 3]
=============================================================================
