--------------------------- MODULE MCConnections ---------------------------
(***************************************************************************)
(* A Tofino and a BMv2 switch, and requests that run at the same time.     *)
(***************************************************************************)
EXTENDS Connections, TLC

CONSTANTS tofino, bmv2

Symmetry == Permutations(Requests)
=============================================================================
