-------------------------- MODULE MCProgramBuilds --------------------------
(***************************************************************************)
(* The build store on small instances.  Requests, switches and rows are    *)
(* interchangeable; builds are too, but the runs keep them apart so that a *)
(* trace names the older one first.                                        *)
(***************************************************************************)
EXTENDS ProgramBuilds, TLC

Symmetry == Permutations(Requests) \cup Permutations(Switches) \cup Permutations(Rows)
=============================================================================
