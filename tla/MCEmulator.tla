----------------------------- MODULE MCEmulator -----------------------------
(***************************************************************************)
(* The emulator on a small instance: two topologies, one terminal each,    *)
(* two users, three operations, two remembered deployments.                *)
(***************************************************************************)
EXTENDS Emulator
=============================================================================
