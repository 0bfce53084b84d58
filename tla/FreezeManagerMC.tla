---------------------------- MODULE FreezeManagerMC ----------------------------
(***************************************************************************)
(* The instance of FreezeManager that TLC checks: two callers, two         *)
(* processes, two cells and two values to hold them at, and an interval    *)
(* longer than a batch of two writes takes.                                *)
(***************************************************************************)
EXTENDS FreezeManager
=============================================================================
