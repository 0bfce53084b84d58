---------------------------- MODULE EngineLinkMC ----------------------------
(***************************************************************************)
(* The instances of EngineLink that TLC checks: two processes to attach to *)
(* and two engines, so that a worker outlives the frontend's first call.   *)
(***************************************************************************)
EXTENDS EngineLink
=============================================================================
