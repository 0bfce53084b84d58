------------------------------- MODULE Mirrors --------------------------------
(***************************************************************************)
(* What the frontend's two copies of what the engine has, of a scan        *)
(* (ScanMirror) and of pointer chains (PointerMirror), have in common.     *)
(***************************************************************************)
EXTENDS Order, Sequences, SequencesExt

CONSTANTS PageSize,  \* most results, or chains, in one answer
          None

ASSUME PageAssumption == PageSize \in Nat \ {0}

VARIABLES alive,     \* the engine process is there
          attached,  \* the engine's target: whether it has one, or which one
          shown,     \* what the frontend takes that to be
          list       \* the frontend's list of results, or of chains
=============================================================================
