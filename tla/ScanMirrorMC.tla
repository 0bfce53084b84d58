---------------------------- MODULE ScanMirrorMC ----------------------------
(***************************************************************************)
(* The instance of ScanMirror that TLC checks: five candidates of two      *)
(* types, more than a list can hold, and lists of up to two full pages.    *)
(***************************************************************************)
EXTENDS ScanMirror

MCTypes == {"int", "float"}
MCTypeOf == <<"int", "float", "int", "float", "int">>
=============================================================================
