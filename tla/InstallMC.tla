----------------------------- MODULE InstallMC ------------------------------
(* Small instance of Install: every kind of build after every other, each with *)
(* at most one operation that fails, and killed anywhere.                      *)
EXTENDS Install
=============================================================================
