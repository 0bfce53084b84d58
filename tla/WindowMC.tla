------------------------------ MODULE WindowMC ------------------------------
(***************************************************************************)
(* The instance of Window that TLC checks: two processes, in which the two *)
(* chains lead to the same address, to two addresses, or nowhere.          *)
(***************************************************************************)
EXTENDS Window

MCProcesses == {"game", "other"}
MCAddresses == 1..2
MCChains == 1..2
MCResolves == [p \in MCProcesses |->
                 IF p = "game" THEN <<1, 2>> ELSE <<1, None>>]
=============================================================================
