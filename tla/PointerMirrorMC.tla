-------------------------- MODULE PointerMirrorMC --------------------------
(***************************************************************************)
(* The instance of PointerMirror that TLC checks: three chains, which take *)
(* two pages, in a 64-bit process, in that process started again, and in a *)
(* 32-bit one.  In one layout of each two chains agree, on the lower or on *)
(* the higher of two addresses; in the other some lead nowhere.            *)
(***************************************************************************)
EXTENDS PointerMirror

MCTargets == {"game", "again", "narrow"}
MCWidth == [p \in MCTargets |-> IF p = "narrow" THEN 4 ELSE 8]
MCLayouts == {"settled", "leaving"}
MCChains == 1..3
MCAddressIn ==
    [x \in MCTargets \X MCLayouts \X MCChains |->
        IF x[2] = "leaving" /\ x[3] # 1 THEN None
        ELSE (CASE x[1] = "game" -> 10 [] x[1] = "again" -> 20 [] OTHER -> 30) + (IF x[3] = 3 \/ (x[3] = 2 /\ x[1] = "again") THEN 1 ELSE 0)]
=============================================================================
