-------------------------------- MODULE Tools --------------------------------
(***************************************************************************)
(* The three tools of an engine session (src/src/EngineSession.cpp): the   *)
(* scan for values, the search for a byte pattern and the search for       *)
(* pointers.  A request goes to one of them and they share no state but    *)
(* the process, so a behaviour is one tool at work while the target runs.  *)
(***************************************************************************)
EXTENDS MemoryScan, AobScan, PointerSearch

CONSTANTS Memories,   \* what the target's memory may be at first
          Gaps,       \* and which of its pages are out of reach
          Beginnings  \* where a pointer search may begin: slots, base, saved, scans, writes, losses

ASSUME TargetBeginnings ==
    Memories # {} /\ Memories \subseteq [Addresses -> 0 .. (Base - 1)] /\ Gaps \subseteq SUBSET Pages
ASSUME PointerBeginnings ==
    \A b \in Beginnings : /\ b.slots \in [Slots -> PointerValues] /\ b.base \in Slots
                          /\ {b.scans, b.writes, b.losses} \subseteq Nat
                          /\ \A m \in b.saved : TrueMap(m)

VARIABLE tool

vars == <<tool, target, scanVars, aobVars, searchVars>>

Init ==
    /\ tool \in {"values", "pattern", "pointers"}
    /\ IF tool = "pointers" THEN memory = CHOOSE m \in Memories : TRUE ELSE memory \in Memories
    /\ IF tool = "pointers" THEN lost = {} ELSE lost \in Gaps
    /\ partial = (lost # {})
    /\ changes = 0
    /\ ScanInit
    /\ AobInit /\ (tool # "pattern" => module = Nothing)
    /\ \E b \in Beginnings :
          /\ slots = b.slots /\ base = b.base /\ saved = b.saved
          /\ scans = b.scans /\ writes = b.writes /\ losses = b.losses
          /\ tool # "pointers" => b = CHOOSE x \in Beginnings : TRUE
    /\ PointerInit

Next ==
    /\ UNCHANGED tool
    /\ \/ tool = "values" /\ ScanNext /\ UNCHANGED <<aobVars, searchVars>>
       \/ tool = "pattern" /\ AobNext /\ UNCHANGED <<scanVars, searchVars>>
       \/ tool = "pointers" /\ PointerNext /\ UNCHANGED <<target, scanVars, aobVars>>

Spec == Init /\ [][Next]_vars

-----------------------------------------------------------------------------
(* Every variable stays within its type and every list within its limit. *)
TypeOK ==
    /\ memory \in [Addresses -> 0 .. (Base - 1)] /\ lost \subseteq Pages /\ partial \in BOOLEAN
    /\ ScanTypeOK /\ AobTypeOK /\ PointerTypeOK

(* A scan for values, its refinements and a search for a pattern find what is there to   *)
(* find, all of it and nothing else, across the borders of chunks and pages, whichever   *)
(* pages cannot be read and whatever else the target changes; see ScanExact, AobExact.   *)
FindsExactly == ScanExact /\ AobExact
=============================================================================
