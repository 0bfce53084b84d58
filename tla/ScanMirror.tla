----------------------------- MODULE ScanMirror -----------------------------
(***************************************************************************)
(* The candidates of a scan, twice: in the engine (MemoryScanner behind    *)
(* the handlers of src/src/EngineMain.cpp) and in the frontend, whose      *)
(* EngineClientScanner (src/src/EngineFrontend.cpp) keeps a mirror of the  *)
(* engine's summary and fetches the result list page by page.              *)
(*                                                                         *)
(* The frontend has one thread, and a request is handled between its       *)
(* sending and its answer, so a request and its answer are one step.  The  *)
(* engine may die before each one; then every request fails, and the open  *)
(* pipe handle does not tell (EngineLink has the pipe itself).  What a     *)
(* scan finds is arbitrary.  Candidates are numbered in result order,      *)
(* which is by address, then type.  The commands are those of              *)
(* src/src/main.cpp, the only program that has this frontend; what its     *)
(* scan-save writes is one file, which may be from an earlier session.     *)
(*                                                                         *)
(* A name that PointerMirror has too begins with Scan here.                *)
(***************************************************************************)
EXTENDS Mirrors

CONSTANTS Types,
          TypeOf,      \* the type of each candidate
          MaxResults,  \* kMaxResults: the longest materialized list
          MaxRestore   \* the longest list a RestoreScan request may carry

ASSUME ScanBounds == {MaxResults, MaxRestore} \subseteq Nat
ASSUME TypeOfAssumption == TypeOf \in Seq(Types)

VARIABLES file,      \* what scan-save wrote last; None for no file or a broken one
          scan,      \* MemoryScanner: None without a scan
          mirror,    \* EngineClientScanner, but for its list, results_, which is list
          loaded,    \* resultsLoaded_
          pc,        \* "idle", or fetching the list
          then       \* what the fetch is for

scanEngineVars == <<alive, attached, scan>>
scanVars == <<file, shown, scanEngineVars, mirror, list, loaded, pc, then>>

Cells == DOMAIN TypeOf
Scan == [mixed : BOOLEAN, snapshot : BOOLEAN, found : SUBSET Cells]
Mirror == [hasScan : BOOLEAN, mixed : BOOLEAN, snapshot : BOOLEAN, count : Nat, byType : [Types -> Nat]]

ASSUME NoneIsNoScan == None \notin Scan

SavedScan == [mixed : BOOLEAN, results : Seq(Cells)]

CountByType(S) == [t \in Types |-> Cardinality({c \in S : TypeOf[c] = t})]

\* results(): a snapshot has candidates but no list yet.
Results == IF scan = None \/ scan.snapshot THEN <<>> ELSE Ordered(scan.found)

Blank == [hasScan |-> FALSE, mixed |-> FALSE, snapshot |-> FALSE, count |-> 0,
          byType |-> CountByType({})]

\* resetStateLocal
Reset == mirror' = Blank /\ list' = <<>> /\ loaded' = TRUE

-----------------------------------------------------------------------------
(* The engine's side of the requests.                                      *)

OneType(S) == \A c, d \in S : TypeOf[c] = TypeOf[d]

\* A first scan: an exact one has a list, cut at MaxResults; an unknown one a snapshot;
\* a typed one looks at one type; no text that fits a type, or no room, leaves no scan.
FirstScans ==
    {None} \cup
    {s \in Scan : (s.mixed \/ OneType(s.found)) /\
                  (s.snapshot \/ Cardinality(s.found) <= MaxResults)}

\* A refinement keeps some of the candidates; one of a snapshot makes the list as soon as
\* it fits, unless memory runs out, or loses everything with the snapshot file.
Refinements ==
    LET kept == SUBSET scan.found IN
    IF scan.snapshot
    THEN {None} \cup {[scan EXCEPT !.found = S] : S \in kept} \cup
         {[scan EXCEPT !.found = S, !.snapshot = FALSE] :
              S \in {K \in kept : Cardinality(K) <= MaxResults}}
    ELSE {[scan EXCEPT !.found = S] : S \in kept}

WithoutType(t) == {c \in scan.found : TypeOf[c] # t}

\* handleNewScan, where there is an engine to hear of it.
HandleNewScan == scan' = IF alive THEN None ELSE scan

HandleFirstScan ==
    /\ alive /\ attached
    /\ scan' \in FirstScans
    /\ UNCHANGED <<shown, alive, attached>>

\* A value that is none, as the largest float is when it has been formatted: handleFirstScan
\* looks at it when the scan is cleared already.
HandleFirstScanRejects ==
    /\ alive /\ attached
    /\ scan' = None
    /\ UNCHANGED <<shown, alive, attached>>

HandleNextScan ==
    /\ alive /\ attached /\ scan # None
    /\ scan' \in Refinements
    /\ UNCHANGED <<shown, alive, attached>>

\* handleGetScanResults: a page from the offset on, which may lie behind the end.
HandleGetScanResults(offset) ==
    LET total == Len(Results)
        from  == Min({offset, total})
    IN  [total |-> total, page |-> SubSeq(Results, from + 1, Min({from + PageSize, total}))]

\* handleDisableMixedType
HandleDisableMixedType(t) ==
    /\ alive /\ scan # None /\ scan.mixed
    /\ scan' = [scan EXCEPT !.found = WithoutType(t)]
    /\ UNCHANGED <<shown, alive, attached>>

-----------------------------------------------------------------------------
(* The frontend.                                                           *)

ScanIdle == pc = "idle" /\ UNCHANGED <<pc, then, file>>

\* Mutant: the candidate count of the summary is that of the last first scan.
SummaryKeepsCount(s, resultCount) ==
    /\ mirror' = IF s = None THEN Blank
                 ELSE [hasScan |-> TRUE, mixed |-> s.mixed, snapshot |-> s.snapshot,
                       count |-> IF mirror.hasScan THEN mirror.count ELSE Cardinality(s.found),
                       byType |-> CountByType(s.found)]
    /\ list' = <<>>
    /\ loaded' = (resultCount = 0)

\* parseScanSummary: what the engine says of scan s, and the result count of the request,
\* which is zero for one the scanner refused.
Summary(s, resultCount) ==
    /\ mirror' = IF s = None THEN Blank
                 ELSE [hasScan |-> TRUE, mixed |-> s.mixed, snapshot |-> s.snapshot,
                       count |-> Cardinality(s.found), byType |-> CountByType(s.found)]
    /\ list' = <<>>
    /\ loaded' = (resultCount = 0)

CountOf(s) == IF s = None THEN 0 ELSE Cardinality(s.found)

\* setOptions and clear: NewScan, then the reset, whether the engine is there or not.
Clear ==
    /\ ScanIdle
    /\ HandleNewScan
    /\ Reset
    /\ UNCHANGED <<shown, alive, attached>>

\* Mutant: the frontend keeps its summary over an attach.
ScanAttachKeepsMirror ==
    /\ ScanIdle
    /\ alive
    /\ attached' \in BOOLEAN
    /\ shown' = (shown \/ attached')
    /\ scan' = None
    /\ UNCHANGED <<alive, mirror, list, loaded>>

\* EngineFrontendSession::attach.  The engine lets go of its target and of the scan
\* before it opens the new one; the frontend hears only of success.
ScanAttach ==
    /\ ScanIdle
    /\ alive
    /\ attached' \in BOOLEAN
    /\ shown' = (shown \/ attached')
    /\ scan' = None
    /\ IF attached' THEN Reset ELSE UNCHANGED <<mirror, list, loaded>>
    /\ UNCHANGED alive

ScanDetach ==
    /\ ScanIdle
    /\ attached' = FALSE
    /\ shown' = (shown /\ ~alive)
    /\ scan' = IF alive THEN None ELSE scan
    /\ Reset
    /\ UNCHANGED alive

FirstScan ==
    /\ ScanIdle
    /\ HandleFirstScan
    /\ Summary(scan', CountOf(scan'))

\* An error frame is no summary.
FirstScanRejected ==
    /\ ScanIdle
    /\ HandleFirstScanRejects
    /\ UNCHANGED <<mirror, list, loaded>>

\* runNextScan asks for the counts by type first, which fetches the list.
NextScan ==
    /\ pc = "idle" /\ mirror.hasScan
    /\ pc' = IF loaded \/ mirror.snapshot THEN "refine" ELSE "fetching"
    /\ then' = "refine"
    /\ list' = IF pc' = "fetching" THEN <<>> ELSE list
    /\ UNCHANGED <<file, shown, scanEngineVars, mirror, loaded>>

\* After a refinement the counts by type are asked for again.
Refine ==
    /\ pc = "refine" /\ HandleNextScan
    /\ Summary(scan', CountOf(scan'))
    /\ LET fetch == ~loaded' /\ ~mirror'.snapshot IN
         /\ pc' = IF fetch THEN "fetching" ELSE "idle"
         /\ then' = "return"
    /\ UNCHANGED file

\* nextScanMixed with a text that fits no type: the scan stays, the statistics are blank.
RefineRefused ==
    /\ pc = "refine" /\ alive /\ attached /\ scan # None /\ scan.mixed
    /\ Summary(scan, 0)
    /\ pc' = "idle" /\ then' = "return"
    /\ UNCHANGED <<file, shown, scanEngineVars>>

\* An error frame, or no engine.
RefineFails ==
    /\ pc = "refine"
    /\ pc' = "idle" /\ then' = "return"
    /\ UNCHANGED <<file, shown, scanEngineVars, mirror, list, loaded>>

\* results(), and what reads the list, when it is not there yet.
FetchFor(purpose) ==
    /\ pc = "idle" /\ ~loaded
    /\ pc' = "fetching" /\ then' = purpose
    /\ list' = <<>>
    /\ UNCHANGED <<file, shown, scanEngineVars, mirror, loaded>>

\* saveScanSession: the file is opened, and emptied, and a write of it may fail.  The list is
\* what results() returned, which does not tell of a fetch that failed.
SaveScanSession(results) ==
    file' \in {file, None, [mixed |-> mirror.mixed, results |-> results]}

\* What waited for the list goes on.
EndFetch(results) ==
    /\ pc' = IF then = "refine" THEN "refine" ELSE "idle"
    /\ IF then = "save" THEN SaveScanSession(results) ELSE UNCHANGED file

\* Mutant: a page that reaches the last but one result is taken for the last page.
FetchPageStopsEarly ==
    /\ pc = "fetching" /\ alive
    /\ LET total == Len(Results)
           upTo  == Min({Len(list) + PageSize, total}) IN
         /\ list' = SubSeq(Results, 1, upTo)
         /\ IF upTo = Len(list) \/ upTo + 1 >= total
            THEN loaded' = TRUE /\ EndFetch(list')
            ELSE UNCHANGED <<loaded, pc, file>>
    /\ UNCHANGED <<shown, scanEngineVars, mirror, then>>

\* One round of fetchAllResults: the page at the current offset; the last is the one that
\* is empty or reaches the total.
ScanFetchPage ==
    /\ pc = "fetching" /\ alive
    /\ LET answer == HandleGetScanResults(Len(list)) IN
         /\ list' = list \o answer.page
         /\ IF answer.page = <<>> \/ Len(list') >= answer.total
            THEN loaded' = (Len(list') = answer.total) /\ EndFetch(list')
            ELSE UNCHANGED <<loaded, pc, file>>
    /\ UNCHANGED <<shown, scanEngineVars, mirror, then>>

ScanFetchFails ==
    /\ pc = "fetching" /\ ~alive
    /\ EndFetch(list)
    /\ UNCHANGED <<shown, scanEngineVars, mirror, list, loaded, then>>

\* Mutant: the list of before is still taken for the list.
DisableMixedTypeKeepsList(t) ==
    /\ ScanIdle
    /\ HandleDisableMixedType(t)
    /\ mirror' = [mirror EXCEPT !.count = Cardinality(scan'.found), !.byType = CountByType(scan'.found)]
    /\ UNCHANGED <<list, loaded>>

\* The counts of the answer replace the mirror's; the old list is to be fetched again.
DisableMixedType(t) ==
    /\ ScanIdle
    /\ HandleDisableMixedType(t)
    /\ mirror' = [mirror EXCEPT !.count = Cardinality(scan'.found), !.byType = CountByType(scan'.found)]
    /\ loaded' = FALSE
    /\ UNCHANGED list

\* handleRestoreScan and MemoryScanner::restoreMaterializedScan: the saved list becomes the
\* scan, whatever was there.
HandleRestoreScan(saved) ==
    /\ alive /\ attached
    /\ scan' = [mixed |-> saved.mixed, snapshot |-> FALSE, found |-> Range(saved.results)]
    /\ UNCHANGED <<shown, alive, attached>>

\* EngineClientScanner::restoreMaterializedScan; the counts by type stay those of before.
Restore(saved) ==
    /\ ScanIdle
    /\ Len(saved.results) <= MaxRestore
    /\ HandleRestoreScan(saved)
    /\ mirror' = [mirror EXCEPT !.hasScan = TRUE, !.mixed = saved.mixed, !.snapshot = FALSE,
                                !.count = Len(saved.results)]
    /\ list' = saved.results
    /\ loaded' = TRUE

-----------------------------------------------------------------------------
(* The commands, which look at the frontend's state before they call it.   *)

ScanCommand == shown /\ (FirstScan \/ FirstScanRejected)

NextCommand == shown /\ NextScan

TypesCommand(t) == mirror.hasScan /\ mirror.mixed /\ DisableMixedType(t)

ResultsCommand == mirror.hasScan /\ ~mirror.snapshot /\ FetchFor("return")

ScanSave ==
    /\ mirror.hasScan /\ ~mirror.snapshot
    /\ \/ FetchFor("save")
       \/ /\ pc = "idle" /\ loaded
          /\ SaveScanSession(list)
          /\ UNCHANGED <<shown, scanEngineVars, mirror, list, loaded, pc, then>>

\* loadScanSession: every check of a whole file succeeds, one of a broken file fails.
LoadScanSession == file # None

\* A file of another process is refused unless it is forced; a number stands for a candidate
\* of either, so the two differ in nothing here.
ScanLoad == shown /\ LoadScanSession /\ Restore(file)

-----------------------------------------------------------------------------
(* The rest of the world.                                                  *)

ScanEngineDies ==
    /\ alive
    /\ alive' = FALSE /\ attached' = FALSE /\ scan' = None
    /\ UNCHANGED <<file, shown, mirror, list, loaded, pc, then>>

\* EngineClient::start again.  Nothing tells the scanner's mirror.
ScanRestart ==
    /\ ScanIdle
    /\ alive' = TRUE /\ attached' = FALSE /\ shown' = FALSE /\ scan' = None
    /\ UNCHANGED <<mirror, list, loaded>>

-----------------------------------------------------------------------------
ScanInit ==
    /\ file = None /\ shown = FALSE
    /\ alive = TRUE /\ attached = FALSE /\ scan = None
    /\ mirror = Blank /\ list = <<>> /\ loaded = TRUE
    /\ pc = "idle" /\ then = "return"

ScanNext ==
    \/ Clear \/ ScanAttach \/ ScanDetach
    \/ ScanCommand
    \/ NextCommand \/ Refine \/ RefineRefused \/ RefineFails
    \/ ResultsCommand \/ ScanFetchPage \/ ScanFetchFails
    \/ \E t \in Types : TypesCommand(t)
    \/ ScanSave \/ ScanLoad
    \/ ScanEngineDies \/ ScanRestart

ScanSpec == ScanInit /\ [][ScanNext]_scanVars

-----------------------------------------------------------------------------
(* Properties.                                                             *)

(* Every variable stays within its type. *)
ScanTypeOK ==
    /\ file \in SavedScan \cup {None}
    /\ shown \in BOOLEAN /\ alive \in BOOLEAN /\ attached \in BOOLEAN
    /\ scan \in Scan \cup {None}
    /\ mirror \in Mirror
    /\ list \in Seq(Cells)
    /\ loaded \in BOOLEAN
    /\ pc \in {"idle", "refine", "fetching"}
    /\ then \in {"return", "refine", "save"}

(* While the engine has a scan, the frontend knows that scan, however it came about: *)
(* its kind, how many candidates it has and, for a snapshot, of which types.  (When  *)
(* the engine has none, the frontend may still believe in an old one.)               *)
SummaryAgrees ==
    scan # None =>
        /\ mirror.hasScan
        /\ mirror.mixed = scan.mixed /\ mirror.snapshot = scan.snapshot
        /\ mirror.count = Cardinality(scan.found)
        /\ scan.snapshot => mirror.byType = CountByType(scan.found)

(* While the engine has a scan, the list the frontend shows or is fetching begins as *)
(* the engine's: at position i is the candidate an index #i means to the engine.     *)
ListIsPrefix == scan # None /\ (loaded \/ pc = "fetching") => IsPrefix(list, Results)

(* A fetch that ends well has brought every result, the last page full or not. *)
FetchBringsAll ==
    [][pc = "fetching" /\ alive /\ pc' # "fetching" => loaded' /\ list' = Results]_scanVars

(* docs/ARCHITECTURE.md of a scan of unknown values: the first next creates the       *)
(* results and the raw snapshot is released.  Where that is for want of memory alone, *)
(* as the survivors would fit a list, the scan is excepted.                           *)
NextMaterializes ==
    [][scan # None /\ scan.snapshot /\ pc = "refine" /\ scan' # scan =>
         \/ scan' = None \/ ~scan'.snapshot
         \/ Cardinality(scan'.found) <= MaxResults]_scanVars

\* What the frontend shows can be gone on with.
ShownScanIsUsable == alive /\ attached /\ mirror.hasScan => scan # None

(* docs/ENGINE_ARCHITECTURE.md of partial work: it must not silently replace the scan *)
(* committed before.  A scan shown that can be gone on with stays so, through attach, *)
(* load, death and restart; only a first scan the engine refuses takes it away.       *)
OnlyRefusalLosesScan ==
    [][ShownScanIsUsable /\ ~ShownScanIsUsable' => FirstScanRejected]_scanVars
=============================================================================
