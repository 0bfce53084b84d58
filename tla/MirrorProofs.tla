----------------------------- MODULE MirrorProofs -----------------------------
(***************************************************************************)
(* What TLAPS proves about the frontend's copies of what the engine has.   *)
(*                                                                         *)
(* About ScanMirror, for any candidates, types, limits and page size: what *)
(* the frontend knows of a scan is so, its list means to the engine what   *)
(* it shows, and a fetch that ends has brought it all.                     *)
(*                                                                         *)
(* About PointerMirror, for any processes, widths, layouts, chains and     *)
(* page size: the frontend's chains are the engine's, no address shown was *)
(* read at the wrong width, a rescan drops only what it has read rightly,  *)
(* and a profile goes where most of its chains lead.                       *)
(***************************************************************************)
EXTENDS ScanMirror, PointerMirror, OrderProofs

\* The scan goes with the engine.
NoneWithoutEngine == ~ alive => scan = None

\* Lists are in the engine's order, the one in the file too.
ListsAscend == Increasing(list) /\ (file # None => Increasing(file.results))

\* Where there is no scan to list, the pages are empty.
NothingToFetch == pc = "fetching" /\ alive /\ scan = None => list = <<>>

ScanIInv ==
    /\ ScanTypeOK
    /\ NoneWithoutEngine
    /\ ListsAscend
    /\ NothingToFetch
    /\ SummaryAgrees
    /\ ListIsPrefix

-----------------------------------------------------------------------------
(* Facts about the operators.                                              *)

(* Any set of candidates is finite, can be counted by type and put in order. *)
LEMMA CandidatesAre ==
    ASSUME NEW S \in SUBSET Cells
    PROVE  /\ S \in SUBSET Nat /\ IsFiniteSet(S) /\ Cardinality(S) \in Nat
           /\ CountByType(S) \in [Types -> Nat]
           /\ Ordered(S) \in Seq(Cells) /\ Increasing(Ordered(S))
<1>1. Cells = 1..Len(TypeOf) /\ Len(TypeOf) \in Nat
  BY TypeOfAssumption DEF Cells
<1>2. IsFiniteSet(Cells)
  BY <1>1, FS_Interval
<1>3. \A T \in SUBSET Cells : IsFiniteSet(T) /\ Cardinality(T) \in Nat
  BY <1>2, FS_Subset, FS_CardinalityType
<1>4. CountByType(S) \in [Types -> Nat]
  <2>1. \A t \in Types : {c \in S : TypeOf[c] = t} \in SUBSET Cells
    OBVIOUS
  <2> QED
    BY <1>3, <2>1 DEF CountByType
<1>5. Ordered(S) \in Seq(S) /\ Increasing(Ordered(S))
  BY <1>1, <1>3, OrderedIs
<1>6. S \in SUBSET Nat
  BY <1>1
<1>7. Ordered(S) \in Seq(Cells)
  <2> DEFINE o == Ordered(S)
  <2>1. o \in Seq(S)
    BY <1>5
  <2> HIDE DEF o
  <2>2. o \in Seq(Cells)
    BY <2>1
  <2> QED
    BY <2>2 DEF o
<1> QED
  BY <1>3, <1>4, <1>5, <1>6, <1>7, Zenon

(* Without a scan the frontend has the empty summary. *)
LEMMA BlankIs == Blank \in Mirror
<1>1. CountByType({}) \in [Types -> Nat]
  BY CandidatesAre
<1> QED
  BY <1>1 DEF Blank, Mirror

(* The list of results, if there is one, is an ascending list of candidates. *)
LEMMA ResultsAre == ASSUME ScanTypeOK PROVE Results \in Seq(Cells) /\ Increasing(Results)
<1>1. <<>> \in Seq(Cells) /\ Increasing(<<>>)
  BY DEF Increasing
<1>2. CASE scan = None \/ scan.snapshot
  BY <1>1, <1>2 DEF Results
<1>3. CASE ~ (scan = None \/ scan.snapshot)
  <2>1. scan.found \in SUBSET Cells
    BY <1>3 DEF ScanTypeOK, Scan
  <2> QED
    BY <1>3, <2>1, CandidatesAre DEF Results
<1> QED
  BY <1>2, <1>3

(* The same after a step. *)
LEMMA ResultsNext == ScanTypeOK' => (Results \in Seq(Cells))' /\ Increasing(Results)'
<1>1. ScanTypeOK => Results \in Seq(Cells) /\ Increasing(Results)
  BY ResultsAre
<1> QED
  BY <1>1, PTL

(* A list that begins as an ascending one ascends. *)
LEMMA PrefixAscends ==
    ASSUME NEW s \in Seq(Cells), NEW t \in Seq(Cells), IsPrefix(s, t), Increasing(t)
    PROVE  Increasing(s)
<1>1. Len(s) <= Len(t) /\ \A i \in 1..Len(s) : s[i] = t[i]
  BY PrefixIs
<1> QED
  BY <1>1 DEF Increasing

(* A scan of type Scan, its summary, and what the frontend makes of it. *)
LEMMA SummaryIs ==
    ASSUME NEW s \in Scan \cup {None}, NEW n, Summary(s, n)
    PROVE  /\ mirror' \in Mirror /\ list' = <<>> /\ loaded' \in BOOLEAN
           /\ s # None => /\ mirror'.hasScan /\ mirror'.mixed = s.mixed
                          /\ mirror'.snapshot = s.snapshot
                          /\ mirror'.count = Cardinality(s.found)
                          /\ mirror'.byType = CountByType(s.found)
<1>1. list' = <<>> /\ loaded' \in BOOLEAN
  BY DEF Summary
<1>2. CASE s = None
  BY <1>1, <1>2, BlankIs DEF Summary
<1>3. CASE s # None
  <2>1. /\ s.mixed \in BOOLEAN /\ s.snapshot \in BOOLEAN
        /\ Cardinality(s.found) \in Nat /\ CountByType(s.found) \in [Types -> Nat]
    BY <1>3, CandidatesAre DEF Scan
  <2> QED
    BY <1>1, <1>3, <2>1 DEF Summary, Mirror
<1> QED
  BY <1>2, <1>3

(* What a refinement leaves is a scan, or none. *)
LEMMA RefinementsAre ==
    ASSUME scan \in Scan, NEW s \in Refinements
    PROVE  s \in Scan \cup {None}
<1>1. \A S \in SUBSET scan.found : /\ [scan EXCEPT !.found = S] \in Scan
                                   /\ [scan EXCEPT !.found = S, !.snapshot = FALSE] \in Scan
  BY DEF Scan
<1> QED
  BY <1>1 DEF Refinements

-----------------------------------------------------------------------------
(* The steps.                                                              *)

(* At the start there is no scan and no list. *)
LEMMA ScanInitially == ScanInit => ScanIInv
<1> SUFFICES ASSUME ScanInit PROVE ScanIInv
  OBVIOUS
<1>1. <<>> \in Seq(Cells) /\ Increasing(<<>>)
  BY DEF Increasing
<1>2. ScanTypeOK
  BY <1>1, BlankIs DEF ScanInit, ScanTypeOK
<1> QED
  BY <1>1, <1>2 DEF ScanInit, ScanIInv, NoneWithoutEngine, ListsAscend, NothingToFetch, SummaryAgrees, ListIsPrefix

(* A step after which the engine has no scan, and that fetches no list. *)
LEMMA NoScanKeeps ==
    ASSUME ScanIInv, scan' = None, pc' = "idle" \/ (~ alive' /\ pc' = pc),
           alive' \in BOOLEAN, attached' \in BOOLEAN, shown' \in BOOLEAN, UNCHANGED <<file, then>>,
           Reset \/ UNCHANGED <<mirror, list, loaded>>
    PROVE  ScanIInv'
<1>1. <<>> \in Seq(Cells) /\ Increasing(<<>>)
  BY DEF Increasing
<1>2. mirror' \in Mirror /\ list' \in Seq(Cells) /\ loaded' \in BOOLEAN /\ Increasing(list')
  BY <1>1, BlankIs DEF Reset, ScanIInv, ScanTypeOK, ListsAscend
<1>3. ScanTypeOK'
  BY <1>2 DEF ScanIInv, ScanTypeOK
<1>4. NoneWithoutEngine' /\ SummaryAgrees' /\ ListIsPrefix'
  BY DEF NoneWithoutEngine, SummaryAgrees, ListIsPrefix
<1>5. ListsAscend'
  BY <1>2 DEF ScanIInv, ListsAscend
<1>6. NothingToFetch'
  BY DEF NothingToFetch
<1> QED
  BY <1>3, <1>4, <1>5, <1>6 DEF ScanIInv

(* What leaves or loses the scan, at either side. *)
LEMMA LosersKeep ==
    ASSUME ScanIInv, Clear \/ ScanAttach \/ ScanDetach \/ FirstScanRejected \/ ScanEngineDies \/ ScanRestart
    PROVE  ScanIInv'
<1>1. shown \in BOOLEAN /\ alive \in BOOLEAN /\ attached \in BOOLEAN /\ (~ alive => scan = None)
  BY DEF ScanIInv, ScanTypeOK, NoneWithoutEngine
<1>2. CASE Clear
  BY <1>1, <1>2, NoScanKeeps DEF Clear, ScanIdle, HandleNewScan
<1>3. CASE ScanAttach
  BY <1>1, <1>3, NoScanKeeps DEF ScanAttach, ScanIdle
<1>4. CASE ScanDetach
  BY <1>1, <1>4, NoScanKeeps DEF ScanDetach, ScanIdle
<1>5. CASE FirstScanRejected
  BY <1>1, <1>5, NoScanKeeps DEF FirstScanRejected, HandleFirstScanRejects, ScanIdle
<1>6. CASE ScanEngineDies
  BY <1>1, <1>6, NoScanKeeps DEF ScanEngineDies
<1>7. CASE ScanRestart
  BY <1>1, <1>7, NoScanKeeps DEF ScanRestart, ScanIdle
<1> QED
  BY <1>2, <1>3, <1>4, <1>5, <1>6, <1>7

(* A step that leaves a scan, whose summary the frontend takes over. *)
LEMMA SummarizedKeeps ==
    ASSUME ScanIInv, alive, scan' \in Scan \cup {None}, NEW n, Summary(scan', n),
           UNCHANGED <<file, shown, alive, attached>>,
           pc' \in {"idle", "refine", "fetching"}, then' \in {"return", "refine", "save"}
    PROVE  ScanIInv'
<1>1. /\ mirror' \in Mirror /\ list' = <<>> /\ loaded' \in BOOLEAN
      /\ scan' # None => /\ mirror'.hasScan /\ mirror'.mixed = scan'.mixed
                         /\ mirror'.snapshot = scan'.snapshot
                         /\ mirror'.count = Cardinality(scan'.found)
                         /\ mirror'.byType = CountByType(scan'.found)
  BY SummaryIs
<1>2. <<>> \in Seq(Cells) /\ Increasing(<<>>)
  BY DEF Increasing
<1>3. ScanTypeOK'
  BY <1>1, <1>2 DEF ScanIInv, ScanTypeOK
<1>4. NoneWithoutEngine' /\ NothingToFetch' /\ SummaryAgrees'
  BY <1>1 DEF NoneWithoutEngine, NothingToFetch, SummaryAgrees
<1>5. ListsAscend'
  BY <1>1, <1>2 DEF ScanIInv, ListsAscend
<1>6. ListIsPrefix'
  <2>1. (Results \in Seq(Cells))'
    BY <1>3, ResultsNext
  <2>2. IsPrefix(<<>>, Results')
    BY <2>1, EmptyBegins
  <2> QED
    BY <1>1, <2>2 DEF ListIsPrefix
<1> QED
  BY <1>3, <1>4, <1>5, <1>6 DEF ScanIInv

(* A first scan and a refinement leave a scan whose summary the frontend takes over. *)
LEMMA FirstScanKeeps == ASSUME ScanIInv, FirstScan PROVE ScanIInv'
<1>1. scan' \in Scan \cup {None}
  BY DEF FirstScan, HandleFirstScan, FirstScans
<1>2. /\ alive /\ Summary(scan', CountOf(scan')) /\ pc' = pc /\ then' = then
      /\ UNCHANGED <<file, shown, alive, attached>>
  BY DEF FirstScan, HandleFirstScan, ScanIdle
<1> QED
  BY <1>1, <1>2, SummarizedKeeps DEF ScanIInv, ScanTypeOK

(* After a refinement the list is fetched, unless there is no list to fetch. *)
LEMMA RefineKeeps == ASSUME ScanIInv, Refine PROVE ScanIInv'
<1>1. scan \in Scan /\ scan' \in Refinements
  BY DEF Refine, HandleNextScan, ScanIInv, ScanTypeOK
<1>2. scan' \in Scan \cup {None}
  BY <1>1, RefinementsAre
<1>3. /\ alive /\ Summary(scan', CountOf(scan')) /\ pc' \in {"fetching", "idle"} /\ then' = "return"
      /\ UNCHANGED <<file, shown, alive, attached>>
  BY DEF Refine, HandleNextScan
<1> QED
  BY <1>2, <1>3, SummarizedKeeps

(* A refused refinement of mixed types leaves the scan, and the frontend an empty summary. *)
LEMMA RefineRefusedKeeps == ASSUME ScanIInv, RefineRefused PROVE ScanIInv'
<1>1. scan' = scan /\ scan \in Scan \cup {None}
  BY DEF RefineRefused, scanEngineVars, ScanIInv, ScanTypeOK
<1>2. /\ alive /\ Summary(scan', 0) /\ pc' = "idle" /\ then' = "return"
      /\ UNCHANGED <<file, shown, alive, attached>>
  BY <1>1 DEF RefineRefused, scanEngineVars
<1> QED
  BY <1>1, <1>2, SummarizedKeeps

(* The list is not touched, or emptied to be fetched. *)
LEMMA ScanBeginFetchKeeps ==
    ASSUME ScanIInv, UNCHANGED <<file, shown, scanEngineVars, mirror, loaded>>,
           then' \in {"return", "refine", "save"},
           \/ pc' = "fetching" /\ list' = <<>>
           \/ pc' \in {"idle", "refine"} /\ list' = list
    PROVE  ScanIInv'
<1>1. <<>> \in Seq(Cells) /\ Increasing(<<>>)
  BY DEF Increasing
<1>2. list' \in Seq(Cells) /\ Increasing(list')
  BY <1>1 DEF ScanIInv, ScanTypeOK, ListsAscend
<1>3. ScanTypeOK'
  BY <1>2 DEF ScanIInv, ScanTypeOK, scanEngineVars
<1>4. NoneWithoutEngine' /\ NothingToFetch' /\ SummaryAgrees' /\ ListsAscend'
  BY <1>2 DEF ScanIInv, NoneWithoutEngine, NothingToFetch, SummaryAgrees, ListsAscend, scanEngineVars
<1>5. ListIsPrefix'
  <2>1. Results' = Results /\ Results \in Seq(Cells)
    BY ResultsAre DEF Results, scanEngineVars, ScanIInv
  <2>2. IsPrefix(<<>>, Results)
    BY <2>1, EmptyBegins
  <2> QED
    BY <2>1, <2>2 DEF ScanIInv, ListIsPrefix, scanEngineVars
<1> QED
  BY <1>3, <1>4, <1>5 DEF ScanIInv

(* The commands that fetch, and a refinement that cannot be asked for. *)
LEMMA BeginnersKeep ==
    ASSUME ScanIInv, NextScan \/ RefineFails \/ FetchFor("return") \/ FetchFor("save")
    PROVE  ScanIInv'
<1>1. CASE NextScan
  <2>1. /\ then' = "refine" /\ UNCHANGED <<file, shown, scanEngineVars, mirror, loaded>>
        /\ \/ pc' = "fetching" /\ list' = <<>>
           \/ pc' = "refine" /\ list' = list
    BY <1>1 DEF NextScan
  <2> QED
    BY <2>1, ScanBeginFetchKeeps
<1>2. CASE RefineFails
  BY <1>2, ScanBeginFetchKeeps DEF RefineFails
<1>3. CASE FetchFor("return") \/ FetchFor("save")
  BY <1>3, ScanBeginFetchKeeps DEF FetchFor
<1> QED
  BY <1>1, <1>2, <1>3

(* What the file may be after scan-save: a list of candidates in order, or nothing. *)
LEMMA SavedAscends ==
    ASSUME ScanTypeOK, ListsAscend, NEW s \in Seq(Cells), Increasing(s),
           SaveScanSession(s) \/ UNCHANGED file
    PROVE  /\ file' \in SavedScan \cup {None}
           /\ file' # None => Increasing(file'.results)
<1>1. mirror.mixed \in BOOLEAN
  BY DEF ScanTypeOK, Mirror
<1> DEFINE saved == [mixed |-> mirror.mixed, results |-> s]
<1>2. saved \in SavedScan /\ saved.results = s
  BY <1>1 DEF SavedScan
<1>3. file' \in {file, None, saved}
  BY DEF SaveScanSession
<1> HIDE DEF saved
<1> QED
  BY <1>2, <1>3 DEF ScanTypeOK, ListsAscend

(* The list as fetched so far, whether or not there is a scan to list. *)
LEMMA FetchedSoFar == ASSUME ScanIInv, pc = "fetching", alive PROVE IsPrefix(list, Results)
<1>1. CASE scan = None
  <2>1. list = <<>> /\ Results \in Seq(Cells)
    BY <1>1, ResultsAre DEF ScanIInv, NothingToFetch
  <2> QED
    BY <2>1, EmptyBegins
<1>2. CASE scan # None
  BY <1>2 DEF ScanIInv, ListIsPrefix
<1> QED
  BY <1>1, <1>2

(* A page goes on with the list; a page that ends the fetch completes it. *)
LEMMA FetchPageDoes ==
    ASSUME ScanIInv, ScanFetchPage
    PROVE  /\ pc = "fetching" /\ list' \in Seq(Cells) /\ IsPrefix(list', Results) /\ loaded' \in BOOLEAN
           /\ \/ UNCHANGED <<loaded, pc, file>>
              \/ loaded' /\ list' = Results /\ EndFetch(list')
           /\ UNCHANGED <<shown, scanEngineVars, mirror, then>>
<1> DEFINE page == PageAt(Results, Len(list), PageSize)
<1>1. Results \in Seq(Cells) /\ list \in Seq(Cells) /\ PageSize \in Nat \ {0} /\ IsPrefix(list, Results)
  BY FetchedSoFar, ResultsAre, PageAssumption DEF ScanFetchPage, ScanIInv, ScanTypeOK
<1>2. /\ list \o page \in Seq(Cells) /\ IsPrefix(list \o page, Results)
      /\ page = <<>> => Len(list \o page) = Len(Results)
  BY <1>1, PageExtendsPrefix
<1>3. /\ list' = list \o page
      /\ IF page = <<>> \/ Len(list') >= Len(Results)
         THEN loaded' = (Len(list') = Len(Results)) /\ EndFetch(list')
         ELSE UNCHANGED <<loaded, pc, file>>
      /\ pc = "fetching" /\ UNCHANGED <<shown, scanEngineVars, mirror, then>>
  <2>1. HandleGetScanResults(Len(list)) = [total |-> Len(Results), page |-> page]
    BY Zenon DEF HandleGetScanResults, PageAt
  <2> DEFINE answer == HandleGetScanResults(Len(list))
  <2>2. answer.total = Len(Results) /\ answer.page = page
    <3> HIDE DEF page
    <3> QED
      BY <2>1
  <2>3. /\ list' = list \o answer.page
        /\ IF answer.page = <<>> \/ Len(list') >= answer.total
           THEN loaded' = (Len(list') = answer.total) /\ EndFetch(list')
           ELSE UNCHANGED <<loaded, pc, file>>
        /\ pc = "fetching" /\ UNCHANGED <<shown, scanEngineVars, mirror, then>>
    BY Zenon DEF ScanFetchPage
  <2> HIDE DEF page, answer
  <2> QED
    BY <2>2, <2>3, Zenon
<1> HIDE DEF page
<1>4. list' \in Seq(Cells) /\ IsPrefix(list', Results) /\ (page = <<>> => Len(list') = Len(Results))
  BY <1>2, <1>3, Zenon
<1>5. Len(list') <= Len(Results) /\ \A i \in 1..Len(list') : list'[i] = Results[i]
  BY <1>1, <1>4, PrefixIs
<1>6. CASE page = <<>> \/ Len(list') >= Len(Results)
  <2>1. Len(list') = Len(Results)
    BY <1>1, <1>4, <1>5, <1>6
  <2>2. list' = Results
    BY <1>1, <1>4, <1>5, <2>1, SeqEqual
  <2> QED
    BY <1>3, <1>4, <1>6, <2>1, <2>2, Zenon
<1>7. CASE ~ (page = <<>> \/ Len(list') >= Len(Results))
  <2>1. loaded' = loaded /\ UNCHANGED <<loaded, pc, file>>
    BY <1>3, <1>7
  <2> QED
    BY <1>3, <1>4, <2>1 DEF ScanIInv, ScanTypeOK
<1> QED
  BY <1>6, <1>7

(* A page keeps the list a prefix of the results, and the last one may be saved. *)
LEMMA ScanFetchPageKeeps == ASSUME ScanIInv, ScanFetchPage PROVE ScanIInv'
<1>1. /\ list' \in Seq(Cells) /\ IsPrefix(list', Results) /\ loaded' \in BOOLEAN
      /\ pc = "fetching" /\ UNCHANGED <<shown, scanEngineVars, mirror, then>>
      /\ \/ UNCHANGED <<pc, file>>
         \/ EndFetch(list')
  BY FetchPageDoes
<1>2. Results' = Results /\ Results \in Seq(Cells) /\ Increasing(Results)
  BY <1>1, ResultsAre DEF Results, scanEngineVars, ScanIInv
<1>3. Increasing(list')
  BY <1>1, <1>2, PrefixAscends
<1>4. /\ pc' \in {"idle", "refine", "fetching"}
      /\ SaveScanSession(list') \/ UNCHANGED file
  BY <1>1 DEF EndFetch, ScanIInv, ScanTypeOK
<1>5. file' \in SavedScan \cup {None} /\ (file' # None => Increasing(file'.results))
  BY <1>1, <1>3, <1>4, SavedAscends DEF ScanIInv
<1>6. ScanTypeOK'
  BY <1>1, <1>4, <1>5 DEF ScanIInv, ScanTypeOK, scanEngineVars
<1>7. NoneWithoutEngine' /\ SummaryAgrees' /\ ListsAscend' /\ ListIsPrefix'
  BY <1>1, <1>2, <1>3, <1>5
     DEF ScanIInv, NoneWithoutEngine, SummaryAgrees, ListsAscend, ListIsPrefix, scanEngineVars
<1>8. NothingToFetch'
  <2>1. ASSUME scan' = None PROVE list' = <<>>
    <3>1. Results = <<>>
      BY <1>1, <2>1 DEF Results, scanEngineVars
    <3>2. Len(list') <= Len(Results)
      BY <1>1, <1>2, PrefixIs
    <3>3. Len(Results) = 0
      BY <3>1
    <3> QED
      BY <1>1, <3>2, <3>3
  <2> QED
    BY <2>1 DEF NothingToFetch
<1> QED
  BY <1>6, <1>7, <1>8 DEF ScanIInv

(* Without an engine there is nothing the list could be compared with. *)
LEMMA ScanFetchFailsKeeps == ASSUME ScanIInv, ScanFetchFails PROVE ScanIInv'
<1>1. ~ alive /\ EndFetch(list) /\ UNCHANGED <<shown, scanEngineVars, mirror, list, loaded, then>>
  BY DEF ScanFetchFails
<1>2. scan' = None /\ pc' \in {"idle", "refine"} /\ (SaveScanSession(list) \/ UNCHANGED file)
  BY <1>1 DEF ScanIInv, NoneWithoutEngine, EndFetch, scanEngineVars
<1>3. file' \in SavedScan \cup {None} /\ (file' # None => Increasing(file'.results))
  BY <1>2, SavedAscends DEF ScanIInv, ScanTypeOK, ListsAscend
<1>4. ScanTypeOK'
  BY <1>1, <1>2, <1>3 DEF ScanIInv, ScanTypeOK, scanEngineVars
<1>5. ListsAscend'
  BY <1>1, <1>3 DEF ScanIInv, ListsAscend
<1> QED
  BY <1>2, <1>4, <1>5 DEF ScanIInv, NoneWithoutEngine, NothingToFetch, SummaryAgrees, ListIsPrefix

(* A save of the list that is there. *)
LEMMA SaveKeeps ==
    ASSUME ScanIInv, SaveScanSession(list), UNCHANGED <<shown, scanEngineVars, mirror, list, loaded, pc, then>>
    PROVE  ScanIInv'
<1>1. file' \in SavedScan \cup {None} /\ (file' # None => Increasing(file'.results))
  BY SavedAscends DEF ScanIInv, ScanTypeOK, ListsAscend
<1>2. ScanTypeOK'
  BY <1>1 DEF ScanIInv, ScanTypeOK, scanEngineVars
<1>3. Results' = Results
  BY DEF Results, scanEngineVars
<1>4. ListsAscend'
  BY <1>1 DEF ScanIInv, ListsAscend
<1> QED
  BY <1>2, <1>3, <1>4
     DEF ScanIInv, NoneWithoutEngine, NothingToFetch, SummaryAgrees, ListIsPrefix, scanEngineVars

(* Fewer candidates, counted anew; the list is to be fetched again. *)
LEMMA DisableMixedTypeKeeps ==
    ASSUME ScanIInv, NEW t \in Types, DisableMixedType(t)
    PROVE  ScanIInv'
<1> DEFINE S == WithoutType(t)
           m == [mirror EXCEPT !.count = Cardinality(S), !.byType = CountByType(S)]
           s == [scan EXCEPT !.found = S]
<1>1. /\ alive /\ scan # None /\ pc = "idle" /\ loaded' = FALSE
      /\ scan' = s /\ UNCHANGED <<file, shown, alive, attached, list, pc, then>>
  BY DEF DisableMixedType, HandleDisableMixedType, ScanIdle
<1>2. scan \in Scan /\ mirror \in Mirror
  BY <1>1 DEF ScanIInv, ScanTypeOK
<1>3. S \in SUBSET Cells
  BY <1>2 DEF WithoutType, Scan
<1>4. Cardinality(S) \in Nat /\ CountByType(S) \in [Types -> Nat]
  BY <1>3, CandidatesAre
<1> HIDE DEF S
<1>5. s \in Scan /\ s.found = S /\ s.mixed = scan.mixed /\ s.snapshot = scan.snapshot
  BY <1>2, <1>3 DEF Scan
<1>6. mirror' = m
  BY <1>1, <1>5 DEF DisableMixedType, S
<1>7. /\ m \in Mirror /\ m.hasScan = mirror.hasScan /\ m.mixed = mirror.mixed
      /\ m.snapshot = mirror.snapshot /\ m.count = Cardinality(S) /\ m.byType = CountByType(S)
  BY <1>2, <1>4 DEF Mirror
<1> HIDE DEF s, m
<1>8. ScanTypeOK'
  BY <1>1, <1>5, <1>6, <1>7 DEF ScanIInv, ScanTypeOK
<1>9. SummaryAgrees'
  BY <1>1, <1>5, <1>6, <1>7 DEF ScanIInv, SummaryAgrees
<1>10. NoneWithoutEngine' /\ ListsAscend' /\ NothingToFetch' /\ ListIsPrefix'
  BY <1>1 DEF ScanIInv, NoneWithoutEngine, ListsAscend, NothingToFetch, ListIsPrefix
<1> QED
  BY <1>8, <1>9, <1>10 DEF ScanIInv

(* The saved list is in the engine's order, so what is restored from it lists as it. *)
LEMMA ScanLoadKeeps == ASSUME ScanIInv, ScanLoad PROVE ScanIInv'
<1> DEFINE r == file.results
           m == [mirror EXCEPT !.hasScan = TRUE, !.mixed = file.mixed, !.snapshot = FALSE,
                               !.count = Len(r)]
           s == [mixed |-> file.mixed, snapshot |-> FALSE, found |-> Range(r)]
<1>1. /\ alive /\ file # None /\ pc = "idle" /\ loaded' = TRUE /\ list' = r
      /\ scan' = s /\ mirror' = m /\ UNCHANGED <<file, shown, alive, attached, pc, then>>
  BY DEF ScanLoad, LoadScanSession, Restore, HandleRestoreScan, ScanIdle
<1>2. file.mixed \in BOOLEAN /\ r \in Seq(Cells) /\ Increasing(r) /\ mirror \in Mirror
  BY <1>1 DEF ScanIInv, ScanTypeOK, SavedScan, ListsAscend
<1> HIDE DEF r
<1>3. Cells \subseteq Nat
  BY TypeOfAssumption DEF Cells
<1>4. r \in Seq(Nat) /\ Len(r) \in Nat
  <2>1. Len(r) \in Nat /\ r \in [1..Len(r) -> Cells]
    BY <1>2
  <2>2. r \in [1..Len(r) -> Nat]
    BY <1>3, <2>1
  <2> QED
    BY <2>1, <2>2, FunctionsAreSequences
<1>5. Cardinality(Range(r)) = Len(r) /\ Ordered(Range(r)) = r
  BY <1>2, <1>4, IncreasingIsOrdered
<1>6. Range(r) \in SUBSET Cells
  BY <1>2 DEF Range
<1>7. s \in Scan /\ s.mixed = file.mixed /\ s.snapshot = FALSE /\ s.found = Range(r)
  BY <1>2, <1>6 DEF Scan
<1>8. /\ m \in Mirror /\ m.hasScan = TRUE /\ m.mixed = file.mixed /\ m.snapshot = FALSE
      /\ m.count = Len(r)
  BY <1>2, <1>4 DEF Mirror
<1> HIDE DEF s, m
<1>9. ScanTypeOK'
  BY <1>1, <1>2, <1>7, <1>8 DEF ScanIInv, ScanTypeOK
<1>10. NoneWithoutEngine' /\ NothingToFetch' /\ ListsAscend'
  BY <1>1, <1>2 DEF ScanIInv, NoneWithoutEngine, NothingToFetch, ListsAscend
<1>11. SummaryAgrees'
  BY <1>1, <1>5, <1>7, <1>8 DEF SummaryAgrees
<1>12. ListIsPrefix'
  <2>1. IsPrefix(r, r)
    BY <1>2, PrefixIs
  <2>2. scan' # None => Results' = r
    BY <1>1, <1>5, <1>7 DEF Results
  <2> QED
    BY <1>1, <2>1, <2>2 DEF ListIsPrefix
<1> QED
  BY <1>9, <1>10, <1>11, <1>12 DEF ScanIInv

(* Every step keeps the invariant. *)
LEMMA ScanInvariance == ScanIInv /\ [ScanNext]_scanVars => ScanIInv'
<1> SUFFICES ASSUME ScanIInv, [ScanNext]_scanVars PROVE ScanIInv'
  OBVIOUS
<1>1. CASE Clear \/ ScanAttach \/ ScanDetach \/ ScanEngineDies \/ ScanRestart
  BY <1>1, LosersKeep
<1>2. CASE ScanCommand
  BY <1>2, LosersKeep, FirstScanKeeps DEF ScanCommand
<1>3. CASE NextCommand \/ RefineFails \/ ResultsCommand
  BY <1>3, BeginnersKeep DEF NextCommand, ResultsCommand
<1>4. CASE Refine \/ RefineRefused
  BY <1>4, RefineKeeps, RefineRefusedKeeps
<1>5. CASE ScanFetchPage \/ ScanFetchFails
  BY <1>5, ScanFetchPageKeeps, ScanFetchFailsKeeps
<1>6. ASSUME NEW t \in Types, TypesCommand(t) PROVE ScanIInv'
  BY <1>6, DisableMixedTypeKeeps DEF TypesCommand
<1>7. CASE ScanSave
  BY <1>7, BeginnersKeep, SaveKeeps DEF ScanSave
<1>8. CASE ScanLoad
  BY <1>8, ScanLoadKeeps
<1>9. CASE UNCHANGED scanVars
  <2>1. ScanTypeOK' /\ Results' = Results
    BY <1>9 DEF ScanIInv, ScanTypeOK, Results, scanVars, scanEngineVars
  <2> QED
    BY <1>9, <2>1
       DEF ScanIInv, NoneWithoutEngine, NothingToFetch, ListsAscend, SummaryAgrees, ListIsPrefix, scanVars, scanEngineVars
<1> QED
  BY <1>1, <1>2, <1>3, <1>4, <1>5, <1>6, <1>7, <1>8, <1>9, Zenon DEF ScanNext

-----------------------------------------------------------------------------
(* The theorems.                                                           *)

(* The invariant holds in every reachable state. *)
THEOREM ScanInductive == ScanSpec => []ScanIInv
BY ScanInitially, ScanInvariance, PTL DEF ScanSpec

(* Every variable of the engine's scanner and of the frontend's stays in its type. *)
THEOREM ScanTypeCorrect == ScanSpec => []ScanTypeOK
<1>1. ScanIInv => ScanTypeOK
  BY DEF ScanIInv
<1> QED
  BY <1>1, ScanInductive, PTL

(* Whatever the engine scans, refines, drops or restores: while it has a scan the *)
(* frontend knows its kind, its candidate count and a snapshot's counts by type.  *)
THEOREM SummaryRight == ScanSpec => []SummaryAgrees
<1>1. ScanIInv => SummaryAgrees
  BY DEF ScanIInv
<1> QED
  BY <1>1, ScanInductive, PTL

(* While the engine has a scan, an index into a list that is loaded or being fetched *)
(* means the same candidate on both sides.                                           *)
THEOREM ListRight == ScanSpec => []ListIsPrefix
<1>1. ScanIInv => ListIsPrefix
  BY DEF ScanIInv
<1> QED
  BY <1>1, ScanInductive, PTL

(* A fetch of pages that the engine answers to the end brings the whole list. *)
THEOREM FetchComplete == ScanSpec => FetchBringsAll
<1> DEFINE Brings == pc = "fetching" /\ alive /\ pc' # "fetching" => loaded' /\ list' = Results
<1>1. ScanIInv /\ [ScanNext]_scanVars => [Brings]_scanVars
  <2> SUFFICES ASSUME ScanIInv, ScanNext, pc = "fetching", alive, pc' # "fetching"
               PROVE  loaded' /\ list' = Results
    BY Zenon
  <2>1. pc # "idle" /\ pc # "refine" /\ pc' # pc
    OBVIOUS
  <2>2. ScanFetchPage
    BY <2>1 DEF ScanNext, Clear, ScanAttach, ScanDetach, ScanCommand, FirstScan, FirstScanRejected, NextCommand,
                NextScan, Refine, RefineRefused, RefineFails, ResultsCommand, FetchFor, ScanFetchFails,
                TypesCommand, DisableMixedType, ScanSave, ScanLoad, Restore, ScanEngineDies, ScanRestart, ScanIdle
  <2> QED
    BY <2>1, <2>2, FetchPageDoes
<1> QED
  BY <1>1, ScanInductive, PTL DEF ScanSpec, FetchBringsAll

(* A scan that is shown and can be gone on with is lost to a first scan the engine *)
(* refuses, and to nothing else.                                                   *)
THEOREM ScanIsNotLost == ScanSpec => OnlyRefusalLosesScan
<1> DEFINE Loses == ShownScanIsUsable /\ ~ShownScanIsUsable'
<1>1. ScanIInv /\ [ScanNext]_scanVars => [Loses => FirstScanRejected]_scanVars
  <2> SUFFICES ASSUME ScanIInv, ScanNext, ShownScanIsUsable, ~ShownScanIsUsable', ~FirstScanRejected
               PROVE  FALSE
    BY Zenon
  <2>1. alive' /\ attached' /\ mirror'.hasScan /\ scan' = None
    BY DEF ShownScanIsUsable
  <2>2. ~(UNCHANGED <<scan, alive, attached, mirror>>)
    BY DEF ShownScanIsUsable
  <2>3. ~Blank.hasScan
    BY DEF Blank
  <2>4. ~Clear /\ ~ScanAttach /\ ~ScanDetach
    BY <2>1, <2>2, <2>3 DEF Clear, ScanAttach, ScanDetach, HandleNewScan, Reset
  <2>5. ~FirstScan /\ ~Refine /\ ~RefineRefused
    BY <2>1, <2>2, <2>3 DEF FirstScan, Refine, RefineRefused, Summary, scanEngineVars
  <2>6. ~NextScan /\ ~RefineFails /\ ~ResultsCommand /\ ~ScanFetchPage /\ ~ScanFetchFails
    BY <2>2 DEF NextScan, RefineFails, ResultsCommand, FetchFor, ScanFetchPage, ScanFetchFails, scanEngineVars
  <2>7. ASSUME NEW t \in Types, DisableMixedType(t) PROVE FALSE
    <3>1. scan \in Scan /\ scan' = [scan EXCEPT !.found = WithoutType(t)]
      BY <2>7, NoneIsNoScan DEF DisableMixedType, HandleDisableMixedType, ScanIInv, ScanTypeOK
    <3>2. scan' \in Scan
      BY <3>1 DEF Scan, WithoutType
    <3> QED
      BY <2>1, <3>2, NoneIsNoScan
  <2>8. ~ScanSave
    BY <2>2 DEF ScanSave, FetchFor, scanEngineVars
  <2>9. ~ScanLoad
    <3> SUFFICES ASSUME ScanLoad PROVE FALSE
      OBVIOUS
    <3>1. file \in SavedScan /\ scan' = [mixed |-> file.mixed, snapshot |-> FALSE, found |-> Range(file.results)]
      BY DEF ScanLoad, LoadScanSession, Restore, HandleRestoreScan, ScanIInv, ScanTypeOK
    <3>2. file.mixed \in BOOLEAN /\ file.results \in Seq(Cells)
      BY <3>1 DEF SavedScan
    <3>3. scan' \in Scan
      BY <3>1, <3>2 DEF Scan, Range
    <3> QED
      BY <2>1, <3>3, NoneIsNoScan
  <2>10. ~ScanEngineDies /\ ~ScanRestart
    BY <2>1 DEF ScanEngineDies, ScanRestart
  <2> QED
    BY <2>4, <2>5, <2>6, <2>7, <2>8, <2>9, <2>10, Zenon DEF ScanNext, ScanCommand, NextCommand, TypesCommand
<1> QED
  BY <1>1, ScanInductive, PTL DEF ScanSpec, OnlyRefusalLosesScan

-----------------------------------------------------------------------------
(* Pointer chains.                                                         *)

\* Stored chains have the width they were made for.
WidthKnown == chains # <<>> => chainSize \in {4, 8}

\* Between two pages the frontend has the first of the engine's chains.
PagesFollow ==
    alive /\ fetching =>
        /\ Len(list) <= Len(chains)
        /\ \A i \in 1..Len(list) : list[i] = chains[i]
        /\ Len(resolved) = Len(list)
        /\ list # <<>> => listSize = chainSize

IInv ==
    /\ TypeOK
    /\ WidthKnown
    /\ PagesFollow
    /\ ChainsAgree
    /\ NeverAstray

-----------------------------------------------------------------------------
(* Facts about the operators.                                              *)

(* What normalizeChains leaves is a sequence of chains, and no chain is one. *)
LEMMA ListsAreSequences == Lists \subseteq Seq(Chains) /\ <<>> \in Lists
<1>1. Cardinality(Chains) \in Nat
  BY ChainsAssumption, FS_CardinalityType
<1>2. ASSUME NEW l \in Lists PROVE l \in Seq(Chains)
  <2>1. PICK n \in 0..Cardinality(Chains) : l \in [1..n -> Chains]
    BY Zenon DEF Lists
  <2> QED
    BY <1>1, <2>1
<1>3. <<>> \in [1..0 -> Chains]
  OBVIOUS
<1>4. <<>> \in Lists
  BY <1>1, <1>3 DEF Lists
<1> QED
  BY <1>2, <1>4

(* resolve of a stored chain of known width gives an address or nothing, and never an  *)
(* address read at the wrong width.                                                    *)
LEMMA ResolveIsRight ==
    ASSUME NEW p \in Targets \cup {None}, NEW c \in Chains,
           layout \in [Targets -> Layouts], chainSize \in {4, 8}
    PROVE  Resolve(p, c) \in Nat \cup {None} /\ Resolve(p, c) # Astray
<1>1. CASE p = None
  BY <1>1, ChainsAssumption DEF Resolve, WidthOf, Walk
<1>2. CASE p # None
  <2>1. p \in Targets /\ Width[p] \in {4, 8} /\ layout[p] \in Layouts
    BY <1>2, TargetsAssumption
  <2>2. AddressIn[<<p, layout[p], c>>] \in Nat \cup {None}
    BY <2>1, ChainsAssumption
  <2>3. Resolve(p, c) \in {None, AddressIn[<<p, layout[p], c>>]}
    BY <1>2 DEF Resolve, WidthOf, Walk
  <2> QED
    BY <2>2, <2>3, ChainsAssumption
<1> QED
  BY <1>1, <1>2

\* The page that follows the chains of old.
PageAfter(old, all) == PageAt(all, Len(old), PageSize)

(* A page continues the list where it ends and goes on with the engine's chains. *)
LEMMA PageOfChains ==
    ASSUME NEW old \in Seq(Chains), NEW all \in Seq(Chains), Len(old) <= Len(all)
    PROVE  /\ PageAfter(old, all) \in Seq(Chains)
           /\ Len(old) + Len(PageAfter(old, all)) <= Len(all)
           /\ \A i \in 1..Len(PageAfter(old, all)) : PageAfter(old, all)[i] = all[Len(old) + i]
           /\ PageAfter(old, all) = <<>> => Len(old) = Len(all)
<1>1. Len(old) \in Nat /\ PageSize \in Nat \ {0}
  BY PageAssumption
<1> QED
  BY <1>1, PageIs, Zenon DEF PageAfter

-----------------------------------------------------------------------------
(* The steps.                                                              *)

\* What the parts of IInv beyond the types speak of.
said == <<alive, chains, chainSize, list, listSize, resolved, fetching>>

(* The invariant speaks of chains and list only: what leaves them alone keeps it. *)
LEMMA SaidKept ==
    ASSUME IInv, TypeOK', UNCHANGED said
    PROVE  IInv'
BY DEF IInv, WidthKnown, PagesFollow, ChainsAgree, NeverAstray, said

(* At the start there are no chains. *)
LEMMA Initially == Init => IInv
<1> SUFFICES ASSUME Init PROVE IInv
  OBVIOUS
<1>1. TypeOK
  <2>1. layout \in [Targets -> Layouts] /\ alive \in BOOLEAN /\ fetching \in BOOLEAN /\ profile \in BOOLEAN
    BY DEF Init
  <2>2. {attached, context, shown} \subseteq Targets \cup {None} /\ {chainSize, size, listSize} \subseteq {0, 4, 8}
    BY DEF Init
  <2>3. chains \in Lists /\ list \in Seq(Chains) /\ resolved \in Seq(Nat \cup {None, Astray})
    BY ListsAreSequences DEF Init
  <2> QED
    BY <2>1, <2>2, <2>3 DEF TypeOK
<1>2. WidthKnown /\ PagesFollow /\ ChainsAgree
  BY DEF Init, WidthKnown, PagesFollow, ChainsAgree
<1>3. NeverAstray
  BY DEF Init, NeverAstray, Range
<1> QED
  BY <1>1, <1>2, <1>3 DEF IInv

(* The engine's handlers keep its chains but for a discovery and a rescan. *)
LEMMA AttachKeeps ==
    ASSUME IInv, NEW p \in Targets, Attach(p), UNCHANGED profile
    PROVE  IInv'
<1>1. TypeOK'
  BY TargetsAssumption DEF IInv, TypeOK, Attach, Idle, HandleAttach
<1>2. UNCHANGED said
  BY DEF Attach, Idle, HandleAttach, said
<1> QED
  BY <1>1, <1>2, SaidKept

(* Where chains lead may change at any time; what was said before stays said. *)
LEMMA MemoryChangesKeeps ==
    ASSUME IInv, NEW p \in Targets, MemoryChanges(p), UNCHANGED profile
    PROVE  IInv'
<1>1. UNCHANGED <<engineVars, mirrorVars>> /\ layout' \in [Targets -> Layouts]
  BY DEF MemoryChanges, IInv, TypeOK
<1>2. TypeOK' /\ UNCHANGED said
  BY <1>1 DEF IInv, TypeOK, engineVars, mirrorVars, said
<1> QED
  BY <1>2, SaidKept

(* Only the width that the frontend shows is set anew. *)
LEMMA RefreshContextKeeps ==
    ASSUME IInv, RefreshContext, UNCHANGED profile
    PROVE  IInv'
<1>1. WidthOf(shown) \in {0, 4, 8}
  BY TargetsAssumption DEF IInv, TypeOK, WidthOf
<1>2. TypeOK' /\ UNCHANGED said
  BY <1>1 DEF RefreshContext, Idle, IInv, TypeOK, engineVars, said
<1> QED
  BY <1>2, SaidKept

(* An index is captured at the width of the process attached. *)
LEMMA CaptureIndexKeeps ==
    ASSUME IInv, CaptureIndex, UNCHANGED profile
    PROVE  IInv'
<1>1. attached \in Targets /\ Width[attached] \in {4, 8}
  BY TargetsAssumption DEF CaptureIndex, HandleCaptureIndex, IInv, TypeOK
<1>2. TypeOK' /\ UNCHANGED said
  BY <1>1 DEF CaptureIndex, HandleCaptureIndex, Idle, IInv, TypeOK, said
<1> QED
  BY <1>2, SaidKept

(* A request that fails may cost the context and nothing else. *)
LEMMA RequestFailsKeeps ==
    ASSUME IInv, RequestFails, UNCHANGED profile
    PROVE  IInv'
<1>1. TypeOK' /\ UNCHANGED said
  BY DEF RequestFails, HandlerFails, Idle, IInv, TypeOK, mirrorVars, said
<1> QED
  BY <1>1, SaidKept

(* A detached frontend shows no address. *)
LEMMA DetachKeeps ==
    ASSUME IInv, Detach, UNCHANGED profile
    PROVE  IInv'
<1>1. /\ UNCHANGED <<layout, alive, chains, chainSize, list, listSize, fetching>>
      /\ ~fetching /\ resolved' = <<>> /\ size' = 0
  BY DEF Detach, Idle, HandleDetach
<1>2. TypeOK'
  BY <1>1 DEF Detach, HandleDetach, IInv, TypeOK
<1>3. WidthKnown' /\ PagesFollow' /\ ChainsAgree'
  BY <1>1 DEF IInv, WidthKnown, PagesFollow, ChainsAgree
<1>4. NeverAstray'
  BY <1>1 DEF NeverAstray, Range
<1> QED
  BY <1>2, <1>3, <1>4 DEF IInv

(* New chains of known width, of which no page has been fetched. *)
LEMMA BeginFetchKeeps ==
    ASSUME IInv, TypeOK', BeginFetch, WidthKnown'
    PROVE  IInv'
<1>1. list' = <<>> /\ resolved' = <<>> /\ fetching' = TRUE
  BY DEF BeginFetch
<1>2. Len(chains') \in Nat
  BY ListsAreSequences DEF TypeOK
<1>3. PagesFollow' /\ ChainsAgree'
  BY <1>1, <1>2 DEF PagesFollow, ChainsAgree
<1>4. NeverAstray'
  BY <1>1 DEF NeverAstray, Range
<1> QED
  BY <1>3, <1>4 DEF IInv

(* A search leaves chains of the width of the process attached. *)
LEMMA DiscoverKeeps ==
    ASSUME IInv, Discover, UNCHANGED profile
    PROVE  IInv'
<1>1. attached \in Targets /\ Width[attached] \in {4, 8}
  BY TargetsAssumption DEF Discover, HandleDiscover, IInv, TypeOK
<1>2. TypeOK'
  BY <1>1 DEF Discover, HandleDiscover, BeginFetch, IInv, TypeOK
<1>3. WidthKnown'
  BY <1>1 DEF Discover, HandleDiscover, WidthKnown
<1> QED
  BY <1>2, <1>3, BeginFetchKeeps DEF Discover

(* A rescan keeps the width of the chains it leaves. *)
LEMMA RescanKeeps ==
    ASSUME IInv, NEW a, Rescan(a), UNCHANGED profile
    PROVE  IInv'
<1>1. /\ UNCHANGED <<layout, alive, shown, size, listSize, attached, chainSize>>
      /\ context' = attached /\ chains # <<>> /\ chains' \in Lists
  BY DEF Rescan, HandleRescan
<1>2. TypeOK'
  BY <1>1 DEF Rescan, BeginFetch, IInv, TypeOK
<1>3. WidthKnown'
  BY <1>1 DEF IInv, WidthKnown
<1> QED
  BY <1>2, <1>3, BeginFetchKeeps DEF Rescan

(* Chains of a file come with their width, and are fetched back. *)
LEMMA SetChainsKeeps ==
    ASSUME IInv, NEW l \in Lists, NEW s \in {4, 8}, SetChains(l, s), profile' \in BOOLEAN
    PROVE  IInv'
<1>1. TypeOK'
  <2>1. /\ UNCHANGED <<layout, alive, attached, context, shown, size>>
        /\ chains' = l /\ chainSize' = s /\ listSize' = s
        /\ list' = <<>> /\ resolved' = <<>> /\ fetching' = TRUE
    BY DEF SetChains, HandleSetChains, BeginFetch
  <2> QED
    BY <2>1 DEF IInv, TypeOK
<1>2. WidthKnown'
  BY DEF SetChains, HandleSetChains, WidthKnown
<1> QED
  BY <1>1, <1>2, BeginFetchKeeps DEF SetChains

(* No side has chains, or the engine is gone. *)
LEMMA ClearChainsKeeps ==
    ASSUME IInv, ClearChains, UNCHANGED profile
    PROVE  IInv'
<1>1. /\ list' = <<>> /\ resolved' = <<>> /\ listSize' = 0 /\ UNCHANGED <<fetching, alive>> /\ ~fetching
      /\ \/ chains' = <<>> /\ chainSize' = 0
         \/ ~alive /\ UNCHANGED <<chains, chainSize>>
  BY DEF ClearChains, HandleClear, Idle
<1>2. TypeOK'
  <2>1. UNCHANGED <<layout, attached, context, shown, size>>
    BY DEF ClearChains, HandleClear
  <2>2. chains' \in Lists /\ chainSize' \in {0, 4, 8}
    BY <1>1, ListsAreSequences DEF IInv, TypeOK
  <2> QED
    BY <1>1, <2>1, <2>2 DEF IInv, TypeOK
<1>3. WidthKnown' /\ PagesFollow' /\ ChainsAgree'
  BY <1>1 DEF IInv, WidthKnown, PagesFollow, ChainsAgree
<1>4. NeverAstray'
  BY <1>1 DEF NeverAstray, Range
<1> QED
  BY <1>2, <1>3, <1>4 DEF IInv

(* A fetch fails only for want of an engine, with which the chains are gone. *)
LEMMA FetchFailsKeeps ==
    ASSUME IInv, FetchFails, UNCHANGED profile
    PROVE  IInv'
<1>1. ~alive' /\ fetching' = FALSE /\ UNCHANGED <<layout, engineVars, shown, size, list, listSize, resolved>>
  BY DEF FetchFails, engineVars
<1>2. TypeOK'
  BY <1>1 DEF IInv, TypeOK, engineVars
<1>3. WidthKnown' /\ PagesFollow' /\ ChainsAgree' /\ NeverAstray'
  BY <1>1 DEF IInv, WidthKnown, PagesFollow, ChainsAgree, NeverAstray, engineVars
<1> QED
  BY <1>2, <1>3 DEF IInv

(* An engine takes its chains with it. *)
LEMMA EngineDiesKeeps ==
    ASSUME IInv, EngineDies, UNCHANGED profile
    PROVE  IInv'
<1>1. ~alive' /\ chains' = <<>> /\ chainSize' = 0 /\ UNCHANGED mirrorVars
  BY DEF EngineDies
<1>2. TypeOK'
  BY <1>1, ListsAreSequences DEF EngineDies, IInv, TypeOK, mirrorVars
<1>3. WidthKnown' /\ PagesFollow' /\ ChainsAgree' /\ NeverAstray'
  BY <1>1 DEF IInv, WidthKnown, PagesFollow, ChainsAgree, NeverAstray, mirrorVars
<1> QED
  BY <1>2, <1>3 DEF IInv

(* A new engine has no chains. *)
LEMMA RestartKeeps ==
    ASSUME IInv, Restart, UNCHANGED profile
    PROVE  IInv'
<1>1. ~fetching' /\ chains' = <<>> /\ UNCHANGED resolved
  BY DEF Restart, Idle
<1>2. TypeOK'
  BY ListsAreSequences DEF Restart, Idle, IInv, TypeOK
<1>3. WidthKnown' /\ PagesFollow' /\ ChainsAgree' /\ NeverAstray'
  BY <1>1 DEF IInv, WidthKnown, PagesFollow, ChainsAgree, NeverAstray
<1> QED
  BY <1>2, <1>3 DEF IInv

(* A page extends what was fetched by the engine's next chains, each with its address; *)
(* the last one completes it.                                                          *)
LEMMA FetchPageKeeps ==
    ASSUME IInv, FetchPage, UNCHANGED profile
    PROVE  IInv'
<1> DEFINE page == PageAfter(list, chains)
           Answers == Nat \cup {None, Astray}
           addresses == [i \in 1..Len(page) |-> Resolve(context, page[i])]
<1>1. /\ fetching /\ alive
      /\ list' = list \o page /\ resolved' = resolved \o addresses
      /\ fetching' = (page # <<>> /\ Len(list') < Len(chains))
      /\ IF list = <<>> THEN size' = WidthOf(context) /\ listSize' = chainSize
         ELSE UNCHANGED <<size, listSize>>
      /\ UNCHANGED <<layout, engineVars, shown>>
  <2>1. HandleResults(Len(list)) =
          [chains |-> page, addresses |-> addresses,
           total |-> Len(chains), size |-> WidthOf(context), chainSize |-> chainSize]
    BY Zenon DEF HandleResults, PageAfter, PageAt
  <2> DEFINE answer == HandleResults(Len(list))
  <2>2. /\ answer.chains = page /\ answer.addresses = addresses /\ answer.total = Len(chains)
        /\ answer.size = WidthOf(context) /\ answer.chainSize = chainSize
    <3> HIDE DEF page, addresses
    <3> QED
      BY <2>1
  <2>3. /\ list' = list \o answer.chains /\ resolved' = resolved \o answer.addresses
        /\ fetching' = (answer.chains # <<>> /\ Len(list') < answer.total)
        /\ IF list = <<>> THEN size' = answer.size /\ listSize' = answer.chainSize
           ELSE UNCHANGED <<size, listSize>>
        /\ fetching /\ alive /\ UNCHANGED <<layout, engineVars, shown>>
    BY Zenon DEF FetchPage
  <2> HIDE DEF page, addresses, answer
  <2> QED
    BY <2>2, <2>3, Zenon
<1>2. /\ chains \in Seq(Chains) /\ list \in Seq(Chains) /\ Len(list) <= Len(chains)
      /\ \A i \in 1..Len(list) : list[i] = chains[i]
      /\ resolved \in Seq(Answers) /\ Len(resolved) = Len(list)
      /\ list # <<>> => listSize = chainSize
  BY <1>1, ListsAreSequences DEF IInv, TypeOK, PagesFollow
<1>3. /\ page \in Seq(Chains)
      /\ Len(list) + Len(page) <= Len(chains)
      /\ \A i \in 1..Len(page) : page[i] = chains[Len(list) + i]
      /\ page = <<>> => Len(list) = Len(chains)
  BY <1>2, PageOfChains, Zenon
<1>4. \A i \in 1..Len(page) : Resolve(context, page[i]) \in Nat \cup {None} /\ Resolve(context, page[i]) # Astray
  <2> SUFFICES ASSUME NEW i \in 1..Len(page)
               PROVE  Resolve(context, page[i]) \in Nat \cup {None} /\ Resolve(context, page[i]) # Astray
    OBVIOUS
  <2>1. page[i] \in Chains
    BY <1>3, ElementOfSeq
  <2>2. chains # <<>>
    <3>1. Len(page) \in Nat /\ Len(list) \in Nat /\ Len(chains) \in Nat /\ Len(page) > 0
      BY <1>2, <1>3
    <3>2. Len(chains) > 0
      BY <1>3, <3>1
    <3> QED
      BY <3>2
  <2>3. chainSize \in {4, 8}
    BY <2>2 DEF IInv, WidthKnown
  <2>4. context \in Targets \cup {None} /\ layout \in [Targets -> Layouts]
    BY DEF IInv, TypeOK
  <2> QED
    BY <2>1, <2>3, <2>4, ResolveIsRight, Zenon
<1>5. addresses \in Seq(Answers) /\ Len(addresses) = Len(page)
      /\ \A i \in 1..Len(addresses) : addresses[i] # Astray
  <2>1. Len(page) \in Nat
    BY <1>3
  <2>2. addresses \in [1..Len(page) -> Answers]
    BY <1>4
  <2> HIDE DEF Answers, addresses
  <2>3. Len(addresses) = Len(page) /\ addresses \in Seq(Answers)
    BY <2>1, <2>2, FunctionsAreSequences, Zenon
  <2>4. \A i \in 1..Len(page) : addresses[i] # Astray
    BY <1>4 DEF addresses
  <2> QED
    BY <2>3, <2>4, Zenon
<1> HIDE DEF page, addresses, Answers
<1>6. /\ list' \in Seq(Chains) /\ Len(list') = Len(list) + Len(page)
      /\ \A i \in 1..(Len(list) + Len(page)) : list'[i] = IF i <= Len(list) THEN list[i] ELSE page[i - Len(list)]
  BY <1>1, <1>2, <1>3, ConcatProperties, Zenon
<1>7. /\ resolved' \in Seq(Answers) /\ Len(resolved') = Len(resolved) + Len(addresses)
      /\ \A i \in 1..(Len(resolved) + Len(addresses)) :
            resolved'[i] = IF i <= Len(resolved) THEN resolved[i] ELSE addresses[i - Len(resolved)]
  <2>1. resolved \in Seq(Answers) /\ addresses \in Seq(Answers) /\ resolved' = resolved \o addresses
    BY <1>1, <1>2, <1>5
  <2> QED
    BY <2>1, ConcatProperties, Zenon
<1>8. /\ Len(list) \in Nat /\ Len(page) \in Nat /\ Len(chains) \in Nat
      /\ Len(resolved) \in Nat /\ Len(addresses) \in Nat
  BY <1>2, <1>3, <1>5
<1>9. /\ Len(list') <= Len(chains)
      /\ \A i \in 1..Len(list') : list'[i] = chains[i]
      /\ Len(resolved') = Len(list') /\ listSize' = chainSize
  <2>1. ASSUME NEW i \in 1..(Len(list) + Len(page)) PROVE list'[i] = chains[i]
    <3>1. CASE i <= Len(list)
      BY <1>2, <1>6, <1>8, <3>1
    <3>2. CASE ~(i <= Len(list))
      <4>1. i - Len(list) \in 1..Len(page) /\ Len(list) + (i - Len(list)) = i
        BY <1>8, <3>2
      <4> QED
        BY <1>3, <1>6, <3>2, <4>1
    <3> QED
      BY <3>1, <3>2
  <2>2. listSize' = chainSize
    BY <1>1, <1>2
  <2>3. Len(list') <= Len(chains) /\ Len(resolved') = Len(list')
    BY <1>2, <1>3, <1>5, <1>6, <1>7
  <2> QED
    BY <1>6, <2>1, <2>2, <2>3
<1>10. UNCHANGED <<alive, attached, context, chains, chainSize>>
  BY <1>1 DEF engineVars
<1>11. TypeOK'
  <2>1. size' \in {0, 4, 8} /\ listSize' \in {0, 4, 8}
    BY <1>1, <1>9, TargetsAssumption DEF IInv, TypeOK, WidthOf
  <2>2. fetching' \in BOOLEAN
    BY <1>1
  <2> QED
    BY <1>1, <1>6, <1>7, <1>10, <2>1, <2>2 DEF IInv, TypeOK, Answers
<1>12. WidthKnown' /\ PagesFollow'
  BY <1>9, <1>10 DEF IInv, WidthKnown, PagesFollow
<1>13. ChainsAgree'
  <2>1. ASSUME ~fetching' PROVE list' = chains
    <3>1. Len(list') = Len(chains)
      <4>1. page = <<>> \/ ~(Len(list') < Len(chains))
        BY <1>1, <2>1
      <4>2. Len(list') \in Nat
        BY <1>6
      <4>3. CASE page = <<>>
        BY <1>3, <1>6, <1>8, <1>9, <4>2, <4>3
      <4> QED
        BY <1>8, <1>9, <4>1, <4>2, <4>3
    <3> QED
      BY <1>2, <1>6, <1>9, <3>1, SeqEqual
  <2> QED
    BY <1>9, <1>10, <2>1 DEF ChainsAgree
<1>14. NeverAstray'
  <2>1. ASSUME NEW i \in 1..Len(resolved) PROVE resolved[i] # Astray
    BY <1>2 DEF IInv, NeverAstray, Range
  <2>2. ASSUME NEW i \in 1..(Len(resolved) + Len(addresses)) PROVE resolved'[i] # Astray
    <3>1. CASE i <= Len(resolved)
      BY <1>7, <1>8, <2>1, <3>1
    <3>2. CASE ~(i <= Len(resolved))
      <4>1. i - Len(resolved) \in 1..Len(addresses)
        BY <1>8, <3>2
      <4> QED
        BY <1>5, <1>7, <3>2, <4>1
    <3> QED
      BY <3>1, <3>2
  <2>3. DOMAIN resolved' = 1..(Len(resolved) + Len(addresses))
    BY <1>7
  <2> QED
    BY <2>2, <2>3 DEF NeverAstray, Range
<1> QED
  BY <1>11, <1>12, <1>13, <1>14 DEF IInv

(* Every step keeps the invariant. *)
LEMMA Invariance == IInv /\ [Next]_vars => IInv'
<1> SUFFICES ASSUME IInv, [Next]_vars PROVE IInv'
  OBVIOUS
<1>1. ASSUME Step, UNCHANGED profile PROVE IInv'
  <2>1. ASSUME NEW p \in Targets, Attach(p) \/ MemoryChanges(p) PROVE IInv'
    BY <1>1, <2>1, AttachKeeps, MemoryChangesKeeps
  <2>2. ASSUME NEW l \in Lists, NEW s \in {4, 8}, SetChains(l, s) \/ PointerLoad(l, s) PROVE IInv'
    <3>1. SetChains(l, s)
      BY <2>2 DEF PointerLoad
    <3>2. profile' \in BOOLEAN
      BY <1>1 DEF IInv, TypeOK
    <3> QED
      BY <3>1, <3>2, SetChainsKeeps
  <2>3. ASSUME NEW a \in Addresses, Rescan(a) PROVE IInv'
    BY <1>1, <2>3, RescanKeeps
  <2>4. CASE Detach \/ RefreshContext \/ CaptureIndex \/ Discover
    BY <1>1, <2>4, DetachKeeps, RefreshContextKeeps, CaptureIndexKeeps, DiscoverKeeps
  <2>5. CASE RequestFails \/ ClearChains \/ FetchPage \/ FetchFails \/ EngineDies \/ Restart
    BY <1>1, <2>5, RequestFailsKeeps, ClearChainsKeeps, FetchPageKeeps, FetchFailsKeeps, EngineDiesKeeps, RestartKeeps
  <2> QED
    BY <1>1, <2>1, <2>2, <2>3, <2>4, <2>5, Zenon DEF Step
<1>2. ASSUME NEW l \in Lists, NEW s \in {4, 8}, ProfileLoad(l, s) PROVE IInv'
  <2>1. SetChains(l, s) /\ profile' \in BOOLEAN
    BY <1>2 DEF ProfileLoad, PointerLoad
  <2> QED
    BY <2>1, SetChainsKeeps
<1>3. CASE ProfileWrite
  BY <1>3, RefreshContextKeeps DEF ProfileWrite
<1>4. CASE UNCHANGED vars
  <2>1. TypeOK' /\ UNCHANGED said
    BY <1>4 DEF IInv, TypeOK, vars, engineVars, mirrorVars, said
  <2> QED
    BY <2>1, SaidKept
<1> QED
  BY <1>1, <1>2, <1>3, <1>4, Zenon DEF Next

-----------------------------------------------------------------------------
(* The vote.                                                               *)

(* The loop is what its recursion says: the first address alone, then one step for each *)
(* address.                                                                             *)
LEMMA MetIs ==
    ASSUME NEW s \in Seq(Nat), NEW k \in 1..Len(s)
    PROVE  Met(s)[k] = IF k = 1 THEN FirstMet(s[1]) ELSE Meet(Met(s)[k - 1], s[k])
<1> DEFINE n == Len(s)
           At(g, i) == IF i = 1 THEN FirstMet(s[1]) ELSE Meet(g[i - 1], s[i])
           Rounds(g, m) == g = [i \in 1..m |-> At(g, i)]
<1>1. n \in Nat
  OBVIOUS
<1>2. ASSUME NEW m \in Nat, NEW g, Rounds(g, m) PROVE \E h : Rounds(h, m + 1)
  <2> DEFINE h == [i \in 1..(m + 1) |-> IF i = m + 1 THEN At(g, m + 1) ELSE g[i]]
  <2>1. ASSUME NEW i \in 1..(m + 1) PROVE h[i] = At(h, i)
    <3>1. ASSUME i # 1 PROVE i - 1 \in 1..(m + 1) /\ i - 1 # m + 1 /\ h[i - 1] = g[i - 1]
      BY <3>1
    <3>2. At(h, i) = At(g, i)
      BY <3>1
    <3>3. i # m + 1 => i \in 1..m /\ h[i] = g[i]
      OBVIOUS
    <3>4. \A j \in 1..m : g[j] = At(g, j)
      BY <1>2
    <3>5. i = m + 1 => h[i] = At(g, i)
      OBVIOUS
    <3> HIDE DEF At, h
    <3> QED
      BY <3>2, <3>3, <3>4, <3>5
  <2>2. h = [i \in 1..(m + 1) |-> h[i]]
    OBVIOUS
  <2> HIDE DEF h, At
  <2>3. [i \in 1..(m + 1) |-> h[i]] = [i \in 1..(m + 1) |-> At(h, i)]
    BY <2>1
  <2> QED
    BY <2>2, <2>3
<1> DEFINE Endless == {m \in Nat : ~ \E g : Rounds(g, m)}
<1>3. Endless = {}
  <2> SUFFICES ASSUME Endless # {} PROVE FALSE
    OBVIOUS
  <2>1. PICK m \in Endless : \A j \in Endless : m <= j
    <3>1. Endless \in SUBSET Nat
      OBVIOUS
    <3> HIDE DEF Endless
    <3> QED
      BY <3>1, LeastIs, Zenon
  <2>2. CASE m = 0
    <3> DEFINE g == [i \in 1..0 |-> 0]
    <3>1. 1..0 = {}
      OBVIOUS
    <3>2. Rounds(g, 0)
      BY <3>1
    <3> QED
      BY <2>1, <2>2, <3>2
  <2>3. CASE m # 0
    <3>1. m - 1 \in Nat /\ ~ (m <= m - 1) /\ m - 1 + 1 = m
      BY <2>3
    <3>2. \E g : Rounds(g, m - 1)
      BY <2>1, <3>1
    <3> HIDE DEF Rounds
    <3>3. \E g : Rounds(g, m - 1 + 1)
      BY <1>2, <3>1, <3>2
    <3> QED
      BY <2>1, <3>1, <3>3
  <2> QED
    BY <2>2, <2>3
<1>4. \E g : Rounds(g, n)
  BY <1>1, <1>3
<1>5. Met(s) = CHOOSE g : Rounds(g, n)
  BY DEF Met
<1>6. Rounds(Met(s), n)
  <2> HIDE DEF Rounds
  <2> QED
    BY <1>4, <1>5
<1>7. Met(s)[k] = At(Met(s), k)
  <2> HIDE DEF At
  <2> QED
    BY <1>6
<1> QED
  BY <1>7

Tally == [address : Nat, agreeing : Nat, last : Nat, run : Nat]

(* A run that ends counts if it is longer. *)
LEMMA RunEndsIs ==
    ASSUME NEW v \in Tally
    PROVE  /\ RunEnds(v) \in Tally /\ RunEnds(v).last = v.last /\ RunEnds(v).run = v.run
           /\ \/ /\ v.run > v.agreeing
                 /\ RunEnds(v).address = v.last /\ RunEnds(v).agreeing = v.run
              \/ /\ v.run <= v.agreeing
                 /\ RunEnds(v).address = v.address /\ RunEnds(v).agreeing = v.agreeing
<1>1. CASE v.run > v.agreeing
  <2>1. RunEnds(v) = [address |-> v.last, agreeing |-> v.run, last |-> v.last, run |-> v.run]
    BY <1>1 DEF RunEnds, Tally
  <2> QED
    BY <1>1, <2>1 DEF Tally
<1>2. CASE ~ (v.run > v.agreeing)
  BY <1>2 DEF RunEnds, Tally
<1> QED
  BY <1>1, <1>2

(* One more address lengthens the run, or ends it and begins another. *)
LEMMA MeetIs ==
    ASSUME NEW v \in Tally, NEW a \in Nat
    PROVE  /\ Meet(v, a) \in Tally /\ Meet(v, a).last = a
           /\ IF a = v.last
              THEN /\ Meet(v, a).run = v.run + 1
                   /\ Meet(v, a).address = v.address /\ Meet(v, a).agreeing = v.agreeing
              ELSE /\ Meet(v, a).run = 1
                   /\ Meet(v, a).address = RunEnds(v).address
                   /\ Meet(v, a).agreeing = RunEnds(v).agreeing
<1>1. RunEnds(v) \in Tally
  BY RunEndsIs
<1>2. CASE a = v.last
  <2>1. Meet(v, a) = [v EXCEPT !.run = @ + 1]
    BY <1>2 DEF Meet
  <2> QED
    BY <1>2, <2>1 DEF Tally
<1>3. CASE a # v.last
  <2> DEFINE w == RunEnds(v)
  <2>1. Meet(v, a) = [w EXCEPT !.last = a, !.run = 1]
    BY <1>3 DEF Meet
  <2>2. w \in Tally
    BY <1>1
  <2> HIDE DEF w
  <2>3. /\ Meet(v, a) \in Tally /\ Meet(v, a).last = a /\ Meet(v, a).run = 1
        /\ Meet(v, a).address = w.address /\ Meet(v, a).agreeing = w.agreeing
    <3>1. Meet(v, a) = [address |-> w.address, agreeing |-> w.agreeing, last |-> a, run |-> 1]
      BY <2>1, <2>2 DEF Tally
    <3> QED
      BY <2>2, <3>1 DEF Tally
  <2> QED
    BY <1>3, <2>3 DEF w
<1> QED
  BY <1>2, <1>3

\* How many of the addresses are a.
Votes(f, a) == Cardinality({i \in DOMAIN f : f[i] = a})

\* What the loop knows at position k of the sorted addresses: how much of the run it is in
\* lies behind it, and a longest of the runs before, or one as short as a single address.
Counted(f, k, v) ==
    /\ v \in Tally
    /\ v.last = Sorted(f)[k] /\ v.run = k - Below(f, v.last)
    /\ v.agreeing <= Votes(f, v.address)
    /\ \A a \in Nat : a < v.last => Votes(f, a) <= v.agreeing

(* Where another address follows, or none, the run is all there is of its address. *)
LEMMA RunIsWhole ==
    ASSUME NEW D, IsFiniteSet(D), NEW f \in [D -> Nat],
           NEW k \in 1..Cardinality(D), NEW v, Counted(f, k, v),
           k = UpTo(f, v.last)
    PROVE  LET best == RunEnds(v)
           IN  /\ best \in Tally
               /\ best.agreeing <= Votes(f, best.address)
               /\ \A a \in Nat : a <= v.last => Votes(f, a) <= best.agreeing
<1> DEFINE best == RunEnds(v)
<1>1. /\ v \in Tally /\ v.run = k - Below(f, v.last)
      /\ v.agreeing <= Votes(f, v.address)
      /\ \A a \in Nat : a < v.last => Votes(f, a) <= v.agreeing
  BY DEF Counted
<1>2. v.last \in Nat /\ v.run \in Nat /\ v.agreeing \in Nat /\ k \in Nat
  BY <1>1, FS_CardinalityType DEF Tally
<1>3. /\ Below(f, v.last) \in Nat
      /\ UpTo(f, v.last) = Below(f, v.last) + Votes(f, v.last)
      /\ \A a \in Nat : Votes(f, a) \in Nat
  <2>1. \A a \in Nat : Below(f, a) \in Nat /\ UpTo(f, a) = Below(f, a) + Votes(f, a)
    BY CountsAre DEF Votes
  <2>2. \A a \in Nat : Votes(f, a) \in Nat
    <3> TAKE a \in Nat
    <3>1. {i \in D : f[i] = a} \in SUBSET D
      OBVIOUS
    <3> QED
      BY <3>1, FS_Subset, FS_CardinalityType DEF Votes
  <2> QED
    BY <1>2, <2>1, <2>2
<1>4. v.run = Votes(f, v.last)
  BY <1>1, <1>2, <1>3
<1>5. /\ best \in Tally
      /\ \/ v.run > v.agreeing /\ best.address = v.last /\ best.agreeing = v.run
         \/ v.run <= v.agreeing /\ best.address = v.address /\ best.agreeing = v.agreeing
  BY <1>1, RunEndsIs
<1> HIDE DEF best
<1>6. best.agreeing <= Votes(f, best.address)
  BY <1>1, <1>2, <1>3, <1>4, <1>5
<1>7. ASSUME NEW a \in Nat, a <= v.last PROVE Votes(f, a) <= best.agreeing
  <2>1. a = v.last \/ Votes(f, a) <= v.agreeing
    BY <1>1, <1>2, <1>7
  <2> QED
    BY <1>2, <1>3, <1>4, <1>5, <2>1
<1> QED
  BY <1>5, <1>6, <1>7 DEF best

(* The loop has counted rightly at each position. *)
LEMMA LoopCounts ==
    ASSUME NEW D, IsFiniteSet(D), NEW f \in [D -> Nat], NEW k \in 1..Cardinality(D)
    PROVE  Counted(f, k, Met(Sorted(f))[k])
<1> DEFINE n == Cardinality(D)
           s == Sorted(f)
<1>1. n \in Nat /\ s \in Seq(Nat) /\ Len(s) = n
  BY SortedIs, FS_CardinalityType
<1>2. \A j \in 1..n : s[j] \in Nat /\ Below(f, s[j]) < j /\ j <= UpTo(f, s[j])
  BY SortedIs
<1>3. \A a \in Nat : /\ Below(f, a) \in Nat /\ UpTo(f, a) \in Nat /\ UpTo(f, a) <= n
                   /\ UpTo(f, a) = Below(f, a) + Votes(f, a)
  BY CountsAre DEF Votes
<1>4. \A a, b \in Nat : a < b => UpTo(f, a) <= Below(f, b)
  BY CountsAre
<1>5. \A a \in Nat : Votes(f, a) \in Nat
  <2> TAKE a \in Nat
  <2>1. {i \in D : f[i] = a} \in SUBSET D
    OBVIOUS
  <2> QED
    BY <2>1, FS_Subset, FS_CardinalityType DEF Votes
<1> HIDE DEF n, s
<1>6. ASSUME 1 \in 1..n PROVE Counted(f, 1, Met(s)[1])
  <2>1. Met(s)[1] = [address |-> s[1], agreeing |-> 1, last |-> s[1], run |-> 1]
    BY <1>1, <1>6, MetIs DEF FirstMet
  <2>2. s[1] \in Nat /\ Below(f, s[1]) = 0 /\ 1 <= UpTo(f, s[1])
    BY <1>2, <1>3, <1>6
  <2>3. 1 <= Votes(f, s[1])
    BY <1>3, <1>5, <2>2
  <2>4. ASSUME NEW a \in Nat, a < s[1] PROVE Votes(f, a) <= 1
    <3>1. UpTo(f, a) <= 0
      BY <1>4, <2>2, <2>4
    <3> QED
      BY <1>3, <1>5, <3>1
  <2> QED
    BY <2>1, <2>2, <2>3, <2>4 DEF Counted, Tally, s
<1>7. ASSUME NEW j \in 1..n, j # 1, Counted(f, j - 1, Met(s)[j - 1]) PROVE Counted(f, j, Met(s)[j])
  <2> DEFINE v == Met(s)[j - 1]
             a == s[j]
             w == Meet(v, a)
  <2>1. j - 1 \in 1..n /\ j \in Nat
    BY <1>1, <1>7
  <2>2. Met(s)[j] = w
    BY <1>1, <1>7, MetIs
  <2>3. /\ v \in Tally /\ v.last = s[j - 1] /\ v.run = j - 1 - Below(f, v.last)
        /\ v.agreeing <= Votes(f, v.address)
        /\ \A b \in Nat : b < v.last => Votes(f, b) <= v.agreeing
    BY <1>7 DEF Counted, s
  <2>4. a \in Nat /\ Below(f, a) < j /\ j <= UpTo(f, a)
    BY <1>2
  <2>5. v.last \in Nat /\ Below(f, v.last) < j - 1 /\ j - 1 <= UpTo(f, v.last)
    BY <1>2, <2>1, <2>3
  <2>6. /\ Below(f, a) \in Nat /\ UpTo(f, a) \in Nat
        /\ Below(f, v.last) \in Nat /\ UpTo(f, v.last) \in Nat
    BY <1>3, <2>4, <2>5
  <2>7. w \in Tally /\ w.last = a
        /\ IF a = v.last
           THEN w.run = v.run + 1 /\ w.address = v.address /\ w.agreeing = v.agreeing
           ELSE w.run = 1 /\ w.address = RunEnds(v).address /\ w.agreeing = RunEnds(v).agreeing
    BY <2>3, <2>4, MeetIs
  <2> HIDE DEF v, a, w
  <2>8. CASE a = v.last
    <3>1. w.run = j - Below(f, a)
      BY <2>1, <2>3, <2>6, <2>7, <2>8
    <3> QED
      BY <2>2, <2>3, <2>7, <2>8, <3>1 DEF Counted, s, a
  <2>9. CASE a # v.last
    <3>1. v.last < a
      <4> SUFFICES ASSUME a < v.last PROVE FALSE
        BY <2>4, <2>5, <2>9
      <4>1. UpTo(f, a) <= Below(f, v.last)
        BY <1>4, <2>4, <2>5
      <4> QED
        BY <2>1, <2>4, <2>5, <2>6, <4>1
    <3>2. UpTo(f, v.last) <= Below(f, a)
      BY <1>4, <2>4, <2>5, <3>1
    <3>3. UpTo(f, v.last) = j - 1 /\ Below(f, a) = j - 1
      BY <2>1, <2>4, <2>5, <2>6, <3>2
    <3>4. /\ RunEnds(v).agreeing <= Votes(f, RunEnds(v).address)
          /\ RunEnds(v) \in Tally
          /\ \A b \in Nat : b <= v.last => Votes(f, b) <= RunEnds(v).agreeing
      <4>1. Counted(f, j - 1, v) /\ j - 1 = UpTo(f, v.last) /\ j - 1 \in 1..Cardinality(D)
        BY <1>7, <2>1, <3>3 DEF v, n
      <4> QED
        BY <4>1, RunIsWhole
    <3>5. ASSUME NEW b \in Nat, b < a PROVE Votes(f, b) <= w.agreeing
      <4>1. CASE b <= v.last
        BY <2>7, <2>9, <3>4, <4>1
      <4>2. CASE ~ (b <= v.last)
        <5>1. UpTo(f, v.last) <= Below(f, b) /\ UpTo(f, b) <= Below(f, a)
          BY <1>4, <2>4, <2>5, <3>5, <4>2
        <5>2. Below(f, b) \in Nat /\ UpTo(f, b) = Below(f, b) + Votes(f, b) /\ Votes(f, b) \in Nat
          BY <1>3, <1>5
        <5>3. Votes(f, b) = 0
          BY <2>1, <3>3, <5>1, <5>2
        <5>4. w.agreeing \in Nat
          BY <2>7 DEF Tally
        <5> QED
          BY <5>3, <5>4
      <4> QED
        BY <4>1, <4>2
    <3>6. w.run = j - Below(f, a)
      BY <2>1, <2>7, <2>9, <3>3
    <3> QED
      BY <2>2, <2>7, <2>9, <3>4, <3>5, <3>6 DEF Counted, s, a
  <2> QED
    BY <2>8, <2>9
<1> DEFINE Wrong == {j \in 1..n : ~ Counted(f, j, Met(s)[j])}
<1>8. Wrong = {}
  <2> SUFFICES ASSUME Wrong # {} PROVE FALSE
    OBVIOUS
  <2>1. Wrong \in SUBSET Nat
    BY <1>1
  <2>2. PICK j \in Wrong : \A i \in Wrong : j <= i
    <3> HIDE DEF Wrong
    <3> QED
      BY <2>1, LeastIs, Zenon
  <2>3. j \in 1..n /\ ~ Counted(f, j, Met(s)[j])
    BY <2>2
  <2>4. j # 1
    BY <1>6, <2>3
  <2>5. j - 1 \in 1..n /\ ~ (j <= j - 1)
    BY <1>1, <2>3, <2>4
  <2>6. Counted(f, j - 1, Met(s)[j - 1])
    BY <2>2, <2>5
  <2> QED
    BY <1>7, <2>3, <2>4, <2>6
<1> QED
  BY <1>8 DEF n, s

(* The address voted for has as many votes as the vote says, and no address has more. *)
LEMMA BestHasMost ==
    ASSUME NEW D, IsFiniteSet(D), NEW f \in [D -> Nat], Cardinality(D) # 0
    PROVE  LET best == LastRunEnds(Met(Sorted(f))[Len(Sorted(f))])
           IN  /\ best.address \in Nat /\ best.agreeing \in Nat
               /\ best.agreeing <= Votes(f, best.address)
               /\ \A a \in Nat : Votes(f, a) <= best.agreeing
<1> DEFINE n == Cardinality(D)
           v == Met(Sorted(f))[n]
           best == RunEnds(v)
<1>1. n \in Nat /\ n \in 1..n /\ Len(Sorted(f)) = n
  BY FS_CardinalityType, SortedIs
<1>2. Counted(f, n, v)
  BY <1>1, LoopCounts
<1>3. v.last \in Nat /\ n <= UpTo(f, v.last)
  BY <1>1, <1>2, SortedIs DEF Counted
<1>4. n = UpTo(f, v.last)
  <2>1. \A a \in Nat : UpTo(f, a) \in Nat /\ UpTo(f, a) <= n
    BY CountsAre
  <2> HIDE DEF n, v
  <2>2. UpTo(f, v.last) \in Nat /\ UpTo(f, v.last) <= n
    BY <1>3, <2>1
  <2> QED
    BY <1>1, <1>3, <2>2
<1>5. /\ best \in Tally
      /\ best.agreeing <= Votes(f, best.address)
      /\ \A a \in Nat : a <= v.last => Votes(f, a) <= best.agreeing
  <2> HIDE DEF v
  <2> QED
    BY <1>1, <1>2, <1>4, RunIsWhole
<1> HIDE DEF v, best
<1>6. best.address \in Nat /\ best.agreeing \in Nat
  BY <1>5 DEF Tally
<1>7. ASSUME NEW a \in Nat, ~ (a <= v.last) PROVE Votes(f, a) <= best.agreeing
  <2>1. UpTo(f, v.last) <= Below(f, a)
    BY <1>3, <1>7, CountsAre
  <2>2. /\ Below(f, a) \in Nat /\ UpTo(f, a) \in Nat /\ UpTo(f, a) <= n
        /\ UpTo(f, a) = Below(f, a) + Votes(f, a)
    BY CountsAre DEF Votes
  <2>3. {i \in D : f[i] = a} \in SUBSET D
    OBVIOUS
  <2>4. Votes(f, a) \in Nat
    BY <2>3, FS_Subset, FS_CardinalityType DEF Votes
  <2>5. Votes(f, a) = 0
    BY <1>1, <1>4, <2>1, <2>2, <2>4
  <2> QED
    BY <1>6, <2>5
<1> QED
  BY <1>1, <1>5, <1>6, <1>7 DEF best, v, n, LastRunEnds

-----------------------------------------------------------------------------
(* The theorems.                                                           *)

(* The invariant holds in every reachable state. *)
THEOREM Inductive == Spec => []IInv
BY Initially, Invariance, PTL DEF Spec

(* Every variable of the frontend and of the engine's pointer scanner stays in its type. *)
THEOREM TypeCorrect == Spec => []TypeOK
<1>1. IInv => TypeOK
  BY DEF IInv
<1> QED
  BY <1>1, Inductive, PTL

(* Once a fetch is complete the frontend's chains are the engine's, at the same places,  *)
(* of the same width, whatever was refused, cleared, reattached or rescanned before.     *)
THEOREM MirrorAgrees == Spec => []ChainsAgree
<1>1. IInv => ChainsAgree
  BY DEF IInv
<1> QED
  BY <1>1, Inductive, PTL

(* No address shown was read with pointers of the wrong width. *)
THEOREM AddressesStraight == Spec => []NeverAstray
<1>1. IInv => NeverAstray
  BY DEF IInv
<1> QED
  BY <1>1, Inductive, PTL

(* Of the stored chains a rescan drops those it has read rightly in the attached process *)
(* and found to lead elsewhere, and no others.                                           *)
THEOREM RescanDropsOnlyMisses == Spec => DropsOnlyMisses
<1> DEFINE Misses == \A a \in Addresses : Rescan(a) =>
                       \A c \in Range(chains) \ Range(chains') :
                          Width[attached] = chainSize /\ AddressIn[<<attached, layout[attached], c>>] # a
<1>1. IInv /\ [Next]_vars => [Misses]_vars
  <2> SUFFICES ASSUME IInv, NEW a \in Addresses, Rescan(a), NEW c \in Range(chains), c \notin Range(chains')
               PROVE  Width[attached] = chainSize /\ AddressIn[<<attached, layout[attached], c>>] # a
    BY Zenon
  <2>1. /\ attached # None /\ chains # <<>> /\ chainSize \in {0, Width[attached]}
        /\ Range(chains') = {d \in Range(chains) : Resolve(attached, d) = a}
    BY DEF Rescan, HandleRescan
  <2>2. chainSize = Width[attached]
    BY <2>1 DEF IInv, WidthKnown
  <2>3. Resolve(attached, c) # a
    BY <2>1
  <2>4. Resolve(attached, c) = AddressIn[<<attached, layout[attached], c>>]
    BY <2>1, <2>2 DEF Resolve, WidthOf, Walk
  <2> QED
    BY <2>2, <2>3, <2>4
<1> QED
  BY <1>1, Inductive, PTL DEF Spec, DropsOnlyMisses

(* The addresses of a list without those that lead nowhere: the majority among them is *)
(* decided by the vote, which finds it if there is one.                                *)
LEMMA VoteIsRight ==
    ASSUME resolved \in Seq(Nat \cup {None, Astray}), NeverAstray
    PROVE  /\ Decisive(Vote(resolved)) =>
                 2 * Cardinality(LeadTo(Vote(resolved).address)) > Cardinality(Leading)
           /\ \A i \in Leading :
                 2 * Cardinality(LeadTo(resolved[i])) > Cardinality(Leading) =>
                    Vote(resolved).address = resolved[i]
<1> DEFINE D == {j \in DOMAIN resolved : resolved[j] # None}
           f == [i \in D |-> resolved[i]]
           best == LastRunEnds(Met(Sorted(f))[Len(Sorted(f))])
           n == Cardinality(D)
<1>1. D = Leading /\ DOMAIN f = D
  BY DEF Leading
<1>2. IsFiniteSet(D) /\ n \in Nat
  <2>1. DOMAIN resolved = 1..Len(resolved) /\ Len(resolved) \in Nat
    OBVIOUS
  <2>2. IsFiniteSet(DOMAIN resolved)
    BY <2>1, FS_Interval
  <2> QED
    BY <2>2, FS_Subset, FS_CardinalityType
<1>3. f \in [D -> Nat]
  <2>1. ASSUME NEW i \in D PROVE resolved[i] \in Nat
    BY DEF NeverAstray, Range
  <2> QED
    BY <2>1
<1>4. \A a \in Nat : Votes(f, a) = Cardinality(LeadTo(a)) /\ Votes(f, a) \in Nat
  <2> TAKE a \in Nat
  <2>1. {i \in D : f[i] = a} = LeadTo(a) /\ {i \in D : f[i] = a} \in SUBSET D
    BY ChainsAssumption DEF LeadTo
  <2> QED
    BY <1>1, <1>2, <2>1, FS_Subset, FS_CardinalityType DEF Votes
<1>5. Len(Sorted(f)) = n /\ (Sorted(f) = <<>> <=> n = 0)
  <2>1. Sorted(f) \in Seq(Nat) /\ Len(Sorted(f)) = n
    BY <1>2, <1>3, SortedIs
  <2> QED
    BY <2>1
<1>6. Vote(resolved) = IF n = 0 THEN [address |-> None, agreeing |-> 0, of |-> 0]
                       ELSE [address |-> best.address, agreeing |-> best.agreeing, of |-> n]
  BY <1>5 DEF Vote
<1>7. n # 0 => /\ best.address \in Nat /\ best.agreeing \in Nat
               /\ best.agreeing <= Votes(f, best.address)
               /\ \A a \in Nat : Votes(f, a) <= best.agreeing
  BY <1>2, <1>3, BestHasMost
<1> HIDE DEF f, best, n, D
<1>8. ASSUME Decisive(Vote(resolved))
      PROVE  2 * Cardinality(LeadTo(Vote(resolved).address)) > Cardinality(Leading)
  <2>1. n # 0
    BY <1>6, <1>8 DEF Decisive
  <2>2. Vote(resolved).address = best.address /\ best.agreeing * 2 > n
    BY <1>6, <1>8, <2>1 DEF Decisive
  <2>3. best.agreeing <= Cardinality(LeadTo(best.address)) /\ Cardinality(LeadTo(best.address)) \in Nat
    BY <1>4, <1>7, <2>1
  <2> QED
    BY <1>1, <1>2, <1>7, <2>1, <2>2, <2>3 DEF n
<1>9. ASSUME NEW i \in Leading, 2 * Cardinality(LeadTo(resolved[i])) > Cardinality(Leading)
      PROVE  Vote(resolved).address = resolved[i]
  <2>1. resolved[i] \in Nat
    BY <1>1, <1>3 DEF f
  <2>2. n # 0
    BY <1>1, <1>2, FS_EmptySet DEF n
  <2>3. /\ best.address \in Nat /\ best.agreeing \in Nat
        /\ Votes(f, resolved[i]) <= best.agreeing
        /\ best.agreeing <= Votes(f, best.address)
    BY <1>7, <2>1, <2>2
  <2>4. best.address = resolved[i]
    <3> SUFFICES ASSUME best.address # resolved[i] PROVE FALSE
      OBVIOUS
    <3>1. LeadTo(best.address) \cap LeadTo(resolved[i]) = {}
      BY DEF LeadTo
    <3>2. LeadTo(best.address) \cup LeadTo(resolved[i]) \in SUBSET D
      BY <1>1, <2>1, <2>3, ChainsAssumption DEF LeadTo, Leading
    <3>3. /\ IsFiniteSet(LeadTo(best.address)) /\ IsFiniteSet(LeadTo(resolved[i]))
          /\ Cardinality(LeadTo(best.address) \cup LeadTo(resolved[i])) <= n
      BY <1>2, <3>2, FS_Subset DEF n
    <3>4. Cardinality(LeadTo(best.address) \cup LeadTo(resolved[i]))
            = Cardinality(LeadTo(best.address)) + Cardinality(LeadTo(resolved[i]))
      <4>1. Cardinality(LeadTo(best.address) \cup LeadTo(resolved[i]))
              = Cardinality(LeadTo(best.address)) + Cardinality(LeadTo(resolved[i])) - Cardinality({})
        BY <3>1, <3>3, FS_Union
      <4>2. Cardinality(LeadTo(best.address)) \in Nat /\ Cardinality(LeadTo(resolved[i])) \in Nat
        BY <3>3, FS_CardinalityType
      <4> QED
        BY <4>1, <4>2, FS_EmptySet
    <3>5. Votes(f, best.address) = Cardinality(LeadTo(best.address))
          /\ Votes(f, resolved[i]) = Cardinality(LeadTo(resolved[i]))
          /\ Votes(f, best.address) \in Nat /\ Votes(f, resolved[i]) \in Nat
      BY <1>4, <2>1, <2>3
    <3>6. 2 * Votes(f, resolved[i]) > n
      BY <1>1, <1>9, <3>5 DEF n
    <3>7. Votes(f, best.address) + Votes(f, resolved[i]) <= n
      BY <3>3, <3>4, <3>5
    <3> QED
      BY <1>2, <2>3, <3>5, <3>6, <3>7 DEF n
  <2> QED
    BY <1>6, <2>2, <2>4
<1> QED
  BY <1>8, <1>9

(* A profile is written only to an address that most chains which lead anywhere agree on, *)
(* and such an address is found, whatever the number of chains and their addresses.       *)
THEOREM MajorityFound == Spec => []MajorityRules
<1> DEFINE Agreed == written # None => 2 * Cardinality(LeadTo(written)) > Cardinality(Leading)
<1>1. Init => Agreed
  BY DEF Init
<1>2. IInv /\ Agreed /\ [Next]_vars => Agreed'
  <2> SUFFICES ASSUME IInv, Agreed, [Next]_vars, written' # None PROVE Agreed'
    OBVIOUS
  <2>1. CASE ProfileWrite
    <3>1. UNCHANGED resolved
      BY <2>1 DEF ProfileWrite, RefreshContext
    <3>2. 2 * Cardinality(LeadTo(written')) > Cardinality(Leading)
      BY <2>1, VoteIsRight DEF ProfileWrite, IInv, TypeOK
    <3> QED
      BY <3>1, <3>2 DEF LeadTo, Leading
  <2>2. CASE UNCHANGED vars
    BY <2>2 DEF vars, mirrorVars, LeadTo, Leading
  <2> QED
    BY <2>1, <2>2 DEF Next
<1>3. IInv /\ Agreed => MajorityRules
  BY VoteIsRight DEF IInv, TypeOK, MajorityRules
<1> QED
  BY <1>1, <1>2, <1>3, Inductive, PTL DEF Spec
=============================================================================
