------------------------------- MODULE AobScan -------------------------------
(***************************************************************************)
(* The search for a byte pattern: AobScanner (src/src/AobScanner.cpp), the *)
(* "aob" commands of src/src/main.cpp with their search scopes, and the    *)
(* session file that keeps a pattern and its matches over a restart of the *)
(* target, when the one module there is may be loaded elsewhere.           *)
(*                                                                         *)
(* The frontend's copy of the matches is fetched after every scan and      *)
(* cleared when the engine's are (EngineFrontend.cpp), so there is one     *)
(* list here; an engine that dies meanwhile is ScanMirror's subject.       *)
(***************************************************************************)
EXTENDS Walk

CONSTANTS Patterns,     \* sequences of the sets of bytes a place accepts
          ModuleBases,  \* where the module may be loaded; None when it is not
          ModuleSize,
          MaxHits,      \* kMaxResults
          MaxSearches,  \* bound: commands
          Nothing

ASSUME AobLimits == MaxHits \in Nat \ {0} /\ MaxSearches \in Nat /\ ModuleSize \in Nat \ {0}
ASSUME AobTypes ==
    /\ Patterns \subseteq Seq(SUBSET (0 .. (Base - 1))) /\ <<>> \notin Patterns
    /\ Nothing \notin Int
    /\ \A b \in ModuleBases \ {Nothing} : b \in Nat /\ b .. (b + ModuleSize - 1) \subseteq Addresses

VARIABLES module,   \* the module's base in the attached process, or Nothing
          sought,   \* pattern_
          scope,    \* aobScope: the flags wanted and whether the module alone is searched
          hits,     \* results_
          searching,
          ahead,    \* the chunks still to come
          file,     \* the session file
          searches,
          sure,     \* matches that must be in the list; properties only
          never,    \* addresses that must not
          lasting   \* of the file's matches in the module those still true

aobVars == <<module, sought, scope, hits, searching, ahead, file, searches, sure, never, lasting>>

Scopes == {[flags |-> F, inModule |-> m] : F \in SUBSET {"executable"}, m \in BOOLEAN}
Everywhere == [flags |-> {}, inModule |-> FALSE]

\* matchAob
MatchesAt(pattern, a) == \A i \in DOMAIN pattern : memory[a + i - 1] \in pattern[i]

Reach(pattern, a) == a .. (a + Len(pattern) - 1)
InModule(a) == module # Nothing /\ a \in module .. (module + ModuleSize - 1)

\* The walk of a search: the user's range, cut to the module.
Cut(range) ==
    [low  |-> IF range.low < module THEN module ELSE range.low,
     high |-> IF range.high > module + ModuleSize - 1 THEN module + ModuleSize - 1 ELSE range.high]
WalkOf(s, range) ==
    LET r == IF s.inModule THEN Cut(range) ELSE range
    IN  [flags |-> s.flags, low |-> r.low, high |-> r.high]

\* aob and its variants refuse a module that is not there or not in range.
Possible(s, range) ==
    s.inModule => module # Nothing /\ Cut(range).low <= Cut(range).high

-----------------------------------------------------------------------------
Command == ~searching /\ searches < MaxSearches /\ searches' = searches + 1

TrueMatches(pattern, walk) ==
    {a \in Addresses : WithinOne(Reach(pattern, a), walk)
                       /\ (\A x \in Reach(pattern, a) : InReach(x)) /\ MatchesAt(pattern, a)}

BeginSearch(pattern, s, range) ==
    /\ Possible(s, range)
    /\ sought' = pattern /\ scope' = s
    /\ hits' = <<>>
    /\ searching' = TRUE
    /\ ahead' = Chunks(WalkOf(s, range))
    /\ LET matches == TrueMatches(pattern, WalkOf(s, range)) IN
         /\ sure' = IF Thorough(WalkOf(s, range)) THEN matches ELSE {}
         /\ never' = Addresses \ matches
    /\ UNCHANGED <<target, module, file, lasting>>

\* aob, aob-code, aob-module, aob-module-code; handleAobScan
Aob(pattern, s, range) == Command /\ BeginSearch(pattern, s, range)

\* scanBuffer
HitsIn(v) ==
    Ordered({v.base + o : o \in {p \in 0 .. (v.starts - 1) :
                p + Len(sought) <= v.size /\ MatchesAt(sought, v.base + p)}})

\* One chunk; the search ends with it when the list is full.
SearchChunk ==
    /\ searching /\ ahead # <<>>
    /\ LET visits == Visits(Head(ahead), Len(sought) - 1)
           all    == Loop(hits, Len(visits), LAMBDA list, i : list \o HitsIn(visits[i]))
       IN IF Len(all) >= MaxHits
          THEN hits' = SubSeq(all, 1, MaxHits) /\ ahead' = <<>> /\ sure' = {}
          ELSE hits' = all /\ ahead' = Tail(ahead) /\ UNCHANGED sure
    /\ UNCHANGED <<target, module, sought, scope, searching, file, searches, never, lasting>>

SearchEnds ==
    /\ searching /\ ahead = <<>>
    /\ searching' = FALSE
    /\ UNCHANGED <<target, module, sought, scope, hits, ahead, file, searches, sure, never, lasting>>

Blank == sought' = <<>> /\ hits' = <<>> /\ sure' = {} /\ never' = {}

\* aob-clear
AobClear ==
    /\ Command /\ sought # <<>>
    /\ Blank
    /\ scope' = Everywhere
    /\ UNCHANGED <<target, module, searching, ahead, file, lasting>>

\* The target ends and another one is attached to: the list goes, the scope stays.
AobReattach(base) ==
    /\ Command
    /\ module' = base /\ base # module
    /\ LET place(a) == IF base # Nothing /\ module # Nothing
                       THEN IF a \in base .. (base + ModuleSize - 1) THEN a - base + module
                            ELSE IF InModule(a) THEN a - module + base ELSE a
                       ELSE a
       IN memory' = [a \in Addresses |-> memory[place(a)]]
    /\ Blank
    /\ lasting' = IF base = Nothing THEN {} ELSE lasting
    /\ UNCHANGED <<lost, partial, changes, scope, searching, ahead, file>>

-----------------------------------------------------------------------------
(* The session file.                                                       *)

\* A match inside the module is kept by its distance from the module's base.
Saved(a) == IF InModule(a) THEN [relative |-> TRUE, value |-> a - module] ELSE [relative |-> FALSE, value |-> a]

\* aob-save, saveAobSession
AobSave ==
    /\ Command /\ sought # <<>>
    /\ file' = [pattern |-> sought, scope |-> scope, results |-> [i \in DOMAIN hits |-> Saved(hits[i])]]
    /\ lasting' = {a - module : a \in {b \in sure : InModule(b) /\ InModule(b + Len(sought) - 1)}}
    /\ UNCHANGED <<target, module, sought, scope, hits, searching, ahead, sure, never>>

\* EngineClientAobScanner::restore, handleAobRestore: the list takes the place of any other.
AobRestore(pattern, list) == sought' = pattern /\ hits' = list

\* One match of a file on top of those before; of a module that is not there it is skipped.
Rebased(list, r) ==
    IF ~r.relative THEN Append(list, r.value)
    ELSE IF module # Nothing /\ r.value < ModuleSize THEN Append(list, module + r.value) ELSE list

\* aob-load, loadAobSession
AobLoad ==
    /\ Command /\ file # Nothing
    /\ AobRestore(file.pattern,
                  Loop(<<>>, Len(file.results), LAMBDA list, i : Rebased(list, file.results[i])))
    /\ scope' = file.scope
    /\ sure' = IF module = Nothing THEN {} ELSE {module + o : o \in lasting}
    /\ never' = {}
    /\ UNCHANGED <<target, module, searching, ahead, file, lasting>>

\* aob-rerun
AobRerun(range) ==
    /\ Command /\ file # Nothing
    /\ BeginSearch(file.pattern, file.scope, range)

AobTargetWrites(a, b) ==
    /\ WriteByte(a, b)
    /\ sure' = {h \in sure : a \notin Reach(sought, h)}
    /\ never' = {h \in never : a \notin Reach(sought, h)}
    /\ lasting' = IF file = Nothing \/ module = Nothing THEN lasting
                  ELSE {o \in lasting : a \notin Reach(file.pattern, module + o)}
    /\ UNCHANGED <<module, sought, scope, hits, searching, ahead, file, searches>>

AobTargetPages(p) ==
    /\ LosePage(p) \/ RegainPage(p)
    /\ IF searching THEN sure' = {} /\ never' = {} ELSE UNCHANGED <<sure, never>>
    /\ UNCHANGED <<module, sought, scope, hits, searching, ahead, file, searches, lasting>>

-----------------------------------------------------------------------------
AobInit ==
    /\ module \in ModuleBases
    /\ sought = <<>> /\ scope = Everywhere /\ hits = <<>>
    /\ searching = FALSE /\ ahead = <<>> /\ file = Nothing
    /\ searches = 0 /\ sure = {} /\ never = {} /\ lasting = {}

AobNext ==
    \/ \E pattern \in Patterns, s \in Scopes, range \in Ranges : Aob(pattern, s, range)
    \/ SearchChunk \/ SearchEnds \/ AobClear
    \/ \E base \in ModuleBases : AobReattach(base)
    \/ AobSave \/ AobLoad
    \/ \E range \in Ranges : AobRerun(range)
    \/ \E a \in Addresses, b \in 0 .. (Base - 1) : AobTargetWrites(a, b)
    \/ \E p \in Pages : AobTargetPages(p)

-----------------------------------------------------------------------------
AobTypeOK ==
    /\ module \in ModuleBases /\ searching \in BOOLEAN
    /\ sought \in Patterns \cup {<<>>} /\ scope \in Scopes
    /\ hits \in Seq(Int) /\ Len(hits) <= MaxHits
    /\ file # Nothing => file.pattern \in Patterns /\ file.scope \in Scopes

(* Outside a search the list holds every place where the pattern was when the search     *)
(* came by, and none where it was not, whatever chunk or page it crosses; and a list     *)
(* loaded from a file points at the pattern where the module is now, as far as the       *)
(* module has kept it.                                                                   *)
AobExact ==
    ~searching =>
        /\ sure \subseteq Range(hits)
        /\ Range(hits) \cap never = {}
        /\ \A a \in sure : MatchesAt(sought, a)
        /\ never # {} => \A i \in 1 .. (Len(hits) - 1) : hits[i] < hits[i + 1]
=============================================================================
