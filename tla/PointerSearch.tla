---------------------------- MODULE PointerSearch ----------------------------
(***************************************************************************)
(* The search for pointer chains: a chain starts at a slot of a module,    *)
(* follows the pointer there, adds an offset, and so on to the target.     *)
(* PointerScanner (src/src/PointerScanner.cpp) either reads all memory     *)
(* into an index and searches that depth first (PointerAlgorithms.cpp), or *)
(* reads all memory once for each level, going back from the target.       *)
(* Captured indexes are kept in map files and compared over restarts of    *)
(* the target (PointerMap.cpp).                                            *)
(*                                                                         *)
(* Memory is a row of pointer-sized slots, read part by part; the target   *)
(* writes it between two reads, and of a part some pages, of a slot each,  *)
(* may be out of reach by the time it is read.  Offsets count slots.       *)
(* There is one module, elsewhere after a restart.  Chains are sorted and  *)
(* made unique at the end, so they are a set here.                         *)
(***************************************************************************)
EXTENDS Order, Sequences, SequencesExt

CONSTANTS Parts,          \* the slots, in the pieces in which they are read
          Writable,       \* the slots in writable memory
          ModuleSlots,    \* the length of the module
          Options,        \* PointerScanOptions: what a user may ask for
          Targets,        \* the addresses a user looks for
          Worlds,         \* what a restarted target may look like: memory and base
          MaxScans,       \* bound: commands
          MaxWrites,      \* bound: writes of the target
          MaxLosses,      \* bound: parts that were not read whole
          Absent

Slots == UNION {Parts[i] : i \in DOMAIN Parts}
Top == Cardinality(Slots)     \* the highest address there is, with nothing there
PointerValues == 0 .. Top

ASSUME PartsAscend ==
    /\ Slots = 0 .. (Cardinality(Slots) - 1)
    /\ \A i, j \in DOMAIN Parts : i < j => \A a \in Parts[i], b \in Parts[j] : a < b
ASSUME PointerLimits ==
    /\ ModuleSlots \in Nat \ {0} /\ {MaxScans, MaxWrites, MaxLosses} \subseteq Nat
    /\ \A o \in Options : /\ {o.depth, o.chains, o.index, o.perNode, o.work} \subseteq Nat \ {0}
                          /\ {o.offset, o.negative} \subseteq Nat
ASSUME PointerTypes ==
    /\ IsFiniteSet(Slots) /\ Parts \in Seq(SUBSET Slots)
    /\ Absent \notin Int /\ Targets \subseteq PointerValues
    /\ \A w \in Worlds : w.memory \in [Slots -> PointerValues] /\ w.base \in Slots

VARIABLES slots,      \* the target's memory
          base,       \* where its module is
          find,       \* the search or capture going on, or Absent
          index,      \* index_
          frontier,   \* currentNodes, with what arena keeps of each
          next,       \* nextNodes
          seen,       \* parentsSeen of the frontier
          chains,     \* chains_
          cut,        \* a limit was met: chainsTruncated, indexTruncated
          saved,      \* the pointer-map files
          maps,       \* the maps loaded
          scans, writes, losses,
          leads,      \* the worlds in which the chains must lead to a target; properties only
          outcome     \* how the last search went; properties only

searchVars == <<slots, base, find, index, frontier, next, seen, chains, cut, saved, maps,
                scans, writes, losses, leads, outcome>>

LeastOf(S) == CHOOSE x \in S : \A y \in S : x <= y
Distance(a, b) == IF a < b THEN b - a ELSE a - b
Static(a, at) == a \in at .. (at + ModuleSlots - 1)

\* The addresses from so far below x to so far above it, within the address space.
Window(x, below, above) ==
    (IF x >= below THEN x - below ELSE 0) .. (IF above > Top - x THEN Top ELSE x + above)

Link(v, at, o) == IF v <= at THEN at - v <= o.offset ELSE v - at <= o.negative

World(target) == [memory |-> slots, base |-> base, target |-> target]

\* The address that offsets lead to from address a.
Trail(a, offsets, memory) ==
    LET at[k \in 0 .. Len(offsets)] ==
          IF k = 0 THEN a
          ELSE IF at[k - 1] \in DOMAIN memory THEN memory[at[k - 1]] + offsets[k] ELSE Absent
    IN  at[Len(offsets)]

\* resolve: where chain c leads, in a memory or in the entries of a map.
Follow(c, from, memory) ==
    IF c.root >= ModuleSlots THEN Absent ELSE Trail(from + c.root, c.offsets, memory)

\* readPointer
Resolve(c, w) == Follow(c, w.base, w.memory)

\* resolvePointerChainInMap
ResolveInMap(c, m) ==
    Follow(c, m.base, [a \in {e.address : e \in m.entries} |->
                          (CHOOSE e \in m.entries : e.address = a).value])

\* A map whose entries are what was in each memory it was captured from.
TrueMap(m) ==
    /\ m.base \in Slots /\ m.target \in Nat
    /\ m.entries \in SUBSET [value : PointerValues, address : Slots] /\ IsFiniteSet(m.entries)
    /\ \A w \in m.truth : /\ w.memory \in [Slots -> PointerValues]
                          /\ w.base = m.base /\ w.target = m.target
                          /\ \A e \in m.entries : w.memory[e.address] = e.value

-----------------------------------------------------------------------------
(* findPointerChains                                                       *)

\* Where e is looked at before f: closest to the wanted address first, from below on a tie.
Sooner(e, f, at) ==
    \/ Distance(e.value, at) < Distance(f.value, at)
    \/ /\ Distance(e.value, at) = Distance(f.value, at)
       /\ \/ e.value < at /\ f.value >= at
          \/ e.value < at /\ f.value < at /\ e.address > f.address
          \/ e.value >= at /\ f.value >= at /\ e.address < f.address

Nearby(entries, at, o) ==
    OrderedBy({e \in entries : e.value \in Window(at, o.offset, o.negative) /\ Link(e.value, at, o)},
              LAMBDA e, f : Sooner(e, f, at))

\* Mutant: one chain more than the limit.
FullLate(a, o) == Cardinality(a.chains) > o.chains

Full(a, o) == Cardinality(a.chains) >= o.chains
Spent(a, o) == a.work >= o.work

Chains == [root : Nat, offsets : Seq(Int)]

\* What a search has found, the work it took, whether a limit was met, that of pointers near a
\* node among them, and whether the node at hand is to be left.
Accounts == [chains : SUBSET Chains, work : Nat, cut : BOOLEAN, crowded : BOOLEAN, stop : BOOLEAN]

\* A node to search from, with the account so far.
Calls == [at : Nat, tail : Seq(Int), path : Seq(Nat), account : Accounts]

\* The account b after the k-th pointer near a node, with so many levels of the depth left;
\* deeper searches a node one level down.  The node is left as soon as a limit is met.
Tried(b, k, order, call, from, o, levels, deeper) ==
    LET e       == order[k]
        c       == [b EXCEPT !.work = @ + 1]
        offsets == <<call.at - e.value>> \o call.tail
    IN  IF b.stop THEN b
        ELSE IF k > o.perNode \/ c.work > o.work
        THEN [c EXCEPT !.cut = TRUE, !.crowded = @ \/ k > o.perNode, !.stop = TRUE]
        ELSE IF e.address \in Range(call.path) THEN c
        ELSE IF Static(e.address, from)
        THEN LET d == [c EXCEPT !.chains = @ \cup {[root |-> e.address - from, offsets |-> offsets]}]
             IN  IF Full(d, o) THEN [d EXCEPT !.cut = TRUE, !.stop = TRUE] ELSE d
        ELSE IF levels = 1 THEN c
        ELSE LET d == deeper[[at |-> e.address, tail |-> offsets,
                              path |-> Append(call.path, e.address), account |-> c]]
             IN  [d EXCEPT !.stop = Full(d, o) \/ Spent(d, o)]

SearchNode(entries, from, o, levels, deeper) ==
    [call \in Calls |->
        LET order == Nearby(entries, call.at, o)
            a     == call.account
        IN  IF Full(a, o) \/ Spent(a, o) THEN [a EXCEPT !.cut = TRUE]
            ELSE [Loop([a EXCEPT !.stop = FALSE], Len(order),
                       LAMBDA b, k : Tried(b, k, order, call, from, o, levels, deeper)) EXCEPT !.stop = FALSE]]

\* dfs: what comes of a node, by the levels of the depth that are left.
Dfs(entries, from, o) ==
    Loop([call \in Calls |-> call.account], o.depth,
         LAMBDA deeper, levels : SearchNode(entries, from, o, levels, deeper))

FindChains(entries, from, target, o) ==
    Dfs(entries, from, o)[[at |-> target, tail |-> <<>>, path |-> <<target>>,
                           account |-> [chains |-> {}, work |-> 0, cut |-> FALSE, crowded |-> FALSE,
                                        stop |-> FALSE]]]

-----------------------------------------------------------------------------
(* Commands.                                                               *)

Ready == find = Absent /\ scans < MaxScans /\ scans' = scans + 1

NoSearch == frontier' = <<>> /\ next' = <<>> /\ seen' = <<>>

\* The target itself, with no pointer to follow.
RootNode(target) == [at |-> target, path |-> <<target>>, offsets |-> <<>>, score |-> 0]

StartLevels(target) ==
    /\ frontier' = <<RootNode(target)>> /\ next' = <<>> /\ seen' = <<0>>

\* scan
Scan(target, o) ==
    /\ Ready
    /\ chains' = {} /\ cut' = FALSE /\ index' = {} /\ leads' = {} /\ outcome' = Absent
    /\ IF o.mode = "targeted" THEN StartLevels(target) ELSE NoSearch
    /\ find' = [for |-> "chains", phase |-> IF o.mode = "targeted" THEN "levels" ELSE "index",
                target |-> target, o |-> o, part |-> 1, missed |-> {}, gone |-> {}, writes |-> writes]
    /\ UNCHANGED <<slots, base, saved, maps, writes, losses>>

\* captureIndex for pmap-capture: the chains stay.
Capture(target, o) ==
    /\ Ready
    /\ index' = {} /\ cut' = FALSE
    /\ find' = [for |-> "map", phase |-> "index", target |-> target, o |-> o, part |-> 1,
                missed |-> {}, gone |-> {}, writes |-> writes]
    /\ outcome' = Absent
    /\ UNCHANGED <<slots, base, frontier, next, seen, chains, saved, maps, writes, losses, leads>>

\* Which pages of the part at hand may be out of reach by the time it is read.
MayBeGone ==
    IF find = Absent \/ find.part \notin DOMAIN Parts THEN {}
    ELSE IF losses < MaxLosses THEN SUBSET Parts[find.part] ELSE {{}}

\* ReadProcessMemory of some slots while those gone are out of reach: a read that meets one
\* brings what is before it, or nothing.  The large read is not repeated once it has brought
\* something; otherwise each page is read by itself, with the first bytes of the next one.
Brought(asked, gone, short) ==
    LET before == {a \in asked : \A g \in gone : a < g} IN
    IF ~short THEN {a \in asked \ gone : a + 1 \notin gone}
    ELSE IF before # {} THEN before ELSE asked \ gone

\* A part has been read, as the last one or not; missed and gone are for properties only.
PartRead(asked, gone, short, last) ==
    /\ gone \subseteq asked
    /\ losses' = IF gone = {} THEN losses ELSE losses + 1
    /\ find' = [find EXCEPT !.part = IF last THEN Len(Parts) + 1 ELSE @ + 1,
                            !.missed = @ \cup (asked \ Brought(asked, gone, short)),
                            !.gone = @ \cup gone]

\* One part for buildIndex: what could be a pointer, up to the limit of the index.
IndexPart(gone, short) ==
    /\ find # Absent /\ find.phase = "index" /\ find.part \in DOMAIN Parts
    /\ LET asked  == {a \in Parts[find.part] : find.o.writable => a \in Writable}
           usable == {a \in Brought(asked, gone, short) : slots[a] \in Slots}
           room   == find.o.index - Cardinality(index)
           kept   == {a \in usable : Cardinality({b \in usable : b <= a}) <= room}
           full   == Cardinality(index') >= find.o.index
       IN /\ index' = index \cup {[value |-> slots[a], address |-> a] : a \in kept}
          /\ cut' = (cut \/ full)
          /\ PartRead(asked, gone, short, full)
    /\ UNCHANGED <<slots, base, frontier, next, seen, chains, saved, maps, scans, writes, leads, outcome>>

\* The world of the search, when nothing was written in it meanwhile.
Undisturbed == IF writes = find.writes THEN {World(find.target)} ELSE {}

Done(via, work) ==
    /\ find' = Absent
    /\ leads' = Undisturbed
    /\ outcome' = [o |-> find.o, via |-> via, work |-> work, missed |-> find.missed, gone |-> find.gone]

\* The index is searched; a search that may choose goes on level by level without a chain, and
\* what is forgotten then is that the budget was met, not the other limits.
SearchIndex ==
    /\ find # Absent /\ find.phase = "index" /\ find.part > Len(Parts) /\ find.for = "chains"
    /\ LET found == FindChains(index, base, find.target, find.o) IN
         IF find.o.mode = "auto" /\ found.chains = {}
         THEN /\ StartLevels(find.target)
              /\ find' = [find EXCEPT !.phase = "levels", !.part = 1, !.missed = {}, !.gone = {}]
              /\ index' = {} /\ cut' = (cut \/ found.crowded)
              /\ UNCHANGED <<chains, leads, outcome>>
         ELSE /\ chains' = found.chains
              /\ cut' = (cut \/ found.cut)
              /\ Done("index", found.work)
              /\ UNCHANGED <<index, frontier, next, seen>>
    /\ UNCHANGED <<slots, base, saved, maps, scans, writes, losses>>

\* savePointerMap
SaveMap ==
    /\ find # Absent /\ find.phase = "index" /\ find.part > Len(Parts) /\ find.for = "map"
    /\ saved' = saved \cup {[base |-> base, target |-> find.target, entries |-> index, complete |-> ~cut,
                             truth |-> Undisturbed]}
    /\ index' = {} /\ find' = Absent
    /\ UNCHANGED <<slots, base, frontier, next, seen, chains, cut, maps, scans, writes, losses, leads, outcome>>

-----------------------------------------------------------------------------
(* searchTargeted                                                          *)

\* Mutant: the filter asked for holds for modules, too.
LevelSlotsFiltered(part, o) == {a \in Parts[part] : o.writable => a \in Writable}

\* The regions read for a level: modules even where they cannot be written.
LevelSlots(part, o) == {a \in Parts[part] : o.writable => a \in Writable \/ Static(a, base)}

\* pickTarget: the nearest node in range; of two as near the one with less offset to go,
\* and then the one above.
Pick(v, o) ==
    LET near   == {n \in DOMAIN frontier : /\ frontier[n].at \in Window(v, o.negative, o.offset)
                                           /\ Link(v, frontier[n].at, o)}
        gap(n) == Distance(v, frontier[n].at)
        best   == {n \in near : \A m \in near : gap(n) <= gap(m)}
        light  == {n \in best : \A m \in best : frontier[n].score <= frontier[m].score}
    IN  {n \in light : \A m \in light : frontier[m].at <= frontier[n].at}

Node(slot, tail, offset) ==
    [at |-> slot, path |-> <<slot>> \o tail.path, offsets |-> <<offset>> \o tail.offsets,
     score |-> tail.score + Distance(offset, 0)]

\* processBuffer, for one slot
Visited(a, slot, o) ==
    LET v == slots[slot] IN
    IF a.stop \/ Pick(v, o) = {} THEN a
    ELSE LET n    == CHOOSE m \in Pick(v, o) : TRUE
             node == Node(slot, frontier[n], frontier[n].at - v)
             b    == [a EXCEPT !.seen[n] = @ + 1]
         IN  IF a.seen[n] >= o.perNode THEN [a EXCEPT !.cut = TRUE]
             ELSE IF slot \in Range(frontier[n].path) THEN a
             ELSE IF Static(slot, base)
             THEN LET c == [b EXCEPT !.chains = @ \cup {[root |-> slot - base, offsets |-> node.offsets]}]
                      full == Cardinality(c.chains) >= o.chains
                  IN  [c EXCEPT !.cut = @ \/ full, !.stop = full]
             ELSE IF Len(node.offsets) >= o.depth THEN b
             ELSE [b EXCEPT !.next = Append(@, node)]

\* sortAndDedupFrontier: by address; of two the one with less offset, then the older.
Deduped(nodes) ==
    LET best(n) == \A m \in DOMAIN nodes : nodes[m].at = nodes[n].at =>
                      nodes[n].score < nodes[m].score \/ (nodes[n].score = nodes[m].score /\ n <= m)
    IN  OrderedBy({nodes[n] : n \in {k \in DOMAIN nodes : best(k)}}, LAMBDA a, b : a.at < b.at)

LevelPart(gone, short) ==
    /\ find # Absent /\ find.phase = "levels" /\ find.part \in DOMAIN Parts
    /\ LET asked == LevelSlots(find.part, find.o)
           order == Ordered(Brought(asked, gone, short))
           after == Loop([chains |-> chains, next |-> next, seen |-> seen, cut |-> cut, stop |-> FALSE],
                         Len(order), LAMBDA a, k : Visited(a, order[k], find.o))
       IN /\ chains' = after.chains /\ next' = after.next /\ seen' = after.seen /\ cut' = after.cut
          /\ PartRead(asked, gone, short, after.stop)
    /\ UNCHANGED <<slots, base, index, frontier, saved, maps, scans, writes, leads, outcome>>

\* The first level with a chain is the last.
LevelEnds ==
    /\ find # Absent /\ find.phase = "levels" /\ find.part > Len(Parts)
    /\ IF chains # {} \/ next = <<>>
       THEN NoSearch /\ Done("levels", 0)
       ELSE /\ frontier' = Deduped(next)
            /\ seen' = [n \in DOMAIN frontier' |-> 0]
            /\ next' = <<>>
            /\ find' = [find EXCEPT !.part = 1]
            /\ UNCHANGED <<leads, outcome>>
    /\ UNCHANGED <<slots, base, index, chains, cut, saved, maps, scans, writes, losses>>

-----------------------------------------------------------------------------
(* The chains and the maps.                                                *)

\* rescan
Rescan(target) ==
    /\ Ready /\ chains # {}
    /\ chains' = {c \in chains : Resolve(c, World(target)) = target}
    /\ leads' = {World(target)} /\ outcome' = Absent
    /\ UNCHANGED <<slots, base, find, index, frontier, next, seen, cut, saved, maps, writes, losses>>

\* pmap-load, loadPointerMap
LoadMap(m) ==
    /\ Ready /\ m \notin Range(maps)
    /\ maps' = Append(maps, m)
    /\ UNCHANGED <<slots, base, find, index, frontier, next, seen, chains, cut, saved, writes, losses, leads, outcome>>

\* Mutant: a chain a map knows nothing of is kept.
HoldsUnlessWrong(c, m) == ResolveInMap(c, m) \in {m.target, Absent}

HoldsIn(c, m) == ResolveInMap(c, m) = m.target

\* The chains of one map that hold in the others, too.
SetCommon(first, rest, o) ==
    /\ LET found == FindChains(first.entries, first.base, first.target, o) IN
         /\ chains' = {c \in found.chains : \A m \in rest : HoldsIn(c, m)}
         /\ cut' = found.cut
    /\ index' = {}
    /\ leads' = UNION {m.truth : m \in {first} \cup rest}
    /\ outcome' = Absent
    /\ UNCHANGED <<slots, base, find, frontier, next, seen, saved, maps, writes, losses>>

\* pmap-compare, findCommonPointerChains
Compare(o) ==
    /\ Ready /\ maps # <<>>
    /\ SetCommon(maps[1], {maps[i] : i \in 2 .. Len(maps)}, o)

\* pmap-compare-files, findCommonPointerChainsStreaming: the maps loaded stay as they are.
CompareFiles(first, rest, o) ==
    /\ Ready /\ rest # {}
    /\ SetCommon(first, rest, o)

\* pmap-clear
ClearMaps ==
    /\ Ready /\ maps # <<>>
    /\ maps' = <<>>
    /\ UNCHANGED <<slots, base, find, index, frontier, next, seen, chains, cut, saved, writes, losses, leads, outcome>>

\* pointer-clear
ClearChains ==
    /\ Ready /\ chains # {}
    /\ index' = {} /\ chains' = {}
    /\ leads' = {} /\ outcome' = Absent
    /\ UNCHANGED <<slots, base, find, frontier, next, seen, cut, saved, maps, writes, losses>>

\* The target starts anew and is attached to: the chains stay, for a rescan.
PointerReattach(w) ==
    /\ Ready
    /\ slots' = w.memory /\ base' = w.base
    /\ index' = {}
    /\ UNCHANGED <<find, frontier, next, seen, chains, cut, saved, maps, writes, losses, leads, outcome>>

SlotWritten(a, v) ==
    /\ writes < MaxWrites /\ writes' = writes + 1
    /\ slots[a] # v /\ slots' = [slots EXCEPT ![a] = v]
    /\ UNCHANGED <<base, find, index, frontier, next, seen, chains, cut, saved, maps, scans, losses, leads, outcome>>

PointerInit ==
    /\ find = Absent /\ index = {} /\ frontier = <<>> /\ next = <<>> /\ seen = <<>>
    /\ chains = {} /\ cut = FALSE /\ maps = <<>>
    /\ leads = {} /\ outcome = Absent

PointerNext ==
    \/ \E target \in Targets, o \in Options : Scan(target, o) \/ Capture(target, o)
    \/ \E gone \in MayBeGone : \E short \in {FALSE, gone # {}} : IndexPart(gone, short) \/ LevelPart(gone, short)
    \/ SearchIndex \/ SaveMap \/ LevelEnds
    \/ \E target \in Targets : Rescan(target)
    \/ \E m \in saved : LoadMap(m)
    \/ \E o \in Options : Compare(o)
    \/ \E o \in Options, first \in saved : \E rest \in SUBSET (saved \ {first}) : CompareFiles(first, rest, o)
    \/ ClearMaps \/ ClearChains
    \/ \E w \in Worlds : PointerReattach(w)
    \/ \E a \in Slots, v \in PointerValues : SlotWritten(a, v)

-----------------------------------------------------------------------------
(* What there is to find, said without a search: rows of slots, each with  *)
(* a pointer near the next and the last near the target, the first alone   *)
(* in the module, no slot twice.                                           *)

Rows(w, o, eligible) ==
    LET rows[n \in 1 .. o.depth] ==
          IF n = 1 THEN {<<s>> : s \in {a \in eligible \ {w.target} : Link(w.memory[a], w.target, o)}}
          ELSE UNION {{<<s>> \o row : s \in {a \in eligible \ ({w.target} \cup Range(row)) :
                                                  Link(w.memory[a], row[1], o)}} :
                        row \in {r \in rows[n - 1] : ~Static(r[1], w.base)}}
    IN  UNION {{row \in rows[n] : Static(row[1], w.base)} : n \in 1 .. o.depth}

ChainOf(row, w) ==
    [root |-> row[1] - w.base,
     offsets |-> [i \in DOMAIN row |-> (IF i = Len(row) THEN w.target ELSE row[i + 1]) - w.memory[row[i]]]]

ChainsTo(w, o, eligible) == {ChainOf(row, w) : row \in Rows(w, o, eligible)}

PointerTypeOK ==
    /\ slots \in [Slots -> PointerValues] /\ base \in Slots
    /\ cut \in BOOLEAN /\ seen \in Seq(Nat) /\ Len(seen) = Len(frontier)
    /\ find # Absent => Cardinality(index) <= find.o.index
    /\ outcome # Absent => Cardinality(chains) <= outcome.o.chains

(* Whatever limits a search met, every chain it found leads to the target in the memory  *)
(* it was run on, and so does one that a rescan kept; every chain common to some maps    *)
(* leads to the target in each memory a map was captured from.  (Memory written during   *)
(* the search or the capture is excepted.)                                               *)
ChainsLead == find = Absent => \A c \in chains, w \in leads : Resolve(c, w) = w.target

\* Every chain the index could have had but for some slots, and every one the levels could.
InIndex(w, o, but) ==
    ChainsTo(w, o, {a \in Slots \ but : (o.writable => a \in Writable) /\ w.memory[a] \in Slots})
InLevels(w, o) == ChainsTo(w, o, {a \in Slots : o.writable => a \in Writable \/ Static(a, w.base)})

(* A search in still memory that met no limit found all there is.  With the index, that  *)
(* is every chain through the slots its reads brought; with the levels, if they were     *)
(* read whole, some chain if there is any, and only shortest ones.                       *)
SearchComplete ==
    outcome # Absent /\ ~cut => \A w \in leads :
        LET o == outcome.o IN
        IF outcome.via = "index"
        THEN outcome.work < o.work => chains = InIndex(w, o, outcome.missed)
        ELSE outcome.missed = {} =>
                /\ chains \subseteq InLevels(w, o)
                /\ InLevels(w, o) # {} => chains # {}
                /\ \A c \in chains, d \in InLevels(w, o) : Len(c.offsets) <= Len(d.offsets)

(* include/cw/PointerTypes.hpp of the work budget: hitting it marks the result as        *)
(* truncated; so an index search that left chains out says so.                           *)
BudgetIsTold ==
    outcome # Absent /\ ~cut => \A w \in leads :
        outcome.via = "index" => chains = InIndex(w, outcome.o, outcome.missed)

(* src/PointerScanner.cpp of a chunk that could not be read whole: it is read again page *)
(* by page so that one bad page does not hide pointers in the rest of it.  (A page that  *)
(* is read with the first bytes of the bad one is excepted.)                             *)
BadPageHidesNoOther ==
    outcome # Absent /\ ~cut => \A w \in leads :
        outcome.via = "index" /\ outcome.work < outcome.o.work =>
            InIndex(w, outcome.o, outcome.gone \cup {a \in Slots : a + 1 \in outcome.gone}) \subseteq chains
=============================================================================
