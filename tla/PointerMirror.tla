---------------------------- MODULE PointerMirror ----------------------------
(***************************************************************************)
(* The pointer chains of a session, twice: in the engine (PointerScanner   *)
(* and EngineSession behind the handlers of src/src/EngineMain.cpp) and in *)
(* the frontend, whose EngineClientPointerScanner                          *)
(* (src/src/EngineFrontend.cpp) keeps a copy of the chains, with the       *)
(* address each one resolved to when its page was fetched.                 *)
(*                                                                         *)
(* A chain leads to an address that depends on the process and on what its *)
(* memory holds at the moment, its layout; read with pointers of the wrong *)
(* width it leads astray.  As in ScanMirror, a request and its answer are  *)
(* one step and the engine may die before each one.  The pointer index,    *)
(* which every discovery builds anew, is left out.                         *)
(***************************************************************************)
EXTENDS Mirrors

CONSTANTS Targets,    \* processes; one started again is another one
          Width,      \* the pointer width of each
          Layouts,    \* what the memory of a process may look like
          Chains,     \* numbered in the order of normalizeChains
          AddressIn,  \* where each chain leads, by target and layout
          Astray

ASSUME TargetsAssumption == None \notin Targets /\ Width \in [Targets -> {4, 8}]
ASSUME ChainsAssumption ==
    /\ Chains \subseteq Nat /\ IsFiniteSet(Chains)
    /\ AddressIn \in [Targets \X Layouts \X Chains -> Nat \cup {None}]
    /\ None \notin Nat /\ Astray \notin Nat /\ Astray # None

VARIABLES layout,     \* of each process
          context,    \* the process PointerScanner looks at
          chains,     \* chains_ of the engine
          chainSize,  \* chainPointerSize_ of the engine
          size,       \* pointerSize_ of EngineClientPointerScanner, whose chains_ is list
          listSize,   \* its chainPointerSize_
          resolved,   \* its resolved_
          fetching,   \* fetchChains is under way
          profile,    \* the command line has an activePointerProfile
          written     \* the address the last step wrote to or froze for it, or None

engineVars == <<alive, attached, context, chains, chainSize>>
mirrorVars == <<shown, size, list, listSize, resolved, fetching>>
vars == <<layout, engineVars, mirrorVars, profile, written>>

\* What normalizeChains leaves.
Lists == {l \in UNION {[1..n -> Chains] : n \in 0..Cardinality(Chains)} :
            \A i, j \in DOMAIN l : i < j => l[i] < l[j]}

\* Mutant: the width in bits, as the commands print it.
WidthInBits(p) == IF p = None THEN 0 ELSE 8 * Width[p]

WidthOf(p) == IF p = None THEN 0 ELSE Width[p]

-----------------------------------------------------------------------------
(* The engine's side of the requests.                                      *)

\* PointerScanner::resolve of a chain in process p.
Walk(p, c) ==
    CASE p = None              -> None
      [] Width[p] = chainSize  -> AddressIn[<<p, layout[p], c>>]
      [] OTHER                 -> Astray

\* Mutant: the width the chains were made for is forgotten.
ResolveAnyWidth(p, c) == Walk(p, c)

\* PointerScanner::resolve of a stored chain.
Resolve(p, c) == IF chainSize \in {0, WidthOf(p)} THEN Walk(p, c) ELSE None

\* attach lets the old process go first, keeps the chains, and does not mind when
\* refreshPointerContext finds no modules.
HandleAttach(p) ==
    /\ attached' \in {p, None}
    /\ context' \in {attached', None}
    /\ UNCHANGED <<chains, chainSize>>

HandleDetach ==
    /\ attached' = None /\ context' = None
    /\ UNCHANGED <<chains, chainSize>>

\* The answer is an error: no process, bad options, no modules or, for a rescan, chains of
\* the other width.
HandlerFails ==
    /\ context' \in {context, None, attached}
    /\ UNCHANGED <<attached, chains, chainSize>>

\* handlePointerCaptureIndex
HandleCaptureIndex ==
    /\ attached # None
    /\ context' = attached
    /\ UNCHANGED <<attached, chains, chainSize>>

\* handleSetPointerChains: chains of either width, whatever the engine is attached to.
HandleSetChains(newChains, newSize) ==
    /\ newSize \in {4, 8}
    /\ chains' = newChains /\ chainSize' = newSize
    /\ UNCHANGED <<attached, context>>

\* handlePointerClear, of the chains.
HandleClear ==
    /\ chains' = <<>> /\ chainSize' = 0
    /\ UNCHANGED <<attached, context>>

\* handlePointerDiscover; what is found is arbitrary.
HandleDiscover ==
    /\ attached # None
    /\ context' = attached
    /\ chains' \in Lists
    /\ chainSize' = Width[attached]
    /\ UNCHANGED attached

\* Mutant: a rescan does not look at the width.
HandleRescanAnyWidth(address) ==
    /\ attached # None /\ chains # <<>>
    /\ context' = attached
    /\ chains' \in Lists /\ Range(chains') = {c \in Range(chains) : Resolve(attached, c) = address}
    /\ UNCHANGED <<attached, chainSize>>

\* handlePointerRescan: of the stored chains those that lead to the address are kept.
HandleRescan(address) ==
    /\ attached # None /\ chains # <<>> /\ chainSize \in {0, Width[attached]}
    /\ context' = attached
    /\ chains' \in Lists /\ Range(chains') = {c \in Range(chains) : Resolve(attached, c) = address}
    /\ UNCHANGED <<attached, chainSize>>

\* handlePointerResults: the chains from an offset on, which may lie behind the last one,
\* and the addresses they lead to now.
HandleResults(offset) ==
    LET from == Min({offset, Len(chains)})
        page == SubSeq(chains, from + 1, Min({from + PageSize, Len(chains)}))
    IN  [chains    |-> page,
         addresses |-> [i \in 1..Len(page) |-> Resolve(context, page[i])],
         total     |-> Len(chains), size |-> WidthOf(context), chainSize |-> chainSize]

-----------------------------------------------------------------------------
(* The frontend.                                                           *)

Idle == ~fetching /\ UNCHANGED fetching

\* fetchChains up to its first request.
BeginFetch == list' = <<>> /\ resolved' = <<>> /\ fetching' = TRUE

\* EngineFrontendSession::attach.  Only the list of modules tells the pointer scanner of
\* the new process, and what the chains resolved to stays.
Attach(p) ==
    /\ Idle
    /\ alive
    /\ HandleAttach(p)
    /\ IF attached' = None
       THEN UNCHANGED <<shown, size>>
       ELSE shown' = p /\ size' \in {size, Width[p]}
    /\ UNCHANGED <<layout, alive, list, listSize, resolved>>

Detach ==
    /\ Idle
    /\ IF alive THEN HandleDetach /\ shown' = None
       ELSE UNCHANGED <<attached, context, chains, chainSize, shown>>
    /\ size' = 0 /\ resolved' = <<>>
    /\ UNCHANGED <<layout, alive, list, listSize>>

\* refreshPointerContext: the modules are listed again; the engine's context stays.
RefreshContext ==
    /\ Idle
    /\ alive /\ attached # None /\ shown # None
    /\ size' = WidthOf(shown)
    /\ UNCHANGED <<layout, engineVars, shown, list, listSize, resolved>>

CaptureIndex ==
    /\ Idle
    /\ alive /\ HandleCaptureIndex
    /\ size' = Width[attached]
    /\ UNCHANGED <<layout, alive, shown, list, listSize, resolved>>

Discover ==
    /\ ~fetching
    /\ alive /\ HandleDiscover
    /\ size' = Width[attached]
    /\ BeginFetch
    /\ UNCHANGED <<layout, alive, shown, listSize>>

\* Mutant: the frontend drops chains from its own list instead of fetching what is left.
RescanKeepsList(address) ==
    /\ Idle
    /\ alive /\ HandleRescan(address)
    /\ UNCHANGED <<layout, alive, shown, size, list, listSize, resolved>>

Rescan(address) ==
    /\ ~fetching
    /\ alive /\ HandleRescan(address)
    /\ BeginFetch
    /\ UNCHANGED <<layout, alive, shown, size, listSize>>

\* A request the engine refuses.
RequestFails ==
    /\ Idle
    /\ alive /\ HandlerFails
    /\ UNCHANGED <<layout, alive, mirrorVars>>

\* setChains, of the comparison of maps or of a file.
SetChains(newChains, newSize) ==
    /\ ~fetching
    /\ alive /\ HandleSetChains(newChains, newSize)
    /\ listSize' = newSize
    /\ BeginFetch
    /\ UNCHANGED <<layout, alive, shown, size>>

\* pointer-load refuses chains of the other width while the frontend takes itself to be
\* attached.
PointerLoad(newChains, newSize) ==
    /\ shown # None => newSize = Width[shown]
    /\ SetChains(newChains, newSize)

\* profile-load; a file without chains is refused.
ProfileLoad(newChains, newSize) ==
    /\ newChains # <<>>
    /\ PointerLoad(newChains, newSize)
    /\ profile' = TRUE

\* resolveActiveProfile, where a run of one address ends: it counts if it is longer.
RunEnds(v) == IF v.run > v.agreeing THEN [v EXCEPT !.address = v.last, !.agreeing = v.run] ELSE v

\* Mutant: only where another address follows.
LastRunForgotten(v) == v

LastRunEnds(v) == RunEnds(v)

\* The loop of resolveActiveProfile over the sorted addresses: what it has at the first,
\* at each one after it, and so at each place.
FirstMet(a) == [address |-> a, agreeing |-> 1, last |-> a, run |-> 1]

Meet(v, a) ==
    IF a = v.last THEN [v EXCEPT !.run = @ + 1]
                  ELSE [RunEnds(v) EXCEPT !.last = a, !.run = 1]

Met(sorted) ==
    LET met[k \in 1..Len(sorted)] ==
          IF k = 1 THEN FirstMet(sorted[1]) ELSE Meet(met[k - 1], sorted[k])
    IN  met

\* The vote of resolveActiveProfile over the addresses that are not None: the longest run
\* of the sorted ones, the first of those as long.
Vote(addresses) ==
    LET sorted == Sorted([i \in {j \in DOMAIN addresses : addresses[j] # None} |-> addresses[i]])
        best   == LastRunEnds(Met(sorted)[Len(sorted)])
    IN  IF sorted = <<>> THEN [address |-> None, agreeing |-> 0, of |-> 0]
        ELSE [address |-> best.address, agreeing |-> best.agreeing, of |-> Len(sorted)]

Decisive(vote) == vote.of > 0 /\ vote.agreeing * 2 > vote.of

\* profile-write and profile-freeze, where they reach the engine; the chains are those
\* there are now, whether or not profile-load brought them.
ProfileWrite ==
    /\ profile /\ list # <<>>
    /\ RefreshContext /\ listSize \in {0, size'}
    /\ Decisive(Vote(resolved))
    /\ written' = Vote(resolved).address
    /\ UNCHANGED profile

ClearChains ==
    /\ Idle
    /\ IF alive THEN HandleClear ELSE UNCHANGED <<attached, context, chains, chainSize>>
    /\ list' = <<>> /\ resolved' = <<>> /\ listSize' = 0
    /\ UNCHANGED <<layout, alive, shown, size>>

\* One round of fetchChains.
FetchPage ==
    /\ fetching /\ alive
    /\ LET answer == HandleResults(Len(list)) IN
         /\ list' = list \o answer.chains
         /\ resolved' = resolved \o answer.addresses
         /\ fetching' = (answer.chains # <<>> /\ Len(list') < answer.total)
         /\ IF list = <<>>
            THEN size' = answer.size /\ listSize' = answer.chainSize
            ELSE UNCHANGED <<size, listSize>>
    /\ UNCHANGED <<layout, engineVars, shown>>

FetchFails ==
    /\ fetching /\ ~alive
    /\ fetching' = FALSE
    /\ UNCHANGED <<layout, engineVars, shown, size, list, listSize, resolved>>

-----------------------------------------------------------------------------
(* The rest of the world.                                                  *)

EngineDies ==
    /\ alive
    /\ alive' = FALSE /\ attached' = None /\ context' = None /\ chains' = <<>> /\ chainSize' = 0
    /\ UNCHANGED <<layout, mirrorVars>>

\* EngineClient::start again, whose shutdown forgets the process and nothing else.
Restart ==
    /\ Idle
    /\ alive' = TRUE /\ attached' = None /\ context' = None /\ chains' = <<>> /\ chainSize' = 0
    /\ shown' = None
    /\ UNCHANGED <<layout, size, list, listSize, resolved>>

\* A process runs on, or ends.
MemoryChanges(p) ==
    /\ \E l \in Layouts : layout' = [layout EXCEPT ![p] = l]
    /\ UNCHANGED <<engineVars, mirrorVars>>

-----------------------------------------------------------------------------
Init ==
    /\ layout \in [Targets -> Layouts]
    /\ alive = TRUE /\ attached = None /\ context = None /\ chains = <<>> /\ chainSize = 0
    /\ shown = None /\ size = 0 /\ list = <<>> /\ listSize = 0 /\ resolved = <<>>
    /\ fetching = FALSE /\ profile = FALSE /\ written = None

Addresses == {AddressIn[x] : x \in DOMAIN AddressIn} \ {None}

Step ==
    \/ \E p \in Targets : Attach(p) \/ MemoryChanges(p)
    \/ Detach \/ RefreshContext
    \/ CaptureIndex \/ Discover
    \/ \E a \in Addresses : Rescan(a)
    \/ \E l \in Lists, s \in {4, 8} : SetChains(l, s) \/ PointerLoad(l, s)
    \/ RequestFails \/ ClearChains
    \/ FetchPage \/ FetchFails
    \/ EngineDies \/ Restart

Next ==
    \/ Step /\ written' = None /\ UNCHANGED profile
    \/ \E l \in Lists, s \in {4, 8} : ProfileLoad(l, s) /\ written' = None
    \/ ProfileWrite

Spec == Init /\ [][Next]_vars

-----------------------------------------------------------------------------
(* Properties.                                                             *)

(* Every variable stays within its type. *)
TypeOK ==
    /\ layout \in [Targets -> Layouts]
    /\ alive \in BOOLEAN /\ fetching \in BOOLEAN
    /\ {attached, context, shown} \subseteq Targets \cup {None}
    /\ chains \in Lists /\ list \in Seq(Chains)
    /\ {chainSize, size, listSize} \subseteq {0, 4, 8}
    /\ resolved \in Seq(Nat \cup {None, Astray})
    /\ profile \in BOOLEAN

(* Whatever requests were refused and whichever process came and went, the chain at  *)
(* position i of the frontend is chain i of the engine, of the width the engine      *)
(* takes it for, and an address shown beside it is that chain's.  (An engine started *)
(* anew has no chains, and the frontend is not told.)                                *)
ChainsAgree ==
    alive /\ chains # <<>> /\ ~fetching =>
        /\ list = chains /\ listSize = chainSize
        /\ resolved # <<>> => Len(resolved) = Len(list)

(* No address that is shown, and may be written to, was found by reading 4-byte      *)
(* pointers in a process of 8-byte ones or the other way round.                      *)
NeverAstray == Astray \notin Range(resolved)

\* The chains shown to lead to address a, and to anywhere.
LeadTo(a) == {i \in DOMAIN resolved : resolved[i] = a}
Leading == {i \in DOMAIN resolved : resolved[i] # None}

(* A profile is written only to the address that more than half of the chains that    *)
(* lead anywhere agree on; and if there is one, the vote, which counts runs of the    *)
(* sorted addresses and looks at the last run apart, finds it.                        *)
MajorityRules ==
    /\ written # None => 2 * Cardinality(LeadTo(written)) > Cardinality(Leading)
    /\ \A i \in Leading : 2 * Cardinality(LeadTo(resolved[i])) > Cardinality(Leading) =>
          Vote(resolved).address = resolved[i]

(* The comment in PointerScanner::setProcess: chains are kept to be rescanned after  *)
(* the target was started again.  A rescan drops a chain only when it has read it    *)
(* rightly in the attached process and it leads elsewhere.                           *)
DropsOnlyMisses ==
    [][\A a \in Addresses : Rescan(a) =>
         \A c \in Range(chains) \ Range(chains') :
            Width[attached] = chainSize /\ AddressIn[<<attached, layout[attached], c>>] # a]_vars

(* docs/COMMANDS.md: the commands that resolve the loaded chains do so against the   *)
(* current attached process.  Once they have listed the modules and compared the     *)
(* widths, an address they use would be one its chain leads to in that process, at   *)
(* least with some of its layouts.                                                   *)
ResolvesInCurrentProcess ==
    ~fetching /\ alive /\ shown # None /\ shown = attached /\ size = Width[shown] /\ size = listSize =>
        \A i \in DOMAIN resolved :
            resolved[i] \in {None} \cup {AddressIn[<<shown, l, list[i]>>] : l \in Layouts}
=============================================================================
