-------------------------------- MODULE Window --------------------------------
(***************************************************************************)
(* The window of the portable program: one thread that handles messages,   *)
(* one worker thread at a time for a scan or a search of pointers, and the *)
(* bridge, whose calls a mutex makes atomic, to the engine.  The window    *)
(* keeps lists of its own (results, addresses, frozen values, chains) that *)
(* must go on meaning what the engine takes them for while scans run, the  *)
(* engine dies and the user attaches to another process.                   *)
(*                                                                         *)
(* The engine and the bridge's copy of its state are one here (ScanMirror  *)
(* and PointerMirror tell them apart), except that the copy survives the   *)
(* engine.  A cell is an address in a process.  A chain's address is given *)
(* by Resolves; what is written to memory is left out.                     *)
(***************************************************************************)
EXTENDS Order, Sequences, SequencesExt

CONSTANTS Processes,
          Addresses,    \* a set of numbers
          Chains,       \* a set of numbers
          Resolves,     \* Resolves[p][c]: the address chain c leads to in p, or None
          MaxWatches,   \* UI_WATCH_LIMIT
          MaxFreezes,   \* MAX_FREEZES
          None

ASSUME NumbersAssumption ==
    /\ Addresses \subseteq Nat /\ IsFiniteSet(Addresses)
    /\ Chains \subseteq Nat /\ IsFiniteSet(Chains)
    /\ None \notin Nat
ASSUME ResolvesAssumption == Resolves \in [Processes -> [Chains -> Addresses \cup {None}]]
ASSUME LimitsAssumption == MaxWatches \in Nat /\ MaxFreezes \in Nat

Cells == Processes \X Addresses
Numbers == 1..(2 * MaxFreezes + 1)
Lists(S) == {Ordered(T) : T \in SUBSET S}
Found(p) == {[i \in 1..Len(l) |-> <<p, l[i]>>] : l \in Lists(Addresses)}
Sublists(s) == {[i \in 1..Cardinality(D) |-> s[Ordered(D)[i]]] : D \in SUBSET DOMAIN s}

VARIABLES engine,   \* "none", "up" or "dead"
          target,   \* the process the bridge's client is attached to
          jobs,     \* the engine's freezes: number and cell; each change makes a new one
          scan,     \* the scanner's results, None without a scan
          chains,   \* the pointer scanner's chains
          resolved, \* whether the bridge has what they lead to
          open,     \* the window exists
          process,  \* g_process
          results,  \* g_results; None while g_type is Invalid
          watches,  \* g_uiWatches
          freezes,  \* g_freezes that are active
          rows,     \* g_pointerChains
          cache,    \* what the rows show: the chain and process resolved, or None
          goal,     \* g_uiPointerTarget
          busy,     \* g_uiBusy
          task,     \* g_uiTask.kind: 1 first, 2 next, 3 search, 4 rescan of chains
          worker,   \* what the worker does next
          posted    \* WM_APP_SCAN_DONE_ or WM_APP_POINTER_DONE_ is in the queue

session == <<target, jobs, scan, chains, resolved>>
pointing == <<chains, resolved, rows, cache, goal>>
freezing == <<jobs, freezes>>
threads == <<busy, task, worker, posted>>
vars == <<engine, session, open, process, results, watches, freezes, rows, cache, goal, threads>>

TypeOK ==
  /\ engine \in {"none", "up", "dead"} /\ open \in BOOLEAN
  /\ target \in Processes \cup {None} /\ process \in Processes \cup {None}
  /\ \A j \in jobs : j.id \in Numbers /\ j.cell \in Cells
  /\ \A s \in {scan, results} : s # None => s \in Seq(Cells)
  /\ chains \in Seq(Chains) /\ resolved \in BOOLEAN
  /\ watches \subseteq Cells /\ Cardinality(watches) <= MaxWatches
  /\ Cardinality(freezes) <= MaxFreezes
  /\ \A f, g \in freezes : f.cell = g.cell => f = g
  /\ rows \in Seq(Chains) /\ Len(cache) = Len(rows)
  /\ \A i \in DOMAIN cache : cache[i] # None => cache[i] \in Chains \X Processes
  /\ goal \in Cells \cup {None}
  /\ busy \in 0..2 /\ (busy = 0) = (task = 0)
  /\ task \in 0..4 /\ worker \in {"none", "ask", "clear", "copy"}
  /\ posted \in BOOLEAN
  /\ (worker = "none") = (busy = 0 \/ posted)

Init ==
  /\ engine \in {"none", "up"}
  /\ target = None /\ jobs = {} /\ scan = None /\ chains = <<>> /\ resolved = FALSE
  /\ open = TRUE /\ process = None /\ results = None /\ watches = {} /\ freezes = {}
  /\ rows = <<>> /\ cache = <<>> /\ goal = None
  /\ busy = 0 /\ task = 0 /\ worker = "none" /\ posted = FALSE

Up == engine = "up"
Idle == open /\ busy = 0 /\ UNCHANGED <<threads, open>>

-----------------------------------------------------------------------------
(* The engine and the process attached to. *)

\* The list of processes starts the engine, once; one that died counts as connected.
RefreshProcesses ==
  /\ Idle /\ engine = "none"
  /\ engine' = "up"
  /\ UNCHANGED <<session, process, results, watches, freezes, rows, cache, goal>>

EngineDies ==
  /\ Up
  /\ engine' = "dead" /\ jobs' = {}
  /\ UNCHANGED <<target, scan, chains, resolved, open, process, results, watches, freezes,
                 rows, cache, goal, threads>>

\* close_target: freezes and results go, the client lets the process go if it can.
CloseTarget ==
  /\ freezes' = {} /\ jobs' = {} /\ results' = None
  /\ scan' = None
  /\ resolved' = (resolved /\ target = None)
  /\ UNCHANGED <<engine, chains, rows>>

Attached(p) ==
  /\ Up
  /\ target' = p /\ process' = p /\ goal' = None /\ cache' = [i \in DOMAIN rows |-> None]

\* The engine refuses, or its modules cannot be listed; a dead one keeps the client attached.
NotAttached ==
  /\ target' = IF engine = "dead" THEN target ELSE None
  /\ process' = None
  /\ UNCHANGED <<goal, cache>>

\* Mutant: the list of addresses survives.
AttachKeepsWatches(p) ==
  /\ Idle /\ p # process
  /\ CloseTarget
  /\ Attached(p) \/ NotAttached
  /\ UNCHANGED watches

\* ui_attach_selected.  Success forgets the addresses the window has of the old process;
\* failure leaves no process, and the target of the pointer page with its rows.
Attach(p) ==
  /\ Idle /\ p # process
  /\ CloseTarget
  /\ watches' = {}
  /\ Attached(p) \/ NotAttached

\* WM_CLOSE is refused while a worker runs; WM_DESTROY ends the engine.
Close ==
  /\ open /\ busy = 0
  /\ open' = FALSE /\ engine' = "none" /\ target' = None /\ process' = None
  /\ freezes' = {} /\ jobs' = {} /\ watches' = {}
  /\ results' = None /\ scan' = None
  /\ chains' = <<>> /\ resolved' = FALSE /\ rows' = <<>> /\ cache' = <<>> /\ goal' = None
  /\ UNCHANGED threads

-----------------------------------------------------------------------------
(* Scans. *)

Begin(kind) ==
  /\ open /\ busy = 0
  /\ busy' = IF kind < 3 THEN 1 ELSE 2
  /\ task' = kind /\ worker' = "ask"
  /\ cache' = IF kind < 3 THEN cache ELSE [i \in DOMAIN rows |-> None]
  /\ UNCHANGED <<engine, session, open, process, results, watches, freezes, rows, goal, posted>>

\* Mutant: the button is there while results are shown.
StartFirstOver == process # None /\ Begin(1)

\* The button and the Enter key start a first scan only where there is none.
StartFirst == process # None /\ results = None /\ Begin(1)
StartNext  == process # None /\ results # None /\ Begin(2)

\* ui_new_scan asks for no process.
NewScan ==
  /\ Idle
  /\ scan' = None /\ results' = None
  /\ UNCHANGED <<engine, target, jobs, chains, resolved, process, watches, freezes,
                 rows, cache, goal>>

Goes(next) == worker' = next /\ UNCHANGED <<busy, task, posted>>

\* Mutant: the worker may end without a message.
EndsInSilence == worker' = "none" /\ posted' \in BOOLEAN /\ UNCHANGED <<busy, task>>

\* The worker posts how it went, which is only shown to the user.
Finished == worker' = "none" /\ posted' = TRUE /\ UNCHANGED <<busy, task>>

Asks(kind) == worker = "ask" /\ task = kind

\* The bridge sets the options, which clears the scan, before it reads the value.
AskFirst ==
  /\ Asks(1)
  /\ \/ scan' = None /\ Finished                     \* the text is no value, or no answer
     \/ Up /\ scan' \in Found(target) /\ Goes("clear")
  /\ UNCHANGED <<engine, target, jobs, chains, resolved, open, process, results, watches,
                 freezes, rows, cache, goal>>

\* A refinement that gets no answer leaves the bridge's copy, and counts as done.
AskNext ==
  /\ Asks(2)
  /\ \/ UNCHANGED scan /\ Finished                   \* no scan, or the text is no value
     \/ scan # None /\ Up /\ Goes("clear")
        /\ scan' \in Sublists(scan) \cup (IF scan = <<>> THEN Found(target) \cup {None} ELSE {})
     \/ scan # None /\ engine = "dead" /\ UNCHANGED scan /\ Goes("clear")
  /\ UNCHANGED <<engine, target, jobs, chains, resolved, open, process, results, watches,
                 freezes, rows, cache, goal>>

Scanning == worker \in {"clear", "copy"} /\ task \in {1, 2}
ScanLength == IF scan = None THEN 0 ELSE Len(scan)

\* ui_sync_scan_from_engine, page by page; the bridge may have to fetch from the engine.
CopyResults ==
  /\ Scanning
  /\ \/ worker = "clear" /\ results' = <<>> /\ Goes("copy")
     \/ /\ worker = "copy" /\ Len(results) < ScanLength
        /\ results' = Append(results, scan[Len(results) + 1]) /\ UNCHANGED <<worker, busy, task, posted>>
     \/ /\ worker = "copy" /\ (Len(results) = ScanLength \/ engine = "dead")
        /\ UNCHANGED results /\ Finished
  /\ UNCHANGED <<engine, session, open, process, watches, freezes, rows, cache, goal>>

Handled == busy' = 0 /\ task' = 0 /\ posted' = FALSE /\ UNCHANGED <<worker, open>>

HandleScanDone ==
  /\ posted /\ task \in {1, 2}
  /\ Handled
  /\ UNCHANGED <<engine, session, process, results, watches, freezes, rows, cache, goal>>

-----------------------------------------------------------------------------
(* The list of addresses, and freezing. *)

AddWatch(cell) ==
  /\ watches' = watches \cup {cell}
  /\ Cardinality(watches') <= MaxWatches

AddResult ==
  /\ Idle /\ results # None
  /\ \E i \in DOMAIN results : AddWatch(results[i])
  /\ UNCHANGED <<engine, session, process, results, freezes, rows, cache, goal>>

\* A number neither side uses: the engine never gives one twice.
Fresh == CHOOSE n \in Numbers : \A j \in jobs \cup freezes : j.id # n

FrozenAt(cell) == {f \in freezes : f.cell = cell}

\* ui_remove_freeze of the cells in S; a dead engine has no jobs.
Unfreeze(S) ==
  /\ freezes' = {f \in freezes : f.cell \notin S}
  /\ jobs' = {j \in jobs : \A f \in freezes : f.cell \in S => j.id # f.id}

\* Mutant: no slot is looked for.
FreezeAnyway(cell) ==
  /\ Up
  /\ LET job == [id |-> Fresh, cell |-> cell] IN
       /\ freezes' = (freezes \ FrozenAt(cell)) \cup {job}
       /\ jobs' = {j \in jobs : \A f \in FrozenAt(cell) : j.id # f.id} \cup {job}

\* ui_freeze_value: the old job is removed, the value written, a new job asked for.
FreezeAgain(cell) ==
  /\ Up /\ Cardinality(freezes \ FrozenAt(cell)) < MaxFreezes
  /\ LET job == [id |-> Fresh, cell |-> cell] IN
       /\ freezes' = (freezes \ FrozenAt(cell)) \cup {job}
       /\ jobs' = {j \in jobs : \A f \in FrozenAt(cell) : j.id # f.id} \cup {job}

\* Mutant: only the row goes.
RemoveWatchOnly(w) ==
  /\ Idle
  /\ watches' = watches \ {w} /\ UNCHANGED freezing
  /\ UNCHANGED <<engine, target, process, results, scan, pointing>>

\* A freeze belongs to an address; rows of one address and several types are one here.
RemoveWatch(w) ==
  /\ Idle
  /\ watches' = watches \ {w} /\ Unfreeze({w})
  /\ UNCHANGED <<engine, target, process, results, scan, pointing>>

ClearWatches ==
  /\ Idle
  /\ watches' = {} /\ Unfreeze(watches)
  /\ UNCHANGED <<engine, target, process, results, scan, pointing>>

\* ui_write_selected_watch, which the Enter key reaches while a worker runs.  A frozen
\* value is let go, written and frozen anew; any of the steps may fail and end it.
WriteWatch(w) ==
  /\ open /\ FrozenAt(w) # {}
  /\ Unfreeze({w}) \/ (process # None /\ FreezeAgain(w))
  /\ UNCHANGED <<engine, target, open, process, results, scan, watches, pointing, threads>>

ToggleFreeze(w) ==
  /\ Idle
  /\ IF FrozenAt(w) # {} THEN Unfreeze({w})
     ELSE process # None /\ FreezeAgain(w)
  /\ UNCHANGED <<engine, target, process, results, scan, watches, pointing>>

-----------------------------------------------------------------------------
(* The page of pointers. *)

TakeTarget(w) ==
  /\ Idle
  /\ goal' = w /\ cache' = [i \in DOMAIN rows |-> None]
  /\ UNCHANGED <<engine, session, process, results, watches, freezes, rows>>

StartSearch == process # None /\ goal # None /\ Begin(3)
StartRescan == process # None /\ goal # None /\ rows # <<>> /\ Begin(4)

\* A search, or a rescan of the chains there are.  The bridge drops its list when the
\* engine dies before it could fetch the new one.
AskPointers ==
  /\ Asks(3) \/ Asks(4)
  /\ \/ /\ Up
        /\ chains' \in IF task = 3 THEN Lists(Chains) ELSE Sublists(chains)
        /\ resolved' = TRUE /\ Goes("clear")
     \/ UNCHANGED <<chains, resolved>> /\ Finished
     \/ engine = "dead" /\ chains' = <<>> /\ UNCHANGED resolved /\ Finished
  /\ UNCHANGED <<engine, target, jobs, scan, open, process, results, watches, freezes,
                 rows, cache, goal>>

\* What cw_gui_engine_pointer_resolve answers for position i.
Lookup(i, list, known) ==
  IF i \in DOMAIN list /\ known /\ target # None /\ Resolves[target][list[i]] # None
    THEN <<list[i], target>> ELSE None

\* ui_sync_pointer_chains_from_engine in the worker.
CopyChains ==
  /\ worker \in {"clear", "copy"} /\ task \in {3, 4}
  /\ LET i == Len(rows) + 1 IN
     \/ worker = "clear" /\ rows' = <<>> /\ cache' = <<>> /\ Goes("copy")
     \/ /\ worker = "copy" /\ i <= Len(chains)
        /\ rows' = Append(rows, chains[i])
        /\ cache' = Append(cache, Lookup(i, chains, resolved))
        /\ UNCHANGED <<worker, busy, task, posted>>
     \/ /\ worker = "copy" /\ i > Len(chains)
        /\ UNCHANGED <<rows, cache>> /\ Finished
  /\ UNCHANGED <<engine, session, open, process, results, watches, freezes, goal>>

\* ui_pointer_refresh_visible_cache: what is not known yet is asked for by its position.
Refreshed == [i \in DOMAIN rows |->
                IF cache[i] = None THEN Lookup(i, chains, resolved) ELSE cache[i]]

\* Mutant: the timer does not look whether a worker runs.
TimerAlways ==
  /\ open /\ process # None
  /\ cache' = Refreshed
  /\ UNCHANGED <<engine, session, open, process, results, watches, freezes, rows, goal, threads>>

Timer ==
  /\ Idle /\ process # None
  /\ cache' = Refreshed
  /\ UNCHANGED <<engine, session, process, results, watches, freezes, rows, goal>>

HandlePointerDone ==
  /\ posted /\ task \in {3, 4}
  /\ Handled
  /\ cache' = [i \in DOMAIN rows |-> IF process = None THEN None ELSE Lookup(i, chains, resolved)]
  /\ UNCHANGED <<engine, session, process, results, watches, freezes, rows, goal>>

ClearChains ==
  /\ Idle
  /\ rows' = <<>> /\ cache' = <<>>
  /\ UNCHANGED <<engine, session, process, results, watches, freezes, goal>>

\* cw_gui_engine_pointer_set_chains: a list of the right length is taken for the proof
\* that the engine has accepted it.
SetChains(list) ==
  /\ chains' = IF Up THEN list ELSE chains
  /\ resolved' = (resolved \/ Up)
  /\ Len(chains') = Len(list)

\* ui_push_pointer_chains_to_engine and the copy back.
Push(list) ==
  /\ SetChains(list)
  /\ rows' = chains'
  /\ cache' = [i \in DOMAIN chains' |-> Lookup(i, chains', resolved')]

PushFails(list) == ~Up /\ Len(chains) # Len(list) /\ UNCHANGED <<chains, resolved>>

\* The vote of ui_resolve_pointer_profile: an address more than half of those agree on.
Consensus(shown) ==
  LET known == {i \in DOMAIN shown : shown[i] # None}
      At(i) == Resolves[shown[i][2]][shown[i][1]]
      agree == {i \in known : 2 * Cardinality({j \in known : At(j) = At(i)}) > Cardinality(known)}
  IN IF agree = {} THEN None ELSE LET i == CHOOSE i \in agree : TRUE IN <<target, At(i)>>

\* Without a process the list is the window's alone; what cannot be read to its end
\* leaves no list.
LoadProfile(list) ==
  /\ Idle
  /\ \/ process # None /\ Push(list) /\ goal' = Consensus(cache')
     \/ process # None /\ PushFails(list)
        /\ rows' = list /\ cache' = [i \in DOMAIN list |-> None] /\ UNCHANGED goal
     \/ process = None /\ UNCHANGED <<chains, resolved>>
        /\ rows' = list /\ cache' = [i \in DOMAIN list |-> None] /\ goal' = None
     \/ rows' = <<>> /\ cache' = <<>> /\ UNCHANGED <<chains, resolved, goal>>
  /\ UNCHANGED <<engine, target, jobs, scan, process, results, watches, freezes>>

\* A row for the address the chains lead to, which the pointer page then aims at; none
\* where it has one of that type already, or where the list is full.
AddPointee(cell) ==
  \/ AddWatch(cell) /\ goal' = cell
  \/ /\ cell \in watches \/ Cardinality(watches) = MaxWatches
     /\ UNCHANGED <<watches, goal>>

\* ui_add_pointer_profile_to_watch: the rows are pushed again, and the vote taken.
AddProfile ==
  /\ Idle /\ process # None /\ rows # <<>>
  /\ Push(rows)
  /\ IF Consensus(cache') = None THEN UNCHANGED <<watches, goal>> ELSE AddPointee(Consensus(cache'))
  /\ UNCHANGED <<engine, target, jobs, scan, process, results, freezes>>

AddChain(i) ==
  /\ Idle /\ process # None
  /\ LET shown == Refreshed[i] IN
       /\ shown # None
       /\ cache' = [cache EXCEPT ![i] = shown]
       /\ AddPointee(<<shown[2], Resolves[shown[2]][shown[1]]>>)
  /\ UNCHANGED <<engine, session, process, results, freezes, rows>>

-----------------------------------------------------------------------------
WorkerStep == AskFirst \/ AskNext \/ CopyResults \/ AskPointers \/ CopyChains
HandleDone == HandleScanDone \/ HandlePointerDone

UserStep ==
  \/ RefreshProcesses \/ Close
  \/ \E p \in Processes : Attach(p)
  \/ StartFirst \/ StartNext \/ NewScan \/ AddResult
  \/ \E w \in watches : RemoveWatch(w) \/ TakeTarget(w) \/ WriteWatch(w) \/ ToggleFreeze(w)
  \/ ClearWatches
  \/ StartSearch \/ StartRescan \/ ClearChains
  \/ \E list \in Lists(Chains) \ {<<>>} : LoadProfile(list)
  \/ AddProfile
  \/ \E i \in DOMAIN rows : AddChain(i)

Next == UserStep \/ Timer \/ WorkerStep \/ HandleDone \/ EngineDies

Spec == Init /\ [][Next]_vars /\ WF_vars(WorkerStep) /\ WF_vars(HandleDone)

-----------------------------------------------------------------------------
(* Properties. *)

(* Whatever the window lists and could write to is of the process it is attached to: *)
(* no address outlives its process, be it through a scan, a chain or a profile.       *)
Belongs ==
  process # None =>
    /\ target = process
    /\ results # None => \A i \in DOMAIN results : results[i][1] = process
    /\ \A w \in watches : w[1] = process
    /\ \A f \in freezes : f.cell[1] = process
    /\ goal # None => goal[1] = process
    /\ \A i \in DOMAIN cache : cache[i] # None => cache[i][2] = process

(* The values shown as frozen are those the engine holds, under the number by which  *)
(* the window would let them go, and each has a row from which that can be done.     *)
FrozenIsHeld ==
  Up => /\ jobs = freezes
        /\ \A f \in freezes : f.cell \in watches

(* The address beside a chain is where that chain leads, although the window asks    *)
(* for it by position, in a list of the bridge that changes under its own.           *)
RowsMatch ==
  Up => \A i \in DOMAIN rows : cache[i] # None => cache[i][1] = rows[i]

(* The window becomes usable again, and may be closed, after every scan.             *)
BusyEnds == busy # 0 ~> busy = 0

(* The results shown are those of the scan a refinement would refine, although the   *)
(* bridge clears its scan before it tries for a new one, and the copy takes pages.   *)
RefinesWhatItShows ==
  Up /\ busy = 0 /\ results # None /\ results # <<>> => scan = results
=============================================================================
