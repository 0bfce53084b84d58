# Cheat Wizard: a TLA+ model

Cheat Wizard searches the memory of a Windows process for a value, narrows the
candidates down, writes or freezes the cells that are left, and finds pointer
chains that lead to them again after the program was restarted.  This directory
models the parts of it that keep state, from the threads and processes down to
the walks over memory, together with the two builders that install it.  TLC
checks the models on small instances; TLAPS proves theorems about all of them
(freezes, link, both mirrors, window, builders, and the tools of the engine
session with their walks over memory) for every value of the constants.  Paths
below are relative to the repository (`src/src/...` is its `src` directory).

Contents: [inventory](#inventory) - [modules](#modules) - [runs](#runs) -
[fairness](#fairness) - [proofs](#proofs) - [findings](#findings) -
[not modelled](#not-modelled) - [plan](#plan)

## Inventory

The product is two processes.  The **frontend** (window or command line) shows
and asks; the **engine**, `cw-engine.exe`, which the frontend starts and owns,
opens the target and does the work.  They talk over one named pipe: a request,
then its answer, never two at a time.

    window / command line
      EngineFrontendSession            mirrors: EngineClientScanner, -AobScanner,
        EngineClient                            -FreezeManager, -PointerScanner
          EnginePipeClient  ====named pipe====  EnginePipeServer
                                                  runEngine: one request at a time
                                                    EngineSession
                                                      ProcessManager (target handle)
                                                      MemoryScanner  AobScanner
                                                      PointerScanner
                                                      FreezeManager --- worker thread
                                                                          |
                                                      target process <----+

Beside it stand programs that share no state with these two: the **builders**,
which compile and install engine and product; the **trainer**, a generated
program that resolves saved chains and freezes values by itself; and the
**portable console**, which does without engine and C runtime.

| component | state | operations | what makes it correct |
|---|---|---|---|
| `FreezeManager` (engine) | duplicated handle, jobs with due times, next id, `stopping_`; a mutex, a condition variable, a worker thread | `setProcess`, `add`, `remove`, `clear`, `list`, destructor, worker loop | a write is of a job that exists, through a handle that is open; no lost wake-up; one job per cell; jobs keep being written; calls and destructor return |
| Engine link: `EngineClient`, `EnginePipe`, `runEngine` | the pipe, the engine's process handle, request ids, `attached_`/`pid_`; the engine's place in its loop | `start`, `handshake`, `transact`, `attach`, `detach`, `shutdown`; `accept`, `receive`, dispatch, `send`, flush | an answer is that of its request; later work reaches the process that is shown; no engine is left behind; calls return |
| `EngineSession` | target handle; owns the scanners and the freezer | `attach` (detaches first), `detach`, `refreshPointerContext`, `clearScans` | everything of the old process is gone before anything of the new one |
| `MemoryScanner` | no scan, a list of candidates, or a snapshot of memory with survivors; kind, type, counters | first scan (exact or unknown, typed or mixed), next scan, `disableMixedType`, restore, clear | every matching cell is found once, across chunks, pages and gaps; a refinement keeps only earlier candidates; the list never exceeds its limit; list and snapshot never both |
| Frontend session: `EngineClientScanner` | a copy of the scan's summary, a lazily fetched list of results | the same, by request; paged fetch | the copy means the same scan, and the same cell at an index |
| Frontend session: `EngineClientPointerScanner` | a copy of the chains with the address of each | discovery, rescan, load, clear, capture of an index; paged fetch | the copy means the same chains; an address belongs to the process attached now |
| Frontend session: AOB and freeze clients | a list of hits; nothing | by request | the hits are those of the engine's last pattern |
| `PointerScanner`, `PointerAlgorithms` | process, width, modules, index, chains and their width | index, search (indexed, targeted), resolve, rescan | a found chain resolves to the target; a search that met no limit missed none; a chain is read at its own width only |
| Pointer profiles | chains, width and value type of a file | load, vote of the chains, read, write, freeze | the type belongs to the chains; the address is the one most chains agree on, or none |
| `PointerMap` | a list of maps | load, save, compare | a chain survives comparison only if it leads to the target in every map |
| `AobScanner`, `AobPattern` | pattern and hits | scan, rescan, restore | a hit across a chunk boundary is found, and found once |
| Persistence (scan, AOB, pointer, profile) | files | load, save | what is loaded is what was saved |
| Window (`CW_GUI_NoCRT.cpp`, `GuiEngineBridge.cpp`) | lists of values, results, freezes and chains, task flags; a worker thread, a timer, a mutex around the bridge | scans in the background, write and freeze from the list, attach, close | what is listed is of the process attached now; a frozen cell stays frozen after it is written; the window becomes usable again |
| Command line (`main.cpp`) | the copies of the session, loaded maps | commands, one after the other | an index `#i` is the row that was shown |
| Builders (`EngineBuilderMain.cpp`, `ProductBuilderMain.cpp`) | the installed folder, its `.new` and `.previous`; a window with a thread | build, validate, install, roll back | a build that fails or is killed leaves an engine that works, with its own manifest |
| Trainer runtime (`TrainerRuntime_NoCRT.cpp`) | entries with chains, address, frozen bytes; a timer of the window, a freeze thread | find the process, resolve by strict majority, write, freeze | a write goes to an address resolved in the process that is open |
| Trainer builder, portable console (`CW_NoCRT.cpp`) | none shared with the others | pack a trainer; the console's own scans | |
| Process lists, value and instruction codecs, protocol codec | none that lasts | | round trips |

What is hard in it: the freeze worker against four methods and a destructor
that share one mutex; two processes of which either may die between any two
bytes; state that is kept on both sides of the pipe and changed by requests that
may be refused half-way; lists fetched page by page while the engine may die;
a target that is restarted while chains, lists and addresses of the old one are
still around; a target that writes and unmaps memory under a scan; a window
whose worker replaces lists the timer reads by position; an installation that
may be cut off between any two moves.  The trainer runtime has a race of its
own: its freeze thread looks at an entry's `valid` and writes to its `resolved`
every 10 ms, with a handle taken at the start of a round, while the window's
750 ms timer rewrites these fields and may close the handle, without a lock.
`PROJECT.json` lists the hazards at their lines, each with the properties that
watch it or the reason none does.

## Modules

| module | models | composed with |
|---|---|---|
| `FreezePromise` | what a freeze service promises, without thread, lock or clock | abstract specification of the next one |
| `FreezeManager` (`...MC`, `...Proofs`) | `FreezeManager.cpp` | `Promise == INSTANCE FreezePromise WITH ...` |
| `LinkPromise` | what a call through the link promises, without processes, pipes or frames | abstract specification of the next one |
| `EngineLink` (`...MC`, `...Proofs`) | `EngineClient.cpp`, `EnginePipe.cpp`, `runEngine` | `Promise == INSTANCE LinkPromise WITH ...` |
| `ScanMirror` (`...MC`) | `EngineClientScanner`, the scan handlers, the states of `MemoryScanner`, the commands that use and save a scan | takes a request with its answer as one step, which `EngineLink` shows it may (`ServesEachCallOnce`) |
| `PointerMirror` (`...MC`) | `EngineClientPointerScanner`, the pointer handlers, `EngineSession`, chain files and profiles | same |
| `Mirrors`, `MirrorProofs` | both mirrors side by side, and the proofs about them | extends `ScanMirror` and `PointerMirror` |
| `Window` (`...MC`, `...Proofs`) | `CW_GUI_NoCRT.cpp`, `GuiEngineBridge.cpp` | takes a request as one step, too |
| `Order` (`...Proofs`) | what sorting leaves: of a set (results of a scan, lists of the window, pointers near an address), and of numbers that may be equal (the addresses of the vote); loops over a list, and lists joined and chosen from | used by `ScanMirror`, `Window`, `PointerMirror`, `Walk` and `PointerSearch` |
| `Walk` | the walk over regions, chunks and pages, and a target whose pages come and go | used by the next two |
| `MemoryScan` | the scans and refinements of `MemoryScanner.cpp`, cell by cell | extends `Walk` |
| `AobScan` | `AobScanner.cpp` with its commands and files | extends `Walk` |
| `PointerSearch` | `PointerScanner.cpp`, `PointerAlgorithms.cpp`, `PointerMap.cpp` | extends `Order` |
| `Tools` (`...MC`, `...Proofs`) | the three tools of an engine session | composes `MemoryScan`, `AobScan`, `PointerSearch` |
| `PointerSearchProofs` | the proofs about the pointer tool of `Tools` | extends `Tools` |
| `Install` (`...MC`, `...Proofs`) | `EngineBuilderMain.cpp`, `ProductBuilderMain.cpp` | - |

**FreezeManager.**  A method call is two steps: `Call(c)` (the thread wants the
mutex) and its critical section (`SetProcess`, `Add`, `AddRefused`, `Remove`,
`Clear`, `Read`, `Destroy`), which never blocks and so is one action guarded by
`LockFree`.  The worker does block inside its critical section, in
`WriteProcessMemory`, so its loop is cut into `WaitForWork`, `WaitUntilDue`,
`StartBatch`, `BeginWrite`, `EndWrite(ok)` and `Stop`, and it owns the mutex in
the places `Holding`.  `cv_.notify_all()` is `NotifyAll`; a wait may also end
spuriously (`WakeUp`).  `steady_clock` is a countdown `due` per job, moved by
`Tick`; as in the code, a batch reads the clock once (`elapsed`) and the next
due time counts from there.  Only writing and waiting take time.  The write and
failure counters that `list()` shows are left out.

**EngineLink.**  Every engine process ever started has its own index `g`: where
it is in `runEngine` (`at`), its session, the answer it holds, its pipe
(`link`, `up`, `down`).  The client has one program counter through `start`,
`handshake`, `transact` and `shutdown`.  `Transact` sends and blocks; `Receive`
and `ReceiveFails` end it.  `Crash`, `TerminationTakesEffect` (which follows
`TerminateProcess` after any delay) and `OwnerDies` may come between any two
steps.  The request kinds are `hello`, `attach`, `detach`, `shutdown` and
`work` for the rest; an answer to `work` may be too large for a frame
(`fits`), upon which the engine leaves its loop as the code does.  A handshake
may be refused by the engine, which then ends by itself, or by the client for
the kind, form or version of the answer, while the engine goes on serving;
`Reject` is `start` closing the pipe and terminating it.  A refused attach has
ended the session, except one to process 0, which is refused before anything is
let go of.
`Asking`, `Fate`, `Reached` and `AttachedTo` read the state as `LinkPromise`
has it: the call under way, what became of it, whether an engine is at the
other end, and what that engine is attached to.  A call's fate is settled when
the engine has answered or can answer no more, although the client still waits.

**ScanMirror.**  The engine's scan is `None`, a list or a snapshot, as the set
of candidates found; which cells match is arbitrary (`FirstScans`,
`Refinements` say what each operation may leave; `MemoryScan` has the cells).
The frontend has the mirror of the summary, the list and `resultsLoaded_`, and
two program counters for `fetchAllResults`, whose pages are separate steps.
The engine's side of a request is an operator named for its handler
(`HandleFirstScan`, `HandleNextScan`, `HandleGetScanResults`, ...), used inside
the action of the frontend that sends it.  `nextScan` fetches before and after,
because it asks for counts by type, and the model does too.  Refusals are
modelled where the code changes state before it refuses (`FirstScanRejected`,
`RefineRefused`, a failing `Attach`).  The commands `scan`, `next`, `results`,
`types`, `scan-save` and `scan-load` are modelled with what they fetch, the
file that is written, and the restore that may be refused in parts.

**PointerMirror.**  A chain leads to an address that depends on the process and
on its memory (`AddressIn`, `layout`); read at the wrong pointer width it leads
`Astray`.  `context` is the process `PointerScanner` looks at, which
`refreshPointerContext` may lose while `attached` stays.  `FetchPage` appends a
page of chains and of the addresses the engine resolves at that moment.  A
target that is started again is another member of `Targets`.  A profile file
replaces the chains by its own; `Vote` is the loop of the profile commands over
the sorted addresses, and `ProfileWrite` takes place only where it is
`Decisive`.  Which chains a search finds is arbitrary here; `PointerSearch`
has the search.

**Window.**  The actions are the handlers of the window procedure, which run
one at a time on the message thread, and the worker's three steps: ask the
engine, clear the old list, copy the new one.  The bridge's mutex makes each of
its functions atomic, so it is a part of the step that calls it.  The engine
may die between any two steps (`engine`), after which calls fail but the
bridge's lists stay.  Attaching drops what belongs to the process before; the
timer asks for the addresses of the chains by their position in a list that the
worker may be replacing.

**Walk, MemoryScan, AobScan, PointerSearch, Tools.**  These have the contents of
memory.  `Walk` cuts the regions to a range, reads them chunk by chunk with an
overlap, and a chunk with an unreadable page page by page; the target writes
and its pages come and go between two reads.  `MemoryScan` runs exact and
unknown first scans and refinements of lists and snapshots on cells of several
widths; `AobScan` looks for patterns with wild cards, in memory, in code or in a
module, and has the commands that save and load its hits.  `PointerSearch` has
memory as a row of pointers: building the index up to its limit, the depth-first
search in it with its limits, the search level by level from the target with the
choice of the nearest node, rescans, captured maps and both comparisons.  Both
readers take a part as one `ReadProcessMemory` of a chunk, of which some pages
may be out of reach (`MayBeGone`): it brings what is before them, and then the
code leaves the rest of the chunk out, or nothing, and then it reads page by
page, each with the first bytes of the next one (`Brought`).  `Window` is the
saturating range of pointer values near an address.  In `Tools` a behaviour is one of the tools at work (`tool`): they share nothing but
the process, so interleaving them would add no new case.  Each claim compares
the result with what there is to find, said without a walk or a search
(`FindsExactly`, `ChainsTo`).  The loops of the code are `Loop(s, n, Step)`, what
`n` steps make of `s`; the depth-first search is a loop too, over the levels
that are left, of functions from a node to what comes of it (`Dfs`).

**Install.**  A file's content is the number of the build it is from, or `Torn`.
The engine builder (`atomicInstall`) moves engine and manifest aside and the new
ones into place; the product builder (`atomicInstallDirectory`) does the same
with a folder, and copies where a folder cannot be moved; its window runs it on
a thread.  Every file operation is a step; one of them may fail in each build
(`Fails`), which leads into the code's rollback, and `Kill` may come before any
of them.  The next build starts with what is left.  Only `fs::remove` calls in a
row are one step where nothing depends on their order: `ClearLeftovers`
(EngineBuilderMain.cpp:374-377) and `DropBackups` (416-417).

Definitions that begin with a comment `Mutant:` are plausible mistakes in the
definition that follows; nothing uses them.  They show that each property
depends on the code it is about: putting a mutant in the place of its original
makes the property fail (`PROJECT.json`, `mutants`).

## Runs

| run | module, cfg | shows | states |
|---|---|---|---|
| `freeze` | `FreezeManagerMC`, `FreezeManager.cfg` | `WriteIsBacked`, `NoLostWakeup`; refinement `KeepsPromise`, which has one job per cell; `JobsKeepBeingWritten`, `CallsReturn`, `DestructorReturns` | 71 thousand |
| `link` | `EngineLinkMC`, `EngineLink.cfg` | `WorksOnTheShownProcess`, `NoStaleAnswer`, `NoForgottenEngine`; refinement `ServesEachCallOnce`; `CallsReturn`, `ServingEngineEnds` | 111 thousand |
| `link_orphan` | `EngineLinkMC`, `EngineLinkOrphan.cfg` | `NoOrphanEngine` is violated | |
| `mirror` | `ScanMirrorMC`, `ScanMirror.cfg` | `SummaryAgrees`, `ListIsPrefix`, `FetchBringsAll`, `OnlyRefusalLosesScan` | 151 thousand |
| `mirror_snapshot` | `ScanMirrorMC`, `ScanMirrorSnapshot.cfg` | `NextMaterializes` is violated | |
| `pointer` | `PointerMirrorMC`, `PointerMirror.cfg` | `ChainsAgree`, `NeverAstray`, `MajorityRules`, `DropsOnlyMisses` | 72 thousand |
| `pointer_stale` | `PointerMirrorMC`, `PointerMirrorStale.cfg` | `ResolvesInCurrentProcess` is violated | |
| `window` | `WindowMC`, `Window.cfg` | `Belongs`, `FrozenIsHeld`, `RowsMatch`, `RefinesWhatItShows`, `BusyEnds` | 365 thousand |
| `tools` | `ToolsMC`, `Tools.cfg` | `FindsExactly`, `ChainsLead`, `SearchComplete` | 626 thousand |
| `search_budget` | `ToolsMC`, `ToolsBudget.cfg` | `BudgetIsTold` is violated | |
| `search_gap` | `ToolsMC`, `ToolsGap.cfg` | `BadPageHidesNoOther` is violated | |
| `install` | `InstallMC`, `Install.cfg` | `InstalledIsWhole`, `PairMatches`, `FailedBuildKeepsProduct`, `SuccessInstallsBuild`, `EngineSurvives`, `BuildingEnds` | 510 thousand |

Each run that is to pass also checks its module's `TypeOK`, except `mirror`: that
of `ScanMirror` is proved (`ScanTypeCorrect`), and what is more in it than
`SummaryAgrees` and `ListIsPrefix` say is mere types.

Bounds, and why they are enough:

- `freeze`: two callers (one can be between `Call` and its critical section
  while the other changes everything), two processes and two values (to tell a
  stale one from the current), two cells (a batch of two jobs, one of which is
  not due), periods clamped into 3..4 from requests 1 and 9 (both ends of
  `Clamp`, and jobs of different periods), two ids, writes of up to one tick.
  `CallsReturn` holds only while a batch is shorter than the shortest period
  (cells x `WriteTicks` < `MinInterval`): the worker goes from a batch to the
  next without leaving the mutex when jobs are already due.  The code relies on
  this where it keeps the mutex through the writes ("Writes are tiny",
  FreezeManager.cpp:133); with periods of 10 ms and more the bound stands for a
  thousand writes of 10 us.
- `link`: two engines (one given up, the next), up to five requests to each
  besides the one of `shutdown`, two targets.  A stale answer needs two
  requests, a wrong process two attaches and a detach.  `link_orphan` needs one
  engine and two requests.
  `CHECK_DEADLOCK FALSE`, since the owner may be dead and every engine ended.
- `mirror`: five candidates of two types with `MaxResults` 4, `MaxRestore` 3
  and pages of 2: a snapshot that does not fit a list, a list that cannot be
  restored, and lists that end within a page, with a full page, or with an
  empty one.  `mirror_snapshot` has `MaxResults` 3, so that a refinement can drop
  a candidate and still have too many.
- `pointer`: three chains with pages of 2, which is enough for a majority and
  for a tie; a 64-bit target, the same started again, and a 32-bit one; each of
  them with a layout where chains lead nowhere.
- `window`: a process and another; two addresses; two chains, which lead to two
  addresses in the one and to one and nowhere in the other; at most two rows
  and one frozen value, so that each limit is met.  `CHECK_DEADLOCK FALSE`,
  since the window closes.
- `tools`: bytes of one bit in two regions, the second executable and cut by the
  range; chunks of two pages of two bytes, cells of one and two bytes, so that
  cells lie across pages, chunks and regions; lists of three, three requests and
  four searches, with one change in between: a write, or a page that comes or
  goes.  Pointers in four slots read in two parts: any memory with one
  command; two worlds of a restarted target with a map of the other, and four
  commands; or one command and a write in its midst.  A slot stands for a page;
  the parts {0} and {1, 2, 3} are a region of one page and one of three, so that
  a chunk has pages before and behind one that is lost, and one part in a search
  is read short (`MaxLosses`).  Addresses end at four, so that windows saturate at
  both ends.  `MCOptions` has each limit of the search on its own.
  `CHECK_DEADLOCK FALSE`, since the number of requests is bounded.
- `install`: three builds, so that what a killed build leaves meets another one
  that fails and a third; one operation fails in each.

## Fairness

- `FreezeManager`: weak fairness of the worker's steps, the clock and an expired
  wait (the scheduler runs threads that can run, time passes).  Strong fairness
  of a caller's critical section: the mutex is free again and again, and a
  thread waiting for it gets it sometime.  `std::mutex` does not promise this;
  the Windows implementation wakes waiters in practice, and without it no
  statement about callers of a looping thread could hold.  Nobody has to call
  any method, and a spurious wake-up need not happen.
- `EngineLink`: weak fairness of an engine's own steps and of the client's steps
  between a call and its return; `TerminateProcess` takes effect.  None for
  calls, crashes or the owner's death.  The five seconds of `connect` and the
  three of `shutdown` are steps that may happen at any time and, when nothing
  else does, must; waits the code does not bound (`ConnectNamedPipe`, the read
  of an answer) end only by what the other side does.
- `Window`: weak fairness of the worker's steps and of the handler of its
  message: the thread runs, each bridge call returns (`CallsReturn` of
  `EngineLink`), and the message loop takes what was posted.  None for clicks,
  the timer or the engine's death.
- `Install`: weak fairness of the builder's steps and of the handler of
  `WM_CW_DONE`, for the same reason.  None for starting a build or for kills.

`ScanMirror`, `PointerMirror` and `Tools` have one thread; nothing there has to
happen eventually that `EngineLink` does not already show.

## Proofs

Every theorem below is about the specification TLC runs, and holds for all
values of its constants that meet the named assumptions.  The safety ones all go
the same way: an inductive invariant `IInv`, checked with TLC first, that says
more than the properties do; a lemma per action that it is kept; `Inductive`
(`Spec => []IInv`), from which the others follow.  The text says for each what
`IInv` adds and why the properties alone are not inductive.

### FreezeManagerProofs

For all callers, processes, cells, values, periods and bounds: `Inductive`,
`TypeCorrect`, `WriteSafe` (`WriteIsBacked`), `WakeupSafe` (`NoLostWakeup`),
`CellSafe` (`OneJobPerCell`), `JobSafe` (no job survives its process or the
destructor: `JobsNeedAProcess`, a part of `IInv` that no run checks by itself),
and `Refinement` (`Spec => KeepsPromise`), that the threaded manager implements
`FreezePromise`.

Assumptions: `IntervalAssumption` (0 < `MinInterval` <= `MaxInterval`, as the
constants 10 and 60000 in `add`), `BoundAssumption` (the bounds are numbers),
`NoneAssumption` (`None` is no process and no write under way).

`IInv` adds two conjuncts to these.  `BatchIsBacked`: while the worker is in a
batch (which includes between two writes), what it has still to write is a
non-empty set of existing jobs, there is a process, and nobody stopped it; the
properties speak only of the moment of a write, from which it does not follow
that the next write of the batch is backed too.  `DestructorStopped`: a caller
waiting in `join` has set `stopping_`; without it `Join` could drop the handle
below a live job.  The proof turns on `LockFree`, which the methods need and
which excludes the worker from a batch.  `OneJobPerCell` rests on the check in
`add` being in the critical section that inserts.

Refinement maps the handle to `bound`, the ids below `nextId` to `issued`, and a
job without its due time to `frozen`.  `SetProcess`, `Clear`, `Destroy` and
`Join` are `Retarget` (or a stutter), `Add` is `Freeze`, `Remove` is `Thaw`, a
successful `EndWrite` is `Rewrite`; the rest stutters.  `Rewrite` asks for a
job that exists and the process bound now, which is where `WriteIsBacked` and
`BatchIsBacked` are used.

### EngineLinkProofs

For any number of engines and of requests and any targets: `Inductive`,
`TypeCorrect`, `SessionShown` (`WorksOnTheShownProcess`), `AnswersMatch`
(`NoStaleAnswer`), `NoneLeftBehind` (`NoForgottenEngine`), and `Refinement`
(`Spec => ServesEachCallOnce`), that client, pipe and engines implement
`LinkPromise`.

Assumptions: `LinkBounds` (the bounds are numbers), `NoneIsNoTarget` and
`NoneIsNoCall` (`None` is no process, number or call).

The three properties speak of the moments between calls only.  What carries them
over a call is `Conversation`: over an open pipe, what is in it, what the engine
is doing and what the client waits for always fit.  Between calls the engine is
at rest and the pipe empty (`Quiet`).  While the client waits (`Asked`), exactly
its request is in the pipe; or the engine has taken it and holds the answer; or
that answer is in the pipe; or the engine is ending and there will be none.  An
answer is to the client's request and tells what became of the session
(`Answers`): done, refused and detached, or too large to be sent, which only
happens to `work`.  The other conjuncts say which engine the client has in each
of its places (`PlacesHold`) and that a pipe nobody has opened is empty
(`UnopenedIsEmpty`).  It rests on the client never giving up a read: a call
ends with its answer or with the engine's end, so no answer can be late; and on
a failed handshake closing the pipe before the engine is let go of, terminated.

In the refinement `Connect` is `Meet`, `Transact` over a pipe whose other end is
there is `Ask`, the engine's `Handle` is `CarryOut`, and `Receive` and
`ReceiveFails` are `Return`.  A crash, an answer too large to send and the end
of an engine that was told to shut down are `Lose`; `Reap` is `Forget`,
`OwnerDies` is `Abandon`; all else stutters.  The step that takes the argument
is `Return`: that `shown` becomes what *this* call did needs `Answers`.  The
mirrors and the window, which take a call as one step, rest on it.

### MirrorProofs

About the scan, for any candidates, types, limits and page size:
`ScanInductive`, `ScanTypeCorrect`, `SummaryRight` (`SummaryAgrees`),
`ListRight` (`ListIsPrefix`), and the action properties `FetchComplete`
(`ScanSpec => FetchBringsAll`) and `ScanIsNotLost`
(`ScanSpec => OnlyRefusalLosesScan`).

Assumptions: `ScanBounds` (limits are numbers), `PageAssumption` (a page holds at
least one, here and in the lists of chains), `TypeOfAssumption` (each candidate
has a type), `NoneIsNoScan`.

`ScanIInv` adds: a dead engine has no scan (`NoneWithoutEngine`), so a fetch it
leaves unfinished has nothing to differ from; lists ascend, the one in a saved
file too (`ListsAscend`), so that a restored list is the engine's list of the
restored candidates; and a fetch without a scan brings nothing
(`NothingToFetch`).  `FetchComplete` needs that the list so far is a prefix of
the engine's (`ListIsPrefix`): only then is an empty page, or a length that
reaches the total, the end.  `ScanIsNotLost` goes action by action: each that
ends the engine's scan resets the mirror, ends the session or the engine, or is
the refused first scan.

About the chains, for all processes, widths of 4 and 8, layouts, finite sets of
chains and page sizes: `Inductive`, `TypeCorrect`, `MirrorAgrees`
(`ChainsAgree`), `AddressesStraight` (`NeverAstray`), `RescanDropsOnlyMisses`
(`Spec => DropsOnlyMisses`, an action property), and `MajorityFound`
(`MajorityRules`).

Assumptions: `TargetsAssumption` (`None` is no process, each has a width),
`ChainsAssumption` (finitely many chains, and where each leads),
`PageAssumption`.

`IInv` adds `WidthKnown`, that stored chains have the width of some
process, so that `resolve`, which refuses another width, never reads at the
wrong one; and `PagesFollow`, that between two pages the frontend has the first
of the engine's chains, with an address for each, so that the last page makes
the lists equal.  `ChainsAgree` alone says nothing of a list being fetched.
`PagesFollow` holds because no request other than the fetch comes between two
pages, which is what the guards on `fetching` say.

`MajorityFound` is about the loop of `resolveActiveProfile`, for any number of
addresses.  `Met` is that loop, a recursive function over the sorted list.
`MetIs` shows that it is what its recursion says, and `LoopCounts` its
invariant (`Counted`): at position k the run under way has as many addresses as
are not below the current one among the first k; the best so far has no more
votes than it claims, and no address before the current one has more.  Both are
inductions over k; as the induction theorems of the library cannot be cited, a
step goes by the least k for which the claim would fail (`LeastIs`).  That a run
is complete where the next address is another one is a fact of the sorted list
(`RunIsWhole`, `SortedIs`), and the run at the end needs the comparison behind
the loop (`BestHasMost`).

### WindowProofs

For any processes, finite sets of addresses and chains, and limits: `Inductive`,
`TypeCorrect`, `AllBelongs` (`Belongs`), `FrozenHeld` (`FrozenIsHeld`),
`RowsRight` (`RowsMatch`), `RefinesShown` (`RefinesWhatItShows`).

Assumptions: `NumbersAssumption` (addresses and chains are finite sets of
numbers), `ResolvesAssumption` (where each chain leads in each process),
`LimitsAssumption` (the limits are numbers).

`IInv` has a conjunct for each thing the window and the bridge share.
`Working`: the worker runs only while a process is attached (the handlers that
change it need `busy` to be zero), and its message comes after its last step.
`Attachment`: the window's process is the bridge's target, except that after the
engine's death the bridge may have one the window let go of.  `Scanned`: the
scan has cells of the bridge's target, so that what the worker copies belongs to
the window's process even when it was asked for by an earlier step.  `Freezing`:
freezes have numbers of their own, and there is always a fresh one (there are
more numbers than freezes and jobs together can use), so that replacing a freeze
never gives its number to another.  `Pointing`: where the bridge would answer
for a row, the rows are a prefix of its chains; between the worker's search and
its copy the bridge has other chains than the page shows, and `Awaited` says
that this is the only time.

`RefinesShown` has an invariant of its own on top (`Showing`): a first scan is
under way only where no results are shown; a list being copied is the engine's
scan so far; and where neither is going on the results are those of the engine's
scan.  It rests on the guard of `StartFirst`.

### InstallProofs

For any number of builds, and of operations that fail in each: `Inductive`,
`TypeCorrect`, `OnlyWholeInstalled` (`InstalledIsWhole`), `EngineNeverLost`
(`EngineSurvives`), `SuccessIsOne` (`SuccessInstallsBuild`).  For builds in
which one operation failed, whatever failed in others:
`OneFailureKeepsProduct`.  While no more than one operation of any build fails
(`MaxFaults <= 1`): `FailureKeepsProduct` (`FailedBuildKeepsProduct`) and
`ManifestMatches` (`PairMatches`).

Assumptions: `BuildsAssumption` (the bounds are numbers), `ContentAssumption`
and `NoneAssumption` (`None`, `Torn`, builds, folders and names differ).

The limit on the last three is the code's: a rollback that fails itself is
reported and not repaired, and with `MaxFaults = 2` TLC shows an engine beside
the manifest of another build and a failed build that took the product away.
The others hold with two and three failing operations as well (checked with
(`MaxBuilds`, `MaxFaults`) = (3,1), (2,2) and (2,3) before they were proved).

`IInv` follows the builder from place to place: what is installed, staged and
backed up before each operation (`EngineInstall`, `FolderInstall`), what has been
built (`WorkspaceHolds`), and that nothing installed was touched before the first
move (`NothingTouched`).  The properties see only the disk and the end of a
build; that a rollback finds the old engine under its backup name is a matter of
the way it came there.

### ToolsProofs

For every memory, layout of regions and ranges, chunk and page size, widths,
patterns and limits, and a target that writes and loses or regains pages between
two reads: `SpecFindsExactly` (`FindsExactly`, of which `SpecAobExact` is the
part about patterns) and `SpecTypeOK` (`TypeOK`, with `SpecAobTypeOK`).

Assumptions: `WalkSizes`, `RegionsAscend`, `RangesAreTyped` (chunks are
whole pages, regions begin with a page, ascend and do not overlap),
`TargetBeginnings`, `AobTypes`, `AobLimits`, `ScanLimits`, `WidthAssumption`,
`NoneIsNoJob`, and those of the pointer search below.

What a scan must find, the cells that are in reach and left alone from its first
read to its last, is history; what it has found so far depends on where its walk
is.  So the invariants speak of both.  `AobInv`: every sure match is in the list
already or comes in the walk that is ahead (`WalkAhead`, `SureComes`), nothing in
the list is known to be no match (`NeverComes`), and the list climbs
(`ListClimbs`), so that a match in the overlap of two chunks is not taken twice.
`ScanInv`: at rest list or snapshot is what the claim says; at work, each cell
the claim wants is in what has been found or comes in the blocks or entries that
are left (`InComes`), and nothing it excludes gets in (`OutStays`), which is
shown for the four kinds of work apart (`ListWork`, `SnapshotWork`,
`EntriesWork`, `BlocksWork`).  Below that are the lemmas about the walk: the
blocks of a range cover it; a cell lies in exactly one block that owns it and
whole in what that block reads with its overlap, or across two pages that were
read apart, which the claim excepts (`Plain`, `Thorough`); and a step takes the
blocks in order.

### PointerSearchProofs

For every memory, place of the module, cut of memory into parts, target and
limit: `SpecChainsLead` (`ChainsLead`), `SpecSearchComplete` (`SearchComplete`)
and `SpecPointerTypeOK`, the pointer part of `TypeOK`.

Assumptions: `PointerTypes`, `PartsAscend`, `PointerLimits`,
`PointerBeginnings`.

`PointerInv`: while a search runs in memory nobody wrote, the entries of the
index are pointers that memory has, and each node of a level leads to the target
(`Searching`, `LevelsLead`); the stored chains do (`ChainsHold`); each saved map
is true of the memory it was captured from (`TrueMap`).  The depth-first search
and the levels are loops of loops; each is shown to keep what its caller needs,
stage by stage (`Stages`).

`SpecSearchComplete` needs the other direction, that nothing is left out unless
something says so (`CompleteInv`).  `IndexHas`: until the index is full, it has
every pointer of the parts behind it that a read brought.  A chain is then a row
of slots (`IsRow`), and the search finds every row by induction over the levels
that are left (`NodeFinds`, `DfsFinds`), each step through the window of values
(`WindowIs`, which does not lose a value where it saturates) and below the limits
of parents, chains and work, any of which would have marked the result or be
known from `work`.  `LevelsReach`: if the reads were whole, each slot from which
a row of the level's length leads to the target has a node on it, although a
slot is given only the nearest of several (`OneSlotMore`, `RowShortens`,
`AllReached`); so the level at which a chain first appears is the shortest
(`NoneSoShort`, `LastLevel`).

### Order and OrderProofs

`Ordered(S)` is the ascending list of a finite set of numbers.  It and `Sorted`
stand in place of `SetToSortSeq` and `SortSeq`, which the provers cannot open.
`OrderProofs` shows that `Ordered` lists each member once, in order, and is the
only list that does, as `OrderedBy` does for any order; and that at each position
of `Sorted(f)` stands the value with fewer than so many below it and so many not
above.  `Stages` shows that `Loop(s, n, Step)` is what its recursion says, from
which each proof about a loop goes by the least step that would break its claim;
`Joined` and `Chosen` are lists put one behind the other and lists without some
elements.  `MirrorProofs`, `WindowProofs`, `ToolsProofs` and
`PointerSearchProofs` cite them.

### Only model-checked

Liveness (`JobsKeepBeingWritten`, `CallsReturn`, `DestructorReturns`,
`ServingEngineEnds`, `BusyEnds`, `BuildingEnds`): TLAPS has no rule for fairness
here.  Every other property a run passes is proved, and `OneJobPerCell` besides.

## Findings

1. **Chains resolve in the process of before** (`pointer_stale`).
   `EngineClientPointerScanner::resolve` returns the address stored when the
   page was last fetched.  `attach` and `refreshPointerContext` do not fetch.
   After `attach` to the restarted target, `pointer-resolve`, `profile-read`,
   `profile-write` and `profile-freeze` use addresses of the process that is
   gone; a profile loaded while detached stays unresolved after attaching.
   `docs/COMMANDS.md` says that the profile commands resolve against the
   current process.  A scan, a rescan or a new load repairs it.
2. **An engine can outlive its owner** (`link_orphan`).  An owner that dies
   between `CreateProcess` and opening the pipe leaves the engine in
   `ConnectNamedPipe` without a time limit.  `docs/ENGINE_ARCHITECTURE.md`
   promises that it ends on the owner's death; once a client is connected it
   does (`ServingEngineEnds`).
3. **A first refinement may keep the snapshot** (`mirror_snapshot`).  Survivors
   that do not fit `kMaxResults` stay in the snapshot (MemoryScanner.cpp:1367 and
   2019), where `docs/ARCHITECTURE.md` says that the first `next` makes the list
   and releases the raw memory.  The code's way is the sensible one; the document
   is behind.  In the run four of five candidates survive where a list holds
   three; that the snapshot is also kept when memory runs out
   (MemoryScanner.cpp:1429 and 2006) the property leaves out.
4. **A spent budget goes unmentioned** (`search_budget`).  A search whose
   budget is used up exactly within a nested step returns through
   PointerAlgorithms.cpp:144 without `truncated`, where
   `include/cw/PointerTypes.hpp:50` says that hitting the budget marks the
   result.  `SearchComplete` therefore speaks only of searches that stayed below
   it.
5. **A bad page hides the rest of its chunk** (`search_gap`).  When the read of
   a chunk brings a part, both pointer readers use it and go on behind the chunk
   (PointerScanner.cpp:329 and 661); only a read that brought nothing is repeated
   page by page, which a comment there (line 333) gives as the way in which "one
   bad page does not hide pointers in the rest of it".  Nothing marks the result.
   `SearchComplete` therefore speaks of the slots that reads have brought.

Also met while modelling, and not stated as properties since nothing in the
repository says what should happen:

- Scans: a first scan that the engine refuses has already cleared the scan
  before it, which the frontend goes on showing: `scan float 3.4028234e38` passes
  the frontend, is sent as 3.40282347e+38, and is then no value to the engine
  (EngineMain.cpp:401).  `OnlyRefusalLosesScan` says that nothing else does this.
  A mixed refinement whose text fits no type leaves the engine's scan
  alone but answers statistics of zero, from which the frontend concludes an
  empty list that is already loaded (`RefineRefused`); the next real operation
  repairs it.  `scan-save` after a failed fetch writes what has come so far
  (EngineFrontend.cpp:356), over the old file in place (ScanPersistence.cpp:77).
  A list of more than 900 000 results can be saved but not loaded again
  (EngineFrontend.cpp:440; the file format allows five million).  `scan-load`
  sets the options, which clears the AOB hits, before a restore that may be
  refused (main.cpp:1348).
- Walks: a value that lies across two regions is never found.  A walk that
  begins within a page, and has to read page by page, gives up the rest of it
  together with the page's beginning (MemoryScanner.cpp:447; `Thorough`).  A refinement of a
  snapshot that has to read page by page has no overlap, so cells across two of
  these pages are lost; `FindsExactly` excepts them.  A list loaded by
  `aob-load` may contain an address twice.
- Link: a refused `attach` (but for one to process 0) leaves the frontend showing
  the process the engine has already let go of.  No work reaches a wrong process, since the engine has
  none (`WorksOnTheShownProcess`).  After an engine was restarted the mirrors
  still describe the scan and chains of the dead one (`SummaryAgrees` and
  `ChainsAgree` speak of an engine that has a scan, or chains).
- Pointers: `fetchChains` and `pmap-capture` keep what a failing fetch has
  brought; `pmap-capture` then saves it as a complete map, as it does when reads
  fell short.  `profile-write`
  after a `pointer-scan` uses the new chains with the type of the profile loaded
  before (main.cpp:815).
- Window: a refinement that a dead engine did not answer is reported as done,
  with the list unchanged (GuiEngineBridge.cpp:412).  `set_chains` accepts the
  list of before when it has the right length (GuiEngineBridge.cpp:683); after a
  push that failed, because the engine is dead or a module's name is no UTF-8,
  rows would be resolved by their position in another list, so `RowsMatch`
  speaks of a live engine.  A profile loaded while detached is not pushed when
  a process is attached.  An engine that died is not started again in the
  session (GuiEngineBridge.cpp:173).  A click on cancel sets a flag that nobody
  passes on.  If `PostMessage` failed, the window would stay busy for good; the
  models take it to succeed.
- Install: `EngineSurvives` speaks of each build by itself: a kill after the
  engine was moved aside, and a next build that deletes the backup and then
  fails to copy, leave none.  The product builder does not look at the stream
  when it has written the manifest, so a torn one may be installed
  (`SuccessInstallsBuild` leaves it out).  Nothing keeps two builders from
  running at once.  An engine build renews `cw-engine.build.json` and leaves
  `cw-build-manifest.json`, in which the product builder wrote the hash of its
  engine (ProductBuilderMain.cpp:811), as it was: from then on it names an engine
  that is not installed.  `PairMatches` is about the first only.  No frontend reads `cw-engine.build.json`, although
  `docs/ENGINE_ARCHITECTURE.md:199` says that it is validated.

## Not modelled

The wire format, file formats, parsing and formatting of values, and
instruction decoding: pure conversions without state of their own.  The
operating system: that `WriteProcessMemory`, `DuplicateHandle`, pipes, file
moves and process termination do what they are documented to do is built into
the actions that use them, and each of them may fail where the code looks at
its result (`fs::exists` does not throw; a directory is moved only to where
nothing is).

Left out of modelled components:

- Scans: ranking, guided suggestions and `requestCancel` of the engine's
  `MemoryScanner`, which nothing in the program calls; the history of
  refinements and displayed values.  Which cells match is arbitrary in
  `ScanMirror` and exact in `MemoryScan`.
- Patterns: the engine's and the frontend's lists of hits are one in `AobScan`,
  as both are cleared and filled together; there is one module; cancellation.
- Pointers: alignment, `privateOnly`, `nodeCap` and the name of the root module.
  Which chains are found is arbitrary in `PointerMirror` and exact in
  `PointerSearch`.  The requests `SetPointerProfile` and
  `ResolvePointerProfile` (EngineMain.cpp:1164), which no frontend sends.
- Window: the edit fields, types of values, ranking, trainer page and drawing;
  two rows of one address with different types are one; pointer widths are
  equal; what `ScanMirror` and `PointerMirror` say of snapshots and types.
- Command line: listing, help, single reads and writes.
- Builders: nothing of a build, but for `cw-build-manifest.json` of the product,
  which no program of the product reads.  TLC lets one operation of a build fail, the
  proofs any number.

The trainer runtime, the trainer builder and the portable console are programs
of their own and not modelled; the first has state worth a model (see the race
above) and is the next of the plan.

## Plan

Done so far: the freeze manager and the link, each with its promise, proofs and
a proved refinement; both mirrors, the window, the builders, and the tools with
their walks and searches, every safety property of which is proved.  What is
left, in this order:

1. **Trainer** (`Trainer`): the timer (find the process, test whether it is
   there, resolve every entry), `Apply` and `Freeze` of the window, and the
   freeze thread with the handle of its round, whose reads of `valid`,
   `resolved` and `freezeBytes` are separate steps.  Property: a write goes to
   an address that a majority of the chains gave in the process that is open
   (`docs/TRAINER_DESIGN.md:55`), which the missing lock puts in doubt.
2. **Mirrors over the promise**: `ScanMirror` and `PointerMirror` take a call as
   one step.  With request and answer as two, over `LinkPromise`, the argument
   that they may would be a proof too.
