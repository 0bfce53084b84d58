------------------------------- MODULE Install -------------------------------
(***************************************************************************)
(* The two builders: cw-engine-builder.exe replaces the engine and its     *)
(* manifest inside the installed folder, Cheat-Wizard-Builder.exe replaces *)
(* the whole folder, from the command line or behind a window.  A build    *)
(* fails, a file operation fails, the builder is killed between any two    *)
(* operations; what must survive is the engine that was there before.      *)
(*                                                                         *)
(* A file's content is the number of the build it came from.  Torn stands  *)
(* for every content that is not a whole file: half copied, or a linked    *)
(* image that validatePe or the self-check would refuse.  One builder runs *)
(* at a time, which nothing in the code enforces.                          *)
(***************************************************************************)
EXTENDS Naturals

CONSTANTS MaxBuilds,  \* bound: builds started
          MaxFaults,  \* bound: file operations that fail in one build
          None, Torn

ASSUME BuildsAssumption == MaxBuilds \in Nat /\ MaxFaults \in Nat
ASSUME ContentAssumption == None # Torn /\ None \notin Nat /\ Torn \notin Nat

Binaries == {"engine", "gui", "trainer"}
Product  == Binaries \cup {"manifest"}
Pair     == {"engine", "manifest"}         \* what the engine builder replaces
NewName  == [engine |-> "engine.new", manifest |-> "manifest.new"]
OldName  == [engine |-> "engine.previous", manifest |-> "manifest.previous"]
Leftovers == {NewName[f] : f \in Pair} \cup {OldName[f] : f \in Pair}
Files    == Product \cup Leftovers
Builds   == 1..MaxBuilds
Content  == Builds \cup {None, Torn}
Empty    == [f \in Files |-> None]
Folders  == {"final", "new", "previous"}

\* None is neither a folder nor one of the names it stands beside.
ASSUME NoneAssumption ==
  /\ None \notin [Files -> Content]
  /\ None \notin {"engine", "headless", "window", "ok", "failed"}

VARIABLES folder,     \* the output directory, its ".new" and its ".previous"
          workspace,  \* what the running build has made in its temporary directory
          tool,       \* which builder runs: None, "engine", "headless" or "window"
          pc,         \* the operation it does next, and on what
          todo,       \* files of the product still to be copied
          saved,      \* what it has moved out of the way
          build,      \* number of builds started
          faults,     \* operations that may still fail in this build
          window,     \* the builder's window: "closed", "ready", "building" or "leaving"
          posted,     \* WM_CW_DONE in the window's queue: None, "ok" or "failed"
          before,     \* history: the output directory when the build started
          outcome     \* history: how the last build ended

disk == <<folder, workspace, todo, saved>>
ui   == <<window, posted>>
vars == <<folder, workspace, tool, pc, todo, saved, build, faults, window, posted,
          before, outcome>>

Final == folder["final"]
Steps == {"copy", "copying", "back", "put", "undo", "clear", "discard", "drop"}

\* Besides the types: the window does not go away, and take the process with it, while its
\* thread installs or its result is still to be shown.
TypeOK ==
  /\ folder \in [Folders -> [Files -> Content] \cup {None}]
  /\ workspace \in [Product -> Content]
  /\ tool \in {None, "engine", "headless", "window"}
  /\ pc \in {<<"idle">>, <<"prepare">>} \cup ({"build"} \X Product)
            \cup (Steps \X (Files \cup Folders))
  /\ todo \subseteq Product /\ saved \subseteq Pair \cup {"final"}
  /\ build \in 0..MaxBuilds /\ faults \in 0..MaxFaults
  /\ window \in {"closed", "ready", "building", "leaving"}
  /\ posted \in {None, "ok", "failed"}
  /\ before \in [Files -> Content]
  /\ outcome \in {"none", "ok", "failed", "killed"}
  /\ (tool = None) <=> (pc = <<"idle">>)
  /\ tool = "window" \/ posted # None => window = "building"

Init ==
  /\ folder = [d \in Folders |-> None]
  /\ workspace = [f \in Product |-> None]
  /\ tool = None /\ pc = <<"idle">>
  /\ todo = {} /\ saved = {}
  /\ build = 0 /\ faults = 0
  /\ window = "closed" /\ posted = None
  /\ before = Empty /\ outcome = "none"

-----------------------------------------------------------------------------
(* Starting, ending, failing. *)

Start(t) ==
  /\ tool = None /\ build < MaxBuilds
  /\ tool' = t /\ pc' = <<"prepare">>
  /\ build' = build + 1 /\ faults' = MaxFaults
  /\ workspace' = [f \in Product |-> None] /\ todo' = Product /\ saved' = {}
  /\ before' = IF Final = None THEN Empty ELSE Final
  /\ outcome' = "none"
  /\ UNCHANGED <<folder, posted>>

RunEngineBuilder == Start("engine") /\ UNCHANGED window
RunHeadless      == Start("headless") /\ UNCHANGED window

\* Mutant: the thread reports only success.
FinishInSilence(result) ==
  /\ tool' = None /\ pc' = <<"idle">> /\ outcome' = result
  /\ posted' = IF tool = "window" /\ result = "ok" THEN result ELSE posted
  /\ UNCHANGED <<workspace, todo, saved, build, window, before>>

\* The temporary directory is removed; the thread of the window reports.
Finish(result) ==
  /\ tool' = None /\ pc' = <<"idle">> /\ outcome' = result
  /\ posted' = IF tool = "window" THEN result ELSE posted
  /\ UNCHANGED <<workspace, todo, saved, build, window, before>>

Goto(next) ==
  /\ pc' = next
  /\ UNCHANGED <<tool, build, window, posted, before, outcome>>

Works == faults' = faults
Fails == faults > 0 /\ faults' = faults - 1

-----------------------------------------------------------------------------
(* Building: extract the payload, compile, link and validate each program, *)
(* write the manifest.  Any of it may fail, and touches nothing installed. *)

Prepare ==
  /\ pc = <<"prepare">>
  /\ Goto(<<"build", "engine">>)
  /\ UNCHANGED <<disk, faults>>

Link(program) ==
  /\ pc = <<"build", program>> /\ workspace[program] = None
  /\ \E image \in {build, Torn} : workspace' = [workspace EXCEPT ![program] = image]
  /\ Goto(pc)
  /\ UNCHANGED <<folder, todo, saved, faults>>

\* Mutant: the linked image is taken as it is.
ValidOnceLinked(program) == workspace[program] # None

\* validatePe, and for the engine a run with --version that must name the protocol.
Valid(program) == workspace[program] \notin {None, Torn}

Accept(program, next) ==
  /\ pc = <<"build", program>> /\ Valid(program)
  /\ Goto(<<"build", next>>)
  /\ UNCHANGED <<disk, faults>>

AcceptEngine  == Accept("engine", IF tool = "engine" THEN "manifest" ELSE "gui")
AcceptGui     == Accept("gui", "trainer")
AcceptTrainer == Accept("trainer", "manifest")

BuildFails ==
  /\ \/ pc = <<"prepare">>
     \/ \E f \in Product : pc = <<"build", f>>
  /\ Finish("failed")
  /\ UNCHANGED <<folder, faults>>

\* The product builder does not look whether the stream it wrote the manifest to
\* is still good, so it may install a torn one; the engine builder does.
WriteManifest ==
  /\ pc = <<"build", "manifest">>
  /\ \/ Works /\ workspace' = [workspace EXCEPT !["manifest"] = build]
     \/ Fails /\ tool # "engine" /\ workspace' = [workspace EXCEPT !["manifest"] = Torn]
  /\ Goto(<<"clear", IF tool = "engine" THEN "final" ELSE "new">>)
  /\ UNCHANGED <<folder, todo, saved>>

-----------------------------------------------------------------------------
(* atomicInstall: the engine and its manifest, inside the folder. *)

SetFinal(contents) ==
  /\ folder' = [folder EXCEPT !["final"] = contents]
  /\ UNCHANGED <<workspace, todo>>

Moved(from, to) == [Final EXCEPT ![to] = Final[from], ![from] = None]

\* create_directories, and what an earlier build left; fs::remove may fail unseen.
ClearLeftovers ==
  /\ pc = <<"clear", "final">>
  /\ LET base == IF Final = None THEN Empty ELSE Final IN
     \E kept \in SUBSET Leftovers :
       /\ IF \E f \in kept : base[f] # None THEN Fails ELSE kept = {} /\ Works
       /\ SetFinal([f \in Files |-> IF f \in Leftovers \ kept THEN None ELSE base[f]])
  /\ Goto(<<"copy", "engine">>)
  /\ UNCHANGED saved

BeginStage(f) ==
  /\ pc = <<"copy", f>> /\ tool = "engine"
  /\ SetFinal([Final EXCEPT ![NewName[f]] = Torn])
  /\ Goto(<<"copying", f>>) /\ UNCHANGED <<saved, faults>>

EndStage(f) ==
  /\ pc = <<"copying", f>> /\ tool = "engine"
  /\ \/ /\ Works
        /\ SetFinal([Final EXCEPT ![NewName[f]] = workspace[f]])
        /\ Goto(IF f = "engine" THEN <<"copy", "manifest">> ELSE <<"back", "engine">>)
        /\ UNCHANGED saved
     \/ /\ Fails
        /\ Finish("failed")
        /\ UNCHANGED folder

\* Where to go when f could not be moved out of the way.
AfterRefusal(f) ==
  IF f = "manifest" /\ "engine" \in saved
    THEN Goto(<<"undo", "engine">>) /\ UNCHANGED <<workspace, todo, saved>>
    ELSE Finish("failed")

\* Mutant: the old file is deleted instead of moved.
BackUpByRemoving(f) ==
  LET next == IF f = "engine" THEN <<"back", "manifest">> ELSE <<"put", "engine">> IN
  /\ pc = <<"back", f>>
  /\ Works /\ SetFinal([Final EXCEPT ![f] = None])
  /\ UNCHANGED saved
  /\ Goto(next)

BackUp(f) ==
  LET next == IF f = "engine" THEN <<"back", "manifest">> ELSE <<"put", "engine">> IN
  /\ pc = <<"back", f>>
  /\ \/ /\ Final[f] = None
        /\ Works /\ Goto(next) /\ UNCHANGED disk
     \/ /\ Final[f] # None
        /\ Works /\ SetFinal(Moved(f, OldName[f]))
        /\ saved' = saved \cup {f}
        /\ Goto(next)
     \/ /\ Final[f] # None
        /\ Fails /\ AfterRefusal(f) /\ UNCHANGED folder

\* Mutant: the manifest is forgotten when the engine cannot be put in place.
PutEngineUndoesEngine ==
  /\ pc = <<"put", "engine">>
  /\ UNCHANGED saved
  /\ \/ Works /\ SetFinal(Moved(NewName["engine"], "engine")) /\ Goto(<<"put", "manifest">>)
     \/ Fails /\ SetFinal(Final) /\ Goto(<<"undo", "engine">>)

PutEngine ==
  /\ pc = <<"put", "engine">>
  /\ UNCHANGED saved
  /\ \/ Works /\ SetFinal(Moved(NewName["engine"], "engine")) /\ Goto(<<"put", "manifest">>)
     \/ Fails /\ SetFinal(Final) /\ Goto(<<"undo", "manifest">>)

\* Failing, it takes the new engine away again before the old files come back.
PutManifest ==
  /\ pc = <<"put", "manifest">>
  /\ UNCHANGED saved
  /\ \/ Works /\ SetFinal(Moved(NewName["manifest"], "manifest")) /\ Goto(<<"drop", "final">>)
     \/ Fails /\ SetFinal(Final) /\ Goto(<<"discard", "engine">>)

\* Mutant: the new engine stays where it is.
RemoveNothing ==
  /\ pc = <<"discard", "engine">>
  /\ UNCHANGED saved
  /\ Goto(<<"undo", "manifest">>)
  /\ Works /\ SetFinal(Final)

RemoveNewEngine ==
  /\ pc = <<"discard", "engine">>
  /\ UNCHANGED saved
  /\ Goto(<<"undo", "manifest">>)
  /\ \/ Works /\ SetFinal([Final EXCEPT !["engine"] = None])
     \/ Fails /\ SetFinal(Final)

\* Restoring a file; nobody looks whether it worked.
Undo(f) ==
  /\ pc = <<"undo", f>>
  /\ \/ f \notin saved /\ Works /\ UNCHANGED folder
     \/ f \in saved /\ Works /\ folder' = [folder EXCEPT !["final"] = Moved(OldName[f], f)]
     \/ f \in saved /\ Fails /\ UNCHANGED folder
  /\ IF f = "manifest"
       THEN Goto(<<"undo", "engine">>) /\ UNCHANGED <<workspace, todo, saved>>
       ELSE Finish("failed")

DropBackups ==
  /\ pc = <<"drop", "final">>
  /\ \E kept \in SUBSET {f \in {OldName[g] : g \in Pair} : Final[f] # None} :
       /\ IF kept = {} THEN Works ELSE Fails
       /\ folder' = [folder EXCEPT !["final"] =
                       [f \in Files |-> IF f \in {OldName[g] : g \in Pair} \ kept
                                          THEN None ELSE Final[f]]]
  /\ Finish("ok")

-----------------------------------------------------------------------------
(* atomicInstallDirectory: the whole folder. *)

\* fs::remove_all: everything, or a part when some file cannot be removed.
RemovedAll(d) ==
  \/ Works /\ folder' = [folder EXCEPT ![d] = None]
  \/ /\ folder[d] # None /\ Fails
     /\ \E kept \in SUBSET {f \in Product : folder[d][f] # None} :
          folder' = [folder EXCEPT ![d] =
                       [f \in Files |-> IF f \in kept THEN folder[d][f] ELSE None]]

ClearNew ==
  /\ pc = <<"clear", "new">>
  /\ RemovedAll("new") /\ Goto(<<"clear", "previous">>)
  /\ UNCHANGED <<workspace, todo, saved>>

ClearPrevious ==
  /\ pc = <<"clear", "previous">>
  /\ RemovedAll("previous") /\ Goto(<<"copy", "new">>)
  /\ UNCHANGED <<workspace, todo, saved>>

\* Mutant: a file that is there already is skipped.
BeginCopyIfMissing(f) ==
  LET base == IF folder["new"] = None THEN Empty ELSE folder["new"] IN
  /\ pc = <<"copy", "new">> /\ f \in todo
  /\ IF base[f] = None
       THEN /\ folder' = [folder EXCEPT !["new"] = [base EXCEPT ![f] = Torn]]
            /\ Goto(<<"copying", f>>) /\ UNCHANGED todo
       ELSE folder' = folder /\ Goto(pc) /\ todo' = todo \ {f}
  /\ UNCHANGED <<workspace, saved, faults>>

BeginCopy(f) ==
  LET base == IF folder["new"] = None THEN Empty ELSE folder["new"] IN
  /\ pc = <<"copy", "new">> /\ f \in todo
  /\ folder' = [folder EXCEPT !["new"] = [base EXCEPT ![f] = Torn]]
  /\ Goto(<<"copying", f>>)
  /\ UNCHANGED <<workspace, todo, saved, faults>>

EndCopy(f) ==
  /\ pc = <<"copying", f>> /\ tool # "engine"
  /\ \/ /\ Works
        /\ folder' = [folder EXCEPT !["new"][f] = workspace[f]]
        /\ todo' = todo \ {f}
        /\ Goto(<<"copy", "new">>)
        /\ UNCHANGED <<workspace, saved>>
     \/ Fails /\ Finish("failed") /\ UNCHANGED folder

MovedFolder(from, to) ==
  folder' = [folder EXCEPT ![to] = folder[from], ![from] = None]

\* A directory is moved only where nothing is.
BackUpFolder ==
  /\ pc = <<"copy", "new">> /\ todo = {}
  /\ UNCHANGED <<workspace, todo>>
  /\ \/ /\ Final = None
        /\ Works /\ UNCHANGED <<folder, saved>> /\ Goto(<<"put", "new">>)
     \/ /\ Final # None /\ folder["previous"] = None
        /\ Works /\ MovedFolder("final", "previous")
        /\ saved' = {"final"} /\ Goto(<<"put", "new">>)
     \/ /\ Final # None
        /\ IF folder["previous"] = None THEN Fails ELSE Works
        /\ UNCHANGED <<folder, saved>> /\ Goto(<<"discard", "new">>)

PutFolder ==
  /\ pc = <<"put", "new">>
  /\ UNCHANGED <<workspace, todo, saved>>
  /\ \/ Works /\ MovedFolder("new", "final") /\ Goto(<<"drop", "previous">>)
     \/ Fails /\ UNCHANGED folder /\ Goto(<<"undo", "final">>)

UndoFolder ==
  /\ pc = <<"undo", "final">>
  /\ UNCHANGED <<workspace, todo, saved>>
  /\ Goto(<<"discard", "new">>)
  /\ \/ saved = {} /\ Works /\ UNCHANGED folder
     \/ saved # {} /\ Works /\ MovedFolder("previous", "final")
     \/ saved # {} /\ Fails /\ UNCHANGED folder

DiscardNew ==
  /\ pc = <<"discard", "new">>
  /\ RemovedAll("new") /\ Finish("failed")

DropPrevious ==
  /\ pc = <<"drop", "previous">>
  /\ RemovedAll("previous") /\ Finish("ok")

-----------------------------------------------------------------------------
(* The window of the product builder. *)

OpenWindow ==
  /\ window = "closed" /\ tool # "window" /\ window' = "ready"
  /\ UNCHANGED <<disk, tool, pc, build, faults, posted, before, outcome>>

Click ==
  /\ window = "ready"
  /\ Start("window")
  /\ window' = "building"

\* The result arrives: on success the program is started and the window closes by
\* a timer; when it does not start, or the build failed, another try is possible.
HandleDone ==
  /\ posted # None
  /\ posted' = None
  /\ window' \in IF posted = "ok" THEN {"leaving", "ready"} ELSE {"ready"}
  /\ UNCHANGED <<disk, tool, pc, build, faults, before, outcome>>

\* Mutant: closing is not refused while a build runs.
CloseAnyTime ==
  /\ window # "closed"
  /\ window' = "closed"
  /\ UNCHANGED <<disk, tool, pc, build, faults, posted, before, outcome>>

CloseWindow ==
  /\ window \in {"ready", "leaving"}
  /\ window' = "closed"
  /\ UNCHANGED <<disk, tool, pc, build, faults, posted, before, outcome>>

\* The process of a window that builds nothing is killed.
KillWindow ==
  /\ window # "closed" /\ tool # "window"
  /\ window' = "closed" /\ posted' = None
  /\ UNCHANGED <<disk, tool, pc, build, faults, before, outcome>>

\* The builder is killed, or the machine goes down.
Kill ==
  /\ tool # None
  /\ tool' = None /\ pc' = <<"idle">> /\ outcome' = "killed"
  /\ window' = IF tool = "window" THEN "closed" ELSE window
  /\ UNCHANGED <<disk, build, faults, posted, before>>

-----------------------------------------------------------------------------
BuildStep ==
  \/ Prepare \/ BuildFails \/ WriteManifest
  \/ \E f \in Binaries : Link(f)
  \/ AcceptEngine \/ AcceptGui \/ AcceptTrainer

EngineInstallStep ==
  \/ ClearLeftovers \/ PutEngine \/ PutManifest \/ RemoveNewEngine \/ DropBackups
  \/ \E f \in Pair : BeginStage(f) \/ EndStage(f) \/ BackUp(f) \/ Undo(f)

FolderInstallStep ==
  \/ ClearNew \/ ClearPrevious \/ BackUpFolder \/ PutFolder \/ UndoFolder
  \/ DiscardNew \/ DropPrevious
  \/ \E f \in Product : BeginCopy(f) \/ EndCopy(f)

ToolStep == BuildStep \/ EngineInstallStep \/ FolderInstallStep

Next ==
  \/ RunEngineBuilder \/ RunHeadless
  \/ OpenWindow \/ Click \/ HandleDone \/ CloseWindow
  \/ ToolStep
  \/ Kill \/ KillWindow

Fairness == WF_vars(ToolStep) /\ WF_vars(HandleDone)

Spec == Init /\ [][Next]_vars /\ Fairness
-----------------------------------------------------------------------------
Whole(content) == content \in Builds

\* No program the linker or a copy has spoiled is ever in the installed folder.
InstalledIsWhole ==
  Final # None => \A f \in Binaries : Final[f] # Torn

\* The manifest in the folder, which names the engine's hash, is of the engine next
\* to it at every moment: through replacement, every rollback, and after a kill.
PairMatches ==
  Final # None /\ Whole(Final["engine"]) /\ Whole(Final["manifest"])
    => Final["engine"] = Final["manifest"]

\* A build that reports failure has left all of the old product in place
\* (docs/ENGINE_ARCHITECTURE.md, "A failed rebuild must preserve the old engine").
FailedBuildKeepsProduct ==
  outcome = "failed" => \A f \in Product : (IF Final = None THEN Empty ELSE Final)[f] = before[f]

\* One that reports success has installed what it built and nothing of another build;
\* the manifest of the product may be torn.
SuccessInstallsBuild ==
  outcome = "ok" =>
    \/ \A f \in Binaries : Final[f] = build
    \/ /\ \A f \in Pair : Final[f] = build
       /\ \A f \in Product \ Pair : Final[f] = before[f]

\* A build that found an engine leaves one on the disk, be it under its backup name,
\* wherever it is interrupted.
EngineSurvives ==
  Whole(before["engine"]) =>
    \/ Final # None /\ \/ Whole(Final["engine"])
                       \/ Whole(Final["engine.previous"])
    \/ folder["previous"] # None /\ Whole(folder["previous"]["engine"])

\* The window becomes usable again after every build.
BuildingEnds == window = "building" ~> window # "building"

=============================================================================
