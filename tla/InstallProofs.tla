---------------------------- MODULE InstallProofs -----------------------------
(***************************************************************************)
(* What TLAPS proves about Install, for any number of builds: however many *)
(* file operations fail and wherever a builder is killed, the installed    *)
(* programs are whole, an engine that was there stays on the disk and a    *)
(* success is one; as long as no second operation fails in one build, the  *)
(* manifest matches the engine and a failed build leaves what it found.    *)
(***************************************************************************)
EXTENDS Install, TLAPS

Installed == IF Final = None THEN Empty ELSE Final

\* No second operation has failed in this build.
OneFailed == faults + 1 >= MaxFaults

Building   == {<<"prepare">>, <<"build", "engine">>, <<"build", "gui">>,
               <<"build", "trainer">>, <<"build", "manifest">>}
Staging    == {<<"copy", "engine">>, <<"copying", "engine">>,
               <<"copy", "manifest">>, <<"copying", "manifest">>, <<"back", "engine">>}
Replacing  == {<<"back", "manifest">>, <<"put", "engine">>, <<"put", "manifest">>,
               <<"drop", "final">>}
Recovering == {<<"discard", "engine">>, <<"undo", "manifest">>, <<"undo", "engine">>}
Filling    == {<<"clear", "new">>, <<"clear", "previous">>, <<"copy", "new">>,
               <<"copying", "engine">>, <<"copying", "gui">>, <<"copying", "trainer">>,
               <<"copying", "manifest">>}
Swapping   == {<<"put", "new">>, <<"undo", "final">>, <<"discard", "new">>,
               <<"drop", "previous">>}

EngineBuilds  == tool = "engine"
ProductBuilds == tool \in {"headless", "window"}

\* What each builder does; and a window that builds has no result to show.
ToolHolds ==
  /\ EngineBuilds => pc \in Building \cup {<<"clear", "final">>}
                              \cup Staging \cup Replacing \cup Recovering
  /\ EngineBuilds => pc \notin {<<"build", "gui">>, <<"build", "trainer">>}
  /\ ProductBuilds => pc \in Building \cup Filling \cup Swapping
  /\ tool = "window" => posted = None
  /\ tool # None => outcome = "none" /\ build \in Builds

\* What has been built: each program is accepted before the next is begun.
WorkspaceHolds ==
  tool # None =>
    /\ \A f \in Product : workspace[f] \in {None, build, Torn}
    /\ pc \notin {<<"prepare">>, <<"build", "engine">>} => workspace["engine"] = build
    /\ ProductBuilds /\ pc \notin {<<"prepare">>, <<"build", "engine">>, <<"build", "gui">>}
         => workspace["gui"] = build
    /\ ProductBuilds /\ pc \notin Building \ {<<"build", "manifest">>}
         => workspace["trainer"] = build
    /\ EngineBuilds /\ pc \notin Building => workspace["manifest"] = build
    /\ ProductBuilds /\ pc \notin Building => workspace["manifest"] # None

\* Before anything installed is touched, what was found is there.
NothingTouched ==
  /\ pc \in Building \cup {<<"clear", "final">>} => Installed = before /\ saved = {}
  /\ ProductBuilds /\ pc \in Filling => Installed = before /\ saved = {}
  /\ pc \in Building \cup {<<"clear", "new">>, <<"clear", "previous">>} => todo = Product

\* File f of the installed folder is the one that was found; or staged under its new
\* name; or gone, the one that was found being under its backup name.
Kept(f)     == Final[f] = before[f]
Staged(f)   == Final[NewName[f]] = build
BackedUp(f) == IF before[f] = None THEN f \notin saved
                                   ELSE f \in saved /\ Final[OldName[f]] = before[f]
Cleared(f)  == BackedUp(f) /\ Final[f] = None

\* The new engine is not in place, unless taking it away failed as well.
EngineTakenAway == Final["engine"] = None \/ (Final["engine"] = build /\ ~ OneFailed)

\* The folder while the engine and its manifest are replaced.
EngineInstall ==
  EngineBuilds =>
    /\ pc \in Staging \cup Replacing \cup Recovering =>
         Final # None /\ Kept("gui") /\ Kept("trainer")
    /\ pc \in Staging => saved = {} /\ Kept("engine") /\ Kept("manifest")
    /\ pc \in {<<"copy", "manifest">>, <<"copying", "manifest">>} => Staged("engine")
    /\ pc \in {<<"back", "engine">>, <<"back", "manifest">>, <<"put", "engine">>} =>
         Staged("engine") /\ Staged("manifest")
    /\ pc = <<"back", "manifest">> =>
         Cleared("engine") /\ "manifest" \notin saved /\ Kept("manifest")
    /\ pc = <<"put", "engine">> => Cleared("engine") /\ Cleared("manifest")
    /\ pc = <<"put", "manifest">> =>
         BackedUp("engine") /\ Final["engine"] = build /\ Cleared("manifest") /\ Staged("manifest")
    /\ pc \in Recovering => BackedUp("engine") /\ faults < MaxFaults
    /\ pc = <<"discard", "engine">> => Final["engine"] = build /\ Cleared("manifest")
    /\ pc = <<"undo", "manifest">> => EngineTakenAway /\ Cleared("manifest")
    /\ pc = <<"undo", "engine">> =>
         EngineTakenAway /\ (Kept("manifest") \/ (Final["manifest"] = None /\ ~ OneFailed))
    /\ pc = <<"drop", "final">> => Final["engine"] = build /\ Final["manifest"] = build

\* The three folders while the product is replaced.
FolderInstall ==
  ProductBuilds =>
    /\ pc = <<"copy", "new">> =>
         \A f \in Product \ todo : folder["new"] # None /\ folder["new"][f] = workspace[f]
    /\ \A g \in Product : pc = <<"copying", g>> =>
         /\ folder["new"] # None /\ g \in todo
         /\ \A f \in Product \ todo : folder["new"][f] = workspace[f]
    /\ pc = <<"put", "new">> =>
         folder["new"] # None /\ \A f \in Product : folder["new"][f] = workspace[f]
    /\ pc \in {<<"put", "new">>, <<"undo", "final">>} =>
         /\ Final = None
         /\ IF saved = {} THEN before = Empty
                          ELSE folder["previous"] # None /\ folder["previous"] = before
    /\ pc \in {<<"undo", "final">>} => faults < MaxFaults
    /\ pc = <<"discard", "new">> =>
         \/ Installed = before
         \/ folder["previous"] # None /\ folder["previous"] = before /\ Final = None /\ ~ OneFailed
    /\ pc = <<"drop", "previous">> =>
         Final # None /\ \A f \in Product : Final[f] = workspace[f]

Matching(files) ==
  Whole(files["engine"]) /\ Whole(files["manifest"]) => files["engine"] = files["manifest"]

\* What a build starts from is what the earlier ones left.
BeforeHolds ==
  /\ \A f \in Binaries : before[f] # Torn
  /\ MaxFaults <= 1 => Matching(before)

\* A build that failed, but for a second operation that failed in it, has left what it found.
FailedOnceKeepsProduct ==
  outcome = "failed" /\ OneFailed => \A f \in Product : Installed[f] = before[f]

\* How far the build under way has come.
Progress ==
  /\ TypeOK
  /\ ToolHolds
  /\ WorkspaceHolds
  /\ NothingTouched
  /\ EngineInstall
  /\ FolderInstall
  /\ BeforeHolds

\* What is on the disk at every moment.
DiskSound ==
  /\ InstalledIsWhole
  /\ EngineSurvives
  /\ MaxFaults <= 1 => PairMatches

\* What the last build has come to.
Ended ==
  /\ SuccessInstallsBuild
  /\ FailedOnceKeepsProduct

IInv ==
  /\ Progress
  /\ DiskSound
  /\ Ended

-----------------------------------------------------------------------------
(* Facts about the operators. *)

(* The files by name. *)
LEMMA FilesAre ==
    /\ Product = {"engine", "gui", "trainer", "manifest"}
    /\ Binaries = {"engine", "gui", "trainer"} /\ Pair = {"engine", "manifest"}
    /\ Leftovers = {"engine.new", "manifest.new", "engine.previous", "manifest.previous"}
    /\ Files = Product \cup Leftovers
    /\ NewName["engine"] = "engine.new" /\ NewName["manifest"] = "manifest.new"
    /\ OldName["engine"] = "engine.previous" /\ OldName["manifest"] = "manifest.previous"
  BY DEF Files, Product, Binaries, Leftovers, Pair, NewName, OldName

(* None, a torn file and a build are three different contents, and no folder is None. *)
LEMMA ContentsAre ==
    /\ MaxBuilds \in Nat /\ MaxFaults \in Nat
    /\ None \in Content /\ Torn \in Content /\ Builds \subseteq Content
    /\ None # Torn /\ \A b \in Builds : b \in Nat /\ b # None /\ b # Torn
    /\ \A b \in 1..MaxBuilds : b \in Builds
    /\ Empty \in [Files -> Content] /\ \A f \in Files : Empty[f] = None
    /\ \A files \in [Files -> Content] : files # None
<1>1. /\ MaxBuilds \in Nat /\ MaxFaults \in Nat
      /\ \A b \in 1..MaxBuilds : b \in Builds
      /\ None # Torn /\ \A b \in Builds : b \in Nat /\ b # None /\ b # Torn
  BY BuildsAssumption, ContentAssumption DEF Builds
<1>2. None \in Content /\ Torn \in Content /\ Builds \subseteq Content
  BY DEF Content
<1>3. \A files \in [Files -> Content] : files # None
  BY NoneAssumption
<1>4. Empty \in [Files -> Content] /\ \A f \in Files : Empty[f] = None
  BY <1>2 DEF Empty
<1> QED
  BY <1>1, <1>2, <1>3, <1>4

(* A folder is None or gives each file a content; so does what counts as installed. *)
LEMMA FolderIs ==
    ASSUME TypeOK
    PROVE  /\ \A d \in Folders : folder[d] = None \/ folder[d] \in [Files -> Content]
           /\ Final = None \/ Final \in [Files -> Content]
           /\ Installed \in [Files -> Content]
  BY ContentsAre DEF TypeOK, Folders, Installed, Final

(* Where a builder is, the disk is sound: wherever it is killed, the engine that was *)
(* there is in place, under its backup name or in the previous folder.               *)
LEMMA SoundInEngineBuild == Progress /\ EngineBuilds => DiskSound
<1> SUFFICES ASSUME Progress, EngineBuilds PROVE DiskSound
  OBVIOUS
<1>1. /\ TypeOK /\ ToolHolds /\ NothingTouched /\ EngineInstall /\ BeforeHolds
      /\ Installed \in [Files -> Content] /\ before \in [Files -> Content]
      /\ build \in Builds
  BY FolderIs, NoneAssumption DEF Progress, TypeOK, ToolHolds, EngineBuilds
<1>2. CASE pc \in Building \cup {<<"clear", "final">>}
  <2>1. Installed = before
    BY <1>1, <1>2 DEF NothingTouched
  <2>2. Final # None => Final = before
    BY <2>1 DEF Installed
  <2>3. Whole(before["engine"]) => Final # None
    BY <2>1, ContentsAre, FilesAre DEF Installed, Whole
  <2> QED
    BY <1>1, <2>2, <2>3
    DEF BeforeHolds, DiskSound, InstalledIsWhole, EngineSurvives, PairMatches, Matching
<1>3. CASE pc \in Staging \cup Replacing \cup Recovering
  <2>1. Final # None /\ Kept("gui") /\ Kept("trainer")
    BY <1>1, <1>3 DEF EngineInstall
  <2>2. \/ Kept("engine")
        \/ BackedUp("engine") /\ Final["engine"] \in {None, build}
        \/ Final["engine"] = build
    BY <1>1, <1>3 DEF EngineInstall, Staging, Replacing, Recovering, Cleared, EngineTakenAway
  <2>3. InstalledIsWhole
    BY <1>1, <2>1, <2>2, FilesAre, ContentsAre DEF InstalledIsWhole, BeforeHolds, Kept
  <2>4. EngineSurvives
    BY <1>1, <2>1, <2>2, FilesAre, ContentsAre DEF EngineSurvives, Kept, BackedUp, Whole
  <2>5. ASSUME MaxFaults <= 1 PROVE PairMatches
    <3>1. pc \in Recovering => OneFailed
      BY <1>1, <2>5, ContentsAre DEF OneFailed, TypeOK
    <3>2. \/ Kept("engine") /\ Kept("manifest")
          \/ Final["engine"] = None \/ Final["manifest"] = None
          \/ Final["engine"] = build /\ Final["manifest"] = build
      BY <1>1, <1>3, <3>1 DEF EngineInstall, Staging, Replacing, Recovering, Cleared, EngineTakenAway
    <3> QED
      BY <1>1, <2>5, <3>2, ContentsAre DEF PairMatches, BeforeHolds, Matching, Kept, Whole
  <2> QED
    BY <2>3, <2>4, <2>5 DEF DiskSound
<1> QED
  BY <1>1, <1>2, <1>3 DEF ToolHolds

(* The same for a product build: what is installed is what was found, or is in the
   previous folder, or is the new build as a whole. *)
LEMMA SoundInProductBuild == Progress /\ ProductBuilds => DiskSound
<1> SUFFICES ASSUME Progress, ProductBuilds PROVE DiskSound
  OBVIOUS
<1>1. /\ TypeOK /\ ToolHolds /\ NothingTouched /\ FolderInstall /\ BeforeHolds /\ WorkspaceHolds
      /\ Installed \in [Files -> Content] /\ before \in [Files -> Content]
      /\ build \in Builds /\ tool # None
  BY FolderIs, NoneAssumption DEF Progress, TypeOK, ToolHolds, ProductBuilds
<1>2. CASE Installed = before
  <2>2. Final # None => Final = before
    BY <1>2 DEF Installed
  <2>3. Whole(before["engine"]) => Final # None
    BY <1>2, ContentsAre, FilesAre DEF Installed, Whole
  <2> QED
    BY <1>1, <2>2, <2>3
    DEF BeforeHolds, DiskSound, InstalledIsWhole, EngineSurvives, PairMatches, Matching
<1>3. CASE Final = None /\ folder["previous"] # None /\ folder["previous"] = before
  BY <1>3 DEF DiskSound, InstalledIsWhole, EngineSurvives, PairMatches
<1>4. CASE pc = <<"drop", "previous">>
  <2>1. \A f \in Product : Final[f] = workspace[f]
    BY <1>1, <1>4 DEF FolderInstall
  <2>2. Final # None
    BY <1>1, <1>4 DEF FolderInstall
  <2>3. /\ workspace["engine"] = build /\ workspace["gui"] = build /\ workspace["trainer"] = build
        /\ workspace["manifest"] \in {build, Torn}
    BY <1>1, <1>4, FilesAre DEF WorkspaceHolds, Building
  <2> QED
    BY <1>1, <2>1, <2>2, <2>3, FilesAre, ContentsAre
    DEF DiskSound, InstalledIsWhole, EngineSurvives, PairMatches, Whole
<1>5. \/ Installed = before
      \/ Final = None /\ folder["previous"] # None /\ folder["previous"] = before
      \/ pc = <<"drop", "previous">>
  <2>1. CASE pc \in Building \cup Filling
    BY <1>1, <2>1 DEF NothingTouched
  <2>2. CASE pc \in {<<"put", "new">>, <<"undo", "final">>}
    BY <1>1, <2>2 DEF FolderInstall, Installed
  <2>3. CASE pc = <<"discard", "new">>
    BY <1>1, <2>3 DEF FolderInstall
  <2> QED
    BY <1>1, <2>1, <2>2, <2>3 DEF ToolHolds, Swapping
<1> QED
  BY <1>2, <1>3, <1>4, <1>5

(* Both together, now and after a step. *)
LEMMA SoundInBuild == Progress /\ tool # None => DiskSound
  BY SoundInEngineBuild, SoundInProductBuild DEF Progress, TypeOK, EngineBuilds, ProductBuilds

LEMMA SoundNext == (Progress /\ tool # None)' => DiskSound'
  BY SoundInBuild, PTL

(* The places of the two builders are places of a builder's program, now and after a step. *)
LEMMA PlaceIs ==
    ToolHolds /\ tool \in {"engine", "headless", "window"} =>
      /\ tool # None /\ pc # <<"idle">>
      /\ pc \in {<<"idle">>, <<"prepare">>} \cup ({"build"} \X Product)
                  \cup (Steps \X (Files \cup Folders))
<1> SUFFICES ASSUME ToolHolds, tool \in {"engine", "headless", "window"}
             PROVE  /\ pc # <<"idle">>
                    /\ pc \in {<<"idle">>, <<"prepare">>} \cup ({"build"} \X Product)
                                \cup (Steps \X (Files \cup Folders))
  BY NoneAssumption
<1>1. pc \in Building \cup {<<"clear", "final">>} \cup Staging \cup Replacing \cup Recovering
                \cup Filling \cup Swapping
  BY DEF ToolHolds, EngineBuilds, ProductBuilds
<1>2. CASE pc \in Building
  BY <1>2, FilesAre DEF Building
<1>3. CASE pc \in {<<"clear", "final">>} \cup Staging \cup Replacing \cup Recovering
  BY <1>3, FilesAre DEF Staging, Replacing, Recovering, Steps, Folders
<1>4. CASE pc \in Filling \cup Swapping
  BY <1>4, FilesAre DEF Filling, Swapping, Steps, Folders
<1> QED
  BY <1>1, <1>2, <1>3, <1>4

LEMMA PlaceNext ==
    (ToolHolds /\ tool \in {"engine", "headless", "window"})' =>
      (/\ tool # None /\ pc # <<"idle">>
       /\ pc \in {<<"idle">>, <<"prepare">>} \cup ({"build"} \X Product)
                   \cup (Steps \X (Files \cup Folders)))'
  BY PlaceIs, PTL

(* A step after which a builder still runs keeps the disk sound and ends nothing. *)
LEMMA GoesOn == ASSUME Progress', tool' # None PROVE IInv'
<1>1. outcome' = "none"
  BY DEF Progress, ToolHolds
<1> QED
  BY <1>1, SoundNext DEF IInv, Ended, SuccessInstallsBuild, FailedOnceKeepsProduct

-----------------------------------------------------------------------------
(* Starting and ending a build. *)

LEMMA Initially == Init => IInv
<1> SUFFICES ASSUME Init PROVE IInv
  OBVIOUS
<1>1. tool = None /\ pc = <<"idle">> /\ Final = None /\ before = Empty
  BY DEF Init, Final, Folders
<1>2. ~ EngineBuilds /\ ~ ProductBuilds
  BY <1>1, NoneAssumption DEF EngineBuilds, ProductBuilds
<1>3. TypeOK
  <2>1. folder \in [Folders -> [Files -> Content] \cup {None}] /\ workspace \in [Product -> Content]
    BY ContentsAre DEF Init
  <2>2. build \in 0..MaxBuilds /\ faults \in 0..MaxFaults
    BY ContentsAre DEF Init
  <2> QED
    BY <1>1, <2>1, <2>2, ContentsAre, NoneAssumption DEF Init, TypeOK
<1>4. ToolHolds /\ WorkspaceHolds /\ EngineInstall /\ FolderInstall
  BY <1>1, <1>2, NoneAssumption
  DEF ToolHolds, WorkspaceHolds, EngineInstall, FolderInstall
<1>5. NothingTouched
  BY <1>1, <1>2 DEF NothingTouched, Building
<1>6. BeforeHolds /\ DiskSound
  BY <1>1, ContentsAre, FilesAre
  DEF BeforeHolds, Matching, Whole, DiskSound, InstalledIsWhole, EngineSurvives, PairMatches
<1>7. Ended
  BY DEF Init, Ended, SuccessInstallsBuild, FailedOnceKeepsProduct
<1> QED
  BY <1>3, <1>4, <1>5, <1>6, <1>7 DEF IInv, Progress

(* A build starts from a disk that earlier builds left sound. *)
LEMMA StartKeeps ==
    ASSUME IInv, NEW t \in {"engine", "headless", "window"}, Start(t),
           \/ t # "window" /\ window' = window
           \/ t = "window" /\ window = "ready" /\ window' = "building"
    PROVE  IInv'
<1>1. /\ tool = None /\ tool' = t /\ pc' = <<"prepare">> /\ t # None
      /\ build' \in Builds /\ build' \in 0..MaxBuilds /\ faults' = MaxFaults
      /\ saved' = {} /\ todo' = Product /\ workspace' = [f \in Product |-> None]
      /\ before' = Installed /\ outcome' = "none" /\ folder' = folder /\ posted' = posted
  BY BuildsAssumption, NoneAssumption DEF IInv, Progress, TypeOK, Start, Installed, Builds
<1>2. TypeOK /\ DiskSound /\ Installed \in [Files -> Content] /\ Installed' = Installed
  BY <1>1, FolderIs DEF IInv, Progress, Installed, Final
<1>3. posted # None => window = "building"
  BY <1>2 DEF TypeOK
<1>4. ToolHolds'
  BY <1>1, <1>2, <1>3, NoneAssumption
  DEF ToolHolds, TypeOK, EngineBuilds, ProductBuilds, Building
<1>5. TypeOK'
  <2>1. workspace' \in [Product -> Content]
    BY <1>1, ContentsAre
  <2>2. (tool' = None) <=> (pc' = <<"idle">>)
    BY <1>1
  <2>3. tool' = "window" \/ posted' # None => window' = "building"
    BY <1>1, <1>3
  <2> QED
    BY <1>1, <1>2, <2>1, <2>2, <2>3, ContentsAre DEF TypeOK
<1>6. WorkspaceHolds'
  BY <1>1, NoneAssumption DEF WorkspaceHolds, EngineBuilds, ProductBuilds, Building
<1>7. NothingTouched'
  BY <1>1, <1>2 DEF NothingTouched
<1>8. EngineInstall'
  BY <1>1 DEF EngineInstall, Staging, Replacing, Recovering
<1>9. FolderInstall'
  BY <1>1 DEF FolderInstall
<1>10. BeforeHolds'
  <2>1. \A f \in Binaries : Installed[f] # Torn
    BY <1>2, ContentsAre, FilesAre DEF DiskSound, InstalledIsWhole, Installed
  <2>2. MaxFaults <= 1 => Matching(Installed)
    BY <1>2, ContentsAre, FilesAre DEF DiskSound, PairMatches, Matching, Installed, Whole
  <2> QED
    BY <1>1, <2>1, <2>2 DEF BeforeHolds, Matching, Whole
<1> QED
  BY <1>1, <1>4, <1>5, <1>6, <1>7, <1>8, <1>9, <1>10, GoesOn DEF Progress

(* A build ends: what it has come to is all there is to show. *)
LEMMA FinishKeeps ==
    ASSUME IInv, NEW result \in {"ok", "failed"}, Finish(result), tool # None,
           folder' \in [Folders -> [Files -> Content] \cup {None}],
           faults' \in 0..MaxFaults, DiskSound', Ended'
    PROVE  IInv'
<1>1. /\ tool' = None /\ pc' = <<"idle">> /\ outcome' = result
      /\ posted' = (IF tool = "window" THEN result ELSE posted)
      /\ workspace' = workspace /\ todo' = todo /\ saved' = saved /\ build' = build
      /\ window' = window /\ before' = before
  BY DEF Finish
<1>2. TypeOK /\ BeforeHolds
  BY DEF IInv, Progress
<1>3. TypeOK'
  <2>1. posted' \in {None, "ok", "failed"}
    BY <1>1, <1>2 DEF TypeOK
  <2>2. tool' = "window" \/ posted' # None => window' = "building"
    BY <1>1, <1>2, NoneAssumption DEF TypeOK
  <2> QED
    BY <1>1, <1>2, <2>1, <2>2 DEF TypeOK
<1>4. ~ EngineBuilds' /\ ~ ProductBuilds' /\ tool' # "window"
  BY <1>1, NoneAssumption DEF EngineBuilds, ProductBuilds
<1>5. ToolHolds' /\ WorkspaceHolds' /\ EngineInstall' /\ FolderInstall'
  BY <1>1, <1>4 DEF ToolHolds, WorkspaceHolds, EngineInstall, FolderInstall
<1>6. NothingTouched'
  BY <1>1, <1>4 DEF NothingTouched, Building
<1>7. BeforeHolds'
  BY <1>1, <1>2 DEF BeforeHolds, Matching, Whole
<1> QED
  BY <1>3, <1>5, <1>6, <1>7 DEF IInv, Progress

-----------------------------------------------------------------------------
(* Building. *)

(* Building touches nothing installed. *)
LEMMA BuildingKeeps ==
    ASSUME IInv, tool # None, pc \in Building,
           pc' \in Building \cup {<<"clear", "final">>, <<"clear", "new">>},
           UNCHANGED <<folder, todo, saved, tool, build, window, posted, before, outcome>>,
           workspace' \in [Product -> Content], faults' \in 0..MaxFaults,
           ToolHolds', WorkspaceHolds'
    PROVE  IInv'
<1>1. /\ folder' = folder /\ todo' = todo /\ saved' = saved /\ tool' = tool /\ build' = build
      /\ window' = window /\ posted' = posted /\ before' = before /\ outcome' = outcome
  OBVIOUS
<1>2. TypeOK /\ BeforeHolds /\ NothingTouched /\ tool' \in {"engine", "headless", "window"}
  BY <1>1 DEF IInv, Progress, TypeOK
<1>3. TypeOK'
  BY <1>1, <1>2, PlaceNext DEF TypeOK
<1>4. Installed' = before' /\ saved' = {} /\ todo' = Product
  BY <1>1, <1>2 DEF NothingTouched, Installed, Final
<1>5. NothingTouched' /\ BeforeHolds'
  BY <1>1, <1>2, <1>4 DEF NothingTouched, BeforeHolds, Matching, Whole
<1>6. EngineInstall' /\ FolderInstall'
  <2>1. CASE pc' \in Building
    BY <2>1 DEF EngineInstall, FolderInstall, Building, Staging, Replacing, Recovering
  <2>2. CASE pc' \in {<<"clear", "final">>, <<"clear", "new">>}
    BY <2>2 DEF EngineInstall, FolderInstall, Staging, Replacing, Recovering
  <2> QED
    BY <2>1, <2>2
<1> QED
  BY <1>1, <1>3, <1>5, <1>6, GoesOn DEF Progress

(* An empty workspace, and nothing installed is touched. *)
LEMMA PrepareKeeps == ASSUME IInv, Prepare PROVE IInv'
<1>1. /\ pc = <<"prepare">> /\ pc' = <<"build", "engine">> /\ workspace' = workspace /\ faults' = faults
      /\ UNCHANGED <<folder, todo, saved, tool, build, window, posted, before, outcome>>
  BY DEF Prepare, Goto, disk
<1>2. TypeOK /\ ToolHolds /\ WorkspaceHolds /\ tool # None
  BY <1>1 DEF IInv, Progress, TypeOK
<1>3. ToolHolds'
  BY <1>1, <1>2 DEF ToolHolds, Building, EngineBuilds, ProductBuilds
<1>4. WorkspaceHolds'
  BY <1>1, <1>2 DEF WorkspaceHolds, Building, EngineBuilds, ProductBuilds
<1> QED
  BY <1>1, <1>2, <1>3, <1>4, BuildingKeeps DEF Building, TypeOK

(* A program is accepted whole, or the build fails before it has touched anything. *)
LEMMA LinkKeeps == ASSUME IInv, NEW program \in Binaries, Link(program) PROVE IInv'
<1>1. PICK image \in {build, Torn} : workspace' = [workspace EXCEPT ![program] = image]
  BY DEF Link
<1>2. /\ pc = <<"build", program>> /\ pc' = pc /\ faults' = faults /\ workspace[program] = None
      /\ UNCHANGED <<folder, todo, saved, tool, build, window, posted, before, outcome>>
  BY DEF Link, Goto
<1>3. TypeOK /\ ToolHolds /\ WorkspaceHolds /\ tool # None /\ pc \in Building
  BY <1>2, FilesAre DEF IInv, Progress, TypeOK, Building
<1>4. workspace' \in [Product -> Content] /\ build # None
  BY <1>1, <1>3, ContentsAre DEF TypeOK, ToolHolds
<1>5. ToolHolds'
  BY <1>2, <1>3 DEF ToolHolds, EngineBuilds, ProductBuilds
<1>6. WorkspaceHolds'
  BY <1>1, <1>2, <1>3, <1>4, FilesAre DEF WorkspaceHolds, TypeOK, Building, EngineBuilds, ProductBuilds
<1> QED
  BY <1>2, <1>3, <1>4, <1>5, <1>6, BuildingKeeps DEF TypeOK

(* Only a program that is the one just linked is taken. *)
LEMMA AcceptKeeps == ASSUME IInv, AcceptEngine \/ AcceptGui \/ AcceptTrainer PROVE IInv'
<1>1. /\ workspace' = workspace /\ faults' = faults
      /\ UNCHANGED <<folder, todo, saved, tool, build, window, posted, before, outcome>>
  BY DEF AcceptEngine, AcceptGui, AcceptTrainer, Accept, Goto, disk
<1>2. \/ /\ pc = <<"build", "engine">> /\ Valid("engine")
         /\ pc' = IF tool = "engine" THEN <<"build", "manifest">> ELSE <<"build", "gui">>
      \/ pc = <<"build", "gui">> /\ Valid("gui") /\ pc' = <<"build", "trainer">>
      \/ pc = <<"build", "trainer">> /\ Valid("trainer") /\ pc' = <<"build", "manifest">>
  BY DEF AcceptEngine, AcceptGui, AcceptTrainer, Accept, Goto
<1>3. TypeOK /\ ToolHolds /\ WorkspaceHolds
  BY DEF IInv, Progress
<1>4. pc \in Building /\ pc' \in Building /\ tool # None
  BY <1>2, <1>3 DEF Building, TypeOK
<1>5. \A f \in Binaries : Valid(f) => workspace[f] = build
  BY <1>3, <1>4, FilesAre DEF Valid, WorkspaceHolds
<1>6. ToolHolds'
  BY <1>1, <1>2, <1>3 DEF ToolHolds, Building, EngineBuilds, ProductBuilds
<1>7. WorkspaceHolds'
  BY <1>1, <1>2, <1>3, <1>4, <1>5, FilesAre
  DEF WorkspaceHolds, Building, EngineBuilds, ProductBuilds
<1> QED
  BY <1>1, <1>3, <1>4, <1>6, <1>7, BuildingKeeps DEF TypeOK

(* The manifest is the last file built; only the product builder takes a torn one. *)
LEMMA WriteManifestKeeps == ASSUME IInv, WriteManifest PROVE IInv'
<1>1. /\ pc = <<"build", "manifest">>
      /\ pc' = IF tool = "engine" THEN <<"clear", "final">> ELSE <<"clear", "new">>
      /\ UNCHANGED <<folder, todo, saved, tool, build, window, posted, before, outcome>>
  BY DEF WriteManifest, Goto
<1>2. TypeOK /\ ToolHolds /\ WorkspaceHolds /\ tool # None /\ pc \in Building
  BY <1>1 DEF IInv, Progress, TypeOK, Building
<1>3. PICK written \in {build, Torn} :
         /\ workspace' = [workspace EXCEPT !["manifest"] = written]
         /\ tool = "engine" => written = build
  BY DEF WriteManifest
<1>4. faults' \in 0..MaxFaults
  BY <1>2, ContentsAre DEF WriteManifest, Works, Fails, TypeOK
<1>5. workspace' \in [Product -> Content] /\ build # None /\ workspace'["manifest"] = written
  BY <1>2, <1>3, ContentsAre, FilesAre DEF TypeOK, ToolHolds
<1>6. ToolHolds'
  BY <1>1, <1>2, NoneAssumption DEF ToolHolds, EngineBuilds, ProductBuilds, Filling, TypeOK
<1>7. WorkspaceHolds'
  <2>1. workspace'["engine"] = build /\ (ProductBuilds => workspace'["gui"] = build /\ workspace'["trainer"] = build)
    BY <1>1, <1>2, <1>3, FilesAre DEF WorkspaceHolds, TypeOK, Building
  <2>2. \A f \in Product : workspace'[f] \in {None, build, Torn}
    BY <1>2, <1>3, FilesAre DEF WorkspaceHolds, TypeOK
  <2> QED
    BY <1>1, <1>3, <1>5, <2>1, <2>2, ContentsAre DEF WorkspaceHolds, EngineBuilds, ProductBuilds
<1> QED
  BY <1>1, <1>2, <1>4, <1>5, <1>6, <1>7, BuildingKeeps

(* A build that fails before it installs leaves what it found. *)
LEMMA BuildFailsKeeps == ASSUME IInv, BuildFails PROVE IInv'
<1>1. tool # None /\ pc \in Building /\ TypeOK
  BY FilesAre DEF IInv, Progress, TypeOK, BuildFails, Building
<1>2. folder' = folder /\ faults' = faults /\ before' = before /\ outcome' = "failed"
  BY DEF BuildFails, Finish
<1>3. Installed' = before' /\ DiskSound
  BY <1>1, <1>2 DEF IInv, Progress, NothingTouched, Installed, Final
<1>4. DiskSound'
  BY <1>2, <1>3
  DEF DiskSound, InstalledIsWhole, EngineSurvives, PairMatches, Final, Whole
<1>5. Ended'
  BY <1>2, <1>3 DEF Ended, SuccessInstallsBuild, FailedOnceKeepsProduct
<1> QED
  BY <1>1, <1>2, <1>4, <1>5, FinishKeeps DEF BuildFails, TypeOK

-----------------------------------------------------------------------------
(* Replacing the engine and its manifest. *)

LEMMA OperationCounts == ASSUME TypeOK, Works \/ Fails PROVE faults' \in 0..MaxFaults
  BY ContentsAre DEF TypeOK, Works, Fails

(* Writing the installed folder leaves the other two. *)
LEMMA SetFinalIs ==
    ASSUME TypeOK, NEW files \in [Files -> Content], folder' = [folder EXCEPT !["final"] = files]
    PROVE  /\ Final' = files /\ Final' # None /\ folder'["previous"] = folder["previous"]
           /\ folder' \in [Folders -> [Files -> Content] \cup {None}]
  BY ContentsAre DEF TypeOK, Folders, Final

(* What a move of an installed file does to the folder: it takes place or fails. *)
LEMMA MovedIs ==
    ASSUME Final \in [Files -> Content], NEW from \in Files, NEW to \in Files, from # to
    PROVE  /\ Moved(from, to) \in [Files -> Content]
           /\ Moved(from, to)[to] = Final[from] /\ Moved(from, to)[from] = None
           /\ \A f \in Files \ {from, to} : Moved(from, to)[f] = Final[f]
  BY ContentsAre DEF Moved

(* What the engine builder knows once it installs. *)
LEMMA EngineIs ==
    ASSUME IInv, pc \in {<<"clear", "final">>} \cup Staging \cup Replacing \cup Recovering,
           tool = "engine" \/ pc \notin {<<"copying", "engine">>, <<"copying", "manifest">>}
    PROVE  /\ EngineBuilds /\ tool = "engine" /\ tool # None /\ pc \notin Building
           /\ TypeOK /\ NothingTouched /\ EngineInstall /\ DiskSound
           /\ workspace["engine"] = build /\ workspace["manifest"] = build
           /\ before \in [Files -> Content] /\ build \in Builds /\ build # None
           /\ pc # <<"clear", "final">> => Final \in [Files -> Content] /\ Final # None
<1>1. TypeOK /\ NothingTouched /\ EngineInstall /\ DiskSound /\ ToolHolds /\ WorkspaceHolds
  BY DEF IInv, Progress
<1>2. pc \notin Building /\ pc # <<"idle">> /\ pc # <<"prepare">>
  BY DEF Staging, Replacing, Recovering, Building
<1>3. tool = "engine"
  BY <1>1, <1>2 DEF TypeOK, ToolHolds, ProductBuilds, Staging, Replacing, Recovering,
                    Building, Filling, Swapping
<1>4. EngineBuilds /\ tool # None /\ build \in Builds /\ build # None
  BY <1>1, <1>3, NoneAssumption, ContentsAre DEF EngineBuilds, ToolHolds
<1>5. workspace["engine"] = build /\ workspace["manifest"] = build
  BY <1>1, <1>2, <1>4 DEF WorkspaceHolds, Building
<1>6. pc # <<"clear", "final">> => Final \in [Files -> Content] /\ Final # None
  BY <1>1, <1>4, FolderIs DEF EngineInstall
<1>7. before \in [Files -> Content]
  BY <1>1 DEF TypeOK
<1> QED
  BY <1>1, <1>2, <1>3, <1>4, <1>5, <1>6, <1>7

(* A step of the engine builder keeps the invariant if its place in the folder fits. *)
LEMMA EngineKeeps ==
    ASSUME IInv, tool = "engine", pc \notin Building,
           pc' \in Staging \cup Replacing \cup Recovering,
           UNCHANGED <<tool, build, window, posted, before, outcome, workspace, todo>>,
           folder' \in [Folders -> [Files -> Content] \cup {None}],
           saved' \subseteq Pair \cup {"final"}, faults' \in 0..MaxFaults, EngineInstall'
    PROVE  IInv'
<1>1. /\ tool' = "engine" /\ tool' = tool /\ tool' # None /\ build' = build /\ window' = window
      /\ posted' = posted /\ before' = before /\ outcome' = outcome /\ workspace' = workspace
      /\ todo' = todo /\ EngineBuilds /\ EngineBuilds' /\ ~ ProductBuilds'
  BY NoneAssumption DEF EngineBuilds, ProductBuilds
<1>2. TypeOK /\ ToolHolds /\ WorkspaceHolds /\ BeforeHolds
  BY DEF IInv, Progress
<1>3. pc' \notin Building \cup {<<"clear", "final">>, <<"clear", "new">>, <<"clear", "previous">>}
  BY DEF Staging, Replacing, Recovering, Building
<1>4. ToolHolds'
  <2>1. pc' \notin {<<"build", "gui">>, <<"build", "trainer">>}
    BY <1>3 DEF Building
  <2> QED
    BY <1>1, <1>2, <2>1 DEF ToolHolds
<1>5. TypeOK'
  BY <1>1, <1>2, <1>4, PlaceNext DEF TypeOK
<1>6. WorkspaceHolds'
  <2>1. /\ workspace["engine"] = build /\ workspace["manifest"] = build
        /\ \A f \in Product : workspace[f] \in {None, build, Torn}
    BY <1>1, <1>2, NoneAssumption DEF WorkspaceHolds, Building
  <2> QED
    BY <1>1, <2>1 DEF WorkspaceHolds
<1>7. NothingTouched' /\ FolderInstall' /\ BeforeHolds'
  BY <1>1, <1>2, <1>3 DEF NothingTouched, FolderInstall, BeforeHolds, Matching, Whole
<1> QED
  BY <1>1, <1>4, <1>5, <1>6, <1>7, GoesOn DEF Progress

(* A build that gives up without touching anything. *)
LEMMA GivesUpKeeps ==
    ASSUME IInv, tool # None, Finish("failed"), folder' = folder, faults' \in 0..MaxFaults,
           OneFailed' => \A f \in Product : Installed[f] = before[f]
    PROVE  IInv'
<1>1. before' = before /\ outcome' = "failed" /\ Installed' = Installed /\ Final' = Final
  BY DEF Finish, Installed, Final
<1>2. DiskSound'
  BY <1>1 DEF IInv, DiskSound, InstalledIsWhole, EngineSurvives, PairMatches, Whole
<1>3. Ended'
  BY <1>1 DEF Ended, SuccessInstallsBuild, FailedOnceKeepsProduct
<1> QED
  BY <1>2, <1>3, FinishKeeps DEF IInv, Progress, TypeOK

(* What an earlier builder left under new and backup names goes first. *)
LEMMA ClearLeftoversKeeps == ASSUME IInv, ClearLeftovers PROVE IInv'
<1>1. pc = <<"clear", "final">> /\ pc' = <<"copy", "engine">> /\ saved' = saved
  BY DEF ClearLeftovers, Goto
<1>2. /\ tool = "engine" /\ pc \notin Building /\ TypeOK /\ before \in [Files -> Content]
      /\ Installed = before /\ saved = {}
  BY <1>1, EngineIs DEF NothingTouched
<1> DEFINE files(kept) == [f \in Files |-> IF f \in Leftovers \ kept THEN None ELSE Installed[f]]
<1>3. PICK kept \in SUBSET Leftovers : SetFinal(files(kept))
  BY DEF ClearLeftovers, Installed
<1>4. Works \/ Fails
  BY DEF ClearLeftovers
<1>5. files(kept) \in [Files -> Content] /\ \A f \in Product : files(kept)[f] = before[f]
  BY <1>2, ContentsAre, FilesAre
<1> HIDE DEF files
<1>6. /\ Final' = files(kept) /\ Final' # None
      /\ folder' \in [Folders -> [Files -> Content] \cup {None}]
      /\ UNCHANGED <<tool, build, window, posted, before, outcome, workspace, todo>>
  BY <1>2, <1>3, <1>5, SetFinalIs DEF SetFinal, ClearLeftovers, Goto
<1>7. EngineInstall'
  BY <1>1, <1>2, <1>5, <1>6, FilesAre DEF EngineInstall, Staging, Replacing, Recovering, Kept
<1> QED
  BY <1>1, <1>2, <1>4, <1>6, <1>7, OperationCounts, EngineKeeps DEF Staging, TypeOK

(* A file that is being copied is under its new name, where nothing depends on it. *)
LEMMA BeginStageKeeps == ASSUME IInv, NEW g \in Pair, BeginStage(g) PROVE IInv'
<1>1. /\ pc = <<"copy", g>> /\ pc' = <<"copying", g>> /\ saved' = saved /\ faults' = faults
      /\ SetFinal([Final EXCEPT ![NewName[g]] = Torn])
      /\ UNCHANGED <<tool, build, window, posted, before, outcome>>
  BY DEF BeginStage, Goto
<1>2. /\ tool = "engine" /\ EngineBuilds /\ pc \notin Building /\ TypeOK /\ EngineInstall
      /\ Final \in [Files -> Content]
  BY <1>1, EngineIs, FilesAre DEF Staging
<1>3. [Final EXCEPT ![NewName[g]] = Torn] \in [Files -> Content]
  BY <1>2, ContentsAre
<1>4. /\ Final' = [Final EXCEPT ![NewName[g]] = Torn] /\ Final' # None
      /\ folder' \in [Folders -> [Files -> Content] \cup {None}]
      /\ workspace' = workspace /\ todo' = todo
  BY <1>1, <1>2, <1>3, SetFinalIs DEF SetFinal
<1>5. /\ saved = {} /\ \A f \in Product : Final[f] = before[f] /\ Final'[f] = before[f]
      /\ g = "manifest" => Final'["engine.new"] = build
  BY <1>1, <1>2, <1>4, FilesAre DEF EngineInstall, Staging, Kept, Staged
<1>6. EngineInstall'
  BY <1>1, <1>4, <1>5, FilesAre DEF EngineInstall, Staging, Replacing, Recovering, Kept, Staged
<1> QED
  BY <1>1, <1>2, <1>4, <1>6, EngineKeeps, FilesAre DEF Staging, TypeOK

(* A copy that ended is whole, or the build fails with nothing moved. *)
LEMMA EndStageKeeps == ASSUME IInv, NEW g \in Pair, EndStage(g) PROVE IInv'
<1>1. pc = <<"copying", g>> /\ tool = "engine"
  BY DEF EndStage
<1>2. /\ EngineBuilds /\ pc \notin Building /\ TypeOK /\ EngineInstall /\ tool # None
      /\ Final \in [Files -> Content] /\ Final # None
      /\ workspace["engine"] = build /\ workspace["manifest"] = build /\ build \in Builds
  BY <1>1, EngineIs, FilesAre DEF Staging
<1>3. /\ saved = {} /\ \A f \in Product : Final[f] = before[f]
      /\ g = "manifest" => Final["engine.new"] = build
  BY <1>1, <1>2, FilesAre DEF EngineInstall, Staging, Kept, Staged
<1>4. CASE Fails /\ Finish("failed") /\ folder' = folder
  BY <1>2, <1>3, <1>4, GivesUpKeeps, OperationCounts DEF Installed
<1>5. CASE /\ Works /\ SetFinal([Final EXCEPT ![NewName[g]] = workspace[g]]) /\ saved' = saved
           /\ Goto(IF g = "engine" THEN <<"copy", "manifest">> ELSE <<"back", "engine">>)
  <2>1. workspace[g] = build /\ build \in Content
    BY <1>2, FilesAre, ContentsAre
  <2>2. [Final EXCEPT ![NewName[g]] = workspace[g]] \in [Files -> Content]
    BY <1>2, <2>1
  <2>3. /\ Final' = [Final EXCEPT ![NewName[g]] = build] /\ Final' # None
        /\ folder' \in [Folders -> [Files -> Content] \cup {None}]
        /\ workspace' = workspace /\ todo' = todo
        /\ UNCHANGED <<tool, build, window, posted, before, outcome>>
        /\ pc' = IF g = "engine" THEN <<"copy", "manifest">> ELSE <<"back", "engine">>
    BY <1>2, <1>5, <2>1, <2>2, SetFinalIs DEF SetFinal, Goto
  <2>4. /\ \A f \in Product : Final'[f] = before[f]
        /\ Final'["engine.new"] = build
        /\ g = "manifest" => Final'["manifest.new"] = build
    BY <1>2, <1>3, <2>3, FilesAre
  <2>5. EngineInstall'
    BY <1>3, <1>5, <2>3, <2>4, FilesAre
    DEF EngineInstall, Staging, Replacing, Recovering, Kept, Staged
  <2> QED
    BY <1>1, <1>2, <1>5, <2>3, <2>5, EngineKeeps, OperationCounts DEF Staging, TypeOK
<1> QED
  BY <1>4, <1>5 DEF EndStage

(* Until it is known to be out of the way, what was found is where it was. *)
LEMMA BackUpKeeps == ASSUME IInv, NEW g \in Pair, BackUp(g) PROVE IInv'
<1> DEFINE next == IF g = "engine" THEN <<"back", "manifest">> ELSE <<"put", "engine">>
<1>1. pc = <<"back", g>> /\ g \in Files /\ OldName[g] \in Files /\ OldName[g] # g
  BY FilesAre DEF BackUp
<1>2. /\ tool = "engine" /\ EngineBuilds /\ pc \notin Building /\ TypeOK /\ EngineInstall
      /\ tool # None /\ Final \in [Files -> Content] /\ Final # None
      /\ before \in [Files -> Content] /\ Installed = Final
  BY <1>1, EngineIs, FilesAre DEF Staging, Replacing, Installed
<1>3. /\ g \notin saved /\ Final[g] = before[g] /\ Kept("gui") /\ Kept("trainer")
      /\ Staged("engine") /\ Staged("manifest")
      /\ g = "engine" => Kept("manifest") /\ "manifest" \notin saved
      /\ g = "manifest" => Cleared("engine")
  BY <1>1, <1>2, FilesAre DEF EngineInstall, Staging, Replacing, Kept
<1>4. CASE Final[g] = None /\ Works /\ Goto(next) /\ UNCHANGED disk
  <2>1. /\ folder' = folder /\ Final' = Final /\ saved' = saved /\ pc' = next
        /\ UNCHANGED <<tool, build, window, posted, before, outcome, workspace, todo>>
    BY <1>4 DEF disk, Goto, Final
  <2>2. EngineInstall'
    BY <1>2, <1>3, <1>4, <2>1, FilesAre
    DEF EngineInstall, Staging, Replacing, Recovering, Kept, Staged, Cleared, BackedUp
  <2> QED
    BY <1>2, <1>4, <2>1, <2>2, EngineKeeps, OperationCounts DEF Replacing, TypeOK
<1>5. CASE /\ Final[g] # None /\ Works /\ SetFinal(Moved(g, OldName[g]))
           /\ saved' = saved \cup {g} /\ Goto(next)
  <2>1. /\ Moved(g, OldName[g]) \in [Files -> Content]
        /\ Moved(g, OldName[g])[OldName[g]] = Final[g] /\ Moved(g, OldName[g])[g] = None
        /\ \A f \in Files \ {g, OldName[g]} : Moved(g, OldName[g])[f] = Final[f]
    BY <1>1, <1>2, MovedIs
  <2>2. /\ Final' = Moved(g, OldName[g]) /\ Final' # None /\ pc' = next
        /\ folder' \in [Folders -> [Files -> Content] \cup {None}]
        /\ UNCHANGED <<tool, build, window, posted, before, outcome, workspace, todo>>
    BY <1>2, <1>5, <2>1, SetFinalIs DEF SetFinal, Goto
  <2>3. Cleared(g)' /\ Kept("gui")' /\ Kept("trainer")' /\ Staged("engine")' /\ Staged("manifest")'
    BY <1>3, <1>5, <2>1, <2>2, FilesAre DEF Cleared, BackedUp, Kept, Staged
  <2>4. /\ g = "engine" => Kept("manifest")' /\ "manifest" \notin saved'
        /\ g = "manifest" => Cleared("engine")'
    BY <1>3, <1>5, <2>1, <2>2, FilesAre DEF Cleared, BackedUp, Kept
  <2>5. EngineInstall'
    BY <2>2, <2>3, <2>4, FilesAre DEF EngineInstall, Staging, Replacing, Recovering
  <2> QED
    BY <1>2, <1>5, <2>2, <2>5, EngineKeeps, OperationCounts DEF Replacing, TypeOK
<1>6. CASE Final[g] # None /\ Fails /\ AfterRefusal(g) /\ UNCHANGED folder
  <2>1. CASE g = "manifest" /\ "engine" \in saved
    <3>1. /\ folder' = folder /\ Final' = Final /\ saved' = saved /\ pc' = <<"undo", "engine">>
          /\ UNCHANGED <<tool, build, window, posted, before, outcome, workspace, todo>>
      BY <1>6, <2>1 DEF AfterRefusal, Goto, Final
    <3>2. faults' < MaxFaults
      BY <1>2, <1>6, ContentsAre DEF Fails, TypeOK
    <3>3. EngineInstall'
      BY <1>2, <1>3, <2>1, <3>1, <3>2, FilesAre
      DEF EngineInstall, Staging, Replacing, Recovering, Kept, Cleared, BackedUp, EngineTakenAway
    <3> QED
      BY <1>2, <1>6, <3>1, <3>3, EngineKeeps, OperationCounts DEF Recovering, TypeOK
  <2>2. CASE ~ (g = "manifest" /\ "engine" \in saved)
    <3>1. Finish("failed")
      BY <1>6, <2>2 DEF AfterRefusal
    <3>2. \A f \in Product : Installed[f] = before[f]
      BY <1>2, <1>3, <2>2, FilesAre DEF Kept, Cleared, BackedUp
    <3> QED
      BY <1>2, <1>6, <3>1, <3>2, GivesUpKeeps, OperationCounts
  <2> QED
    BY <2>1, <2>2
<1> QED
  BY <1>4, <1>5, <1>6 DEF BackUp

(* The old engine has its backup name while the new one takes its place. *)
LEMMA PutEngineKeeps == ASSUME IInv, PutEngine PROVE IInv'
<1>1. pc = <<"put", "engine">> /\ saved' = saved
  BY DEF PutEngine
<1>2. /\ tool = "engine" /\ EngineBuilds /\ pc \notin Building /\ TypeOK /\ EngineInstall
      /\ Final \in [Files -> Content] /\ Final # None
  BY <1>1, EngineIs DEF Replacing
<1>3. /\ Kept("gui") /\ Kept("trainer") /\ Staged("engine") /\ Staged("manifest")
      /\ Cleared("engine") /\ Cleared("manifest")
  BY <1>1, <1>2 DEF EngineInstall, Replacing
<1>4. CASE Works /\ SetFinal(Moved(NewName["engine"], "engine")) /\ Goto(<<"put", "manifest">>)
  <2>1. /\ Moved("engine.new", "engine") \in [Files -> Content]
        /\ Moved("engine.new", "engine")["engine"] = build
        /\ \A f \in Files \ {"engine.new", "engine"} : Moved("engine.new", "engine")[f] = Final[f]
    BY <1>2, <1>3, MovedIs, FilesAre DEF Staged
  <2>2. /\ Final' = Moved("engine.new", "engine") /\ Final' # None /\ pc' = <<"put", "manifest">>
        /\ folder' \in [Folders -> [Files -> Content] \cup {None}]
        /\ UNCHANGED <<tool, build, window, posted, before, outcome, workspace, todo>>
    BY <1>2, <1>4, <2>1, SetFinalIs, FilesAre DEF SetFinal, Goto
  <2>3. /\ Kept("gui")' /\ Kept("trainer")' /\ Staged("manifest")' /\ Final'["engine"] = build'
        /\ BackedUp("engine")' /\ Cleared("manifest")'
    BY <1>1, <1>3, <2>1, <2>2, FilesAre DEF Kept, Staged, Cleared, BackedUp
  <2>4. EngineInstall'
    BY <2>2, <2>3 DEF EngineInstall, Staging, Replacing, Recovering
  <2> QED
    BY <1>1, <1>2, <1>4, <2>2, <2>4, EngineKeeps, OperationCounts DEF Replacing, TypeOK
<1>5. CASE Fails /\ SetFinal(Final) /\ Goto(<<"undo", "manifest">>)
  <2>1. /\ Final' = Final /\ Final' # None /\ pc' = <<"undo", "manifest">>
        /\ folder' \in [Folders -> [Files -> Content] \cup {None}]
        /\ UNCHANGED <<tool, build, window, posted, before, outcome, workspace, todo>>
    BY <1>2, <1>5, SetFinalIs DEF SetFinal, Goto
  <2>2. faults' < MaxFaults
    BY <1>2, <1>5, ContentsAre DEF Fails, TypeOK
  <2>3. /\ Kept("gui")' /\ Kept("trainer")' /\ EngineTakenAway' /\ BackedUp("engine")'
        /\ Cleared("manifest")'
    BY <1>1, <1>3, <2>1 DEF Kept, Cleared, BackedUp, EngineTakenAway
  <2>4. EngineInstall'
    BY <2>1, <2>2, <2>3 DEF EngineInstall, Staging, Replacing, Recovering
  <2> QED
    BY <1>1, <1>2, <1>5, <2>1, <2>4, EngineKeeps, OperationCounts DEF Recovering, TypeOK
<1> QED
  BY <1>4, <1>5 DEF PutEngine

(* The last move makes the pair the new one; if it fails the rollback begins. *)
LEMMA PutManifestKeeps == ASSUME IInv, PutManifest PROVE IInv'
<1>1. pc = <<"put", "manifest">> /\ saved' = saved
  BY DEF PutManifest
<1>2. /\ tool = "engine" /\ EngineBuilds /\ pc \notin Building /\ TypeOK /\ EngineInstall
      /\ Final \in [Files -> Content] /\ Final # None
  BY <1>1, EngineIs DEF Replacing
<1>3. /\ Kept("gui") /\ Kept("trainer") /\ Staged("manifest") /\ Final["engine"] = build
      /\ BackedUp("engine") /\ Cleared("manifest")
  BY <1>1, <1>2 DEF EngineInstall, Replacing
<1>4. CASE Works /\ SetFinal(Moved(NewName["manifest"], "manifest")) /\ Goto(<<"drop", "final">>)
  <2>1. /\ Moved("manifest.new", "manifest") \in [Files -> Content]
        /\ Moved("manifest.new", "manifest")["manifest"] = build
        /\ \A f \in Files \ {"manifest.new", "manifest"} :
              Moved("manifest.new", "manifest")[f] = Final[f]
    BY <1>2, <1>3, MovedIs, FilesAre DEF Staged
  <2>2. /\ Final' = Moved("manifest.new", "manifest") /\ Final' # None /\ pc' = <<"drop", "final">>
        /\ folder' \in [Folders -> [Files -> Content] \cup {None}]
        /\ UNCHANGED <<tool, build, window, posted, before, outcome, workspace, todo>>
    BY <1>2, <1>4, <2>1, SetFinalIs, FilesAre DEF SetFinal, Goto
  <2>3. /\ Kept("gui")' /\ Kept("trainer")'
        /\ Final'["engine"] = build' /\ Final'["manifest"] = build'
    BY <1>3, <2>1, <2>2, FilesAre DEF Kept
  <2>4. EngineInstall'
    BY <2>2, <2>3 DEF EngineInstall, Staging, Replacing, Recovering
  <2> QED
    BY <1>1, <1>2, <1>4, <2>2, <2>4, EngineKeeps, OperationCounts DEF Replacing, TypeOK
<1>5. CASE Fails /\ SetFinal(Final) /\ Goto(<<"discard", "engine">>)
  <2>1. /\ Final' = Final /\ Final' # None /\ pc' = <<"discard", "engine">>
        /\ folder' \in [Folders -> [Files -> Content] \cup {None}]
        /\ UNCHANGED <<tool, build, window, posted, before, outcome, workspace, todo>>
    BY <1>2, <1>5, SetFinalIs DEF SetFinal, Goto
  <2>2. faults' < MaxFaults
    BY <1>2, <1>5, ContentsAre DEF Fails, TypeOK
  <2>3. /\ Kept("gui")' /\ Kept("trainer")' /\ Final'["engine"] = build' /\ BackedUp("engine")'
        /\ Cleared("manifest")'
    BY <1>1, <1>3, <2>1 DEF Kept, Cleared, BackedUp
  <2>4. EngineInstall'
    BY <2>1, <2>2, <2>3 DEF EngineInstall, Staging, Replacing, Recovering
  <2> QED
    BY <1>1, <1>2, <1>5, <2>1, <2>4, EngineKeeps, OperationCounts DEF Recovering, TypeOK
<1> QED
  BY <1>4, <1>5 DEF PutManifest

(* The new engine stays only where a second operation failed. *)
LEMMA RemoveNewEngineKeeps == ASSUME IInv, RemoveNewEngine PROVE IInv'
<1>1. /\ pc = <<"discard", "engine">> /\ pc' = <<"undo", "manifest">> /\ saved' = saved
      /\ UNCHANGED <<tool, build, window, posted, before, outcome>>
  BY DEF RemoveNewEngine, Goto
<1>2. /\ tool = "engine" /\ EngineBuilds /\ pc \notin Building /\ TypeOK /\ EngineInstall
      /\ Final \in [Files -> Content] /\ Final # None
  BY <1>1, EngineIs DEF Recovering
<1>3. /\ Kept("gui") /\ Kept("trainer") /\ Final["engine"] = build
      /\ BackedUp("engine") /\ Cleared("manifest") /\ faults < MaxFaults
  BY <1>1, <1>2 DEF EngineInstall, Recovering
<1>4. PICK files \in [Files -> Content] :
         /\ SetFinal(files) /\ \A f \in Files \ {"engine"} : files[f] = Final[f]
         /\ (Works /\ files["engine"] = None) \/ (Fails /\ files["engine"] = build)
  <2>1. CASE Works /\ SetFinal([Final EXCEPT !["engine"] = None])
    <3> DEFINE taken == [Final EXCEPT !["engine"] = None]
    <3>1. /\ taken \in [Files -> Content] /\ taken["engine"] = None
          /\ \A f \in Files \ {"engine"} : taken[f] = Final[f]
      BY <1>2, ContentsAre, FilesAre
    <3>2. SetFinal(taken)
      BY <2>1
    <3> HIDE DEF taken
    <3> QED
      BY <2>1, <3>1, <3>2
  <2>2. CASE Fails /\ SetFinal(Final)
    BY <1>2, <1>3, <2>2
  <2> QED
    BY <2>1, <2>2 DEF RemoveNewEngine
<1>5. /\ Final' = files /\ Final' # None /\ workspace' = workspace /\ todo' = todo
      /\ folder' \in [Folders -> [Files -> Content] \cup {None}]
  BY <1>2, <1>4, SetFinalIs DEF SetFinal
<1>6. /\ faults' < MaxFaults /\ faults' \in 0..MaxFaults
      /\ Final'["engine"] = None \/ (Final'["engine"] = build /\ ~ OneFailed')
  BY <1>2, <1>3, <1>4, <1>5, ContentsAre DEF Works, Fails, OneFailed, TypeOK
<1>7. /\ Kept("gui")' /\ Kept("trainer")' /\ BackedUp("engine")' /\ Cleared("manifest")'
      /\ EngineTakenAway'
  BY <1>1, <1>3, <1>4, <1>5, <1>6, FilesAre DEF Kept, Cleared, BackedUp, EngineTakenAway
<1>8. EngineInstall'
  BY <1>1, <1>5, <1>6, <1>7 DEF EngineInstall, Staging, Replacing, Recovering
<1> QED
  BY <1>1, <1>2, <1>5, <1>6, <1>8, EngineKeeps DEF Recovering, TypeOK

(* The old manifest comes back, unless this is the second operation that fails. *)
LEMMA UndoManifestKeeps == ASSUME IInv, Undo("manifest") PROVE IInv'
<1>1. /\ pc = <<"undo", "manifest">> /\ pc' = <<"undo", "engine">>
      /\ workspace' = workspace /\ todo' = todo /\ saved' = saved
      /\ UNCHANGED <<tool, build, window, posted, before, outcome>>
  BY DEF Undo, Goto
<1>2. /\ tool = "engine" /\ EngineBuilds /\ pc \notin Building /\ TypeOK /\ EngineInstall
      /\ Final \in [Files -> Content] /\ Final # None
  BY <1>1, EngineIs DEF Recovering
<1>3. /\ Kept("gui") /\ Kept("trainer") /\ EngineTakenAway
      /\ BackedUp("engine") /\ Cleared("manifest") /\ faults < MaxFaults
  BY <1>1, <1>2 DEF EngineInstall, Recovering
<1>4. /\ Final' \in [Files -> Content] /\ Final' # None
      /\ folder' \in [Folders -> [Files -> Content] \cup {None}]
      /\ \A f \in Files \ {"manifest", "manifest.previous"} : Final'[f] = Final[f]
      /\ \/ Works /\ Final'["manifest"] = before["manifest"]
         \/ Fails /\ Final'["manifest"] = None
  <2>1. CASE "manifest" \notin saved /\ Works /\ folder' = folder
    <3>1. before["manifest"] = None /\ Final["manifest"] = None /\ Final' = Final
      BY <1>3, <2>1 DEF Cleared, BackedUp, Final
    <3> QED
      BY <1>2, <2>1, <3>1 DEF TypeOK
  <2>2. CASE /\ "manifest" \in saved /\ Works
             /\ folder' = [folder EXCEPT !["final"] = Moved(OldName["manifest"], "manifest")]
    <3>1. Final["manifest.previous"] = before["manifest"]
      BY <1>3, <2>2, FilesAre DEF Cleared, BackedUp
    <3>2. /\ Moved("manifest.previous", "manifest") \in [Files -> Content]
          /\ Moved("manifest.previous", "manifest")["manifest"] = before["manifest"]
          /\ \A f \in Files \ {"manifest.previous", "manifest"} :
               Moved("manifest.previous", "manifest")[f] = Final[f]
      BY <1>2, <3>1, MovedIs, FilesAre
    <3>3. /\ Final' = Moved("manifest.previous", "manifest") /\ Final' # None
          /\ folder' \in [Folders -> [Files -> Content] \cup {None}]
      BY <1>2, <2>2, <3>2, SetFinalIs, FilesAre
    <3> QED
      BY <2>2, <3>2, <3>3
  <2>3. CASE Fails /\ folder' = folder
    <3>1. Final["manifest"] = None /\ Final' = Final
      BY <1>3, <2>3 DEF Cleared, Final
    <3> QED
      BY <1>2, <2>3, <3>1 DEF TypeOK
  <2> QED
    BY <2>1, <2>2, <2>3 DEF Undo
<1>5. /\ faults' < MaxFaults /\ faults' \in 0..MaxFaults
      /\ OneFailed' => OneFailed
      /\ Final'["manifest"] = before["manifest"] \/ (Final'["manifest"] = None /\ ~ OneFailed')
  BY <1>2, <1>3, <1>4, ContentsAre DEF Works, Fails, OneFailed, TypeOK
<1>6. /\ Kept("gui")' /\ Kept("trainer")' /\ BackedUp("engine")' /\ EngineTakenAway'
      /\ Kept("manifest")' \/ (Final'["manifest"] = None /\ ~ OneFailed')
  BY <1>1, <1>3, <1>4, <1>5, FilesAre DEF Kept, BackedUp, EngineTakenAway
<1>7. EngineInstall'
  BY <1>1, <1>4, <1>5, <1>6 DEF EngineInstall, Staging, Replacing, Recovering
<1> QED
  BY <1>1, <1>2, <1>4, <1>5, <1>7, EngineKeeps DEF Recovering, TypeOK

(* Where the engine cannot be put back, it is still there under its backup name. *)
LEMMA UndoEngineKeeps == ASSUME IInv, Undo("engine") PROVE IInv'
<1>1. pc = <<"undo", "engine">> /\ Finish("failed")
  BY DEF Undo
<1>2. /\ tool # None /\ EngineBuilds /\ TypeOK /\ EngineInstall /\ DiskSound /\ BeforeHolds
      /\ Final \in [Files -> Content] /\ Final # None /\ Installed = Final
      /\ before \in [Files -> Content] /\ build # None /\ before' = before /\ outcome' = "failed"
  BY <1>1, EngineIs DEF Recovering, Installed, Finish, IInv, Progress
<1>3. /\ Kept("gui") /\ Kept("trainer") /\ EngineTakenAway
      /\ BackedUp("engine") /\ faults < MaxFaults
      /\ Kept("manifest") \/ (Final["manifest"] = None /\ ~ OneFailed)
  BY <1>1, <1>2 DEF EngineInstall, Recovering
<1>4. CASE /\ "engine" \in saved /\ Works
           /\ folder' = [folder EXCEPT !["final"] = Moved(OldName["engine"], "engine")]
  <2>1. Final["engine.previous"] = before["engine"]
    BY <1>3, <1>4, FilesAre DEF BackedUp
  <2>2. /\ Moved("engine.previous", "engine") \in [Files -> Content]
        /\ Moved("engine.previous", "engine")["engine"] = before["engine"]
        /\ \A f \in Files \ {"engine.previous", "engine"} :
             Moved("engine.previous", "engine")[f] = Final[f]
    BY <1>2, <2>1, MovedIs, FilesAre
  <2>3. /\ Final' = Moved("engine.previous", "engine") /\ Final' # None
        /\ folder' \in [Folders -> [Files -> Content] \cup {None}] /\ Installed' = Final'
    BY <1>2, <1>4, <2>2, SetFinalIs, FilesAre DEF Installed
  <2>4. /\ Final'["engine"] = before["engine"] /\ Final'["gui"] = before["gui"]
        /\ Final'["trainer"] = before["trainer"]
        /\ Final'["manifest"] = before["manifest"] \/ (Final'["manifest"] = None /\ ~ OneFailed')
    BY <1>3, <1>4, <2>2, <2>3, FilesAre DEF Kept, Works, OneFailed
  <2>5. DiskSound'
    <3>1. InstalledIsWhole'
      BY <1>2, <2>4, FilesAre DEF InstalledIsWhole, BeforeHolds
    <3>2. EngineSurvives'
      BY <1>2, <2>3, <2>4 DEF EngineSurvives, Whole
    <3>3. MaxFaults <= 1 => PairMatches'
      BY <1>2, <2>4, ContentsAre DEF PairMatches, BeforeHolds, Matching, Whole
    <3> QED
      BY <3>1, <3>2, <3>3 DEF DiskSound
  <2>6. Ended'
    BY <1>2, <2>3, <2>4, FilesAre DEF Ended, SuccessInstallsBuild, FailedOnceKeepsProduct
  <2> QED
    BY <1>1, <1>2, <1>4, <2>3, <2>5, <2>6, FinishKeeps, OperationCounts
<1>5. CASE "engine" \notin saved /\ Works /\ folder' = folder
  <2>1. OneFailed' => \A f \in Product : Installed[f] = before[f]
    BY <1>2, <1>3, <1>5, FilesAre DEF Kept, BackedUp, EngineTakenAway, Works, OneFailed
  <2> QED
    BY <1>1, <1>2, <1>5, <2>1, GivesUpKeeps, OperationCounts
<1>6. CASE Fails /\ folder' = folder
  <2>1. ~ OneFailed'
    BY <1>2, <1>3, <1>6, ContentsAre DEF Fails, OneFailed, TypeOK
  <2> QED
    BY <1>1, <1>2, <1>6, <2>1, GivesUpKeeps, OperationCounts
<1> QED
  BY <1>4, <1>5, <1>6 DEF Undo

(* Success: the folder has the new engine and its manifest, and the rest of the product. *)
LEMMA DropBackupsKeeps == ASSUME IInv, DropBackups PROVE IInv'
<1> DEFINE backups == {OldName[g] : g \in Pair}
           files(kept) == [f \in Files |-> IF f \in backups \ kept THEN None ELSE Final[f]]
<1>1. pc = <<"drop", "final">> /\ Finish("ok")
  BY DEF DropBackups
<1>2. /\ tool # None /\ EngineBuilds /\ TypeOK /\ EngineInstall /\ BeforeHolds
      /\ Final \in [Files -> Content] /\ Final # None /\ build \in Builds
      /\ before \in [Files -> Content] /\ before' = before /\ build' = build /\ outcome' = "ok"
  BY <1>1, EngineIs DEF Replacing, Finish, IInv, Progress
<1>3. /\ Kept("gui") /\ Kept("trainer")
      /\ Final["engine"] = build /\ Final["manifest"] = build
  BY <1>1, <1>2 DEF EngineInstall, Replacing
<1>4. PICK kept : /\ (Works \/ Fails)
                  /\ folder' = [folder EXCEPT !["final"] = files(kept)]
  BY DEF DropBackups
<1>5. files(kept) \in [Files -> Content] /\ \A f \in Product : files(kept)[f] = Final[f]
  BY <1>2, ContentsAre, FilesAre
<1> HIDE DEF files, backups
<1>6. /\ Final' = files(kept) /\ Final' # None
      /\ folder' \in [Folders -> [Files -> Content] \cup {None}]
  BY <1>2, <1>4, <1>5, SetFinalIs
<1>7. /\ Final'["engine"] = build /\ Final'["manifest"] = build
      /\ Final'["gui"] = before["gui"] /\ Final'["trainer"] = before["trainer"]
  BY <1>3, <1>5, <1>6, FilesAre DEF Kept
<1>8. DiskSound'
  BY <1>2, <1>6, <1>7, FilesAre, ContentsAre
  DEF DiskSound, InstalledIsWhole, EngineSurvives, PairMatches, BeforeHolds, Whole
<1>9. Ended'
  BY <1>2, <1>7, FilesAre DEF Ended, SuccessInstallsBuild, FailedOnceKeepsProduct
<1> QED
  BY <1>1, <1>2, <1>4, <1>6, <1>8, <1>9, FinishKeeps, OperationCounts

-----------------------------------------------------------------------------
(* Replacing the folder. *)

(* Removing a folder, or what can be removed of it, leaves the other two. *)
LEMMA RemovedAllIs ==
    ASSUME TypeOK, NEW d \in Folders, RemovedAll(d)
    PROVE  /\ folder' \in [Folders -> [Files -> Content] \cup {None}]
           /\ \A e \in Folders \ {d} : folder'[e] = folder[e]
           /\ faults' \in 0..MaxFaults /\ faults' <= faults
<1>1. faults' \in 0..MaxFaults /\ faults' <= faults
  BY ContentsAre DEF RemovedAll, Works, Fails, TypeOK
<1>2. CASE folder' = [folder EXCEPT ![d] = None]
  BY <1>1, <1>2 DEF TypeOK
<1>3. CASE folder[d] # None /\ \E kept \in SUBSET {f \in Product : folder[d][f] # None} :
             folder' = [folder EXCEPT ![d] =
                          [f \in Files |-> IF f \in kept THEN folder[d][f] ELSE None]]
  <2> PICK kept : folder' = [folder EXCEPT ![d] =
                               [f \in Files |-> IF f \in kept THEN folder[d][f] ELSE None]]
    BY <1>3
  <2>1. folder[d] \in [Files -> Content]
    BY <1>3, FolderIs
  <2>2. [f \in Files |-> IF f \in kept THEN folder[d][f] ELSE None] \in [Files -> Content]
    BY <2>1, ContentsAre
  <2> QED
    BY <1>1, <2>2 DEF TypeOK
<1> QED
  BY <1>2, <1>3 DEF RemovedAll

(* What the product builder knows once it installs. *)
LEMMA ProductIs ==
    ASSUME IInv, pc \in Filling \cup Swapping, tool # "engine"
    PROVE  /\ ProductBuilds /\ tool # None /\ pc \notin Building
           /\ TypeOK /\ NothingTouched /\ FolderInstall /\ DiskSound /\ BeforeHolds
           /\ workspace["engine"] = build /\ workspace["gui"] = build
           /\ workspace["trainer"] = build /\ workspace["manifest"] \in {build, Torn}
           /\ workspace \in [Product -> Content]
           /\ before \in [Files -> Content] /\ build \in Builds
<1>1. /\ TypeOK /\ NothingTouched /\ FolderInstall /\ DiskSound /\ ToolHolds /\ WorkspaceHolds
      /\ BeforeHolds
  BY DEF IInv, Progress
<1>2. pc \notin Building /\ pc # <<"idle">>
  BY DEF Filling, Swapping, Building
<1>3. ProductBuilds /\ tool # None /\ build \in Builds
  BY <1>1, <1>2 DEF TypeOK, ToolHolds, ProductBuilds
<1>4. /\ workspace["engine"] = build /\ workspace["gui"] = build
      /\ workspace["trainer"] = build /\ workspace["manifest"] \in {build, Torn}
  BY <1>1, <1>2, <1>3, FilesAre DEF WorkspaceHolds, Building
<1> QED
  BY <1>1, <1>2, <1>3, <1>4 DEF TypeOK

(* No place of the other builder but copying is one of this builder's. *)
LEMMA ProductPlaces ==
    ASSUME IInv, pc \in {<<"clear", "new">>, <<"clear", "previous">>, <<"copy", "new">>} \cup Swapping
    PROVE  tool # "engine"
<1>1. pc \notin Building \cup {<<"clear", "final">>} \cup Staging \cup Replacing \cup Recovering
  BY DEF Swapping, Building, Staging, Replacing, Recovering
<1> QED
  BY <1>1 DEF IInv, Progress, ToolHolds, EngineBuilds

(* A step of the product builder keeps the invariant if its place in the folders fits. *)
LEMMA ProductKeeps ==
    ASSUME IInv, tool # "engine", pc \in Filling \cup Swapping,
           pc' \in Filling \cup Swapping,
           UNCHANGED <<tool, build, window, posted, before, outcome, workspace>>,
           folder' \in [Folders -> [Files -> Content] \cup {None}], todo' \subseteq Product,
           saved' \subseteq Pair \cup {"final"}, faults' \in 0..MaxFaults,
           pc' \in Filling =>
             /\ Installed' = before /\ saved' = {}
             /\ pc' \in {<<"clear", "new">>, <<"clear", "previous">>} => todo' = Product,
           FolderInstall'
    PROVE  IInv'
<1>1. /\ tool' = tool /\ build' = build /\ window' = window /\ posted' = posted
      /\ before' = before /\ outcome' = outcome /\ workspace' = workspace
  OBVIOUS
<1>2. TypeOK /\ ToolHolds /\ WorkspaceHolds /\ BeforeHolds /\ ProductBuilds /\ tool # None
  BY ProductIs DEF IInv, Progress
<1>3. ProductBuilds' /\ ~ EngineBuilds' /\ tool' # None
  BY <1>1, <1>2 DEF ProductBuilds, EngineBuilds
<1>4. /\ pc' \notin Building \cup {<<"clear", "final">>}
      /\ pc' \in {<<"clear", "new">>, <<"clear", "previous">>} => pc' \in Filling
  BY DEF Filling, Swapping, Building
<1>5. ToolHolds'
  BY <1>1, <1>2, <1>3 DEF ToolHolds
<1>6. TypeOK'
  BY <1>1, <1>2, <1>5, PlaceNext DEF TypeOK, ProductBuilds
<1>7. WorkspaceHolds'
  <2>1. /\ workspace["engine"] = build /\ workspace["gui"] = build
        /\ workspace["trainer"] = build /\ workspace["manifest"] # None
        /\ \A f \in Product : workspace[f] \in {None, build, Torn}
    BY <1>2, ProductIs, ContentsAre DEF WorkspaceHolds
  <2> QED
    BY <1>1, <1>3, <2>1 DEF WorkspaceHolds
<1>8. NothingTouched' /\ EngineInstall' /\ BeforeHolds'
  BY <1>1, <1>2, <1>3, <1>4 DEF NothingTouched, EngineInstall, BeforeHolds, Matching, Whole
<1> QED
  BY <1>3, <1>5, <1>6, <1>7, <1>8, GoesOn DEF Progress

(* The folder to be filled is emptied; nothing installed is in it. *)
LEMMA ClearNewKeeps == ASSUME IInv, ClearNew PROVE IInv'
<1>1. /\ pc = <<"clear", "new">> /\ pc' = <<"clear", "previous">> /\ RemovedAll("new")
      /\ UNCHANGED <<tool, build, window, posted, before, outcome, workspace, todo, saved>>
  BY DEF ClearNew, Goto
<1>2. tool # "engine" /\ TypeOK /\ Installed = before /\ saved = {} /\ todo = Product
  BY <1>1, ProductPlaces, ProductIs DEF Filling, NothingTouched
<1>3. /\ folder' \in [Folders -> [Files -> Content] \cup {None}] /\ faults' \in 0..MaxFaults
      /\ Final' = Final /\ Installed' = Installed
  BY <1>1, <1>2, RemovedAllIs DEF Folders, Final, Installed
<1>4. FolderInstall'
  BY <1>1 DEF FolderInstall
<1> QED
  BY <1>1, <1>2, <1>3, <1>4, ProductKeeps DEF Filling, TypeOK

(* The old backup goes while what was found is in place. *)
LEMMA ClearPreviousKeeps == ASSUME IInv, ClearPrevious PROVE IInv'
<1>1. /\ pc = <<"clear", "previous">> /\ pc' = <<"copy", "new">> /\ RemovedAll("previous")
      /\ UNCHANGED <<tool, build, window, posted, before, outcome, workspace, todo, saved>>
  BY DEF ClearPrevious, Goto
<1>2. tool # "engine" /\ TypeOK /\ Installed = before /\ saved = {} /\ todo = Product
  BY <1>1, ProductPlaces, ProductIs DEF Filling, NothingTouched
<1>3. /\ folder' \in [Folders -> [Files -> Content] \cup {None}] /\ faults' \in 0..MaxFaults
      /\ Final' = Final /\ Installed' = Installed
  BY <1>1, <1>2, RemovedAllIs DEF Folders, Final, Installed
<1>4. FolderInstall'
  BY <1>1, <1>2 DEF FolderInstall
<1> QED
  BY <1>1, <1>2, <1>3, <1>4, ProductKeeps DEF Filling, TypeOK

(* The new folder is filled file by file with what was built. *)
LEMMA BeginCopyKeeps == ASSUME IInv, NEW g \in Product, BeginCopy(g) PROVE IInv'
<1> DEFINE base  == IF folder["new"] = None THEN Empty ELSE folder["new"]
           files == [base EXCEPT ![g] = Torn]
<1>1. /\ pc = <<"copy", "new">> /\ pc' = <<"copying", g>> /\ g \in todo /\ faults' = faults
      /\ folder' = [folder EXCEPT !["new"] = files]
      /\ UNCHANGED <<tool, build, window, posted, before, outcome, workspace, todo, saved>>
  BY DEF BeginCopy, Goto
<1>2. /\ tool # "engine" /\ TypeOK /\ Installed = before /\ saved = {} /\ ProductBuilds
      /\ \A f \in Product \ todo : folder["new"] # None /\ folder["new"][f] = workspace[f]
  BY <1>1, ProductPlaces, ProductIs DEF Filling, NothingTouched, FolderInstall
<1>3. files \in [Files -> Content] /\ \A f \in Files \ {g} : files[f] = base[f]
  <2>1. base \in [Files -> Content]
    BY <1>2, FolderIs, ContentsAre DEF Folders
  <2> QED
    BY <2>1, ContentsAre
<1>4. \A f \in Product \ todo : files[f] = workspace[f]
  BY <1>1, <1>2, <1>3, FilesAre
<1> HIDE DEF files
<1>5. /\ folder' \in [Folders -> [Files -> Content] \cup {None}]
      /\ folder'["new"] = files /\ files # None /\ Final' = Final /\ Installed' = Installed
  BY <1>1, <1>2, <1>3, ContentsAre DEF TypeOK, Folders, Final, Installed
<1>6. FolderInstall'
  BY <1>1, <1>4, <1>5 DEF FolderInstall
<1>7. pc' \in Filling /\ pc' \notin {<<"clear", "new">>, <<"clear", "previous">>}
  BY <1>1, FilesAre DEF Filling
<1> QED
  BY <1>1, <1>2, <1>5, <1>6, <1>7, ProductKeeps DEF Filling, TypeOK

(* A copy that ended has the file as it was built, or the build fails. *)
LEMMA EndCopyKeeps == ASSUME IInv, NEW g \in Product, EndCopy(g) PROVE IInv'
<1>1. pc = <<"copying", g>> /\ tool # "engine" /\ pc \in Filling
  BY FilesAre DEF EndCopy, Filling
<1>2. /\ TypeOK /\ Installed = before /\ saved = {} /\ ProductBuilds /\ tool # None
      /\ folder["new"] # None /\ \A f \in Product \ todo : folder["new"][f] = workspace[f]
      /\ workspace \in [Product -> Content]
  BY <1>1, ProductIs DEF NothingTouched, FolderInstall
<1>3. CASE Fails /\ Finish("failed") /\ folder' = folder
  BY <1>2, <1>3, GivesUpKeeps, OperationCounts
<1>4. CASE /\ Works /\ folder' = [folder EXCEPT !["new"][g] = workspace[g]]
           /\ todo' = todo \ {g} /\ Goto(<<"copy", "new">>) /\ UNCHANGED <<workspace, saved>>
  <2> DEFINE files == [folder["new"] EXCEPT ![g] = workspace[g]]
  <2>1. folder["new"] \in [Files -> Content]
    BY <1>2, FolderIs DEF Folders
  <2>2. /\ files \in [Files -> Content] /\ files[g] = workspace[g]
        /\ \A f \in Files \ {g} : files[f] = folder["new"][f]
    BY <1>2, <2>1, FilesAre
  <2>3. folder' = [folder EXCEPT !["new"] = files]
    BY <1>4
  <2> HIDE DEF files
  <2>4. /\ folder' \in [Folders -> [Files -> Content] \cup {None}] /\ folder'["new"] = files
        /\ files # None /\ Final' = Final /\ Installed' = Installed
    BY <1>2, <2>2, <2>3, ContentsAre DEF TypeOK, Folders, Final, Installed
  <2>5. /\ pc' = <<"copy", "new">> /\ faults' \in 0..MaxFaults /\ todo' \subseteq Product
        /\ UNCHANGED <<tool, build, window, posted, before, outcome, workspace, saved>>
    BY <1>2, <1>4, OperationCounts DEF Goto, TypeOK
  <2>6. \A f \in Product \ todo' : folder'["new"] # None /\ folder'["new"][f] = workspace'[f]
    BY <1>2, <1>4, <2>2, <2>4, FilesAre
  <2>7. FolderInstall'
    BY <2>5, <2>6 DEF FolderInstall
  <2> QED
    BY <1>1, <1>2, <2>4, <2>5, <2>7, ProductKeeps DEF Filling, TypeOK
<1> QED
  BY <1>3, <1>4 DEF EndCopy

(* The folder that was found moves away only when all of the new one is there. *)
LEMMA BackUpFolderKeeps == ASSUME IInv, BackUpFolder PROVE IInv'
<1>1. /\ pc = <<"copy", "new">> /\ todo = {} /\ (Works \/ Fails)
      /\ UNCHANGED <<tool, build, window, posted, before, outcome, workspace, todo>>
  BY DEF BackUpFolder, Goto
<1>2. /\ tool # "engine" /\ TypeOK /\ Installed = before /\ saved = {} /\ ProductBuilds
      /\ pc \in Filling /\ folder["new"] # None
      /\ \A f \in Product : folder["new"][f] = workspace[f]
  <2>1. tool # "engine" /\ pc \in Filling
    BY <1>1, ProductPlaces DEF Filling
  <2>2. ProductBuilds /\ TypeOK /\ FolderInstall /\ Installed = before /\ saved = {}
    BY <2>1, ProductIs DEF NothingTouched
  <2>3. \A f \in Product : folder["new"] # None /\ folder["new"][f] = workspace[f]
    BY <1>1, <2>2 DEF FolderInstall
  <2> QED
    BY <2>1, <2>2, <2>3, FilesAre
<1>3. CASE Final = None /\ UNCHANGED <<folder, saved>> /\ pc' = <<"put", "new">>
  <2>1. Final' = None /\ before = Empty
    BY <1>2, <1>3 DEF Final, Installed
  <2>2. FolderInstall'
    BY <1>1, <1>2, <1>3, <2>1 DEF FolderInstall
  <2>3. pc' \notin Filling
    BY <1>3 DEF Filling
  <2> QED
    BY <1>1, <1>2, <1>3, <2>2, <2>3, ProductKeeps, OperationCounts DEF Filling, Swapping, TypeOK
<1>4. CASE Final # None /\ MovedFolder("final", "previous") /\ saved' = {"final"} /\ pc' = <<"put", "new">>
  <2>1. /\ folder' \in [Folders -> [Files -> Content] \cup {None}] /\ Final' = None
        /\ folder'["new"] = folder["new"] /\ folder'["previous"] = Final
    BY <1>2, <1>4 DEF MovedFolder, TypeOK, Folders, Final
  <2>2. Final = before
    BY <1>2, <1>4 DEF Installed
  <2>3. FolderInstall'
    BY <1>1, <1>2, <1>4, <2>1, <2>2 DEF FolderInstall
  <2>4. pc' \notin Filling
    BY <1>4 DEF Filling
  <2> QED
    BY <1>1, <1>2, <1>4, <2>1, <2>3, <2>4, ProductKeeps, OperationCounts DEF Swapping, TypeOK
<1>5. CASE UNCHANGED <<folder, saved>> /\ pc' = <<"discard", "new">>
  <2>1. Installed' = before'
    BY <1>1, <1>2, <1>5 DEF Installed, Final
  <2>2. FolderInstall'
    BY <1>5, <2>1 DEF FolderInstall
  <2>3. pc' \notin Filling
    BY <1>5 DEF Filling
  <2> QED
    BY <1>1, <1>2, <1>5, <2>2, <2>3, ProductKeeps, OperationCounts DEF Swapping, TypeOK
<1> QED
  BY <1>3, <1>4, <1>5 DEF BackUpFolder, Goto

(* The new folder is put in place, or the rollback begins. *)
LEMMA PutFolderKeeps == ASSUME IInv, PutFolder PROVE IInv'
<1>1. /\ pc = <<"put", "new">> /\ pc \in Swapping /\ (Works \/ Fails)
      /\ UNCHANGED <<tool, build, window, posted, before, outcome, workspace, todo, saved>>
  BY DEF PutFolder, Goto, Swapping
<1>2. /\ tool # "engine" /\ TypeOK /\ ProductBuilds /\ folder["new"] # None
      /\ \A f \in Product : folder["new"][f] = workspace[f]
      /\ Final = None
      /\ IF saved = {} THEN before = Empty
                       ELSE folder["previous"] # None /\ folder["previous"] = before
  <2>1. tool # "engine"
    BY <1>1, ProductPlaces
  <2>2. ProductBuilds /\ TypeOK /\ FolderInstall
    BY <1>1, <2>1, ProductIs
  <2> QED
    BY <1>1, <2>1, <2>2 DEF FolderInstall
<1>3. CASE MovedFolder("new", "final") /\ pc' = <<"drop", "previous">>
  <2>1. /\ folder' \in [Folders -> [Files -> Content] \cup {None}] /\ Final' = folder["new"]
    BY <1>2, <1>3 DEF MovedFolder, TypeOK, Folders, Final
  <2>2. FolderInstall'
    BY <1>1, <1>2, <1>3, <2>1 DEF FolderInstall
  <2>3. pc' \notin Filling
    BY <1>3 DEF Filling
  <2> QED
    BY <1>1, <1>2, <1>3, <2>1, <2>2, <2>3, ProductKeeps, OperationCounts DEF Swapping, TypeOK
<1>4. CASE Fails /\ folder' = folder /\ pc' = <<"undo", "final">>
  <2>1. faults' < MaxFaults /\ Final' = Final
    BY <1>2, <1>4, ContentsAre DEF Fails, TypeOK, Final
  <2>2. FolderInstall'
    BY <1>1, <1>2, <1>4, <2>1 DEF FolderInstall
  <2>3. pc' \notin Filling
    BY <1>4 DEF Filling
  <2> QED
    BY <1>1, <1>2, <1>4, <2>2, <2>3, ProductKeeps, OperationCounts DEF Swapping, TypeOK
<1> QED
  BY <1>3, <1>4 DEF PutFolder, Goto

(* Where the folder cannot be put back, it is still there under its backup name. *)
LEMMA UndoFolderKeeps == ASSUME IInv, UndoFolder PROVE IInv'
<1>1. /\ pc = <<"undo", "final">> /\ pc \in Swapping /\ (Works \/ Fails)
      /\ pc' = <<"discard", "new">> /\ pc' \in Swapping /\ pc' \notin Filling
      /\ UNCHANGED <<tool, build, window, posted, before, outcome, workspace, todo, saved>>
  BY DEF UndoFolder, Goto, Swapping, Filling
<1>2. /\ tool # "engine" /\ TypeOK /\ ProductBuilds /\ Final = None /\ faults < MaxFaults
      /\ IF saved = {} THEN before = Empty
                       ELSE folder["previous"] # None /\ folder["previous"] = before
  <2>1. tool # "engine"
    BY <1>1, ProductPlaces
  <2>2. ProductBuilds /\ TypeOK /\ FolderInstall
    BY <1>1, <2>1, ProductIs
  <2> QED
    BY <1>1, <2>1, <2>2 DEF FolderInstall
<1>3. folder' \in [Folders -> [Files -> Content] \cup {None}]
  BY <1>2 DEF UndoFolder, MovedFolder, TypeOK, Folders
<1>4. \/ Installed' = before
      \/ folder'["previous"] # None /\ folder'["previous"] = before /\ Final' = None /\ ~ OneFailed'
  <2>1. CASE saved = {} /\ folder' = folder
    BY <1>2, <2>1 DEF Installed, Final
  <2>2. CASE saved # {} /\ MovedFolder("previous", "final")
    BY <1>2, <2>2 DEF MovedFolder, TypeOK, Folders, Installed, Final
  <2>3. CASE saved # {} /\ Fails /\ folder' = folder
    <3>1. ~ OneFailed'
      BY <1>2, <2>3, ContentsAre DEF Fails, OneFailed, TypeOK
    <3> QED
      BY <1>2, <2>3, <3>1 DEF Final
  <2> QED
    BY <2>1, <2>2, <2>3 DEF UndoFolder
<1>5. FolderInstall'
  BY <1>1, <1>4 DEF FolderInstall
<1> QED
  BY <1>1, <1>2, <1>3, <1>5, ProductKeeps, OperationCounts DEF TypeOK

(* The build has failed: what was found is installed, or a second failure has left it
   in the previous folder. *)
LEMMA DiscardNewKeeps == ASSUME IInv, DiscardNew PROVE IInv'
<1>1. pc = <<"discard", "new">> /\ pc \in Swapping /\ RemovedAll("new") /\ Finish("failed")
  BY DEF DiscardNew, Swapping
<1>2. /\ tool # "engine" /\ tool # None /\ TypeOK /\ ProductBuilds /\ DiskSound
      /\ Installed = before \/ ~ OneFailed
  BY <1>1, ProductPlaces, ProductIs DEF FolderInstall
<1>3. /\ folder' \in [Folders -> [Files -> Content] \cup {None}]
      /\ Final' = Final /\ Installed' = Installed /\ folder'["previous"] = folder["previous"]
      /\ faults' \in 0..MaxFaults /\ faults' <= faults
  BY <1>1, <1>2, RemovedAllIs DEF Folders, Final, Installed
<1>4. before' = before /\ outcome' = "failed"
  BY <1>1 DEF Finish
<1>5. DiskSound'
  BY <1>2, <1>3, <1>4 DEF DiskSound, InstalledIsWhole, EngineSurvives, PairMatches, Whole
<1>6. OneFailed' => OneFailed
  BY <1>2, <1>3, ContentsAre DEF OneFailed, TypeOK
<1>7. Ended'
  BY <1>2, <1>3, <1>4, <1>6 DEF Ended, SuccessInstallsBuild, FailedOnceKeepsProduct
<1> QED
  BY <1>1, <1>2, <1>3, <1>5, <1>7, FinishKeeps

(* The build has succeeded before the backup goes. *)
LEMMA DropPreviousKeeps == ASSUME IInv, DropPrevious PROVE IInv'
<1>1. pc = <<"drop", "previous">> /\ pc \in Swapping /\ RemovedAll("previous") /\ Finish("ok")
  BY DEF DropPrevious, Swapping
<1>2. /\ tool # "engine" /\ tool # None /\ TypeOK /\ ProductBuilds /\ build \in Builds
      /\ Final # None /\ Final["engine"] = build /\ Final["gui"] = build
      /\ Final["trainer"] = build /\ Final["manifest"] \in {build, Torn}
  BY <1>1, ProductPlaces, ProductIs, FilesAre DEF FolderInstall
<1>3. /\ folder' \in [Folders -> [Files -> Content] \cup {None}]
      /\ Final' = Final /\ faults' \in 0..MaxFaults
  BY <1>1, <1>2, RemovedAllIs DEF Folders, Final
<1>4. before' = before /\ outcome' = "ok" /\ build' = build
  BY <1>1 DEF Finish
<1>5. DiskSound'
  BY <1>2, <1>3, <1>4, FilesAre, ContentsAre
  DEF DiskSound, InstalledIsWhole, EngineSurvives, PairMatches, Whole
<1>6. Ended'
  BY <1>2, <1>3, <1>4, FilesAre DEF Ended, SuccessInstallsBuild, FailedOnceKeepsProduct
<1> QED
  BY <1>1, <1>2, <1>3, <1>5, <1>6, FinishKeeps

-----------------------------------------------------------------------------
(* The window and a kill. *)

(* What happens to the window, with no build of its own, touches nothing. *)
LEMMA WindowKeeps ==
    ASSUME IInv, UNCHANGED <<folder, workspace, todo, saved, tool, pc, build, faults, before, outcome>>,
           window' \in {"closed", "ready", "building", "leaving"},
           posted' \in {None, "ok", "failed"},
           tool = "window" => posted' = None,
           tool = "window" \/ posted' # None => window' = "building"
    PROVE  IInv'
<1>1. /\ folder' = folder /\ workspace' = workspace /\ todo' = todo /\ saved' = saved /\ tool' = tool
      /\ pc' = pc /\ build' = build /\ faults' = faults /\ before' = before /\ outcome' = outcome
  OBVIOUS
<1>2. TypeOK' /\ ToolHolds'
  BY <1>1 DEF IInv, Progress, TypeOK, ToolHolds, EngineBuilds, ProductBuilds
<1>3. Final' = Final /\ Installed' = Installed /\ EngineBuilds' = EngineBuilds
      /\ ProductBuilds' = ProductBuilds /\ OneFailed' = OneFailed
  BY <1>1 DEF Final, Installed, EngineBuilds, ProductBuilds, OneFailed
<1>4. WorkspaceHolds' /\ NothingTouched' /\ BeforeHolds'
  BY <1>1, <1>3 DEF IInv, Progress, WorkspaceHolds, NothingTouched, BeforeHolds, Matching, Whole
<1>5. EngineInstall'
  BY <1>1, <1>3
  DEF IInv, Progress, EngineInstall, Kept, Staged, BackedUp, Cleared, EngineTakenAway
<1>6. FolderInstall'
  BY <1>1, <1>3 DEF IInv, Progress, FolderInstall
<1>7. DiskSound' /\ Ended'
  BY <1>1, <1>3
  DEF IInv, DiskSound, InstalledIsWhole, EngineSurvives, PairMatches, Whole,
      Ended, SuccessInstallsBuild, FailedOnceKeepsProduct
<1> QED
  BY <1>2, <1>4, <1>5, <1>6, <1>7 DEF IInv, Progress

(* The window's own steps touch neither disk nor build. *)
LEMMA OpenWindowKeeps == ASSUME IInv, OpenWindow PROVE IInv'
  BY WindowKeeps DEF OpenWindow, disk, IInv, Progress, TypeOK

(* The message of the thread is handled. *)
LEMMA HandleDoneKeeps == ASSUME IInv, HandleDone PROVE IInv'
  BY WindowKeeps DEF HandleDone, disk, IInv, Progress, TypeOK, ToolHolds

(* A window is closed when nothing is being built. *)
LEMMA CloseWindowKeeps == ASSUME IInv, CloseWindow PROVE IInv'
  BY WindowKeeps DEF CloseWindow, disk, IInv, Progress, TypeOK

(* A window that builds nothing takes nothing with it. *)
LEMMA KillWindowKeeps == ASSUME IInv, KillWindow PROVE IInv'
  BY WindowKeeps DEF KillWindow, disk, IInv, Progress, TypeOK

(* Killed anywhere, a builder leaves a sound disk. *)
LEMMA KillKeeps == ASSUME IInv, Kill PROVE IInv'
<1>1. /\ tool # None /\ tool' = None /\ pc' = <<"idle">> /\ outcome' = "killed"
      /\ window' = (IF tool = "window" THEN "closed" ELSE window)
      /\ folder' = folder /\ workspace' = workspace /\ todo' = todo /\ saved' = saved
      /\ build' = build /\ faults' = faults /\ posted' = posted /\ before' = before
  BY DEF Kill, disk
<1>2. TypeOK /\ ToolHolds /\ BeforeHolds /\ DiskSound
  BY DEF IInv, Progress
<1>3. TypeOK'
  <2>1. window' \in {"closed", "ready", "building", "leaving"}
    BY <1>1, <1>2 DEF TypeOK
  <2>2. tool' # "window" /\ (posted' # None => window' = "building")
    BY <1>1, <1>2, NoneAssumption DEF TypeOK, ToolHolds
  <2> QED
    BY <1>1, <1>2, <2>1, <2>2 DEF TypeOK
<1>4. ~ EngineBuilds' /\ ~ ProductBuilds' /\ tool' # "window"
  BY <1>1, NoneAssumption DEF EngineBuilds, ProductBuilds
<1>5. ToolHolds' /\ WorkspaceHolds' /\ EngineInstall' /\ FolderInstall'
  BY <1>1, <1>4 DEF ToolHolds, WorkspaceHolds, EngineInstall, FolderInstall
<1>6. NothingTouched' /\ BeforeHolds'
  BY <1>1, <1>2, <1>4 DEF NothingTouched, Building, BeforeHolds, Matching, Whole
<1>7. DiskSound' /\ Ended'
  BY <1>1, <1>2
  DEF DiskSound, InstalledIsWhole, EngineSurvives, PairMatches, Whole, Final,
      Ended, SuccessInstallsBuild, FailedOnceKeepsProduct
<1> QED
  BY <1>3, <1>5, <1>6, <1>7 DEF IInv, Progress

-----------------------------------------------------------------------------
(* The invariant and what follows from it. *)

LEMMA EngineInstallStepKeeps == ASSUME IInv, EngineInstallStep PROVE IInv'
<1>1. ASSUME NEW g \in Pair, BeginStage(g) \/ EndStage(g) \/ BackUp(g) \/ Undo(g) PROVE IInv'
  <2>1. g = "engine" \/ g = "manifest"
    BY FilesAre
  <2>2. CASE Undo(g)
    BY <2>1, <2>2, UndoEngineKeeps, UndoManifestKeeps
  <2> QED
    BY <1>1, <2>2, BeginStageKeeps, EndStageKeeps, BackUpKeeps
<1> QED
  BY <1>1, ClearLeftoversKeeps, PutEngineKeeps, PutManifestKeeps, RemoveNewEngineKeeps,
     DropBackupsKeeps DEF EngineInstallStep

(* Each step of the builders. *)
LEMMA ToolStepKeeps == ASSUME IInv, ToolStep PROVE IInv'
<1>1. CASE BuildStep
  BY <1>1, PrepareKeeps, BuildFailsKeeps, WriteManifestKeeps, LinkKeeps, AcceptKeeps DEF BuildStep
<1>2. CASE EngineInstallStep
  BY <1>2, EngineInstallStepKeeps
<1>3. CASE FolderInstallStep
  BY <1>3, ClearNewKeeps, ClearPreviousKeeps, BeginCopyKeeps, EndCopyKeeps, BackUpFolderKeeps,
     PutFolderKeeps, UndoFolderKeeps, DiscardNewKeeps, DropPreviousKeeps DEF FolderInstallStep
<1> QED
  BY <1>1, <1>2, <1>3 DEF ToolStep

(* Every step keeps the invariant. *)
LEMMA NextKeeps == IInv /\ [Next]_vars => IInv'
<1> SUFFICES ASSUME IInv, [Next]_vars PROVE IInv'
  OBVIOUS
<1>1. CASE RunEngineBuilder \/ RunHeadless
  BY <1>1, StartKeeps DEF RunEngineBuilder, RunHeadless
<1>2. CASE Click
  BY <1>2, StartKeeps DEF Click
<1>3. CASE UNCHANGED vars
  BY <1>3, WindowKeeps DEF vars, IInv, Progress, TypeOK, ToolHolds
<1> QED
  BY <1>1, <1>2, <1>3, ToolStepKeeps, OpenWindowKeeps, HandleDoneKeeps, CloseWindowKeeps,
     KillWindowKeeps, KillKeeps DEF Next

(* However many builds there are, whatever fails and wherever a builder is killed.     *)
THEOREM Inductive == Spec => []IInv
<1>1. Init => IInv
  BY Initially
<1>2. IInv /\ [Next]_vars => IInv'
  BY NextKeeps
<1> QED
  BY <1>1, <1>2, PTL DEF Spec

(* Every variable has its type, and the window does not take a running build, or a     *)
(* result still to be shown, away with it: closing it is refused while it builds.      *)
THEOREM TypeCorrect == Spec => []TypeOK
<1>1. IInv => TypeOK
  BY DEF IInv, Progress
<1> QED
  BY <1>1, Inductive, PTL

(* No half-copied or spoiled program is ever in the installed folder: a program is     *)
(* staged under another name, or in another folder, and moved when it is whole.        *)
THEOREM OnlyWholeInstalled == Spec => []InstalledIsWhole
<1>1. IInv => InstalledIsWhole
  BY DEF IInv, DiskSound
<1> QED
  BY <1>1, Inductive, PTL

(* However many operations fail, and wherever the builder is killed, the engine a      *)
(* build found is on the disk, be it under its backup name.                            *)
THEOREM EngineNeverLost == Spec => []EngineSurvives
<1>1. IInv => EngineSurvives
  BY DEF IInv, DiskSound
<1> QED
  BY <1>1, Inductive, PTL

(* A build that reports success has installed what it built, and kept what it was not  *)
(* to replace.                                                                         *)
THEOREM SuccessIsOne == Spec => []SuccessInstallsBuild
<1>1. IInv => SuccessInstallsBuild
  BY DEF IInv, Ended
<1> QED
  BY <1>1, Inductive, PTL

(* With at most one failing operation in a build, the manifest in the folder is of the *)
(* engine next to it at every moment.  A second one breaks it: the new engine cannot   *)
(* be taken away again, and the old manifest comes back beside it.                     *)
THEOREM ManifestMatches == MaxFaults <= 1 => (Spec => []PairMatches)
<1> SUFFICES ASSUME MaxFaults <= 1 PROVE Spec => []PairMatches
  OBVIOUS
<1>1. IInv => PairMatches
  BY DEF IInv, DiskSound
<1> QED
  BY <1>1, Inductive, PTL

(* A build that reports failure has left the product as it found it, whenever no       *)
(* second operation failed in it: a rollback is not retried, and nobody looks whether  *)
(* it worked.                                                                          *)
THEOREM OneFailureKeepsProduct == Spec => [](OneFailed => FailedBuildKeepsProduct)
<1>1. IInv => (OneFailed => FailedBuildKeepsProduct)
  BY DEF IInv, Ended, FailedOnceKeepsProduct, FailedBuildKeepsProduct, Installed
<1> QED
  BY <1>1, Inductive, PTL

(* So with at most one failing operation in a build, a failed build preserves the old  *)
(* engine and all of the product.                                                      *)
THEOREM FailureKeepsProduct == MaxFaults <= 1 => (Spec => []FailedBuildKeepsProduct)
<1> SUFFICES ASSUME MaxFaults <= 1 PROVE Spec => []FailedBuildKeepsProduct
  OBVIOUS
<1>1. IInv => FailedBuildKeepsProduct
  <2> SUFFICES ASSUME IInv PROVE FailedBuildKeepsProduct
    OBVIOUS
  <2>1. OneFailed
    BY ContentsAre DEF IInv, Progress, TypeOK, OneFailed
  <2> QED
    BY <2>1 DEF IInv, Ended, FailedOnceKeepsProduct, FailedBuildKeepsProduct, Installed
<1> QED
  BY <1>1, Inductive, PTL
=============================================================================
