----------------------------- MODULE WindowProofs -----------------------------
(***************************************************************************)
(* What TLAPS proves about Window, for any processes, addresses, chains    *)
(* and limits: whatever is listed is of the attached process, the values   *)
(* shown as frozen are the engine's, and an address stands beside its own  *)
(* chain, whatever the user does, a worker runs into, or the engine dies   *)
(* of.                                                                     *)
(***************************************************************************)
EXTENDS Window, OrderProofs

\* A freeze of the engine, or of the window: its number and its cell.
Job == [id : Numbers, cell : Cells]

\* What a row may show: a chain and the process in which it leads to an address.
Led == {x \in Chains \X Processes : Resolves[x[2]][x[1]] # None}

\* The page of pointers waits for the first page of the engine's new chains.
Awaited == worker = "clear" /\ task \in {3, 4}

\* The worker runs for a process, and its message is its last word.
Working ==
    /\ busy \in 0..2 /\ task \in 0..4 /\ (busy = 0 <=> task = 0)
    /\ worker \in {"none", "ask", "clear", "copy"} /\ posted \in BOOLEAN
    /\ IF posted THEN busy # 0 /\ worker = "none" ELSE worker = "none" <=> busy = 0
    /\ busy # 0 => process # None

\* As long as the engine lives, the bridge and the window are attached to the same process;
\* a process the window has is the bridge's in any case.
Attachment ==
    /\ engine \in {"none", "up", "dead"} /\ open \in BOOLEAN /\ resolved \in BOOLEAN
    /\ {target, process} \subseteq Processes \cup {None}
    /\ engine # "dead" \/ process # None => target = process
    /\ engine = "none" => target = None
    /\ target = None => ~ resolved

\* Freezes are few, each of a cell and with a number of its own, of a watched address.
Freezing ==
    /\ jobs \subseteq Job /\ freezes \subseteq Job
    /\ IsFiniteSet(freezes) /\ Cardinality(freezes) <= MaxFreezes
    /\ \A f, g \in freezes : f.id = g.id \/ f.cell = g.cell => f = g
    /\ \A f \in freezes : f.cell \in watches
    /\ engine = "none" => jobs = {} /\ freezes = {}
    /\ engine = "up" => jobs = freezes

\* The watched addresses are few and of the process.
Watching ==
    /\ watches \subseteq Cells /\ IsFiniteSet(watches) /\ Cardinality(watches) <= MaxWatches
    /\ process # None => \A w \in watches : w[1] = process

CellsOf(s, p) == s \in Seq(Cells) /\ \A i \in DOMAIN s : s[i][1] = p

\* The scan is of the bridge's process, what is shown of it of the window's.
Scanned ==
    /\ scan # None => CellsOf(scan, target)
    /\ results # None => results \in Seq(Cells) /\ (process # None => CellsOf(results, process))
    /\ worker = "copy" /\ task \in {1, 2} => CellsOf(results, process)

\* Rows are chains, and show where these lead in the process.  Where the bridge would
\* answer for a row, it has the row's chain at that position.
Pointing ==
    /\ chains \in Seq(Chains) /\ rows \in Seq(Chains)
    /\ cache \in Seq(Led \cup {None}) /\ Len(cache) = Len(rows)
    /\ goal \in Cells \cup {None}
    /\ process # None =>
         /\ goal # None => goal[1] = process
         /\ \A i \in 1..Len(cache) : cache[i] # None => cache[i][2] = process
    /\ engine = "none" => \A i \in 1..Len(cache) : cache[i] = None
    /\ engine = "up" => \A i \in 1..Len(cache) : cache[i] # None => cache[i][1] = rows[i]
    /\ engine = "up" /\ resolved /\ ~ Awaited =>
         Len(rows) <= Len(chains) /\ \A i \in 1..Len(rows) : rows[i] = chains[i]

IInv == Working /\ Attachment /\ Freezing /\ Watching /\ Scanned /\ Pointing

-----------------------------------------------------------------------------
(* Facts about the operators.                                              *)

(* An ordered list of some of a finite set of numbers is a sequence of them. *)
LEMMA ListsAre ==
    ASSUME NEW S \in SUBSET Nat, IsFiniteSet(S), NEW l \in Lists(S)
    PROVE  l \in Seq(S)
<1>1. PICK T \in SUBSET S : l = Ordered(T)
  BY DEF Lists
<1>2. IsFiniteSet(T) /\ T \in SUBSET Nat
  BY FS_Subset
<1>3. l \in Seq(T)
  BY <1>1, <1>2, OrderedIs
<1>4. Len(l) \in Nat /\ l \in [1..Len(l) -> T]
  BY <1>3
<1>5. l \in [1..Len(l) -> S]
  BY <1>4
<1> QED
  BY <1>4, <1>5, FunctionsAreSequences

(* What a scan finds are cells of its process. *)
LEMMA FoundAre == ASSUME NEW p \in Processes, NEW s \in Found(p) PROVE CellsOf(s, p)
<1>1. PICK l \in Lists(Addresses) : s = [i \in 1..Len(l) |-> <<p, l[i]>>]
  BY DEF Found
<1>2. l \in Seq(Addresses)
  BY NumbersAssumption, ListsAre
<1>3. Len(l) \in Nat /\ \A i \in 1..Len(l) : <<p, l[i]>> \in Cells
  BY <1>2 DEF Cells
<1>4. s \in [1..Len(l) -> Cells]
  BY <1>1, <1>3
<1> QED
  BY <1>1, <1>3, <1>4, FunctionsAreSequences DEF CellsOf

(* A sublist has only what the list has. *)
LEMMA SublistsAre ==
    ASSUME NEW S, NEW s \in Seq(S), NEW u \in Sublists(s)
    PROVE  u \in Seq(S) /\ \A i \in DOMAIN u : \E j \in DOMAIN s : u[i] = s[j]
<1>1. PICK D \in SUBSET DOMAIN s : u = [i \in 1..Cardinality(D) |-> s[Ordered(D)[i]]]
  BY DEF Sublists
<1>2. DOMAIN s = 1..Len(s) /\ Len(s) \in Nat
  OBVIOUS
<1>3. IsFiniteSet(D) /\ D \in SUBSET Nat /\ Cardinality(D) \in Nat
  <2>1. 1 \in Int /\ Len(s) \in Int
    BY <1>2
  <2>2. IsFiniteSet(1..Len(s))
    BY <2>1, FS_Interval
  <2>3. IsFiniteSet(D)
    BY <1>2, <2>2, FS_Subset
  <2> QED
    BY <1>2, <2>3, FS_CardinalityType
<1>4. Ordered(D) \in Seq(D) /\ Len(Ordered(D)) = Cardinality(D)
  BY <1>3, OrderedIs
<1>5. \A i \in 1..Cardinality(D) : Ordered(D)[i] \in DOMAIN s
  BY <1>3, <1>4, ElementOfSeq
<1>6. \A i \in 1..Cardinality(D) : u[i] \in S /\ \E j \in DOMAIN s : u[i] = s[j]
  BY <1>1, <1>5
<1>7. u \in [1..Cardinality(D) -> S]
  BY <1>1, <1>6
<1> QED
  BY <1>3, <1>6, <1>7, FunctionsAreSequences

(* As long as the window's freezes are the engine's there is a number that none has. *)
LEMMA FreshIs ==
    ASSUME Freezing, Up
    PROVE  Fresh \in Numbers /\ \A j \in jobs \cup freezes : j.id # Fresh
<1> DEFINE used == {f.id : f \in freezes}
           number == [f \in freezes |-> f.id]
<1>1. jobs = freezes /\ IsFiniteSet(freezes) /\ Cardinality(freezes) <= MaxFreezes
  BY DEF Freezing, Up
<1>2. number \in Surjection(freezes, used)
  BY DEF Surjection
<1>3. IsFiniteSet(used) /\ Cardinality(used) <= Cardinality(freezes)
  BY <1>1, <1>2, FS_Surjection
<1>4. IsFiniteSet(Numbers) /\ Cardinality(Numbers) = 2 * MaxFreezes + 1
  BY LimitsAssumption, FS_Interval DEF Numbers
<1>5. Cardinality(used) \in Nat /\ Cardinality(freezes) \in Nat
  BY <1>1, <1>3, FS_CardinalityType
<1>6. Cardinality(used) < Cardinality(Numbers)
  BY <1>1, <1>3, <1>4, <1>5, LimitsAssumption
<1> HIDE DEF used
<1>7. \E n \in Numbers : n \notin used
  <2> SUFFICES ASSUME Numbers \in SUBSET used PROVE FALSE
    OBVIOUS
  <2>1. Cardinality(Numbers) <= Cardinality(used)
    BY <1>3, FS_Subset
  <2> QED
    BY <1>4, <1>5, <1>6, <2>1, LimitsAssumption
<1>8. \E n \in Numbers : \A j \in jobs \cup freezes : j.id # n
  BY <1>1, <1>7 DEF used
<1> QED
  BY <1>8 DEF Fresh

(* What the bridge answers for a position: nothing, or the chain there and the process. *)
LEMMA LookupIs ==
    ASSUME Attachment, NEW list \in Seq(Chains), NEW known \in BOOLEAN, NEW i \in Nat \ {0},
           Lookup(i, list, known) # None
    PROVE  /\ Lookup(i, list, known) \in Led
           /\ known /\ i <= Len(list)
           /\ Lookup(i, list, known)[1] = list[i] /\ Lookup(i, list, known)[2] = target
<1>1. /\ i \in 1..Len(list) /\ known /\ target # None /\ Resolves[target][list[i]] # None
      /\ Lookup(i, list, known) = <<list[i], target>>
  BY DEF Lookup
<1>2. list[i] \in Chains /\ target \in Processes
  BY <1>1, ElementOfSeq DEF Attachment
<1>3. <<list[i], target>> \in Led
  BY <1>1, <1>2 DEF Led
<1>4. i <= Len(list) /\ <<list[i], target>>[1] = list[i] /\ <<list[i], target>>[2] = target
  BY <1>1
<1> QED
  BY <1>1, <1>3, <1>4, Zenon

(* The vote elects no cell, or one of the bridge's process. *)
LEMMA ConsensusIs ==
    ASSUME NEW shown \in Seq(Led \cup {None}), target \in Processes, Consensus(shown) # None
    PROVE  Consensus(shown) \in Cells /\ Consensus(shown)[1] = target
<1> DEFINE known == {i \in DOMAIN shown : shown[i] # None}
           At(i) == Resolves[shown[i][2]][shown[i][1]]
           agree == {i \in known : 2 * Cardinality({j \in known : At(j) = At(i)}) > Cardinality(known)}
           i == CHOOSE i \in agree : TRUE
<1>1. agree # {} /\ Consensus(shown) = <<target, At(i)>>
  BY Zenon DEF Consensus
<1>2. i \in agree /\ agree \subseteq known
  BY <1>1
<1>3. i \in known
  BY <1>2
<1> HIDE DEF i, agree
<1>4. shown[i] \in Led
  BY <1>3
<1>5. At(i) \in Addresses
  BY <1>4, ResolvesAssumption DEF Led
<1> QED
  BY <1>1, <1>5 DEF Cells

-----------------------------------------------------------------------------
(* The parts of the invariant, and what leaves them alone.                 *)

(* Each part speaks of a few variables, and is kept by what leaves these alone. *)
LEMMA WorkingKept ==
    ASSUME Working, UNCHANGED <<busy, task, worker, posted, process>>
    PROVE  Working'
BY DEF Working

(* Of engine, bridge and process. *)
LEMMA AttachmentKept ==
    ASSUME Attachment, UNCHANGED <<engine, open, target, process, resolved>>
    PROVE  Attachment'
BY DEF Attachment

(* Of the freezes at both sides. *)
LEMMA FreezingKept ==
    ASSUME Freezing, UNCHANGED <<engine, jobs, freezes>>, watches \subseteq watches'
    PROVE  Freezing'
BY DEF Freezing, Job

(* Of the watched addresses. *)
LEMMA WatchingKept ==
    ASSUME Watching, UNCHANGED <<watches, process>>
    PROVE  Watching'
BY DEF Watching, Cells

(* Of the scan, and of the list unless the worker is copying it. *)
LEMMA ScannedKept ==
    ASSUME Scanned, UNCHANGED <<scan, results, target, process>>,
           UNCHANGED <<worker, task>> \/ worker' # "copy" \/ task' \notin {1, 2}
    PROVE  Scanned'
BY DEF Scanned, CellsOf, Cells

(* Of the chains and rows, unless the worker begins to replace them. *)
LEMMA PointingKept ==
    ASSUME Pointing, UNCHANGED <<engine, chains, resolved, rows, cache, goal, process>>,
           Awaited => Awaited'
    PROVE  Pointing'
<1> USE DEF Pointing
<1>1. /\ chains' \in Seq(Chains) /\ rows' \in Seq(Chains)
      /\ cache' \in Seq(Led \cup {None})' /\ Len(cache') = Len(rows')
      /\ (goal \in Cells \cup {None})'
  BY DEF Led, Cells
<1> QED
  BY <1>1

(* Rows and what they show: an address of the process, beside its own chain unless *)
(* the engine is dead, and rows the bridge knows of unless it does not answer.       *)
LEMMA RowsShow ==
    ASSUME chains' \in Seq(Chains), rows' \in Seq(Chains),
           NEW c \in [1..Len(rows') -> Led \cup {None}], cache' = c,
           goal' \in Cells \cup {None}, process' # None /\ goal' # None => goal'[1] = process',
           \A i \in 1..Len(rows') : c[i] # None =>
              /\ engine' = "dead" \/ (engine' = "up" /\ c[i][1] = rows'[i])
              /\ process' # None => c[i][2] = process',
           engine' = "up" /\ resolved' /\ ~ Awaited' =>
              Len(rows') <= Len(chains') /\ \A i \in 1..Len(rows') : rows'[i] = chains'[i]
    PROVE  Pointing'
<1>1. Len(rows') \in Nat /\ Led' = Led /\ Cells' = Cells
  BY DEF Led, Cells
<1>2. cache' \in Seq(Led \cup {None}) /\ Len(cache') = Len(rows')
  BY <1>1, FunctionsAreSequences
<1> QED
  BY <1>1, <1>2 DEF Pointing

(* No rows. *)
LEMMA NoRows ==
    ASSUME chains' \in Seq(Chains), rows' = <<>>, cache' = <<>>,
           goal' \in Cells \cup {None}, process' # None /\ goal' # None => goal'[1] = process'
    PROVE  Pointing'
<1>1. /\ <<>> \in Seq(Chains) /\ <<>> \in Seq(Led \cup {None}) /\ Len(<<>>) = 0
      /\ Led' = Led /\ Cells' = Cells /\ Len(chains') \in Nat
  BY DEF Led, Cells
<1> QED
  BY <1>1 DEF Pointing

(* Rows that show nothing. *)
LEMMA NothingShown ==
    ASSUME NEW l \in Seq(Chains)
    PROVE  /\ [i \in DOMAIN l |-> None] \in [1..Len(l) -> Led \cup {None}]
           /\ \A i \in 1..Len(l) : [j \in DOMAIN l |-> None][i] = None
OBVIOUS

(* The engine lives or has died where there is a process, which is the bridge's. *)
LEMMA ProcessIs ==
    ASSUME Attachment, process # None
    PROVE  engine \in {"up", "dead"} /\ target = process /\ process \in Processes
BY DEF Attachment

(* What the bridge answers for a row of the window. *)
LEMMA AnswerFits ==
    ASSUME Attachment, Pointing, process # None, ~ Awaited, NEW i \in 1..Len(rows),
           Lookup(i, chains, resolved) # None
    PROVE  /\ Lookup(i, chains, resolved) \in Led
           /\ Lookup(i, chains, resolved)[2] = process
           /\ engine = "up" => Lookup(i, chains, resolved)[1] = rows[i]
<1>1. /\ chains \in Seq(Chains) /\ rows \in Seq(Chains) /\ resolved \in BOOLEAN
      /\ i \in Nat \ {0} /\ target = process
  BY ProcessIs DEF Attachment, Pointing
<1> DEFINE answer == Lookup(i, chains, resolved)
<1>2. answer \in Led /\ resolved /\ answer[1] = chains[i] /\ answer[2] = target
  BY <1>1, LookupIs
<1> HIDE DEF answer
<1>3. engine = "up" => rows[i] = chains[i]
  BY <1>2 DEF Pointing
<1>4. answer \in Led /\ answer[2] = process /\ (engine = "up" => answer[1] = rows[i])
  BY <1>1, <1>2, <1>3
<1> QED
  BY <1>4 DEF answer

(* Rows asked for again by their positions. *)
LEMMA RefreshedIs ==
    ASSUME Attachment, Pointing, process # None, ~ Awaited
    PROVE  /\ Refreshed \in [1..Len(rows) -> Led \cup {None}]
           /\ \A i \in 1..Len(rows) : Refreshed[i] # None =>
                /\ Refreshed[i][2] = process
                /\ engine = "up" => Refreshed[i][1] = rows[i]
<1>1. /\ rows \in Seq(Chains) /\ cache \in Seq(Led \cup {None}) /\ Len(cache) = Len(rows)
      /\ \A i \in 1..Len(cache) : cache[i] # None => cache[i][2] = process
      /\ engine = "up" => \A i \in 1..Len(cache) : cache[i] # None => cache[i][1] = rows[i]
  BY DEF Pointing
<1>2. DOMAIN rows = 1..Len(rows) /\ \A i \in 1..Len(rows) : cache[i] \in Led \cup {None}
  BY <1>1, ElementOfSeq
<1>3. ASSUME NEW i \in 1..Len(rows)
      PROVE  /\ Refreshed[i] \in Led \cup {None}
             /\ Refreshed[i] # None => /\ Refreshed[i][2] = process
                                       /\ engine = "up" => Refreshed[i][1] = rows[i]
  <2>1. Refreshed[i] = IF cache[i] = None THEN Lookup(i, chains, resolved) ELSE cache[i]
    BY <1>2 DEF Refreshed
  <2>2. CASE cache[i] = None
    <3> DEFINE answer == Lookup(i, chains, resolved)
    <3>1. answer # None => answer \in Led /\ answer[2] = process /\ (engine = "up" => answer[1] = rows[i])
      BY AnswerFits
    <3> HIDE DEF answer
    <3>2. Refreshed[i] = answer
      BY <2>1, <2>2 DEF answer
    <3> QED
      BY <3>1, <3>2
  <2>3. CASE cache[i] # None
    BY <1>1, <1>2, <2>1, <2>3
  <2> QED
    BY <2>2, <2>3
<1>4. Refreshed = [i \in 1..Len(rows) |-> IF cache[i] = None THEN Lookup(i, chains, resolved) ELSE cache[i]]
  BY <1>2 DEF Refreshed
<1>5. Refreshed \in [1..Len(rows) -> Led \cup {None}]
  BY <1>3, <1>4
<1> QED
  BY <1>3, <1>5

(* The worker goes on, or ends with its message. *)
LEMMA WorkerGoes ==
    ASSUME Working, worker # "none", UNCHANGED process,
           Goes("clear") \/ Goes("copy") \/ Finished \/ UNCHANGED <<worker, busy, task, posted>>
    PROVE  Working'
<1>1. /\ busy \in 1..2 /\ task \in 0..4 /\ (busy = 0 <=> task = 0) /\ posted \in BOOLEAN /\ ~ posted
      /\ process # None /\ worker \in {"ask", "clear", "copy"}
  BY DEF Working
<1>2. CASE Goes("clear") \/ Goes("copy") \/ UNCHANGED <<worker, busy, task, posted>>
  <2>1. worker' \in {"ask", "clear", "copy"} /\ UNCHANGED <<busy, task, posted>>
    BY <1>1, <1>2 DEF Goes
  <2> QED
    BY <1>1, <2>1 DEF Working
<1>3. CASE Finished
  <2>1. worker' = "none" /\ posted' /\ posted' \in BOOLEAN /\ UNCHANGED <<busy, task>>
    BY <1>3 DEF Finished
  <2> QED
    BY <1>1, <2>1 DEF Working
<1> QED
  BY <1>2, <1>3

(* The message of a worker is handled. *)
LEMMA HandledKeeps ==
    ASSUME Working, posted, Handled, UNCHANGED process
    PROVE  Working' /\ worker = "none" /\ worker' = "none"
<1>1. busy' = 0 /\ task' = 0 /\ ~ posted' /\ posted' \in BOOLEAN /\ worker' = worker
  BY DEF Handled
<1>2. worker = "none"
  BY DEF Working
<1>3. Working'
  BY <1>1, <1>2 DEF Working
<1> QED
  BY <1>1, <1>2, <1>3

(* Some freezes go, perhaps with their addresses. *)
LEMMA UnfreezeKeeps ==
    ASSUME Freezing, Watching, NEW S, Unfreeze(S), watches' \subseteq watches,
           watches \ S \subseteq watches', UNCHANGED <<engine, process>>
    PROVE  Freezing' /\ Watching'
<1>1. freezes' = {f \in freezes : f.cell \notin S}
      /\ jobs' = {j \in jobs : \A f \in freezes : f.cell \in S => j.id # f.id}
  BY DEF Unfreeze
<1>2. freezes' \subseteq freezes /\ jobs' \subseteq jobs
  BY <1>1
<1>3. IsFiniteSet(freezes') /\ Cardinality(freezes') <= MaxFreezes
  <2>1. IsFiniteSet(freezes) /\ Cardinality(freezes) <= MaxFreezes
    BY DEF Freezing
  <2>2. IsFiniteSet(freezes') /\ Cardinality(freezes') <= Cardinality(freezes)
    BY <1>2, <2>1, FS_Subset
  <2>3. Cardinality(freezes) \in Nat /\ Cardinality(freezes') \in Nat
    BY <2>1, <2>2, FS_CardinalityType
  <2> QED
    BY <2>1, <2>2, <2>3, LimitsAssumption
<1>4. IsFiniteSet(watches') /\ Cardinality(watches') <= MaxWatches
  <2>1. IsFiniteSet(watches) /\ Cardinality(watches) <= MaxWatches
    BY DEF Watching
  <2>2. IsFiniteSet(watches') /\ Cardinality(watches') <= Cardinality(watches)
    BY <2>1, FS_Subset
  <2>3. Cardinality(watches) \in Nat /\ Cardinality(watches') \in Nat
    BY <2>1, <2>2, FS_CardinalityType
  <2> QED
    BY <2>1, <2>2, <2>3, LimitsAssumption
<1>5. \A f \in freezes' : f.cell \in watches'
  BY <1>1 DEF Freezing
<1>6. engine' = "up" => jobs' = freezes'
  BY <1>1 DEF Freezing
<1>7. engine' = "none" => jobs' = {} /\ freezes' = {}
  BY <1>2 DEF Freezing
<1>8. /\ \A f, g \in freezes' : f.id = g.id \/ f.cell = g.cell => f = g
      /\ jobs' \subseteq Job /\ freezes' \subseteq Job /\ Job' = Job
  BY <1>2 DEF Freezing, Job
<1>9. Freezing'
  BY <1>3, <1>5, <1>6, <1>7, <1>8 DEF Freezing
<1>10. Watching'
  BY <1>4 DEF Watching, Cells
<1> QED
  BY <1>9, <1>10

(* A new job in the place of the old one of that cell. *)
LEMMA FreezeAgainKeeps ==
    ASSUME Freezing, Watching, NEW w \in watches, FreezeAgain(w), UNCHANGED <<engine, watches>>
    PROVE  Freezing'
<1> DEFINE job == [id |-> Fresh, cell |-> w]
           old == freezes \ FrozenAt(w)
<1>1. /\ Up /\ Cardinality(old) < MaxFreezes /\ freezes' = old \cup {job}
      /\ jobs' = {j \in jobs : \A f \in FrozenAt(w) : j.id # f.id} \cup {job}
  BY DEF FreezeAgain
<1>2. Fresh \in Numbers /\ (\A j \in freezes : j.id # Fresh) /\ w \in Cells
  BY <1>1, FreshIs DEF Watching
<1>3. job \in Job /\ job.id = Fresh /\ job.cell = w
  BY <1>2 DEF Job
<1> HIDE DEF job
<1>4. old = {f \in freezes : f.cell # w} /\ old \subseteq freezes
  BY DEF FrozenAt
<1>5. IsFiniteSet(freezes') /\ Cardinality(freezes') <= MaxFreezes
  <2>1. IsFiniteSet(old)
    BY <1>4, FS_Subset DEF Freezing
  <2>2. Cardinality(old) \in Nat
    BY <2>1, FS_CardinalityType
  <2>3. job \notin old
    BY <1>2, <1>3, <1>4
  <2> HIDE DEF old
  <2>4. IsFiniteSet(old \cup {job}) /\ Cardinality(old \cup {job}) = Cardinality(old) + 1
    BY <2>1, <2>3, FS_AddElement
  <2> QED
    BY <1>1, <2>2, <2>4, LimitsAssumption
<1>6. jobs = freezes
  BY <1>1 DEF Freezing, Up
<1>7. jobs' = freezes'
  BY <1>1, <1>4, <1>6 DEF Freezing, FrozenAt
<1>8. /\ \A f, g \in freezes' : f.id = g.id \/ f.cell = g.cell => f = g
      /\ \A f \in freezes' : f.cell \in watches'
      /\ freezes' \subseteq Job /\ Job' = Job
  BY <1>1, <1>2, <1>3, <1>4 DEF Freezing, Job
<1>9. engine' = "up"
  BY <1>1 DEF Up
<1> QED
  BY <1>5, <1>7, <1>8, <1>9 DEF Freezing

(* One more address of the process. *)
LEMMA AddWatchKeeps ==
    ASSUME Watching, NEW cell \in Cells, process # None => cell[1] = process,
           AddWatch(cell), UNCHANGED process
    PROVE  Watching' /\ watches \subseteq watches'
<1>1. watches' = watches \cup {cell} /\ Cardinality(watches') <= MaxWatches
  BY DEF AddWatch
<1>2. IsFiniteSet(watches')
  BY <1>1, FS_AddElement DEF Watching
<1> QED
  BY <1>1, <1>2 DEF Watching, Cells

(* The same of an address that chains lead to, and of the target it may become. *)
LEMMA AddPointeeKeeps ==
    ASSUME Watching, Pointing, process # None, NEW cell \in Cells, cell[1] = process,
           AddPointee(cell), UNCHANGED process
    PROVE  /\ Watching' /\ watches \subseteq watches'
           /\ goal' \in Cells \cup {None} /\ (goal' # None => goal'[1] = process)
<1>1. CASE AddWatch(cell) /\ goal' = cell
  BY <1>1, AddWatchKeeps
<1>2. CASE UNCHANGED <<watches, goal>>
  BY <1>2, WatchingKept DEF Pointing
<1> QED
  BY <1>1, <1>2 DEF AddPointee

-----------------------------------------------------------------------------
(* The steps.                                                              *)

(* At the start there is nothing, and perhaps no engine. *)
LEMMA Initially == Init => IInv
<1> SUFFICES ASSUME Init PROVE IInv
  OBVIOUS
<1>1. IsFiniteSet({}) /\ Cardinality({}) = 0
  BY FS_EmptySet
<1>2. <<>> \in Seq(Chains) /\ <<>> \in Seq(Led \cup {None}) /\ Len(<<>>) = 0
  OBVIOUS
<1>3. Working /\ Attachment
  <2>1. busy = 0 /\ task = 0 /\ worker = "none" /\ ~ posted /\ posted \in BOOLEAN
    BY DEF Init
  <2>2. Working
    BY <2>1 DEF Working
  <2>3. Attachment
    BY DEF Init, Attachment
  <2> QED
    BY <2>2, <2>3
<1>4. Freezing /\ Watching
  BY <1>1, LimitsAssumption DEF Init, Freezing, Watching
<1>5. Scanned
  BY DEF Init, Scanned
<1>6. Pointing
  BY <1>2 DEF Init, Pointing
<1> QED
  BY <1>3, <1>4, <1>5, <1>6 DEF IInv

(* What leaves threads, process and session alone keeps three parts of the invariant. *)
LEMMA StillThere ==
    ASSUME IInv, UNCHANGED <<threads, open, engine, target, process, resolved>>
    PROVE  Working' /\ Attachment'
BY WorkingKept, AttachmentKept DEF IInv, threads

(* The bridge starts an engine where there was none, and so nothing of it is shown. *)
LEMMA RefreshProcessesKeeps == ASSUME IInv, RefreshProcesses PROVE IInv'
<1>1. /\ engine = "none" /\ engine' = "up" /\ UNCHANGED <<threads, open, target, jobs, scan, chains, resolved>>
      /\ UNCHANGED <<process, results, watches, freezes, rows, cache, goal>>
  BY DEF RefreshProcesses, Idle, session
<1>2. target = None /\ process = None /\ ~ resolved /\ jobs = {} /\ freezes = {}
      /\ \A i \in 1..Len(cache) : cache[i] = None
  BY <1>1 DEF IInv, Attachment, Freezing, Pointing
<1>3. Working' /\ Watching' /\ Scanned'
  BY <1>1, WorkingKept, WatchingKept, ScannedKept DEF IInv, threads
<1>4. Attachment'
  BY <1>1, <1>2 DEF IInv, Attachment
<1>5. Freezing'
  BY <1>1, <1>2 DEF IInv, Freezing
<1>6. Pointing'
  BY <1>1, <1>2 DEF IInv, Pointing, Led, Cells
<1> QED
  BY <1>3, <1>4, <1>5, <1>6 DEF IInv

(* The engine's freezes end with it; the window's stay, of which nothing is said then. *)
LEMMA EngineDiesKeeps == ASSUME IInv, EngineDies PROVE IInv'
<1>1. /\ engine = "up" /\ engine' = "dead" /\ jobs' = {}
      /\ UNCHANGED <<threads, open, target, scan, chains, resolved, process, results, watches, freezes,
                     rows, cache, goal>>
  BY DEF EngineDies, Up
<1>2. Working' /\ Watching' /\ Scanned'
  BY <1>1, WorkingKept, WatchingKept, ScannedKept DEF IInv, threads
<1>3. Attachment'
  BY <1>1 DEF IInv, Attachment
<1>4. Freezing'
  BY <1>1 DEF IInv, Freezing, Job
<1>5. Pointing'
  BY <1>1 DEF IInv, Pointing, Led, Cells
<1> QED
  BY <1>2, <1>3, <1>4, <1>5 DEF IInv

(* Whether it succeeds or not, an attachment leaves no scan, no freeze, no watched address *)
(* and nothing the bridge would answer for a row.                                          *)
LEMMA AttachKeeps == ASSUME IInv, NEW p \in Processes, Attach(p) PROVE IInv'
<1>1. /\ busy = 0 /\ UNCHANGED <<threads, open, engine, chains, rows>>
      /\ freezes' = {} /\ jobs' = {} /\ results' = None /\ scan' = None /\ watches' = {}
      /\ resolved' = (resolved /\ target = None)
  BY DEF Attach, Idle, CloseTarget
<1>2. ~ resolved' /\ resolved' \in BOOLEAN
  BY <1>1 DEF IInv, Attachment
<1>3. worker' = "none" /\ busy' = 0
  BY <1>1 DEF IInv, Working, threads
<1>4. IsFiniteSet({}) /\ Cardinality({}) = 0
  BY FS_EmptySet
<1>5. Working'
  BY <1>1, <1>3 DEF IInv, Working, threads
<1>6. Freezing' /\ Watching'
  BY <1>1, <1>4, LimitsAssumption DEF Freezing, Watching
<1>7. Scanned'
  BY <1>1, <1>3 DEF Scanned
<1>8. CASE Attached(p)
  <2>1. engine = "up" /\ target' = p /\ process' = p /\ goal' = None /\ cache' = [i \in DOMAIN rows |-> None]
    BY <1>8 DEF Attached, Up
  <2>2. Attachment'
    BY <1>1, <1>2, <2>1 DEF IInv, Attachment
  <2>3. chains' \in Seq(Chains) /\ rows' \in Seq(Chains)
    BY <1>1 DEF IInv, Pointing
  <2>4. /\ cache' \in [1..Len(rows') -> Led \cup {None}]
        /\ \A i \in 1..Len(rows') : cache'[i] = None
    BY <1>1, <2>1, <2>3, NothingShown
  <2>5. Pointing'
    BY <1>2, <2>1, <2>3, <2>4, RowsShow
  <2> QED
    BY <1>5, <1>6, <1>7, <2>2, <2>5 DEF IInv
<1>9. CASE NotAttached
  <2>1. /\ target' = (IF engine = "dead" THEN target ELSE None)
        /\ process' = None /\ UNCHANGED <<goal, cache>>
    BY <1>9 DEF NotAttached
  <2>2. Attachment'
    BY <1>1, <1>2, <2>1 DEF IInv, Attachment
  <2>3. Pointing'
    BY <1>1, <1>2, <2>1 DEF IInv, Pointing, Led, Cells
  <2> QED
    BY <1>5, <1>6, <1>7, <2>2, <2>3 DEF IInv
<1> QED
  BY <1>8, <1>9 DEF Attach

(* A closed window has nothing left. *)
LEMMA CloseKeeps == ASSUME IInv, Close PROVE IInv'
<1>1. /\ busy = 0 /\ UNCHANGED threads /\ open' = FALSE /\ engine' = "none"
      /\ target' = None /\ process' = None /\ freezes' = {} /\ jobs' = {} /\ watches' = {}
      /\ results' = None /\ scan' = None /\ chains' = <<>> /\ resolved' = FALSE /\ rows' = <<>>
      /\ cache' = <<>> /\ goal' = None
  BY DEF Close
<1>2. IsFiniteSet({}) /\ Cardinality({}) = 0
  BY FS_EmptySet
<1>3. <<>> \in Seq(Chains) /\ <<>> \in Seq(Led \cup {None}) /\ Len(<<>>) = 0
  OBVIOUS
<1>4. Working' /\ worker' = "none"
  BY <1>1 DEF IInv, Working, threads
<1>5. Attachment'
  BY <1>1 DEF Attachment
<1>6. Freezing' /\ Watching'
  BY <1>1, <1>2, LimitsAssumption DEF Freezing, Watching
<1>7. Scanned'
  BY <1>1, <1>4 DEF Scanned
<1>8. Pointing'
  BY <1>1, <1>3 DEF Pointing
<1> QED
  BY <1>4, <1>5, <1>6, <1>7, <1>8 DEF IInv

(* Rows that stay and show what was asked for again. *)
LEMMA ShownAnew ==
    ASSUME IInv, process # None, ~ Awaited, UNCHANGED <<engine, session, process, rows>>,
           NEW c \in [1..Len(rows) -> Led \cup {None}], cache' = c,
           \A i \in 1..Len(rows) : c[i] # None =>
              c[i][2] = process /\ (engine = "up" => c[i][1] = rows[i]),
           goal' \in Cells \cup {None}, goal' # None => goal'[1] = process
    PROVE  Pointing'
<1>1. chains' \in Seq(Chains) /\ rows' \in Seq(Chains) /\ UNCHANGED <<chains, resolved>>
  BY DEF IInv, Pointing, session
<1>2. engine \in {"up", "dead"}
  BY ProcessIs DEF IInv
<1>3. engine' = "up" /\ resolved' =>
        Len(rows') <= Len(chains') /\ \A i \in 1..Len(rows') : rows'[i] = chains'[i]
  BY <1>1 DEF IInv, Pointing
<1> QED
  BY <1>1, <1>2, <1>3, RowsShow

(* A worker begins; the rows of a search show nothing until it is done. *)
LEMMA BeginKeeps ==
    ASSUME IInv, process # None, NEW kind \in 1..4, Begin(kind)
    PROVE  IInv'
<1>1. /\ busy = 0 /\ busy' \in {1, 2} /\ task' = kind /\ worker' = "ask" /\ posted' = posted
      /\ UNCHANGED <<engine, session, open, process, results, watches, freezes, rows, goal>>
      /\ UNCHANGED cache \/ cache' = [i \in DOMAIN rows |-> None]
  BY DEF Begin
<1>2. Working' /\ worker = "none"
  BY <1>1 DEF IInv, Working
<1>3. Attachment' /\ Freezing' /\ Watching' /\ Scanned'
  BY <1>1, AttachmentKept, FreezingKept, WatchingKept, ScannedKept DEF IInv, session
<1>4. CASE UNCHANGED cache
  <2>1. Pointing'
    BY <1>1, <1>2, <1>4, PointingKept DEF IInv, session, Awaited
  <2> QED
    BY <1>2, <1>3, <2>1 DEF IInv
<1>5. CASE cache' = [i \in DOMAIN rows |-> None]
  <2>1. rows \in Seq(Chains) /\ goal' \in Cells \cup {None} /\ (goal' # None => goal'[1] = process)
    BY <1>1 DEF IInv, Pointing
  <2>2. /\ cache' \in [1..Len(rows) -> Led \cup {None}]
        /\ \A i \in 1..Len(rows) : cache'[i] = None
    BY <1>5, <2>1, NothingShown
  <2>3. ~ Awaited
    BY <1>2 DEF Awaited
  <2>4. Pointing'
    BY <1>1, <2>1, <2>2, <2>3, ShownAnew
  <2> QED
    BY <1>2, <1>3, <2>4 DEF IInv
<1> QED
  BY <1>1, <1>4, <1>5

(* Scan and list go together. *)
LEMMA NewScanKeeps == ASSUME IInv, NewScan PROVE IInv'
<1>1. /\ busy = 0 /\ scan' = None /\ results' = None /\ UNCHANGED <<threads, open>>
      /\ UNCHANGED <<engine, target, jobs, chains, resolved, process, watches, freezes, rows, cache, goal>>
  BY DEF NewScan, Idle
<1>2. Working' /\ Attachment' /\ Freezing' /\ Watching'
  BY <1>1, StillThere, FreezingKept, WatchingKept DEF IInv
<1>3. worker' = "none"
  BY <1>1 DEF IInv, Working, threads
<1>4. Scanned'
  BY <1>1, <1>3 DEF Scanned
<1>5. Pointing'
  BY <1>1, PointingKept DEF IInv, Awaited, threads
<1> QED
  BY <1>2, <1>4, <1>5 DEF IInv

(* The worker has a new scan, or none, from the bridge. *)
LEMMA ScanAnswered ==
    ASSUME IInv, worker = "ask", scan' # None => CellsOf(scan', target),
           Finished \/ Goes("clear"),
           UNCHANGED <<engine, target, jobs, chains, resolved, open, process, results, watches,
                       freezes, rows, cache, goal>>
    PROVE  IInv'
<1>1. worker' # "copy"
  BY DEF Finished, Goes
<1>2. Working'
  BY WorkerGoes DEF IInv
<1>3. Attachment' /\ Freezing' /\ Watching'
  BY AttachmentKept, FreezingKept, WatchingKept DEF IInv
<1>4. Scanned'
  BY <1>1 DEF IInv, Scanned, CellsOf, Cells
<1>5. Pointing'
  BY PointingKept DEF IInv, Awaited
<1> QED
  BY <1>2, <1>3, <1>4, <1>5 DEF IInv

(* While the worker runs there is a process. *)
LEMMA WorkerHasProcess ==
    ASSUME IInv, worker # "none"
    PROVE  process # None /\ target = process /\ process \in Processes /\ ~ posted
BY ProcessIs DEF IInv, Working

(* A first scan is of the bridge's process, which is the window's. *)
LEMMA AskFirstKeeps == ASSUME IInv, AskFirst PROVE IInv'
<1>1. /\ worker = "ask"
      /\ UNCHANGED <<engine, target, jobs, chains, resolved, open, process, results, watches,
                     freezes, rows, cache, goal>>
      /\ \/ scan' = None /\ Finished
         \/ scan' \in Found(target) /\ Goes("clear")
  BY DEF AskFirst, Asks
<1>2. target \in Processes
  BY <1>1, WorkerHasProcess
<1>3. scan' # None => CellsOf(scan', target)
  BY <1>1, <1>2, FoundAre
<1> QED
  BY <1>1, <1>3, ScanAnswered

(* A refinement keeps some of the cells the scan has. *)
LEMMA AskNextKeeps == ASSUME IInv, AskNext PROVE IInv'
<1>1. /\ worker = "ask"
      /\ UNCHANGED <<engine, target, jobs, chains, resolved, open, process, results, watches,
                     freezes, rows, cache, goal>>
      /\ \/ UNCHANGED scan /\ (Finished \/ Goes("clear"))
         \/ /\ scan # None /\ Goes("clear")
            /\ scan' \in Sublists(scan) \cup Found(target) \cup {None}
  BY DEF AskNext, Asks
<1>2. target \in Processes
  BY <1>1, WorkerHasProcess
<1>3. ASSUME scan # None, scan' \in Sublists(scan) PROVE CellsOf(scan', target)
  <2>1. scan \in Seq(Cells) /\ \A i \in DOMAIN scan : scan[i][1] = target
    BY <1>3 DEF IInv, Scanned, CellsOf
  <2>2. scan' \in Seq(Cells) /\ \A i \in DOMAIN scan' : \E j \in DOMAIN scan : scan'[i] = scan[j]
    BY <1>3, <2>1, SublistsAre
  <2> QED
    BY <2>1, <2>2 DEF CellsOf
<1>4. ASSUME scan' \in Found(target) PROVE CellsOf(scan', target)
  BY <1>2, <1>4, FoundAre
<1>5. UNCHANGED scan => (scan' # None => CellsOf(scan', target))
  BY DEF IInv, Scanned, CellsOf
<1>6. scan' # None => CellsOf(scan', target)
  BY <1>1, <1>3, <1>4, <1>5
<1> QED
  BY <1>1, <1>6, ScanAnswered

(* The results shown are those of the bridge, copied one after the other. *)
LEMMA CopyResultsKeeps == ASSUME IInv, CopyResults PROVE IInv'
<1>1. /\ worker \in {"clear", "copy"} /\ task \in {1, 2}
      /\ UNCHANGED <<engine, session, open, process, watches, freezes, rows, cache, goal>>
  BY DEF CopyResults, Scanning
<1>2. process # None /\ target = process
  BY <1>1, WorkerHasProcess
<1>3. Working'
  BY <1>1, WorkerGoes DEF CopyResults, IInv
<1>4. Attachment' /\ Freezing' /\ Watching'
  BY <1>1, AttachmentKept, FreezingKept, WatchingKept DEF IInv, session
<1>5. Pointing'
  BY <1>1, PointingKept DEF IInv, Awaited, session
<1>6. UNCHANGED <<scan, target, process>> /\ Cells' = Cells
  BY <1>1 DEF session, Cells
<1>7. Scanned'
  <2>1. CASE worker = "clear" /\ results' = <<>> /\ Goes("copy")
    <3>1. CellsOf(<<>>, process)
      BY DEF CellsOf
    <3> QED
      BY <1>2, <1>6, <2>1, <3>1 DEF IInv, Scanned, CellsOf
  <2>2. CASE /\ worker = "copy" /\ Len(results) < ScanLength
             /\ results' = Append(results, scan[Len(results) + 1]) /\ UNCHANGED <<worker, busy, task, posted>>
    <3>1. CellsOf(results, process)
      BY <1>1, <2>2 DEF IInv, Scanned
    <3>2. Len(results) \in Nat /\ results \in Seq(Cells)
      BY <3>1 DEF CellsOf
    <3>3. scan # None /\ Len(results) < Len(scan)
      BY <2>2, <3>2 DEF ScanLength
    <3>4. scan \in Seq(Cells) /\ \A i \in DOMAIN scan : scan[i][1] = process
      BY <1>2, <3>3 DEF IInv, Scanned, CellsOf
    <3> DEFINE cell == scan[Len(results) + 1]
    <3>5. cell \in Cells /\ cell[1] = process
      BY <3>2, <3>3, <3>4
    <3> HIDE DEF cell
    <3>6. CellsOf(Append(results, cell), process)
      BY <3>1, <3>5 DEF CellsOf
    <3>7. CellsOf(results', process)
      BY <2>2, <3>6 DEF cell
    <3> QED
      BY <1>2, <1>6, <2>2, <3>7 DEF IInv, Scanned, CellsOf
  <2>3. CASE worker = "copy" /\ UNCHANGED results /\ Finished
    BY <1>6, <2>3, ScannedKept DEF Finished, IInv
  <2> QED
    BY <2>1, <2>2, <2>3 DEF CopyResults
<1> QED
  BY <1>3, <1>4, <1>5, <1>7 DEF IInv

(* The end of a scan. *)
LEMMA HandleScanDoneKeeps == ASSUME IInv, HandleScanDone PROVE IInv'
<1>1. /\ posted /\ Handled /\ open' = open
      /\ UNCHANGED <<engine, session, process, results, watches, freezes, rows, cache, goal>>
  BY DEF HandleScanDone, Handled
<1>2. Working' /\ worker = "none" /\ worker' = "none"
  BY <1>1, HandledKeeps DEF IInv
<1>3. Attachment' /\ Freezing' /\ Watching' /\ Scanned'
  BY <1>1, <1>2, AttachmentKept, FreezingKept, WatchingKept, ScannedKept DEF IInv, session
<1>4. Pointing'
  BY <1>1, <1>2, PointingKept DEF IInv, Awaited, session
<1> QED
  BY <1>2, <1>3, <1>4 DEF IInv

(* What concerns the lists of addresses and freezes only. *)
LEMMA OthersKept ==
    ASSUME IInv, UNCHANGED <<engine, target, open, process, results, scan, pointing, threads>>
    PROVE  Working' /\ Attachment' /\ Scanned' /\ Pointing'
<1>1. Working' /\ Attachment'
  BY StillThere DEF pointing
<1>2. Scanned'
  BY ScannedKept DEF IInv, threads
<1>3. Pointing'
  BY PointingKept DEF IInv, pointing, threads, Awaited
<1> QED
  BY <1>1, <1>2, <1>3

(* A listed result is a cell of the process, and so may be watched. *)
LEMMA AddResultKeeps == ASSUME IInv, AddResult PROVE IInv'
<1>1. /\ results # None /\ UNCHANGED <<threads, open>>
      /\ UNCHANGED <<engine, session, process, results, freezes, rows, cache, goal>>
  BY DEF AddResult, Idle
<1>2. PICK i \in DOMAIN results : AddWatch(results[i])
  BY DEF AddResult
<1>3. results[i] \in Cells /\ (process # None => results[i][1] = process)
  BY <1>1, <1>2, ElementOfSeq DEF IInv, Scanned, CellsOf
<1>4. Watching' /\ watches \subseteq watches'
  BY <1>1, <1>2, <1>3, AddWatchKeeps DEF IInv
<1>5. Freezing'
  BY <1>1, <1>4, FreezingKept DEF IInv, session
<1> QED
  BY <1>1, <1>4, <1>5, OthersKept DEF IInv, session, pointing

(* A watched address goes with its freeze. *)
LEMMA RemoveWatchKeeps == ASSUME IInv, NEW w \in watches, RemoveWatch(w) PROVE IInv'
<1>1. /\ watches' = watches \ {w} /\ Unfreeze({w}) /\ UNCHANGED <<threads, open>>
      /\ UNCHANGED <<engine, target, process, results, scan, pointing>>
  BY DEF RemoveWatch, Idle
<1>2. Freezing' /\ Watching'
  BY <1>1, UnfreezeKeeps DEF IInv
<1> QED
  BY <1>1, <1>2, OthersKept DEF IInv

(* All watched addresses go with their freezes. *)
LEMMA ClearWatchesKeeps == ASSUME IInv, ClearWatches PROVE IInv'
<1>1. /\ watches' = {} /\ Unfreeze(watches) /\ UNCHANGED <<threads, open>>
      /\ UNCHANGED <<engine, target, process, results, scan, pointing>>
  BY DEF ClearWatches, Idle
<1>2. Freezing' /\ Watching'
  BY <1>1, UnfreezeKeeps DEF IInv
<1> QED
  BY <1>1, <1>2, OthersKept DEF IInv

(* A write of a frozen cell replaces its job; a toggle begins or ends one. *)
LEMMA WriteOrToggleKeeps ==
    ASSUME IInv, NEW w \in watches, WriteWatch(w) \/ ToggleFreeze(w)
    PROVE  IInv'
<1>1. /\ Unfreeze({w}) \/ FreezeAgain(w)
      /\ UNCHANGED <<engine, target, open, process, results, scan, watches, pointing, threads>>
  BY DEF WriteWatch, ToggleFreeze, Idle
<1>2. Freezing' /\ Watching'
  BY <1>1, UnfreezeKeeps, FreezeAgainKeeps, WatchingKept DEF IInv
<1> QED
  BY <1>1, <1>2, OthersKept DEF IInv

-----------------------------------------------------------------------------
(* The page of pointers.                                                   *)

(* What concerns the rows and the bridge's chains only. *)
LEMMA OthersStay ==
    ASSUME IInv, UNCHANGED <<engine, target, jobs, scan, process, results, freezes, threads, open>>,
           resolved' \in BOOLEAN, process # None \/ UNCHANGED resolved
    PROVE  Working' /\ Attachment' /\ Scanned' /\ (watches \subseteq watches' => Freezing')
<1>1. Working'
  BY WorkingKept DEF IInv, threads
<1>2. Attachment'
  BY ProcessIs DEF IInv, Attachment
<1>3. Scanned'
  BY ScannedKept DEF IInv, threads
<1>4. watches \subseteq watches' => Freezing'
  BY FreezingKept DEF IInv
<1> QED
  BY <1>1, <1>2, <1>3, <1>4

(* No page is awaited where no worker runs. *)
LEMMA NotAwaited == ASSUME Working, busy = 0 \/ posted PROVE ~ Awaited /\ worker = "none"
BY DEF Working, Awaited

(* The goal of a search is a watched address. *)
LEMMA TakeTargetKeeps == ASSUME IInv, NEW w \in watches, TakeTarget(w) PROVE IInv'
<1>1. /\ busy = 0 /\ goal' = w /\ cache' = [i \in DOMAIN rows |-> None] /\ UNCHANGED <<threads, open>>
      /\ UNCHANGED <<engine, session, process, results, watches, freezes, rows>>
  BY DEF TakeTarget, Idle
<1>2. Working' /\ Attachment' /\ Scanned' /\ Freezing' /\ Watching'
  BY <1>1, StillThere, ScannedKept, FreezingKept, WatchingKept DEF IInv, session, threads
<1>3. /\ chains' \in Seq(Chains) /\ rows' \in Seq(Chains) /\ rows' = rows
      /\ goal' \in Cells \cup {None} /\ (process' # None => goal'[1] = process')
  BY <1>1 DEF IInv, Pointing, Watching, session
<1>4. /\ cache' \in [1..Len(rows') -> Led \cup {None}]
      /\ \A i \in 1..Len(rows') : cache'[i] = None
  BY <1>1, <1>3, NothingShown
<1>5. engine' = "up" /\ resolved' =>
         Len(rows') <= Len(chains') /\ \A i \in 1..Len(rows') : rows'[i] = chains'[i]
  BY <1>1, NotAwaited DEF IInv, Pointing, session
<1>6. Pointing'
  BY <1>3, <1>4, <1>5, RowsShow
<1> QED
  BY <1>2, <1>6 DEF IInv

(* The bridge has new chains, which it says, or none and a dead engine, or as before. *)
LEMMA AskPointersKeeps == ASSUME IInv, AskPointers PROVE IInv'
<1>1. /\ worker = "ask" /\ task \in {3, 4} /\ UNCHANGED <<busy, task>>
      /\ UNCHANGED <<engine, target, jobs, scan, open, process, results, watches, freezes, rows, cache, goal>>
      /\ \/ /\ chains' \in Lists(Chains) \cup Sublists(chains)
            /\ resolved' = TRUE /\ Goes("clear")
         \/ UNCHANGED <<chains, resolved>> /\ Finished
         \/ engine = "dead" /\ chains' = <<>> /\ UNCHANGED resolved /\ Finished
  BY DEF AskPointers, Asks, Finished, Goes
<1>2. process # None
  BY <1>1, WorkerHasProcess
<1>3. Working'
  BY <1>1, WorkerGoes DEF IInv
<1>4. Attachment'
  BY <1>1, <1>2, ProcessIs DEF IInv, Attachment
<1>5. Freezing' /\ Watching' /\ Scanned'
  BY <1>1, FreezingKept, WatchingKept, ScannedKept DEF IInv
<1>6. chains' \in Seq(Chains)
  <2>1. chains \in Seq(Chains)
    BY DEF IInv, Pointing
  <2>2. \A l \in Lists(Chains) : l \in Seq(Chains)
    BY NumbersAssumption, ListsAre
  <2>3. \A l \in Sublists(chains) : l \in Seq(Chains)
    BY <2>1, SublistsAre
  <2>4. <<>> \in Seq(Chains)
    OBVIOUS
  <2>5. chains' = chains \/ chains' = <<>> \/ chains' \in Lists(Chains) \/ chains' \in Sublists(chains)
    BY <1>1
  <2> QED
    BY <2>1, <2>2, <2>3, <2>4, <2>5, Zenon
<1>7. engine' = "up" /\ ~ Awaited' => UNCHANGED <<chains, resolved>>
  BY <1>1 DEF Awaited, Goes
<1>8. ~ Awaited
  BY <1>1 DEF Awaited
<1>9. Pointing'
  BY <1>1, <1>6, <1>7, <1>8 DEF IInv, Pointing, Led, Cells
<1> QED
  BY <1>3, <1>4, <1>5, <1>9 DEF IInv

(* The bridge's chains become the rows, one after the other. *)
LEMMA CopyChainsKeeps == ASSUME IInv, CopyChains PROVE IInv'
<1> DEFINE n == Len(rows) + 1
<1>1. /\ worker \in {"clear", "copy"} /\ task \in {3, 4}
      /\ UNCHANGED <<engine, session, open, process, results, watches, freezes, goal>>
      /\ \/ worker = "clear" /\ rows' = <<>> /\ cache' = <<>> /\ Goes("copy")
         \/ /\ worker = "copy" /\ n <= Len(chains)
            /\ rows' = Append(rows, chains[n])
            /\ cache' = Append(cache, Lookup(n, chains, resolved))
            /\ UNCHANGED <<worker, busy, task, posted>>
         \/ worker = "copy" /\ UNCHANGED <<rows, cache>> /\ Finished
  BY DEF CopyChains
<1>2. process # None /\ target = process /\ engine \in {"up", "dead"}
  BY <1>1, WorkerHasProcess, ProcessIs DEF IInv
<1>3. Working' /\ UNCHANGED task
  BY <1>1, WorkerGoes DEF IInv, Goes, Finished
<1>4. Attachment' /\ Freezing' /\ Watching' /\ Scanned'
  BY <1>1, <1>3, AttachmentKept, FreezingKept, WatchingKept, ScannedKept DEF IInv, session
<1>5. UNCHANGED <<engine, chains, resolved, process, goal>>
  BY <1>1 DEF session
<1>6. /\ chains' \in Seq(Chains) /\ chains \in Seq(Chains) /\ rows \in Seq(Chains)
      /\ cache \in Seq(Led \cup {None}) /\ Len(cache) = Len(rows)
      /\ goal' \in Cells \cup {None} /\ (process' # None /\ goal' # None => goal'[1] = process')
  BY <1>5 DEF IInv, Pointing
<1>7. CASE worker = "clear" /\ rows' = <<>> /\ cache' = <<>> /\ Goes("copy")
  <2>1. Pointing'
    BY <1>6, <1>7, NoRows
  <2> QED
    BY <1>3, <1>4, <2>1 DEF IInv
<1>8. CASE /\ worker = "copy" /\ n <= Len(chains)
           /\ rows' = Append(rows, chains[n])
           /\ cache' = Append(cache, Lookup(n, chains, resolved))
           /\ UNCHANGED <<worker, busy, task, posted>>
  <2> DEFINE answer == Lookup(n, chains, resolved)
             c == Append(cache, answer)
  <2>1. n \in Nat \ {0} /\ Len(rows) \in Nat /\ Len(chains) \in Nat /\ chains[n] \in Chains
    BY <1>6, <1>8
  <2>2. answer # None => answer \in Led /\ answer[1] = chains[n] /\ answer[2] = process
    BY <1>2, <1>6, <2>1, LookupIs DEF IInv, Attachment
  <2> HIDE DEF answer, n
  <2>3. rows' \in Seq(Chains) /\ Len(rows') = n
        /\ \A i \in 1..n : rows'[i] = IF i = n THEN chains[n] ELSE rows[i]
    BY <1>6, <1>8, <2>1 DEF n
  <2>4. c \in Seq(Led \cup {None}) /\ Len(c) = n
        /\ \A i \in 1..n : c[i] = IF i = n THEN answer ELSE cache[i]
    BY <1>6, <2>1, <2>2 DEF n
  <2>5. cache' = c
    BY <1>8 DEF answer
  <2> HIDE DEF c
  <2>6. c \in [1..Len(rows') -> Led \cup {None}]
    BY <2>3, <2>4
  <2>7. \A i \in 1..Len(rows) : cache[i] # None =>
           cache[i][2] = process /\ (engine = "up" => cache[i][1] = rows[i])
    BY <1>2, <1>6 DEF IInv, Pointing
  <2>8. ASSUME NEW i \in 1..Len(rows'), c[i] # None
        PROVE  c[i][2] = process /\ (engine = "up" => c[i][1] = rows'[i])
    <3>1. CASE i = n
      BY <2>2, <2>3, <2>4, <2>8, <3>1
    <3>2. CASE i # n
      <4>1. i \in 1..Len(rows)
        BY <2>1, <2>3, <3>2 DEF n
      <4> QED
        BY <2>3, <2>4, <2>7, <2>8, <3>2, <4>1
    <3> QED
      BY <3>1, <3>2
  <2>9. ASSUME engine' = "up", resolved'
        PROVE  Len(rows') <= Len(chains') /\ \A i \in 1..Len(rows') : rows'[i] = chains'[i]
    <3>1. \A i \in 1..Len(rows) : rows[i] = chains[i]
      BY <1>5, <1>8, <2>9 DEF IInv, Pointing, Awaited
    <3>2. \A i \in 1..n : i # n => i \in 1..Len(rows)
      BY <2>1 DEF n
    <3> QED
      BY <1>5, <1>8, <2>3, <3>1, <3>2
  <2>10. Pointing'
    BY <1>2, <1>5, <1>6, <2>3, <2>5, <2>6, <2>8, <2>9, RowsShow
  <2> QED
    BY <1>3, <1>4, <2>10 DEF IInv
<1>9. CASE worker = "copy" /\ UNCHANGED <<rows, cache>> /\ Finished
  <2>1. Pointing'
    BY <1>5, <1>9, PointingKept DEF IInv, Awaited
  <2> QED
    BY <1>3, <1>4, <2>1 DEF IInv
<1> QED
  BY <1>1, <1>7, <1>8, <1>9

(* The timer asks for the rows by position, but not while they are being replaced. *)
LEMMA TimerKeeps == ASSUME IInv, Timer PROVE IInv'
<1>1. /\ busy = 0 /\ process # None /\ cache' = Refreshed /\ UNCHANGED <<threads, open>>
      /\ UNCHANGED <<engine, session, process, results, watches, freezes, rows, goal>>
  BY DEF Timer, Idle
<1>2. Working' /\ Attachment' /\ Scanned' /\ Freezing' /\ Watching'
  BY <1>1, StillThere, ScannedKept, FreezingKept, WatchingKept DEF IInv, session, threads
<1>3. ~ Awaited /\ goal' \in Cells \cup {None} /\ (goal' # None => goal'[1] = process)
  BY <1>1, NotAwaited DEF IInv, Pointing
<1>4. Pointing'
  BY <1>1, <1>3, RefreshedIs, ShownAnew DEF IInv
<1> QED
  BY <1>2, <1>4 DEF IInv

(* The end of a search. *)
LEMMA HandlePointerDoneKeeps == ASSUME IInv, HandlePointerDone PROVE IInv'
<1> DEFINE c == [i \in DOMAIN rows |-> IF process = None THEN None ELSE Lookup(i, chains, resolved)]
<1>1. /\ posted /\ Handled /\ cache' = c /\ open' = open
      /\ UNCHANGED <<engine, session, process, results, watches, freezes, rows, goal>>
  BY DEF HandlePointerDone, Handled
<1>2. Working' /\ worker = "none" /\ worker' = "none" /\ ~ Awaited /\ process # None
  <2>1. Working' /\ worker = "none" /\ worker' = "none"
    BY <1>1, HandledKeeps DEF IInv
  <2>2. process # None
    BY <1>1 DEF IInv, Working
  <2> QED
    BY <2>1, <2>2 DEF Awaited
<1>3. Attachment' /\ Freezing' /\ Watching' /\ Scanned'
  BY <1>1, <1>2, AttachmentKept, FreezingKept, WatchingKept, ScannedKept DEF IInv, session
<1>4. rows \in Seq(Chains) /\ DOMAIN rows = 1..Len(rows)
      /\ goal' \in Cells \cup {None} /\ (goal' # None => goal'[1] = process)
  BY <1>1, <1>2 DEF IInv, Pointing
<1>5. ASSUME NEW i \in 1..Len(rows)
      PROVE  /\ c[i] \in Led \cup {None}
             /\ c[i] # None => c[i][2] = process /\ (engine = "up" => c[i][1] = rows[i])
  <2> DEFINE answer == Lookup(i, chains, resolved)
  <2>1. answer # None => answer \in Led /\ answer[2] = process /\ (engine = "up" => answer[1] = rows[i])
    BY <1>2, AnswerFits DEF IInv
  <2>2. c[i] = answer
    BY <1>2, <1>4
  <2> HIDE DEF answer, c
  <2> QED
    BY <2>1, <2>2
<1>6. c \in [1..Len(rows) -> Led \cup {None}]
  BY <1>4, <1>5
<1> HIDE DEF c
<1>7. Pointing'
  BY <1>1, <1>2, <1>4, <1>5, <1>6, ShownAnew
<1> QED
  BY <1>2, <1>3, <1>7 DEF IInv

(* The rows go; the bridge keeps its chains, which no row shows. *)
LEMMA ClearChainsKeeps == ASSUME IInv, ClearChains PROVE IInv'
<1>1. /\ busy = 0 /\ rows' = <<>> /\ cache' = <<>> /\ UNCHANGED <<threads, open>>
      /\ UNCHANGED <<engine, session, process, results, watches, freezes, goal>>
  BY DEF ClearChains, Idle
<1>2. Working' /\ Attachment' /\ Scanned' /\ Freezing' /\ Watching'
  BY <1>1, StillThere, ScannedKept, FreezingKept, WatchingKept DEF IInv, session, threads
<1>3. /\ chains' \in Seq(Chains)
      /\ goal' \in Cells \cup {None} /\ (process' # None /\ goal' # None => goal'[1] = process')
  BY <1>1 DEF IInv, Pointing, session
<1>4. Pointing'
  BY <1>1, <1>3, NoRows
<1> QED
  BY <1>2, <1>4 DEF IInv

(* A list pushed to the bridge comes back as what the bridge has, with its addresses. *)
LEMMA PushDoes ==
    ASSUME IInv, process # None, NEW list \in Seq(Chains), Push(list), UNCHANGED <<engine, process>>,
           goal' \in Cells \cup {None}, goal' # None => goal'[1] = process
    PROVE  Pointing' /\ resolved' \in BOOLEAN
<1>1. /\ chains' = (IF Up THEN list ELSE chains) /\ resolved' = (resolved \/ Up) /\ rows' = chains'
      /\ cache' = [i \in DOMAIN chains' |-> Lookup(i, chains', resolved')]
  BY DEF Push, SetChains
<1>2. chains' \in Seq(Chains) /\ resolved' \in BOOLEAN
  BY <1>1 DEF IInv, Pointing, Attachment, Up
<1>3. target = process /\ engine \in {"up", "dead"}
  BY ProcessIs DEF IInv
<1>4. DOMAIN chains' = 1..Len(chains') /\ Len(chains') \in Nat
  BY <1>2
<1>5. ASSUME NEW i \in 1..Len(chains')
      PROVE  /\ cache'[i] \in Led \cup {None}
             /\ cache'[i] # None => cache'[i][1] = chains'[i] /\ cache'[i][2] = process
  <2> DEFINE answer == Lookup(i, chains', resolved')
  <2>1. i \in Nat \ {0} /\ cache'[i] = answer
    BY <1>1, <1>4
  <2>2. answer # None => answer \in Led /\ answer[1] = chains'[i] /\ answer[2] = target
    BY <1>2, <2>1, LookupIs DEF IInv
  <2> HIDE DEF answer
  <2> QED
    BY <1>3, <2>1, <2>2
<1>6. cache' \in [1..Len(chains') -> Led \cup {None}]
  BY <1>1, <1>4, <1>5
<1>7. rows' = chains' /\ engine' \in {"up", "dead"} /\ process' = process
      /\ (process' # None /\ goal' # None => goal'[1] = process')
  BY <1>1, <1>3
<1>8. Pointing'
  <2> DEFINE c == cache'
  <2>1. /\ c \in [1..Len(rows') -> Led \cup {None}]
        /\ \A i \in 1..Len(rows') : c[i] # None =>
             /\ engine' = "dead" \/ (engine' = "up" /\ c[i][1] = rows'[i])
             /\ process' # None => c[i][2] = process'
    BY <1>5, <1>6, <1>7
  <2>2. rows' \in Seq(Chains) /\ Len(rows') <= Len(chains') /\ \A i \in 1..Len(rows') : rows'[i] = chains'[i]
    BY <1>2, <1>4, <1>7
  <2>3. cache' = c
    OBVIOUS
  <2> HIDE DEF c
  <2> QED
    BY <1>2, <1>7, <2>1, <2>2, <2>3, RowsShow
<1> QED
  BY <1>2, <1>8

(* What the vote on pushed rows elects. *)
LEMMA Elected ==
    ASSUME IInv, process # None, NEW list \in Seq(Chains), Push(list), UNCHANGED <<engine, process>>
    PROVE  Consensus(cache') # None => Consensus(cache') \in Cells /\ Consensus(cache')[1] = process
<1>1. /\ chains' = (IF Up THEN list ELSE chains) /\ resolved' = (resolved \/ Up)
      /\ cache' = [i \in DOMAIN chains' |-> Lookup(i, chains', resolved')]
  BY DEF Push, SetChains
<1>2. chains' \in Seq(Chains) /\ resolved' \in BOOLEAN
  BY <1>1 DEF IInv, Pointing, Attachment, Up
<1>3. target = process /\ process \in Processes
  BY ProcessIs DEF IInv
<1>4. DOMAIN chains' = 1..Len(chains') /\ Len(chains') \in Nat
  BY <1>2
<1>5. ASSUME NEW i \in 1..Len(chains') PROVE Lookup(i, chains', resolved') \in Led \cup {None}
  <2>1. i \in Nat \ {0}
    OBVIOUS
  <2> QED
    BY <1>2, <2>1, LookupIs DEF IInv
<1>6. cache' \in [1..Len(chains') -> Led \cup {None}]
  BY <1>1, <1>4, <1>5
<1>7. cache' \in Seq(Led \cup {None})
  BY <1>4, <1>6, FunctionsAreSequences
<1> QED
  BY <1>3, <1>7, ConsensusIs

(* A loaded list is shown, and pushed to the bridge if there is a process. *)
LEMMA LoadProfileKeeps == ASSUME IInv, NEW list \in Lists(Chains), LoadProfile(list) PROVE IInv'
<1>1. /\ busy = 0 /\ UNCHANGED <<threads, open>>
      /\ UNCHANGED <<engine, target, jobs, scan, process, results, watches, freezes>>
  BY DEF LoadProfile, Idle
<1>2. list \in Seq(Chains) /\ chains \in Seq(Chains) /\ resolved \in BOOLEAN
  BY NumbersAssumption, ListsAre DEF IInv, Pointing, Attachment
<1>3. Watching'
  BY <1>1, WatchingKept DEF IInv
<1>4. CASE process # None /\ Push(list) /\ goal' = Consensus(cache')
  <2>1. goal' \in Cells \cup {None} /\ (goal' # None => goal'[1] = process)
    BY <1>1, <1>2, <1>4, Elected
  <2>2. Pointing' /\ resolved' \in BOOLEAN
    BY <1>1, <1>2, <1>4, <2>1, PushDoes
  <2> QED
    BY <1>1, <1>3, <1>4, <2>2, OthersStay DEF IInv
<1>5. CASE /\ UNCHANGED <<chains, resolved>> /\ rows' = list /\ cache' = [i \in DOMAIN list |-> None]
           /\ goal' = None \/ UNCHANGED goal
           /\ process = None \/ ~ Up
  <2>1. goal' \in Cells \cup {None} /\ (process' # None /\ goal' # None => goal'[1] = process')
    BY <1>1, <1>5 DEF IInv, Pointing
  <2>2. cache' \in [1..Len(list) -> Led \cup {None}] /\ \A i \in 1..Len(list) : cache'[i] = None
    BY <1>2, <1>5, NothingShown
  <2>3. ~ (engine' = "up" /\ resolved')
    BY <1>1, <1>5 DEF IInv, Attachment, Up
  <2>4. Pointing'
    BY <1>2, <1>5, <2>1, <2>2, <2>3, RowsShow
  <2> QED
    BY <1>1, <1>2, <1>3, <1>5, <2>4, OthersStay DEF IInv
<1>6. CASE rows' = <<>> /\ cache' = <<>> /\ UNCHANGED <<chains, resolved, goal>>
  <2>1. goal' \in Cells \cup {None} /\ (process' # None /\ goal' # None => goal'[1] = process')
    BY <1>1, <1>6 DEF IInv, Pointing
  <2>2. Pointing'
    BY <1>2, <1>6, <2>1, NoRows
  <2> QED
    BY <1>1, <1>2, <1>3, <1>6, <2>2, OthersStay DEF IInv
<1> QED
  BY <1>4, <1>5, <1>6 DEF LoadProfile, PushFails

(* The address the rows agree on is of the process. *)
LEMMA AddProfileKeeps == ASSUME IInv, AddProfile PROVE IInv'
<1>1. /\ process # None /\ Push(rows) /\ UNCHANGED <<threads, open>>
      /\ UNCHANGED <<engine, target, jobs, scan, process, results, freezes>>
      /\ IF Consensus(cache') = None THEN UNCHANGED <<watches, goal>> ELSE AddPointee(Consensus(cache'))
  BY DEF AddProfile, Idle
<1>2. rows \in Seq(Chains)
  BY DEF IInv, Pointing
<1>3. Consensus(cache') # None => Consensus(cache') \in Cells /\ Consensus(cache')[1] = process
  BY <1>1, <1>2, Elected
<1>4. /\ Watching' /\ watches \subseteq watches'
      /\ goal' \in Cells \cup {None} /\ (goal' # None => goal'[1] = process)
  <2>1. CASE Consensus(cache') = None
    BY <1>1, <2>1, WatchingKept DEF IInv, Pointing
  <2>2. CASE Consensus(cache') # None
    <3> DEFINE cell == Consensus(cache')
    <3>1. cell \in Cells /\ cell[1] = process /\ AddPointee(cell)
      BY <1>1, <1>3, <2>2
    <3> HIDE DEF cell
    <3> QED
      BY <1>1, <3>1, AddPointeeKeeps DEF IInv
  <2> QED
    BY <2>1, <2>2
<1>5. Pointing' /\ resolved' \in BOOLEAN
  BY <1>1, <1>2, <1>4, PushDoes
<1> QED
  BY <1>1, <1>4, <1>5, OthersStay DEF IInv

(* The address of a row is of the process. *)
LEMMA AddChainKeeps == ASSUME IInv, NEW n \in DOMAIN rows, AddChain(n) PROVE IInv'
<1> DEFINE shown == Refreshed[n]
           cell == <<shown[2], Resolves[shown[2]][shown[1]]>>
           c == [cache EXCEPT ![n] = shown]
<1>1. /\ busy = 0 /\ process # None /\ UNCHANGED <<threads, open>>
      /\ shown # None /\ cache' = c /\ AddPointee(cell)
      /\ UNCHANGED <<engine, session, process, results, freezes, rows>>
  BY DEF AddChain, Idle
<1>2. Working' /\ Attachment' /\ Scanned'
  BY <1>1, StillThere, ScannedKept DEF IInv, session, threads
<1>3. ~ Awaited
  BY <1>1, NotAwaited DEF IInv
<1>4. /\ rows \in Seq(Chains) /\ cache \in Seq(Led \cup {None}) /\ Len(cache) = Len(rows)
      /\ \A i \in 1..Len(cache) : cache[i] # None => cache[i][2] = process
      /\ engine = "up" => \A i \in 1..Len(cache) : cache[i] # None => cache[i][1] = rows[i]
  BY <1>1 DEF IInv, Pointing
<1>5. n \in 1..Len(rows)
  BY <1>4
<1>6. shown \in Led /\ shown[2] = process /\ (engine = "up" => shown[1] = rows[n])
  BY <1>1, <1>3, <1>5, RefreshedIs DEF IInv
<1> HIDE DEF shown
<1>7. cell \in Cells /\ cell[1] = process
  BY <1>6, ResolvesAssumption DEF Led, Cells
<1> HIDE DEF cell
<1>8. /\ Watching' /\ watches \subseteq watches'
      /\ goal' \in Cells \cup {None} /\ (goal' # None => goal'[1] = process)
  BY <1>1, <1>7, AddPointeeKeeps DEF IInv
<1>9. Freezing'
  BY <1>1, <1>8, FreezingKept DEF IInv, session
<1>10. cache \in [1..Len(rows) -> Led \cup {None}]
  BY <1>4
<1>11. c \in [1..Len(rows) -> Led \cup {None}] /\ \A i \in 1..Len(rows) : c[i] = IF i = n THEN shown ELSE cache[i]
  BY <1>5, <1>6, <1>10
<1> HIDE DEF c
<1>12. \A i \in 1..Len(rows) : c[i] # None => c[i][2] = process /\ (engine = "up" => c[i][1] = rows[i])
  BY <1>4, <1>6, <1>11
<1>13. Pointing'
  BY <1>1, <1>3, <1>8, <1>11, <1>12, ShownAnew
<1> QED
  BY <1>2, <1>8, <1>9, <1>13 DEF IInv

-----------------------------------------------------------------------------
(* Every step keeps the invariant. *)
LEMMA Invariance == IInv /\ [Next]_vars => IInv'
<1> SUFFICES ASSUME IInv, [Next]_vars PROVE IInv'
  OBVIOUS
<1>1. CASE RefreshProcesses \/ Close \/ EngineDies \/ Timer
  BY <1>1, RefreshProcessesKeeps, CloseKeeps, EngineDiesKeeps, TimerKeeps
<1>2. ASSUME NEW p \in Processes, Attach(p) PROVE IInv'
  BY <1>2, AttachKeeps
<1>3. CASE StartFirst \/ StartNext \/ StartSearch \/ StartRescan
  <2>1. process # None /\ \E kind \in 1..4 : Begin(kind)
    BY <1>3 DEF StartFirst, StartNext, StartSearch, StartRescan
  <2> QED
    BY <2>1, BeginKeeps
<1>4. CASE NewScan \/ AddResult \/ ClearWatches \/ ClearChains \/ AddProfile
  BY <1>4, NewScanKeeps, AddResultKeeps, ClearWatchesKeeps, ClearChainsKeeps, AddProfileKeeps
<1>5. ASSUME NEW w \in watches, RemoveWatch(w) \/ TakeTarget(w) \/ WriteWatch(w) \/ ToggleFreeze(w) PROVE IInv'
  BY <1>5, RemoveWatchKeeps, TakeTargetKeeps, WriteOrToggleKeeps
<1>6. ASSUME NEW list \in Lists(Chains), LoadProfile(list) PROVE IInv'
  BY <1>6, LoadProfileKeeps
<1>7. ASSUME NEW i \in DOMAIN rows, AddChain(i) PROVE IInv'
  BY <1>7, AddChainKeeps
<1>8. CASE WorkerStep
  BY <1>8, AskFirstKeeps, AskNextKeeps, CopyResultsKeeps, AskPointersKeeps, CopyChainsKeeps DEF WorkerStep
<1>9. CASE HandleDone
  BY <1>9, HandleScanDoneKeeps, HandlePointerDoneKeeps DEF HandleDone
<1>10. CASE UNCHANGED vars
  <2>1. UNCHANGED <<engine, target, open, process, results, scan, watches, jobs, freezes, pointing, threads>>
    BY <1>10 DEF vars, session, pointing
  <2>2. Freezing' /\ Watching'
    BY <2>1, FreezingKept, WatchingKept DEF IInv
  <2> QED
    BY <2>1, <2>2, OthersKept DEF IInv
<1>11. UserStep => IInv'
  BY <1>1, <1>2, <1>3, <1>4, <1>5, <1>6, <1>7, Zenon DEF UserStep
<1> QED
  BY <1>1, <1>8, <1>9, <1>10, <1>11, Zenon DEF Next

-----------------------------------------------------------------------------
(* The theorems.                                                           *)

(* The invariant holds in every reachable state. *)
THEOREM Inductive == Spec => []IInv
BY Initially, Invariance, PTL DEF Spec

(* Every variable of the window, of the bridge and of the engine's freezes stays in its type: *)
(* lists within their limits, one freeze for an address, a worker or a message when busy.     *)
THEOREM TypeCorrect == Spec => []TypeOK
<1>1. IInv => TypeOK
  <2> SUFFICES ASSUME IInv PROVE TypeOK
    OBVIOUS
  <2>1. /\ engine \in {"none", "up", "dead"} /\ open \in BOOLEAN /\ resolved \in BOOLEAN
        /\ target \in Processes \cup {None} /\ process \in Processes \cup {None}
    BY DEF IInv, Attachment
  <2>2. /\ \A j \in jobs : j.id \in Numbers /\ j.cell \in Cells
        /\ Cardinality(freezes) <= MaxFreezes /\ \A f, g \in freezes : f.cell = g.cell => f = g
    BY DEF IInv, Freezing, Job
  <2>3. \A s \in {scan, results} : s # None => s \in Seq(Cells)
    BY DEF IInv, Scanned, CellsOf
  <2>4. watches \subseteq Cells /\ Cardinality(watches) <= MaxWatches
    BY DEF IInv, Watching
  <2>5. /\ chains \in Seq(Chains) /\ rows \in Seq(Chains) /\ Len(cache) = Len(rows)
        /\ goal \in Cells \cup {None}
        /\ \A i \in DOMAIN cache : cache[i] # None => cache[i] \in Chains \X Processes
    BY DEF IInv, Pointing, Led
  <2>6. /\ busy \in 0..2 /\ (busy = 0) = (task = 0) /\ task \in 0..4
        /\ worker \in {"none", "ask", "clear", "copy"} /\ posted \in BOOLEAN
        /\ (worker = "none") = (busy = 0 \/ posted)
    BY DEF IInv, Working
  <2> QED
    BY <2>1, <2>2, <2>3, <2>4, <2>5, <2>6 DEF TypeOK
<1> QED
  BY <1>1, Inductive, PTL

(* Whatever the window lists, freezes or could write to is of the attached process. *)
THEOREM AllBelongs == Spec => []Belongs
<1>1. IInv => Belongs
  <2> SUFFICES ASSUME IInv, process # None
               PROVE  /\ target = process
                      /\ results # None => \A i \in DOMAIN results : results[i][1] = process
                      /\ \A w \in watches : w[1] = process
                      /\ \A f \in freezes : f.cell[1] = process
                      /\ goal # None => goal[1] = process
                      /\ \A i \in DOMAIN cache : cache[i] # None => cache[i][2] = process
    BY DEF Belongs
  <2>1. target = process /\ (\A w \in watches : w[1] = process) /\ (\A f \in freezes : f.cell[1] = process)
    BY ProcessIs DEF IInv, Watching, Freezing
  <2>2. results # None => \A i \in DOMAIN results : results[i][1] = process
    BY DEF IInv, Scanned, CellsOf
  <2>3. /\ goal # None => goal[1] = process
        /\ \A i \in DOMAIN cache : cache[i] # None => cache[i][2] = process
    BY DEF IInv, Pointing
  <2> QED
    BY <2>1, <2>2, <2>3
<1> QED
  BY <1>1, Inductive, PTL

(* While the engine lives, the freezes shown are its jobs, and each has a row to undo it. *)
THEOREM FrozenHeld == Spec => []FrozenIsHeld
<1>1. IInv => FrozenIsHeld
  BY DEF IInv, Freezing, FrozenIsHeld, Up
<1> QED
  BY <1>1, Inductive, PTL

(* While the engine lives, the address beside a chain is where that chain leads. *)
THEOREM RowsRight == Spec => []RowsMatch
<1>1. IInv => RowsMatch
  BY DEF IInv, Pointing, RowsMatch, Up
<1> QED
  BY <1>1, Inductive, PTL

-----------------------------------------------------------------------------
(* The results shown.                                                      *)

\* A first scan begins where no results are shown; a copy is of the engine's scan from its
\* beginning; and where none is under way, the results are those of the engine's scan.
Showing ==
    /\ engine = "none" => results = None
    /\ Asks(1) => results = None
    /\ Up /\ Scanning /\ worker = "copy" =>
         /\ results \in Seq(Cells) /\ Len(results) <= ScanLength
         /\ \A i \in 1..Len(results) : results[i] = scan[i]
    /\ Up /\ ~ Scanning /\ results # None /\ results # <<>> => scan = results

(* What leaves scan and results alone, and does not begin or end the work on a scan. *)
LEMMA ShowingKept ==
    ASSUME Showing, UNCHANGED <<engine, scan, results>>,
           UNCHANGED <<worker, task>> \/ (~ Scanning /\ ~ Scanning' /\ ~ Asks(1)')
    PROVE  Showing'
<1> USE DEF Showing
<1>1. Up' = Up /\ ScanLength' = ScanLength /\ Cells' = Cells
  BY DEF Up, ScanLength, Cells
<1>2. CASE UNCHANGED <<worker, task>>
  <2>1. Scanning' = Scanning /\ Asks(1)' = Asks(1)
    BY <1>2 DEF Scanning, Asks
  <2> QED
    BY <1>1, <1>2, <2>1
<1>3. CASE ~ Scanning /\ ~ Scanning' /\ ~ Asks(1)'
  BY <1>1, <1>3
<1> QED
  BY <1>2, <1>3

(* Where no results are shown, none can be the wrong ones. *)
LEMMA NoneShown ==
    ASSUME results' = None, ~ (Scanning /\ worker = "copy")'
    PROVE  Showing'
BY DEF Showing

(* A copy adds the next of the results the engine has. *)
LEMMA CopyShows == ASSUME IInv, Showing, CopyResults PROVE Showing'
<1>1. /\ worker \in {"clear", "copy"} /\ task \in {1, 2} /\ Scanning
      /\ UNCHANGED <<engine, scan, open, process>>
  BY DEF CopyResults, Scanning, session
<1>2. process # None /\ target = process /\ process \in Processes
  BY <1>1, WorkerHasProcess
<1>3. engine # "none" /\ engine' # "none" /\ Up' = Up /\ ScanLength' = ScanLength /\ Cells' = Cells
  BY <1>1, <1>2, ProcessIs DEF IInv, Up, ScanLength, Cells
<1>4. ScanLength \in Nat
  BY DEF ScanLength, IInv, Scanned, CellsOf
<1>5. CASE worker = "clear" /\ results' = <<>> /\ Goes("copy")
  <2>1. worker' = "copy" /\ task' = task
    BY <1>5 DEF Goes
  <2>2. Scanning' /\ ~ Asks(1)'
    BY <1>1, <2>1 DEF Scanning, Asks
  <2>3. <<>> \in Seq(Cells) /\ Len(<<>>) = 0
    OBVIOUS
  <2> QED
    BY <1>3, <1>4, <1>5, <2>2, <2>3 DEF Showing
<1>6. CASE /\ worker = "copy" /\ Len(results) < ScanLength
           /\ results' = Append(results, scan[Len(results) + 1]) /\ UNCHANGED <<worker, busy, task, posted>>
  <2>1. Scanning' /\ ~ Asks(1)'
    BY <1>1, <1>6 DEF Scanning, Asks
  <2>2. SUFFICES ASSUME Up
                 PROVE  /\ results' \in Seq(Cells) /\ Len(results') <= ScanLength
                        /\ \A i \in 1..Len(results') : results'[i] = scan[i]
    BY <1>1, <1>3, <2>1 DEF Showing
  <2>3. /\ results \in Seq(Cells) /\ Len(results) < ScanLength
        /\ \A i \in 1..Len(results) : results[i] = scan[i]
    BY <1>1, <1>6, <2>2 DEF Showing
  <2>4. scan # None /\ ScanLength = Len(scan) /\ scan \in Seq(Cells)
    BY <2>3 DEF ScanLength, IInv, Scanned, CellsOf
  <2> DEFINE cell == scan[Len(results) + 1]
  <2>5. cell \in Cells
    BY <2>3, <2>4
  <2> HIDE DEF cell
  <2>6. results' = Append(results, cell)
    BY <1>6 DEF cell
  <2>7. /\ results' \in Seq(Cells) /\ Len(results') = Len(results) + 1
        /\ \A i \in 1..Len(results) : results'[i] = results[i]
        /\ results'[Len(results) + 1] = cell
    BY <2>3, <2>5, <2>6
  <2>8. \A i \in 1..Len(results') : results'[i] = scan[i]
    BY <2>3, <2>7 DEF cell
  <2> QED
    BY <1>4, <2>3, <2>7, <2>8
<1>7. CASE worker = "copy" /\ (Len(results) = ScanLength \/ engine = "dead") /\ UNCHANGED results /\ Finished
  <2>1. ~ Scanning' /\ ~ Asks(1)'
    BY <1>7 DEF Finished, Scanning, Asks
  <2>2. SUFFICES ASSUME Up, results # None, results # <<>>
                 PROVE  scan = results
    BY <1>1, <1>3, <1>7, <2>1 DEF Showing
  <2>3. /\ results \in Seq(Cells) /\ Len(results) = ScanLength
        /\ \A i \in 1..Len(results) : results[i] = scan[i]
    BY <1>1, <1>7, <2>2 DEF Showing, Up
  <2>4. Len(results) # 0
    BY <2>2, <2>3
  <2>5. scan # None /\ Len(results) = Len(scan) /\ scan \in Seq(Cells)
    BY <2>3, <2>4 DEF ScanLength, IInv, Scanned, CellsOf
  <2> QED
    BY <2>3, <2>5
<1> QED
  BY <1>5, <1>6, <1>7 DEF CopyResults

(* Every step keeps what is shown the engine's. *)
LEMMA ShowingStep == IInv /\ Showing /\ [Next]_vars => Showing'
<1> SUFFICES ASSUME IInv, Showing, [Next]_vars PROVE Showing'
  OBVIOUS
<1>1. busy = 0 \/ posted => ~ Scanning /\ ~ Asks(1)
  BY DEF IInv, Working, Scanning, Asks
<1>2. ASSUME UNCHANGED <<engine, scan, results, threads>> PROVE Showing'
  BY <1>2, ShowingKept DEF threads
<1>3. CASE RefreshProcesses
  <2>1. results' = None /\ busy = 0 /\ UNCHANGED threads
    BY <1>3 DEF RefreshProcesses, Idle, Showing
  <2>2. ~ Scanning'
    BY <1>1, <2>1 DEF threads, Scanning
  <2> QED
    BY <2>1, <2>2, NoneShown
<1>4. CASE EngineDies
  <2>1. engine' = "dead" /\ UNCHANGED <<results, worker, task>>
    BY <1>4 DEF EngineDies, threads
  <2> QED
    BY <2>1 DEF Showing, Up, Asks
<1>5. ASSUME (\E p \in Processes : Attach(p)) \/ Close \/ NewScan PROVE Showing'
  <2>1. results' = None /\ busy = 0 /\ UNCHANGED threads
    BY <1>5 DEF Attach, CloseTarget, Close, NewScan, Idle
  <2>2. ~ Scanning'
    BY <1>1, <2>1 DEF threads, Scanning
  <2> QED
    BY <2>1, <2>2, NoneShown
<1>6. CASE StartFirst
  <2>1. results' = None /\ worker' = "ask"
    BY <1>6 DEF StartFirst, Begin
  <2> QED
    BY <2>1, NoneShown DEF Scanning
<1>7. ASSUME NEW kind \in 2..4, Begin(kind) PROVE Showing'
  <2>1. busy = 0 /\ worker' = "ask" /\ task' = kind /\ UNCHANGED <<engine, scan, results>>
    BY <1>7 DEF Begin, session
  <2>2. ~ Scanning /\ ~ Scanning' /\ ~ Asks(1)'
    BY <1>1, <2>1 DEF Scanning, Asks
  <2> QED
    BY <2>1, <2>2, ShowingKept
<1>8. CASE AskFirst
  <2>1. Asks(1) /\ results' = results /\ worker' \in {"none", "clear"}
    BY <1>8 DEF AskFirst, Finished, Goes
  <2> QED
    BY <2>1, NoneShown DEF Showing, Scanning
<1>9. CASE AskNext
  <2>1. Asks(2) /\ UNCHANGED <<engine, results>> /\ worker' \in {"none", "clear"} /\ task' = task
    BY <1>9 DEF AskNext, Finished, Goes
  <2>2. ~ Scanning /\ ~ Asks(1)' /\ (worker' = "clear" => Scanning') /\ (worker' = "none" => ~ Scanning')
    BY <2>1 DEF Asks, Scanning
  <2>3. worker' = "none" => UNCHANGED scan
    BY <1>9 DEF AskNext, Finished, Goes
  <2> QED
    BY <2>1, <2>2, <2>3 DEF Showing, Up
<1>10. CASE CopyResults
  BY <1>10, CopyShows
<1>11. CASE AskPointers \/ CopyChains
  <2>1. /\ task \in {3, 4} /\ task' = task /\ UNCHANGED <<engine, scan, results>>
    BY <1>11 DEF AskPointers, CopyChains, Asks, Finished, Goes, session
  <2>2. ~ Scanning /\ ~ Scanning' /\ ~ Asks(1)'
    BY <2>1 DEF Scanning, Asks
  <2> QED
    BY <2>1, <2>2, ShowingKept
<1>12. CASE HandleDone
  <2>1. posted /\ worker' = worker /\ UNCHANGED <<engine, scan, results>>
    BY <1>12 DEF HandleDone, HandleScanDone, HandlePointerDone, Handled, session
  <2>2. worker = "none"
    BY <2>1 DEF IInv, Working
  <2>3. ~ Scanning /\ ~ Scanning' /\ ~ Asks(1)'
    BY <2>1, <2>2 DEF Scanning, Asks
  <2> QED
    BY <2>1, <2>3, ShowingKept
<1>13. ASSUME \/ Timer \/ AddResult \/ ClearWatches \/ ClearChains \/ AddProfile
              \/ \E w \in watches : RemoveWatch(w) \/ TakeTarget(w) \/ WriteWatch(w) \/ ToggleFreeze(w)
              \/ \E list \in Lists(Chains) : LoadProfile(list)
              \/ \E i \in DOMAIN rows : AddChain(i)
              \/ UNCHANGED vars
       PROVE  Showing'
  <2>1. UNCHANGED <<engine, scan, results, threads>>
    <3>1. CASE Timer \/ AddResult \/ ClearWatches \/ ClearChains \/ AddProfile
      BY <3>1 DEF Timer, AddResult, ClearWatches, ClearChains, AddProfile, Idle, session
    <3>2. ASSUME NEW w \in watches, RemoveWatch(w) \/ TakeTarget(w) \/ WriteWatch(w) \/ ToggleFreeze(w)
          PROVE  UNCHANGED <<engine, scan, results, threads>>
      BY <3>2 DEF RemoveWatch, TakeTarget, WriteWatch, ToggleFreeze, FreezeAgain, Up, Idle, session
    <3>3. ASSUME NEW list \in Lists(Chains), LoadProfile(list)
          PROVE  UNCHANGED <<engine, scan, results, threads>>
      BY <3>3 DEF LoadProfile, Idle
    <3>4. ASSUME NEW i \in DOMAIN rows, AddChain(i) PROVE UNCHANGED <<engine, scan, results, threads>>
      BY <3>4 DEF AddChain, Idle, session
    <3>5. CASE UNCHANGED vars
      BY <3>5 DEF vars, session
    <3> QED
      BY <1>13, <3>1, <3>2, <3>3, <3>4, <3>5
  <2> QED
    BY <1>2, <2>1
<1>14. CASE StartNext \/ StartSearch \/ StartRescan
  BY <1>7, <1>14 DEF StartNext, StartSearch, StartRescan
<1>15. UserStep => Showing'
  BY <1>3, <1>5, <1>6, <1>13, <1>14, Zenon DEF UserStep
<1>16. WorkerStep => Showing'
  BY <1>8, <1>9, <1>10, <1>11, Zenon DEF WorkerStep
<1> QED
  BY <1>4, <1>12, <1>13, <1>15, <1>16, Zenon DEF Next

(* While the engine lives and no worker runs, the results shown are those of the scan that *)
(* the next refinement refines.                                                            *)
THEOREM RefinesShown == Spec => []RefinesWhatItShows
<1>1. Init => Showing
  BY DEF Init, Showing, Asks, Scanning
<1>2. IInv /\ Showing => RefinesWhatItShows
  BY DEF IInv, Working, Showing, Scanning, RefinesWhatItShows
<1> QED
  BY <1>1, <1>2, Inductive, ShowingStep, PTL DEF Spec
=============================================================================
