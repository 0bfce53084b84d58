---------------------------- MODULE FreezeManager ----------------------------
(***************************************************************************)
(* src/src/FreezeManager.cpp: the jobs that keep rewriting frozen cells of *)
(* the attached process.  One mutex protects everything; a worker thread   *)
(* sleeps on a condition variable and holds the mutex through a whole      *)
(* batch of WriteProcessMemory calls; the other threads call the methods.  *)
(*                                                                         *)
(* A method is two steps: Call (it now wants the mutex) and its critical   *)
(* section.  The critical sections never block, so each is one action      *)
(* guarded by LockFree.  The worker's critical section does block (in the  *)
(* write), so it is cut there.  steady_clock is a countdown to the due     *)
(* time of each job; the write, failure and last-error counters shown by   *)
(* the lists are left out, no behaviour reads them.                        *)
(***************************************************************************)
EXTENDS Integers, FiniteSets

CONSTANTS Callers,      \* threads that call the methods
          Targets,      \* processes a handle can stand for
          Addresses,
          Values,
          Requested,    \* rewrite periods callers ask for
          MinInterval,
          MaxInterval,
          WriteTicks,   \* longest WriteProcessMemory call, in clock ticks
          MaxId,        \* bound: jobs created in one behaviour
          None

ASSUME IntervalAssumption ==
    /\ MinInterval \in Nat \ {0}
    /\ MaxInterval \in Nat
    /\ MinInterval <= MaxInterval
    /\ Requested \subseteq Nat

ASSUME BoundAssumption == MaxId \in Nat /\ WriteTicks \in Nat

ASSUME NoneAssumption == None \notin Targets /\ None \notin [handle : Targets, id : Nat]

VARIABLES process,   \* the duplicated handle: its process, or None
          nextId,
          entries,   \* id -> job, the vector in id order
          stopping,
          worker,    \* where the worker thread is
          sleep,     \* ticks left of wait_until
          todo,      \* due ids of the batch still to be written
          inflight,  \* handle and id of the WriteProcessMemory call under way
          cost,      \* ticks that call has taken
          elapsed,   \* ticks since the batch read its clock
          pc,        \* where each caller is
          written    \* history: the last write that reached a process

vars == <<process, nextId, entries, stopping, worker, sleep, todo, inflight, cost,
          elapsed, pc, written>>
batchVars == <<todo, inflight, cost, elapsed, written>>
workerVars == <<sleep, batchVars>>

Ids == 1..MaxId
\* Mutant: the upper bound of the period is forgotten.
ClampNoCap(ms) == IF ms < MinInterval THEN MinInterval ELSE ms
Clamp(ms) == IF ms < MinInterval THEN MinInterval
             ELSE IF ms > MaxInterval THEN MaxInterval ELSE ms
Intervals == {Clamp(ms) : ms \in Requested}
Entry == [address : Addresses, value : Values, interval : Intervals, due : 0..MaxInterval]
Written == [target : Targets, address : Addresses, value : Values]

NoEntries == [i \in {} |-> None]
Live == DOMAIN entries
SmallestOf(S) == CHOOSE i \in S : \A j \in S : i <= j
CountDown(n) == IF n > 0 THEN n - 1 ELSE 0

-----------------------------------------------------------------------------
(* The mutex and the condition variable.                                   *)

Holding == {"loop", "batch", "writing"}   \* the worker's places that own the mutex
\* Mutant: the worker releases the mutex around WriteProcessMemory.
LockFreeDuringWrite == worker \notin {"loop", "batch"}
LockFree == worker \notin Holding

\* Mutants: the notification reaches only one of the two waits of the loop.
NotifyOnlyIdle ==
    /\ worker' = IF worker = "idle" THEN "ready" ELSE worker
    /\ sleep' = sleep
NotifyOnlyTimed ==
    /\ worker' = IF worker = "timed" THEN "ready" ELSE worker
    /\ sleep' = 0
\* cv_.notify_all(): a worker asleep on the condition variable becomes runnable.
NotifyAll ==
    /\ worker' = IF worker \in {"idle", "timed"} THEN "ready" ELSE worker
    /\ sleep' = 0

-----------------------------------------------------------------------------
(* The methods.                                                            *)

Call(c) ==
    /\ pc[c] = "out" /\ ~stopping
    /\ pc' = [pc EXCEPT ![c] = "blocked"]
    /\ UNCHANGED <<process, nextId, entries, stopping, worker, workerVars>>

Enter(c) ==
    /\ pc[c] = "blocked" /\ LockFree /\ ~stopping
    /\ pc' = [pc EXCEPT ![c] = "out"]

\* t = None is a null handle; DuplicateHandle may refuse, which leaves no process.
SetProcess(c, t) ==
    /\ Enter(c)
    /\ entries' = NoEntries
    /\ process' \in {t, None}
    /\ NotifyAll
    /\ UNCHANGED <<nextId, stopping, batchVars>>

CanAdd(a) == process # None /\ \A i \in Live : entries[i].address # a

\* Mutant: the id is the position in the vector.
AddByPosition(c, a, v, ms) ==
    /\ Enter(c)
    /\ CanAdd(a)
    /\ nextId <= MaxId
    /\ LET id == Cardinality(Live) + 1 IN
         /\ nextId' = IF id = nextId THEN nextId + 1 ELSE nextId
         /\ entries' = [i \in Live \cup {id} |->
                          IF i = id
                          THEN [address |-> a, value |-> v, interval |-> Clamp(ms), due |-> 0]
                          ELSE entries[i]]
    /\ NotifyAll
    /\ UNCHANGED <<process, stopping, batchVars>>

Add(c, a, v, ms) ==
    /\ Enter(c)
    /\ CanAdd(a)
    /\ nextId <= MaxId
    /\ nextId' = nextId + 1
    /\ entries' = [i \in Live \cup {nextId} |->
                     IF i = nextId
                     THEN [address |-> a, value |-> v, interval |-> Clamp(ms), due |-> 0]
                     ELSE entries[i]]
    /\ NotifyAll
    /\ UNCHANGED <<process, stopping, batchVars>>

\* add() that finds no process or a job on that cell returns without a notify.
AddRefused(c, a) ==
    /\ Enter(c)
    /\ ~CanAdd(a)
    /\ UNCHANGED <<process, nextId, entries, stopping, worker, workerVars>>

Without(gone) == [i \in Live \ gone |-> entries[i]]

Remove(c, id) ==
    /\ Enter(c)
    /\ entries' = Without({id})
    /\ NotifyAll
    /\ UNCHANGED <<process, nextId, stopping, batchVars>>

Clear(c) ==
    /\ Enter(c)
    /\ entries' = NoEntries
    /\ NotifyAll
    /\ UNCHANGED <<process, nextId, stopping, batchVars>>

\* list() and size() copy under the mutex.
Read(c) ==
    /\ Enter(c)
    /\ UNCHANGED <<process, nextId, entries, stopping, worker, workerVars>>

\* Mutant: the destructor does not notify.
DestroySilently(c) ==
    /\ pc[c] = "blocked" /\ LockFree /\ ~stopping
    /\ \A d \in Callers \ {c} : pc[d] = "out"
    /\ pc' = [pc EXCEPT ![c] = "join"]
    /\ stopping' = TRUE
    /\ entries' = NoEntries
    /\ UNCHANGED <<process, nextId, worker, sleep, batchVars>>

\* The destructor, which C++ lets run only when no other call is under way.
Destroy(c) ==
    /\ pc[c] = "blocked" /\ LockFree /\ ~stopping
    /\ \A d \in Callers \ {c} : pc[d] = "out"
    /\ pc' = [pc EXCEPT ![c] = "join"]
    /\ stopping' = TRUE
    /\ entries' = NoEntries
    /\ NotifyAll
    /\ UNCHANGED <<process, nextId, batchVars>>

Join(c) ==
    /\ pc[c] = "join" /\ worker = "done"
    /\ pc' = [pc EXCEPT ![c] = "destroyed"]
    /\ process' = None
    /\ UNCHANGED <<nextId, entries, stopping, worker, workerVars>>

-----------------------------------------------------------------------------
(* The worker.                                                             *)

DueNow == {i \in Live : entries[i].due = 0}
HasWork == process # None /\ Live # {}
NextDue == SmallestOf({entries[i].due : i \in Live})

\* The head of the loop, reached with the mutex held ("loop") or after waking up.
AtLoopHead == worker = "loop" \/ worker = "ready"

Stop ==
    /\ AtLoopHead /\ stopping
    /\ worker' = "done"
    /\ UNCHANGED <<process, nextId, entries, stopping, pc, workerVars>>

WaitForWork ==
    /\ AtLoopHead /\ ~stopping /\ ~HasWork
    /\ worker' = "idle"
    /\ UNCHANGED <<process, nextId, entries, stopping, pc, workerVars>>

WaitUntilDue ==
    /\ AtLoopHead /\ ~stopping /\ HasWork /\ DueNow = {}
    /\ worker' = "timed"
    /\ sleep' = NextDue
    /\ UNCHANGED <<process, nextId, entries, stopping, pc, todo, inflight, cost, elapsed, written>>

StartBatch ==
    /\ AtLoopHead /\ ~stopping /\ HasWork /\ DueNow # {}
    /\ worker' = "batch"
    /\ todo' = DueNow
    /\ UNCHANGED <<process, nextId, entries, stopping, pc, sleep, inflight, cost, elapsed, written>>

BeginWrite ==
    /\ worker = "batch"
    /\ worker' = "writing"
    /\ inflight' = [handle |-> process, id |-> SmallestOf(todo)]
    /\ UNCHANGED <<process, nextId, entries, stopping, pc, sleep, todo, cost, elapsed, written>>

\* Mutant: the job is due again at once.
RescheduledNow(entry) == [entry EXCEPT !.due = 0]

\* The next due time counts from the clock the batch read before it began.
Rescheduled(entry) ==
    [entry EXCEPT !.due = IF elapsed < entry.interval THEN entry.interval - elapsed ELSE 0]

EndWrite(ok) ==
    /\ worker = "writing"
    /\ LET i == inflight.id IN
         /\ written' = IF ok THEN [target  |-> inflight.handle,
                                   address |-> entries[i].address,
                                   value   |-> entries[i].value]
                       ELSE written
         /\ entries' = [entries EXCEPT ![i] = Rescheduled(@)]
         /\ todo' = todo \ {i}
         /\ worker' = IF todo = {i} THEN "loop" ELSE "batch"
         /\ elapsed' = IF todo = {i} THEN 0 ELSE elapsed
    /\ inflight' = None
    /\ cost' = 0
    /\ UNCHANGED <<process, nextId, stopping, pc, sleep>>

\* A wait ends when its time is up, or spuriously at any moment.
WakeUp ==
    /\ worker \in {"idle", "timed"}
    /\ worker' = "ready"
    /\ sleep' = 0
    /\ UNCHANGED <<process, nextId, entries, stopping, pc, batchVars>>

TimeIsUp == worker = "timed" /\ sleep = 0 /\ WakeUp

\* The clock.  Only waiting and writing take time; a write takes at most WriteTicks.
Tick ==
    /\ LockFree \/ (worker = "writing" /\ cost < WriteTicks)
    /\ entries' = [i \in Live |-> [entries[i] EXCEPT !.due = CountDown(@)]]
    /\ sleep' = IF worker = "timed" THEN CountDown(sleep) ELSE sleep
    /\ cost' = IF worker = "writing" THEN cost + 1 ELSE cost
    /\ elapsed' = IF worker = "writing" THEN elapsed + 1 ELSE elapsed
    /\ UNCHANGED <<process, nextId, stopping, worker, todo, inflight, pc, written>>

\* The manager is gone; nothing is left to do.
Gone ==
    /\ \E c \in Callers : pc[c] = "destroyed"
    /\ UNCHANGED vars

-----------------------------------------------------------------------------
Init ==
    /\ process = None /\ nextId = 1 /\ entries = NoEntries /\ stopping = FALSE
    /\ worker = "ready" /\ sleep = 0 /\ todo = {} /\ inflight = None
    /\ cost = 0 /\ elapsed = 0
    /\ pc = [c \in Callers |-> "out"]
    /\ written = None

Critical(c) ==
    \/ \E t \in Targets \cup {None} : SetProcess(c, t)
    \/ \E a \in Addresses, v \in Values, ms \in Requested : Add(c, a, v, ms)
    \/ \E a \in Addresses : AddRefused(c, a)
    \/ \E id \in Ids : Remove(c, id)
    \/ Clear(c)
    \/ Read(c)
    \/ Destroy(c)

LoopHead == Stop \/ WaitForWork \/ WaitUntilDue \/ StartBatch
WriteStep == BeginWrite \/ \E ok \in BOOLEAN : EndWrite(ok)

Next ==
    \/ \E c \in Callers : Call(c) \/ Critical(c) \/ Join(c)
    \/ LoopHead
    \/ WriteStep
    \/ WakeUp
    \/ Tick
    \/ Gone

\* The scheduler runs the worker, time passes, a timed wait ends, and a caller that
\* finds the mutex free again and again gets it.  Nobody has to call or to destroy.
Fairness ==
    /\ WF_vars(LoopHead) /\ WF_vars(WriteStep) /\ WF_vars(TimeIsUp) /\ WF_vars(Tick)
    /\ \A c \in Callers : SF_vars(Critical(c)) /\ WF_vars(Join(c))

Spec == Init /\ [][Next]_vars
FairSpec == Spec /\ Fairness

-----------------------------------------------------------------------------
(* Properties.                                                             *)

(* Every variable stays within its type.  The module's one type invariant. *)
TypeOK ==
    /\ process \in Targets \cup {None}
    /\ nextId \in 1..(MaxId + 1)
    /\ Live \subseteq 1..(nextId - 1)
    /\ entries \in [Live -> Entry]
    /\ stopping \in BOOLEAN
    /\ worker \in {"ready", "idle", "timed", "loop", "batch", "writing", "done"}
    /\ sleep \in 0..MaxInterval
    /\ todo \subseteq Ids
    /\ inflight \in [handle : Targets, id : Ids] \cup {None}
    /\ cost \in Nat
    /\ elapsed \in Nat
    /\ pc \in [Callers -> {"out", "blocked", "join", "destroyed"}]
    /\ written \in Written \cup {None}

(* While WriteProcessMemory runs, the handle it was given is the open one and its    *)
(* job still exists: no setProcess, remove or clear slips between the moment the     *)
(* worker picks a job and the end of the write (the comment at workerLoop's write).  *)
WriteIsBacked ==
    worker = "writing" =>
        /\ inflight # None
        /\ inflight.handle = process
        /\ inflight.id \in Live

(* No wake-up is lost.  The worker sleeps without a timer only when there is nothing *)
(* to write, with a timer never beyond the earliest due job, and never once the      *)
(* destructor has asked it to stop.                                                  *)
NoLostWakeup ==
    /\ worker = "idle" => ~stopping /\ ~HasWork
    /\ worker = "timed" => ~stopping /\ \A i \in Live : sleep <= entries[i].due

(* Two jobs never fight over one cell. *)
OneJobPerCell ==
    \A i, j \in Live : entries[i].address = entries[j].address => i = j

(* No job outlives its process: without a handle, and after the destructor began,    *)
(* there are none.                                                                   *)
JobsNeedAProcess == (process = None \/ stopping) => Live = {}

(* The manager implements the lock-free promise: whatever the threads interleave, a  *)
(* write that reaches a process is that of a job existing at that moment, in the     *)
(* process bound at that moment, and a job never changes while it exists.            *)
Promise == INSTANCE FreezePromise WITH
    bound  <- process,
    issued <- 1..(nextId - 1),
    frozen <- [i \in Live |-> [address  |-> entries[i].address,
                               value    |-> entries[i].value,
                               interval |-> entries[i].interval]]

KeepsPromise == Promise!PSpec

(* Every job that stays is written again and again (or at least attempted). *)
JobsKeepBeingWritten ==
    \A i \in Ids : (i \in Live) ~> (i \notin Live \/ (worker = "writing" /\ inflight.id = i))

(* Every method call gets the mutex and returns: the worker, which keeps the mutex   *)
(* through each batch and into the next when that is due already, sleeps in between. *)
CallsReturn == \A c \in Callers : (pc[c] = "blocked") ~> (pc[c] # "blocked")

(* The destructor returns: the worker sees stopping_ wherever it was. *)
DestructorReturns == stopping ~> (\E c \in Callers : pc[c] = "destroyed")
=============================================================================
