------------------------- MODULE FreezeManagerProofs -------------------------
(***************************************************************************)
(* What TLAPS proves about FreezeManager, for any number of callers,       *)
(* processes, cells, values and jobs, and any periods.                     *)
(***************************************************************************)
EXTENDS FreezeManager, WellFoundedInduction, TLAPS

(* A non-empty set of natural numbers has a smallest one, and SmallestOf is it: the  *)
(* worker's choice of the next job and of its waiting time is well defined.          *)
LEMMA SmallestOfIsMinimum ==
    ASSUME NEW S, S \subseteq Nat, S # {}
    PROVE  SmallestOf(S) \in S /\ \A j \in S : SmallestOf(S) <= j
<1> DEFINE R == {p \in Nat \X Nat : p[1] < p[2]}
<1>1. R = OpToRel(<, Nat)
  BY DEF OpToRel
<1>2. IsWellFoundedOn(R, Nat)
  BY <1>1, NatLessThanWellFounded, Zenon
<1> HIDE DEF R
<1>3. PICK i \in S : \A j \in S : <<j, i>> \notin R
  BY <1>2, WFMin, Zenon
<1>4. ASSUME NEW j \in S PROVE i <= j
  <2>1. <<j, i>> \in R <=> j < i
    BY DEF R
  <2>2. <<j, i>> \notin R
    BY <1>3
  <2> QED
    BY <2>1, <2>2
<1> QED
  BY <1>3, <1>4, Zenon DEF SmallestOf

-----------------------------------------------------------------------------
(* The inductive invariant.                                                *)

\* A batch under way has jobs left to write, all of them live, and a process.
BatchIsBacked ==
    /\ worker \in {"batch", "writing"} =>
          todo # {} /\ todo \subseteq Live /\ process # None /\ ~stopping
    /\ worker = "writing" =>
          inflight # None /\ inflight.handle = process /\ inflight.id \in todo

\* A caller is in the destructor only once stopping_ is set.
DestructorStopped == \A c \in Callers : pc[c] \in {"join", "destroyed"} => stopping

IInv ==
    /\ TypeOK
    /\ BatchIsBacked
    /\ DestructorStopped
    /\ OneJobPerCell
    /\ JobsNeedAProcess
    /\ NoLostWakeup

-----------------------------------------------------------------------------
(* Facts about the operators.                                              *)

(* A clamped period lies between the bounds, whatever the caller asked for. *)
LEMMA ClampInRange ==
    ASSUME NEW ms \in Requested
    PROVE  Clamp(ms) \in Intervals /\ Clamp(ms) \in MinInterval..MaxInterval
BY IntervalAssumption DEF Clamp, Intervals

(* Every period of a job is a natural number no greater than the upper bound. *)
LEMMA IntervalsInRange == \A n \in Intervals : n \in Nat /\ n <= MaxInterval
BY ClampInRange, IntervalAssumption DEF Intervals

(* A job that was written has the cell, value and period it had. *)
LEMMA RescheduledEntry ==
    ASSUME NEW e \in Entry, elapsed \in Nat
    PROVE  /\ Rescheduled(e) \in Entry
           /\ Rescheduled(e).address = e.address
           /\ Rescheduled(e).value = e.value
           /\ Rescheduled(e).interval = e.interval
<1>0. e.interval \in Intervals
  BY DEF Entry
<1>1. e.interval \in Nat /\ e.interval <= MaxInterval
  BY <1>0, IntervalsInRange, Zenon
<1>2. (IF elapsed < e.interval THEN e.interval - elapsed ELSE 0) \in 0..MaxInterval
  BY <1>1, IntervalAssumption
<1> QED
  BY <1>2 DEF Rescheduled, Entry

-----------------------------------------------------------------------------
(* Type correctness.                                                       *)

(* The initial states have the right types: the constructor starts the worker with no
   handle, no job and ids from 1. *)
LEMMA InitTypeOK == Init => TypeOK
<1> SUFFICES ASSUME Init PROVE TypeOK
  OBVIOUS
<1> USE DEF Init
<1>1. nextId \in 1..(MaxId + 1)
  BY BoundAssumption
<1>2. sleep \in 0..MaxInterval
  BY IntervalAssumption
<1>3. Live = {} /\ entries \in [Live -> Entry]
  BY DEF Live, NoEntries
<1> QED
  BY <1>1, <1>2, <1>3 DEF TypeOK


-----------------------------------------------------------------------------
(* Every step preserves the invariant, one lemma per action.               *)

(* A thread that starts to wait for the mutex disturbs nothing. *)
LEMMA CallIInv ==
    ASSUME IInv, NEW c \in Callers, Call(c)
    PROVE  IInv'
<1> USE DEF Call, batchVars, workerVars
<1>1. TypeOK'
  BY DEF IInv, TypeOK, Live
<1>2. BatchIsBacked'
  BY DEF IInv, BatchIsBacked, Live
<1>3. DestructorStopped'
  BY DEF IInv, DestructorStopped, TypeOK
<1>4. OneJobPerCell'
  BY DEF IInv, OneJobPerCell, Live
<1>5. JobsNeedAProcess'
  BY DEF IInv, JobsNeedAProcess, Live
<1>6. NoLostWakeup'
  BY DEF IInv, NoLostWakeup, Live, HasWork
<1> QED
  BY <1>1, <1>2, <1>3, <1>4, <1>5, <1>6 DEF IInv

(* setProcess drops every job with the old handle and wakes the worker. *)
LEMMA SetProcessIInv ==
    ASSUME IInv, NEW c \in Callers, NEW t \in Targets \cup {None}, SetProcess(c, t)
    PROVE  IInv'
<1> USE DEF SetProcess, Enter, NotifyAll, batchVars
<1>0. Live' = {} /\ entries' \in [Live' -> Entry]
  BY DEF Live, NoEntries
<1>1. TypeOK'
  BY <1>0, IntervalAssumption DEF IInv, TypeOK
<1>2. BatchIsBacked'
  BY DEF IInv, BatchIsBacked, LockFree, Holding
<1>3. DestructorStopped'
  BY DEF IInv, DestructorStopped, TypeOK
<1>4. OneJobPerCell'
  BY <1>0 DEF OneJobPerCell
<1>5. JobsNeedAProcess'
  BY <1>0 DEF JobsNeedAProcess
<1>6. NoLostWakeup'
  BY <1>0 DEF NoLostWakeup, HasWork, IInv
<1> QED
  BY <1>1, <1>2, <1>3, <1>4, <1>5, <1>6 DEF IInv

(* add refuses a cell that has a job, so the new job, under an id never used, keeps one
   job per cell; the notification leaves no sleeper behind. *)
LEMMA AddIInv ==
    ASSUME IInv, NEW c \in Callers, NEW a \in Addresses, NEW v \in Values, NEW ms \in Requested,
           Add(c, a, v, ms)
    PROVE  IInv'
<1> DEFINE job == [address |-> a, value |-> v, interval |-> Clamp(ms), due |-> 0]
<1> USE DEF Add, Enter, NotifyAll, batchVars
<1>0. job \in Entry /\ job.address = a
  BY ClampInRange, IntervalAssumption DEF Entry
<1>1. /\ entries' = [i \in Live \cup {nextId} |-> IF i = nextId THEN job ELSE entries[i]]
      /\ nextId \notin Live
      /\ nextId \in Nat
  BY BoundAssumption DEF IInv, TypeOK
<1> HIDE DEF job
<1>2. /\ Live' = Live \cup {nextId}
      /\ entries'[nextId] = job
      /\ \A i \in Live : entries'[i] = entries[i]
  BY <1>1 DEF Live
<1>3. TypeOK'
  <2>1. entries' \in [Live' -> Entry]
    BY <1>0, <1>1, <1>2 DEF IInv, TypeOK
  <2>2. Live' \subseteq 1..(nextId' - 1) /\ nextId' \in 1..(MaxId + 1)
    BY <1>1, <1>2, BoundAssumption DEF IInv, TypeOK
  <2>3. sleep' \in 0..MaxInterval
    BY IntervalAssumption
  <2>4. worker' \in {"ready", "idle", "timed", "loop", "batch", "writing", "done"}
    BY DEF IInv, TypeOK
  <2>5. pc' \in [Callers -> {"out", "blocked", "join", "destroyed"}]
    BY DEF IInv, TypeOK
  <2>6. UNCHANGED <<process, stopping, todo, inflight, cost, elapsed, written>>
    OBVIOUS
  <2> QED
    BY <2>1, <2>2, <2>3, <2>4, <2>5, <2>6 DEF IInv, TypeOK
<1>4. BatchIsBacked'
  BY DEF IInv, BatchIsBacked, LockFree, Holding
<1>5. DestructorStopped'
  BY DEF IInv, DestructorStopped, TypeOK
<1>6. OneJobPerCell'
  <2>1. ASSUME NEW i \in Live', NEW j \in Live', entries'[i].address = entries'[j].address
        PROVE  i = j
    <3>1. CASE i \in Live /\ j \in Live
      BY <2>1, <3>1, <1>2 DEF IInv, OneJobPerCell
    <3>2. CASE i = nextId /\ j \in Live
      BY <2>1, <3>2, <1>0, <1>2 DEF CanAdd
    <3>3. CASE i \in Live /\ j = nextId
      BY <2>1, <3>3, <1>0, <1>2 DEF CanAdd
    <3>4. CASE i = nextId /\ j = nextId
      BY <3>4
    <3> QED
      BY <2>1, <1>2, <3>1, <3>2, <3>3, <3>4
  <2> QED
    BY <2>1 DEF OneJobPerCell
<1>7. JobsNeedAProcess'
  BY DEF IInv, JobsNeedAProcess, CanAdd
<1>8. NoLostWakeup'
  BY DEF NoLostWakeup
<1> QED
  BY <1>3, <1>4, <1>5, <1>6, <1>7, <1>8 DEF IInv

(* add that returns early changes nothing, so it need not notify. *)
LEMMA AddRefusedIInv ==
  ASSUME IInv, NEW c \in Callers, NEW a \in Addresses, AddRefused(c, a) PROVE IInv'
<1> USE DEF AddRefused, Enter, batchVars, workerVars
<1>1. TypeOK'
  BY DEF IInv, TypeOK, Live
<1>2. BatchIsBacked'
  BY DEF IInv, BatchIsBacked, Live
<1>3. DestructorStopped'
  BY DEF IInv, DestructorStopped, TypeOK
<1>4. OneJobPerCell'
  BY DEF IInv, OneJobPerCell, Live
<1>5. JobsNeedAProcess'
  BY DEF IInv, JobsNeedAProcess, Live
<1>6. NoLostWakeup'
  BY DEF IInv, NoLostWakeup, Live, HasWork
<1> QED
  BY <1>1, <1>2, <1>3, <1>4, <1>5, <1>6 DEF IInv

(* remove takes one job out between two batches. *)
LEMMA RemoveIInv ==
    ASSUME IInv, NEW c \in Callers, NEW id \in Ids, Remove(c, id)
    PROVE  IInv'
<1> USE DEF Remove, Enter, NotifyAll, batchVars
<1>0. /\ Live' = Live \ {id}
      /\ entries' \in [Live' -> Entry]
      /\ \A i \in Live' : entries'[i] = entries[i]
  BY DEF IInv, TypeOK, Live, Without
<1>1. TypeOK'
  <2>1. Live' \subseteq 1..(nextId' - 1)
    BY <1>0 DEF IInv, TypeOK
  <2>2. sleep' \in 0..MaxInterval
    BY IntervalAssumption
  <2> QED
    BY <1>0, <2>1, <2>2 DEF IInv, TypeOK
<1>2. BatchIsBacked'
  BY DEF IInv, BatchIsBacked, LockFree, Holding
<1>3. DestructorStopped'
  BY DEF IInv, DestructorStopped, TypeOK
<1>4. OneJobPerCell'
  <2>1. ASSUME NEW i \in Live', NEW j \in Live', entries'[i].address = entries'[j].address
        PROVE  i = j
    BY <1>0, <2>1 DEF IInv, OneJobPerCell
  <2> QED
    BY <2>1 DEF OneJobPerCell
<1>5. JobsNeedAProcess'
  BY <1>0 DEF IInv, JobsNeedAProcess
<1>6. NoLostWakeup'
  BY DEF NoLostWakeup
<1> QED
  BY <1>1, <1>2, <1>3, <1>4, <1>5, <1>6 DEF IInv

(* clear takes every job out between two batches. *)
LEMMA ClearIInv ==
    ASSUME IInv, NEW c \in Callers, Clear(c)
    PROVE  IInv'
<1> USE DEF Clear, Enter, NotifyAll, batchVars
<1>0. Live' = {} /\ entries' \in [Live' -> Entry]
  BY DEF Live, NoEntries
<1>1. TypeOK'
  BY <1>0, IntervalAssumption DEF IInv, TypeOK
<1>2. BatchIsBacked'
  BY DEF IInv, BatchIsBacked, LockFree, Holding
<1>3. DestructorStopped'
  BY DEF IInv, DestructorStopped, TypeOK
<1>4. OneJobPerCell' /\ JobsNeedAProcess'
  BY <1>0 DEF OneJobPerCell, JobsNeedAProcess
<1>5. NoLostWakeup'
  BY <1>0 DEF NoLostWakeup, IInv
<1> QED
  BY <1>1, <1>2, <1>3, <1>4, <1>5 DEF IInv

(* list and size only read. *)
LEMMA ReadIInv ==
    ASSUME IInv, NEW c \in Callers, Read(c)
    PROVE  IInv'
<1> USE DEF Read, Enter, batchVars, workerVars
<1>1. TypeOK'
  BY DEF IInv, TypeOK, Live
<1>2. BatchIsBacked'
  BY DEF IInv, BatchIsBacked, Live
<1>3. DestructorStopped'
  BY DEF IInv, DestructorStopped, TypeOK
<1>4. OneJobPerCell' /\ JobsNeedAProcess'
  BY DEF IInv, OneJobPerCell, JobsNeedAProcess, Live
<1>5. NoLostWakeup'
  BY DEF IInv, NoLostWakeup, Live, HasWork
<1> QED
  BY <1>1, <1>2, <1>3, <1>4, <1>5 DEF IInv

(* The destructor sets stopping_, drops the jobs and wakes the worker in one step. *)
LEMMA DestroyIInv ==
    ASSUME IInv, NEW c \in Callers, Destroy(c)
    PROVE  IInv'
<1> USE DEF Destroy, NotifyAll, batchVars
<1>0. Live' = {} /\ entries' \in [Live' -> Entry]
  BY DEF Live, NoEntries
<1>1. TypeOK'
  BY <1>0, IntervalAssumption DEF IInv, TypeOK
<1>2. BatchIsBacked'
  BY DEF IInv, BatchIsBacked, LockFree, Holding
<1>3. DestructorStopped'
  BY DEF IInv, DestructorStopped, TypeOK
<1>4. OneJobPerCell' /\ JobsNeedAProcess'
  BY <1>0 DEF OneJobPerCell, JobsNeedAProcess
<1>5. NoLostWakeup'
  BY <1>0 DEF NoLostWakeup, IInv
<1> QED
  BY <1>1, <1>2, <1>3, <1>4, <1>5 DEF IInv

(* The handle is closed after the join, when no job is left. *)
LEMMA JoinIInv ==
    ASSUME IInv, NEW c \in Callers, Join(c)
    PROVE  IInv'
<1> USE DEF Join, batchVars, workerVars
<1>0. stopping /\ Live' = {}
  BY DEF IInv, DestructorStopped, JobsNeedAProcess, Live
<1>1. TypeOK'
  BY DEF IInv, TypeOK, Live
<1>2. BatchIsBacked'
  BY DEF BatchIsBacked
<1>3. DestructorStopped'
  BY <1>0 DEF DestructorStopped
<1>4. OneJobPerCell' /\ JobsNeedAProcess'
  BY <1>0 DEF OneJobPerCell, JobsNeedAProcess
<1>5. NoLostWakeup'
  BY DEF NoLostWakeup
<1> QED
  BY <1>1, <1>2, <1>3, <1>4, <1>5 DEF IInv

(* The worker leaves its loop. *)
LEMMA StopIInv ==
    ASSUME IInv, Stop
    PROVE  IInv'
<1> USE DEF Stop, AtLoopHead, batchVars, workerVars
<1>1. TypeOK'
  BY DEF IInv, TypeOK, Live
<1>2. BatchIsBacked' /\ DestructorStopped'
  BY DEF IInv, BatchIsBacked, DestructorStopped
<1>3. OneJobPerCell' /\ JobsNeedAProcess'
  BY DEF IInv, OneJobPerCell, JobsNeedAProcess, Live
<1>4. NoLostWakeup'
  BY DEF NoLostWakeup
<1> QED
  BY <1>1, <1>2, <1>3, <1>4 DEF IInv

(* The worker sleeps without a timer only when it found nothing to do. *)
LEMMA WaitForWorkIInv ==
    ASSUME IInv, WaitForWork
    PROVE  IInv'
<1> USE DEF WaitForWork, AtLoopHead, batchVars, workerVars
<1>1. TypeOK'
  BY DEF IInv, TypeOK, Live
<1>2. BatchIsBacked' /\ DestructorStopped'
  BY DEF IInv, BatchIsBacked, DestructorStopped
<1>3. OneJobPerCell' /\ JobsNeedAProcess'
  BY DEF IInv, OneJobPerCell, JobsNeedAProcess, Live
<1>4. NoLostWakeup'
  BY DEF NoLostWakeup, HasWork, Live
<1> QED
  BY <1>1, <1>2, <1>3, <1>4 DEF IInv

(* The worker sets its timer to the earliest due job, never later. *)
LEMMA WaitUntilDueIInv ==
    ASSUME IInv, WaitUntilDue
    PROVE  IInv'
<1> USE DEF WaitUntilDue, AtLoopHead
<1>0. /\ NextDue \in 0..MaxInterval
      /\ \A i \in Live : NextDue <= entries[i].due
  <2> DEFINE dues == {entries[i].due : i \in Live}
  <2>1. \A i \in Live : entries[i].due \in 0..MaxInterval
    BY DEF IInv, TypeOK, Entry
  <2>2. dues \subseteq Nat /\ dues # {}
    BY <2>1, IntervalAssumption DEF HasWork
  <2> HIDE DEF dues
  <2>3. SmallestOf(dues) \in dues /\ \A j \in dues : SmallestOf(dues) <= j
    BY <2>2, SmallestOfIsMinimum
  <2> QED
    BY <2>1, <2>3 DEF dues, NextDue
<1>1. TypeOK'
  BY <1>0 DEF IInv, TypeOK, Live
<1>2. BatchIsBacked' /\ DestructorStopped'
  BY DEF IInv, BatchIsBacked, DestructorStopped
<1>3. OneJobPerCell' /\ JobsNeedAProcess'
  BY DEF IInv, OneJobPerCell, JobsNeedAProcess, Live
<1>4. NoLostWakeup'
  BY <1>0 DEF NoLostWakeup, Live
<1> QED
  BY <1>1, <1>2, <1>3, <1>4 DEF IInv

(* A batch holds due jobs, all of them live, and starts only with a process. *)
LEMMA StartBatchIInv ==
    ASSUME IInv, StartBatch
    PROVE  IInv'
<1> USE DEF StartBatch, AtLoopHead
<1>0. DueNow \subseteq Live /\ Live \subseteq Ids
  BY BoundAssumption DEF DueNow, Ids, IInv, TypeOK
<1>1. TypeOK'
  BY <1>0 DEF IInv, TypeOK, Live
<1>2. BatchIsBacked' /\ DestructorStopped'
  BY <1>0 DEF IInv, BatchIsBacked, DestructorStopped, HasWork, Live
<1>3. OneJobPerCell' /\ JobsNeedAProcess'
  BY DEF IInv, OneJobPerCell, JobsNeedAProcess, Live
<1>4. NoLostWakeup'
  BY DEF NoLostWakeup
<1> QED
  BY <1>1, <1>2, <1>3, <1>4 DEF IInv

(* The write is given the open handle and a job of the batch. *)
LEMMA BeginWriteIInv ==
    ASSUME IInv, BeginWrite
    PROVE  IInv'
<1> USE DEF BeginWrite
<1>0. SmallestOf(todo) \in todo
  <2>1. todo \subseteq Nat /\ todo # {}
    BY BoundAssumption DEF IInv, TypeOK, BatchIsBacked, Ids
  <2> QED
    BY <2>1, SmallestOfIsMinimum, Zenon
<1>1. TypeOK'
  BY <1>0 DEF IInv, TypeOK, BatchIsBacked, Live
<1>2. BatchIsBacked' /\ DestructorStopped'
  <2>1. inflight' # None
    <3>1. todo \subseteq Nat /\ process \in Targets
      BY BoundAssumption DEF IInv, TypeOK, BatchIsBacked, Ids
    <3>2. inflight' \in [handle : Targets, id : Nat]
      BY <1>0, <3>1
    <3> QED
      BY <3>2, NoneAssumption, Zenon
  <2> QED
    BY <1>0, <2>1 DEF IInv, BatchIsBacked, DestructorStopped, Live
<1>3. OneJobPerCell' /\ JobsNeedAProcess'
  BY DEF IInv, OneJobPerCell, JobsNeedAProcess, Live
<1>4. NoLostWakeup'
  BY DEF NoLostWakeup
<1> QED
  BY <1>1, <1>2, <1>3, <1>4 DEF IInv

(* Waking up, in time or spuriously, only makes the worker look again. *)
LEMMA WakeUpIInv ==
    ASSUME IInv, WakeUp
    PROVE  IInv'
<1> USE DEF WakeUp, batchVars
<1>1. TypeOK'
  BY IntervalAssumption DEF IInv, TypeOK, Live
<1>2. BatchIsBacked' /\ DestructorStopped'
  BY DEF IInv, BatchIsBacked, DestructorStopped
<1>3. OneJobPerCell' /\ JobsNeedAProcess'
  BY DEF IInv, OneJobPerCell, JobsNeedAProcess, Live
<1>4. NoLostWakeup'
  BY DEF NoLostWakeup
<1> QED
  BY <1>1, <1>2, <1>3, <1>4 DEF IInv

(* A step that changes no variable preserves the invariant. *)
LEMMA StutterIInv ==
    ASSUME IInv, UNCHANGED vars
    PROVE  IInv'
<1> USE DEF vars
<1>1. TypeOK'
  BY DEF IInv, TypeOK, Live
<1>2. BatchIsBacked' /\ DestructorStopped'
  BY DEF IInv, BatchIsBacked, DestructorStopped, Live
<1>3. OneJobPerCell' /\ JobsNeedAProcess'
  BY DEF IInv, OneJobPerCell, JobsNeedAProcess, Live
<1>4. NoLostWakeup'
  BY DEF IInv, NoLostWakeup, HasWork, Live
<1> QED
  BY <1>1, <1>2, <1>3, <1>4 DEF IInv

(* The end of a write reschedules its job and leaves the rest of the batch backed. *)
LEMMA EndWriteIInv ==
    ASSUME IInv, NEW ok \in BOOLEAN, EndWrite(ok)
    PROVE  IInv'
<1> DEFINE i == inflight.id
<1>1. i \in todo /\ todo \subseteq Live /\ i \in Live /\ i \in Ids /\ inflight.handle \in Targets
  BY DEF EndWrite, IInv, TypeOK, BatchIsBacked
<1>2. /\ entries' = [entries EXCEPT ![i] = Rescheduled(@)]
      /\ todo' = todo \ {i}
      /\ worker' = IF todo = {i} THEN "loop" ELSE "batch"
      /\ elapsed' = IF todo = {i} THEN 0 ELSE elapsed
      /\ inflight' = None /\ cost' = 0
      /\ UNCHANGED <<process, nextId, stopping, pc, sleep>>
  BY DEF EndWrite
<1>3. /\ entries[i] \in Entry
      /\ Rescheduled(entries[i]) \in Entry
      /\ Rescheduled(entries[i]).address = entries[i].address
  BY <1>1, RescheduledEntry DEF IInv, TypeOK
<1>4. written' \in Written \cup {None}
  <2>1. CASE ok
    BY <2>1, <1>1, <1>3 DEF EndWrite, Written, Entry
  <2>2. CASE ~ok
    BY <2>2 DEF EndWrite, IInv, TypeOK
  <2> QED
    BY <2>1, <2>2
<1> HIDE DEF i
<1>5. /\ Live' = Live
      /\ entries' \in [Live' -> Entry]
      /\ \A j \in Live : entries'[j].address = entries[j].address
  BY <1>1, <1>2, <1>3 DEF Live, IInv, TypeOK
<1>6. TypeOK'
  <2>1. worker' \in {"ready", "idle", "timed", "loop", "batch", "writing", "done"}
    BY <1>2
  <2>2. todo' \subseteq Ids /\ cost' \in Nat /\ elapsed' \in Nat
    BY <1>2 DEF IInv, TypeOK
  <2>3. Live' \subseteq 1..(nextId' - 1)
    BY <1>2, <1>5 DEF IInv, TypeOK
  <2> QED
    BY <1>2, <1>4, <1>5, <2>1, <2>2, <2>3 DEF IInv, TypeOK
<1>7. BatchIsBacked' /\ DestructorStopped'
  <2>1. worker = "writing"
    BY DEF EndWrite
  <2>2. worker' # "writing" /\ (worker' = "batch" => todo' # {})
    BY <1>1, <1>2
  <2> QED
    BY <1>2, <1>5, <2>1, <2>2 DEF IInv, BatchIsBacked, DestructorStopped
<1>8. OneJobPerCell' /\ JobsNeedAProcess'
  BY <1>2, <1>5 DEF IInv, OneJobPerCell, JobsNeedAProcess
<1>9. NoLostWakeup'
  BY <1>2 DEF NoLostWakeup
<1> QED
  BY <1>6, <1>7, <1>8, <1>9 DEF IInv

(* The clock brings a job nearer to its due time and changes nothing else of it. *)
LEMMA TickedEntry ==
    ASSUME NEW e \in Entry
    PROVE  /\ [e EXCEPT !.due = CountDown(@)] \in Entry
           /\ [e EXCEPT !.due = CountDown(@)].address = e.address
           /\ [e EXCEPT !.due = CountDown(@)].due = CountDown(e.due)
BY IntervalAssumption DEF Entry, CountDown

(* The timer and the due times count down together: no job becomes due before the timer. *)
LEMMA TickIInv ==
    ASSUME IInv, Tick
    PROVE  IInv'
<1> DEFINE ticked(e) == [e EXCEPT !.due = CountDown(@)]
<1>1. /\ entries' = [i \in Live |-> ticked(entries[i])]
      /\ sleep' = IF worker = "timed" THEN CountDown(sleep) ELSE sleep
      /\ cost' = IF worker = "writing" THEN cost + 1 ELSE cost
      /\ elapsed' = IF worker = "writing" THEN elapsed + 1 ELSE elapsed
      /\ UNCHANGED <<process, nextId, stopping, worker, todo, inflight, pc, written>>
  BY DEF Tick
<1>2. \A e \in Entry : ticked(e) \in Entry /\ ticked(e).address = e.address
                       /\ ticked(e).due = CountDown(e.due)
  BY TickedEntry
<1> HIDE DEF ticked
<1>3. /\ Live' = Live
      /\ entries' \in [Live' -> Entry]
      /\ \A i \in Live : /\ entries[i] \in Entry
                         /\ entries'[i].address = entries[i].address
                         /\ entries'[i].due = CountDown(entries[i].due)
  BY <1>1, <1>2 DEF Live, IInv, TypeOK
<1>4. TypeOK'
  <2>1. sleep' \in 0..MaxInterval /\ cost' \in Nat /\ elapsed' \in Nat
    BY <1>1, IntervalAssumption DEF IInv, TypeOK, CountDown
  <2>2. Live' \subseteq 1..(nextId' - 1)
    BY <1>1, <1>3 DEF IInv, TypeOK
  <2> QED
    BY <1>1, <1>3, <2>1, <2>2 DEF IInv, TypeOK
<1>5. BatchIsBacked' /\ DestructorStopped'
  BY <1>1, <1>3 DEF IInv, BatchIsBacked, DestructorStopped
<1>6. OneJobPerCell' /\ JobsNeedAProcess'
  BY <1>1, <1>3 DEF IInv, OneJobPerCell, JobsNeedAProcess
<1>7. NoLostWakeup'
  <2>1. HasWork' = HasWork
    BY <1>1, <1>3 DEF HasWork
  <2>2. ASSUME worker = "timed", NEW i \in Live PROVE sleep' <= entries'[i].due
    <3>1. sleep <= entries[i].due /\ entries[i].due \in Nat /\ sleep \in Nat
      BY <1>3, <2>2, IntervalAssumption DEF IInv, TypeOK, NoLostWakeup, Entry
    <3> QED
      BY <1>1, <1>3, <2>2, <3>1 DEF CountDown
  <2> QED
    BY <1>1, <1>3, <2>1, <2>2 DEF IInv, NoLostWakeup
<1> QED
  BY <1>4, <1>5, <1>6, <1>7 DEF IInv

(* The invariant holds when the manager is constructed. *)
LEMMA InitIInv == Init => IInv
<1> SUFFICES ASSUME Init PROVE IInv
  OBVIOUS
<1> USE DEF Init
<1>1. Live = {}
  BY DEF Live, NoEntries
<1>2. BatchIsBacked /\ DestructorStopped /\ OneJobPerCell /\ JobsNeedAProcess /\ NoLostWakeup
  BY <1>1 DEF BatchIsBacked, DestructorStopped, OneJobPerCell, JobsNeedAProcess, NoLostWakeup
<1> QED
  BY <1>2, InitTypeOK DEF IInv

(* Whatever thread moves, in whatever order, the invariant is preserved. *)
THEOREM NextIInv == IInv /\ [Next]_vars => IInv'
<1> SUFFICES ASSUME IInv, [Next]_vars PROVE IInv'
  OBVIOUS
<1>1. CASE \E c \in Callers : Call(c) \/ Critical(c) \/ Join(c)
  <2> PICK c \in Callers : Call(c) \/ Critical(c) \/ Join(c)
    BY <1>1
  <2>1. CASE Call(c)
    BY <2>1, CallIInv
  <2>2. CASE Critical(c)
    BY <2>2, SetProcessIInv, AddIInv, AddRefusedIInv, RemoveIInv, ClearIInv, ReadIInv, DestroyIInv
       DEF Critical
  <2>3. CASE Join(c)
    BY <2>3, JoinIInv
  <2> QED
    BY <2>1, <2>2, <2>3
<1>2. CASE LoopHead
  BY <1>2, StopIInv, WaitForWorkIInv, WaitUntilDueIInv, StartBatchIInv DEF LoopHead
<1>3. CASE WriteStep
  BY <1>3, BeginWriteIInv, EndWriteIInv DEF WriteStep
<1>4. CASE WakeUp
  BY <1>4, WakeUpIInv
<1>5. CASE Tick
  BY <1>5, TickIInv
<1>6. CASE Gone \/ UNCHANGED vars
  BY <1>6, StutterIInv DEF Gone
<1> QED
  BY <1>1, <1>2, <1>3, <1>4, <1>5, <1>6 DEF Next

-----------------------------------------------------------------------------
(* The safety properties of the manager.                                   *)

(* The inductive invariant holds in every reachable state. *)
THEOREM Inductive == Spec => []IInv
BY InitIInv, NextIInv, PTL DEF Spec

(* Every variable of the manager stays within its type. *)
THEOREM TypeCorrect == Spec => []TypeOK
<1>1. IInv => TypeOK
  BY DEF IInv
<1> QED
  BY <1>1, Inductive, PTL

(* WriteProcessMemory always runs on the open handle for a job that still exists, which
   is what holding the mutex through the batch is for. *)
THEOREM WriteSafe == Spec => []WriteIsBacked
<1>1. IInv => WriteIsBacked
  BY DEF IInv, BatchIsBacked, WriteIsBacked
<1> QED
  BY <1>1, Inductive, PTL

(* No call of add, remove, clear, setProcess or the destructor leaves the worker asleep
   when it has to write or to stop. *)
THEOREM WakeupSafe == Spec => []NoLostWakeup
<1>1. IInv => NoLostWakeup
  BY DEF IInv
<1> QED
  BY <1>1, Inductive, PTL

(* The duplicate test of add is enough: no interleaving gives one cell two jobs. *)
THEOREM CellSafe == Spec => []OneJobPerCell
<1>1. IInv => OneJobPerCell
  BY DEF IInv
<1> QED
  BY <1>1, Inductive, PTL

(* No job survives its process or the destructor. *)
THEOREM JobSafe == Spec => []JobsNeedAProcess
<1>1. IInv => JobsNeedAProcess
  BY DEF IInv
<1> QED
  BY <1>1, Inductive, PTL

-----------------------------------------------------------------------------
(* The manager implements FreezePromise.                                   *)

\* What the promise shows of a job, and of all of them.
View(i) == [address  |-> entries[i].address,
            value    |-> entries[i].value,
            interval |-> entries[i].interval]
Frozen == [i \in Live |-> View(i)]

(* A manager just constructed is a service bound to nothing with no job. *)
LEMMA InitRefines == Init => Promise!PInit
<1> SUFFICES ASSUME Init PROVE Promise!PInit
  OBVIOUS
<1>1. 1..(nextId - 1) = {}
  BY DEF Init
<1>2. Live = {}
  BY DEF Init, Live, NoEntries
<1> QED
  BY <1>1, <1>2 DEF Init, Promise!PInit, Promise!NoJobs

(* What the promise sees depends on the handle, the jobs, the ids and the last write. *)
LEMMA SameView ==
    ASSUME UNCHANGED <<process, nextId, entries, written>>
    PROVE  UNCHANGED Promise!pvars
BY DEF Promise!pvars, Live

(* setProcess, clear and the destructor end every job at once: a Retarget. *)
LEMMA EmptiedRefines ==
    ASSUME entries' = NoEntries, process' \in Targets \cup {None}, UNCHANGED <<nextId, written>>
    PROVE  Promise!Retarget
<1>1. Live' = {}
  BY DEF Live, NoEntries
<1> QED
  BY <1>1 DEF Promise!Retarget, Promise!NoJobs

(* add is a Freeze: a new id, a cell no job has, the other jobs unchanged. *)
LEMMA AddRefines ==
    ASSUME IInv, NEW c \in Callers, NEW a \in Addresses, NEW v \in Values, NEW ms \in Requested,
           Add(c, a, v, ms)
    PROVE  \E i \in Promise!Ids, job \in Promise!Job : Promise!Freeze(i, job)
<1> DEFINE job == [address |-> a, value |-> v, interval |-> Clamp(ms)]
<1>1. job \in Promise!Job /\ job.address = a
  BY ClampInRange DEF Promise!Job
<1>2. nextId \in Promise!Ids /\ nextId \notin 1..(nextId - 1) /\ nextId \notin Live
      /\ 1..(nextId' - 1) = (1..(nextId - 1)) \cup {nextId}
  BY BoundAssumption DEF Add, IInv, TypeOK, Promise!Ids
<1>3. /\ Live' = Live \cup {nextId}
      /\ \A i \in Live : entries'[i] = entries[i]
      /\ entries'[nextId] = [address |-> a, value |-> v, interval |-> Clamp(ms), due |-> 0]
  BY <1>2 DEF Add, Live
<1>4. Frozen' = [j \in Live \cup {nextId} |-> IF j = nextId THEN job ELSE Frozen[j]]
  <2>1. ASSUME NEW j \in Live \cup {nextId}
        PROVE  View(j)' = IF j = nextId THEN job ELSE Frozen[j]
    <3>1. CASE j = nextId
      <4>1. entries'[j] = [address |-> a, value |-> v, interval |-> Clamp(ms), due |-> 0]
        BY <1>3, <3>1
      <4>2. View(j)' = job
        BY <4>1 DEF View
      <4> QED
        BY <3>1, <4>2
    <3>2. CASE j # nextId
      BY <1>3, <3>2 DEF View, Frozen
    <3> QED
      BY <3>1, <3>2
  <2>2. Frozen' = [j \in Live \cup {nextId} |-> View(j)']
    BY <1>3, Zenon DEF Frozen
  <2> HIDE DEF job
  <2> QED
    BY <2>1, <2>2, Zenon
<1>5. \A j \in Live : Frozen[j].address # job.address
  BY <1>1 DEF Add, CanAdd, Frozen, View
<1>6. DOMAIN Frozen = Live
  BY DEF Frozen
<1> HIDE DEF job
<1>7. process # None /\ UNCHANGED <<process, written>>
  BY DEF Add, CanAdd, batchVars
<1>8. Promise!Freeze(nextId, job)
  BY <1>2, <1>4, <1>5, <1>6, <1>7 DEF Promise!Freeze, Frozen, View
<1> QED
  BY <1>1, <1>2, <1>8

(* remove is a Thaw of one job. *)
LEMMA RemoveRefines ==
    ASSUME IInv, NEW c \in Callers, NEW id \in Ids, Remove(c, id)
    PROVE  \E gone \in SUBSET Promise!Ids : Promise!Thaw(gone)
<1>1. Live' = Live \ {id} /\ \A i \in Live' : entries'[i] = entries[i]
  BY DEF Remove, Without, Live
<1>2. Frozen' = [j \in Live \ {id} |-> Frozen[j]] /\ DOMAIN Frozen = Live
  BY <1>1 DEF Frozen, View
<1>3. UNCHANGED <<process, nextId, written>>
  BY DEF Remove, batchVars
<1>4. Promise!Thaw({id})
  BY <1>2, <1>3 DEF Promise!Thaw, Frozen, View
<1>5. {id} \in SUBSET Promise!Ids
  BY DEF Ids, Promise!Ids
<1> QED
  BY <1>4, <1>5

(* A write that succeeded is a Rewrite of a live job in the bound process, although it
   began steps earlier: the mutex held since kept both.  One that failed is not seen. *)
LEMMA EndWriteRefines ==
    ASSUME IInv, NEW ok \in BOOLEAN, EndWrite(ok)
    PROVE  Promise!PNext \/ UNCHANGED Promise!pvars
<1> DEFINE i == inflight.id
<1>1. i \in Live /\ inflight.handle = process /\ process # None
  BY DEF EndWrite, IInv, BatchIsBacked
<1>2. /\ entries[i] \in Entry
      /\ Rescheduled(entries[i]).address = entries[i].address
      /\ Rescheduled(entries[i]).value = entries[i].value
      /\ Rescheduled(entries[i]).interval = entries[i].interval
  BY <1>1, RescheduledEntry DEF IInv, TypeOK
<1>3. entries' = [entries EXCEPT ![i] = Rescheduled(@)] /\ entries \in [Live -> Entry]
  BY DEF EndWrite, IInv, TypeOK
<1> HIDE DEF i
<1>4. Live' = Live /\ \A j \in Live : /\ entries'[j].address = entries[j].address
                                     /\ entries'[j].value = entries[j].value
                                     /\ entries'[j].interval = entries[j].interval
  BY <1>1, <1>2, <1>3 DEF Live
<1>5. Frozen' = Frozen
  BY <1>4 DEF Frozen, View
<1>6. UNCHANGED <<process, nextId>>
  BY DEF EndWrite
<1>7. CASE ok
  <2>1. written' = [target |-> process, address |-> entries[i].address, value |-> entries[i].value]
    BY <1>1, <1>7 DEF EndWrite, i
  <2>2. /\ DOMAIN Frozen = Live
        /\ Frozen[i].address = entries[i].address
        /\ Frozen[i].value = entries[i].value
    BY <1>1 DEF Frozen, View
  <2>3. Promise!Rewrite(i)
    BY <1>1, <1>5, <1>6, <2>1, <2>2 DEF Promise!Rewrite, Frozen, View
  <2>4. i \in DOMAIN Frozen
    BY <1>1, <2>2
  <2> QED
    BY <2>3, <2>4 DEF Promise!PNext, Frozen, View
<1>8. CASE ~ok
  <2>1. written' = written
    BY <1>8 DEF EndWrite
  <2> QED
    BY <1>5, <1>6, <2>1 DEF Promise!pvars, Frozen, View
<1> QED
  BY <1>7, <1>8

(* The clock is not part of the promise. *)
LEMMA TickRefines ==
    ASSUME IInv, Tick
    PROVE  UNCHANGED Promise!pvars
<1> DEFINE ticked(e) == [e EXCEPT !.due = CountDown(@)]
<1>1. entries' = [i \in Live |-> ticked(entries[i])] /\ UNCHANGED <<process, nextId, written>>
  BY DEF Tick
<1>2. \A e \in Entry : /\ ticked(e).address = e.address
                       /\ ticked(e).value = e.value
                       /\ ticked(e).interval = e.interval
  BY TickedEntry
<1> HIDE DEF ticked
<1>3. Live' = Live /\ \A i \in Live : /\ entries'[i].address = entries[i].address
                                     /\ entries'[i].value = entries[i].value
                                     /\ entries'[i].interval = entries[i].interval
  BY <1>1, <1>2 DEF Live, IInv, TypeOK
<1>4. Frozen' = Frozen
  BY <1>3 DEF Frozen, View
<1> QED
  BY <1>1, <1>4 DEF Promise!pvars, Frozen, View

(* Every step of the manager is one step of the promise or none. *)
THEOREM StepRefines == IInv /\ [Next]_vars => [Promise!PNext]_(Promise!pvars)
<1> SUFFICES ASSUME IInv, [Next]_vars PROVE Promise!PNext \/ UNCHANGED Promise!pvars
  OBVIOUS
<1>0. process \in Targets \cup {None}
  BY DEF IInv, TypeOK
<1>1. ASSUME NEW c \in Callers, Critical(c) PROVE Promise!PNext \/ UNCHANGED Promise!pvars
  <2>1. ASSUME NEW t \in Targets \cup {None}, SetProcess(c, t) PROVE Promise!PNext
    BY <2>1, EmptiedRefines DEF SetProcess, batchVars, Promise!PNext
  <2>2. ASSUME NEW a \in Addresses, NEW v \in Values, NEW ms \in Requested, Add(c, a, v, ms)
        PROVE  Promise!PNext
    BY <2>2, AddRefines DEF Promise!PNext
  <2>3. ASSUME NEW a \in Addresses, AddRefused(c, a) PROVE UNCHANGED Promise!pvars
    BY <2>3, SameView DEF AddRefused, workerVars, batchVars
  <2>4. ASSUME NEW id \in Ids, Remove(c, id) PROVE Promise!PNext
    BY <2>4, RemoveRefines DEF Promise!PNext
  <2>5. CASE Clear(c)
    BY <1>0, <2>5, EmptiedRefines DEF Clear, batchVars, Promise!PNext
  <2>6. CASE Read(c)
    BY <2>6, SameView DEF Read, workerVars, batchVars
  <2>7. CASE Destroy(c)
    BY <1>0, <2>7, EmptiedRefines DEF Destroy, batchVars, Promise!PNext
  <2> QED
    BY <1>1, <2>1, <2>2, <2>3, <2>4, <2>5, <2>6, <2>7 DEF Critical
<1>2. ASSUME NEW c \in Callers, Join(c) PROVE Promise!PNext \/ UNCHANGED Promise!pvars
  <2>1. Live = {}
    BY <1>2 DEF Join, IInv, DestructorStopped, JobsNeedAProcess
  <2>2. Live' = {} /\ process' = None /\ UNCHANGED <<nextId, written>>
    BY <1>2, <2>1 DEF Join, Live, workerVars, batchVars
  <2>3. Promise!Retarget
    BY <2>2 DEF Promise!Retarget, Promise!NoJobs
  <2> QED
    BY <2>3 DEF Promise!PNext
<1>3. ASSUME NEW c \in Callers, Call(c) PROVE UNCHANGED Promise!pvars
  BY <1>3, SameView DEF Call, workerVars, batchVars
<1>4. ASSUME LoopHead PROVE UNCHANGED Promise!pvars
  BY <1>4, SameView DEF LoopHead, Stop, WaitForWork, WaitUntilDue, StartBatch,
     workerVars, batchVars
<1>5. ASSUME BeginWrite PROVE UNCHANGED Promise!pvars
  BY <1>5, SameView DEF BeginWrite
<1>6. ASSUME WakeUp \/ Gone \/ UNCHANGED vars PROVE UNCHANGED Promise!pvars
  BY <1>6, SameView DEF WakeUp, Gone, vars, batchVars
<1> QED
  BY <1>1, <1>2, <1>3, <1>4, <1>5, <1>6, EndWriteRefines, TickRefines DEF Next, WriteStep

(* Worker, mutex, clock and condition variable included, the manager does nothing the
   promise does not allow: no write for a removed job or into an earlier process, no id
   given twice, no job altered. *)
THEOREM Refinement == Spec => KeepsPromise
BY InitRefines, StepRefines, Inductive, PTL DEF Spec, KeepsPromise, Promise!PSpec
=============================================================================
