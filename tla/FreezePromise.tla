---------------------------- MODULE FreezePromise ----------------------------
(***************************************************************************)
(* What the freeze service promises, seen from outside: a target process   *)
(* it is bound to, a set of frozen cells with a numbered job each, and     *)
(* rewrites of those cells.  There is no thread, lock or clock here.       *)
(***************************************************************************)
EXTENDS Integers

CONSTANTS Targets,    \* processes the service can be bound to
          Addresses,
          Values,
          Intervals,  \* rewrite periods a job can have
          MaxId,      \* bound on the jobs ever created
          None

VARIABLES bound,      \* the process whose cells are rewritten, or None
          issued,     \* the ids handed out so far
          frozen,     \* id -> the cell, value and period of that job
          written     \* the last rewrite that reached a process, or None

pvars == <<bound, issued, frozen, written>>

Ids == 1..MaxId
Job == [address : Addresses, value : Values, interval : Intervals]
Rewritten == [target : Targets, address : Addresses, value : Values]

NoJobs == [i \in {} |-> None]

PInit ==
    /\ bound = None
    /\ issued = {}
    /\ frozen = NoJobs
    /\ written = None

\* Binding to a process, or to none, ends every job.
Retarget ==
    /\ bound' \in Targets \cup {None}
    /\ frozen' = NoJobs
    /\ UNCHANGED <<issued, written>>

\* A new job has an id nobody was ever given and a cell no other job has.
Freeze(i, job) ==
    /\ bound # None
    /\ i \notin issued
    /\ \A j \in DOMAIN frozen : frozen[j].address # job.address
    /\ issued' = issued \cup {i}
    /\ frozen' = [j \in DOMAIN frozen \cup {i} |-> IF j = i THEN job ELSE frozen[j]]
    /\ UNCHANGED <<bound, written>>

Thaw(gone) ==
    /\ frozen' = [j \in DOMAIN frozen \ gone |-> frozen[j]]
    /\ UNCHANGED <<bound, issued, written>>

\* Only a job that still exists is rewritten, and only in the bound process.
Rewrite(i) ==
    /\ bound # None
    /\ written' = [target |-> bound, address |-> frozen[i].address, value |-> frozen[i].value]
    /\ UNCHANGED <<bound, issued, frozen>>

PNext ==
    \/ Retarget
    \/ \E i \in Ids, job \in Job : Freeze(i, job)
    \/ \E gone \in SUBSET Ids : Thaw(gone)
    \/ \E i \in DOMAIN frozen : Rewrite(i)

PSpec == PInit /\ [][PNext]_pvars
=============================================================================
