----------------------------- MODULE LinkPromise -----------------------------
(***************************************************************************)
(* What the link to the engine promises to those who call through it: one  *)
(* call at a time, which the engine carries out once or not at all, and    *)
(* never after the call has returned; the caller learns what the engine    *)
(* did, or that the engine is lost and its session with it.  There are no  *)
(* processes, pipes or frames here.  ScanMirror, PointerMirror and Window  *)
(* take a call as one step on the strength of it.                          *)
(***************************************************************************)
CONSTANTS Targets,  \* processes one can attach to
          None

VARIABLES call,     \* the call under way, or None
          fate,     \* what became of it: "pending", "done", "refused" or "unknown"
          there,    \* an engine is at the other end
          attached, \* the process that engine is attached to, or None
          shown     \* the process the caller takes it to be attached to, or None

pvars == <<call, fate, there, attached, shown>>

Call == [kind : {"hello", "attach", "detach", "work", "shutdown"}, target : Targets \cup {None}]

PInit ==
    /\ call = None /\ fate = "pending"
    /\ ~there /\ attached = None /\ shown = None

\* A new engine is met only when the caller shows nothing of the one before.
Meet ==
    /\ ~there /\ call = None /\ shown = None
    /\ there'
    /\ UNCHANGED <<call, fate, attached, shown>>

Ask(c) ==
    /\ there /\ call = None
    /\ call' = c
    /\ UNCHANGED <<fate, there, attached, shown>>

\* What a call does to the session.
Carried(process, outcome) ==
    /\ attached' = process
    /\ fate' = outcome

\* The engine carries the call out.  An attach that fails leaves no session; one to no
\* process is refused and changes nothing.
CarryOut ==
    /\ there /\ call # None /\ fate = "pending"
    /\ \/ call.kind = "attach" /\ call.target # None /\ Carried(call.target, "done")
       \/ call.kind = "attach" /\ call.target # None /\ Carried(None, "refused")
       \/ call.kind = "attach" /\ call.target = None /\ Carried(attached, "refused")
       \/ call.kind = "detach" /\ Carried(None, "done")
       \/ call.kind \notin {"attach", "detach"} /\ Carried(attached, "done")
       \/ call.kind \in {"hello", "work"} /\ Carried(attached, "refused")
    /\ UNCHANGED <<call, there, shown>>

\* The engine ends, with its session; what it did may not be known any more.
Lose ==
    /\ there
    /\ ~there' /\ attached' = None
    /\ \/ call # None /\ fate' = "unknown"
       \/ (call = None \/ fate # "pending") /\ fate' = fate
    /\ UNCHANGED <<call, shown>>

\* The call returns, not before its fate is settled, and may close the connection.
Return ==
    /\ call # None /\ fate # "pending"
    /\ call' = None /\ fate' = "pending"
    /\ shown' = CASE fate = "done" /\ call.kind = "attach" -> call.target
                  [] fate = "done" /\ call.kind = "detach" -> None
                  [] OTHER                                 -> shown
    /\ \/ UNCHANGED <<there, attached>>
       \/ ~there' /\ attached' = None

\* The caller forgets an engine that is no longer there.
Forget ==
    /\ ~there /\ call = None
    /\ shown' = None
    /\ UNCHANGED <<call, fate, there, attached>>

\* The caller itself ends, whatever it was waiting for.
Abandon ==
    /\ call' = None /\ fate' = "pending"
    /\ ~there' /\ attached' = None
    /\ UNCHANGED shown

PNext ==
    \/ Meet
    \/ \E c \in Call : Ask(c)
    \/ CarryOut
    \/ Lose
    \/ Return
    \/ Forget
    \/ Abandon

PSpec == PInit /\ [][PNext]_pvars
=============================================================================
