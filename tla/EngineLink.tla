----------------------------- MODULE EngineLink -----------------------------
(***************************************************************************)
(* The frontend's EngineClient, the named pipe, and the cw-engine.exe      *)
(* processes it starts: src/src/EngineClient.cpp, src/src/EnginePipe.cpp   *)
(* and runEngine in src/src/EngineMain.cpp.                                *)
(*                                                                         *)
(* An engine is the process of one CreateProcess call and has a pipe name  *)
(* of its own.  Its request loop receives, handles, answers; the client's  *)
(* transact sends, then blocks in the read.  Engines crash, the owner dies *)
(* and TerminateProcess takes its time, all of it between any two steps.   *)
(* Of the session the link keeps the attached process; every request other *)
(* than Hello, Attach, Detach and Shutdown is "work", whose answer may be  *)
(* larger than a frame can be.  The engine's file may be of another        *)
(* version than the frontend, so either may refuse the other's greeting.   *)
(***************************************************************************)
EXTENDS Integers, Sequences

CONSTANTS Targets,     \* processes one can attach to
          MaxEngines,  \* bound: engine processes started in one behaviour
          MaxRequests, \* bound: requests sent to one engine, Shutdown apart
          None

ASSUME LinkBounds == MaxEngines \in Nat /\ MaxRequests \in Nat
ASSUME NoneIsNoTarget == None \notin Targets /\ None \notin Nat

VARIABLES at,       \* where each engine process is in runEngine
          session,  \* the process each engine is attached to
          reply,    \* the answer each engine is about to send
          doomed,   \* engines TerminateProcess was called on
          link,     \* the client's end of each pipe
          up, down, \* bytes in each pipe: requests, answers
          pc,       \* where the client is
          cur,      \* the engine behind engineProcess_ and pipe_
          request,  \* the request of the current transact
          nextId,   \* nextRequestId_
          mirror,   \* pid_ while attached_
          restart   \* the shutdown under way is the first half of start

engineVars == <<at, session, reply>>
pipeVars == <<link, up, down>>
clientVars == <<pc, cur, request, nextId, mirror, restart>>
vars == <<engineVars, doomed, pipeVars, clientVars>>

Engines == 1..MaxEngines
Kinds == {"hello", "attach", "detach", "work", "shutdown"}
Request == [id : Nat, kind : Kinds, target : Targets \cup {None}]
\* An attach to None is one with process number zero.  An answer echoes id and kind; ok is
\* FALSE for a failed attach or an error frame.
Answer == [id : Nat, kind : Kinds, target : Targets \cup {None}, ok : BOOLEAN, fits : BOOLEAN]

\* What a request asks for; None is what there is without one.
Call == [kind : Kinds, target : Targets \cup {None}]
ASSUME NoneIsNoCall == None \notin Call

Alive(g) == at[g] \notin {"none", "exited"}
EngineEndOpen(g) == Alive(g) /\ at[g] # "booting"

-----------------------------------------------------------------------------
(* The engine process: runEngine.                                          *)

\* EnginePipeServer::create, which may fail.
Boot(g) ==
    /\ at[g] = "booting"
    /\ \E place \in {"listening", "exited"} : at' = [at EXCEPT ![g] = place]
    /\ UNCHANGED <<session, reply, doomed, pipeVars, clientVars>>

\* accept(): ConnectNamedPipe waits, without a time limit, for a client that opens the
\* pipe; it fails when that client has closed it again.
Accept(g) ==
    /\ at[g] = "listening" /\ link[g] # "unopened"
    /\ at' = [at EXCEPT ![g] = IF link[g] = "open" THEN "greeting" ELSE "exited"]
    /\ UNCHANGED <<session, reply, doomed, pipeVars, clientVars>>

\* Mutant: handleDetach answers without detaching.
OutcomesKeepSession(g, r) ==
    CASE r.kind = "attach" /\ r.target # None -> {<<r.target, TRUE>>, <<None, FALSE>>}
      [] r.kind = "attach" /\ r.target = None -> {<<session[g], FALSE>>}
      [] r.kind \in {"hello", "work"}          -> {<<session[g], TRUE>>, <<session[g], FALSE>>}
      [] OTHER                                -> {<<session[g], TRUE>>}

\* The session after a request, and whether the request succeeded.  EngineSession::attach
\* detaches before it tries; an attach to no process is refused before it gets there.
Outcomes(g, r) ==
    CASE r.kind = "attach" /\ r.target # None -> {<<r.target, TRUE>>, <<None, FALSE>>}
      [] r.kind = "attach" /\ r.target = None -> {<<session[g], FALSE>>}
      [] r.kind = "detach"                    -> {<<None, TRUE>>}
      [] r.kind \in {"hello", "work"}          -> {<<session[g], TRUE>>, <<session[g], FALSE>>}
      [] OTHER                                -> {<<session[g], TRUE>>}

\* receive() and the dispatch of one request.
Handle(g) ==
    /\ at[g] \in {"greeting", "serving"} /\ up[g] # <<>>
    /\ LET r == Head(up[g]) IN
         \E outcome \in Outcomes(g, r), fits \in BOOLEAN :
            /\ r.kind # "work" => fits
            /\ session' = [session EXCEPT ![g] = outcome[1]]
            /\ reply' = [reply EXCEPT ![g] = [id |-> r.id, kind |-> r.kind, target |-> r.target,
                                              ok |-> outcome[2], fits |-> fits]]
    /\ up' = [up EXCEPT ![g] = Tail(@)]
    /\ at' = [at EXCEPT ![g] = "answering"]
    /\ UNCHANGED <<doomed, link, down, clientVars>>

\* Mutant: the loop goes on after a failed receive.
ReceiveRetried(g) ==
    /\ at[g] \in {"greeting", "serving"} /\ up[g] = <<>> /\ link[g] = "closed"
    /\ UNCHANGED vars

\* receive() fails once the client's end is closed and everything sent is read.
ReceiveEnds(g) ==
    /\ at[g] \in {"greeting", "serving"} /\ up[g] = <<>> /\ link[g] = "closed"
    /\ at' = [at EXCEPT ![g] = IF at[g] = "greeting" THEN "flushing" ELSE "leaving"]
    /\ UNCHANGED <<session, reply, doomed, pipeVars, clientVars>>

\* Mutant: the loop goes on after an answer that could not be sent.
SendAnswerGoesOn(g) ==
    /\ at[g] = "answering"
    /\ LET sent == reply[g].fits /\ link[g] = "open" IN
         /\ down' = IF sent THEN [down EXCEPT ![g] = Append(@, reply[g])] ELSE down
         /\ at' = [at EXCEPT ![g] = IF reply[g].kind = "shutdown" THEN "leaving" ELSE "serving"]
    /\ reply' = [reply EXCEPT ![g] = None]
    /\ UNCHANGED <<session, doomed, link, up, clientVars>>

\* send(): an answer beyond kEngineMaxPayloadSize, or a closed client, ends the loop; a
\* greeting that was refused or could not be answered ends the engine before it.
SendAnswer(g) ==
    /\ at[g] = "answering"
    /\ LET sent == reply[g].fits /\ link[g] = "open" IN
         /\ down' = IF sent THEN [down EXCEPT ![g] = Append(@, reply[g])] ELSE down
         /\ at' = [at EXCEPT ![g] =
                     CASE reply[g].kind = "hello"    -> IF sent /\ reply[g].ok THEN "serving" ELSE "flushing"
                       [] reply[g].kind = "shutdown" -> "leaving"
                       [] OTHER                      -> IF sent THEN "serving" ELSE "leaving"]
    /\ reply' = [reply EXCEPT ![g] = None]
    /\ UNCHANGED <<session, doomed, link, up, clientVars>>

\* engine.detach() after the loop.
Leave(g) ==
    /\ at[g] = "leaving"
    /\ at' = [at EXCEPT ![g] = "flushing"]
    /\ session' = [session EXCEPT ![g] = None]
    /\ UNCHANGED <<reply, doomed, pipeVars, clientVars>>

\* ~EnginePipeServer: FlushFileBuffers returns when the client has read everything or is
\* gone; then the pipe is disconnected and the process ends.
Flush(g) ==
    /\ at[g] = "flushing" /\ (down[g] = <<>> \/ link[g] = "closed")
    /\ at' = [at EXCEPT ![g] = "exited"]
    /\ UNCHANGED <<session, reply, doomed, pipeVars, clientVars>>

Killed(g) ==
    /\ Alive(g)
    /\ at' = [at EXCEPT ![g] = "exited"]
    /\ session' = [session EXCEPT ![g] = None]
    /\ reply' = [reply EXCEPT ![g] = None]
    /\ UNCHANGED <<doomed, pipeVars, clientVars>>

Crash(g) == g \notin doomed /\ Killed(g)
TerminationTakesEffect(g) == g \in doomed /\ Killed(g)

-----------------------------------------------------------------------------
(* The client: start, shutdown, transact and the calls that use it.        *)

PipeOpen == cur # None /\ link[cur] = "open"
ClosePipe == link' = [link EXCEPT ![cur] = "closed"]

\* The client's process handle is closed; terminate is whether TerminateProcess came first.
LetGo(terminate) ==
    /\ doomed' = IF terminate THEN doomed \cup {cur} ELSE doomed
    /\ cur' = None

\* Mutant: the engine is let go when the handshake fails.
RejectAndForget == ClosePipe /\ LetGo(FALSE)

\* The end of start after a handshake that failed.
Reject == ClosePipe /\ LetGo(TRUE)

\* What the caller of transact does with its result.
Returned(kind, ok, target) ==
    \/ /\ kind = "hello" /\ ok
       /\ pc' = "idle"
       /\ UNCHANGED <<doomed, link, cur, mirror>>
    \/ /\ kind = "hello" /\ ~ok
       /\ Reject
       /\ pc' = "idle"
       /\ UNCHANGED mirror
    \/ /\ kind = "shutdown"
       /\ ClosePipe
       /\ pc' = "reaping"
       /\ UNCHANGED <<doomed, cur, mirror>>
    \/ /\ kind \in {"attach", "detach", "work"}
       /\ pc' = "idle"
       /\ mirror' = CASE ok /\ kind = "attach" -> target
                      [] ok /\ kind = "detach" -> None
                      [] OTHER                 -> mirror
       /\ UNCHANGED <<doomed, link, cur>>

\* transact up to the end of send(), which fails when the engine's end is gone.
Transact(kind, target) ==
    LET r == [id |-> nextId, kind |-> kind, target |-> target] IN
    /\ nextId' = nextId + 1
    /\ request' = r
    /\ \/ /\ EngineEndOpen(cur)
          /\ up' = [up EXCEPT ![cur] = Append(@, r)]
          /\ pc' = "waiting"
          /\ UNCHANGED <<doomed, link, cur, mirror>>
       \/ /\ ~EngineEndOpen(cur)
          /\ Returned(kind, FALSE, None)
          /\ UNCHANGED up

\* The end of transact: an answer, which must echo the request's id.  That of a handshake
\* is looked at further, and may be one of another version.
Receive ==
    /\ pc = "waiting" /\ down[cur] # <<>>
    /\ \E accepted \in BOOLEAN :
         LET a == Head(down[cur]) IN
         /\ request.kind # "hello" => accepted
         /\ Returned(request.kind, a.id = request.id /\ a.ok /\ accepted, a.target)
    /\ down' = [down EXCEPT ![cur] = Tail(@)]
    /\ UNCHANGED <<engineVars, up, request, nextId, restart>>

\* Mutant: the read has a time limit.
ReceiveGivesUp ==
    /\ pc = "waiting" /\ down[cur] = <<>>
    /\ Returned(request.kind, FALSE, None)
    /\ UNCHANGED <<engineVars, up, down, request, nextId, restart>>

\* The read fails only when the engine's end is gone.
ReceiveFails ==
    /\ pc = "waiting" /\ down[cur] = <<>> /\ ~EngineEndOpen(cur)
    /\ Returned(request.kind, FALSE, None)
    /\ UNCHANGED <<engineVars, up, down, request, nextId, restart>>

\* attach, detach and every other call on a connected client.
CallEngine(kind, target) ==
    /\ pc = "idle" /\ PipeOpen /\ nextId <= MaxRequests
    /\ Transact(kind, target)
    /\ UNCHANGED <<engineVars, down, restart>>

\* shutdown(), called as such or by start().
BeginShutdown(thenStart) ==
    /\ pc = "idle"
    /\ thenStart => \E g \in Engines : at[g] = "none"
    /\ restart' = thenStart
    /\ \/ /\ PipeOpen
          /\ Transact("shutdown", None)
       \/ /\ ~PipeOpen
          /\ pc' = "reaping"
          /\ UNCHANGED <<doomed, link, up, cur, request, nextId, mirror>>
    /\ UNCHANGED <<engineVars, down>>

\* Mutant: TerminateProcess is called without looking whether there is an engine.
ReapAlwaysTerminates ==
    /\ pc = "reaping"
    /\ LetGo(TRUE)
    /\ mirror' = None
    /\ pc' = IF restart THEN "spawning" ELSE "idle"
    /\ UNCHANGED <<engineVars, pipeVars, request, nextId, restart>>

\* The rest of shutdown: three seconds for the engine to end, then TerminateProcess.
Reap ==
    /\ pc = "reaping"
    /\ LetGo(cur # None /\ Alive(cur))
    /\ mirror' = None
    /\ pc' = IF restart THEN "spawning" ELSE "idle"
    /\ UNCHANGED <<engineVars, pipeVars, request, nextId, restart>>

Spawn ==
    /\ pc = "spawning"
    /\ \E g \in Engines :
         /\ at[g] = "none" /\ \A h \in 1..(g - 1) : at[h] # "none"
         /\ at' = [at EXCEPT ![g] = "booting"]
         /\ cur' = g
    /\ pc' = "connecting"
    /\ UNCHANGED <<session, reply, doomed, pipeVars, request, nextId, mirror, restart>>

SpawnFails ==
    /\ pc = "spawning"
    /\ pc' = "idle"
    /\ UNCHANGED <<engineVars, doomed, pipeVars, cur, request, nextId, mirror, restart>>

Connect ==
    /\ pc = "connecting" /\ EngineEndOpen(cur)
    /\ link' = [link EXCEPT ![cur] = "open"]
    /\ nextId' = 1
    /\ pc' = "greeting"
    /\ UNCHANGED <<engineVars, doomed, up, down, cur, request, mirror, restart>>

\* Mutant: connect retries for ever.
ConnectForever ==
    /\ pc = "connecting"
    /\ UNCHANGED vars

\* connect() gives up, after five seconds or on an error.
ConnectTimesOut ==
    /\ pc = "connecting"
    /\ LetGo(TRUE)
    /\ pc' = "idle"
    /\ UNCHANGED <<engineVars, pipeVars, request, nextId, mirror, restart>>

Greet ==
    /\ pc = "greeting"
    /\ Transact("hello", None)
    /\ UNCHANGED <<engineVars, down, restart>>

\* The frontend process ends, by itself or not, wherever it is.
OwnerDies ==
    /\ pc # "dead"
    /\ pc' = "dead"
    /\ IF PipeOpen THEN ClosePipe ELSE UNCHANGED link
    /\ UNCHANGED <<engineVars, doomed, up, down, cur, request, nextId, mirror, restart>>

-----------------------------------------------------------------------------
Init ==
    /\ at = [g \in Engines |-> "none"]
    /\ session = [g \in Engines |-> None]
    /\ reply = [g \in Engines |-> None]
    /\ doomed = {}
    /\ link = [g \in Engines |-> "unopened"]
    /\ up = [g \in Engines |-> <<>>] /\ down = [g \in Engines |-> <<>>]
    /\ pc = "idle" /\ cur = None /\ nextId = 1 /\ mirror = None /\ restart = FALSE
    /\ request = None

EngineStep(g) ==
    \/ Boot(g) \/ Accept(g) \/ Handle(g) \/ ReceiveEnds(g) \/ SendAnswer(g)
    \/ Leave(g) \/ Flush(g)

\* What the client does without its caller.
ClientStep ==
    \/ Receive \/ ReceiveFails \/ Reap \/ Spawn \/ SpawnFails
    \/ Connect \/ ConnectTimesOut \/ Greet

ClientCall ==
    \/ \E t \in Targets \cup {None} : CallEngine("attach", t)
    \/ CallEngine("detach", None)
    \/ CallEngine("work", None)
    \/ \E thenStart \in BOOLEAN : BeginShutdown(thenStart)

Next ==
    \/ \E g \in Engines : EngineStep(g) \/ Crash(g) \/ TerminationTakesEffect(g)
    \/ ClientStep
    \/ ClientCall
    \/ OwnerDies

\* Processes that can run do, handlers end, and TerminateProcess takes effect.
Fairness ==
    /\ \A g \in Engines : WF_vars(EngineStep(g)) /\ WF_vars(TerminationTakesEffect(g))
    /\ WF_vars(ClientStep)

Spec == Init /\ [][Next]_vars
FairSpec == Spec /\ Fairness

-----------------------------------------------------------------------------
(* Properties.                                                             *)

(* Every variable stays within its type. *)
TypeOK ==
    /\ at \in [Engines -> {"none", "booting", "listening", "greeting", "serving",
                           "answering", "leaving", "flushing", "exited"}]
    /\ session \in [Engines -> Targets \cup {None}]
    /\ reply \in [Engines -> Answer \cup {None}]
    /\ doomed \subseteq Engines
    /\ link \in [Engines -> {"unopened", "open", "closed"}]
    /\ up \in [Engines -> Seq(Request)]
    /\ down \in [Engines -> Seq(Answer)]
    /\ pc \in {"idle", "spawning", "connecting", "greeting", "waiting", "reaping", "dead"}
    /\ cur \in Engines \cup {None}
    /\ request \in Request \cup {None}
    /\ nextId \in Nat
    /\ mirror \in Targets \cup {None}
    /\ restart \in BOOLEAN

(* Between calls the attached engine works on the process the frontend shows, so no  *)
(* later write reaches another one.  (The reverse fails: an attach that fails leaves *)
(* attached_ and pid_ of the process the engine has let go.)                         *)
WorksOnTheShownProcess ==
    pc = "idle" /\ PipeOpen /\ session[cur] # None => mirror = session[cur]

(* Between calls nothing is under way in the pipe of a live engine, so the next      *)
(* answer read is that of the next request sent.                                     *)
NoStaleAnswer ==
    pc = "idle" /\ PipeOpen /\ Alive(cur) => up[cur] = <<>> /\ down[cur] = <<>>

(* While the owner lives, an engine process it no longer holds a handle of is dead   *)
(* or has been terminated, however start, the handshake and shutdown ended.          *)
NoForgottenEngine ==
    pc # "dead" => \A g \in Engines : Alive(g) => g = cur \/ g \in doomed

\* The engine that will still read a request, or answer one.
Reached == PipeOpen /\ at[cur] \in {"listening", "greeting", "serving", "answering"}

\* What became of the request under way.
Fate ==
    LET told(a) == IF a.ok THEN "done" ELSE "refused" IN
    CASE pc # "waiting"                                             -> "pending"
      [] pc = "waiting" /\ down[cur] # <<>>                         -> told(Head(down[cur]))
      [] pc = "waiting" /\ down[cur] = <<>> /\ at[cur] = "answering" -> told(reply[cur])
      [] OTHER -> IF Reached THEN "pending" ELSE "unknown"

Asking == IF pc = "waiting" THEN [kind |-> request.kind, target |-> request.target] ELSE None
AttachedTo == IF Reached THEN session[cur] ELSE None

(* Processes, pipe and frames implement the promise of a call: the engine carries it *)
(* out at most once and not after it has returned, the caller learns what that call  *)
(* did, and only a lost engine leaves this unknown, whose session is gone as well.   *)
Promise == INSTANCE LinkPromise WITH
    call     <- Asking,
    fate     <- Fate,
    there    <- Reached,
    attached <- AttachedTo,
    shown    <- mirror

ServesEachCallOnce == Promise!PSpec

(* Every call returns, whatever the engine does. *)
CallsReturn == pc \notin {"idle", "dead"} ~> pc \in {"idle", "dead"}

(* An engine whose client got through to it ends after its owner. *)
ServingEngineEnds ==
    \A g \in Engines : (pc = "dead" /\ at[g] \in {"greeting", "serving", "answering"})
                         ~> at[g] = "exited"

(* docs/ENGINE_ARCHITECTURE.md: the engine terminates on owner death, and no orphan  *)
(* engine is left.                                                                   *)
NoOrphanEngine ==
    \A g \in Engines : (pc = "dead" /\ Alive(g)) ~> at[g] = "exited"
=============================================================================
