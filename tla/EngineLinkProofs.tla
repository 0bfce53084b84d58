--------------------------- MODULE EngineLinkProofs ---------------------------
(***************************************************************************)
(* What TLAPS proves about EngineLink, for any number of engines and of    *)
(* requests and any targets: an answer read is that of the request sent,   *)
(* work reaches the process shown, no engine is forgotten, however         *)
(* engines, client and owner end, and EngineLink implements LinkPromise.   *)
(***************************************************************************)
EXTENDS EngineLink, SequenceTheorems, TLAPS

\* An engine about to send an answer has one.
RepliesHeld == \A g \in Engines : at[g] = "answering" => reply[g] \in Answer

\* No byte is in a pipe the client has not opened, and no engine without one attaches.
UnopenedIsEmpty ==
    \A g \in Engines :
        /\ at[g] = "none" => link[g] = "unopened"
        /\ link[g] = "unopened" =>
              /\ up[g] = <<>> /\ down[g] = <<>> /\ session[g] = None
              /\ at[g] \in {"none", "booting", "listening", "exited"}

\* Which engine the client has in each of its places.
PlacesHold ==
    /\ pc = "spawning" => cur = None /\ mirror = None
    /\ pc = "connecting" => cur # None /\ link[cur] = "unopened" /\ at[cur] # "none" /\ mirror = None
    /\ pc \in {"greeting", "waiting"} => PipeOpen
    /\ pc = "greeting" => mirror = None
    /\ PipeOpen => pc \in {"idle", "greeting", "waiting"}
    /\ PipeOpen => at[cur] \notin {"none", "booting"}

\* Answer a is to the request under way, and says what became of the session.
Answers(a) ==
    /\ a.id = request.id /\ a.kind = request.kind /\ a.target = request.target
    /\ a.kind # "work" => a.fits
    /\ a.kind = "attach" => session[cur] \in {None, IF a.ok THEN a.target ELSE mirror}
    /\ a.kind = "detach" => a.ok /\ session[cur] = None
    /\ a.kind \notin {"attach", "detach"} => session[cur] \in {None, mirror}

\* The engine leaves its loop, or ends before it, when it has sent a.
Parts(a) == a.kind = "shutdown" \/ (a.kind = "hello" /\ ~a.ok)

\* The engine behind the pipe is at rest.
Quiet ==
    /\ at[cur] \in {"serving", "exited"} \cup (IF pc = "greeting" THEN {"listening", "greeting"} ELSE {})
    /\ down[cur] = <<>>
    /\ Alive(cur) => up[cur] = <<>>
    /\ session[cur] \in {None, mirror}

\* The request under way is still in the pipe, or being answered, or answered, or the
\* engine ends without an answer.
Asked ==
    /\ request \in Request
    /\ request.kind = "hello" => mirror = None
    /\ \/ /\ up[cur] = <<request>> /\ down[cur] = <<>>
          /\ at[cur] \in {"listening", "greeting", "serving", "exited"}
          /\ session[cur] \in {None, mirror}
       \/ /\ up[cur] = <<>> /\ down[cur] = <<>>
          /\ at[cur] = "answering"
          /\ Answers(reply[cur])
       \/ /\ up[cur] = <<>> /\ Len(down[cur]) = 1
          /\ at[cur] \in IF Parts(Head(down[cur])) THEN {"leaving", "flushing", "exited"}
                         ELSE {"serving", "exited"}
          /\ Answers(Head(down[cur]))
       \/ /\ up[cur] = <<>> /\ down[cur] = <<>>
          /\ at[cur] \in {"leaving", "flushing", "exited"}

\* What client and engine are saying to each other over an open pipe.
Conversation ==
    PipeOpen =>
        /\ at[cur] \notin {"serving", "answering", "leaving"} => session[cur] = None
        /\ pc \in {"idle", "greeting"} => Quiet
        /\ pc = "waiting" => Asked

IInv ==
    /\ TypeOK
    /\ RepliesHeld
    /\ UnopenedIsEmpty
    /\ PlacesHold
    /\ Conversation
    /\ NoForgottenEngine

-----------------------------------------------------------------------------
(* Facts about the operators.                                              *)

(* What handling a request leaves: a session of some target or none, and for each kind *)
(* of request what the answer will tell of it.                                         *)
LEMMA OutcomesAre ==
    ASSUME TypeOK, NEW g \in Engines, NEW r \in Request, NEW outcome \in Outcomes(g, r)
    PROVE  /\ outcome[1] \in Targets \cup {None} /\ outcome[2] \in BOOLEAN
           /\ r.kind = "attach" => outcome[1] \in IF outcome[2] THEN {r.target} ELSE {None, session[g]}
           /\ r.kind = "attach" => (r.target = None => ~outcome[2] /\ outcome[1] = session[g])
           /\ r.kind = "attach" => (r.target # None => outcome[1] = IF outcome[2] THEN r.target ELSE None)
           /\ r.kind = "detach" => outcome[1] = None /\ outcome[2]
           /\ r.kind \notin {"attach", "detach"} => outcome[1] = session[g]
           /\ r.kind \notin {"hello", "attach", "work"} => outcome[2]
<1>1. r.kind \in Kinds /\ r.target \in Targets \cup {None} /\ session[g] \in Targets \cup {None}
  BY DEF TypeOK, Request
<1>2. CASE r.kind = "attach" /\ r.target # None
  <2>1. outcome = <<r.target, TRUE>> \/ outcome = <<None, FALSE>>
    BY <1>2 DEF Outcomes
  <2>2. CASE outcome = <<r.target, TRUE>>
    BY <1>1, <1>2, <2>2
  <2>3. CASE outcome = <<None, FALSE>>
    BY <1>1, <1>2, <2>3
  <2> QED
    BY <2>1, <2>2, <2>3
<1>3. CASE r.kind = "attach" /\ r.target = None
  <2>1. outcome = <<session[g], FALSE>>
    BY <1>3 DEF Outcomes
  <2> QED
    BY <1>1, <1>3, <2>1
<1>4. CASE r.kind = "detach"
  <2>1. outcome = <<None, TRUE>>
    BY <1>4 DEF Outcomes
  <2> QED
    BY <1>1, <1>4, <2>1
<1>5. CASE r.kind \in {"hello", "work"}
  <2>1. outcome = <<session[g], TRUE>> \/ outcome = <<session[g], FALSE>>
    BY <1>5 DEF Outcomes
  <2>2. CASE outcome = <<session[g], TRUE>>
    BY <1>1, <1>5, <2>2
  <2>3. CASE outcome = <<session[g], FALSE>>
    BY <1>1, <1>5, <2>3
  <2> QED
    BY <2>1, <2>2, <2>3
<1>6. CASE r.kind \notin {"hello", "attach", "detach", "work"}
  <2>1. outcome = <<session[g], TRUE>>
    BY <1>6 DEF Outcomes
  <2> QED
    BY <1>1, <1>6, <2>1
<1> QED
  BY <1>2, <1>4, <1>5, <1>6, <1>3

(* A queue of one: what is taken from it is all there was. *)
LEMMA QueueOfOne ==
    ASSUME NEW S, NEW e \in S
    PROVE  <<e>> # <<>> /\ Head(<<e>>) = e /\ Tail(<<e>>) = <<>> /\ Append(<<>>, e) = <<e>> /\ Len(<<e>>) = 1
OBVIOUS

(* Taking from a queue that is not empty. *)
LEMMA TakeFirst ==
    ASSUME NEW S, NEW q \in Seq(S), q # <<>>
    PROVE  Head(q) \in S /\ Tail(q) \in Seq(S) /\ (Len(q) = 1 => Tail(q) = <<>>)
<1>1. Head(q) \in S /\ Tail(q) \in Seq(S) /\ Len(Tail(q)) = Len(q) - 1
  BY HeadTailProperties
<1> QED
  BY <1>1, EmptySeq

-----------------------------------------------------------------------------
(* Frames.                                                                 *)

\* What the conversation is about: the client and the engine behind its pipe.
client == <<pc, cur, request, mirror>>
peer == <<at[cur], session[cur], reply[cur], link[cur], up[cur], down[cur]>>

(* What leaves the client and the engine behind its pipe alone leaves what they say to *)
(* each other.                                                                         *)
LEMMA ConversationKept ==
    ASSUME Conversation, UNCHANGED client, UNCHANGED peer
    PROVE  Conversation'
BY DEF Conversation, client, peer, PipeOpen, Quiet, Asked, Answers, Parts, Alive

(* Without an open pipe there is no conversation. *)
LEMMA NoPipeNoConversation ==
    ASSUME ~PipeOpen'
    PROVE  Conversation'
BY DEF Conversation

(* An engine that does not come to life, and a client that does not let go, forget none. *)
LEMMA NoneForgotten ==
    ASSUME NoForgottenEngine, UNCHANGED <<doomed, cur>>, pc' = "dead" \/ pc # "dead",
           \A g \in Engines : Alive(g)' => Alive(g)
    PROVE  NoForgottenEngine'
BY DEF NoForgottenEngine

-----------------------------------------------------------------------------
(* The steps of an engine.                                                 *)

(* Nothing has been started and nothing is in a pipe. *)
LEMMA Initially == Init => IInv
<1> SUFFICES ASSUME Init PROVE IInv
  OBVIOUS
<1>1. TypeOK
  <2>1. up \in [Engines -> Seq(Request)] /\ down \in [Engines -> Seq(Answer)]
    BY DEF Init
  <2>2. at \in [Engines -> {"none"}] /\ session \in [Engines -> {None}] /\ reply \in [Engines -> {None}]
    BY DEF Init
  <2>3. doomed \subseteq Engines /\ link \in [Engines -> {"unopened"}] /\ nextId \in Nat
    BY DEF Init
  <2> QED
    BY <2>1, <2>2, <2>3 DEF Init, TypeOK
<1>2. RepliesHeld /\ UnopenedIsEmpty /\ PlacesHold /\ NoForgottenEngine
  BY NoneIsNoTarget DEF Init, RepliesHeld, UnopenedIsEmpty, PlacesHold, NoForgottenEngine, PipeOpen, Alive
<1>3. Conversation
  BY DEF Init, Conversation, PipeOpen
<1> QED
  BY <1>1, <1>2, <1>3 DEF IInv

(* An engine that boots is not the one behind an open pipe. *)
LEMMA BootKeeps ==
    ASSUME IInv, NEW g \in Engines, Boot(g)
    PROVE  IInv'
<1>1. PICK place \in {"listening", "exited"} : at' = [at EXCEPT ![g] = place]
  BY DEF Boot
<1>2. /\ at[g] = "booting"
      /\ UNCHANGED <<session, reply, doomed, link, up, down, pc, cur, request, nextId, mirror, restart>>
  BY DEF Boot, pipeVars, clientVars
<1>3. TypeOK'
  BY <1>1, <1>2 DEF IInv, TypeOK
<1>4. RepliesHeld' /\ UnopenedIsEmpty' /\ PlacesHold'
  BY <1>1, <1>2 DEF IInv, TypeOK, RepliesHeld, UnopenedIsEmpty, PlacesHold, PipeOpen
<1>5. Conversation'
  <2>1. CASE PipeOpen
    <3>1. cur # g
      BY <1>2, <2>1 DEF IInv, PlacesHold
    <3> QED
      BY <1>1, <1>2, <2>1, <3>1, ConversationKept DEF IInv, TypeOK, client, peer, PipeOpen
  <2>2. CASE ~PipeOpen
    BY <1>2, <2>2, NoPipeNoConversation DEF PipeOpen
  <2> QED
    BY <2>1, <2>2
<1>6. NoForgottenEngine'
  BY <1>1, <1>2, NoneForgotten DEF IInv, TypeOK, Alive
<1> QED
  BY <1>3, <1>4, <1>5, <1>6 DEF IInv

(* An engine whose pipe is open is about to be greeted: nothing was said yet. *)
LEMMA AcceptKeeps ==
    ASSUME IInv, NEW g \in Engines, Accept(g)
    PROVE  IInv'
<1>1. PICK place \in {"greeting", "exited"} :
          at' = [at EXCEPT ![g] = place] /\ place = IF link[g] = "open" THEN "greeting" ELSE "exited"
  BY DEF Accept
<1>2. /\ at[g] = "listening" /\ link[g] # "unopened"
      /\ UNCHANGED <<session, reply, doomed, link, up, down, pc, cur, request, nextId, mirror, restart>>
  BY DEF Accept, pipeVars, clientVars
<1>3. TypeOK'
  BY <1>1, <1>2 DEF IInv, TypeOK
<1>4. RepliesHeld' /\ UnopenedIsEmpty' /\ PlacesHold'
  BY <1>1, <1>2 DEF IInv, TypeOK, RepliesHeld, UnopenedIsEmpty, PlacesHold, PipeOpen
<1>5. Conversation'
  <2>1. CASE cur # g /\ PipeOpen
    BY <1>1, <1>2, <2>1, ConversationKept DEF IInv, TypeOK, client, peer, PipeOpen
  <2>2. CASE cur = g /\ PipeOpen
    <3>1. at'[cur] = "greeting"
      BY <1>1, <2>2 DEF IInv, TypeOK, PipeOpen
    <3> QED
      BY <1>2, <2>2, <3>1 DEF IInv, Conversation, PipeOpen, Quiet, Asked, Answers, Alive
  <2>3. CASE ~PipeOpen
    BY <1>2, <2>3, NoPipeNoConversation DEF PipeOpen
  <2> QED
    BY <2>1, <2>2, <2>3
<1>6. NoForgottenEngine'
  BY <1>1, <1>2, NoneForgotten DEF IInv, TypeOK, Alive
<1> QED
  BY <1>3, <1>4, <1>5, <1>6 DEF IInv

(* The answer to be sent is to the request that was taken from the pipe. *)
LEMMA HandleKeeps ==
    ASSUME IInv, NEW g \in Engines, Handle(g)
    PROVE  IInv'
<1> DEFINE r == Head(up[g])
<1>1. up[g] # <<>> /\ at[g] \in {"greeting", "serving"}
  BY DEF Handle
<1>2. r \in Request /\ Tail(up[g]) \in Seq(Request)
  BY <1>1, TakeFirst DEF IInv, TypeOK
<1>3. PICK outcome \in Outcomes(g, r), fits \in BOOLEAN :
        /\ r.kind # "work" => fits
        /\ session' = [session EXCEPT ![g] = outcome[1]]
        /\ reply' = [reply EXCEPT ![g] = [id |-> r.id, kind |-> r.kind, target |-> r.target,
                                          ok |-> outcome[2], fits |-> fits]]
  BY DEF Handle
<1> DEFINE a == [id |-> r.id, kind |-> r.kind, target |-> r.target, ok |-> outcome[2], fits |-> fits]
<1>4. /\ up' = [up EXCEPT ![g] = Tail(up[g])]
      /\ at' = [at EXCEPT ![g] = "answering"]
      /\ UNCHANGED <<doomed, link, down, pc, cur, request, nextId, mirror, restart>>
  BY DEF Handle, clientVars
<1>5. /\ outcome[1] \in Targets \cup {None} /\ outcome[2] \in BOOLEAN
      /\ r.kind = "attach" => outcome[1] \in IF outcome[2] THEN {r.target} ELSE {None, session[g]}
      /\ r.kind = "detach" => outcome[1] = None /\ outcome[2]
      /\ r.kind \notin {"attach", "detach"} => outcome[1] = session[g]
      /\ r.kind \notin {"hello", "attach", "work"} => outcome[2]
  BY <1>2, OutcomesAre DEF IInv
<1>6. a \in Answer
  BY <1>2, <1>5 DEF Request, Answer
<1>7. reply' = [reply EXCEPT ![g] = a] /\ (r.kind # "work" => fits)
      /\ session' = [session EXCEPT ![g] = outcome[1]]
  BY <1>3
<1>8. a.id = r.id /\ a.kind = r.kind /\ a.target = r.target /\ a.ok = outcome[2] /\ a.fits = fits
  OBVIOUS
<1> HIDE DEF r, a
<1>9. TypeOK'
  BY <1>2, <1>4, <1>5, <1>6, <1>7 DEF IInv, TypeOK
<1>10. RepliesHeld' /\ UnopenedIsEmpty' /\ PlacesHold'
  BY <1>1, <1>4, <1>6, <1>7 DEF IInv, TypeOK, RepliesHeld, UnopenedIsEmpty, PlacesHold, PipeOpen
<1>11. Conversation'
  <2>1. CASE cur # g /\ PipeOpen
    BY <1>4, <1>7, <2>1, ConversationKept DEF IInv, TypeOK, client, peer, PipeOpen
  <2>2. CASE cur = g /\ PipeOpen
    <3>1. pc = "waiting"
      BY <1>1, <2>2 DEF IInv, PlacesHold, Conversation, Quiet, Alive
    <3>2. /\ up[g] = <<request>> /\ down[g] = <<>> /\ session[g] \in {None, mirror}
          /\ request \in Request /\ (request.kind = "hello" => mirror = None)
      BY <1>1, <2>2, <3>1 DEF IInv, Conversation, Asked
    <3>3. r = request /\ Tail(up[g]) = <<>>
      BY <3>2, QueueOfOne DEF r
    <3>4. /\ up'[g] = <<>> /\ down'[g] = <<>> /\ at'[g] = "answering"
          /\ session'[g] = outcome[1] /\ reply'[g] = a
      BY <1>4, <1>7, <3>2, <3>3 DEF IInv, TypeOK
    <3>5. Answers(reply[cur])'
      BY <1>4, <1>5, <1>7, <1>8, <2>2, <3>2, <3>3, <3>4 DEF Answers
    <3>6. Asked'
      BY <1>4, <2>2, <3>2, <3>4, <3>5 DEF Asked
    <3> QED
      BY <1>4, <2>2, <3>1, <3>4, <3>6 DEF Conversation, PipeOpen
  <2>3. CASE ~PipeOpen
    BY <1>4, <2>3, NoPipeNoConversation DEF PipeOpen
  <2> QED
    BY <2>1, <2>2, <2>3
<1>12. NoForgottenEngine'
  BY <1>1, <1>4, NoneForgotten DEF IInv, TypeOK, Alive
<1> QED
  BY <1>9, <1>10, <1>11, <1>12 DEF IInv

(* An engine stops receiving only when its pipe is closed. *)
LEMMA ReceiveEndsKeeps ==
    ASSUME IInv, NEW g \in Engines, ReceiveEnds(g)
    PROVE  IInv'
<1>1. PICK place \in {"flushing", "leaving"} : at' = [at EXCEPT ![g] = place]
  BY DEF ReceiveEnds
<1>2. /\ at[g] \in {"greeting", "serving"} /\ link[g] = "closed"
      /\ UNCHANGED <<session, reply, doomed, link, up, down, pc, cur, request, nextId, mirror, restart>>
  BY DEF ReceiveEnds, pipeVars, clientVars
<1>3. TypeOK'
  BY <1>1, <1>2 DEF IInv, TypeOK
<1>4. RepliesHeld' /\ UnopenedIsEmpty' /\ PlacesHold'
  BY <1>1, <1>2 DEF IInv, TypeOK, RepliesHeld, UnopenedIsEmpty, PlacesHold, PipeOpen
<1>5. Conversation'
  <2>1. CASE cur # g /\ PipeOpen
    BY <1>1, <1>2, <2>1, ConversationKept DEF IInv, TypeOK, client, peer, PipeOpen
  <2>2. CASE cur = g \/ ~PipeOpen
    BY <1>2, <2>2, NoPipeNoConversation DEF PipeOpen
  <2> QED
    BY <2>1, <2>2
<1>6. NoForgottenEngine'
  BY <1>1, <1>2, NoneForgotten DEF IInv, TypeOK, Alive
<1> QED
  BY <1>3, <1>4, <1>5, <1>6 DEF IInv

(* Only an answer to "work" can be too large, and only "shutdown" and a refused greeting *)
(* end the engine; whatever else is answered finds it serving again.                     *)
LEMMA SendAnswerKeeps ==
    ASSUME IInv, NEW g \in Engines, SendAnswer(g)
    PROVE  IInv'
<1> DEFINE a == reply[g]
           sent == a.fits /\ link[g] = "open"
<1>1. /\ at[g] = "answering" /\ a \in Answer
      /\ UNCHANGED <<session, doomed, link, up, pc, cur, request, nextId, mirror, restart>>
  BY DEF SendAnswer, clientVars, IInv, RepliesHeld
<1>2. reply' = [reply EXCEPT ![g] = None]
  BY DEF SendAnswer
<1>3. down' = IF sent THEN [down EXCEPT ![g] = Append(down[g], a)] ELSE down
  BY DEF SendAnswer
<1>4. PICK place \in {"serving", "flushing", "leaving"} :
        /\ at' = [at EXCEPT ![g] = place]
        /\ place = "serving" <=> sent /\ ~Parts(a)
        /\ place = "flushing" => a.kind = "hello"
        /\ ~sent /\ a.kind # "hello" => place = "leaving"
  <2> DEFINE place == CASE a.kind = "hello"    -> IF sent /\ a.ok THEN "serving" ELSE "flushing"
                        [] a.kind = "shutdown" -> "leaving"
                        [] OTHER               -> IF sent THEN "serving" ELSE "leaving"
  <2>1. at' = [at EXCEPT ![g] = place]
    BY DEF SendAnswer
  <2>2. /\ place \in {"serving", "flushing", "leaving"}
        /\ place = "serving" <=> sent /\ ~Parts(a)
        /\ place = "flushing" => a.kind = "hello"
        /\ ~sent /\ a.kind # "hello" => place = "leaving"
    BY DEF Parts
  <2> QED
    BY <2>1, <2>2
<1> HIDE DEF a
<1>5. Append(down[g], a) \in Seq(Answer) /\ down[g] \in Seq(Answer)
  BY <1>1, AppendProperties DEF IInv, TypeOK
<1>6. TypeOK'
  BY <1>1, <1>2, <1>3, <1>4, <1>5 DEF IInv, TypeOK
<1>7. link[g] # "unopened"
  BY <1>1 DEF IInv, UnopenedIsEmpty
<1>8. RepliesHeld' /\ UnopenedIsEmpty' /\ PlacesHold'
  <2>1. \A h \in Engines : h # g => at'[h] = at[h] /\ reply'[h] = reply[h] /\ down'[h] = down[h]
    BY <1>2, <1>3, <1>4 DEF IInv, TypeOK
  <2>2. at'[g] = place
    BY <1>4 DEF IInv, TypeOK
  <2> QED
    BY <1>1, <1>4, <1>7, <2>1, <2>2 DEF IInv, TypeOK, RepliesHeld, UnopenedIsEmpty, PlacesHold, PipeOpen
<1>9. Conversation'
  <2>1. CASE cur # g /\ PipeOpen
    BY <1>1, <1>2, <1>3, <1>4, <2>1, ConversationKept DEF IInv, TypeOK, client, peer, PipeOpen
  <2>2. CASE cur = g /\ PipeOpen
    <3>1. pc = "waiting"
      BY <1>1, <2>2 DEF IInv, PlacesHold, Conversation, Quiet, Alive
    <3>2. /\ up[g] = <<>> /\ down[g] = <<>> /\ Answers(a) /\ request \in Request
          /\ request.kind = "hello" => mirror = None
      BY <1>1, <2>2, <3>1 DEF IInv, Conversation, Asked, a
    <3>3. at'[g] = place /\ up'[g] = <<>> /\ session'[g] = session[g]
      BY <1>1, <1>4, <3>2 DEF IInv, TypeOK
    <3>4. CASE sent
      <4>1. down'[g] = <<a>>
        BY <1>3, <3>2, <3>4 DEF IInv, TypeOK
      <4>2. Len(down'[g]) = 1 /\ Head(down'[g]) = a
        BY <1>1, <4>1, QueueOfOne
      <4>3. Answers(Head(down[cur]))'
        BY <1>1, <2>2, <3>2, <3>3, <4>2 DEF Answers
      <4>4. place \in IF Parts(a) THEN {"leaving", "flushing", "exited"} ELSE {"serving", "exited"}
        BY <1>4, <3>4
      <4>5. Asked'
        BY <1>1, <2>2, <3>2, <3>3, <4>2, <4>3, <4>4 DEF Asked
      <4>6. (at[cur] \notin {"serving", "answering", "leaving"} => session[cur] = None)'
        BY <1>1, <1>4, <2>2, <3>2, <3>3, <3>4 DEF Answers
      <4> QED
        BY <1>1, <2>2, <3>1, <4>5, <4>6 DEF Conversation, PipeOpen
    <3>5. CASE ~sent
      <4>1. a.kind = "work" /\ place = "leaving" /\ down' = down
        BY <1>3, <1>4, <2>2, <3>2, <3>5 DEF Answers, PipeOpen
      <4>2. Asked'
        BY <1>1, <2>2, <3>2, <3>3, <4>1 DEF Asked
      <4> QED
        BY <1>1, <2>2, <3>1, <3>3, <4>1, <4>2 DEF Conversation, PipeOpen
    <3> QED
      BY <3>4, <3>5
  <2>3. CASE ~PipeOpen
    BY <1>1, <2>3, NoPipeNoConversation DEF PipeOpen
  <2> QED
    BY <2>1, <2>2, <2>3
<1>10. NoForgottenEngine'
  BY <1>1, <1>4, NoneForgotten DEF IInv, TypeOK, Alive
<1> QED
  BY <1>6, <1>8, <1>9, <1>10 DEF IInv

(* An engine that leaves its loop has lost its session; the client learns it by itself. *)
LEMMA LeaveKeeps ==
    ASSUME IInv, NEW g \in Engines, Leave(g)
    PROVE  IInv'
<1>1. /\ at[g] = "leaving" /\ at' = [at EXCEPT ![g] = "flushing"]
      /\ session' = [session EXCEPT ![g] = None]
      /\ UNCHANGED <<reply, doomed, link, up, down, pc, cur, request, nextId, mirror, restart>>
  BY DEF Leave, pipeVars, clientVars
<1>2. TypeOK'
  BY <1>1 DEF IInv, TypeOK
<1>3. RepliesHeld' /\ UnopenedIsEmpty' /\ PlacesHold'
  BY <1>1 DEF IInv, TypeOK, RepliesHeld, UnopenedIsEmpty, PlacesHold, PipeOpen
<1>4. Conversation'
  <2>1. CASE cur # g /\ PipeOpen
    BY <1>1, <2>1, ConversationKept DEF IInv, TypeOK, client, peer, PipeOpen
  <2>2. CASE cur = g /\ PipeOpen
    <3>1. pc = "waiting"
      BY <1>1, <2>2 DEF IInv, PlacesHold, Conversation, Quiet
    <3>2. at'[cur] = "flushing" /\ session'[cur] = None
      BY <1>1, <2>2 DEF IInv, TypeOK
    <3>3. Asked'
      BY <1>1, <2>2, <3>1, <3>2 DEF IInv, Conversation, Asked, Answers
    <3> QED
      BY <1>1, <3>1, <3>2, <3>3 DEF Conversation
  <2>3. CASE ~PipeOpen
    BY <1>1, <2>3, NoPipeNoConversation DEF PipeOpen
  <2> QED
    BY <2>1, <2>2, <2>3
<1>5. NoForgottenEngine'
  BY <1>1, NoneForgotten DEF IInv, TypeOK, Alive
<1> QED
  BY <1>2, <1>3, <1>4, <1>5 DEF IInv

(* The last step of an engine, or its end at any other moment. *)
LEMMA EndKeeps ==
    ASSUME IInv, NEW g \in Engines, Alive(g),
           at' = [at EXCEPT ![g] = "exited"],
           \/ at[g] = "flushing" /\ UNCHANGED <<session, reply>>
           \/ session' = [session EXCEPT ![g] = None] /\ reply' = [reply EXCEPT ![g] = None],
           UNCHANGED <<doomed, pipeVars, clientVars>>
    PROVE  IInv'
<1>1. UNCHANGED <<doomed, link, up, down, pc, cur, request, nextId, mirror, restart>>
  BY DEF pipeVars, clientVars
<1>2. TypeOK'
  BY <1>1 DEF IInv, TypeOK
<1>3. RepliesHeld' /\ UnopenedIsEmpty' /\ PlacesHold'
  BY <1>1 DEF IInv, TypeOK, RepliesHeld, UnopenedIsEmpty, PlacesHold, PipeOpen, Alive
<1>4. Conversation'
  <2>1. CASE cur # g /\ PipeOpen
    <3>1. at'[cur] = at[cur] /\ session'[cur] = session[cur] /\ reply'[cur] = reply[cur]
      BY <2>1 DEF IInv, TypeOK, PipeOpen
    <3> QED
      BY <1>1, <3>1, ConversationKept DEF IInv, client, peer
  <2>2. CASE cur = g /\ PipeOpen
    <3>1. at'[cur] = "exited" /\ session'[cur] = None
      BY <2>2 DEF IInv, TypeOK, Conversation
    <3>2. pc \in {"idle", "greeting"} => Quiet'
      BY <1>1, <2>2, <3>1 DEF IInv, Conversation, Quiet, Alive
    <3>3. pc = "waiting" => Asked'
      BY <1>1, <2>2, <3>1 DEF IInv, Conversation, Asked, Answers
    <3> QED
      BY <1>1, <3>1, <3>2, <3>3 DEF Conversation
  <2>3. CASE ~PipeOpen
    BY <1>1, <2>3, NoPipeNoConversation DEF PipeOpen
  <2> QED
    BY <2>1, <2>2, <2>3
<1>5. NoForgottenEngine'
  BY <1>1, NoneForgotten DEF IInv, TypeOK, Alive
<1> QED
  BY <1>2, <1>3, <1>4, <1>5 DEF IInv

(* The two ways an engine ends. *)
LEMMA FlushKeeps ==
    ASSUME IInv, NEW g \in Engines, Flush(g)
    PROVE  IInv'
BY EndKeeps DEF Flush, Alive

LEMMA KilledKeeps ==
    ASSUME IInv, NEW g \in Engines, Killed(g)
    PROVE  IInv'
BY EndKeeps DEF Killed

-----------------------------------------------------------------------------
(* The steps of the client.                                                *)

(* The end of a call.  After any but a shutdown the engine is at rest, and has the     *)
(* session the client shows or none.                                                   *)
LEMMA ReturnedKeeps ==
    ASSUME IInv, PipeOpen, NEW kind \in Kinds, NEW ok \in BOOLEAN, NEW t \in Targets \cup {None},
           Returned(kind, ok, t),
           UNCHANGED <<at, session, reply, up>>,
           restart' \in BOOLEAN, nextId' \in Nat, request' \in Request,
           down' \in [Engines -> Seq(Answer)],
           \A g \in Engines : g # cur => down'[g] = down[g],
           kind # "shutdown" /\ (kind = "hello" => ok) =>
              /\ at[cur] \in {"serving", "exited"}
              /\ down'[cur] = <<>>
              /\ Alive(cur) => up[cur] = <<>>
              /\ session[cur] \in {None, mirror'}
    PROVE  IInv'
<1>1. cur \in Engines /\ link[cur] = "open" /\ at[cur] \notin {"none", "booting"} /\ cur # None
  BY DEF PipeOpen, IInv, TypeOK, PlacesHold
<1>2. CASE kind \in {"attach", "detach", "work"} \/ (kind = "hello" /\ ok)
  <2>1. UNCHANGED <<doomed, link, cur>> /\ pc' = "idle" /\ mirror' \in Targets \cup {None}
    <3>1. CASE kind = "hello" /\ ok
      BY <3>1 DEF Returned, IInv, TypeOK
    <3>2. CASE kind \in {"attach", "detach", "work"}
      BY <3>2 DEF Returned, IInv, TypeOK
    <3> QED
      BY <1>2, <3>1, <3>2
  <2>2. TypeOK'
    BY <2>1 DEF IInv, TypeOK
  <2>3. RepliesHeld' /\ UnopenedIsEmpty' /\ PlacesHold'
    BY <1>1, <2>1 DEF IInv, RepliesHeld, UnopenedIsEmpty, PlacesHold, PipeOpen
  <2>4. Conversation'
    BY <1>1, <1>2, <2>1 DEF IInv, Conversation, PipeOpen, Quiet, Alive
  <2>5. NoForgottenEngine'
    BY <1>1, <2>1 DEF IInv, NoForgottenEngine, PlacesHold, Alive
  <2> QED
    BY <2>2, <2>3, <2>4, <2>5 DEF IInv
<1>3. CASE kind = "hello" /\ ~ok
  <2>1. /\ link' = [link EXCEPT ![cur] = "closed"] /\ doomed' = doomed \cup {cur} /\ cur' = None
        /\ pc' = "idle" /\ mirror' = mirror
    BY <1>3 DEF Returned, Reject, LetGo, ClosePipe
  <2>2. TypeOK'
    BY <1>1, <2>1 DEF IInv, TypeOK
  <2>3. RepliesHeld' /\ UnopenedIsEmpty' /\ PlacesHold'
    BY <1>1, <2>1 DEF IInv, TypeOK, RepliesHeld, UnopenedIsEmpty, PlacesHold, PipeOpen
  <2>4. Conversation'
    BY <2>1, NoPipeNoConversation DEF PipeOpen
  <2>5. NoForgottenEngine'
    BY <1>1, <2>1 DEF IInv, NoForgottenEngine, PlacesHold, PipeOpen, Alive
  <2> QED
    BY <2>2, <2>3, <2>4, <2>5 DEF IInv
<1>4. CASE kind = "shutdown"
  <2>1. /\ link' = [link EXCEPT ![cur] = "closed"] /\ UNCHANGED <<doomed, cur, mirror>> /\ pc' = "reaping"
    BY <1>4 DEF Returned, ClosePipe
  <2>2. TypeOK'
    BY <1>1, <2>1 DEF IInv, TypeOK
  <2>3. ~PipeOpen'
    BY <1>1, <2>1 DEF IInv, TypeOK, PipeOpen
  <2>4. RepliesHeld' /\ UnopenedIsEmpty' /\ PlacesHold'
    BY <1>1, <2>1, <2>3 DEF IInv, TypeOK, RepliesHeld, UnopenedIsEmpty, PlacesHold
  <2>5. NoForgottenEngine'
    BY <1>1, <2>1 DEF IInv, NoForgottenEngine, PlacesHold, PipeOpen, Alive
  <2> QED
    BY <2>2, <2>3, <2>4, <2>5, NoPipeNoConversation DEF IInv
<1> QED
  BY <1>2, <1>3, <1>4 DEF Kinds

(* A request is sent to an engine at rest, or finds that it has ended. *)
LEMMA TransactKeeps ==
    ASSUME IInv, PipeOpen, pc \in {"idle", "greeting"},
           NEW kind \in Kinds, NEW t \in Targets \cup {None}, Transact(kind, t),
           kind = "hello" => mirror = None,
           UNCHANGED <<at, session, reply, down>>, restart' \in BOOLEAN
    PROVE  IInv'
<1> DEFINE r == [id |-> nextId, kind |-> kind, target |-> t]
<1>1. r \in Request /\ nextId' \in Nat /\ request' = r
  BY DEF Transact, Request, IInv, TypeOK
<1>2. r.kind = kind
  OBVIOUS
<1>3. cur \in Engines /\ link[cur] = "open" /\ at[cur] \notin {"none", "booting"} /\ cur # None
  BY DEF PipeOpen, IInv, TypeOK, PlacesHold
<1>4. Quiet
  BY DEF IInv, Conversation
<1> HIDE DEF r
<1>5. CASE EngineEndOpen(cur)
  <2>1. up' = [up EXCEPT ![cur] = Append(up[cur], r)] /\ pc' = "waiting" /\ UNCHANGED <<doomed, link, cur, mirror>>
    BY <1>5 DEF Transact, r
  <2>2. up[cur] = <<>> /\ down[cur] = <<>> /\ at[cur] \in {"listening", "greeting", "serving"}
    BY <1>4, <1>5 DEF Quiet, EngineEndOpen, Alive
  <2>3. up'[cur] = <<r>> /\ <<r>> \in Seq(Request)
    BY <1>1, <1>3, <2>1, <2>2 DEF IInv, TypeOK
  <2>4. up' = [up EXCEPT ![cur] = <<r>>]
    BY <1>1, <2>1, <2>2, QueueOfOne
  <2>5. TypeOK'
    BY <1>1, <2>1, <2>3, <2>4 DEF IInv, TypeOK
  <2>6. RepliesHeld' /\ UnopenedIsEmpty' /\ PlacesHold'
    BY <1>3, <2>1, <2>4 DEF IInv, TypeOK, RepliesHeld, UnopenedIsEmpty, PlacesHold, PipeOpen
  <2>7. Asked'
    BY <1>1, <1>4, <1>2, <2>1, <2>2, <2>3 DEF Asked, Quiet
  <2>8. Conversation'
    BY <1>3, <2>1, <2>7 DEF IInv, Conversation, PipeOpen
  <2>9. NoForgottenEngine'
    BY <2>1 DEF IInv, NoForgottenEngine, Alive
  <2> QED
    BY <2>5, <2>6, <2>8, <2>9 DEF IInv
<1>6. CASE ~EngineEndOpen(cur)
  <2>1. Returned(kind, FALSE, None) /\ UNCHANGED up
    BY <1>6 DEF Transact
  <2>2. at[cur] = "exited" /\ session[cur] = None /\ down[cur] = <<>> /\ ~Alive(cur)
    BY <1>3, <1>4, <1>6 DEF Quiet, EngineEndOpen, Alive, IInv, Conversation
  <2>3. down' \in [Engines -> Seq(Answer)]
    BY DEF IInv, TypeOK
  <2> QED
    BY <1>1, <2>1, <2>2, <2>3, ReturnedKeeps
<1> QED
  BY <1>5, <1>6

(* What is read is the answer to the request under way. *)
LEMMA ReceiveKeeps ==
    ASSUME IInv, Receive
    PROVE  IInv'
<1> DEFINE a == Head(down[cur])
<1>1. PICK accepted \in BOOLEAN :
      /\ pc = "waiting" /\ down[cur] # <<>> /\ PipeOpen
      /\ request.kind # "hello" => accepted
      /\ Returned(request.kind, a.id = request.id /\ a.ok /\ accepted, a.target)
      /\ down' = [down EXCEPT ![cur] = Tail(down[cur])]
      /\ UNCHANGED <<at, session, reply, up, request, nextId, restart>>
  BY DEF Receive, IInv, PlacesHold, engineVars
<1>2. cur \in Engines /\ down[cur] \in Seq(Answer)
  BY <1>1 DEF PipeOpen, IInv, TypeOK
<1>3. a \in Answer /\ Tail(down[cur]) \in Seq(Answer) /\ (Len(down[cur]) = 1 => Tail(down[cur]) = <<>>)
  BY <1>1, <1>2, TakeFirst
<1>4. /\ request \in Request /\ up[cur] = <<>> /\ Len(down[cur]) = 1 /\ Answers(a)
      /\ ~Parts(a) => at[cur] \in {"serving", "exited"}
  BY <1>1 DEF IInv, Conversation, Asked
<1> DEFINE ok == a.ok /\ accepted
<1>5. request.kind \in Kinds /\ a.kind = request.kind /\ a.id = request.id
      /\ a.ok \in BOOLEAN /\ ok \in BOOLEAN /\ a.target \in Targets \cup {None}
  BY <1>3, <1>4 DEF Request, Answer, Answers
<1>6. Returned(request.kind, ok, a.target)
  <2>1. (a.id = request.id /\ a.ok /\ accepted) = ok
    BY <1>5
  <2> QED
    BY <1>1, <2>1, Zenon
<1>7. /\ request.kind # "hello" => ok = a.ok
      /\ request.kind # "shutdown" /\ (request.kind = "hello" => ok) => ~Parts(a)
  BY <1>1, <1>5 DEF Parts
<1> HIDE DEF ok
<1>8. request.kind # "shutdown" => session[cur] \in {None, mirror'}
  <2>1. CASE request.kind = "attach"
    BY <1>4, <1>5, <1>6, <1>7, <2>1 DEF Returned, Reject, Answers
  <2>2. CASE request.kind = "detach"
    BY <1>4, <1>5, <1>6, <1>7, <2>2 DEF Returned, Reject, Answers
  <2>3. CASE request.kind \in {"work", "hello"}
    BY <1>4, <1>5, <1>6, <1>7, <2>3 DEF Returned, Reject, Answers
  <2> QED
    BY <1>5, <2>1, <2>2, <2>3 DEF Kinds
<1>9. /\ down' \in [Engines -> Seq(Answer)] /\ down'[cur] = <<>>
      /\ \A g \in Engines : g # cur => down'[g] = down[g]
  BY <1>1, <1>2, <1>3, <1>4 DEF IInv, TypeOK
<1>10. restart' \in BOOLEAN /\ nextId' \in Nat /\ request' \in Request
  BY <1>1, <1>4 DEF IInv, TypeOK
<1> HIDE DEF a
<1> QED
  BY <1>1, <1>4, <1>5, <1>6, <1>7, <1>8, <1>9, <1>10, ReturnedKeeps

(* The engine has ended without an answer. *)
LEMMA ReceiveFailsKeeps ==
    ASSUME IInv, ReceiveFails
    PROVE  IInv'
<1>1. /\ pc = "waiting" /\ down[cur] = <<>> /\ PipeOpen /\ ~EngineEndOpen(cur)
      /\ Returned(request.kind, FALSE, None)
      /\ UNCHANGED <<at, session, reply, up, down, request, nextId, restart>>
  BY DEF ReceiveFails, IInv, PlacesHold, engineVars
<1>2. at[cur] = "exited" /\ session[cur] = None /\ request \in Request
  BY <1>1 DEF IInv, PlacesHold, Conversation, Asked, EngineEndOpen, Alive
<1>3. request.kind \in Kinds
  BY <1>2 DEF Request
<1>4. down' \in [Engines -> Seq(Answer)] /\ restart' \in BOOLEAN /\ nextId' \in Nat
  BY <1>1 DEF IInv, TypeOK
<1> QED
  BY <1>1, <1>2, <1>3, <1>4, ReturnedKeeps DEF Alive

(* Every call is a transaction. *)
LEMMA CallKeeps ==
    ASSUME IInv, NEW kind \in {"attach", "detach", "work"}, NEW t \in Targets \cup {None},
           CallEngine(kind, t)
    PROVE  IInv'
<1>1. UNCHANGED <<at, session, reply, down>> /\ restart' \in BOOLEAN
  BY DEF CallEngine, engineVars, IInv, TypeOK
<1> QED
  BY <1>1, TransactKeeps DEF CallEngine, Kinds

(* The greeting is the first transaction of a pipe. *)
LEMMA GreetKeeps ==
    ASSUME IInv, Greet
    PROVE  IInv'
<1>1. UNCHANGED <<at, session, reply, down>> /\ restart' \in BOOLEAN /\ PipeOpen /\ pc = "greeting" /\ mirror = None
  BY DEF Greet, engineVars, IInv, TypeOK, PlacesHold
<1> QED
  BY <1>1, TransactKeeps DEF Greet, Kinds

(* A shutdown is a transaction where there is a pipe; where there is none it reaps at once. *)
LEMMA BeginShutdownKeeps ==
    ASSUME IInv, NEW thenStart \in BOOLEAN, BeginShutdown(thenStart)
    PROVE  IInv'
<1>1. pc = "idle" /\ restart' \in BOOLEAN /\ UNCHANGED <<at, session, reply, down>>
  BY DEF BeginShutdown, engineVars
<1>2. CASE PipeOpen /\ Transact("shutdown", None)
  BY <1>1, <1>2, TransactKeeps DEF Kinds
<1>3. CASE ~PipeOpen /\ pc' = "reaping" /\ UNCHANGED <<doomed, link, up, cur, request, nextId, mirror>>
  <2>1. TypeOK'
    BY <1>1, <1>3 DEF IInv, TypeOK
  <2>2. RepliesHeld' /\ UnopenedIsEmpty' /\ PlacesHold' /\ ~PipeOpen'
    BY <1>1, <1>3 DEF IInv, RepliesHeld, UnopenedIsEmpty, PlacesHold, PipeOpen
  <2>3. NoForgottenEngine'
    BY <1>1, <1>3 DEF IInv, NoForgottenEngine, Alive
  <2> QED
    BY <2>1, <2>2, <2>3, NoPipeNoConversation DEF IInv
<1> QED
  BY <1>2, <1>3 DEF BeginShutdown

(* An engine is let go of only when it has ended or is terminated. *)
LEMMA ReapKeeps ==
    ASSUME IInv, Reap
    PROVE  IInv'
<1>1. /\ pc = "reaping" /\ pc' \in {"spawning", "idle"} /\ mirror' = None /\ cur' = None
      /\ doomed' = IF cur # None /\ Alive(cur) THEN doomed \cup {cur} ELSE doomed
      /\ UNCHANGED <<at, session, reply, link, up, down, request, nextId, restart>>
  BY DEF Reap, LetGo, engineVars, pipeVars
<1>2. TypeOK'
  BY <1>1 DEF IInv, TypeOK
<1>3. RepliesHeld' /\ UnopenedIsEmpty' /\ PlacesHold' /\ ~PipeOpen'
  BY <1>1 DEF IInv, RepliesHeld, UnopenedIsEmpty, PlacesHold, PipeOpen
<1>4. NoForgottenEngine'
  BY <1>1, NoneIsNoTarget DEF IInv, NoForgottenEngine, Alive, Engines
<1> QED
  BY <1>2, <1>3, <1>4, NoPipeNoConversation DEF IInv

(* The engine that is started is the one held; those before are let go of. *)
LEMMA SpawnKeeps ==
    ASSUME IInv, Spawn
    PROVE  IInv'
<1>1. PICK g \in Engines : at[g] = "none" /\ at' = [at EXCEPT ![g] = "booting"] /\ cur' = g
  BY DEF Spawn
<1>2. /\ pc = "spawning" /\ pc' = "connecting" /\ cur = None
      /\ UNCHANGED <<session, reply, doomed, link, up, down, request, nextId, mirror, restart>>
  BY DEF Spawn, pipeVars, IInv, PlacesHold
<1>3. TypeOK'
  BY <1>1, <1>2 DEF IInv, TypeOK
<1>4. g # None
  BY NoneIsNoTarget DEF Engines
<1>5. RepliesHeld' /\ UnopenedIsEmpty' /\ PlacesHold' /\ ~PipeOpen'
  BY <1>1, <1>2, <1>4 DEF IInv, TypeOK, RepliesHeld, UnopenedIsEmpty, PlacesHold, PipeOpen
<1>6. NoForgottenEngine'
  <2>1. \A h \in Engines : Alive(h)' => h = g \/ Alive(h)
    BY <1>1 DEF IInv, TypeOK, Alive
  <2>2. \A h \in Engines : h # cur
    BY <1>2, NoneIsNoTarget DEF Engines
  <2> QED
    BY <1>1, <1>2, <2>1, <2>2 DEF IInv, NoForgottenEngine
<1> QED
  BY <1>3, <1>5, <1>6, NoPipeNoConversation DEF IInv

(* Where CreateProcess fails nothing was started. *)
LEMMA SpawnFailsKeeps ==
    ASSUME IInv, SpawnFails
    PROVE  IInv'
<1>1. /\ pc = "spawning" /\ pc' = "idle" /\ cur = None
      /\ UNCHANGED <<at, session, reply, doomed, link, up, down, cur, request, nextId, mirror, restart>>
  BY DEF SpawnFails, engineVars, pipeVars, IInv, PlacesHold
<1>2. TypeOK'
  BY <1>1 DEF IInv, TypeOK
<1>3. RepliesHeld' /\ UnopenedIsEmpty' /\ PlacesHold' /\ ~PipeOpen'
  BY <1>1 DEF IInv, RepliesHeld, UnopenedIsEmpty, PlacesHold, PipeOpen
<1>4. NoForgottenEngine'
  BY <1>1 DEF IInv, NoForgottenEngine, Alive
<1> QED
  BY <1>2, <1>3, <1>4, NoPipeNoConversation DEF IInv

(* A pipe just opened is empty, and its engine has done nothing yet. *)
LEMMA ConnectKeeps ==
    ASSUME IInv, Connect
    PROVE  IInv'
<1>1. /\ pc = "connecting" /\ EngineEndOpen(cur) /\ cur # None /\ link[cur] = "unopened"
      /\ link' = [link EXCEPT ![cur] = "open"] /\ nextId' = 1 /\ pc' = "greeting"
      /\ UNCHANGED <<at, session, reply, doomed, up, down, cur, request, mirror, restart>>
  BY DEF Connect, engineVars, IInv, PlacesHold
<1>2. cur \in Engines /\ at[cur] = "listening" /\ up[cur] = <<>> /\ down[cur] = <<>> /\ session[cur] = None
  BY <1>1 DEF IInv, TypeOK, UnopenedIsEmpty, EngineEndOpen, Alive
<1>3. TypeOK'
  BY <1>1, <1>2 DEF IInv, TypeOK
<1>4. RepliesHeld' /\ UnopenedIsEmpty' /\ PlacesHold'
  BY <1>1, <1>2 DEF IInv, TypeOK, RepliesHeld, UnopenedIsEmpty, PlacesHold, PipeOpen
<1>5. Conversation'
  BY <1>1, <1>2 DEF Conversation, Quiet
<1>6. NoForgottenEngine'
  BY <1>1 DEF IInv, NoForgottenEngine, Alive
<1> QED
  BY <1>3, <1>4, <1>5, <1>6 DEF IInv

(* An engine that cannot be reached is terminated before it is let go of. *)
LEMMA ConnectTimesOutKeeps ==
    ASSUME IInv, ConnectTimesOut
    PROVE  IInv'
<1>1. /\ pc = "connecting" /\ cur # None /\ doomed' = doomed \cup {cur} /\ cur' = None /\ pc' = "idle"
      /\ UNCHANGED <<at, session, reply, link, up, down, request, nextId, mirror, restart>>
  BY DEF ConnectTimesOut, LetGo, engineVars, pipeVars, IInv, PlacesHold
<1>2. TypeOK'
  BY <1>1 DEF IInv, TypeOK
<1>3. RepliesHeld' /\ UnopenedIsEmpty' /\ PlacesHold' /\ ~PipeOpen'
  BY <1>1 DEF IInv, RepliesHeld, UnopenedIsEmpty, PlacesHold, PipeOpen
<1>4. NoForgottenEngine'
  BY <1>1 DEF IInv, NoForgottenEngine, Alive
<1> QED
  BY <1>2, <1>3, <1>4, NoPipeNoConversation DEF IInv

(* What the invariant says of the client ends with the owner. *)
LEMMA OwnerDiesKeeps ==
    ASSUME IInv, OwnerDies
    PROVE  IInv'
<1>1. /\ pc' = "dead"
      /\ UNCHANGED <<at, session, reply, doomed, up, down, cur, request, nextId, mirror, restart>>
  BY DEF OwnerDies, engineVars
<1>2. link' = IF PipeOpen THEN [link EXCEPT ![cur] = "closed"] ELSE link
  BY DEF OwnerDies, ClosePipe
<1>3. TypeOK'
  BY <1>1, <1>2 DEF IInv, TypeOK
<1>4. ~PipeOpen'
  BY <1>1, <1>2 DEF IInv, TypeOK, PipeOpen
<1>5. RepliesHeld' /\ UnopenedIsEmpty' /\ PlacesHold'
  BY <1>1, <1>2, <1>4 DEF IInv, TypeOK, RepliesHeld, UnopenedIsEmpty, PlacesHold, PipeOpen
<1>6. NoForgottenEngine'
  BY <1>1 DEF NoForgottenEngine
<1> QED
  BY <1>3, <1>4, <1>5, <1>6, NoPipeNoConversation DEF IInv

-----------------------------------------------------------------------------
(* Every step keeps the invariant. *)
LEMMA StepKeeps == IInv /\ [Next]_vars => IInv'
<1> SUFFICES ASSUME IInv, [Next]_vars PROVE IInv'
  OBVIOUS
<1>1. CASE \E g \in Engines : EngineStep(g) \/ Crash(g) \/ TerminationTakesEffect(g)
  <2>1. PICK g \in Engines : EngineStep(g) \/ Crash(g) \/ TerminationTakesEffect(g)
    BY <1>1
  <2>2. CASE Crash(g) \/ TerminationTakesEffect(g)
    BY <2>2, KilledKeeps DEF Crash, TerminationTakesEffect
  <2>3. CASE EngineStep(g)
    BY <2>3, BootKeeps, AcceptKeeps, HandleKeeps, ReceiveEndsKeeps, SendAnswerKeeps, LeaveKeeps,
       FlushKeeps, Zenon DEF EngineStep
  <2> QED
    BY <2>1, <2>2, <2>3
<1>2. CASE ClientStep
  BY <1>2, ReceiveKeeps, ReceiveFailsKeeps, ReapKeeps, SpawnKeeps, SpawnFailsKeeps, ConnectKeeps,
     ConnectTimesOutKeeps, GreetKeeps, Zenon DEF ClientStep
<1>3. CASE ClientCall
  <2>1. ASSUME NEW t \in Targets \cup {None}, CallEngine("attach", t) PROVE IInv'
    BY <2>1, CallKeeps DEF Kinds
  <2>2. CASE CallEngine("detach", None) \/ CallEngine("work", None)
    BY <2>2, CallKeeps DEF Kinds
  <2>3. ASSUME NEW thenStart \in BOOLEAN, BeginShutdown(thenStart) PROVE IInv'
    BY <2>3, BeginShutdownKeeps
  <2> QED
    BY <1>3, <2>1, <2>2, <2>3, Zenon DEF ClientCall
<1>4. CASE OwnerDies
  BY <1>4, OwnerDiesKeeps
<1>5. CASE UNCHANGED vars
  <2>1. /\ UNCHANGED <<at, session, reply, doomed, link, up, down>>
        /\ UNCHANGED <<pc, cur, request, nextId, mirror, restart>>
    BY <1>5 DEF vars, engineVars, pipeVars, clientVars
  <2>2. TypeOK' /\ RepliesHeld' /\ UnopenedIsEmpty' /\ PlacesHold' /\ NoForgottenEngine'
    BY <2>1 DEF IInv, TypeOK, RepliesHeld, UnopenedIsEmpty, PlacesHold, NoForgottenEngine, PipeOpen, Alive
  <2> QED
    BY <2>1, <2>2, ConversationKept DEF IInv, client, peer
<1> QED
  BY <1>1, <1>2, <1>3, <1>4, <1>5, Zenon DEF Next

-----------------------------------------------------------------------------
(* The theorems.                                                           *)

(* The inductive invariant of client, pipes and engines: what is in the pipe, what the *)
(* engine is doing and what the client waits for always fit together.                  *)
THEOREM Inductive == Spec => []IInv
<1>1. Init => IInv
  BY Initially
<1>2. IInv /\ [Next]_vars => IInv'
  BY StepKeeps
<1> QED
  BY <1>1, <1>2, PTL DEF Spec

(* Every variable stays within its type. *)
THEOREM TypeCorrect == Spec => []TypeOK
<1>1. IInv => TypeOK
  BY DEF IInv
<1> QED
  BY <1>1, Inductive, PTL

(* The engine behind an open pipe has the session the client shows, or none, between   *)
(* any two calls: EngineClient::attach and detach with EngineSession, whatever failed. *)
THEOREM SessionShown == Spec => []WorksOnTheShownProcess
<1>1. IInv => WorksOnTheShownProcess
  BY DEF IInv, Conversation, Quiet, WorksOnTheShownProcess
<1> QED
  BY <1>1, Inductive, PTL

(* Nothing is left in the pipe of a live engine when transact has returned, so the     *)
(* next answer is that of the next request.                                            *)
THEOREM AnswersMatch == Spec => []NoStaleAnswer
<1>1. IInv => NoStaleAnswer
  BY DEF IInv, Conversation, Quiet, NoStaleAnswer
<1> QED
  BY <1>1, Inductive, PTL

(* However start, connect, the handshake and shutdown ended, an engine that is not     *)
(* held any more has ended or is being terminated, as long as the owner lives.         *)
THEOREM NoneLeftBehind == Spec => []NoForgottenEngine
<1>1. IInv => NoForgottenEngine
  BY DEF IInv
<1> QED
  BY <1>1, Inductive, PTL

-----------------------------------------------------------------------------
(* The promise.                                                            *)

(* Before the first call nothing is promised. *)
LEMMA InitRefines == Init => Promise!PInit
BY NoneIsNoTarget DEF Init, Promise!PInit, Asking, Fate, AttachedTo, Reached, PipeOpen

(* Only the client and the engine behind its pipe are seen. *)
LEMMA SameView ==
    ASSUME UNCHANGED client, UNCHANGED peer
    PROVE  UNCHANGED Promise!pvars
BY DEF client, peer, Promise!pvars, Asking, Fate, AttachedTo, Reached, PipeOpen

\* What is seen of a client that waits, and of one that does not.
ViewIs ==
    /\ pc # "waiting" => Asking = None /\ Fate = "pending"
    /\ pc = "waiting" =>
          /\ Asking = [kind |-> request.kind, target |-> request.target]
          /\ Asking.kind = request.kind /\ Asking.target = request.target
    /\ pc = "waiting" /\ down[cur] # <<>> =>
          Fate = IF Head(down[cur]).ok THEN "done" ELSE "refused"
    /\ pc = "waiting" /\ down[cur] = <<>> /\ at[cur] = "answering" =>
          Fate = IF reply[cur].ok THEN "done" ELSE "refused"
    /\ pc = "waiting" /\ down[cur] = <<>> /\ at[cur] # "answering" =>
          Fate = IF Reached THEN "pending" ELSE "unknown"
    /\ AttachedTo = IF Reached THEN session[cur] ELSE None
    /\ Reached \in BOOLEAN
    /\ Reached <=> PipeOpen /\ at[cur] \in {"listening", "greeting", "serving", "answering"}

(* The view, now and after a step. *)
LEMMA View == ViewIs
BY DEF ViewIs, Asking, Fate, AttachedTo, Reached

LEMMA ViewNext == ViewIs'
BY DEF ViewIs, Asking, Fate, AttachedTo, Reached

(* A request is a call. *)
LEMMA RequestIsCall ==
    ASSUME NEW r \in Request
    PROVE  [kind |-> r.kind, target |-> r.target] \in Promise!Call /\ [kind |-> r.kind, target |-> r.target] # None
<1>1. [kind |-> r.kind, target |-> r.target] \in Call
  BY DEF Request, Call
<1> QED
  BY <1>1, NoneIsNoCall DEF Call, Promise!Call, Kinds

(* What happens without a pipe is seen only in what the client shows. *)
LEMMA ClosedView ==
    ASSUME IInv, IInv', ~PipeOpen, ~PipeOpen', UNCHANGED mirror
    PROVE  UNCHANGED Promise!pvars
<1>1. pc # "waiting" /\ pc' # "waiting"
  BY DEF IInv, PlacesHold
<1>2. Asking = None /\ Fate = "pending" /\ AttachedTo = None /\ Reached = FALSE
  BY <1>1, View DEF ViewIs
<1>3. Asking' = None /\ Fate' = "pending" /\ AttachedTo' = None /\ Reached' = FALSE
  BY <1>1, ViewNext DEF ViewIs
<1> QED
  BY <1>2, <1>3 DEF Promise!pvars

(* A step of an engine the client does not talk to is not seen. *)
LEMMA ElsewhereRefines ==
    ASSUME IInv, IInv', NEW g \in Engines, g # cur \/ ~PipeOpen,
           UNCHANGED <<link, clientVars>>,
           \A h \in Engines : h # g =>
               at'[h] = at[h] /\ session'[h] = session[h] /\ reply'[h] = reply[h]
               /\ up'[h] = up[h] /\ down'[h] = down[h]
    PROVE  UNCHANGED Promise!pvars
<1>1. UNCHANGED <<pc, cur, request, nextId, mirror, restart>>
  BY DEF clientVars
<1>2. CASE PipeOpen
  <2>1. cur \in Engines /\ cur # g
    BY <1>2 DEF PipeOpen, IInv, TypeOK
  <2> QED
    BY <1>1, <2>1, SameView DEF client, peer
<1>3. CASE ~PipeOpen
  BY <1>1, <1>3, ClosedView DEF PipeOpen
<1> QED
  BY <1>2, <1>3

(* The engine carries the call out in the step that takes its request. *)
LEMMA HandleRefines ==
    ASSUME IInv, IInv', Handle(cur), PipeOpen
    PROVE  Promise!CarryOut
<1> DEFINE r == Head(up[cur])
<1>1. /\ up[cur] # <<>> /\ at[cur] \in {"greeting", "serving"} /\ cur \in Engines
      /\ UNCHANGED <<link, down, pc, cur, request, mirror>> /\ at' = [at EXCEPT ![cur] = "answering"]
  BY DEF Handle, clientVars, PipeOpen, IInv, TypeOK
<1>2. pc = "waiting"
  BY <1>1 DEF IInv, PlacesHold, Conversation, Quiet, Alive
<1>3. up[cur] = <<request>> /\ down[cur] = <<>> /\ request \in Request
  BY <1>1, <1>2 DEF IInv, Conversation, Asked
<1>4. r = request
  BY <1>3, QueueOfOne
<1>5. PICK outcome \in Outcomes(cur, r), fits \in BOOLEAN :
        /\ session' = [session EXCEPT ![cur] = outcome[1]]
        /\ reply' = [reply EXCEPT ![cur] = [id |-> r.id, kind |-> r.kind, target |-> r.target,
                                            ok |-> outcome[2], fits |-> fits]]
  BY DEF Handle
<1>6. /\ at'[cur] = "answering" /\ session'[cur] = outcome[1] /\ reply'[cur].ok = outcome[2]
      /\ down'[cur] = <<>>
  BY <1>1, <1>3, <1>5 DEF IInv, TypeOK
<1> HIDE DEF r
<1>7. /\ outcome[1] \in Targets \cup {None} /\ outcome[2] \in BOOLEAN
      /\ r.kind = "attach" => (r.target = None => ~outcome[2] /\ outcome[1] = session[cur])
      /\ r.kind = "attach" => (r.target # None => outcome[1] = IF outcome[2] THEN r.target ELSE None)
      /\ r.kind = "detach" => outcome[1] = None /\ outcome[2]
      /\ r.kind \notin {"attach", "detach"} => outcome[1] = session[cur]
      /\ r.kind \notin {"hello", "attach", "work"} => outcome[2]
  BY <1>1, <1>3, <1>4, OutcomesAre DEF IInv
<1>8. /\ Asking.kind = request.kind /\ Asking.target = request.target /\ Asking # None
      /\ Fate = "pending" /\ AttachedTo = session[cur] /\ Reached
  BY <1>1, <1>2, <1>3, View, RequestIsCall DEF ViewIs
<1>9. /\ Fate' = IF outcome[2] THEN "done" ELSE "refused"
      /\ AttachedTo' = outcome[1] /\ Reached' /\ Asking' = Asking
  <2>1. PipeOpen' /\ pc' = "waiting"
    BY <1>1, <1>2 DEF PipeOpen
  <2>2. Asking' = [kind |-> request.kind, target |-> request.target]
    BY <1>1, <2>1, ViewNext DEF ViewIs
  <2>3. Asking = [kind |-> request.kind, target |-> request.target]
    BY <1>2, View DEF ViewIs
  <2>4. Fate' = IF reply'[cur].ok THEN "done" ELSE "refused"
    BY <1>1, <1>6, <2>1, ViewNext DEF ViewIs
  <2>5. Reached' /\ AttachedTo' = session'[cur]
    BY <1>1, <1>6, <2>1, ViewNext DEF ViewIs
  <2> QED
    BY <1>6, <2>2, <2>3, <2>4, <2>5
<1>10. (Reached' <=> Reached) /\ Reached' = Reached
  BY <1>8, <1>9, View, ViewNext DEF ViewIs
<1> HIDE DEF r
<1>11. /\ Asking.kind = "attach" /\ Asking.target # None =>
             \/ AttachedTo' = Asking.target /\ Fate' = "done"
             \/ AttachedTo' = None /\ Fate' = "refused"
       /\ Asking.kind = "attach" /\ Asking.target = None => AttachedTo' = AttachedTo /\ Fate' = "refused"
       /\ Asking.kind = "detach" => AttachedTo' = None /\ Fate' = "done"
       /\ Asking.kind \notin {"hello", "attach", "detach", "work"} => AttachedTo' = AttachedTo /\ Fate' = "done"
       /\ Asking.kind \in {"hello", "work"} => AttachedTo' = AttachedTo /\ Fate' \in {"done", "refused"}
  BY <1>4, <1>7, <1>8, <1>9
<1> QED
  BY <1>1, <1>8, <1>9, <1>10, <1>11 DEF Promise!CarryOut, Promise!Carried

(* An answer sent is as good as given, unless the engine leaves its loop with it. *)
LEMMA SendAnswerRefines ==
    ASSUME IInv, IInv', SendAnswer(cur), PipeOpen
    PROVE  Promise!Lose \/ UNCHANGED Promise!pvars
<1> DEFINE a == reply[cur]
           sent == a.fits /\ link[cur] = "open"
<1>1. /\ at[cur] = "answering" /\ cur \in Engines /\ a \in Answer
      /\ UNCHANGED <<session, link, up, pc, cur, request, mirror>>
  BY DEF SendAnswer, clientVars, PipeOpen, IInv, TypeOK, RepliesHeld
<1>2. pc = "waiting" /\ down[cur] = <<>> /\ request \in Request
  <2>1. pc = "waiting"
    BY <1>1 DEF IInv, PlacesHold, Conversation, Quiet
  <2> QED
    BY <1>1, <2>1 DEF IInv, Conversation, Asked
<1>3. /\ down' = IF sent THEN [down EXCEPT ![cur] = Append(down[cur], a)] ELSE down
      /\ at' = [at EXCEPT ![cur] =
                   CASE a.kind = "hello"    -> IF sent /\ a.ok THEN "serving" ELSE "flushing"
                     [] a.kind = "shutdown" -> "leaving"
                     [] OTHER               -> IF sent THEN "serving" ELSE "leaving"]
  BY DEF SendAnswer
<1> HIDE DEF a
<1>4. at'[cur] \in {"serving", "flushing", "leaving"} /\ (~sent => at'[cur] \in {"flushing", "leaving"})
  BY <1>1, <1>3 DEF IInv, TypeOK
<1>5. /\ sent => down'[cur] # <<>> /\ Head(down'[cur]) = a
      /\ ~sent => down'[cur] = <<>>
  <2>1. sent => down'[cur] = <<a>>
    BY <1>1, <1>2, <1>3 DEF IInv, TypeOK
  <2>2. ~sent => down'[cur] = <<>>
    BY <1>2, <1>3
  <2> QED
    BY <1>1, <2>1, <2>2, QueueOfOne
<1>6. /\ Reached /\ AttachedTo = session[cur] /\ Fate = IF a.ok THEN "done" ELSE "refused"
      /\ Asking = [kind |-> request.kind, target |-> request.target]
  BY <1>1, <1>2, View DEF ViewIs, a
<1>7. PipeOpen' /\ pc' = "waiting" /\ Asking' = Asking
  <2>1. PipeOpen' /\ pc' = "waiting"
    BY <1>1, <1>2 DEF PipeOpen
  <2> QED
    BY <1>1, <1>6, <2>1, ViewNext DEF ViewIs
<1>8. Asking # None
  BY <1>2, <1>6, RequestIsCall
<1>9. CASE sent
  <2>1. Fate' = Fate
    BY <1>1, <1>5, <1>6, <1>7, <1>9, ViewNext DEF ViewIs
  <2>2. CASE at'[cur] = "serving"
    <3>1. Reached' /\ AttachedTo' = AttachedTo
      BY <1>1, <1>6, <1>7, <2>2, ViewNext DEF ViewIs
    <3>2. Reached' = Reached
      BY <1>6, <3>1, View, ViewNext DEF ViewIs
    <3> QED
      BY <1>1, <1>7, <2>1, <3>1, <3>2 DEF Promise!pvars
  <2>3. CASE at'[cur] # "serving"
    <3>1. ~Reached' /\ AttachedTo' = None
      BY <1>1, <1>4, <1>7, <2>3, ViewNext DEF ViewIs
    <3>2. Fate # "pending"
      BY <1>6
    <3> QED
      BY <1>1, <1>6, <1>7, <2>1, <3>1, <3>2 DEF Promise!Lose
  <2> QED
    BY <2>2, <2>3
<1>10. CASE ~sent
  <2>1. ~Reached' /\ AttachedTo' = None
    BY <1>1, <1>4, <1>7, <1>10, ViewNext DEF ViewIs
  <2>2. Fate' = "unknown"
    BY <1>1, <1>4, <1>5, <1>7, <1>10, <2>1, ViewNext DEF ViewIs
  <2> QED
    BY <1>1, <1>6, <1>7, <1>8, <2>1, <2>2 DEF Promise!Lose
<1> QED
  BY <1>9, <1>10

(* The end of the engine behind the pipe: what it has not told is not known any more. *)
LEMMA KilledRefines ==
    ASSUME IInv, IInv', Killed(cur), PipeOpen
    PROVE  Promise!Lose \/ UNCHANGED Promise!pvars
<1>1. /\ at'[cur] = "exited" /\ cur \in Engines
      /\ UNCHANGED <<link, up, down, pc, cur, request, mirror>>
  BY DEF Killed, pipeVars, clientVars, PipeOpen, IInv, TypeOK
<1>2. ~Reached' /\ AttachedTo' = None /\ PipeOpen'
  BY <1>1, ViewNext DEF ViewIs, PipeOpen
<1>3. Asking' = Asking
  <2>1. CASE pc = "waiting"
    BY <1>1, <2>1, View, ViewNext DEF ViewIs
  <2>2. CASE pc # "waiting"
    BY <1>1, <2>2, View, ViewNext DEF ViewIs
  <2> QED
    BY <2>1, <2>2
<1>4. CASE pc # "waiting"
  <2>1. Fate' = Fate /\ Asking = None
    BY <1>1, <1>4, View, ViewNext DEF ViewIs
  <2>2. CASE Reached
    BY <1>1, <1>2, <1>3, <2>1, <2>2 DEF Promise!Lose
  <2>3. CASE ~Reached
    <3>1. Reached' = Reached /\ AttachedTo = None
      BY <1>2, <2>3, View, ViewNext DEF ViewIs
    <3> QED
      BY <1>1, <1>2, <1>3, <2>1, <3>1 DEF Promise!pvars
  <2> QED
    BY <2>2, <2>3
<1>5. CASE pc = "waiting" /\ down[cur] # <<>>
  <2>1. Fate' = Fate /\ Fate # "pending"
    BY <1>1, <1>5, View, ViewNext DEF ViewIs
  <2>2. CASE Reached
    BY <1>1, <1>2, <1>3, <2>1, <2>2 DEF Promise!Lose
  <2>3. CASE ~Reached
    <3>1. Reached' = Reached /\ AttachedTo = None
      BY <1>2, <2>3, View, ViewNext DEF ViewIs
    <3> QED
      BY <1>1, <1>2, <1>3, <2>1, <3>1 DEF Promise!pvars
  <2> QED
    BY <2>2, <2>3
<1>6. CASE pc = "waiting" /\ down[cur] = <<>>
  <2>1. Fate' = "unknown" /\ Asking # None
    <3>1. request \in Request
      BY <1>6 DEF IInv, Conversation, Asked, PipeOpen
    <3> QED
      BY <1>1, <1>2, <1>6, <3>1, View, ViewNext, RequestIsCall DEF ViewIs
  <2>2. CASE Reached
    BY <1>1, <1>2, <1>3, <2>1, <2>2 DEF Promise!Lose
  <2>3. CASE ~Reached
    <3>1. Reached' = Reached /\ AttachedTo = None /\ Fate = "unknown"
      BY <1>2, <1>6, <2>3, View, ViewNext DEF ViewIs
    <3> QED
      BY <1>1, <1>2, <1>3, <2>1, <3>1 DEF Promise!pvars
  <2> QED
    BY <2>2, <2>3
<1> QED
  BY <1>4, <1>5, <1>6

(* A call has returned: the view is that of a client that does not wait, and of an    *)
(* engine that was not touched or whose pipe was closed.                              *)
LEMMA ReturnedView ==
    ASSUME IInv, IInv', PipeOpen, NEW kind \in Kinds, NEW ok \in BOOLEAN, NEW t, Returned(kind, ok, t),
           UNCHANGED <<at, session>>
    PROVE  /\ Asking' = None /\ Fate' = "pending"
           /\ \/ Reached' = Reached /\ AttachedTo' = AttachedTo
              \/ ~Reached' /\ AttachedTo' = None
           /\ mirror' = CASE ok /\ kind = "attach" -> t
                          [] ok /\ kind = "detach" -> None
                          [] OTHER                 -> mirror
<1>1. pc' # "waiting"
  BY DEF Returned
<1>2. Asking' = None /\ Fate' = "pending"
  BY <1>1, ViewNext DEF ViewIs
<1>3. \/ UNCHANGED <<link, cur>>
      \/ ~PipeOpen'
  <2>1. cur \in Engines
    BY DEF PipeOpen, IInv, TypeOK
  <2>2. CASE link' = [link EXCEPT ![cur] = "closed"] /\ cur' \in {None, cur}
    BY <2>1, <2>2 DEF PipeOpen, IInv, TypeOK
  <2> QED
    BY <2>2 DEF Returned, Reject, ClosePipe, LetGo
<1>4. ASSUME UNCHANGED <<link, cur>> PROVE Reached' = Reached /\ AttachedTo' = AttachedTo
  <2>1. (Reached' <=> Reached) /\ AttachedTo' = AttachedTo
    BY <1>4, View, ViewNext DEF ViewIs, PipeOpen
  <2>2. Reached' = Reached
    BY <2>1, View, ViewNext DEF ViewIs
  <2> QED
    BY <2>1, <2>2
<1>5. ASSUME ~PipeOpen' PROVE ~Reached' /\ AttachedTo' = None
  BY <1>5, ViewNext DEF ViewIs
<1>6. mirror' = CASE ok /\ kind = "attach" -> t
                  [] ok /\ kind = "detach" -> None
                  [] OTHER                 -> mirror
  <2>1. CASE kind = "hello"
    BY <2>1 DEF Returned
  <2>2. CASE kind = "shutdown"
    BY <2>2 DEF Returned
  <2>3. CASE kind \in {"attach", "detach", "work"}
    BY <2>3 DEF Returned
  <2> QED
    BY <2>1, <2>2, <2>3 DEF Kinds
<1>7. \/ Reached' = Reached /\ AttachedTo' = AttachedTo
      \/ ~Reached' /\ AttachedTo' = None
  BY <1>3, <1>4, <1>5
<1> QED
  BY <1>2, <1>6, <1>7

(* The caller is told what the engine did. *)
LEMMA ReceiveRefines ==
    ASSUME IInv, IInv', Receive
    PROVE  Promise!Return
<1> DEFINE a == Head(down[cur])
<1>1. PICK accepted \in BOOLEAN :
      /\ pc = "waiting" /\ down[cur] # <<>> /\ PipeOpen /\ UNCHANGED <<at, session>>
      /\ request.kind # "hello" => accepted
      /\ Returned(request.kind, a.id = request.id /\ a.ok /\ accepted, a.target)
  BY DEF Receive, IInv, PlacesHold, engineVars
<1>2. cur \in Engines /\ down[cur] \in Seq(Answer)
  BY <1>1 DEF PipeOpen, IInv, TypeOK
<1>3. a \in Answer
  BY <1>1, <1>2, TakeFirst
<1>4. request \in Request /\ Answers(a)
  BY <1>1 DEF IInv, Conversation, Asked
<1> DEFINE ok == a.ok /\ accepted
<1>5. /\ request.kind \in Kinds /\ a.ok \in BOOLEAN /\ ok \in BOOLEAN
      /\ (a.id = request.id /\ a.ok /\ accepted) = ok
      /\ request.kind # "hello" => ok = a.ok
      /\ a.target = request.target
  BY <1>1, <1>3, <1>4 DEF Request, Answer, Answers
<1>6. Returned(request.kind, ok, a.target)
  BY <1>1, <1>5, Zenon
<1>7. /\ Asking.kind = request.kind /\ Asking.target = request.target /\ Asking # None
      /\ Fate = IF a.ok THEN "done" ELSE "refused"
  BY <1>1, <1>4, View, RequestIsCall DEF ViewIs
<1> HIDE DEF a, ok
<1>8. /\ Asking' = None /\ Fate' = "pending"
      /\ \/ Reached' = Reached /\ AttachedTo' = AttachedTo
         \/ ~Reached' /\ AttachedTo' = None
      /\ mirror' = CASE ok /\ request.kind = "attach" -> a.target
                     [] ok /\ request.kind = "detach" -> None
                     [] OTHER                         -> mirror
  BY <1>1, <1>5, <1>6, ReturnedView
<1>9. mirror' = CASE Fate = "done" /\ Asking.kind = "attach" -> Asking.target
                  [] Fate = "done" /\ Asking.kind = "detach" -> None
                  [] OTHER                                   -> mirror
  <2>1. (Fate = "done" <=> a.ok) /\ Fate # "pending"
    BY <1>7
  <2> QED
    BY <1>5, <1>7, <1>8, <2>1
<1>10. Fate # "pending"
  BY <1>7
<1> QED
  BY <1>7, <1>8, <1>9, <1>10 DEF Promise!Return

(* The caller is told that the engine is lost. *)
LEMMA ReceiveFailsRefines ==
    ASSUME IInv, IInv', ReceiveFails
    PROVE  Promise!Return
<1>1. /\ pc = "waiting" /\ down[cur] = <<>> /\ PipeOpen /\ ~EngineEndOpen(cur) /\ UNCHANGED <<at, session>>
      /\ Returned(request.kind, FALSE, None)
  BY DEF ReceiveFails, IInv, PlacesHold, engineVars
<1>2. at[cur] = "exited" /\ request \in Request
  BY <1>1 DEF IInv, PlacesHold, Conversation, Asked, EngineEndOpen, Alive
<1>3. request.kind \in Kinds
  BY <1>2 DEF Request
<1>4. /\ Asking.kind = request.kind /\ Asking # None
      /\ Fate = "unknown"
  BY <1>1, <1>2, View, RequestIsCall DEF ViewIs
<1>5. /\ Asking' = None /\ Fate' = "pending" /\ mirror' = mirror
      /\ \/ Reached' = Reached /\ AttachedTo' = AttachedTo
         \/ ~Reached' /\ AttachedTo' = None
  BY <1>1, <1>3, ReturnedView
<1> QED
  BY <1>4, <1>5 DEF Promise!Return

(* A request that is sent is a call; one that finds the engine gone is none. *)
LEMMA TransactRefines ==
    ASSUME IInv, IInv', PipeOpen, pc \in {"idle", "greeting"},
           NEW kind \in Kinds, NEW t \in Targets \cup {None}, Transact(kind, t),
           UNCHANGED <<at, session, reply, down>>
    PROVE  (\E c \in Promise!Call : Promise!Ask(c)) \/ UNCHANGED Promise!pvars
<1> DEFINE r == [id |-> nextId, kind |-> kind, target |-> t]
           c == [kind |-> r.kind, target |-> r.target]
<1>1. r \in Request /\ request' = r
  BY DEF Transact, Request, IInv, TypeOK
<1> HIDE DEF r
<1>2. Quiet /\ at[cur] \notin {"none", "booting"} /\ Asking = None /\ Fate = "pending"
  BY View DEF IInv, Conversation, PlacesHold, ViewIs
<1>3. c \in Promise!Call
  BY <1>1, RequestIsCall
<1>4. CASE EngineEndOpen(cur)
  <2>1. pc' = "waiting" /\ UNCHANGED <<link, cur, mirror>>
    BY <1>4 DEF Transact
  <2>2. down[cur] = <<>> /\ at[cur] \in {"listening", "greeting", "serving"}
    BY <1>2, <1>4 DEF Quiet, EngineEndOpen, Alive
  <2>3. Reached /\ Reached' /\ AttachedTo' = AttachedTo
    BY <2>1, <2>2, View, ViewNext DEF ViewIs, PipeOpen
  <2>4. Reached' = Reached
    BY <2>3, View, ViewNext DEF ViewIs
  <2>5. Asking' = c /\ Fate' = "pending"
    BY <1>1, <2>1, <2>2, <2>3, ViewNext DEF ViewIs
  <2>6. Promise!Ask(c)
    BY <1>2, <2>1, <2>3, <2>4, <2>5 DEF Promise!Ask
  <2> QED
    BY <1>3, <2>6
<1>5. CASE ~EngineEndOpen(cur)
  <2>1. Returned(kind, FALSE, None) /\ at[cur] = "exited"
    BY <1>2, <1>5 DEF Transact, Quiet, EngineEndOpen, Alive
  <2>2. Reached = FALSE /\ AttachedTo = None
    BY <2>1, View DEF ViewIs
  <2>3. /\ Asking' = None /\ Fate' = "pending" /\ mirror' = mirror
        /\ \/ Reached' = Reached /\ AttachedTo' = AttachedTo
           \/ ~Reached' /\ AttachedTo' = None
    BY <2>1, ReturnedView
  <2>4. Reached' = FALSE /\ AttachedTo' = None
    BY <2>2, <2>3, ViewNext DEF ViewIs
  <2> QED
    BY <1>2, <2>2, <2>3, <2>4 DEF Promise!pvars
<1> QED
  BY <1>4, <1>5

(* Reaping is where the client forgets what it showed. *)
LEMMA ReapRefines ==
    ASSUME IInv, IInv', Reap
    PROVE  Promise!Forget
<1>1. pc = "reaping" /\ cur' = None /\ mirror' = None /\ pc' # "waiting"
  BY DEF Reap, LetGo
<1>2. ~PipeOpen /\ ~PipeOpen'
  BY <1>1 DEF IInv, PlacesHold, PipeOpen
<1>3. Asking = None /\ Fate = "pending" /\ AttachedTo = None /\ Reached = FALSE
  BY <1>1, <1>2, View DEF ViewIs
<1>4. Asking' = None /\ Fate' = "pending" /\ AttachedTo' = None /\ Reached' = FALSE
  BY <1>1, <1>2, ViewNext DEF ViewIs
<1> QED
  BY <1>1, <1>3, <1>4 DEF Promise!Forget

(* An engine is met when its pipe is opened; shutdown has forgotten the one before. *)
LEMMA ConnectRefines ==
    ASSUME IInv, IInv', Connect
    PROVE  Promise!Meet
<1>1. /\ pc = "connecting" /\ EngineEndOpen(cur) /\ cur # None /\ link[cur] = "unopened" /\ mirror = None
      /\ link' = [link EXCEPT ![cur] = "open"] /\ pc' = "greeting" /\ UNCHANGED <<at, session, cur, mirror>>
  BY DEF Connect, engineVars, IInv, PlacesHold
<1>2. cur \in Engines /\ at[cur] = "listening" /\ session[cur] = None
  BY <1>1 DEF IInv, TypeOK, UnopenedIsEmpty, EngineEndOpen, Alive
<1>3. ~PipeOpen /\ PipeOpen'
  BY <1>1, <1>2 DEF PipeOpen, IInv, TypeOK
<1>4. Asking = None /\ Fate = "pending" /\ AttachedTo = None /\ ~Reached
  BY <1>1, <1>3, View DEF ViewIs
<1>5. Asking' = None /\ Fate' = "pending" /\ AttachedTo' = None /\ Reached'
  BY <1>1, <1>2, <1>3, ViewNext DEF ViewIs
<1> QED
  BY <1>1, <1>4, <1>5 DEF Promise!Meet

(* An owner that dies leaves its call behind. *)
LEMMA OwnerDiesRefines ==
    ASSUME IInv, IInv', OwnerDies
    PROVE  Promise!Abandon
<1>1. pc' = "dead" /\ UNCHANGED mirror
  BY DEF OwnerDies
<1>2. ~PipeOpen'
  BY <1>1 DEF IInv, PlacesHold
<1>3. Asking' = None /\ Fate' = "pending" /\ AttachedTo' = None /\ ~Reached'
  BY <1>1, <1>2, ViewNext DEF ViewIs
<1> QED
  BY <1>1, <1>3 DEF Promise!Abandon

(* Of the steps of an engine, those of the one behind the pipe are seen. *)
LEMMA EngineStepRefines ==
    ASSUME IInv, IInv', NEW g \in Engines, EngineStep(g) \/ Crash(g) \/ TerminationTakesEffect(g)
    PROVE  Promise!PNext \/ UNCHANGED Promise!pvars
<1>1. CASE g # cur \/ ~PipeOpen
  <2>1. UNCHANGED <<link, clientVars>>
    BY Zenon DEF EngineStep, Crash, TerminationTakesEffect, Boot, Accept, Handle, ReceiveEnds, SendAnswer,
       Leave, Flush, Killed, pipeVars
  <2> DEFINE others == \A h \in Engines : h # g =>
                 at'[h] = at[h] /\ session'[h] = session[h] /\ reply'[h] = reply[h]
                 /\ up'[h] = up[h] /\ down'[h] = down[h]
  <2>2. ASSUME Boot(g) PROVE others
    <3>1. PICK place : at' = [at EXCEPT ![g] = place]
      BY <2>2 DEF Boot
    <3> QED
      BY <2>2, <3>1 DEF Boot, pipeVars, IInv, TypeOK
  <2>3. ASSUME Accept(g) \/ ReceiveEnds(g) \/ Leave(g) \/ Flush(g) PROVE others
    BY <2>3 DEF Accept, ReceiveEnds, Leave, Flush, pipeVars, IInv, TypeOK
  <2>4. ASSUME Handle(g) PROVE others
    <3>1. PICK s, a : session' = [session EXCEPT ![g] = s] /\ reply' = [reply EXCEPT ![g] = a]
      BY <2>4 DEF Handle
    <3> QED
      BY <2>4, <3>1 DEF Handle, IInv, TypeOK
  <2>5. ASSUME SendAnswer(g) PROVE others
    <3>1. PICK place : at' = [at EXCEPT ![g] = place]
      BY <2>5 DEF SendAnswer
    <3> QED
      BY <2>5, <3>1 DEF SendAnswer, IInv, TypeOK
  <2>6. ASSUME Crash(g) \/ TerminationTakesEffect(g) PROVE others
    BY <2>6 DEF Crash, TerminationTakesEffect, Killed, pipeVars, IInv, TypeOK
  <2>7. others
    BY <2>2, <2>3, <2>4, <2>5, <2>6 DEF EngineStep
  <2> QED
    BY <1>1, <2>1, <2>7, ElsewhereRefines
<1>2. CASE g = cur /\ PipeOpen
  <2>1. cur \in Engines /\ link[cur] = "open" /\ at[cur] \notin {"none", "booting"}
    BY <1>2 DEF PipeOpen, IInv, PlacesHold
  <2>2. CASE Handle(g)
    BY <1>2, <2>2, HandleRefines DEF Promise!PNext
  <2>3. CASE SendAnswer(g)
    BY <1>2, <2>3, SendAnswerRefines DEF Promise!PNext
  <2>4. CASE Crash(g) \/ TerminationTakesEffect(g)
    BY <1>2, <2>4, KilledRefines DEF Promise!PNext, Crash, TerminationTakesEffect
  <2>5. CASE Boot(g) \/ ReceiveEnds(g)
    BY <1>2, <2>1, <2>5 DEF Boot, ReceiveEnds
  <2>6. CASE Accept(g)
    <3>1. /\ at[cur] = "listening" /\ at'[cur] = "greeting"
          /\ UNCHANGED <<session, link, down, pc, cur, request, mirror>>
      BY <1>2, <2>1, <2>6 DEF Accept, pipeVars, clientVars, IInv, TypeOK
    <3>2. (Reached' <=> Reached) /\ AttachedTo' = AttachedTo
      BY <3>1, View, ViewNext DEF ViewIs, PipeOpen
    <3>3. Reached' = Reached
      BY <3>2, View, ViewNext DEF ViewIs
    <3>4. Asking' = Asking /\ Fate' = Fate
      <4>1. CASE pc # "waiting"
        BY <3>1, <4>1, View, ViewNext DEF ViewIs
      <4>2. CASE pc = "waiting"
        BY <3>1, <3>2, <4>2, View, ViewNext DEF ViewIs
      <4> QED
        BY <4>1, <4>2
    <3> QED
      BY <3>1, <3>2, <3>3, <3>4 DEF Promise!pvars
  <2>7. CASE Leave(g) \/ Flush(g)
    <3>1. /\ at[cur] \in {"leaving", "flushing"} /\ at'[cur] \in {"flushing", "exited"}
          /\ UNCHANGED <<link, down, pc, cur, request, mirror>>
      BY <1>2, <2>1, <2>7 DEF Leave, Flush, pipeVars, clientVars, IInv, TypeOK
    <3>2. ~Reached /\ ~Reached' /\ AttachedTo = None /\ AttachedTo' = None
      BY <3>1, View, ViewNext DEF ViewIs
    <3>3. Reached' = Reached
      BY <3>2, View, ViewNext DEF ViewIs
    <3>4. Asking' = Asking /\ Fate' = Fate
      <4>1. CASE pc # "waiting"
        BY <3>1, <4>1, View, ViewNext DEF ViewIs
      <4>2. CASE pc = "waiting"
        BY <3>1, <3>2, <4>2, View, ViewNext DEF ViewIs
      <4> QED
        BY <4>1, <4>2
    <3> QED
      BY <3>1, <3>2, <3>3, <3>4 DEF Promise!pvars
  <2> QED
    BY <2>2, <2>3, <2>4, <2>5, <2>6, <2>7 DEF EngineStep
<1> QED
  BY <1>1, <1>2

(* Every step of engines, pipes, client and owner is one step of the promise or none. *)
LEMMA StepRefines == IInv /\ IInv' /\ [Next]_vars => [Promise!PNext]_(Promise!pvars)
<1> SUFFICES ASSUME IInv, IInv', [Next]_vars PROVE Promise!PNext \/ UNCHANGED Promise!pvars
  OBVIOUS
<1>1. CASE \E g \in Engines : EngineStep(g) \/ Crash(g) \/ TerminationTakesEffect(g)
  BY <1>1, EngineStepRefines
<1>2. ASSUME NEW kind \in Kinds, NEW t \in Targets \cup {None}, PipeOpen, pc \in {"idle", "greeting"},
             Transact(kind, t), UNCHANGED <<engineVars, down>>
      PROVE  Promise!PNext \/ UNCHANGED Promise!pvars
  <2>1. UNCHANGED <<at, session, reply, down>>
    BY <1>2 DEF engineVars
  <2> QED
    BY <1>2, <2>1, TransactRefines DEF Promise!PNext
<1>3. CASE ClientStep
  <2>1. CASE Receive \/ ReceiveFails
    BY <2>1, ReceiveRefines, ReceiveFailsRefines DEF Promise!PNext
  <2>2. CASE Reap
    BY <2>2, ReapRefines DEF Promise!PNext
  <2>3. CASE Connect
    BY <2>3, ConnectRefines DEF Promise!PNext
  <2>4. CASE Greet
    <3>1. PipeOpen /\ pc = "greeting"
      BY <2>4 DEF Greet, IInv, PlacesHold
    <3> QED
      BY <1>2, <2>4, <3>1 DEF Greet, Kinds
  <2>5. CASE Spawn \/ SpawnFails \/ ConnectTimesOut
    <3>1. ~PipeOpen /\ ~PipeOpen' /\ UNCHANGED mirror
      BY <2>5 DEF Spawn, SpawnFails, ConnectTimesOut, LetGo, IInv, PlacesHold, PipeOpen
    <3> QED
      BY <3>1, ClosedView
  <2> QED
    BY <1>3, <2>1, <2>2, <2>3, <2>4, <2>5 DEF ClientStep
<1>4. CASE ClientCall
  <2>1. ASSUME NEW kind \in Kinds, NEW t \in Targets \cup {None}, CallEngine(kind, t)
        PROVE  Promise!PNext \/ UNCHANGED Promise!pvars
    BY <1>2, <2>1 DEF CallEngine
  <2>2. ASSUME NEW thenStart \in BOOLEAN, BeginShutdown(thenStart)
        PROVE  Promise!PNext \/ UNCHANGED Promise!pvars
    <3>1. CASE PipeOpen /\ Transact("shutdown", None)
      BY <1>2, <2>2, <3>1 DEF BeginShutdown, Kinds
    <3>2. CASE ~PipeOpen /\ UNCHANGED <<link, cur, mirror>>
      BY <3>2, ClosedView DEF PipeOpen
    <3> QED
      BY <2>2, <3>1, <3>2 DEF BeginShutdown
  <2>3. CASE \E t \in Targets \cup {None} : CallEngine("attach", t)
    BY <2>1, <2>3 DEF Kinds
  <2>4. CASE CallEngine("detach", None) \/ CallEngine("work", None)
    BY <2>1, <2>4 DEF Kinds
  <2> QED
    BY <1>4, <2>2, <2>3, <2>4 DEF ClientCall
<1>5. CASE OwnerDies
  BY <1>5, OwnerDiesRefines DEF Promise!PNext
<1>6. CASE UNCHANGED vars
  BY <1>6, SameView DEF vars, engineVars, pipeVars, clientVars, client, peer
<1> QED
  BY <1>1, <1>3, <1>4, <1>5, <1>6 DEF Next

(* Whatever dies, times out or fails, a call through EngineClient is carried out at    *)
(* most once and not after it has returned, and its caller is told what it did or that *)
(* the engine and its session are lost.                                                *)
THEOREM Refinement == Spec => ServesEachCallOnce
<1>1. Init => Promise!PInit
  BY InitRefines
<1>2. IInv /\ IInv' /\ [Next]_vars => [Promise!PNext]_(Promise!pvars)
  BY StepRefines
<1> QED
  BY <1>1, <1>2, Inductive, PTL DEF Spec, ServesEachCallOnce, Promise!PSpec
===============================================================================
