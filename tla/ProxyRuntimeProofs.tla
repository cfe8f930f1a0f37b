------------------------- MODULE ProxyRuntimeProofs -------------------------
(***************************************************************************)
(* Proofs about ProxyRuntime, for one caller at a time and every number of *)
(* connections and of data planes one after the other.                     *)
(***************************************************************************)
EXTENDS ProxyRuntime, TLAPS

OneCaller == \A c, d \in Calls : c = d

(* A call that moves keeps its type and the fields the move does not name. *)
LEMMA CallRecord ==
  ASSUME NEW x \in Call, NEW s \in CallStage, NEW t \in Servers \cup {NoServer}, NEW b \in BOOLEAN
  PROVE  /\ [x EXCEPT !.stage = s] \in Call
         /\ [x EXCEPT !.stage = s, !.joins = t] \in Call
         /\ [x EXCEPT !.stage = s, !.clean = b] \in Call
         /\ [x EXCEPT !.stage = s].joins = x.joins
BY DEF Call

LEMMA IdleRecord == IdleCall \in Call
BY DEF IdleCall, Call, CallStage

LEMMA CallTypes ==
  ASSUME TypeOK, NEW c \in Calls, NEW q \in Call, Become(c, q)
  PROVE  call' \in [Calls -> Call] /\ call'[c] = q
BY DEF TypeOK, Become

LEMMA GotoMoves ==
  ASSUME TypeOK, NEW c \in Calls, NEW s \in CallStage, Goto(c, s)
  PROVE  /\ call' \in [Calls -> Call]
         /\ call'[c].stage = s /\ call'[c].joins = call[c].joins
<1>1. call[c] \in Call /\ NoServer \in Servers \cup {NoServer}
  BY DEF TypeOK
<1> DEFINE q == [call[c] EXCEPT !.stage = s]
<1>2. q \in Call /\ q.stage = s /\ q.joins = call[c].joins
  BY <1>1, CallRecord DEF Call
<1>3. Become(c, q)
  BY DEF Goto
<1> HIDE DEF q
<1> QED BY <1>2, <1>3, CallTypes

LEMMA AnswerMoves ==
  ASSUME TypeOK, NEW c \in Calls, Answer(c)
  PROVE  /\ call' \in [Calls -> Call]
         /\ call'[c].stage = "idle"
<1>1. IdleCall \in Call /\ IdleCall.stage = "idle"
  BY IdleRecord DEF IdleCall
<1> QED BY <1>1, CallTypes DEF Answer

(* The moves that set more than the stage. *)
LEMMA JoinsMoves ==
  ASSUME TypeOK, NEW c \in Calls, NEW s \in CallStage, NEW t \in Servers \cup {NoServer},
         Become(c, [call[c] EXCEPT !.stage = s, !.joins = t])
  PROVE  /\ call' \in [Calls -> Call]
         /\ call'[c].stage = s /\ call'[c].joins = t
<1>1. call[c] \in Call
  BY DEF TypeOK
<1> DEFINE q == [call[c] EXCEPT !.stage = s, !.joins = t]
<1>2. q \in Call /\ q.stage = s /\ q.joins = t
  BY <1>1, CallRecord DEF Call
<1> HIDE DEF q
<1> QED BY <1>2, CallTypes DEF q

LEMMA CleanMoves ==
  ASSUME TypeOK, NEW c \in Calls, NEW s \in CallStage, NEW b \in BOOLEAN,
         NEW x \in {call[c], IdleCall}, Become(c, [x EXCEPT !.stage = s, !.clean = b])
  PROVE  /\ call' \in [Calls -> Call]
         /\ call'[c].stage = s
<1>1. x \in Call
  BY IdleRecord DEF TypeOK
<1> DEFINE q == [x EXCEPT !.stage = s, !.clean = b]
<1>2. q \in Call /\ q.stage = s
  BY <1>1, CallRecord DEF Call
<1> HIDE DEF q
<1> QED BY <1>2, CallTypes DEF q

(* What every step of the call does to it. *)
LEMMA CallEffect ==
  ASSUME TypeOK, NEW c \in Calls, CallNext(c)
  PROVE  call' \in [Calls -> Call]
<1> USE DEF CallStage
<1>1. CASE StartSpawn(c)
  BY <1>1, JoinsMoves DEF StartSpawn
<1>2. CASE TakeHandle(c)
  <2>1. handle \in Servers \cup {NoServer}
    BY DEF TypeOK
  <2> QED BY <1>2, <2>1, JoinsMoves DEF TakeHandle
<1>3. CASE StopAtOnce(c)
  BY <1>3, CleanMoves DEF StopAtOnce
<1>4. CASE Drain(c)
  BY <1>4, CleanMoves DEF Drain
<1>5. CASE (\E s \in CallStage : Goto(c, s)) \/ Answer(c)
  BY <1>5, GotoMoves, AnswerMoves
<1> QED
  BY <1>1, <1>2, <1>3, <1>4, <1>5 DEF CallNext, Proceed, StartCheck, StartAccept,
     StartKeep, MarkBlocked, BlockRunning, Pause, Resume, PauseCheck, PauseWrite,
     StopCheck, StopAccepting, Join, Stopped, GiveUp

LEMMA CallTypeStep ==
  ASSUME TypeOK, NEW c \in Calls, CallNext(c)
  PROVE  TypeOK'
<1>1. call' \in [Calls -> Call]
  BY CallEffect
<1> USE <1>1 DEF TypeOK, RuntimeState
<1>2. CASE StartCheck(c) \/ StartAccept(c)
  BY <1>2 DEF StartCheck, StartAccept
<1>3. CASE StartSpawn(c)
  BY <1>3 DEF StartSpawn, ServerStage
<1>4. CASE StartKeep(c)
  BY <1>4 DEF StartKeep, Call
<1>5. CASE MarkBlocked(c) \/ BlockRunning(c) \/ Pause(c) \/ Resume(c)
  BY <1>5 DEF MarkBlocked, BlockRunning, Pause, Resume
<1>6. CASE PauseCheck(c) \/ PauseWrite(c)
  BY <1>6 DEF PauseCheck, PauseWrite
<1>7. CASE StopAtOnce(c) \/ StopCheck(c) \/ StopAccepting(c) \/ Drain(c)
  BY <1>7 DEF StopAtOnce, StopCheck, StopAccepting, Drain
<1>8. CASE TakeHandle(c) \/ Join(c) \/ Stopped(c) \/ GiveUp(c)
  BY <1>8 DEF TakeHandle, Join, Stopped, GiveUp
<1> QED BY <1>2, <1>3, <1>4, <1>5, <1>6, <1>7, <1>8 DEF CallNext, Proceed

LEMMA OtherTypeStep ==
  ASSUME TypeOK,
         \/ \E t \in Servers : Work(t) \/ AcceptFails(t)
         \/ \E k \in Conns : ConnNext(k)
  PROVE  TypeOK'
<1>1. ASSUME NEW t \in Servers, Work(t) \/ AcceptFails(t)
      PROVE  TypeOK'
  BY <1>1 DEF Work, Begin, Bind, StopServing, Finish, Leave, AcceptFails, Serve,
     TypeOK, ServerStage, RuntimeState
<1>2. ASSUME NEW k \in Conns, ConnNext(k)
      PROVE  TypeOK'
  BY <1>2 DEF ConnNext, Connect, Request, Respond, Close, TypeOK
<1> QED BY <1>1, <1>2

-----------------------------------------------------------------------------
(* What the call does, and what its data plane does meanwhile, keeps the   *)
(* state, the flags and the task together until a disturbance.             *)
LEMMA CallStep ==
  ASSUME TypeOK, Service, OneCaller, NEW c \in Calls, CallNext(c), ~disturbed'
  PROVE  Service'
<1>0. \A d \in Calls : d = c
  BY DEF OneCaller
<1> USE <1>0 DEF Service, OneLoop, NoOrphanLoop, StateFits, RunningFits, CallFits,
        Within, Stopping, Alive, Live, At, CallStage
<1>1. CASE StartCheck(c)
  <2>1. /\ call[c].stage = "idle" /\ call'[c].stage = "start_accept"
        /\ call'[c].joins = call[c].joins
        /\ state \notin {"Starting", "Running", "Paused"}
        /\ UNCHANGED <<state, running, paused, accepting, handle, server>>
    BY <1>1, GotoMoves DEF StartCheck
  <2>2. state # "Draining"
    BY <2>1 DEF TypeOK, ServerStage
  <2> QED BY <2>1, <2>2
<1>2. CASE StartAccept(c)
  <2>1. /\ call[c].stage = "start_accept" /\ call'[c].stage = "start_spawn"
        /\ call'[c].joins = call[c].joins /\ accepting'
        /\ UNCHANGED <<state, running, handle, server>>
    BY <1>2, GotoMoves DEF StartAccept
  <2>2. state \notin {"Starting", "Running", "Paused", "Draining"}
    BY <2>1
  <2> QED BY <2>1, <2>2
<1>3. CASE StartSpawn(c)
  <2>1. PICK t \in Servers : /\ Unused(t)
                             /\ server' = [server EXCEPT ![t] = "spawned"]
                             /\ Become(c, [call[c] EXCEPT !.stage = "start_keep", !.joins = t])
    BY <1>3 DEF StartSpawn
  <2>2. /\ call[c].stage = "start_spawn" /\ call'[c].stage = "start_keep"
        /\ call'[c].joins = t
        /\ state' = "Starting" /\ UNCHANGED <<running, paused, accepting, handle>>
        /\ \A u \in Servers : server[u] # "leaving"
    BY <1>3, <2>1, JoinsMoves DEF StartSpawn
  <2>3. server[t] \in {"free", "ended"} /\ server'[t] = "spawned"
        /\ \A u \in Servers : u # t => server'[u] = server[u]
    BY <2>1 DEF Unused, TypeOK
  <2>4. state \notin {"Starting", "Running", "Paused", "Draining"}
    BY <2>2
  <2>5. \A u \in Servers : ~Alive(u)
    BY <2>2, <2>4 DEF TypeOK, ServerStage
  <2> QED BY <2>2, <2>3, <2>5
<1>4. CASE StartKeep(c)
  <2>1. /\ call[c].stage = "start_keep" /\ call'[c].stage = "idle"
        /\ handle' = call[c].joins /\ UNCHANGED <<state, running, paused, accepting, server>>
    BY <1>4, AnswerMoves DEF StartKeep
  <2> QED BY <2>1
<1>5. CASE MarkBlocked(c)
  <2>1. /\ call[c].stage = "idle" /\ call'[c].stage = "block_running"
        /\ call'[c].joins = call[c].joins
        /\ state' = "Blocked" /\ ~Live /\ UNCHANGED <<running, paused, accepting, handle, server>>
    BY <1>5, GotoMoves DEF MarkBlocked
  <2> QED BY <2>1
<1>6. CASE BlockRunning(c)
  <2>1. /\ call[c].stage = "block_running" /\ call'[c].stage = "idle"
        /\ ~running' /\ UNCHANGED <<state, paused, accepting, handle, server, disturbed>>
    BY <1>6, AnswerMoves DEF BlockRunning
  <2>2. ~Live
    BY <2>1 DEF TypeOK, ServerStage
  <2> QED BY <2>1, <2>2
<1>7. CASE Pause(c)
  <2>1. /\ call[c].stage = "idle" /\ call'[c].stage = "pause_check"
        /\ call'[c].joins = call[c].joins
        /\ paused' /\ UNCHANGED <<state, running, accepting, handle, server>>
    BY <1>7, GotoMoves DEF Pause
  <2> QED BY <2>1
<1>8. CASE Resume(c)
  <2>1. /\ call[c].stage = "idle" /\ call'[c].stage = "resume_check"
        /\ call'[c].joins = call[c].joins
        /\ UNCHANGED <<state, running, accepting, handle, server>>
    BY <1>8, GotoMoves DEF Resume
  <2> QED BY <2>1
<1>9. CASE PauseCheck(c)
  <2>1. /\ \/ call[c].stage = "pause_check" /\ call'[c].stage \in {"pause_write", "idle"}
           \/ /\ call[c].stage = "resume_check"
              /\ IF state = "Paused" THEN call'[c].stage = "resume_write"
                                     ELSE call'[c].stage = "idle"
        /\ UNCHANGED <<state, running, paused, accepting, handle, server>>
    BY <1>9, GotoMoves, AnswerMoves DEF PauseCheck
  <2> QED BY <2>1
<1>10. CASE PauseWrite(c)
  <2>1. /\ \/ call[c].stage = "pause_write" /\ state = "Running" /\ state' = "Paused"
           \/ call[c].stage = "resume_write" /\ state = "Paused" /\ state' = "Running"
        /\ call'[c].stage = "idle"
        /\ UNCHANGED <<running, paused, accepting, handle, server>>
    BY <1>10, AnswerMoves DEF PauseWrite
  <2> QED BY <2>1
<1>11. CASE StopAtOnce(c)
  <2>1. /\ call[c].stage = "idle" /\ call'[c].stage = "stopped"
        /\ state \in {"Stopped", "Blocked"} /\ state' = "Stopped"
        /\ UNCHANGED <<running, paused, accepting, handle, server>>
    BY <1>11, CleanMoves DEF StopAtOnce
  <2> QED BY <2>1
<1>12. CASE StopCheck(c) \/ StopAccepting(c)
  <2>1. /\ \/ /\ call[c].stage = "idle" /\ call'[c].stage = "stop_drain"
              /\ state' = "Draining"
           \/ /\ call[c].stage = "stop_drain" /\ call'[c].stage = "draining"
              /\ state' = state
        /\ UNCHANGED <<running, paused, handle, server>>
    BY <1>12, GotoMoves DEF StopCheck, StopAccepting
  <2> QED BY <2>1
<1>13. CASE Drain(c)
  <2>1. /\ call[c].stage = "draining" /\ call'[c].stage = "drained"
        /\ UNCHANGED <<state, running, paused, accepting, handle, server>>
    BY <1>13, CleanMoves DEF Drain
  <2> QED BY <2>1
<1>14. CASE TakeHandle(c)
  <2>1. /\ call[c].stage = "drained" /\ call'[c].stage = "joining"
        /\ call'[c].joins = handle
        /\ UNCHANGED <<state, running, paused, accepting, server>>
    BY <1>14, JoinsMoves DEF TakeHandle, TypeOK
  <2> QED BY <2>1
<1>15. CASE Join(c)
  <2>1. /\ call[c].stage = "joining" /\ call'[c].stage = "stopped"
        /\ call[c].joins # NoServer => server[call[c].joins] = "ended"
        /\ state' = "Stopped" /\ ~running'
        /\ UNCHANGED <<paused, accepting, handle, server>>
    BY <1>15, GotoMoves DEF Join
  <2>2. \A t \in Servers : ~Alive(t)
    BY <2>1, NoServerAssumption
  <2> QED BY <2>1, <2>2
<1>16. CASE Stopped(c)
  <2>1. /\ call[c].stage = "stopped" /\ call'[c].stage = "idle"
        /\ UNCHANGED <<state, running, paused, accepting, handle, server>>
    BY <1>16, AnswerMoves DEF Stopped
  <2> QED BY <2>1
<1>17. ~GiveUp(c)
  BY DEF GiveUp
<1> QED
  BY <1>1, <1>2, <1>3, <1>4, <1>5, <1>6, <1>7, <1>8, <1>9, <1>10, <1>11, <1>12,
     <1>13, <1>14, <1>15, <1>16, <1>17 DEF CallNext, Proceed

LEMMA ServerStep ==
  ASSUME TypeOK, Service, OneCaller, NEW t \in Servers, Work(t) \/ AcceptFails(t)
  PROVE  Service'
<1> USE DEF Service, OneLoop, NoOrphanLoop, StateFits, RunningFits, CallFits,
        Within, Stopping, Alive, Live, TypeOK
<1>0. \A from, to \in ServerStage : Serve(t, from, to) =>
        /\ server[t] = from /\ server'[t] = to
        /\ \A u \in Servers : u # t => server'[u] = server[u]
  BY DEF Serve
<1> USE <1>0 DEF ServerStage
<1>1. CASE Begin(t)
  <2>1. UNCHANGED <<paused, accepting, handle, call>>
    BY <1>1 DEF Begin
  <2>2. CASE Serve(t, "spawned", "begun") /\ running' = TRUE /\ UNCHANGED state
    BY <2>1, <2>2
  <2>3. CASE Serve(t, "begun", "binding") /\ state' = "Running" /\ UNCHANGED running
    <3>1. /\ server[t] = "begun" /\ server'[t] = "binding"
          /\ \A u \in Servers : u # t => ~Alive(u) /\ server'[u] = server[u]
      BY <2>3
    <3>2. OneLoop' /\ NoOrphanLoop' /\ RunningFits' /\ (Stopping' <=> Stopping)
      BY <2>1, <2>3, <3>1
    <3>3. StateFits'
      BY <2>1, <2>3, <3>1
    <3>4. CallFits'
      <4>1. state = "Starting" \/ Stopping
        BY <3>1
      <4>2. ~Within({"start_accept", "start_spawn", "stopped", "block_running"})
        BY <4>1 DEF OneCaller
      <4> QED BY <2>1, <2>3, <4>2
    <3> QED BY <3>2, <3>3, <3>4
  <2> QED BY <1>1, <2>2, <2>3 DEF Begin
<1>2. CASE Bind(t)
  BY <1>2 DEF Bind
<1>3. CASE StopServing(t)
  BY <1>3 DEF StopServing
<1>4. CASE AcceptFails(t)
  BY <1>4 DEF AcceptFails
<1>5. CASE Finish(t)
  <2>1. UNCHANGED <<running, paused, accepting, handle, call>>
    BY <1>5 DEF Finish
  <2>2. CASE Serve(t, "failed", "leaving") /\ state' = "Error"
    <3>1. state \in {"Running", "Paused"} \/ Stopping
      BY <2>2
    <3>2. ~Within({"start_accept", "start_spawn", "stopped", "block_running"})
      BY <3>1 DEF OneCaller
    <3>3. CallFits'
      BY <2>1, <2>2, <3>2
    <3>4. StateFits'
      BY <2>1, <2>2
    <3> QED BY <2>1, <2>2, <3>3, <3>4
  <2>3. CASE /\ Serve(t, "returned", "leaving")
             /\ state' = IF state = "Draining" THEN state ELSE "Stopped"
    <3>1. Stopping /\ Stopping'
      BY <2>1, <2>3
    <3>2. ~Within({"start_accept", "start_spawn", "stopped", "block_running"})
      BY <3>1 DEF OneCaller
    <3>3. CallFits'
      BY <2>1, <2>3, <3>2
    <3> QED BY <2>1, <2>3, <3>1, <3>3
  <2> QED BY <1>5, <2>2, <2>3 DEF Finish
<1>6. CASE Leave(t)
  BY <1>6 DEF Leave
<1> QED BY <1>1, <1>2, <1>3, <1>4, <1>5, <1>6 DEF Work

LEMMA ConnStep ==
  ASSUME Service, NEW k \in Conns, ConnNext(k)
  PROVE  Service'
BY DEF ConnNext, Connect, Request, Respond, Close, Service, OneLoop, NoOrphanLoop,
   StateFits, RunningFits, CallFits, Within, Stopping, Alive, Live

(* Nothing repairs a disturbance. *)
LEMMA DisturbedStays == TypeOK /\ disturbed /\ [Next]_vars => disturbed'
BY DEF Next, CallNext, Proceed, StartCheck, StartAccept, StartSpawn, StartKeep,
   MarkBlocked, BlockRunning, Pause, Resume, PauseCheck, PauseWrite, StopAtOnce,
   StopCheck, StopAccepting, Drain, TakeHandle, Join, Stopped, GiveUp, Work, Begin,
   Bind, StopServing, Finish, Leave, AcceptFails, ConnNext, Connect, Request,
   Respond, Close, vars

LEMMA InitRuntimeInv == Init => RuntimeInv
<1> SUFFICES ASSUME Init PROVE RuntimeInv
  OBVIOUS
<1>1. TypeOK
  BY IdleRecord DEF Init, TypeOK, RuntimeState, ServerStage
<1>2. /\ \A t \in Servers : server[t] = "free"
      /\ \A c \in Calls : call[c].stage = "idle"
      /\ state = "Stopped" /\ ~running
  BY DEF Init, IdleCall
<1> QED
  BY <1>1, <1>2 DEF RuntimeInv, Service, OneLoop, NoOrphanLoop, StateFits, RunningFits,
     CallFits, Within, Stopping, Alive, Live

LEMMA NextRuntimeInv ==
  ASSUME OneCaller
  PROVE  RuntimeInv /\ [Next]_vars => RuntimeInv'
<1> SUFFICES ASSUME RuntimeInv, [Next]_vars
             PROVE  RuntimeInv'
  OBVIOUS
<1>0. TypeOK /\ (disturbed \/ Service)
  BY DEF RuntimeInv
<1>1. ASSUME NEW c \in Calls, CallNext(c)
      PROVE  RuntimeInv'
  BY <1>0, <1>1, CallTypeStep, CallStep, DisturbedStays DEF RuntimeInv
<1>2. ASSUME NEW t \in Servers, Work(t) \/ AcceptFails(t)
      PROVE  RuntimeInv'
  <2>1. TypeOK'
    BY <1>0, <1>2, OtherTypeStep
  <2> QED BY <1>0, <1>2, <2>1, ServerStep, DisturbedStays DEF RuntimeInv, Next
<1>3. ASSUME NEW k \in Conns, ConnNext(k)
      PROVE  RuntimeInv'
  <2>1. TypeOK'
    BY <1>0, <1>3, OtherTypeStep
  <2> QED BY <1>0, <1>3, <2>1, ConnStep, DisturbedStays DEF RuntimeInv, Next
<1>4. CASE UNCHANGED vars
  BY <1>0, <1>4 DEF vars, RuntimeInv, TypeOK, Service, OneLoop, NoOrphanLoop, StateFits,
     RunningFits, CallFits, Within, Stopping, Alive, Live
<1> QED BY <1>1, <1>2, <1>3, <1>4 DEF Next

(* With one caller at a time the supervisor, its flags and its task stay   *)
(* together until one of the disturbances happens, however often the data  *)
(* plane is started and stopped: there is never an accept loop that stop() *)
(* does not know.                                                          *)
THEOREM RuntimeInvariant ==
  ASSUME OneCaller
  PROVE  Spec => []RuntimeInv
BY InitRuntimeInv, NextRuntimeInv, PTL DEF Spec

(* The state that the control API shows is then that of the listener.      *)
THEOREM OneCallerSeesTheTruth ==
  ASSUME OneCaller
  PROVE  Spec => []StateIsTruthful
<1>1. RuntimeInv => StateIsTruthful
  <2> SUFFICES ASSUME RuntimeInv, Settled, ~disturbed
               PROVE  /\ running <=> Serving
                      /\ state \in {"Running", "Paused"} <=> Serving
                      /\ state = "Paused" => paused
    BY DEF StateIsTruthful
  <2>1. TypeOK /\ StateFits /\ RunningFits /\ CallFits
    BY DEF RuntimeInv, Service
  <2>2. ~Stopping /\ ~Within({"resume_check", "resume_write"})
    BY DEF Settled, Stopping, Within
  <2>3. \A t \in Servers : server[t] \in {"free", "serving", "ended"}
    BY DEF Settled
  <2> QED BY <2>1, <2>2, <2>3 DEF StateFits, RunningFits, CallFits, Serving, Live, Alive
<1> QED BY <1>1, RuntimeInvariant, PTL

(* And when stop() returns, nobody listens for connections any more. *)
THEOREM OneCallerStops ==
  ASSUME OneCaller
  PROVE  Spec => []StopEndsListening
<1>1. RuntimeInv => StopEndsListening
  <2> SUFFICES ASSUME RuntimeInv, NEW c \in Calls, call[c].stage = "stopped", ~disturbed
               PROVE  ~Serving
    BY DEF StopEndsListening
  <2>1. StateFits /\ CallFits
    BY DEF RuntimeInv, Service
  <2>2. ~Stopping /\ Within({"stopped"})
    BY DEF OneCaller, Stopping, Within
  <2> QED BY <2>1, <2>2 DEF StateFits, CallFits, Serving, Within
<1> QED BY <1>1, RuntimeInvariant, PTL

-----------------------------------------------------------------------------
(* The refinement of DataPlane.  Phase, in terms of the one call.          *)
LEMMA StoppingOne ==
  ASSUME OneCaller, NEW c \in Calls
  PROVE  Stopping <=> call[c].stage \in {"stop_drain", "draining", "drained", "joining"}
BY DEF OneCaller, Stopping, Within

(* A step that leaves the tasks, the connections and the stop alone is not *)
(* seen.                                                                   *)
LEMMA PlaneStutters ==
  ASSUME UNCHANGED <<server, conn, disturbed>>, Stopping' <=> Stopping
  PROVE  UNCHANGED <<Phase, Open, disturbed>>
BY DEF Phase, Open, Serving

(* Most steps of a call are not. *)
LEMMA CallIsUnseen ==
  ASSUME TypeOK, OneCaller, NEW c \in Calls, CallNext(c), ~disturbed', ~disturbed
  PROVE  \/ StartSpawn(c) \/ StopCheck(c) \/ Join(c)
         \/ UNCHANGED <<Phase, Open, disturbed>>
<1> USE DEF CallStage
<1>1. UNCHANGED <<conn, disturbed>>
  BY DEF CallNext, Proceed, StartCheck, StartAccept, StartSpawn, StartKeep, MarkBlocked,
     BlockRunning, Pause, Resume, PauseCheck, PauseWrite, StopAtOnce, StopCheck,
     StopAccepting, Drain, TakeHandle, Join, Stopped, GiveUp, TypeOK
<1>2. CASE StartCheck(c) \/ StartAccept(c) \/ MarkBlocked(c) \/ Pause(c) \/ Resume(c)
  <2>1. /\ call[c].stage \in {"idle", "start_accept"}
        /\ call'[c].stage \in {"start_accept", "start_spawn", "block_running",
                               "pause_check", "resume_check"}
        /\ UNCHANGED server
    BY <1>2, GotoMoves DEF StartCheck, StartAccept, MarkBlocked, Pause, Resume, At
  <2> QED BY <1>1, <2>1, StoppingOne, PlaneStutters DEF Stopping, Within, OneCaller
<1>3. CASE StartKeep(c) \/ BlockRunning(c) \/ PauseCheck(c) \/ PauseWrite(c) \/ Stopped(c)
  <2>1. /\ call[c].stage \in {"start_keep", "block_running", "pause_check", "resume_check",
                              "pause_write", "resume_write", "stopped"}
        /\ call'[c].stage \in {"idle", "pause_write", "resume_write"}
        /\ UNCHANGED server
    BY <1>3, GotoMoves, AnswerMoves
    DEF StartKeep, BlockRunning, PauseCheck, PauseWrite, Stopped, At
  <2> QED BY <1>1, <2>1, PlaneStutters DEF Stopping, Within, OneCaller
<1>4. CASE StopAtOnce(c)
  <2>1. call[c].stage = "idle" /\ call'[c].stage = "stopped" /\ UNCHANGED server
    BY <1>4, CleanMoves DEF StopAtOnce, At
  <2> QED BY <1>1, <2>1, PlaneStutters DEF Stopping, Within, OneCaller
<1>5. CASE StopAccepting(c) \/ Drain(c) \/ TakeHandle(c)
  <2>1. /\ call[c].stage \in {"stop_drain", "draining", "drained"}
        /\ call'[c].stage \in {"draining", "drained", "joining"}
        /\ UNCHANGED server
    BY <1>5, GotoMoves, CleanMoves, JoinsMoves DEF StopAccepting, Drain, TakeHandle, At, TypeOK
  <2> QED BY <1>1, <2>1, PlaneStutters DEF Stopping, Within, OneCaller
<1>6. ~GiveUp(c)
  BY DEF GiveUp
<1> QED BY <1>2, <1>3, <1>4, <1>5, <1>6 DEF CallNext, Proceed

(* Nobody is under way when a data plane is started or a stop is done. *)
LEMMA NobodyLives ==
  ASSUME \A t \in Servers : ~Alive(t)
  PROVE  Phase = IF Stopping THEN "stopping" ELSE "off"
BY DEF Phase, Serving, Alive

LEMMA SpawnStarts ==
  ASSUME TypeOK, Service, OneCaller, NEW c \in Calls, StartSpawn(c), ~disturbed'
  PROVE  Plane!Start
<1>1. PICK t \in Servers : /\ Unused(t)
                           /\ server' = [server EXCEPT ![t] = "spawned"]
                           /\ Become(c, [call[c] EXCEPT !.stage = "start_keep", !.joins = t])
  BY DEF StartSpawn
<1>2. /\ call[c].stage = "start_spawn" /\ call'[c].stage = "start_keep"
      /\ UNCHANGED conn /\ \A u \in Servers : server[u] # "leaving"
  BY <1>1, JoinsMoves DEF StartSpawn, At, CallStage
<1>3. state \notin {"Starting", "Running", "Paused", "Draining"}
  BY <1>2 DEF Service, CallFits, Within
<1>4. ~Stopping /\ ~Stopping'
  BY <1>2 DEF Stopping, Within, OneCaller
<1>5. \A u \in Servers : ~Alive(u)
  BY <1>2, <1>3, <1>4 DEF Service, StateFits, Alive, TypeOK, ServerStage
<1>6. server'[t] = "spawned" /\ \A u \in Servers : server'[u] # "serving"
  BY <1>1, <1>5 DEF TypeOK, Alive
<1>7. Phase = "off" /\ Phase' = "starting"
  BY <1>4, <1>5, <1>6, NobodyLives DEF Phase, Serving
<1> QED BY <1>2, <1>7 DEF Plane!Start, Plane!Turn, Open

LEMMA CheckStops ==
  ASSUME TypeOK, OneCaller, NEW c \in Calls, StopCheck(c)
  PROVE  Plane!Stop
<1>1. /\ call[c].stage = "idle" /\ call'[c].stage = "stop_drain"
      /\ UNCHANGED conn
  BY GotoMoves DEF StopCheck, At, CallStage
<1>2. ~Stopping /\ Stopping'
  BY <1>1 DEF Stopping, Within, OneCaller
<1>3. Phase \in {"off", "starting", "serving"} /\ Phase' = "stopping"
  BY <1>2 DEF Phase
<1> QED BY <1>1, <1>3 DEF Plane!Stop, Plane!Turn, Open

(* The loop that is waited for is the only one. *)
LEMMA JoinIsDown ==
  ASSUME TypeOK, Service, OneCaller, NEW c \in Calls, Join(c)
  PROVE  Plane!Down
<1>1. /\ call[c].stage = "joining" /\ call'[c].stage = "stopped"
      /\ call[c].joins # NoServer => server[call[c].joins] = "ended"
      /\ UNCHANGED <<server, conn>>
  BY GotoMoves DEF Join, At, CallStage
<1>2. \A t \in Servers : ~Alive(t)
  BY <1>1, NoServerAssumption DEF Service, NoOrphanLoop, Within, Alive
<1>3. Stopping /\ ~Stopping'
  BY <1>1 DEF Stopping, Within, OneCaller
<1>4. Phase = "stopping" /\ Phase' = "off"
  BY <1>1, <1>2, <1>3 DEF Phase, Serving, Alive
<1> QED BY <1>1, <1>4 DEF Plane!Down, Plane!Turn, Open

(* While a stop is under way nothing is seen of the task; otherwise it     *)
(* comes up, listens or fails.                                             *)
LEMMA TaskIsSeen ==
  ASSUME TypeOK, Service, NEW t \in Servers, Work(t) \/ AcceptFails(t), ~disturbed
  PROVE  Plane!Listen \/ Plane!Fail \/ UNCHANGED <<Phase, Open, disturbed>>
<1>1. UNCHANGED <<conn, call, disturbed>>
  BY DEF Work, Begin, Bind, StopServing, Finish, Leave, AcceptFails
<1>2. UNCHANGED Open /\ (Stopping' <=> Stopping)
  BY <1>1 DEF Open, Stopping, Within
<1>3. CASE Stopping
  BY <1>1, <1>2, <1>3 DEF Phase
<1>4. CASE ~Stopping
  <2>1. \A u \in Servers \ {t} : Alive(t) => ~Alive(u)
    BY DEF Service, OneLoop
  <2>2. ~StopServing(t)
    BY <1>4 DEF StopServing, Serve, Service, StateFits, Alive
  <2>3. ASSUME NEW from, NEW to, Serve(t, from, to), from \notin {"free", "ended"}
        PROVE  /\ server[t] = from /\ server'[t] = to
               /\ \A u \in Servers \ {t} :
                    /\ server[u] \in {"free", "ended"}
                    /\ server'[u] = server[u]
    BY <2>1, <2>3 DEF Serve, TypeOK, Alive
  <2>4. CASE Begin(t)
    <3>1. \/ Serve(t, "spawned", "begun")
          \/ Serve(t, "begun", "binding")
      BY <2>4 DEF Begin
    <3>2. Phase = "starting" /\ Phase' = "starting"
      BY <1>2, <1>4, <2>3, <3>1 DEF Phase, Serving
    <3> QED BY <1>1, <1>2, <3>2
  <2>5. CASE Bind(t)
    <3>1. \/ Serve(t, "binding", "serving")
          \/ Serve(t, "binding", "failed")
      BY <2>5 DEF Bind
    <3>2. Phase = "starting" /\ Phase' \in {"serving", "off"}
      BY <1>2, <1>4, <2>3, <3>1 DEF Phase, Serving
    <3> QED BY <1>2, <3>2 DEF Plane!Listen, Plane!Fail, Plane!Turn
  <2>6. CASE AcceptFails(t)
    <3>1. Serve(t, "serving", "failed")
      BY <2>6 DEF AcceptFails
    <3>2. Phase = "serving" /\ Phase' = "off"
      BY <1>2, <1>4, <2>3, <3>1 DEF Phase, Serving
    <3> QED BY <1>2, <3>2 DEF Plane!Fail, Plane!Turn
  <2>7. CASE Finish(t) \/ Leave(t)
    <3>1. \/ Serve(t, "failed", "leaving") \/ Serve(t, "returned", "leaving")
          \/ Serve(t, "leaving", "ended")
      BY <2>7 DEF Finish, Leave
    <3>2. Phase = "off" /\ Phase' = "off"
      BY <1>2, <1>4, <2>3, <3>1 DEF Phase, Serving
    <3> QED BY <1>1, <1>2, <3>2
  <2> QED BY <2>2, <2>4, <2>5, <2>6, <2>7 DEF Work
<1> QED BY <1>3, <1>4

(* Clients come while somebody listens. *)
LEMMA ClientIsSeen ==
  ASSUME TypeOK, NEW k \in Conns, ConnNext(k)
  PROVE  \/ Plane!Connect(k) \/ Plane!Disconnect(k)
         \/ UNCHANGED <<Phase, Open, disturbed>>
<1>1. UNCHANGED <<server, call, disturbed>>
  BY DEF ConnNext, Connect, Request, Respond, Close
<1>2. UNCHANGED Phase
  BY <1>1 DEF Phase, Stopping, Within, Serving
<1>3. ASSUME NEW s \in {"open", "busy"}, conn' = [conn EXCEPT ![k] = s]
      PROVE  Open' = Open \cup {k}
  BY <1>3 DEF Open, TypeOK
<1>4. CASE Connect(k)
  <2>1. conn[k] = "closed" /\ Serving /\ conn' = [conn EXCEPT ![k] = "open"]
    BY <1>4 DEF Connect
  <2>2. Open' = Open \cup {k}
    BY <1>3, <2>1
  <2>3. k \notin Open
    BY <2>1 DEF Open
  <2> QED BY <1>2, <2>1, <2>2, <2>3 DEF Plane!Connect, Phase
<1>5. CASE Request(k) \/ Respond(k)
  <2>1. k \in Open /\ Open' = Open \cup {k}
    BY <1>3, <1>5 DEF Request, Respond, Open
  <2> QED BY <1>1, <1>2, <2>1
<1>6. CASE Close(k)
  <2>1. k \in Open /\ Open' = Open \ {k}
    BY <1>6 DEF Close, Open, TypeOK
  <2> QED BY <1>2, <2>1 DEF Plane!Disconnect
<1> QED BY <1>4, <1>5, <1>6 DEF ConnNext

(* One caller at a time, until a disturbance: start(), stop() and the task *)
(* between them implement the service of DataPlane (proxy/mod.rs:118-186,  *)
(* proxy/server.rs:234-272).                                               *)
THEOREM RuntimeImplementsPlane ==
  ASSUME OneCaller
  PROVE  Spec => WorksAsOnePlane
<1>1. Init => Plane!Init
  <2> SUFFICES ASSUME Init PROVE Plane!Init
    OBVIOUS
  <2>1. ~Stopping /\ \A t \in Servers : ~Alive(t)
    BY DEF Init, Stopping, Within, IdleCall, Alive
  <2>2. Phase = "off" /\ Open = {}
    BY <2>1, NobodyLives DEF Init, Open
  <2> QED BY <2>2 DEF Init, Plane!Init
<1>2. RuntimeInv /\ [Next]_vars => [Plane!Next]_<<Phase, Open, disturbed>>
  <2> SUFFICES ASSUME RuntimeInv, [Next]_vars, ~disturbed'
               PROVE  [Plane!Next]_<<Phase, Open, disturbed>>
    BY DEF Plane!Next
  <2>1. TypeOK /\ ~disturbed /\ Service
    BY DisturbedStays DEF RuntimeInv
  <2>2. UNCHANGED disturbed
    BY <2>1 DEF TypeOK, Next, CallNext, Proceed, StartCheck, StartAccept, StartSpawn,
       StartKeep, MarkBlocked, BlockRunning, Pause, Resume, PauseCheck, PauseWrite,
       StopAtOnce, StopCheck, StopAccepting, Drain, TakeHandle, Join, Stopped, GiveUp,
       Work, Begin, Bind, StopServing, Finish, Leave, AcceptFails, ConnNext, Connect,
       Request, Respond, Close, vars
  <2>3. ASSUME NEW c \in Calls, CallNext(c)
        PROVE  [Plane!Next]_<<Phase, Open, disturbed>>
    <3>1. \/ Plane!Start \/ Plane!Stop \/ Plane!Down
          \/ UNCHANGED <<Phase, Open, disturbed>>
      BY <2>1, <2>3, CallIsUnseen, SpawnStarts, CheckStops, JoinIsDown
    <3> QED BY <2>2, <3>1 DEF Plane!Next
  <2>4. ASSUME NEW t \in Servers, Work(t) \/ AcceptFails(t)
        PROVE  [Plane!Next]_<<Phase, Open, disturbed>>
    BY <2>1, <2>2, <2>4, TaskIsSeen DEF Plane!Next
  <2>5. ASSUME NEW k \in Conns, ConnNext(k)
        PROVE  [Plane!Next]_<<Phase, Open, disturbed>>
    BY <2>1, <2>2, <2>5, ClientIsSeen DEF Plane!Next
  <2>6. CASE UNCHANGED vars
    BY <2>6, PlaneStutters DEF vars, Stopping, Within
  <2> QED BY <2>3, <2>4, <2>5, <2>6 DEF Next
<1>3. WorksAsOnePlane <=> Plane!Init /\ [][Plane!Next]_<<Phase, Open, disturbed>>
  BY DEF WorksAsOnePlane, Plane!Spec, Plane!vars
<1> QED BY <1>1, <1>2, <1>3, RuntimeInvariant, PTL DEF Spec
=============================================================================
