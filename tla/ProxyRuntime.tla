---------------------------- MODULE ProxyRuntime ----------------------------
(***************************************************************************)
(* Starting, pausing and stopping the data plane: ProxyRuntime of          *)
(* proxy/mod.rs, the accept loop of ProxyServer::serve and the connections *)
(* it leaves behind.                                                       *)
(*                                                                         *)
(* start(), pause(), resume() and mark_blocked() have no await, but each   *)
(* reads and writes the shared state under separate locks; stop() awaits   *)
(* the drain and the accept loop.  Calls run on several threads.  A call   *)
(* that waits can be dropped: the clients of the control API give up after *)
(* two seconds, the drain takes up to thirty.                              *)
(***************************************************************************)
EXTENDS FiniteSets

CONSTANTS
  Calls,       \* slots for concurrent calls of the control API
  Conns,       \* slots for connections to the proxy
  Servers,     \* slots for tasks spawned by start()
  NoServer

ASSUME NoServerAssumption == NoServer \notin Servers

VARIABLES
  state,       \* RuntimeState
  running,     \* ProxyState.running
  paused,      \* Router.paused
  accepting,   \* ProxyServer.accepting
  handle,      \* the JoinHandle in ProxyRuntime.task
  server,      \* the tasks
  conn,        \* the connections
  call,        \* the calls
  disturbed    \* history: one of the disturbances below has happened

vars == <<state, running, paused, accepting, handle, server, conn, call, disturbed>>

-----------------------------------------------------------------------------
RuntimeState == {"Stopped", "Starting", "Running", "Paused", "Draining", "Blocked", "Error"}

(* Spawned, running set, state set, listening, serve() has returned, or    *)
(* with an error, and state set again.                                     *)
ServerStage == {"free", "spawned", "begun", "binding", "serving", "returned", "failed",
                "leaving", "ended"}

CallStage == {"idle", "start_accept", "start_spawn", "start_keep", "pause_check",
              "pause_write", "resume_check", "resume_write", "block_running",
              "stop_drain", "draining", "drained", "joining", "stopped"}

(* joins: the task whose handle the call has.  clean: the drain succeeded. *)
Call == [stage : CallStage, joins : Servers \cup {NoServer}, clean : BOOLEAN]

TypeOK ==
  /\ state \in RuntimeState
  /\ running \in BOOLEAN /\ paused \in BOOLEAN /\ accepting \in BOOLEAN
  /\ handle \in Servers \cup {NoServer}
  /\ server \in [Servers -> ServerStage]
  /\ conn \in [Conns -> {"closed", "open", "busy"}]
  /\ call \in [Calls -> Call]
  /\ disturbed \in BOOLEAN

IdleCall == [stage |-> "idle", joins |-> NoServer, clean |-> FALSE]

Init ==
  /\ state = "Stopped"
  /\ running = FALSE
  /\ paused = FALSE
  /\ accepting = TRUE
  /\ handle = NoServer
  /\ server = [t \in Servers |-> "free"]
  /\ conn = [k \in Conns |-> "closed"]
  /\ call = [c \in Calls |-> IdleCall]
  /\ disturbed = FALSE

-----------------------------------------------------------------------------
Become(c, q) == call' = [call EXCEPT ![c] = q]
Goto(c, stage) == Become(c, [call[c] EXCEPT !.stage = stage])
Answer(c) == Become(c, IdleCall)
At(c, stage) == call[c].stage = stage

(* A task of start() is under way. *)
Alive(t) == server[t] \notin {"free", "ended"}

Live == \E t \in Servers : Alive(t)

(* Mutant of StartCheck: a paused data plane may be started again. *)
StartCheckWhilePaused(c) ==
  /\ At(c, "idle")
  /\ state \notin {"Starting", "Running"}
  /\ Goto(c, "start_accept")
  /\ UNCHANGED <<state, running, paused, accepting, handle, server, conn, disturbed>>

(* start(): unless it has been started already. *)
StartCheck(c) ==
  /\ At(c, "idle")
  /\ state \notin {"Starting", "Running", "Paused"}
  /\ Goto(c, "start_accept")
  /\ UNCHANGED <<state, running, paused, accepting, handle, server, conn, disturbed>>

StartAccept(c) ==
  /\ At(c, "start_accept")
  /\ paused' = FALSE
  /\ accepting' = TRUE
  /\ Goto(c, "start_spawn")
  /\ UNCHANGED <<state, running, handle, server, conn, disturbed>>

(* A slot nobody refers to any more stands for a new task. *)
Unused(t) ==
  /\ server[t] \in {"free", "ended"}
  /\ handle # t
  /\ \A c \in Calls : call[c].joins # t

StartSpawn(c) ==
  /\ At(c, "start_spawn")
  /\ \E t \in Servers :
       /\ Unused(t)
       /\ server' = [server EXCEPT ![t] = "spawned"]
       /\ Become(c, [call[c] EXCEPT !.stage = "start_keep", !.joins = t])
  /\ state' = "Starting"
  /\ disturbed' = (disturbed \/ \E t \in Servers : server[t] = "leaving")
  /\ UNCHANGED <<running, paused, accepting, handle, conn>>

(* Mutant of StartKeep: the handle is not kept. *)
StartKeepsNothing(c) ==
  /\ At(c, "start_keep")
  /\ Answer(c)
  /\ UNCHANGED <<state, running, paused, accepting, handle, server, conn, disturbed>>

StartKeep(c) ==
  /\ At(c, "start_keep")
  /\ handle' = call[c].joins
  /\ Answer(c)
  /\ UNCHANGED <<state, running, paused, accepting, server, conn, disturbed>>

(* POST start without an eligible account: mark_blocked, whatever the data *)
(* plane is doing.                                                         *)
MarkBlocked(c) ==
  /\ At(c, "idle")
  /\ state' = "Blocked"
  /\ Goto(c, "block_running")
  /\ disturbed' = (disturbed \/ Live)
  /\ UNCHANGED <<running, paused, accepting, handle, server, conn>>

BlockRunning(c) ==
  /\ At(c, "block_running")
  /\ running' = FALSE
  /\ Answer(c)
  /\ UNCHANGED <<state, paused, accepting, handle, server, conn, disturbed>>

(* pause() and resume(): the router first, then the state if it is the     *)
(* right one, which is read and written separately.                        *)
Pause(c) ==
  /\ At(c, "idle")
  /\ paused' = TRUE
  /\ Goto(c, "pause_check")
  /\ UNCHANGED <<state, running, accepting, handle, server, conn, disturbed>>

Resume(c) ==
  /\ At(c, "idle")
  /\ paused' = FALSE
  /\ Goto(c, "resume_check")
  /\ UNCHANGED <<state, running, accepting, handle, server, conn, disturbed>>

PauseCheck(c) ==
  /\ \/ At(c, "pause_check") /\ (IF state = "Running" THEN Goto(c, "pause_write") ELSE Answer(c))
     \/ At(c, "resume_check") /\ (IF state = "Paused" THEN Goto(c, "resume_write") ELSE Answer(c))
  /\ UNCHANGED <<state, running, paused, accepting, handle, server, conn, disturbed>>

PauseWrite(c) ==
  /\ \/ /\ At(c, "pause_write") /\ state' = "Paused"
        /\ disturbed' = (disturbed \/ state # "Running")
     \/ /\ At(c, "resume_write") /\ state' = "Running"
        /\ disturbed' = (disturbed \/ state # "Paused")
  /\ Answer(c)
  /\ UNCHANGED <<running, paused, accepting, handle, server, conn>>

-----------------------------------------------------------------------------
(* stop() while it is stopped or blocked has nothing to wait for. *)
StopAtOnce(c) ==
  /\ At(c, "idle")
  /\ state \in {"Stopped", "Blocked"}
  /\ state' = "Stopped"
  /\ Become(c, [IdleCall EXCEPT !.stage = "stopped", !.clean = TRUE])
  /\ UNCHANGED <<running, paused, accepting, handle, server, conn, disturbed>>

StopCheck(c) ==
  /\ At(c, "idle")
  /\ state \notin {"Stopped", "Blocked"}
  /\ state' = "Draining"
  /\ Goto(c, "stop_drain")
  /\ UNCHANGED <<running, paused, accepting, handle, server, conn, disturbed>>

StopAccepting(c) ==
  /\ At(c, "stop_drain")
  /\ accepting' = FALSE
  /\ Goto(c, "draining")
  /\ UNCHANGED <<state, running, paused, handle, server, conn, disturbed>>

(* wait_for_drain sees no request in flight, or its timeout. *)
Drain(c) ==
  /\ At(c, "draining")
  /\ \E clean \in BOOLEAN :
       /\ clean => \A k \in Conns : conn[k] # "busy"
       /\ Become(c, [call[c] EXCEPT !.stage = "drained", !.clean = clean])
  /\ UNCHANGED <<state, running, paused, accepting, handle, server, conn, disturbed>>

TakeHandle(c) ==
  /\ At(c, "drained")
  /\ handle' = NoServer
  /\ Become(c, [call[c] EXCEPT !.stage = "joining", !.joins = handle])
  /\ UNCHANGED <<state, running, paused, accepting, server, conn, disturbed>>

(* Mutant of Join: the accept loop is not waited for. *)
JoinNothing(c) ==
  /\ At(c, "joining")
  /\ state' = "Stopped"
  /\ running' = FALSE
  /\ Goto(c, "stopped")
  /\ UNCHANGED <<paused, accepting, handle, server, conn, disturbed>>

Join(c) ==
  /\ At(c, "joining")
  /\ call[c].joins # NoServer => server[call[c].joins] = "ended"
  /\ state' = "Stopped"
  /\ running' = FALSE
  /\ Goto(c, "stopped")
  /\ UNCHANGED <<paused, accepting, handle, server, conn, disturbed>>

(* stop() has returned, and its handler reports that the proxy is stopped. *)
Stopped(c) ==
  /\ At(c, "stopped")
  /\ Answer(c)
  /\ UNCHANGED <<state, running, paused, accepting, handle, server, conn, disturbed>>

(* The caller gives up while stop() waits. *)
GiveUp(c) ==
  /\ call[c].stage \in {"draining", "joining"}
  /\ Answer(c)
  /\ disturbed' = TRUE
  /\ UNCHANGED <<state, running, paused, accepting, handle, server, conn>>

-----------------------------------------------------------------------------
Serving == \E t \in Servers : server[t] = "serving"

Serve(t, from, to) == server[t] = from /\ server' = [server EXCEPT ![t] = to]

(* The task of start() up to serve(). *)
Begin(t) ==
  /\ \/ Serve(t, "spawned", "begun") /\ running' = TRUE /\ UNCHANGED state
     \/ Serve(t, "begun", "binding") /\ state' = "Running" /\ UNCHANGED running
  /\ UNCHANGED <<paused, accepting, handle, conn, call, disturbed>>

(* TcpListener::bind: fails at least while another task has the address. *)
Bind(t) ==
  /\ \/ ~Serving /\ Serve(t, "binding", "serving")
     \/ Serve(t, "binding", "failed")
  /\ UNCHANGED <<state, running, paused, accepting, handle, conn, call, disturbed>>

(* Mutant of StopServing: the loop goes by the state and not by the flag alone. *)
StopServingWhileDraining(t) ==
  /\ ~accepting /\ state = "Draining" /\ Serve(t, "serving", "returned")
  /\ UNCHANGED <<state, running, paused, accepting, handle, conn, call, disturbed>>

(* The accept loop sees the flag, which it reads every 50 ms. *)
StopServing(t) ==
  /\ ~accepting /\ Serve(t, "serving", "returned")
  /\ UNCHANGED <<state, running, paused, accepting, handle, conn, call, disturbed>>

(* accept() fails, for instance without file descriptors. *)
AcceptFails(t) ==
  /\ Serve(t, "serving", "failed")
  /\ UNCHANGED <<state, running, paused, accepting, handle, conn, call, disturbed>>

(* What the task leaves behind: an error, or Stopped unless it is drained. *)
Finish(t) ==
  /\ \/ Serve(t, "failed", "leaving") /\ state' = "Error"
     \/ /\ Serve(t, "returned", "leaving")
        /\ state' = IF state = "Draining" THEN state ELSE "Stopped"
  /\ UNCHANGED <<running, paused, accepting, handle, conn, call, disturbed>>

Leave(t) ==
  /\ Serve(t, "leaving", "ended")
  /\ running' = FALSE
  /\ UNCHANGED <<state, paused, accepting, handle, conn, call, disturbed>>

-----------------------------------------------------------------------------
(* A connection is a task of its own, which only its client ends.          *)
Connect(k) ==
  /\ conn[k] = "closed"
  /\ Serving
  /\ conn' = [conn EXCEPT ![k] = "open"]
  /\ UNCHANGED <<state, running, paused, accepting, handle, server, call, disturbed>>

(* handle_request: the request is tracked until its guard is dropped. *)
Request(k) ==
  /\ conn[k] = "open"
  /\ conn' = [conn EXCEPT ![k] = "busy"]
  /\ UNCHANGED <<state, running, paused, accepting, handle, server, call, disturbed>>

Respond(k) ==
  /\ conn[k] = "busy"
  /\ conn' = [conn EXCEPT ![k] = "open"]
  /\ UNCHANGED <<state, running, paused, accepting, handle, server, call, disturbed>>

Close(k) ==
  /\ conn[k] # "closed"
  /\ conn' = [conn EXCEPT ![k] = "closed"]
  /\ UNCHANGED <<state, running, paused, accepting, handle, server, call, disturbed>>

-----------------------------------------------------------------------------
(* What a call does on its own once it has begun. *)
Proceed(c) ==
  \/ StartAccept(c) \/ StartSpawn(c) \/ StartKeep(c) \/ BlockRunning(c)
  \/ PauseCheck(c) \/ PauseWrite(c)
  \/ StopAccepting(c) \/ Drain(c) \/ TakeHandle(c) \/ Join(c) \/ Stopped(c)

CallNext(c) ==
  \/ StartCheck(c) \/ MarkBlocked(c) \/ Pause(c) \/ Resume(c)
  \/ StopAtOnce(c) \/ StopCheck(c)
  \/ Proceed(c) \/ GiveUp(c)

Work(t) == Begin(t) \/ Bind(t) \/ StopServing(t) \/ Finish(t) \/ Leave(t)

ConnNext(k) == Connect(k) \/ Request(k) \/ Respond(k) \/ Close(k)

Next ==
  \/ \E c \in Calls : CallNext(c)
  \/ \E t \in Servers : Work(t) \/ AcceptFails(t)
  \/ \E k \in Conns : ConnNext(k)

Spec == Init /\ [][Next]_vars

(* The runtime schedules every task; the drain has a timeout. *)
Fairness ==
  /\ \A c \in Calls : WF_vars(Proceed(c))
  /\ \A t \in Servers : WF_vars(Work(t))

FairSpec == Spec /\ Fairness

-----------------------------------------------------------------------------
(* Nothing is under way but the service itself. *)
Settled ==
  /\ \A c \in Calls : call[c].stage = "idle"
  /\ \A t \in Servers : server[t] \in {"free", "serving", "ended"}

Within(stages) == \E c \in Calls : call[c].stage \in stages

Stopping == Within({"stop_drain", "draining", "drained", "joining"})

(* Every accept loop is known to the supervisor, so that the next stop()   *)
(* waits for it: there is never a second one behind the one it knows.      *)
OneLoop == \A t, u \in Servers : Alive(t) /\ Alive(u) => t = u

NoOrphanLoop ==
  \A t \in Servers : Alive(t) =>
    IF Within({"start_keep", "joining"})
      THEN \A c \in Calls : call[c].joins = t
      ELSE handle = t

(* Unless it is being stopped, the state is the one the task has reached,  *)
(* and the task is listening for as long as it is accepting.               *)
StateFits ==
  Stopping \/
    /\ \A t \in Servers :
         /\ server[t] \in {"spawned", "begun"} => state = "Starting"
         /\ server[t] \in {"binding", "serving", "failed"} => state \in {"Running", "Paused"}
         /\ server[t] = "leaving" => state \in {"Stopped", "Error"}
         /\ server[t] # "returned"
         /\ Alive(t) /\ server[t] # "leaving" => accepting
    /\ state \in {"Starting", "Running", "Paused", "Draining"} => Live

RunningFits ==
  running <=> \E t \in Servers : server[t] \notin {"free", "spawned", "ended"}

(* What a call has read is still so. *)
CallFits ==
  /\ Within({"start_accept", "start_spawn", "stopped"}) =>
       state \notin {"Starting", "Running", "Paused", "Draining"}
  /\ Within({"block_running"}) => state = "Blocked"
  /\ Within({"start_spawn"}) => accepting
  /\ Within({"pause_check", "pause_write"}) => paused
  /\ state = "Paused" => paused \/ Within({"resume_check", "resume_write"})

(* The inductive invariant of one caller. *)
Service == OneLoop /\ NoOrphanLoop /\ StateFits /\ RunningFits /\ CallFits

RuntimeInv == TypeOK /\ (disturbed \/ Service)

(* What the snapshot of the control API says of the data plane is so: it   *)
(* is running or paused exactly when somebody listens for connections.     *)
StateIsTruthful ==
  Settled /\ ~disturbed =>
    /\ running <=> Serving
    /\ state \in {"Running", "Paused"} <=> Serving
    /\ state = "Paused" => paused

(* When stop() returns, nobody listens for connections any more. *)
StopEndsListening ==
  \A c \in Calls : call[c].stage = "stopped" /\ ~disturbed => ~Serving

(* stop() returns, whatever the clients of the proxy do. *)
StopReturns ==
  \A c \in Calls :
    call[c].stage \in {"stop_drain", "draining", "drained", "joining"}
      ~> call[c].stage \in {"idle", "stopped"}

(* What clients and callers can tell of the tasks and of a stop. *)
Phase ==
  IF Stopping THEN "stopping"
  ELSE IF Serving THEN "serving"
  ELSE IF \E t \in Servers : server[t] \in {"spawned", "begun", "binding"} THEN "starting"
  ELSE "off"

Open == {k \in Conns : conn[k] # "closed"}

(* Until a disturbance, the supervisor is one service that is started only *)
(* when it is off and is off when a stop is done: its calls, its tasks and *)
(* the connections are the steps of DataPlane.                             *)
Plane == INSTANCE DataPlane WITH
  phase <- Phase, clients <- Open, spoiled <- disturbed

WorksAsOnePlane == Plane!Spec
=============================================================================
