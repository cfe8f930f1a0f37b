-------------------------- MODULE DaemonLifecycle --------------------------
(***************************************************************************)
(* The life of codex-switcher's daemon: run_daemon_impl of daemon/mod.rs,  *)
(* its control server, the PID file and the runtime descriptor by which    *)
(* clients find it, and the clients that stop it.                          *)
(*                                                                         *)
(* An execution is one run of run_daemon_impl.  A process is named after   *)
(* its first execution.  SIGHUP runs another one inside of the first,      *)
(* whose control server and guards live on, so that a process may have     *)
(* several generations.  Nothing keeps two processes apart.                *)
(***************************************************************************)
EXTENDS Naturals

CONSTANTS
  Execs,       \* executions, numbered in the order in which they begin
  NoExec,      \* no PID file, no descriptor
  MaxEvents,   \* bound on signals, requests, faults and status checks
  MaxChanges   \* how many of them may change the configuration or the circuit

ASSUME ExecsAssumption == Execs \subseteq Nat /\ NoExec \notin Execs

VARIABLES
  stage,       \* where an execution is in run_daemon_impl
  first,       \* the process of an execution
  control,     \* its control server
  told,        \* its shutdown channel holds true
  pidFile,     \* the process whose PID the file holds
  descriptor,  \* the execution whose address and token runtime.json holds
  cli,         \* the dead process whose PID a status check is about to remove
  revived,     \* executions that wait for a data plane started while they drain
  spoiled,     \* history: processes whose files were disturbed from outside
  events

life == <<stage, first, control, told, pidFile, descriptor, cli, revived, spoiled, events>>

-----------------------------------------------------------------------------
Starting == {"starting", "pid"}
Stopping == {"draining", "closing", "leaving"}
Stage == {"free", "ready", "replaced", "exited"} \cup Starting \cup Stopping

LifeTypeOK ==
  /\ stage \in [Execs -> Stage]
  /\ first \in [Execs -> Execs]
  /\ control \in [Execs -> {"off", "on", "failed", "ended"}]
  /\ told \in [Execs -> BOOLEAN]
  /\ pidFile \in Execs \cup {NoExec}
  /\ descriptor \in Execs \cup {NoExec}
  /\ cli \in Execs \cup {NoExec}
  /\ revived \subseteq Execs /\ spoiled \subseteq Execs
  /\ events \in Nat

LifeInit ==
  /\ stage = [e \in Execs |-> "free"]
  /\ first = [e \in Execs |-> e]
  /\ control = [e \in Execs |-> "off"]
  /\ told = [e \in Execs |-> FALSE]
  /\ pidFile = NoExec
  /\ descriptor = NoExec
  /\ cli = NoExec
  /\ revived = {} /\ spoiled = {}
  /\ events = 0

Alive == {e \in Execs : stage[e] \notin {"free", "exited"}}

(* The generations of a process that are still there. *)
Process(p) == {e \in Alive : first[e] = p}

Fresh(e) == stage[e] = "free" /\ \A d \in Execs : d < e => stage[d] # "free"

Event == events < MaxEvents /\ events' = events + 1

Move(e, s) == stage' = [stage EXCEPT ![e] = s]

(* The process ends, and all that it had in memory with it. *)
Exit(p) ==
  /\ stage' = [e \in Execs |-> IF e \in Process(p) THEN "exited" ELSE stage[e]]
  /\ control' = [e \in Execs |-> IF e \in Process(p) THEN "off" ELSE control[e]]
  /\ told' = [e \in Execs |-> e \notin Process(p) /\ told[e]]
  /\ first' = [e \in Execs |-> IF e \in Process(p) THEN e ELSE first[e]]
  /\ revived' = revived \ Process(p)
  /\ spoiled' = spoiled \ {p}

-----------------------------------------------------------------------------
(* main with --daemon, or run_proxy_tui that finds no daemon: neither      *)
(* looks for another one that is starting or that does not answer.         *)
Start(e) ==
  /\ Fresh(e)
  /\ Move(e, "starting")
  /\ first' = [first EXCEPT ![e] = e]
  /\ spoiled' = spoiled \cup IF Alive = {} THEN {} ELSE {e} \cup {first[d] : d \in Alive}
  /\ UNCHANGED <<control, told, pidFile, descriptor, cli, events, revived>>

(* DaemonState::new has succeeded: write_pid_file *)
WritePid(e) ==
  /\ stage[e] = "starting"
  /\ Move(e, "pid")
  /\ pidFile' = first[e]
  /\ UNCHANGED <<first, control, told, descriptor, cli, revived, spoiled, events>>

(* Mutant of BindControl: a descriptor that is already there is kept. *)
BindKeepsDescriptor(e) ==
  /\ stage[e] = "pid"
  /\ Move(e, "ready")
  /\ control' = [control EXCEPT ![e] = "on"]
  /\ descriptor' = IF descriptor = NoExec THEN e ELSE descriptor
  /\ UNCHANGED <<first, told, pidFile, cli, revived, spoiled, events>>

(* ControlServer::bind, and without an await up to the signal handlers. *)
BindControl(e) ==
  /\ stage[e] = "pid"
  /\ Move(e, "ready")
  /\ control' = [control EXCEPT ![e] = "on"]
  /\ descriptor' = e
  /\ UNCHANGED <<first, told, pidFile, cli, revived, spoiled, events>>

(* An error on the way, `?`: every execution of the process returns, and   *)
(* those that have written the PID file drop their PidFileCleanup.  The    *)
(* last ones, from signal(), come after the descriptor.                    *)
StartFails(e) ==
  /\ stage[e] \in Starting
  /\ Event
  /\ Exit(first[e])
  /\ pidFile' = IF stage[e] = "pid" \/ first[e] # e THEN NoExec ELSE pidFile
  /\ descriptor' \in {descriptor} \cup (IF stage[e] = "pid" THEN {e} ELSE {})
  /\ UNCHANGED cli

(* The select! sees its shutdown channel. *)
Notice(e) ==
  /\ stage[e] = "ready"
  /\ told[e]
  /\ Move(e, "draining")
  /\ UNCHANGED <<first, control, told, pidFile, descriptor, cli, revived, spoiled, events>>

(* SIGTERM or SIGINT, from systemd, from the terminal, or from daemon-stop *)
(* to the process in the PID file when the control API does not answer.    *)
(* Before the first handlers are installed it kills; later it is seen by a *)
(* ready execution and lost on any other.                                  *)
Terminate(e) ==
  /\ Event
  /\ \/ /\ stage[e] = "ready"
        /\ Move(e, "draining")
        /\ UNCHANGED <<control, first, told, revived, spoiled>>
     \/ /\ stage[e] \in Starting /\ first[e] = e
        /\ Exit(e)
  /\ UNCHANGED <<pidFile, descriptor, cli>>

(* SIGHUP, from daemon-reload or systemd: a new execution replaces e       *)
(* without ending anything of it.  A stop that e has acknowledged and not  *)
(* yet seen is lost.                                                       *)
Hangup(e, n) ==
  /\ stage[e] = "ready"
  /\ Fresh(n)
  /\ Event
  /\ stage' = [stage EXCEPT ![e] = "replaced", ![n] = "starting"]
  /\ first' = [first EXCEPT ![n] = first[e]]
  /\ spoiled' = spoiled \cup IF told[e] THEN {first[e]} ELSE {}
  /\ UNCHANGED <<control, told, pidFile, descriptor, cli, revived>>

(* shutdown_gracefully, then the shutdown channel: stop() returns when the *)
(* connections are drained or 30 s are over, and the data plane has ended. *)
Drain(e) ==
  /\ stage[e] = "draining" /\ e \notin revived
  /\ Move(e, "closing")
  /\ told' = [told EXCEPT ![e] = TRUE]
  /\ UNCHANGED <<first, control, pidFile, descriptor, cli, revived, spoiled, events>>

(* POST /v1/proxy/start is not refused while stop() drains: it puts a new  *)
(* task in the place of the one that stop() will wait for.                 *)
Revive(e) ==
  /\ stage[e] = "draining"
  /\ events < MaxChanges /\ Event
  /\ revived' = revived \cup {e}
  /\ UNCHANGED <<stage, first, control, told, pidFile, descriptor, cli, spoiled>>

(* The new data plane is stopped by a request of its own, or its listener  *)
(* fails.                                                                  *)
Quell(e) ==
  /\ e \in revived
  /\ Event
  /\ revived' = revived \ {e}
  /\ UNCHANGED <<stage, first, control, told, pidFile, descriptor, cli, spoiled>>

(* ControlServer::serve leaves its loop and removes the descriptor,        *)
(* whoever wrote it.                                                       *)
ControlEnds(e) ==
  /\ control[e] = "on"
  /\ told[e]
  /\ control' = [control EXCEPT ![e] = "ended"]
  /\ descriptor' = NoExec
  /\ UNCHANGED <<stage, first, told, pidFile, cli, revived, spoiled, events>>

(* accept() fails: serve returns the error, and the descriptor stays. *)
AcceptFails(e) ==
  /\ control[e] = "on"
  /\ Event
  /\ control' = [control EXCEPT ![e] = "failed"]
  /\ UNCHANGED <<stage, first, told, pidFile, descriptor, cli, revived, spoiled>>

(* Mutant of Close: the control server is not awaited. *)
CloseAtOnce(e) ==
  /\ stage[e] = "closing"
  /\ Move(e, "leaving")
  /\ pidFile' = NoExec
  /\ UNCHANGED <<first, control, told, descriptor, cli, revived, spoiled, events>>

(* Mutant of Close: a control server that has failed is waited for. *)
CloseWaits(e) ==
  /\ stage[e] = "closing"
  /\ control[e] = "ended"
  /\ Move(e, "leaving")
  /\ pidFile' = NoExec
  /\ UNCHANGED <<first, control, told, descriptor, cli, revived, spoiled, events>>

(* The control server has ended: remove_pid_file, whoever wrote it. *)
Close(e) ==
  /\ stage[e] = "closing"
  /\ control[e] # "on"
  /\ Move(e, "leaving")
  /\ pidFile' = NoExec
  /\ UNCHANGED <<first, control, told, descriptor, cli, revived, spoiled, events>>

(* The guards of all generations remove the file again; the process ends. *)
Leave(e) ==
  /\ stage[e] = "leaving"
  /\ Exit(first[e])
  /\ pidFile' = NoExec
  /\ UNCHANGED <<descriptor, cli, events>>

(* A crash leaves the files behind. *)
Die(p) ==
  /\ Process(p) # {}
  /\ Event
  /\ Exit(p)
  /\ UNCHANGED <<pidFile, descriptor, cli>>

-----------------------------------------------------------------------------
(* POST /v1/daemon/stop, by a client that has read e's descriptor now or   *)
(* before: daemon-stop, or an embedded TUI that is closed.  The answer is  *)
(* ok also from a generation that nobody listens to any more, and on a     *)
(* connection that has outlived the control server.                        *)
RequestStop(e) ==
  /\ control[e] # "off"
  /\ Event
  /\ told' = [told EXCEPT ![e] = TRUE]
  /\ spoiled' = spoiled \cup IF stage[e] = "replaced" THEN {first[e]} ELSE {}
  /\ UNCHANGED <<stage, first, control, pidFile, descriptor, cli, revived>>

(* check_daemon_status finds the PID of a dead process, and removes the    *)
(* file without another look at it.                                        *)
StatusRead ==
  /\ cli = NoExec
  /\ pidFile # NoExec /\ Process(pidFile) = {}
  /\ Event
  /\ cli' = pidFile
  /\ UNCHANGED <<stage, first, control, told, pidFile, descriptor, revived, spoiled>>

StatusRemove ==
  /\ cli # NoExec
  /\ pidFile' = NoExec
  /\ cli' = NoExec
  /\ spoiled' = spoiled \cup {p \in {pidFile} \ {NoExec} : Process(p) # {}}
  /\ UNCHANGED <<stage, first, control, told, descriptor, events, revived>>

(* A request that leaves the life of the daemon alone counts all the same. *)
Elsewhere ==
  /\ events < MaxChanges /\ Event
  /\ UNCHANGED <<stage, first, control, told, pidFile, descriptor, cli, revived, spoiled>>

-----------------------------------------------------------------------------
(* The steps of the daemon itself, which nobody has to ask for. *)
OwnStep(e) ==
  WritePid(e) \/ BindControl(e) \/ Notice(e) \/ Drain(e) \/ ControlEnds(e)
    \/ Close(e) \/ Leave(e)

LifeNext ==
  \/ \E e \in Execs :
       \/ Start(e) \/ StartFails(e) \/ Terminate(e) \/ (\E n \in Execs : Hangup(e, n))
       \/ OwnStep(e) \/ AcceptFails(e) \/ Die(e) \/ RequestStop(e)
       \/ Revive(e) \/ Quell(e)
  \/ StatusRead \/ StatusRemove \/ Elsewhere

LifeSpec == LifeInit /\ [][LifeNext]_life

-----------------------------------------------------------------------------
Undisturbed(e) == e \in Alive /\ first[e] \notin spoiled

(* Clients find the daemon: the PID file and the descriptor name the       *)
(* generation that serves, through any number of crashes and reloads       *)
(* before, unless another process, a status check or a stop sent to a      *)
(* generation already replaced came in between.                            *)
Reachable ==
  \A e \in Execs :
    Undisturbed(e) /\ stage[e] = "ready" /\ ~told[e]
      => pidFile = first[e] /\ descriptor = e /\ control[e] \in {"on", "failed"}

(* An orderly exit leaves nothing behind that names a daemon, so that      *)
(* daemon-status says NotRunning and the next TUI starts its own; only a   *)
(* control server that had failed leaves its descriptor.                   *)
NothingLeftBehind ==
  \A e \in Execs :
    Undisturbed(e) /\ stage[e] = "leaving" /\ control[e] # "failed"
      => pidFile = NoExec /\ descriptor = NoExec

(* A stop that was answered with ok, or a signal that was seen, ends the   *)
(* process, whatever else runs and whatever the control server does;       *)
(* unless SIGHUP has replaced the generation that it was sent to, or the   *)
(* data plane is started again while it drains and stop() waits for that.  *)
StopIsObeyed ==
  \A e \in Execs :
    told[e] \/ stage[e] \in Stopping ~> stage[e] \in {"exited", "replaced"} \/ e \in revived

(* The inductive invariant.  Two processes at a time spoil each other; of  *)
(* a process only the last generation is not replaced; and what the files  *)
(* say follows from where that generation is.                              *)
Apart ==
  \A d, e \in Alive : first[d] # first[e] => first[d] \in spoiled

Generations ==
  /\ \A e \in Alive : first[e] \in Alive /\ first[first[e]] = first[e]
  /\ \A d, e \in Execs : d < e /\ stage[d] = "free" => stage[e] = "free"
  /\ \A d, e \in Alive : d < e /\ first[d] = first[e] => stage[d] = "replaced"
  /\ \A e \in Execs \ Alive : control[e] = "off" /\ ~told[e]

ControlFits ==
  \A e \in Alive :
    /\ stage[e] \in Starting <=> control[e] = "off"
    /\ control[e] = "ended" => told[e]
    /\ stage[e] \in Starting => ~told[e]
    /\ stage[e] = "leaving" => control[e] # "on"
    /\ stage[e] = "replaced" /\ told[e] => first[e] \in spoiled

FilesFit ==
  \A e \in Alive : Undisturbed(e) /\ stage[e] \notin {"starting", "replaced"} =>
    /\ pidFile = IF stage[e] = "leaving" THEN NoExec ELSE first[e]
    /\ stage[e] # "pid" =>
         descriptor = IF control[e] = "ended" THEN NoExec ELSE e

LifeInv == LifeTypeOK /\ Apart /\ Generations /\ ControlFits /\ FilesFit
=============================================================================
