----------------------------- MODULE DaemonState -----------------------------
(***************************************************************************)
(* What an execution of the daemon keeps in memory and on disk: the proxy  *)
(* configuration, of which the control API, the router and config.toml     *)
(* have a copy each, and the circuit of an account, of which the router    *)
(* and the account's row in SQLite have one.  Both live and die with the   *)
(* executions of DaemonLifecycle.                                          *)
(*                                                                         *)
(* Control handlers and requests are tasks on several threads.  A handler  *)
(* takes one lock after another, so its steps interleave with those of any *)
(* other.  The reloader's own copy (ConfigChanged) is read by nobody and   *)
(* left out; so is what an option of the command line overrides for one    *)
(* run, except --daemon's and --proxy's `enabled`.                         *)
(***************************************************************************)
EXTENDS DaemonLifecycle

CONSTANTS
  Handlers,    \* slots for control requests that change the configuration
  Tasks,       \* slots for calls that change the circuit, both numbered
  Routes,      \* what auto_switch, threshold and strategy may be
  Unsure,      \* the copies of the configuration may disagree
  Deadlines    \* deadlines of a circuit that have not passed

ASSUME SlotsAssumption == Handlers \subseteq Nat /\ Tasks \subseteq Nat
ASSUME RoutesAssumption ==
  Routes # {} /\ Unsure \notin [enabled : BOOLEAN, route : Routes]
ASSUME DeadlinesAssumption == Deadlines \cap {"clear", "lapsed", "held", "none"} = {}

VARIABLES
  file,        \* config.toml
  conf,        \* ControlContext.config of an execution
  router,      \* the configuration of its router
  base,        \* its DaemonState.config: what it was started with
  handler,     \* the control requests
  promised,    \* history: the configuration last answered with ok, or Unsure
  circuit,     \* the account's circuit in the router's memory
  row,         \* the circuit in account_runtime
  task,        \* the calls that change it
  agreed       \* history: the executions that the row speaks for

settings == <<file, conf, router, base, handler, promised>>
circuits == <<circuit, row, task, agreed>>
vars == <<life, settings, circuits>>

-----------------------------------------------------------------------------
Config == [enabled : BOOLEAN, route : Routes]

(* "draining" is the await of POST /proxy/stop; the other stages follow    *)
(* one another without one.                                                *)
Handler ==
  [at : {"idle", "draining", "routing", "saving", "saved"}, exec : Execs \cup {NoExec},
   kind : {"patch", "start", "stop", "reload"}, conf : Config, solo : BOOLEAN]

(* A circuit has a deadline, one that has passed ("lapsed"), or none       *)
(* ("held").  There is no row without the account.                         *)
Circuit == {"clear", "lapsed", "held"} \cup Deadlines
Row == Circuit \cup {"none"}

Task == [exec : Execs \cup {NoExec}, sets : Circuit, solo : BOOLEAN]

StateTypeOK ==
  /\ file \in Config
  /\ conf \in [Execs -> Config]
  /\ router \in [Execs -> Routes]
  /\ base \in [Execs -> Config]
  /\ handler \in [Handlers -> Handler]
  /\ promised \in Config \cup {Unsure}
  /\ circuit \in [Execs -> Circuit]
  /\ row \in Row
  /\ task \in [Tasks -> Task]
  /\ agreed \subseteq Execs

Defaults == [enabled |-> FALSE, route |-> CHOOSE r \in Routes : TRUE]

Idle == [at |-> "idle", exec |-> NoExec, kind |-> "patch", conf |-> Defaults, solo |-> FALSE]

NoTask == [exec |-> NoExec, sets |-> "clear", solo |-> FALSE]

Init ==
  /\ LifeInit
  /\ file = Defaults
  /\ conf = [e \in Execs |-> Defaults]
  /\ router = [e \in Execs |-> Defaults.route]
  /\ base = [e \in Execs |-> Defaults]
  /\ handler = [h \in Handlers |-> Idle]
  /\ promised = Defaults
  /\ circuit = [e \in Execs |-> "clear"]
  /\ row = "clear"
  /\ task = [t \in Tasks |-> NoTask]
  /\ agreed = {}

Busy == {h \in Handlers : handler[h].at \notin {"idle", "draining"}}
Writing == {t \in Tasks : task[t].exec # NoExec}

(* A row that is missing is added without a circuit.  A row that goes with *)
(* its account takes the circuit along, which stays in memory where it is  *)
(* open.                                                                   *)
Open == {"held"} \cup Deadlines
Added == IF row = "none" THEN "clear" ELSE row
Unharmed == IF row' = "none" THEN {e \in agreed : circuit[e] = "clear"} ELSE agreed

(* Nobody who is under way now has the copies for himself. *)
Joined == [h \in Handlers |-> [handler[h] EXCEPT !.solo = FALSE]]
TasksJoined == [t \in Tasks |-> [task[t] EXCEPT !.solo = FALSE]]

-----------------------------------------------------------------------------
(* An execution begins with the configuration c: DaemonState::new gives it *)
(* to the router and to the control context, adds the rows that its index  *)
(* has and the store has not, and attach_store takes the circuits that     *)
(* still hold from the database, if they can be read.                      *)
Load(e, c) ==
  /\ base' = [base EXCEPT ![e] = c]
  /\ conf' = [conf EXCEPT ![e] = c]
  /\ router' = [router EXCEPT ![e] = c.route]
  /\ handler' = Joined
  /\ task' = TasksJoined
  /\ \/ /\ circuit' = [circuit EXCEPT ![e] = IF row' \in Open THEN row' ELSE "clear"]
        /\ agreed' = Unharmed \cup {e}
     \/ /\ row' \in Open
        /\ circuit' = [circuit EXCEPT ![e] = "clear"]
        /\ agreed' = Unharmed
  /\ UNCHANGED file

(* What was not saved is forgotten with the execution that had it. *)
Resumes == promised' = IF Busy # {} THEN Unsure ELSE IF promised = Unsure THEN file ELSE promised

(* load_config; both ways to start a daemon force proxy.enabled for this   *)
(* run only.                                                               *)
StartLoads(e) ==
  /\ Start(e)
  /\ row' \in {row, Added}
  /\ Load(e, [file EXCEPT !.enabled = TRUE])
  /\ Resumes

(* force_reload_all reads the file and replaces the rows of the store, or  *)
(* fails (an unreadable file, index or store) and leaves what this         *)
(* execution was started with.                                             *)
HangupLoads(e, n) ==
  /\ Hangup(e, n)
  /\ row' \in {row, Added, "none"}
  /\ \/ /\ Load(n, file)
        /\ Resumes
     \/ /\ Load(n, base[e])
        /\ promised' = Unsure

(* The memory of a process that ends is gone, and its tasks stop where     *)
(* they are.                                                               *)
Abandon(p) ==
  LET gone == {h \in Handlers : handler[h].exec \in Process(p)}
      lost == {t \in Tasks : task[t].exec \in Process(p)}
      Reset(f, default) == [e \in Execs |-> IF e \in Process(p) THEN default ELSE f[e]]
  IN  /\ handler' = [h \in Handlers |-> IF h \in gone THEN Idle ELSE handler[h]]
      /\ promised' = IF gone \cap Busy # {} THEN Unsure ELSE promised
      /\ conf' = Reset(conf, Defaults)
      /\ router' = Reset(router, Defaults.route)
      /\ base' = Reset(base, Defaults)
      /\ task' = [t \in Tasks |-> IF t \in lost THEN NoTask ELSE task[t]]
      /\ agreed' = agreed \ Process(p)
      /\ circuit' = Reset(circuit, "clear")
      /\ UNCHANGED <<file, row>>

Ends(e) ==
  \/ StartFails(e) /\ Abandon(first[e])
  \/ Leave(e) /\ Abandon(first[e])
  \/ Die(e) /\ Abandon(e)
  \/ Terminate(e) /\ stage[e] # "ready" /\ Abandon(e)

(* The other steps of the daemon's life touch none of this. *)
Lives(e) ==
  /\ \/ WritePid(e) \/ BindControl(e) \/ Notice(e) \/ Drain(e) \/ ControlEnds(e) \/ Close(e)
     \/ Terminate(e) /\ stage[e] = "ready"
     \/ AcceptFails(e) \/ RequestStop(e) \/ Quell(e)
  /\ UNCHANGED <<settings, circuits>>

StatusCheck == (StatusRead \/ StatusRemove) /\ UNCHANGED <<settings, circuits>>

-----------------------------------------------------------------------------
(* The next free slot. *)
Free(h) == handler[h].at = "idle" /\ \A g \in Handlers : g < h => handler[g].at # "idle"

(* A handler begins to change the configuration of e: it has cloned (or    *)
(* loaded) c and goes to `at`.  A connection, once accepted, outlives the  *)
(* control server.                                                         *)
Enter(h, e, kind, at, c) ==
  handler' = [Joined EXCEPT ![h] =
                [at |-> at, exec |-> e, kind |-> kind, conf |-> c, solo |-> Busy \ {h} = {}]]

(* PATCH /v1/config clones the configuration and changes the clone. *)
Patch(h, e) ==
  /\ Free(h) /\ control[e] # "off"
  /\ Elsewhere
  /\ \E r \in Routes : Enter(h, e, "patch", "routing", [conf[e] EXCEPT !.route = r])
  /\ UNCHANGED <<file, conf, router, base, promised, circuits>>

(* POST /v1/daemon/reload loads the file. *)
Reload(h, e) ==
  /\ Free(h) /\ control[e] # "off"
  /\ Elsewhere
  /\ Enter(h, e, "reload", "routing", file)
  /\ UNCHANGED <<file, conf, router, base, promised, circuits>>

(* POST /v1/proxy/start has started the data plane, perhaps again. *)
StartProxy(h, e) ==
  /\ Free(h) /\ control[e] # "off"
  /\ Elsewhere \/ Revive(e)
  /\ Enter(h, e, "start", "saving", [conf[e] EXCEPT !.enabled = TRUE])
  /\ UNCHANGED <<file, conf, router, base, promised, circuits>>

(* POST /v1/proxy/stop waits for the drain.  A client gives up after 2 s   *)
(* and hyper drops the handler with its connection.                        *)
StopProxy(h, e) ==
  /\ Free(h) /\ control[e] # "off"
  /\ Elsewhere \/ Quell(e)
  /\ handler' = [handler EXCEPT ![h] = [Idle EXCEPT !.at = "draining", !.exec = e, !.kind = "stop"]]
  /\ UNCHANGED <<file, conf, router, base, promised, circuits>>

StopDropped(h) ==
  /\ handler[h].at = "draining"
  /\ handler' = [handler EXCEPT ![h] = Idle]
  /\ UNCHANGED <<life, file, conf, router, base, promised, circuits>>

Drained(h) ==
  LET e == handler[h].exec IN
  /\ handler[h].at = "draining"
  /\ Enter(h, e, "stop", "saving", [conf[e] EXCEPT !.enabled = FALSE])
  /\ UNCHANGED <<life, file, conf, router, base, promised, circuits>>

(* Router::update_config.  A reload has nothing to save. *)
UpdateRouter(h) ==
  /\ handler[h].at = "routing"
  /\ router' = [router EXCEPT ![handler[h].exec] = handler[h].conf.route]
  /\ handler' = [handler EXCEPT ![h].at = IF handler[h].kind = "reload" THEN "saved" ELSE "saving"]
  /\ UNCHANGED <<life, file, conf, base, promised, circuits>>

(* save_config.  A failure leaves the router as it is; POST /proxy/start   *)
(* is answered with ok all the same.                                       *)
Save(h) ==
  /\ handler[h].at = "saving"
  /\ \/ /\ file' = handler[h].conf
        /\ handler' = [handler EXCEPT ![h].at = "saved"]
        /\ UNCHANGED promised
     \/ /\ handler' = [handler EXCEPT ![h] = Idle]
        /\ promised' = IF handler[h].kind = "stop" THEN promised ELSE Unsure
        /\ UNCHANGED file
  /\ UNCHANGED <<life, conf, router, base, circuits>>

(* Mutant of Publish: the control context keeps what it had. *)
PublishForgets(h) ==
  /\ handler[h].at = "saved"
  /\ handler' = [handler EXCEPT ![h] = Idle]
  /\ promised' = IF handler[h].solo THEN handler[h].conf ELSE Unsure
  /\ UNCHANGED <<life, file, conf, router, base, circuits>>

(* The control context takes the clone over, and the client hears ok.  A   *)
(* patch or a reload that was alone has brought all copies in line.        *)
Publish(h) ==
  LET e == handler[h].exec IN
  /\ handler[h].at = "saved"
  /\ conf' = [conf EXCEPT ![e] = handler[h].conf]
  /\ handler' = [handler EXCEPT ![h] = Idle]
  /\ promised' = IF /\ handler[h].solo /\ stage[e] # "replaced"
                    /\ promised # Unsure \/ handler[h].kind \in {"patch", "reload"}
                   THEN handler[h].conf ELSE Unsure
  /\ UNCHANGED <<life, file, router, base, circuits>>

(* The terminal UI saves its copy, or the user edits the file. *)
Edit ==
  /\ Elsewhere
  /\ file' \in Config
  /\ handler' = Joined
  /\ promised' = Unsure
  /\ UNCHANGED <<conf, router, base, circuits>>

-----------------------------------------------------------------------------
Serving == {e \in Execs : stage[e] \in {"ready", "replaced"} \cup Stopping}

(* The map is changed under its lock and SQLite after it: a call is under  *)
(* way until it has written the row.                                       *)
Sets(t, e, c) ==
  /\ task[t].exec = NoExec /\ \A u \in Tasks : u < t => task[u].exec # NoExec
  /\ circuit' = [circuit EXCEPT ![e] = c]
  /\ task' = [TasksJoined EXCEPT ![t] = [exec |-> e, sets |-> c, solo |-> Writing = {}]]
  /\ UNCHANGED <<settings, row, agreed>>

(* open_circuit, with or without a deadline (which may pass at once), and  *)
(* close_circuit.                                                          *)
SetCircuit(t, e, c) ==
  /\ e \in Serving
  /\ Elsewhere
  /\ Sets(t, e, c)

(* expire_circuits *)
Expire(t, e) ==
  /\ e \in Serving /\ circuit[e] = "lapsed"
  /\ Sets(t, e, "clear")
  /\ UNCHANGED life

(* Mutant of WriteRow: the row keeps a circuit that was closed. *)
WriteRowInserts(t) ==
  /\ task[t].exec # NoExec /\ row # "none"
  /\ row' = IF task[t].sets = "clear" THEN row ELSE task[t].sets
  /\ agreed' = IF task[t].solo THEN {task[t].exec} ELSE {}
  /\ task' = [task EXCEPT ![t] = NoTask]
  /\ UNCHANGED <<life, settings, circuit>>

(* save_circuit and clear_circuit.  An error, or an account without a row, *)
(* is ignored.  A call that had memory and row for itself speaks for them. *)
WriteRow(t) ==
  /\ task[t].exec # NoExec
  /\ \/ /\ row # "none"
        /\ row' = task[t].sets
        /\ agreed' = IF task[t].solo THEN {task[t].exec} ELSE {}
     \/ /\ agreed' = agreed \ {task[t].exec}
        /\ UNCHANGED row
  /\ task' = [task EXCEPT ![t] = NoTask]
  /\ UNCHANGED <<life, settings, circuit>>

(* Mutant of Recommit: what is written over a row takes the circuit off. *)
RecommitClears(e) ==
  /\ e \in Serving
  /\ Elsewhere
  /\ row' \in {"clear", "none"} \ {row}
  /\ agreed' = Unharmed
  /\ UNCHANGED <<settings, circuit, task>>

(* replace_accounts, by whoever commits an index: the row goes with an     *)
(* account that is not in it, and an account without a row gets one.  No   *)
(* router hears of it.                                                     *)
Recommit(e) ==
  /\ e \in Serving
  /\ Elsewhere
  /\ row' \in {Added, "none"} \ {row}
  /\ agreed' = Unharmed
  /\ UNCHANGED <<settings, circuit, task>>

Lapsed(c, d) == IF c = d THEN "lapsed" ELSE c

(* The deadline d passes, for whoever has a copy of it. *)
Lapse(d) ==
  /\ row = d \/ (\E e \in Execs : circuit[e] = d) \/ \E t \in Tasks : task[t].sets = d
  /\ circuit' = [e \in Execs |-> Lapsed(circuit[e], d)]
  /\ row' = Lapsed(row, d)
  /\ task' = [t \in Tasks |-> [task[t] EXCEPT !.sets = Lapsed(@, d)]]
  /\ UNCHANGED <<life, settings, agreed>>

-----------------------------------------------------------------------------
HandlerNext(h) ==
  \/ \E e \in Execs : Patch(h, e) \/ Reload(h, e) \/ StartProxy(h, e) \/ StopProxy(h, e)
  \/ StopDropped(h) \/ Drained(h) \/ UpdateRouter(h) \/ Save(h) \/ Publish(h)

TaskNext(t) ==
  \/ \E e \in Execs : Expire(t, e) \/ \E c \in Circuit \ {"lapsed"} : SetCircuit(t, e, c)
  \/ WriteRow(t)

Next ==
  \/ \E e \in Execs : StartLoads(e) \/ Ends(e) \/ Lives(e)
  \/ \E e, n \in Execs : HangupLoads(e, n)
  \/ StatusCheck
  \/ \E h \in Handlers : HandlerNext(h)
  \/ \E t \in Tasks : TaskNext(t)
  \/ Edit
  \/ \E e \in Execs : Recommit(e)
  \/ \E d \in Deadlines : Lapse(d)

Spec == Init /\ [][Next]_vars

(* The daemon's own steps: the runtime polls what is ready, the drain ends *)
(* within its 30 s, and stop() has no data plane to wait for but its own.  *)
Own(e) == OwnStep(e) /\ (Lives(e) \/ Ends(e))

FairSpec == Spec /\ \A e \in Execs : WF_vars(Own(e))

-----------------------------------------------------------------------------
(* After every change that was answered with ok, and after any crash,      *)
(* restart and reload since, config.toml holds what was promised and the   *)
(* router and the control API of the generation that serves work with it;  *)
(* unless handlers ran into one another, a save failed or a crash cut one  *)
(* off, or somebody else wrote the file, and no later change has repaired  *)
(* it.  Only `enabled` may be on for a run that the command line started.  *)
SettingsAgree ==
  promised # Unsure /\ Busy = {} =>
    /\ file = promised
    /\ \A e \in Execs : Undisturbed(e) /\ stage[e] # "replaced" =>
         /\ router[e] = promised.route
         /\ conf[e].route = promised.route
         /\ conf[e].enabled # promised.enabled => conf[e].enabled

(* A quarantine survives a restart, and one that was lifted does not come  *)
(* back: the row of the account says what an execution has in memory, from *)
(* when it began with the row or wrote it undisturbed; for every           *)
(* generation and process, until a write fails or crosses another, another *)
(* execution writes the row, or the row goes with its account while the    *)
(* circuit is open.                                                        *)
Agrees(c, r) == c = r \/ (c = "clear" /\ r \in {"lapsed", "none"})

RowAgrees ==
  \A e \in agreed :
    (\A t \in Writing : task[t].exec # e) => Agrees(circuit[e], row)
=============================================================================
