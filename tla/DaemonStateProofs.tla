-------------------------- MODULE DaemonStateProofs --------------------------
(***************************************************************************)
(* Proofs about the configuration and the circuit of DaemonState, for any  *)
(* number of executions, handlers, tasks and values.  Both use that at     *)
(* most one living execution is current: the last generation of a process  *)
(* that no other one has been near.                                        *)
(***************************************************************************)
EXTENDS DaemonProofs

Current(e) == Undisturbed(e) /\ stage[e] # "replaced"

(* A task belongs to a living execution, and one that had the copies for   *)
(* itself still agrees with the memory.                                    *)
TasksFit ==
  /\ agreed \subseteq Alive
  /\ \A t \in Tasks :
       /\ task[t].exec # NoExec => task[t].exec \in Alive
       /\ task[t].solo => Writing = {t} /\ circuit[task[t].exec] = task[t].sets

Routed(h) == handler[h].kind \in {"patch", "reload"} /\ handler[h].at \in {"saving", "saved"}

(* The same of the handlers: what is saved is what they publish, and the   *)
(* router has it, or the stop and the start have left it alone.            *)
HandlersFit ==
  \A h \in Handlers :
    /\ handler[h].at # "idle" => handler[h].exec \in Alive
    /\ handler[h].kind \in {"start", "stop"} => handler[h].at # "routing"
    /\ handler[h].kind = "reload" => handler[h].at # "saving"
    /\ handler[h].solo =>
         /\ Busy = {h}
         /\ handler[h].at = "saved" \/ handler[h].kind = "reload" => file = handler[h].conf
         /\ Routed(h) => router[handler[h].exec] = handler[h].conf.route
         /\ handler[h].kind \in {"start", "stop"} /\ promised # Unsure /\ Current(handler[h].exec)
              => handler[h].conf.route = promised.route

(* What was promised still stands, but where a handler that will publish   *)
(* something else, or leave it unsure, has already begun to change it.     *)
PromiseStands ==
  promised # Unsure =>
    /\ file = promised \/ \E h \in Handlers : handler[h].at = "saved" /\ handler[h].kind # "reload"
    /\ \A e \in Execs : Current(e) =>
         /\ router[e] = promised.route \/ \E h \in Handlers : Routed(h)
         /\ conf[e].route = promised.route
         /\ conf[e].enabled # promised.enabled => conf[e].enabled

StateInv == StateTypeOK /\ TasksFit /\ HandlersFit /\ PromiseStands /\ RowAgrees

-----------------------------------------------------------------------------
LEMMA DefaultsType ==
  Defaults \in Config /\ Defaults.route \in Routes /\ Idle \in Handler /\ NoTask \in Task
<1>1. Defaults.route \in Routes
  BY RoutesAssumption DEF Defaults
<1> QED
  BY <1>1 DEF Defaults, Config, Idle, Handler, NoTask, Task, Circuit

LEMMA JoinedType ==
  ASSUME StateTypeOK
  PROVE  /\ Joined \in [Handlers -> Handler]
         /\ TasksJoined \in [Tasks -> Task]
<1>1. \A h \in Handlers : [handler[h] EXCEPT !.solo = FALSE] \in Handler
  <2> TAKE h \in Handlers
  <2>1. handler[h] \in Handler
    BY DEF StateTypeOK
  <2> QED
    BY <2>1 DEF Handler
<1>2. \A t \in Tasks : [task[t] EXCEPT !.solo = FALSE] \in Task
  <2> TAKE t \in Tasks
  <2>1. task[t] \in Task
    BY DEF StateTypeOK
  <2> QED
    BY <2>1 DEF Task
<1>3. Joined \in [Handlers -> Handler]
  BY <1>1 DEF Joined
<1>4. TasksJoined \in [Tasks -> Task]
  BY <1>2 DEF TasksJoined
<1> QED
  BY <1>3, <1>4

LEMMA StateTypeInitially == Init => StateTypeOK
  BY DefaultsType DEF Init, StateTypeOK, Circuit, Row

LEMMA LoadType ==
  ASSUME StateTypeOK, NEW e \in Execs, NEW c \in Config, Load(e, c),
         row' \in {row, Added, "none"}, promised' \in Config \cup {Unsure}
  PROVE  StateTypeOK'
<1>1. c.route \in Routes
  BY DEF Config
<1>2. handler' \in [Handlers -> Handler] /\ task' \in [Tasks -> Task]
  BY JoinedType DEF Load
<1>3. row' \in Row
  BY DEF Added, Row, Circuit, StateTypeOK
<1>4. circuit' \in [Execs -> Circuit] /\ agreed' \subseteq Execs
  BY DEF Load, Unharmed, Open, Circuit, StateTypeOK
<1> QED
  BY <1>1, <1>2, <1>3, <1>4 DEF Load, StateTypeOK

LEMMA AbandonType ==
  ASSUME StateTypeOK, NEW p \in Execs, Abandon(p)
  PROVE  StateTypeOK'
<1>1. Defaults.route \in Routes
  BY RoutesAssumption DEF Defaults
<1>2. /\ handler' \in [Handlers -> Handler] /\ task' \in [Tasks -> Task]
      /\ conf' \in [Execs -> Config] /\ base' \in [Execs -> Config]
      /\ router' \in [Execs -> Routes] /\ circuit' \in [Execs -> Circuit]
  BY <1>1, DefaultsType DEF Abandon, StateTypeOK, Circuit
<1> QED
  BY <1>2 DEF Abandon, StateTypeOK, Row

LEMMA HandlerType ==
  ASSUME StateTypeOK, NEW h \in Handlers, HandlerNext(h),
         handler[h].at # "idle" => handler[h].exec \in Execs
  PROVE  StateTypeOK'
<1> USE DEF StateTypeOK
<1>1. /\ handler[h] \in Handler /\ handler[h].conf \in Config /\ handler[h].conf.route \in Routes
      /\ handler[h].exec \in Execs \cup {NoExec}
  BY DEF Handler, Config
<1>2. ASSUME NEW e \in Execs \cup {NoExec}, NEW c \in Config,
             NEW kind \in {"patch", "start", "stop", "reload"}, NEW at \in {"routing", "saving"},
             Enter(h, e, kind, at, c)
      PROVE  handler' \in [Handlers -> Handler]
  <2>1. [at |-> at, exec |-> e, kind |-> kind, conf |-> c, solo |-> Busy \ {h} = {}] \in Handler
    BY DEF Handler
  <2> QED
    BY <1>2, <2>1, JoinedType DEF Enter
<1>3. ASSUME NEW e \in Execs, Patch(h, e) PROVE StateTypeOK'
  <2>1. \A r \in Routes : [conf[e] EXCEPT !.route = r] \in Config
    BY DEF Config
  <2>2. handler' \in [Handlers -> Handler]
    BY <1>2, <1>3, <2>1 DEF Patch
  <2> QED
    BY <1>3, <2>2 DEF Patch, circuits
<1>4. ASSUME NEW e \in Execs, Reload(h, e) \/ StartProxy(h, e) PROVE StateTypeOK'
  <2>1. [conf[e] EXCEPT !.enabled = TRUE] \in Config
    BY DEF Config
  <2>2. handler' \in [Handlers -> Handler]
    BY <1>2, <1>4, <2>1 DEF Reload, StartProxy
  <2> QED
    BY <1>4, <2>2 DEF Reload, StartProxy, circuits
<1>5. ASSUME NEW e \in Execs, StopProxy(h, e) PROVE StateTypeOK'
  <2>1. [Idle EXCEPT !.at = "draining", !.exec = e, !.kind = "stop"] \in Handler
    BY DefaultsType DEF Handler
  <2> QED
    BY <1>5, <2>1 DEF StopProxy, circuits
<1>6. CASE StopDropped(h)
  BY <1>6, DefaultsType DEF StopDropped, circuits
<1>7. CASE Drained(h)
  <2> handler[h].exec \in Execs
    BY <1>7 DEF Drained
  <2>1. [conf[handler[h].exec] EXCEPT !.enabled = FALSE] \in Config
    BY <1>7 DEF Config
  <2>2. handler' \in [Handlers -> Handler]
    BY <1>1, <1>2, <1>7, <2>1 DEF Drained
  <2> QED
    BY <1>7, <2>2 DEF Drained, circuits
<1>8. CASE UpdateRouter(h)
  <2>1. \A at \in {"saved", "saving"} : [handler[h] EXCEPT !.at = at] \in Handler
    BY <1>1 DEF Handler
  <2> QED
    BY <1>1, <1>8, <2>1 DEF UpdateRouter, circuits
<1>9. CASE Save(h)
  <2>1. [handler[h] EXCEPT !.at = "saved"] \in Handler
    BY <1>1 DEF Handler
  <2> QED
    BY <1>1, <1>9, <2>1, DefaultsType DEF Save, circuits
<1>10. CASE Publish(h)
  BY <1>1, <1>10, DefaultsType DEF Publish, circuits
<1> QED
  BY <1>3, <1>4, <1>5, <1>6, <1>7, <1>8, <1>9, <1>10 DEF HandlerNext

LEMMA TaskType ==
  ASSUME StateTypeOK, TasksFit, NEW t \in Tasks, TaskNext(t)
  PROVE  StateTypeOK'
<1> USE DEF StateTypeOK
<1>1. ASSUME NEW e \in Execs, NEW c \in Circuit, Sets(t, e, c), UNCHANGED life \/ Elsewhere
      PROVE  StateTypeOK'
  <2>1. [exec |-> e, sets |-> c, solo |-> Writing = {}] \in Task
    BY DEF Task
  <2>2. task' \in [Tasks -> Task] /\ circuit' \in [Execs -> Circuit]
    BY <1>1, <2>1, JoinedType DEF Sets
  <2> QED
    BY <1>1, <2>2 DEF Sets, settings
<1>2. CASE WriteRow(t)
  <2>1. task[t] \in Task /\ task[t].sets \in Circuit
    BY DEF Task
  <2>2. task' \in [Tasks -> Task]
    BY <1>2, DefaultsType DEF WriteRow
  <2>3. row' \in Row /\ agreed' \subseteq Execs
    BY <1>2, <2>1 DEF WriteRow, Row, TasksFit, Alive
  <2> QED
    BY <1>2, <2>2, <2>3 DEF WriteRow, settings
<1>3. ASSUME NEW e \in Execs, Expire(t, e) PROVE StateTypeOK'
  BY <1>1, <1>3 DEF Expire, Circuit
<1>4. ASSUME NEW e \in Execs, NEW c \in Circuit, SetCircuit(t, e, c) PROVE StateTypeOK'
  BY <1>1, <1>4 DEF SetCircuit
<1> QED
  BY <1>2, <1>3, <1>4 DEF TaskNext

LEMMA LapseType ==
  ASSUME StateTypeOK, NEW d \in Deadlines, Lapse(d)
  PROVE  StateTypeOK'
<1>1. /\ \A c \in Circuit : Lapsed(c, d) \in Circuit
      /\ \A r \in Row : Lapsed(r, d) \in Row
  BY DEF Lapsed, Circuit, Row
<1>2. circuit' \in [Execs -> Circuit] /\ row' \in Row
  BY <1>1 DEF Lapse, StateTypeOK
<1>3. \A t \in Tasks : [task[t] EXCEPT !.sets = Lapsed(@, d)] \in Task
  <2> TAKE t \in Tasks
  <2>1. task[t] \in Task
    BY DEF StateTypeOK
  <2> QED
    BY <2>1, <1>1 DEF Task
<1> QED
  BY <1>2, <1>3 DEF Lapse, StateTypeOK, settings

LEMMA RecommitType ==
  ASSUME StateTypeOK, NEW e \in Execs, Recommit(e)
  PROVE  StateTypeOK'
  BY DEF Recommit, StateTypeOK, Added, Unharmed, Row, Circuit, settings

-----------------------------------------------------------------------------
(* Who is current after a step of the daemon's life. *)

LEMMA OnlyOneIsCurrent ==
  ASSUME LifeInv, NEW e \in Execs, Current(e), NEW d \in Alive, d # e
  PROVE  stage[d] = "replaced" /\ first[d] = first[e]
<1>1. e \in Alive /\ (d < e \/ e < d)
  BY ExecsAssumption DEF Current, Undisturbed, Alive
<1> QED
  BY <1>1 DEF LifeInv, Apart, Generations, Current, Undisturbed

LEMMA StartedIsCurrent ==
  ASSUME LifeInv, NEW e \in Execs, Start(e), NEW d \in Execs, Undisturbed(d)'
  PROVE  d = e
  BY DEF LifeInv, LifeTypeOK, Generations, Start, Fresh, Move, Undisturbed, Alive

LEMMA ReplacerIsCurrent ==
  ASSUME LifeInv, NEW e \in Execs, NEW n \in Execs, Hangup(e, n),
         NEW d \in Execs, Undisturbed(d)'
  PROVE  /\ d = n \/ stage'[d] = "replaced"
         /\ Process(first[d])' # {d}
<1> USE DEF Hangup, Fresh
<1>1. /\ Alive' = Alive \cup {n} /\ e \in Alive /\ n \notin Alive /\ e # n
      /\ \A c \in Alive : first'[c] = first[c]
      /\ first'[n] = first[e] /\ stage'[e] = "replaced" /\ stage[e] = "ready"
      /\ \A c \in Alive \ {e} : stage'[c] = stage[c]
      /\ spoiled \subseteq spoiled'
  BY DEF LifeInv, LifeTypeOK, Generations, Alive
<1> HIDE DEF Hangup, Fresh
<1>2. first'[d] = first[e]
  <2>1. CASE d = n
    BY <1>1, <2>1
  <2>2. CASE d \in Alive
    BY <1>1, <2>2 DEF LifeInv, Apart, Undisturbed
  <2> QED
    BY <1>1, <2>1, <2>2 DEF Undisturbed
<1>3. d = n \/ stage'[d] = "replaced"
  <2>1. CASE d \in Alive /\ d # e
    BY <1>1, <1>2, <2>1, OthersDoNotMind DEF LifeInv, Undisturbed
  <2> QED
    BY <1>1, <2>1 DEF Undisturbed
<1>4. Process(first[e])' = {c \in Alive' : first'[c] = first[e]'}
  BY DEF Process
<1> QED
  BY <1>1, <1>2, <1>3 DEF Process

LEMMA NobodyIsCurrentAfterExit ==
  ASSUME LifeInv, NEW p \in Execs, Exit(p), Process(p) # {}, NEW d \in Execs
  PROVE  ~Undisturbed(d)'
<1> SUFFICES ASSUME Undisturbed(d)' PROVE FALSE
  OBVIOUS
<1>1. d \in Alive /\ first[d] # p /\ first[d] \notin spoiled
  BY DEF Exit, Process, Alive, Undisturbed, LifeInv, LifeTypeOK
<1>2. PICK c \in Alive : first[c] = p
  BY DEF Process
<1> QED
  BY <1>1, <1>2 DEF LifeInv, Apart

(* A step that starts, replaces and ends nothing. *)
Stays ==
  /\ Alive' = Alive /\ first' = first /\ spoiled \subseteq spoiled'
  /\ \A e \in Execs : stage'[e] = "replaced" <=> stage[e] = "replaced"

LEMMA LivesStays ==
  ASSUME LifeInv, NEW e \in Execs, Lives(e)
  PROVE  Stays /\ UNCHANGED <<settings, circuits>>
<1> USE DEF Lives, Stays, Alive, Move, LifeInv, LifeTypeOK
<1>1. CASE WritePid(e) \/ BindControl(e)
  BY <1>1 DEF WritePid, BindControl
<1>2. CASE Notice(e) \/ Drain(e) \/ Close(e)
  BY <1>2 DEF Notice, Drain, Close
<1>3. CASE ControlEnds(e) \/ AcceptFails(e) \/ RequestStop(e) \/ Quell(e)
  BY <1>3 DEF ControlEnds, AcceptFails, RequestStop, Quell
<1>4. CASE Terminate(e) /\ stage[e] = "ready"
  <2>1. stage' = [stage EXCEPT ![e] = "draining"] /\ UNCHANGED <<first, spoiled>>
    BY <1>4 DEF Terminate, Starting
  <2> QED
    BY <1>4, <2>1
<1>5. UNCHANGED <<settings, circuits>>
  OBVIOUS
<1> QED
  BY <1>1, <1>2, <1>3, <1>4, <1>5

LEMMA StatusStays ==
  ASSUME StatusCheck
  PROVE  Stays /\ UNCHANGED <<settings, circuits>>
  BY DEF StatusCheck, StatusRead, StatusRemove, Stays, Alive

LEMMA ElsewhereStays ==
  ASSUME UNCHANGED life \/ Elsewhere \/ \E e \in Execs : Revive(e) \/ Quell(e)
  PROVE  Stays
  BY DEF Elsewhere, Revive, Quell, life, Stays, Alive

LEMMA HandlerStays ==
  ASSUME NEW h \in Handlers, HandlerNext(h)
  PROVE  Stays /\ UNCHANGED circuits
<1>1. ASSUME NEW e \in Execs, Patch(h, e) \/ Reload(h, e)
      PROVE  Elsewhere /\ UNCHANGED circuits
  BY <1>1 DEF Patch, Reload
<1>2. ASSUME NEW e \in Execs, StartProxy(h, e) \/ StopProxy(h, e)
      PROVE  (Elsewhere \/ Revive(e) \/ Quell(e)) /\ UNCHANGED circuits
  BY <1>2 DEF StartProxy, StopProxy
<1>4. CASE \E e \in Execs : Patch(h, e) \/ Reload(h, e)
  BY <1>4, <1>1, ElsewhereStays
<1>5. CASE \E e \in Execs : StartProxy(h, e) \/ StopProxy(h, e)
  BY <1>5, <1>2, ElsewhereStays
<1>6. ASSUME StopDropped(h) \/ Drained(h) \/ UpdateRouter(h) \/ Save(h) \/ Publish(h)
      PROVE  UNCHANGED life /\ UNCHANGED circuits
  BY <1>6 DEF StopDropped, Drained, UpdateRouter, Save, Publish
<1>7. CASE StopDropped(h) \/ Drained(h) \/ UpdateRouter(h) \/ Save(h) \/ Publish(h)
  BY <1>6, <1>7, ElsewhereStays
<1> QED
  BY <1>4, <1>5, <1>7 DEF HandlerNext

LEMMA StaysCurrent ==
  ASSUME Stays, LifeInv, NEW e \in Execs
  PROVE  /\ Undisturbed(e)' => Undisturbed(e)
         /\ Current(e)' => Current(e)
         /\ Process(first[e])' = Process(first[e])
  BY DEF Stays, Undisturbed, Current, Process

-----------------------------------------------------------------------------
(* The circuit. *)

LEMMA CircuitUntouched ==
  ASSUME TasksFit, RowAgrees, Stays, UNCHANGED circuits
  PROVE  TasksFit' /\ RowAgrees'
<1>1. TasksFit'
  BY DEF TasksFit, Stays, circuits, Writing
<1>2. RowAgrees'
  BY DEF RowAgrees, circuits, Writing
<1> QED
  BY <1>1, <1>2

(* Whoever the row still speaks for after it has gone with its account, or *)
(* been added without a circuit, has none in memory.                       *)
LEMMA RowReplaced ==
  ASSUME StateTypeOK, RowAgrees, row' \in {row, Added, "none"},
         NEW d \in Unharmed, \A t \in Writing : task[t].exec # d
  PROVE  Agrees(circuit[d], row')
<1>1. d \in agreed /\ circuit[d] \in Circuit /\ Agrees(circuit[d], row)
  BY DEF Unharmed, RowAgrees, StateTypeOK
<1>2. "none" \notin Circuit
  BY DeadlinesAssumption DEF Circuit
<1>3. CASE row' = "none"
  BY <1>3 DEF Unharmed, Agrees
<1>4. CASE row = "none" /\ row' = "clear"
  BY <1>1, <1>2, <1>4 DEF Agrees
<1>5. CASE row' = row
  BY <1>1, <1>5
<1> QED
  BY <1>3, <1>4, <1>5 DEF Added

LEMMA CircuitRecommitted ==
  ASSUME StateTypeOK, TasksFit, RowAgrees, NEW e \in Execs, Recommit(e)
  PROVE  TasksFit' /\ RowAgrees'
<1>1. Alive' = Alive /\ circuit' = circuit /\ task' = task /\ agreed' = Unharmed /\ Writing' = Writing
      /\ row' \in {row, Added, "none"}
  BY ElsewhereStays DEF Recommit, Stays, Writing
<1>2. TasksFit'
  BY <1>1 DEF TasksFit, Unharmed
<1>3. RowAgrees'
  BY <1>1, RowReplaced DEF RowAgrees, Agrees
<1> QED
  BY <1>2, <1>3

LEMMA CircuitLoaded ==
  ASSUME LifeInv, StateTypeOK, TasksFit, RowAgrees, NEW e \in Execs,
         StartLoads(e) \/ \E d \in Execs : HangupLoads(d, e)
  PROVE  TasksFit' /\ RowAgrees'
<1>1. (\E c : Load(e, c)) /\ row' \in {row, Added, "none"}
  BY DEF StartLoads, HangupLoads
<1>2. /\ Alive \subseteq Alive' /\ Writing' = Writing /\ e \notin Alive /\ e \in Alive'
      /\ \A t \in Tasks : task'[t].exec = task[t].exec /\ task'[t].solo = FALSE
  <2>1. Alive \subseteq Alive' /\ e \notin Alive /\ e \in Alive'
    BY DEF StartLoads, HangupLoads, Start, Hangup, Fresh, Move, Alive, LifeInv, LifeTypeOK
  <2>2. \A t \in Tasks : task'[t].exec = task[t].exec /\ task'[t].solo = FALSE
    BY <1>1 DEF Load, TasksJoined, StateTypeOK, Task
  <2> QED
    BY <2>1, <2>2 DEF Writing
<1>3. /\ agreed' = Unharmed \cup {e} \/ agreed' = Unharmed
      /\ e \notin Unharmed /\ Unharmed \subseteq Alive
      /\ \A d \in Execs \ {e} : circuit'[d] = circuit[d]
  BY <1>1, <1>2 DEF Load, Unharmed, TasksFit, StateTypeOK
<1>4. TasksFit'
  BY <1>2, <1>3 DEF TasksFit
<1>5. RowAgrees'
  <2> SUFFICES ASSUME NEW d \in agreed', \A t \in Writing : task[t].exec # d
               PROVE  Agrees(circuit'[d], row')
    BY <1>2 DEF RowAgrees, Agrees, Writing
  <2>1. CASE d = e
    <3>1. circuit'[e] = IF row' \in Open THEN row' ELSE "clear"
      BY <1>1, <1>3, <2>1 DEF Load, StateTypeOK
    <3>2. row' \in Open \cup {"clear", "lapsed", "none"}
      BY <1>1 DEF StateTypeOK, Added, Row, Circuit, Open
    <3> QED
      BY <2>1, <3>1, <3>2 DEF Agrees
  <2>2. CASE d # e
    <3>1. d \in Unharmed /\ d \in Execs
      BY <1>3, <2>2 DEF Alive
    <3> QED
      BY <1>1, <1>3, <2>2, <3>1, RowReplaced
  <2> QED
    BY <2>1, <2>2
<1> QED
  BY <1>4, <1>5

LEMMA CircuitAbandoned ==
  ASSUME LifeInv, StateTypeOK, TasksFit, RowAgrees,
         NEW p \in Execs, Exit(p), Process(p) # {}, Abandon(p)
  PROVE  TasksFit' /\ RowAgrees'
<1>1. Alive' = Alive \ Process(p)
  BY DEF Exit, Alive, Process, LifeInv, LifeTypeOK
<1>2. \A t \in Tasks : \/ task'[t] = task[t] /\ task[t].exec \notin Process(p)
                       \/ task'[t] = NoTask /\ task[t].exec \in Process(p)
  BY DEF Abandon
<1>3. Process(p) \subseteq Execs /\ Alive \subseteq Execs /\ NoTask.exec = NoExec /\ NoTask.solo = FALSE
  BY DEF Process, Alive, NoTask
<1>4. ASSUME NEW t \in Tasks, task'[t].exec # NoExec
      PROVE  task'[t] = task[t] /\ task[t].exec \in Alive'
  BY <1>1, <1>2, <1>3, <1>4 DEF TasksFit
<1>5. ASSUME NEW t \in Tasks, task'[t].solo
      PROVE  Writing' = {t} /\ circuit'[task'[t].exec] = task'[t].sets
  <2>1. task'[t] = task[t] /\ Writing = {t} /\ circuit[task[t].exec] = task[t].sets
        /\ task[t].exec \notin Process(p) /\ task[t].exec # NoExec
    BY <1>2, <1>3, <1>5 DEF TasksFit, Writing
  <2>2. task[t].exec \in Execs
    BY <1>3, <2>1 DEF TasksFit
  <2>3. circuit'[task[t].exec] = circuit[task[t].exec]
    BY <2>1, <2>2 DEF Abandon
  <2>4. \A u \in Tasks : task'[u].exec # NoExec <=> u = t
    BY <1>4, <2>1 DEF Writing
  <2> QED
    BY <2>1, <2>3, <2>4 DEF Writing
<1>6. agreed' = agreed \ Process(p)
  BY DEF Abandon
<1>7. TasksFit'
  BY <1>1, <1>4, <1>5, <1>6 DEF TasksFit
<1>8. RowAgrees'
  <2> SUFFICES ASSUME NEW d \in agreed', \A t \in Writing' : task'[t].exec # d
               PROVE  Agrees(circuit'[d], row')
    BY DEF RowAgrees, Agrees
  <2>1. d \in agreed /\ d \in Execs /\ d \notin Process(p)
    BY <1>3, <1>6 DEF TasksFit
  <2>2. circuit'[d] = circuit[d] /\ row' = row
    BY <2>1 DEF Abandon
  <2>3. \A t \in Writing : task[t].exec # d
    BY <1>2, <2>1 DEF Writing
  <2> QED
    BY <2>1, <2>2, <2>3 DEF RowAgrees
<1> QED
  BY <1>7, <1>8

(* A call under way keeps RowAgrees silent about its execution; only one   *)
(* that was alone may say that memory and row agree again.                 *)
LEMMA CircuitCalled ==
  ASSUME LifeInv, StateTypeOK, TasksFit, RowAgrees, NEW t \in Tasks, TaskNext(t)
  PROVE  TasksFit' /\ RowAgrees'
<1> USE DEF StateTypeOK
<1>1. ASSUME NEW e \in Execs, NEW c \in Circuit, Sets(t, e, c), UNCHANGED life \/ Elsewhere, e \in Alive
      PROVE  TasksFit' /\ RowAgrees'
  <2>1. /\ Alive' = Alive /\ agreed' = agreed /\ row' = row
        /\ circuit'[e] = c /\ \A d \in Execs \ {e} : circuit'[d] = circuit[d]
        /\ task'[t] = [exec |-> e, sets |-> c, solo |-> Writing = {}]
        /\ task[t].exec = NoExec
        /\ \A u \in Tasks \ {t} : task'[u].exec = task[u].exec /\ task'[u].solo = FALSE
    <3>1. Alive' = Alive
      BY <1>1, ElsewhereStays DEF Stays
    <3>2. \A u \in Tasks : TasksJoined[u].exec = task[u].exec /\ TasksJoined[u].solo = FALSE
      BY DEF TasksJoined, Task
    <3> QED
      BY <1>1, <3>1, <3>2, JoinedType DEF Sets
  <2>2. e # NoExec
    BY ExecsAssumption
  <2>3. TasksFit'
    <3>1. ASSUME NEW u \in Tasks, u # t PROVE task'[u].exec # NoExec => task'[u].exec \in Alive'
      BY <2>1, <3>1 DEF TasksFit
    <3>2. task'[t].exec \in Alive' /\ circuit'[task'[t].exec] = task'[t].sets
      BY <1>1, <2>1
    <3>3. ASSUME task'[t].solo PROVE Writing' = {t}
      <4>1. Writing = {}
        <5>1. task'[t].solo = (Writing = {})
          BY <2>1
        <5> QED
          BY <3>3, <5>1
      <4>2. \A u \in Tasks \ {t} : task'[u].exec = NoExec
        BY <2>1, <4>1 DEF Writing
      <4>3. task'[t].exec # NoExec
        BY <2>1, <2>2
      <4> QED
        BY <4>2, <4>3 DEF Writing
    <3>4. agreed' \subseteq Alive'
      BY <2>1 DEF TasksFit
    <3> QED
      BY <2>1, <3>1, <3>2, <3>3, <3>4 DEF TasksFit
  <2>4. RowAgrees'
    <3> SUFFICES ASSUME NEW d \in agreed, \A u \in Writing' : task'[u].exec # d
                 PROVE  Agrees(circuit'[d], row)
      BY <2>1 DEF RowAgrees, Agrees
    <3>1. t \in Writing' /\ task'[t].exec = e
      BY <2>1, <2>2 DEF Writing
    <3>2. d # e /\ d \in Execs
      BY <3>1
    <3>3. \A u \in Writing : u # t /\ u \in Writing' /\ task'[u].exec = task[u].exec
      BY <2>1 DEF Writing
    <3> QED
      BY <2>1, <3>2, <3>3 DEF RowAgrees
  <2> QED
    BY <2>3, <2>4
<1>2. CASE WriteRow(t)
  <2>1. /\ Stays /\ circuit' = circuit
        /\ task'[t] = NoTask /\ task[t].exec # NoExec
        /\ \A u \in Tasks \ {t} : task'[u] = task[u]
    BY <1>2, ElsewhereStays DEF WriteRow
  <2>2. NoTask.exec = NoExec /\ NoTask.solo = FALSE
    BY DEF NoTask
  <2>3. TasksFit'
    <3>1. \A u \in Tasks : task'[u].solo => u # t /\ t \in Writing /\ task[u].solo
      BY <2>1, <2>2 DEF Writing
    <3>2. \A u \in Tasks : ~task'[u].solo
      BY <3>1 DEF TasksFit
    <3>3. agreed' \subseteq Alive'
      BY <1>2, <2>1 DEF WriteRow, TasksFit, Stays
    <3> QED
      BY <2>1, <2>2, <3>2, <3>3 DEF TasksFit, Stays
  <2>4. RowAgrees'
    <3> SUFFICES ASSUME NEW d \in agreed', \A u \in Writing' : task'[u].exec # d
                 PROVE  Agrees(circuit[d], row')
      BY <2>1 DEF RowAgrees, Agrees
    <3>1. CASE agreed' = (IF task[t].solo THEN {task[t].exec} ELSE {}) /\ row' = task[t].sets
      <4>1. task[t].solo /\ d = task[t].exec
        BY <3>1
      <4> QED
        BY <3>1, <4>1 DEF TasksFit, Agrees
    <3>2. CASE agreed' = agreed \ {task[t].exec} /\ row' = row
      <4>1. d \in agreed /\ d # task[t].exec
        BY <3>2
      <4>2. \A u \in Writing : task[u].exec # d
        BY <2>1, <4>1 DEF Writing
      <4> QED
        BY <3>2, <4>1, <4>2 DEF RowAgrees
    <3> QED
      BY <1>2, <3>1, <3>2 DEF WriteRow
  <2> QED
    BY <2>3, <2>4
<1>3. ASSUME NEW e \in Execs, Expire(t, e) PROVE TasksFit' /\ RowAgrees'
  BY <1>1, <1>3 DEF Expire, Circuit, Serving, Alive, Stopping
<1>4. ASSUME NEW e \in Execs, NEW c \in Circuit, SetCircuit(t, e, c) PROVE TasksFit' /\ RowAgrees'
  BY <1>1, <1>4 DEF SetCircuit, Serving, Alive, Stopping
<1> QED
  BY <1>2, <1>3, <1>4 DEF TaskNext

LEMMA CircuitLapses ==
  ASSUME StateTypeOK, TasksFit, RowAgrees, NEW d \in Deadlines, Lapse(d)
  PROVE  TasksFit' /\ RowAgrees'
<1>1. Stays /\ UNCHANGED <<life, agreed>>
  BY ElsewhereStays DEF Lapse
<1>2. \A t \in Tasks : /\ task'[t].exec = task[t].exec /\ task'[t].solo = task[t].solo
                       /\ task'[t].sets = Lapsed(task[t].sets, d)
  <2> TAKE t \in Tasks
  <2>1. task[t] \in Task /\ task'[t] = [task[t] EXCEPT !.sets = Lapsed(task[t].sets, d)]
    BY DEF Lapse, StateTypeOK
  <2> QED
    BY <2>1 DEF Task
<1>3. /\ \A e \in Execs : circuit'[e] = Lapsed(circuit[e], d)
      /\ row' = Lapsed(row, d)
  BY DEF Lapse
<1>4. Writing' = Writing
  BY <1>2 DEF Writing
<1>5. TasksFit'
  <2> SUFFICES ASSUME NEW t \in Tasks, task[t].solo
               PROVE  circuit'[task'[t].exec] = task'[t].sets
    BY <1>1, <1>2, <1>4 DEF TasksFit, Stays
  <2>1. task[t].exec \in Execs /\ circuit[task[t].exec] = task[t].sets
    BY DEF TasksFit, Writing, Alive
  <2> QED
    BY <1>2, <1>3, <2>1
<1>6. RowAgrees'
  <2> SUFFICES ASSUME NEW e \in agreed, \A t \in Writing : task[t].exec # e
               PROVE  Agrees(circuit'[e], row')
    BY <1>1, <1>2, <1>4 DEF RowAgrees, Agrees, Writing
  <2>1. Agrees(circuit[e], row) /\ e \in Execs
    BY DEF RowAgrees, StateTypeOK
  <2>2. "clear" # d /\ "lapsed" # d /\ "none" # d
    BY DeadlinesAssumption
  <2> QED
    BY <1>3, <2>1, <2>2 DEF Lapsed, Agrees
<1> QED
  BY <1>5, <1>6

-----------------------------------------------------------------------------
(* The configuration. *)

LEMMA SettingsUntouched ==
  ASSUME LifeInv, HandlersFit, PromiseStands, Stays, UNCHANGED settings
  PROVE  HandlersFit' /\ PromiseStands'
<1>1. \A e \in Execs : Current(e)' => Current(e)
  BY StaysCurrent
<1>2. HandlersFit'
  <2> SUFFICES ASSUME NEW h \in Handlers
               PROVE  /\ handler[h].at # "idle" => handler[h].exec \in Alive'
                      /\ handler[h].solo /\ Current(handler[h].exec)' => Current(handler[h].exec)
    BY DEF HandlersFit, settings, Busy, Routed
  <2>1. handler[h].at # "idle" => handler[h].exec \in Alive
    BY DEF HandlersFit
  <2>2. handler[h].solo => handler[h].exec \in Execs
    BY <2>1 DEF HandlersFit, Busy, Alive
  <2>3. handler' = handler
    BY DEF settings
  <2> QED
    BY <1>1, <2>1, <2>2, <2>3 DEF Stays
<1>3. PromiseStands'
  BY <1>1 DEF PromiseStands, settings, Routed
<1> QED
  BY <1>2, <1>3

LEMMA SettingsLoaded ==
  ASSUME LifeInv, StateTypeOK, HandlersFit, PromiseStands, NEW e \in Execs,
         StartLoads(e) \/ \E d \in Execs : HangupLoads(d, e)
  PROVE  HandlersFit' /\ PromiseStands'
<1>1. /\ Alive \subseteq Alive' /\ file' = file
      /\ \A h \in Handlers : /\ handler'[h].at = handler[h].at /\ handler'[h].exec = handler[h].exec
                              /\ handler'[h].kind = handler[h].kind /\ handler'[h].solo = FALSE
  <2>1. Alive \subseteq Alive'
    BY DEF StartLoads, HangupLoads, Start, Hangup, Fresh, Move, Alive, LifeInv, LifeTypeOK
  <2>2. handler' = Joined /\ file' = file
    BY DEF StartLoads, HangupLoads, Load
  <2>3. \A h \in Handlers : handler[h] \in Handler
    BY DEF StateTypeOK
  <2> QED
    BY <2>1, <2>2, <2>3 DEF Joined, Handler
<1>2. HandlersFit'
  BY <1>1 DEF HandlersFit
<1>3. PromiseStands'
  <2> SUFFICES ASSUME promised' # Unsure
               PROVE  /\ file' = promised'
                      /\ \A d \in Execs : Current(d)' =>
                           /\ router'[d] = promised'.route
                           /\ conf'[d].route = promised'.route
                           /\ conf'[d].enabled # promised'.enabled => conf'[d].enabled
    BY DEF PromiseStands
  <2>1. Resumes /\ file' = file
    BY <1>1 DEF StartLoads, HangupLoads
  <2>2. promised' = file
    BY <2>1 DEF Resumes, PromiseStands, Busy
  <2>3. file \in Config /\ file.enabled \in BOOLEAN
    BY DEF StateTypeOK, Config
  <2>4. ASSUME NEW d \in Execs, Current(d)' PROVE d = e
    BY <2>4, StartedIsCurrent, ReplacerIsCurrent DEF StartLoads, HangupLoads, Current
  <2>5. \/ Load(e, [file EXCEPT !.enabled = TRUE])
        \/ Load(e, file)
    BY DEF StartLoads, HangupLoads
  <2>6. /\ router'[e] = file.route /\ conf'[e].route = file.route
        /\ conf'[e].enabled # file.enabled => conf'[e].enabled
    BY <2>3, <2>5 DEF Load, StateTypeOK, Config
  <2> QED
    BY <2>1, <2>2, <2>4, <2>6
<1> QED
  BY <1>2, <1>3

LEMMA SettingsAbandoned ==
  ASSUME LifeInv, StateTypeOK, HandlersFit, PromiseStands,
         NEW p \in Execs, Exit(p), Process(p) # {}, Abandon(p)
  PROVE  HandlersFit' /\ PromiseStands'
<1>1. Alive' = Alive \ Process(p) /\ Process(p) \subseteq Execs /\ Alive \subseteq Execs
  BY DEF Exit, Alive, Process, LifeInv, LifeTypeOK
<1>2. \A h \in Handlers : \/ handler'[h] = handler[h] /\ handler[h].exec \notin Process(p)
                          \/ handler'[h] = Idle /\ handler[h].exec \in Process(p)
  BY DEF Abandon
<1>3. Idle.at = "idle" /\ Idle.kind = "patch" /\ Idle.solo = FALSE
  BY DEF Idle
<1>4. \A d \in Execs : ~Current(d)'
  BY NobodyIsCurrentAfterExit DEF Current
<1>5. ASSUME NEW h \in Handlers
      PROVE  /\ handler'[h].at # "idle" => handler'[h].exec \in Alive'
             /\ handler'[h].kind \in {"start", "stop"} => handler'[h].at # "routing"
             /\ handler'[h].kind = "reload" => handler'[h].at # "saving"
  BY <1>1, <1>2, <1>3 DEF HandlersFit
<1>6. ASSUME NEW h \in Handlers, handler'[h].solo
      PROVE  /\ Busy' = {h}
             /\ handler'[h].at = "saved" \/ handler'[h].kind = "reload" => file' = handler'[h].conf
             /\ Routed(h)' => router'[handler'[h].exec] = handler'[h].conf.route
             /\ ~Current(handler[h].exec)'
  <2>1. handler'[h] = handler[h] /\ handler[h].exec \notin Process(p) /\ Busy = {h} /\ handler[h].solo
    BY <1>2, <1>3, <1>6 DEF HandlersFit
  <2>2. Busy' = {h}
    BY <1>2, <1>3, <2>1 DEF Busy
  <2>3. handler[h].exec \in Execs
    BY <1>1, <2>1 DEF HandlersFit, Busy
  <2>4. router'[handler[h].exec] = router[handler[h].exec] /\ file' = file
    BY <2>1, <2>3 DEF Abandon
  <2> QED
    BY <1>4, <2>1, <2>2, <2>3, <2>4 DEF HandlersFit, Routed
<1>7. HandlersFit'
  BY <1>5, <1>6 DEF HandlersFit
<1>8. PromiseStands'
  <2> SUFFICES ASSUME promised' # Unsure, file' # promised'
               PROVE  \E h \in Handlers : handler'[h].at = "saved" /\ handler'[h].kind # "reload"
    BY <1>4 DEF PromiseStands
  <2>1. promised' = promised /\ file' = file
    BY DEF Abandon
  <2>2. PICK h \in Handlers : handler[h].at = "saved" /\ handler[h].kind # "reload"
    BY <2>1 DEF PromiseStands
  <2>3. handler[h].exec \notin Process(p)
    BY <2>2 DEF Abandon, Busy
  <2> QED
    BY <1>2, <2>2, <2>3
<1> QED
  BY <1>7, <1>8

LEMMA OthersAreNotAlone ==
  ASSUME HandlersFit, NEW h \in Busy, NEW g \in Handlers, g # h
  PROVE  ~handler[g].solo
  BY DEF HandlersFit

(* A handler begins: nobody is alone any more, but it may be. *)
LEMMA SettingsEntered ==
  ASSUME LifeInv, StateTypeOK, HandlersFit, PromiseStands, Stays,
         NEW h \in Handlers, NEW e \in Alive, NEW kind \in {"patch", "start", "stop", "reload"},
         NEW at \in {"routing", "saving"}, NEW c \in Config, Enter(h, e, kind, at, c),
         handler[h].at \in {"idle", "draining"}, UNCHANGED <<file, conf, router, promised>>,
         at = "routing" <=> kind \in {"patch", "reload"},
         kind = "reload" => c = file,
         kind \in {"start", "stop"} => c.route = conf[e].route
  PROVE  HandlersFit' /\ PromiseStands'
<1>1. /\ handler'[h] = [at |-> at, exec |-> e, kind |-> kind, conf |-> c, solo |-> Busy \ {h} = {}]
      /\ \A g \in Handlers \ {h} : /\ handler'[g].at = handler[g].at /\ handler'[g].exec = handler[g].exec
                                   /\ handler'[g].kind = handler[g].kind /\ handler'[g].solo = FALSE
  <2>1. \A g \in Handlers : handler[g] \in Handler
    BY DEF StateTypeOK
  <2> QED
    BY <2>1, JoinedType DEF Enter, Joined, Handler
<1>2. handler'[h].at = at /\ handler'[h].exec = e /\ handler'[h].kind = kind /\ handler'[h].conf = c
  BY <1>1
<1>3. ASSUME handler'[h].solo PROVE Busy' = {h}
  <2>1. handler'[h].solo = (Busy \ {h} = {})
    BY <1>1
  <2>2. Busy \ {h} = {}
    BY <1>3, <2>1
  <2>3. \A g \in Handlers \ {h} : handler'[g].at \in {"idle", "draining"}
    BY <1>1, <2>2 DEF Busy
  <2>4. handler'[h].at \notin {"idle", "draining"}
    BY <1>2
  <2> QED
    BY <2>3, <2>4 DEF Busy
<1>4. \A d \in Execs : Current(d)' => Current(d)
  BY StaysCurrent
<1>5. Alive' = Alive /\ e \in Execs
  BY DEF Stays, Alive
<1>6. ~Routed(h) /\ ~Routed(h)' /\ \A g \in Handlers \ {h} : Routed(g)' <=> Routed(g)
  BY <1>1, <1>2 DEF Routed
<1>7. kind \in {"start", "stop"} /\ promised # Unsure /\ Current(e)' => c.route = promised.route
  BY <1>4, <1>5 DEF PromiseStands
<1>8. HandlersFit'
  <2> SUFFICES ASSUME NEW g \in Handlers
               PROVE  /\ handler'[g].at # "idle" => handler'[g].exec \in Alive'
                      /\ handler'[g].kind \in {"start", "stop"} => handler'[g].at # "routing"
                      /\ handler'[g].kind = "reload" => handler'[g].at # "saving"
                      /\ handler'[g].solo =>
                           /\ Busy' = {g}
                           /\ handler'[g].at = "saved" \/ handler'[g].kind = "reload" => file' = handler'[g].conf
                           /\ Routed(g)' => router'[handler'[g].exec] = handler'[g].conf.route
                           /\ handler'[g].kind \in {"start", "stop"} /\ promised' # Unsure
                                /\ Current(handler[g].exec)' => handler'[g].conf.route = promised'.route
    BY DEF HandlersFit
  <2>1. CASE g = h
    <3>1. Current(handler[h].exec)' => Current(e)'
      BY <1>2
    <3> QED
      BY <1>2, <1>3, <1>5, <1>6, <1>7, <2>1, <3>1
  <2>2. CASE g # h
    BY <1>1, <1>5, <2>2 DEF HandlersFit
  <2> QED
    BY <2>1, <2>2
<1>9. PromiseStands'
  <2> SUFFICES ASSUME promised # Unsure
               PROVE  /\ file = promised \/ \E g \in Handlers : handler'[g].at = "saved" /\ handler'[g].kind # "reload"
                      /\ \A d \in Execs : Current(d)' =>
                           /\ router[d] = promised.route \/ \E g \in Handlers : Routed(g)'
                           /\ conf[d].route = promised.route
                           /\ conf[d].enabled # promised.enabled => conf[d].enabled
    BY DEF PromiseStands
  <2> QED
    BY <1>1, <1>4, <1>6 DEF PromiseStands
<1> QED
  BY <1>8, <1>9

LEMMA SettingsHandled ==
  ASSUME LifeInv, StateTypeOK, HandlersFit, PromiseStands, NEW h \in Handlers, HandlerNext(h)
  PROVE  HandlersFit' /\ PromiseStands'
<1>1. Stays /\ Alive' = Alive /\ \A d \in Execs : Current(d)' => Current(d)
  BY HandlerStays, StaysCurrent DEF Stays
<1>2. /\ handler[h] \in Handler /\ handler[h].conf \in Config /\ handler \in [Handlers -> Handler]
      /\ conf \in [Execs -> Config] /\ router \in [Execs -> Routes] /\ file \in Config
  BY DEF StateTypeOK, Handler
<1>3. handler[h].at # "idle" => handler[h].exec \in Alive /\ handler[h].exec \in Execs
  BY DEF HandlersFit, Alive
<1>4. Idle.at = "idle" /\ Idle.kind = "patch" /\ Idle.solo = FALSE
  BY DEF Idle
<1>5. ASSUME NEW e \in Execs, Patch(h, e) \/ Reload(h, e) \/ StartProxy(h, e)
      PROVE  HandlersFit' /\ PromiseStands'
  <2>1. e \in Alive /\ handler[h].at = "idle"
    BY <1>5 DEF Patch, Reload, StartProxy, Free, LifeInv, Generations
  <2>2. \A r \in Routes : [conf[e] EXCEPT !.route = r] \in Config
    BY <1>2 DEF Config
  <2>3. /\ [conf[e] EXCEPT !.enabled = TRUE] \in Config
        /\ [conf[e] EXCEPT !.enabled = TRUE].route = conf[e].route
    BY <1>2 DEF Config
  <2>4. CASE Patch(h, e)
    <3>1. PICK r \in Routes : Enter(h, e, "patch", "routing", [conf[e] EXCEPT !.route = r])
      BY <2>4 DEF Patch
    <3> QED
      BY <1>1, <2>1, <2>2, <2>4, <3>1, SettingsEntered DEF Patch
  <2>5. CASE Reload(h, e)
    BY <1>1, <1>2, <2>1, <2>5, SettingsEntered DEF Reload
  <2>6. CASE StartProxy(h, e)
    BY <1>1, <2>1, <2>3, <2>6, SettingsEntered DEF StartProxy
  <2> QED
    BY <1>5, <2>4, <2>5, <2>6
<1>6. CASE Drained(h)
  <2>1. handler[h].exec \in Alive /\ handler[h].exec \in Execs /\ handler[h].at = "draining"
    BY <1>3, <1>6 DEF Drained
  <2>2. /\ [conf[handler[h].exec] EXCEPT !.enabled = FALSE] \in Config
        /\ [conf[handler[h].exec] EXCEPT !.enabled = FALSE].route = conf[handler[h].exec].route
    BY <1>2, <2>1 DEF Config
  <2> QED
    BY <1>1, <1>6, <2>1, <2>2, SettingsEntered DEF Drained
<1>7. ASSUME NEW x \in Handler, x.solo = FALSE, x.at \in {"idle", "draining"},
             x.at # "idle" => x.exec \in Alive,
             handler' = [handler EXCEPT ![h] = x], handler[h].at \in {"idle", "draining"},
             UNCHANGED <<file, conf, router, promised>>
      PROVE  HandlersFit' /\ PromiseStands'
  <2>1. /\ handler'[h] = x /\ \A g \in Handlers \ {h} : handler'[g] = handler[g]
        /\ Busy' = Busy
    BY <1>2, <1>7 DEF Busy
  <2>2. \A g \in Handlers : Routed(g)' <=> Routed(g)
    BY <1>7, <2>1 DEF Routed
  <2>3. HandlersFit'
    <3> SUFFICES ASSUME NEW g \in Handlers \ {h}, handler[g].solo, Current(handler[g].exec)'
                 PROVE  Current(handler[g].exec)
      BY <1>1, <1>7, <2>1, <2>2 DEF HandlersFit
    <3>1. handler[g].exec \in Execs
      BY DEF HandlersFit, Busy, Alive
    <3> QED
      BY <1>1, <2>1, <3>1
  <2>4. PromiseStands'
    BY <1>1, <1>7, <2>1, <2>2 DEF PromiseStands
  <2> QED
    BY <2>3, <2>4
<1>8. CASE StopDropped(h)
  BY <1>4, <1>7, <1>8, DefaultsType DEF StopDropped
<1>9. ASSUME NEW e \in Execs, StopProxy(h, e) PROVE HandlersFit' /\ PromiseStands'
  <2> DEFINE x == [Idle EXCEPT !.at = "draining", !.exec = e, !.kind = "stop"]
  <2>1. x \in Handler /\ x.solo = FALSE /\ x.at = "draining" /\ x.exec = e
    BY <1>4, DefaultsType DEF Handler
  <2>2. e \in Alive /\ handler[h].at = "idle" /\ handler' = [handler EXCEPT ![h] = x]
        /\ UNCHANGED <<file, conf, router, promised>>
    BY <1>9 DEF StopProxy, Free, LifeInv, Generations
  <2> HIDE DEF x
  <2> QED
    BY <1>7, <2>1, <2>2
<1>10. CASE UpdateRouter(h)
  <2>1. h \in Busy /\ handler[h].kind \in {"patch", "reload"} /\ handler[h].exec \in Execs
    BY <1>2, <1>3, <1>10 DEF UpdateRouter, Busy, HandlersFit, Handler
  <2>2. \A g \in Handlers \ {h} : handler'[g] = handler[g] /\ ~handler'[g].solo
    BY <1>2, <1>10, <2>1, OthersAreNotAlone DEF UpdateRouter
  <2>3. /\ handler'[h].at = (IF handler[h].kind = "reload" THEN "saved" ELSE "saving")
        /\ handler'[h].exec = handler[h].exec /\ handler'[h].kind = handler[h].kind
        /\ handler'[h].conf = handler[h].conf /\ handler'[h].solo = handler[h].solo
        /\ router'[handler[h].exec] = handler[h].conf.route /\ file' = file /\ handler[h].at = "routing"
        /\ conf' = conf /\ promised' = promised
    BY <1>2, <1>10, <2>1 DEF UpdateRouter, Handler
  <2>4. Busy' = Busy
    BY <2>2, <2>3 DEF Busy
  <2>5. HandlersFit'
    <3>1. ASSUME NEW g \in Handlers \ {h}
          PROVE  /\ handler'[g].at # "idle" => handler'[g].exec \in Alive'
                 /\ handler'[g].kind \in {"start", "stop"} => handler'[g].at # "routing"
                 /\ handler'[g].kind = "reload" => handler'[g].at # "saving"
                 /\ ~handler'[g].solo
      BY <1>1, <2>2 DEF HandlersFit
    <3> QED
      BY <1>1, <2>1, <2>3, <2>4, <3>1 DEF HandlersFit
  <2>6. PromiseStands'
    <3>1. Routed(h)'
      BY <2>1, <2>3 DEF Routed
    <3> QED
      BY <1>1, <2>2, <2>3, <3>1 DEF PromiseStands
  <2> QED
    BY <2>5, <2>6
<1>11. CASE Save(h)
  <2>1. h \in Busy /\ handler[h].exec \in Execs /\ handler[h].kind # "reload"
    BY <1>3, <1>11 DEF Save, Busy, HandlersFit
  <2>2. \A g \in Handlers \ {h} : handler'[g] = handler[g] /\ ~handler'[g].solo
    BY <1>2, <1>11, <2>1, OthersAreNotAlone DEF Save
  <2>3. \A g \in Handlers \ {h} :
           /\ handler'[g].at # "idle" => handler'[g].exec \in Alive'
           /\ handler'[g].kind \in {"start", "stop"} => handler'[g].at # "routing"
           /\ handler'[g].kind = "reload" => handler'[g].at # "saving"
    BY <1>1, <2>2 DEF HandlersFit
  <2>4. CASE file' = handler[h].conf /\ handler' = [handler EXCEPT ![h].at = "saved"] /\ UNCHANGED promised
    <3>1. /\ handler'[h].at = "saved"
          /\ handler'[h].exec = handler[h].exec /\ handler'[h].kind = handler[h].kind
          /\ handler'[h].conf = handler[h].conf /\ handler'[h].solo = handler[h].solo
          /\ router' = router /\ conf' = conf /\ handler[h].at = "saving"
      BY <1>2, <1>11, <2>4 DEF Save, Handler
    <3>2. Busy' = Busy /\ (Routed(h)' <=> Routed(h)) /\ \A g \in Handlers \ {h} : Routed(g)' <=> Routed(g)
      BY <2>2, <3>1 DEF Busy, Routed
    <3>3. HandlersFit'
      <4>1. handler'[h].solo /\ Current(handler[h].exec)' => Current(handler[h].exec)
        BY <1>1, <2>1, <3>1
      <4> QED
        BY <1>1, <2>1, <2>2, <2>3, <2>4, <3>1, <3>2, <4>1 DEF HandlersFit
    <3>4. PromiseStands'
      BY <1>1, <2>1, <2>4, <3>1, <3>2 DEF PromiseStands
    <3> QED
      BY <3>3, <3>4
  <2>5. CASE /\ handler' = [handler EXCEPT ![h] = Idle]
             /\ promised' = IF handler[h].kind = "stop" THEN promised ELSE Unsure
             /\ UNCHANGED file
    <3>1. handler'[h] = Idle /\ router' = router /\ conf' = conf /\ handler[h].at = "saving"
      BY <1>2, <1>11, <2>5 DEF Save
    <3>2. HandlersFit'
      BY <1>4, <2>2, <2>3, <3>1 DEF HandlersFit
    <3>3. PromiseStands'
      <4> SUFFICES ASSUME promised' # Unsure PROVE PromiseStands'
        BY DEF PromiseStands
      <4>1. promised' = promised /\ handler[h].kind = "stop"
        BY <2>5
      <4>2. ~Routed(h) /\ \A g \in Handlers \ {h} : Routed(g)' <=> Routed(g)
        BY <2>2, <4>1 DEF Routed
      <4> QED
        BY <1>1, <2>2, <2>5, <3>1, <4>1, <4>2 DEF PromiseStands
    <3> QED
      BY <3>2, <3>3
  <2> QED
    BY <1>11, <2>4, <2>5 DEF Save
<1>12. CASE Publish(h)
  <2>1. /\ h \in Busy /\ handler[h].exec \in Execs /\ handler[h].exec \in Alive
        /\ handler[h].at = "saved" /\ handler' = [handler EXCEPT ![h] = Idle]
        /\ conf' = [conf EXCEPT ![handler[h].exec] = handler[h].conf] /\ file' = file /\ router' = router
    BY <1>3, <1>12 DEF Publish, Busy
  <2>2. handler'[h] = Idle /\ \A g \in Handlers \ {h} : handler'[g] = handler[g] /\ ~handler'[g].solo
    BY <1>2, <2>1, OthersAreNotAlone
  <2>3. HandlersFit'
    BY <1>1, <1>4, <2>1, <2>2 DEF HandlersFit
  <2>4. PromiseStands'
    <3> SUFFICES ASSUME promised' # Unsure
                 PROVE  /\ file' = promised'
                        /\ \A d \in Execs : Current(d)' =>
                              router'[d] = promised'.route /\ conf'[d] = promised'
      BY DEF PromiseStands
    <3>1. /\ handler[h].solo /\ stage[handler[h].exec] # "replaced"
          /\ promised # Unsure \/ handler[h].kind \in {"patch", "reload"}
          /\ promised' = handler[h].conf
      BY <1>12 DEF Publish
    <3>2. Busy = {h} /\ file = handler[h].conf
      BY <2>1, <3>1 DEF HandlersFit
    <3> SUFFICES ASSUME NEW d \in Execs, Current(d), Current(d)'
                 PROVE  router[d] = promised'.route /\ conf'[d] = promised'
      BY <1>1, <2>1, <3>1, <3>2
    <3>3. d = handler[h].exec
      BY <2>1, <3>1, OnlyOneIsCurrent
    <3>4. CASE handler[h].kind \in {"patch", "reload"}
      BY <1>2, <2>1, <3>1, <3>3, <3>4 DEF HandlersFit, Routed
    <3>5. CASE handler[h].kind \in {"start", "stop"}
      <4>1. handler[h].conf.route = promised.route /\ promised # Unsure
        BY <3>1, <3>3, <3>5 DEF HandlersFit
      <4>2. \A g \in Handlers : ~Routed(g)
        BY <3>2, <3>5 DEF Routed, Busy
      <4>3. router[d] = promised.route
        BY <4>1, <4>2 DEF PromiseStands
      <4> QED
        BY <1>2, <2>1, <3>1, <3>3, <4>1, <4>3
    <3>6. handler[h].kind \in {"patch", "start", "stop", "reload"}
      BY <1>2 DEF Handler
    <3> QED
      BY <3>4, <3>5, <3>6
  <2> QED
    BY <2>3, <2>4
<1> QED
  BY <1>5, <1>6, <1>8, <1>9, <1>10, <1>11, <1>12 DEF HandlerNext

LEMMA SettingsEdited ==
  ASSUME LifeInv, StateTypeOK, HandlersFit, Edit
  PROVE  HandlersFit' /\ PromiseStands' /\ StateTypeOK'
<1>1. \A h \in Handlers : handler[h] \in Handler
  BY DEF StateTypeOK
<1>2. \A h \in Handlers : /\ handler'[h].at = handler[h].at /\ handler'[h].exec = handler[h].exec
                          /\ handler'[h].kind = handler[h].kind /\ handler'[h].solo = FALSE
  BY <1>1 DEF Edit, Joined, Handler
<1>3. Alive' = Alive
  BY ElsewhereStays DEF Edit, Stays
<1>4. HandlersFit' /\ PromiseStands'
  BY <1>2, <1>3 DEF HandlersFit, PromiseStands, Edit
<1> QED
  BY <1>4, JoinedType DEF Edit, StateTypeOK, circuits

-----------------------------------------------------------------------------
LEMMA StateInitially == Init => StateInv
<1> SUFFICES ASSUME Init PROVE StateInv
  OBVIOUS
<1>1. \A e \in Execs : e \notin Alive
  BY DEF Init, LifeInit, Alive
<1>2. \A t \in Tasks : task[t].exec = NoExec /\ task[t].solo = FALSE
  BY DEF Init, NoTask
<1>3. \A h \in Handlers : handler[h].at = "idle" /\ handler[h].solo = FALSE /\ handler[h].kind = "patch"
  BY DEF Init, Idle
<1>4. file = promised /\ agreed = {}
  BY DEF Init
<1> QED
  BY <1>1, <1>2, <1>3, <1>4, StateTypeInitially
  DEF StateInv, TasksFit, HandlersFit, PromiseStands, RowAgrees, Current, Undisturbed

LEMMA StateInvStep == LifeInv /\ StateInv /\ [Next]_vars => StateInv'
<1> SUFFICES ASSUME LifeInv, StateInv, [Next]_vars PROVE StateInv'
  OBVIOUS
<1> StateTypeOK /\ TasksFit /\ HandlersFit /\ PromiseStands /\ RowAgrees
  BY DEF StateInv
<1>1. ASSUME Stays, UNCHANGED <<settings, circuits>> PROVE StateInv'
  BY <1>1, CircuitUntouched, SettingsUntouched DEF StateInv, StateTypeOK, settings, circuits
<1>2. ASSUME NEW e \in Execs, StartLoads(e) \/ \E d \in Execs : HangupLoads(d, e) PROVE StateInv'
  <2>1. /\ row' \in {row, Added, "none"}
        /\ \E c \in Config : Load(e, c) /\ promised' \in Config \cup {Unsure}
    BY <1>2 DEF StartLoads, HangupLoads, Resumes, StateTypeOK, Config
  <2> QED
    BY <1>2, <2>1, LoadType, CircuitLoaded, SettingsLoaded DEF StateInv
<1>3. ASSUME NEW e \in Execs, Ends(e) PROVE StateInv'
  <2>1. \E p \in Execs : Exit(p) /\ Process(p) # {} /\ Abandon(p)
    <3>1. ASSUME StartFails(e) \/ Leave(e)
          PROVE  first[e] \in Execs /\ Exit(first[e]) /\ e \in Process(first[e])
      BY <3>1 DEF StartFails, Leave, Process, Alive, Starting, LifeInv, LifeTypeOK
    <3>2. ASSUME Die(e) \/ (Terminate(e) /\ stage[e] # "ready") PROVE Exit(e) /\ Process(e) # {}
      BY <3>2 DEF Die, Terminate, Process, Alive, Starting
    <3> QED
      BY <1>3, <3>1, <3>2 DEF Ends
  <2> QED
    BY <2>1, AbandonType, CircuitAbandoned, SettingsAbandoned DEF StateInv
<1>4. ASSUME NEW e \in Execs, Lives(e) PROVE StateInv'
  BY <1>1, <1>4, LivesStays
<1>5. CASE StatusCheck
  BY <1>1, <1>5, StatusStays
<1>6. ASSUME NEW h \in Handlers, HandlerNext(h) PROVE StateInv'
  <2>1. handler[h].at # "idle" => handler[h].exec \in Execs
    BY DEF HandlersFit, Alive
  <2> QED
    BY <1>6, <2>1, HandlerType, HandlerStays, CircuitUntouched, SettingsHandled DEF StateInv
<1>7. ASSUME NEW t \in Tasks, TaskNext(t) PROVE StateInv'
  <2>1. Stays /\ UNCHANGED settings
    <3>1. (UNCHANGED life \/ Elsewhere) /\ UNCHANGED settings
      BY <1>7 DEF TaskNext, Expire, SetCircuit, Sets, WriteRow
    <3> QED
      BY <3>1, ElsewhereStays
  <2> QED
    BY <1>7, <2>1, TaskType, CircuitCalled, SettingsUntouched DEF StateInv
<1>8. CASE Edit
  <2>1. Stays /\ UNCHANGED circuits
    BY <1>8, ElsewhereStays DEF Edit
  <2> QED
    BY <1>8, <2>1, SettingsEdited, CircuitUntouched DEF StateInv
<1>9. ASSUME NEW e \in Execs, Recommit(e) PROVE StateInv'
  <2>1. Stays /\ UNCHANGED settings
    BY <1>9, ElsewhereStays DEF Recommit
  <2> QED
    BY <1>9, <2>1, RecommitType, CircuitRecommitted, SettingsUntouched DEF StateInv
<1>10. ASSUME NEW d \in Deadlines, Lapse(d) PROVE StateInv'
  <2>1. Stays /\ UNCHANGED settings
    BY <1>10, ElsewhereStays DEF Lapse
  <2> QED
    BY <1>10, <2>1, LapseType, CircuitLapses, SettingsUntouched DEF StateInv
<1>11. CASE UNCHANGED vars
  BY <1>1, <1>11, ElsewhereStays DEF vars
<1> QED
  BY <1>2, <1>3, <1>4, <1>5, <1>6, <1>7, <1>8, <1>9, <1>10, <1>11 DEF Next

LEMMA StateInvariant == Spec => []StateInv
  BY StateInitially, StateInvStep, StateLifeInvariant, PTL DEF Spec

(* The row of an account says what the router of the living daemon has in  *)
(* memory, for any number of calls, crashes and generations.               *)
THEOREM RowsAgree == Spec => []RowAgrees
<1>1. StateInv => RowAgrees
  BY DEF StateInv
<1> QED
  BY <1>1, StateInvariant, PTL

(* What was answered with ok is what the file, the router and the control  *)
(* API have, for any number of handlers, crashes and generations.          *)
THEOREM SettingsDoAgree == Spec => []SettingsAgree
<1>1. StateInv => SettingsAgree
  <2> SUFFICES ASSUME StateInv, promised # Unsure, Busy = {}
               PROVE  /\ file = promised
                      /\ \A e \in Execs : Current(e) =>
                           /\ router[e] = promised.route
                           /\ conf[e].route = promised.route
                           /\ conf[e].enabled # promised.enabled => conf[e].enabled
    BY DEF SettingsAgree, Current
  <2> QED
    BY DEF StateInv, PromiseStands, Busy, Routed
<1> QED
  BY <1>1, StateInvariant, PTL
=============================================================================
