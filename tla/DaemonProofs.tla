---------------------------- MODULE DaemonProofs ----------------------------
(***************************************************************************)
(* Proofs about DaemonLifecycle and DaemonState, for any number of         *)
(* executions, processes, signals and requests.                            *)
(*                                                                         *)
(* LifeInv is inductive as it stands.  Its parts hold one another up: what *)
(* the files say (FilesFit) is only claimed of a process that no other one *)
(* has been near, and Apart says that two of them always spoil each other; *)
(* that no older generation of the same process interferes needs           *)
(* Generations (it is replaced) and ControlFits (a stop that reached a     *)
(* replaced generation has spoiled the process).                           *)
(***************************************************************************)
EXTENDS DaemonState, TLAPS

(* Nothing runs. *)
LEMMA LifeInitially == LifeInit => LifeInv
  BY ExecsAssumption
  DEF LifeInit, LifeInv, LifeTypeOK, Apart, Generations, ControlFits, FilesFit, Alive,
      Stage, Starting, Stopping, Undisturbed

-----------------------------------------------------------------------------
(* A process ends.  Its PID file may be removed, or its descriptor have    *)
(* been written, on the way: whoever is left is another process, and was   *)
(* spoiled by this one.                                                    *)
LEMMA ExitKeepsLifeInv ==
  ASSUME LifeInv, NEW p \in Execs, Exit(p),
         pidFile' = pidFile \/ (pidFile' = NoExec /\ Process(p) # {}),
         descriptor' = descriptor \/ (descriptor' \in Execs /\ Process(p) # {}),
         cli' = cli, events' \in Nat
  PROVE  LifeInv'
<1> USE DEF Exit, Process, Alive
<1>1. LifeTypeOK'
  BY DEF LifeInv, LifeTypeOK, Stage
<1>2. \A d \in Alive' : /\ d \in Alive /\ first[d] # p /\ first'[d] = first[d]
                        /\ stage'[d] = stage[d] /\ control'[d] = control[d] /\ told'[d] = told[d]
                        /\ first[d] \in spoiled' <=> first[d] \in spoiled
  BY DEF LifeInv, LifeTypeOK
<1>3. /\ \A d \in Execs : stage'[d] = "free" => stage[d] = "free"
      /\ \A d \in Execs \ Alive' : control'[d] = "off" /\ ~told'[d]
  BY DEF LifeInv, LifeTypeOK, Generations
<1>4. Apart'
  BY <1>2 DEF LifeInv, Apart
<1>5. Generations'
  <2>1. ASSUME NEW d \in Alive' PROVE first'[d] \in Alive' /\ first'[first'[d]] = first'[d]
    <3>1. /\ d \in Alive /\ first[d] # p /\ first'[d] = first[d]
          /\ first[d] \in Alive /\ first[first[d]] = first[d]
      BY <1>2, <2>1 DEF LifeInv, Generations
    <3>2. first[d] \in Execs /\ first[d] \notin Process(p)
      BY <3>1
    <3> QED
      BY <3>1, <3>2 DEF LifeInv, LifeTypeOK
  <2>2. \A d, e \in Execs : d < e /\ stage'[d] = "free" => stage'[e] = "free"
    BY <1>3 DEF LifeInv, LifeTypeOK, Generations
  <2>3. \A d, e \in Alive' : d < e /\ first'[d] = first'[e] => stage'[d] = "replaced"
    BY <1>2 DEF LifeInv, Generations
  <2>4. \A e \in Execs \ Alive' : control'[e] = "off" /\ ~told'[e]
    BY <1>3 DEF LifeInv, Generations
  <2> QED
    BY <2>1, <2>2, <2>3, <2>4 DEF Generations
<1>6. ControlFits'
  BY <1>2 DEF LifeInv, ControlFits
<1>7. FilesFit'
  <2> SUFFICES ASSUME NEW e \in Alive', Undisturbed(e)', stage'[e] \notin {"starting", "replaced"}
               PROVE  /\ pidFile' = IF stage'[e] = "leaving" THEN NoExec ELSE first'[e]
                      /\ stage'[e] # "pid" =>
                           descriptor' = IF control'[e] = "ended" THEN NoExec ELSE e
    BY DEF FilesFit
  <2>1. /\ e \in Alive /\ first[e] # p /\ first[e] \notin spoiled
        /\ stage'[e] = stage[e] /\ control'[e] = control[e] /\ first'[e] = first[e]
    BY <1>2 DEF Undisturbed
  <2>2. Process(p) = {}
    BY <2>1 DEF LifeInv, Apart
  <2> QED
    BY <2>1, <2>2 DEF LifeInv, FilesFit, Undisturbed
<1> QED
  BY <1>1, <1>4, <1>5, <1>6, <1>7 DEF LifeInv

-----------------------------------------------------------------------------
(* A new execution: a process of its own, or a generation of one. *)
LEMMA StartKeepsLifeInv ==
  ASSUME LifeInv, NEW e \in Execs, Start(e)
  PROVE  LifeInv'
<1> USE DEF Start, Move, Fresh, Alive
<1>1. LifeTypeOK'
  BY DEF LifeInv, LifeTypeOK, Stage, Starting
<1>2. /\ \A d \in Alive : first[d] # e /\ first[d] \in spoiled'
      /\ Alive # {} => e \in spoiled'
      /\ Alive' = Alive \cup {e}
  BY DEF LifeInv, LifeTypeOK, Generations
<1>3. \A d \in Alive : stage'[d] = stage[d] /\ first'[d] = first[d]
  BY DEF LifeInv, LifeTypeOK
<1>4. Apart'
  BY <1>2, <1>3 DEF LifeInv, LifeTypeOK
    , Apart
<1>5. Generations'
  <2>1. \A d \in Alive' : first'[d] \in Alive' /\ first'[first'[d]] = first'[d]
    BY <1>2, <1>3 DEF LifeInv, LifeTypeOK, Generations
  <2>2. \A c, d \in Execs : c < d /\ stage'[c] = "free" => stage'[d] = "free"
    BY ExecsAssumption DEF LifeInv, LifeTypeOK, Generations
  <2>3. \A c, d \in Alive' : c < d /\ first'[c] = first'[d] => stage'[c] = "replaced"
    BY <1>2, <1>3, ExecsAssumption DEF LifeInv, LifeTypeOK, Generations
  <2>4. \A d \in Execs \ Alive' : control'[d] = "off" /\ ~told'[d]
    BY DEF LifeInv, LifeTypeOK, Generations
  <2> QED
    BY <2>1, <2>2, <2>3, <2>4 DEF Generations
<1>6. ControlFits'
  BY <1>2, <1>3 DEF LifeInv, LifeTypeOK, ControlFits, Generations, Starting
<1>7. FilesFit'
  BY <1>2, <1>3 DEF LifeInv, LifeTypeOK, FilesFit, Undisturbed
<1> QED
  BY <1>1, <1>4, <1>5, <1>6, <1>7 DEF LifeInv

LEMMA HangupKeepsLifeInv ==
  ASSUME LifeInv, NEW e \in Execs, NEW n \in Execs, Hangup(e, n)
  PROVE  LifeInv'
<1> USE DEF Hangup, Fresh, Alive, Event
<1>1. LifeTypeOK'
  BY DEF LifeInv, LifeTypeOK, Stage, Starting
<1>2. /\ Alive' = Alive \cup {n} /\ e \in Alive /\ n \notin Alive /\ first'[n] = first[e]
      /\ \A d \in Alive : d < n /\ first'[d] = first[d]
      /\ \A d \in Alive \ {e} : stage'[d] = stage[d]
      /\ stage'[e] = "replaced" /\ stage'[n] = "starting" /\ stage[e] = "ready"
      /\ spoiled \subseteq spoiled' /\ e \in Execs
  <2>1. stage[e] = "ready" /\ stage[n] = "free" /\ e # n
    OBVIOUS
  <2>2. \A d \in Alive : d < n
    BY <2>1, ExecsAssumption DEF LifeInv, Generations
  <2> QED
    BY <2>1, <2>2 DEF LifeInv, LifeTypeOK
<1>3. Apart'
  BY <1>2 DEF LifeInv, Apart
<1>4. Generations'
  <2>1. ASSUME NEW d \in Alive' PROVE first'[d] \in Alive' /\ first'[first'[d]] = first'[d]
    <3> HIDE DEF Hangup, Alive
    <3>1. \A c \in Alive : first[c] \in Alive /\ first[first[c]] = first[c]
      BY DEF LifeInv, Generations
    <3>2. CASE d \in Alive
      BY <1>2, <3>1, <3>2
    <3>3. CASE d = n
      BY <1>2, <3>1, <3>3
    <3> QED
      BY <1>2, <3>2, <3>3
  <2>2. \A c, d \in Execs : c < d /\ stage'[c] = "free" => stage'[d] = "free"
    BY ExecsAssumption DEF LifeInv, LifeTypeOK, Generations
  <2>3. \A c, d \in Alive' : c < d /\ first'[c] = first'[d] => stage'[c] = "replaced"
    <3> SUFFICES ASSUME NEW c \in Alive', NEW d \in Alive', c < d, first'[c] = first'[d]
                 PROVE  stage'[c] = "replaced"
      OBVIOUS
    <3>1. c \in Alive
      <4> HIDE DEF Hangup, Alive
      <4>1. c \in Nat /\ d \in Nat /\ n \in Nat
        BY ExecsAssumption DEF Alive
      <4>2. c = n => d \in Alive /\ d < n
        BY <1>2, <4>1
      <4> QED
        BY <1>2, <4>1, <4>2
    <3>2. CASE c = e
      BY <3>2, <1>2
    <3>3. CASE c # e /\ d # n
      BY <3>1, <3>3, <1>2 DEF LifeInv, Generations
    <3>4. CASE c # e /\ d = n
      <4>1. c < e \/ e < c
        BY <3>4, ExecsAssumption
      <4>2. first[c] = first[e]
        BY <3>1, <3>4, <1>2
      <4> QED
        BY <3>1, <3>4, <4>1, <4>2, <1>2 DEF LifeInv, Generations
    <3> QED
      BY <3>2, <3>3, <3>4
  <2>4. \A d \in Execs \ Alive' : control'[d] = "off" /\ ~told'[d]
    BY DEF LifeInv, LifeTypeOK, Generations
  <2> QED
    BY <2>1, <2>2, <2>3, <2>4 DEF Generations
<1>5. ControlFits'
  BY <1>2 DEF LifeInv, LifeTypeOK, ControlFits, Generations, Starting
<1>6. FilesFit'
  BY <1>2 DEF LifeInv, LifeTypeOK, FilesFit, Undisturbed
<1> QED
  BY <1>1, <1>3, <1>4, <1>5, <1>6 DEF LifeInv

-----------------------------------------------------------------------------
(* An execution goes on to another stage, and may write or remove a file:  *)
(* every other one is replaced, or of another process and spoiled.         *)
LEMMA OthersDoNotMind ==
  ASSUME LifeInv, NEW d \in Alive, NEW e \in Alive, d # e,
         stage[e] # "replaced", Undisturbed(d)
  PROVE  stage[d] = "replaced"
<1>1. d < e \/ e < d
  BY ExecsAssumption DEF Alive
<1> QED
  BY <1>1 DEF LifeInv, Apart, Generations, Undisturbed

LEMMA MoveKeepsLifeInv ==
  ASSUME LifeInv, NEW e \in Execs,
         WritePid(e) \/ BindControl(e) \/ Notice(e) \/ Drain(e) \/ Close(e)
           \/ (Terminate(e) /\ stage[e] = "ready")
  PROVE  LifeInv'
<1> USE DEF WritePid, BindControl, Notice, Drain, Close, Terminate, Move, Event, Alive, Starting
<1>1. LifeTypeOK'
  <2> USE DEF LifeInv, LifeTypeOK, Stage, Stopping
  <2>1. CASE WritePid(e)
    BY <2>1
  <2>2. CASE BindControl(e)
    BY <2>2
  <2>3. CASE Notice(e)
    BY <2>3
  <2>4. CASE Drain(e)
    BY <2>4
  <2>5. CASE Close(e)
    BY <2>5
  <2>6. CASE Terminate(e) /\ stage[e] = "ready"
    BY <2>6
  <2> QED
    BY <2>1, <2>2, <2>3, <2>4, <2>5, <2>6
<1>2. /\ Alive' = Alive /\ e \in Alive /\ first' = first /\ spoiled' = spoiled
      /\ stage[e] \notin {"replaced", "free"} /\ stage'[e] \notin {"replaced", "free"}
      /\ \A d \in Execs \ {e} : stage'[d] = stage[d] /\ control'[d] = control[d] /\ told'[d] = told[d]
  BY DEF LifeInv, LifeTypeOK
<1>3. Apart'
  BY <1>2 DEF LifeInv, Apart
<1>4. Generations'
  BY <1>2 DEF LifeInv, Generations
<1>5. ControlFits'
  BY <1>2 DEF LifeInv, LifeTypeOK, ControlFits
<1>6. FilesFit'
  <2> SUFFICES ASSUME NEW d \in Alive, Undisturbed(d), stage'[d] \notin {"starting", "replaced"}
               PROVE  /\ pidFile' = IF stage'[d] = "leaving" THEN NoExec ELSE first[d]
                      /\ stage'[d] # "pid" =>
                           descriptor' = IF control'[d] = "ended" THEN NoExec ELSE d
    BY <1>2 DEF FilesFit, Undisturbed
  <2>1. d = e
    BY <1>2, OthersDoNotMind
  <2> QED
    BY <2>1, <1>2 DEF LifeInv, LifeTypeOK, FilesFit, ControlFits
<1> QED
  BY <1>1, <1>3, <1>4, <1>5, <1>6 DEF LifeInv

(* The control server ends, fails or is told; somebody looks at the files. *)
LEMMA ControlKeepsLifeInv ==
  ASSUME LifeInv, NEW e \in Execs, ControlEnds(e) \/ AcceptFails(e) \/ RequestStop(e)
  PROVE  LifeInv'
<1> USE DEF ControlEnds, AcceptFails, RequestStop, Event, Alive, Starting
<1>1. LifeTypeOK'
  <2> USE DEF LifeInv, LifeTypeOK, Stage
  <2>1. CASE ControlEnds(e)
    BY <2>1
  <2>2. CASE AcceptFails(e)
    BY <2>2
  <2>3. CASE RequestStop(e)
    BY <2>3
  <2> QED
    BY <2>1, <2>2, <2>3
<1>2. /\ Alive' = Alive /\ first' = first /\ stage' = stage /\ pidFile' = pidFile
      /\ control[e] # "off" /\ spoiled \subseteq spoiled'
      /\ \A d \in Execs \ {e} : control'[d] = control[d] /\ told'[d] = told[d]
  BY DEF LifeInv, LifeTypeOK
<1>3. Apart'
  BY <1>2 DEF LifeInv, Apart
<1>4. Generations'
  BY <1>2 DEF LifeInv, LifeTypeOK, Generations
<1>5. ControlFits'
  BY <1>2 DEF LifeInv, LifeTypeOK, ControlFits
<1>6. FilesFit'
  <2> SUFFICES ASSUME NEW d \in Alive, Undisturbed(d), Undisturbed(d)',
                      stage[d] \notin {"starting", "replaced", "pid"}
               PROVE  descriptor' = IF control'[d] = "ended" THEN NoExec ELSE d
    BY <1>2 DEF LifeInv, FilesFit, Undisturbed
  <2>1. CASE d = e
    BY <2>1, <1>2 DEF LifeInv, LifeTypeOK, FilesFit
  <2>2. CASE d # e
    <3>1. CASE ~ControlEnds(e)
      BY <3>1, <2>2, <1>2 DEF LifeInv, FilesFit
    <3>2. CASE ControlEnds(e) /\ e \in Alive
      BY <3>2, <2>2, <1>2, OthersDoNotMind, ExecsAssumption
      DEF LifeInv, ControlFits, Apart, Generations, Undisturbed
    <3>3. CASE ControlEnds(e) /\ e \notin Alive
      BY <3>3, <1>2 DEF LifeInv, Generations, LifeTypeOK
    <3> QED
      BY <3>1, <3>2, <3>3
  <2> QED
    BY <2>1, <2>2
<1> QED
  BY <1>1, <1>3, <1>4, <1>5, <1>6 DEF LifeInv

(* A status check touches the PID file only, and a process whose file it   *)
(* removes is spoiled.  A data plane that is started or stopped touches    *)
(* none of this.                                                           *)
LEMMA StatusKeepsLifeInv ==
  ASSUME LifeInv,
         StatusRead \/ StatusRemove \/ Elsewhere \/ \E e \in Execs : Revive(e) \/ Quell(e)
  PROVE  LifeInv'
<1> USE DEF StatusRead, StatusRemove, Elsewhere, Revive, Quell, Event
<1>1. LifeTypeOK'
  BY DEF LifeInv, LifeTypeOK, Stage
<1>2. /\ UNCHANGED <<stage, first, control, told, descriptor>>
      /\ Alive' = Alive /\ spoiled \subseteq spoiled'
  BY DEF LifeInv, LifeTypeOK, Alive
<1>3. Apart' /\ Generations' /\ ControlFits'
  BY <1>2 DEF LifeInv, Apart, Generations, ControlFits
<1>4. ASSUME NEW e \in Alive, Undisturbed(e)', stage[e] \notin {"starting", "replaced"}
      PROVE  pidFile' = pidFile
  <2>1. Undisturbed(e) /\ first[e] \notin spoiled'
    BY <1>2, <1>4 DEF Undisturbed
  <2>2. pidFile = IF stage[e] = "leaving" THEN NoExec ELSE first[e]
    BY <1>4, <2>1 DEF LifeInv, FilesFit
  <2>3. e \in Process(first[e]) /\ first[e] \in Execs
    BY <1>2 DEF Process, Alive, LifeInv, LifeTypeOK
  <2> QED
    BY <2>1, <2>2, <2>3, ExecsAssumption
<1>5. FilesFit'
  BY <1>2, <1>4 DEF LifeInv, FilesFit, Undisturbed
<1> QED
  BY <1>1, <1>3, <1>5 DEF LifeInv

LEMMA LifeStep == LifeInv /\ [LifeNext]_life => LifeInv'
<1> SUFFICES ASSUME LifeInv, [LifeNext]_life PROVE LifeInv'
  OBVIOUS
<1>1. ASSUME NEW e \in Execs, Start(e) PROVE LifeInv'
  BY <1>1, StartKeepsLifeInv
<1>2. ASSUME NEW e \in Execs, NEW n \in Execs, Hangup(e, n) PROVE LifeInv'
  BY <1>2, HangupKeepsLifeInv
<1>3. ASSUME NEW e \in Execs, StartFails(e) \/ Leave(e) PROVE LifeInv'
  <2>1. /\ first[e] \in Execs /\ e \in Process(first[e]) /\ Exit(first[e])
        /\ pidFile' \in {pidFile, NoExec}
        /\ descriptor' \in {descriptor} \cup Execs
        /\ cli' = cli
        /\ events' \in Nat
    BY <1>3 DEF StartFails, Leave, Event, Process, Alive, Starting, LifeInv, LifeTypeOK
  <2> QED
    BY <2>1, ExitKeepsLifeInv
<1>4. ASSUME NEW e \in Execs, Die(e) \/ (Terminate(e) /\ stage[e] # "ready") PROVE LifeInv'
  <2>1. Exit(e) /\ UNCHANGED <<pidFile, descriptor, cli>> /\ events' \in Nat
    BY <1>4 DEF Die, Terminate, Event, LifeInv, LifeTypeOK
  <2> QED
    BY <2>1, ExitKeepsLifeInv
<1>5. ASSUME NEW e \in Execs,
             WritePid(e) \/ BindControl(e) \/ Notice(e) \/ Drain(e) \/ Close(e)
               \/ (Terminate(e) /\ stage[e] = "ready")
      PROVE  LifeInv'
  BY <1>5, MoveKeepsLifeInv
<1>6. ASSUME NEW e \in Execs, ControlEnds(e) \/ AcceptFails(e) \/ RequestStop(e) PROVE LifeInv'
  BY <1>6, ControlKeepsLifeInv
<1>7. CASE UNCHANGED life
  BY <1>7 DEF life, LifeInv, LifeTypeOK, Apart, Generations, ControlFits, FilesFit,
              Alive, Undisturbed
<1> QED
  BY <1>1, <1>2, <1>3, <1>4, <1>5, <1>6, <1>7, StatusKeepsLifeInv DEF LifeNext, OwnStep

(* The daemon's life keeps its inductive invariant. *)
THEOREM LifeInvariant == LifeSpec => []LifeInv
  BY LifeInitially, LifeStep, PTL DEF LifeSpec

(* The PID file and the descriptor name the generation that serves, of any *)
(* number of generations and after any number of crashes.                  *)
THEOREM LifeIsReachable == LifeSpec => []Reachable
<1>1. LifeInv => Reachable
  BY DEF LifeInv, LifeTypeOK, FilesFit, ControlFits, Reachable, Undisturbed, Starting
<1> QED
  BY <1>1, LifeInvariant, PTL

(* What an orderly exit leaves behind names no daemon. *)
THEOREM LifeLeavesNothing == LifeSpec => []NothingLeftBehind
<1>1. LifeInv => NothingLeftBehind
  BY DEF LifeInv, LifeTypeOK, FilesFit, ControlFits, NothingLeftBehind, Undisturbed, Starting
<1> QED
  BY <1>1, LifeInvariant, PTL

-----------------------------------------------------------------------------
(* DaemonState implements DaemonLifecycle. *)
LEMMA StateStep == [Next]_vars => [LifeNext]_life
<1> SUFFICES ASSUME [Next]_vars PROVE [LifeNext]_life
  OBVIOUS
<1>1. ASSUME NEW e \in Execs, StartLoads(e) \/ Ends(e) \/ Lives(e) PROVE LifeNext
  BY <1>1 DEF StartLoads, Ends, Lives, LifeNext, OwnStep
<1>2. ASSUME NEW e \in Execs, NEW n \in Execs, HangupLoads(e, n) PROVE LifeNext
  BY <1>2 DEF HangupLoads, LifeNext
<1>3. CASE StatusCheck
  BY <1>3 DEF StatusCheck, LifeNext
<1>4. ASSUME NEW h \in Handlers, HandlerNext(h) PROVE [LifeNext]_life
  BY <1>4 DEF HandlerNext, Patch, Reload, StartProxy, StopProxy, StopDropped, Drained,
              UpdateRouter, Save, Publish, LifeNext
<1>5. ASSUME NEW t \in Tasks, TaskNext(t) PROVE [LifeNext]_life
  BY <1>5 DEF TaskNext, SetCircuit, Expire, WriteRow, LifeNext
<1>6. CASE Edit \/ (\E e \in Execs : Recommit(e)) \/ \E d \in Deadlines : Lapse(d)
  BY <1>6 DEF Edit, Lapse, Recommit, LifeNext
<1>7. CASE UNCHANGED vars
  BY <1>7 DEF vars
<1> QED
  BY <1>1, <1>2, <1>3, <1>4, <1>5, <1>6, <1>7 DEF Next

(* Whatever the daemon does with its configuration and its circuits, its   *)
(* life is one of DaemonLifecycle, and has its properties.                 *)
THEOREM StateImplementsLife == Spec => LifeSpec
<1>1. Init => LifeInit
  BY DEF Init
<1> QED
  BY <1>1, StateStep, PTL DEF Spec, LifeSpec

THEOREM StateIsReachable == Spec => []Reachable
  BY StateImplementsLife, LifeIsReachable, PTL

THEOREM StateLeavesNothing == Spec => []NothingLeftBehind
  BY StateImplementsLife, LifeLeavesNothing, PTL

THEOREM StateLifeInvariant == Spec => []LifeInv
  BY StateImplementsLife, LifeInvariant, PTL
=============================================================================
