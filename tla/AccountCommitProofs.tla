------------------------ MODULE AccountCommitProofs ------------------------
(***************************************************************************)
(* Proofs about AccountCommit: with one worker thread no decision of the   *)
(* user is lost, whatever the monitor, the reloader, failing writes and    *)
(* restarts do in between, unless requests overlap a probe by hand.        *)
(***************************************************************************)
EXTENDS AccountCommit, FiniteSetTheorems, TLAPS

OneWorker ==
  /\ Workers = 1
  /\ ManualProbes => \A g, h \in Handlers : g = h

USE WorkersAssumption, TasksAssumption, NoAccountAssumption, HandlersAssumption

-----------------------------------------------------------------------------
(* With one worker, a free worker means that nobody is at work. *)
LEMMA NobodyAtWork ==
  ASSUME OneWorker, WorkerFree
  PROVE  \A t \in Tasks : task[t].stage \notin Busy
<1> DEFINE S == {t \in Tasks : task[t].stage \in Busy}
<1>1. IsFiniteSet({Monitor, Reloader})
  <2>1. IsFiniteSet({Monitor})
    BY FS_Singleton
  <2>2. IsFiniteSet({Monitor} \cup {Reloader})
    BY <2>1, FS_AddElement
  <2>3. {Monitor} \cup {Reloader} = {Monitor, Reloader}
    OBVIOUS
  <2> QED BY <2>2, <2>3
<1>2. IsFiniteSet(Tasks)
  <2>1. IsFiniteSet(Handlers \cup {Monitor, Reloader})
    BY <1>1, FS_Union
  <2> QED BY <2>1 DEF Tasks
<1>3. IsFiniteSet(S)
  <2>1. S \subseteq Tasks
    OBVIOUS
  <2> QED BY <1>2, <2>1, FS_Subset
<1>4. Cardinality(S) \in Nat /\ Cardinality(S) < 1
  BY <1>3, FS_CardinalityType DEF OneWorker, WorkerFree
<1>5. S = {}
  BY <1>3, <1>4, FS_EmptySet
<1> QED BY <1>5

(* save_index does not touch the standing of an account. *)
LEMMA MirrorType ==
  ASSUME NEW account \in Account
  PROVE  Mirrored(account) \in Account /\ Mirrored(account).standing = account.standing
BY DEF Mirrored, Account, Status

(* Another status leaves the standing of an account alone. *)
LEMMA StatusType ==
  ASSUME NEW account \in Account, NEW s \in Status
  PROVE  /\ [account EXCEPT !.status = s] \in Account
         /\ [account EXCEPT !.status = s].standing = account.standing
BY DEF Account

(* A new task record has its type. *)
LEMMA IdleType == Idle \in Task
BY DEF Idle, Task, Nothing, Gone, Index, Account, Standing, Status, Busy

LEMMA InitInv == Init => CommitInv
<1> SUFFICES ASSUME Init PROVE CommitInv
  OBVIOUS
<1>1. Imported \in Account /\ Gone \in Account
  BY DEF Imported, Gone, Account, Standing, Status
<1>2. toml \in Index
  BY <1>1 DEF Init, Index
<1>3. TypeOK
  BY <1>2, IdleType DEF Init, TypeOK
<1>4. \A t \in Tasks : task[t].stage = "idle"
  BY DEF Init, Idle
<1> QED
  BY <1>3, <1>4 DEF CommitInv, OneTask, ProbesAgree, CloneAgrees, Underway,
     DecisionsKept, Busy, Init, Tasks

-----------------------------------------------------------------------------
(* A task that starts on a clone while nobody is at work: its clone agrees *)
(* with what the user was told, but for the account it decides on.         *)
LEMMA Starts ==
  ASSUME CommitInv, OneWorker, WorkerFree,
         NEW t \in Tasks, NEW q \in Task, Become(t, q),
         q.stage \in {"save", "replace"},
         q.decides # NoAccount => /\ t \in Handlers /\ q.stage = "save"
                                  /\ wish'[q.decides] = "none"
                                  /\ q.index[q.decides].standing = q.standing,
         UNCHANGED <<toml, db>>, memory' \in Index,
         notified' \in BOOLEAN, ids' \in SUBSET Accounts, chosen' \in SUBSET Accounts,
         wish' \in [Accounts -> Standing \cup {"none"}],
         \A a \in Accounts : wish'[a] # "none" =>
            /\ wish'[a] = wish[a]
            /\ memory'[a].standing = wish[a]
            /\ q.index[a].standing = wish[a]
  PROVE  CommitInv'
<1> USE DEF CommitInv
<1>1. \A u \in Tasks : task'[u] = IF u = t THEN q ELSE task[u]
  BY DEF Become, TypeOK
<1>2. \A u \in Tasks : u # t => task'[u].stage \notin Busy
  BY <1>1, NobodyAtWork
<1>3. TypeOK'
  BY DEF TypeOK, Become
<1>4. OneTask'
  BY <1>1, <1>2 DEF OneTask, Tasks
<1>5. CloneAgrees'
  BY <1>1, <1>2 DEF CloneAgrees
<1>6. Underway'
  BY <1>1, <1>2 DEF Underway
<1>7. DecisionsKept'
  BY DEF DecisionsKept
<1>8. ProbesAgree'
  BY <1>1 DEF ProbesAgree, Tasks
<1> QED BY <1>3, <1>4, <1>5, <1>6, <1>7, <1>8

(* A task at work that writes a copy and goes on, or ends. *)
LEMMA Goes ==
  ASSUME CommitInv, OneWorker, NEW t \in Tasks, task[t].stage \in Busy,
         NEW q \in Task, Become(t, q), q.stage # "probing",
         wish' = wish \/ t \in Handlers,
         toml' \in Index, db' \in Index, memory' \in Index,
         notified' \in BOOLEAN, ids' = ids, chosen' = chosen,
         wish' \in [Accounts -> Standing \cup {"none"}],
         DecisionsKept',
         q.stage \in Busy =>
           /\ \A a \in Accounts : wish'[a] # "none" => q.index[a].standing = wish'[a]
           /\ q.decides # NoAccount =>
                /\ t \in Handlers
                /\ wish'[q.decides] = "none"
                /\ q.index[q.decides].standing = q.standing
                /\ q.stage \in {"replace", "load", "publish"} =>
                     toml'[q.decides].standing = q.standing
                /\ q.stage \in {"load", "publish"} =>
                     db'[q.decides].standing = q.standing
  PROVE  CommitInv'
<1> USE DEF CommitInv
<1>1. \A u \in Tasks : task'[u] = IF u = t THEN q ELSE task[u]
  BY DEF Become, TypeOK
<1>2. \A u \in Tasks : u # t => task'[u].stage \notin Busy
  BY <1>1 DEF OneTask
<1>3. TypeOK'
  BY DEF TypeOK, Become
<1>4. OneTask'
  BY <1>1, <1>2 DEF OneTask, Tasks
<1>5. CloneAgrees'
  BY <1>1, <1>2 DEF CloneAgrees
<1>6. Underway'
  BY <1>1, <1>2 DEF Underway
<1>7. ProbesAgree'
  BY <1>1 DEF ProbesAgree, OneWorker, Tasks
<1> QED BY <1>3, <1>4, <1>5, <1>6, <1>7

(* A step that only ends a task, or starts one that is not at work. *)
LEMMA Rests ==
  ASSUME CommitInv, NEW t \in Tasks, NEW q \in Task, Become(t, q),
         q.stage \notin Busy,
         q.stage = "probing" /\ t \in Handlers =>
           /\ ManualProbes
           /\ \A a \in Accounts : wish[a] # "none" => q.index[a].standing = wish[a],
         UNCHANGED <<copies, ids, wish, chosen>>, notified' \in BOOLEAN
  PROVE  CommitInv'
<1> USE DEF CommitInv, copies
<1>1. \A u \in Tasks : task'[u] = IF u = t THEN q ELSE task[u]
  BY DEF Become, TypeOK
<1>2. TypeOK'
  BY DEF TypeOK, Become
<1>3. OneTask' /\ ProbesAgree'
  BY <1>1 DEF OneTask, ProbesAgree, Tasks
<1>4. CloneAgrees' /\ Underway' /\ DecisionsKept'
  BY <1>1 DEF CloneAgrees, Underway, DecisionsKept
<1> QED BY <1>2, <1>3, <1>4

-----------------------------------------------------------------------------
(* The steps that start a task. *)
LEMMA DecideStep ==
  ASSUME CommitInv, OneWorker, NEW h \in Handlers, NEW a \in Accounts, Decide(h, a)
  PROVE  CommitInv'
<1>1. PICK s \in Standing, status \in {memory[a].status, "unknown"} :
        /\ Become(h, [Idle EXCEPT !.stage = "save", !.decides = a, !.standing = s,
                       !.index = [memory EXCEPT ![a] =
                         IF s = "gone" THEN Gone ELSE [standing |-> s, status |-> status]]])
        /\ chosen' = IF s = "in" THEN chosen \cup {a} ELSE chosen
  BY DEF Decide
<1> DEFINE account == IF s = "gone" THEN Gone ELSE [standing |-> s, status |-> status]
<1> DEFINE m == [memory EXCEPT ![a] = account]
<1> DEFINE q == [Idle EXCEPT !.stage = "save", !.decides = a, !.standing = s, !.index = m]
<1>2. memory \in Index /\ memory[a] \in Account
  BY DEF CommitInv, TypeOK, Index
<1>3. account \in Account /\ account.standing = s
  <2>1. status \in Status
    BY <1>2 DEF Account, Status
  <2> QED BY <2>1 DEF Gone, Account, Standing, Status
<1> HIDE DEF account
<1>4. /\ m \in Index /\ m[a] = account
      /\ \A c \in Accounts : c # a => m[c] = memory[c]
  BY <1>2, <1>3 DEF Index
<1>5. Become(h, q)
  BY <1>1 DEF account
<1> HIDE DEF m
<1>6. /\ q \in Task /\ q.stage = "save" /\ q.decides = a
      /\ q.standing = s /\ q.index = m
  BY <1>4, IdleType DEF Task, Busy, Idle
<1> HIDE DEF q
<1>7. /\ WorkerFree /\ wish' = [wish EXCEPT ![a] = "none"]
      /\ UNCHANGED <<toml, db, memory, notified, ids>> /\ chosen' \in SUBSET Accounts
  BY <1>1 DEF Decide, copies, CommitInv, TypeOK
<1>8. /\ wish' \in [Accounts -> Standing \cup {"none"}] /\ wish'[a] = "none"
      /\ \A c \in Accounts : c # a => wish'[c] = wish[c]
  BY <1>7 DEF CommitInv, TypeOK
<1>9. \A c \in Accounts : wish'[c] # "none" =>
        /\ wish'[c] = wish[c]
        /\ memory'[c].standing = wish[c]
        /\ q.index[c].standing = wish[c]
  BY <1>4, <1>6, <1>7, <1>8 DEF CommitInv, DecisionsKept
<1>10. /\ memory' \in Index /\ notified' \in BOOLEAN /\ ids' \in SUBSET Accounts
       /\ h \in Tasks
  BY <1>7 DEF CommitInv, TypeOK, Tasks
<1>11. q.decides # NoAccount => /\ h \in Handlers /\ q.stage = "save"
                                /\ wish'[q.decides] = "none"
                                /\ q.index[q.decides].standing = q.standing
  BY <1>3, <1>4, <1>6, <1>8
<1> QED BY <1>5, <1>6, <1>7, <1>8, <1>9, <1>10, <1>11, Starts

LEMMA ImportStep ==
  ASSUME CommitInv, OneWorker, NEW h \in Handlers, NEW a \in Accounts, Import(h, a)
  PROVE  CommitInv'
<1> DEFINE m == [memory EXCEPT ![a] = Imported]
<1> DEFINE q == [Idle EXCEPT !.stage = "save", !.decides = a, !.index = m]
<1>1. /\ Become(h, q) /\ WorkerFree /\ wish' = [wish EXCEPT ![a] = "none"]
      /\ ids' = ids \cup {a} /\ UNCHANGED <<toml, db, memory, notified, chosen>>
  BY DEF Import, copies
<1>2. Imported \in Account /\ Imported.standing = "out"
  BY DEF Imported, Account, Standing, Status
<1>3. /\ m \in Index /\ m[a] = Imported
      /\ \A c \in Accounts : c # a => m[c] = memory[c]
  BY <1>2 DEF Index, CommitInv, TypeOK
<1> HIDE DEF m
<1>4. /\ q \in Task /\ q.stage = "save" /\ q.decides = a
      /\ q.standing = "out" /\ q.index = m
  BY <1>3, IdleType DEF Task, Busy, Idle
<1> HIDE DEF q
<1>5. /\ wish' \in [Accounts -> Standing \cup {"none"}] /\ wish'[a] = "none"
      /\ \A c \in Accounts : c # a => wish'[c] = wish[c]
  BY <1>1 DEF CommitInv, TypeOK
<1>6. \A c \in Accounts : wish'[c] # "none" =>
        /\ wish'[c] = wish[c]
        /\ memory'[c].standing = wish[c]
        /\ q.index[c].standing = wish[c]
  BY <1>1, <1>3, <1>4, <1>5 DEF CommitInv, DecisionsKept
<1>7. /\ memory' \in Index /\ notified' \in BOOLEAN /\ ids' \in SUBSET Accounts
      /\ chosen' \in SUBSET Accounts /\ h \in Tasks
  BY <1>1 DEF CommitInv, TypeOK, Tasks
<1>8. q.decides # NoAccount => /\ h \in Handlers /\ q.stage = "save"
                               /\ wish'[q.decides] = "none"
                               /\ q.index[q.decides].standing = q.standing
  BY <1>2, <1>3, <1>4, <1>5
<1> QED BY <1>1, <1>4, <1>5, <1>6, <1>7, <1>8, Starts

(* A clone in which nothing but the status is edited. *)
LEMMA StartsPlain ==
  ASSUME CommitInv, OneWorker, WorkerFree, NEW t \in Tasks, NEW m \in Index,
         NEW stage \in {"save", "replace"},
         Become(t, [Idle EXCEPT !.stage = stage, !.index = m]),
         UNCHANGED <<toml, db, ids, wish, chosen>>, notified' \in BOOLEAN, memory' \in Index,
         \A a \in Accounts : wish[a] # "none" =>
            m[a].standing = wish[a] /\ memory'[a].standing = wish[a]
  PROVE  CommitInv'
<1> DEFINE q == [Idle EXCEPT !.stage = stage, !.index = m]
<1>1. /\ q \in Task /\ q.stage = stage /\ q.decides = NoAccount /\ q.index = m
  BY IdleType DEF Task, Busy, Idle
<1>2. Become(t, q)
  OBVIOUS
<1> HIDE DEF q
<1>3. /\ ids' \in SUBSET Accounts /\ chosen' \in SUBSET Accounts
      /\ wish' \in [Accounts -> Standing \cup {"none"}]
  BY DEF CommitInv, TypeOK
<1> QED BY <1>1, <1>2, <1>3, Starts

LEMMA ReauthenticateStep ==
  ASSUME CommitInv, OneWorker, NEW h \in Handlers, NEW a \in Accounts, Reauthenticate(h, a)
  PROVE  CommitInv'
<1> DEFINE account == [memory[a] EXCEPT !.status = "unknown"]
<1> DEFINE m == [memory EXCEPT ![a] = account]
<1>1. Become(h, [Idle EXCEPT !.stage = "save", !.index = m])
  BY DEF Reauthenticate
<1>2. account \in Account /\ account.standing = memory[a].standing
  <2>1. memory[a] \in Account /\ "unknown" \in Status
    BY DEF CommitInv, TypeOK, Index, Status
  <2> QED BY <2>1, StatusType
<1> HIDE DEF account
<1>3. /\ m \in Index /\ m[a] = account
      /\ \A c \in Accounts : c # a => m[c] = memory[c]
  BY <1>2 DEF Index, CommitInv, TypeOK
<1> HIDE DEF m
<1>4. /\ WorkerFree /\ UNCHANGED <<toml, db, memory, notified, ids, wish, chosen>>
      /\ h \in Tasks /\ memory' \in Index /\ notified' \in BOOLEAN
  BY DEF Reauthenticate, copies, Tasks, CommitInv, TypeOK
<1>5. \A c \in Accounts : wish[c] # "none" =>
        m[c].standing = wish[c] /\ memory'[c].standing = wish[c]
  BY <1>2, <1>3, <1>4 DEF CommitInv, DecisionsKept
<1> QED BY <1>1, <1>3, <1>4, <1>5, StartsPlain

LEMMA ReloadNowStep ==
  ASSUME CommitInv, OneWorker, NEW h \in Handlers, ReloadNow(h)
  PROVE  CommitInv'
<1>1. /\ WorkerFree /\ UNCHANGED <<toml, db, memory, notified, ids, wish, chosen>>
      /\ h \in Tasks /\ memory' \in Index /\ notified' \in BOOLEAN /\ toml \in Index
      /\ Become(h, [Idle EXCEPT !.stage = "save", !.index = toml])
  BY DEF ReloadNow, copies, Tasks, CommitInv, TypeOK
<1>2. \A c \in Accounts : wish[c] # "none" =>
        toml[c].standing = wish[c] /\ memory'[c].standing = wish[c]
  BY <1>1 DEF CommitInv, DecisionsKept
<1> QED BY <1>1, <1>2, StartsPlain

LEMMA ReloadStep ==
  ASSUME CommitInv, OneWorker, Reload
  PROVE  CommitInv'
<1>1. /\ WorkerFree /\ UNCHANGED <<toml, db, memory, ids, wish, chosen>>
      /\ Reloader \in Tasks /\ memory' \in Index /\ notified' \in BOOLEAN /\ toml \in Index
      /\ Become(Reloader, [Idle EXCEPT !.stage = "replace", !.index = toml])
  BY DEF Reload, copies, Tasks, CommitInv, TypeOK
<1>2. \A c \in Accounts : wish[c] # "none" =>
        toml[c].standing = wish[c] /\ memory'[c].standing = wish[c]
  BY <1>1 DEF CommitInv, DecisionsKept
<1> QED BY <1>1, <1>2, StartsPlain

LEMMA MonitorProbeStep ==
  ASSUME CommitInv, NEW a \in Accounts, MonitorProbe(a)
  PROVE  CommitInv'
<1> DEFINE m == [Nothing EXCEPT ![a] = memory[a]]
<1> DEFINE q == [Idle EXCEPT !.stage = "probing", !.targets = {a}, !.index = m]
<1>1. Become(Monitor, q) /\ UNCHANGED <<copies, notified, ids, wish, chosen>>
  BY DEF MonitorProbe
<1>2. m \in Index
  BY DEF Nothing, Gone, Index, Account, Standing, Status, CommitInv, TypeOK
<1> HIDE DEF m
<1>3. q \in Task /\ q.stage = "probing"
  BY IdleType, <1>2 DEF Task, Idle
<1>4. q.stage \notin Busy /\ Monitor \in Tasks /\ notified' \in BOOLEAN
  BY <1>1, <1>3 DEF Busy, Tasks, CommitInv, TypeOK
<1> HIDE DEF q
<1> QED BY <1>1, <1>3, <1>4, Rests DEF copies

LEMMA StartProbeStep ==
  ASSUME CommitInv, NEW h \in Handlers, NEW targets \in SUBSET Accounts,
         StartProbe(h, targets)
  PROVE  CommitInv'
<1> DEFINE q == [Idle EXCEPT !.stage = "probing", !.index = memory, !.targets = targets]
<1>1. /\ Become(h, q) /\ ManualProbes
      /\ UNCHANGED <<copies, notified, ids, wish, chosen>>
  BY DEF StartProbe
<1>2. q \in Task /\ q.stage = "probing" /\ q.index = memory
  BY IdleType DEF Task, Idle, CommitInv, TypeOK
<1> HIDE DEF q
<1>3. q.stage \notin Busy /\ h \in Tasks /\ notified' \in BOOLEAN
  BY <1>1, <1>2 DEF Busy, Tasks, CommitInv, TypeOK
<1>4. \A a \in Accounts : wish[a] # "none" => q.index[a].standing = wish[a]
  BY <1>2 DEF CommitInv, DecisionsKept
<1> QED BY <1>1, <1>2, <1>3, <1>4, Rests DEF copies

LEMMA ProbedStep ==
  ASSUME CommitInv, OneWorker, NEW h \in Handlers, Probed(h)
  PROVE  CommitInv'
<1>1. PICK s \in [task[h].targets -> Status] :
        Become(h, [Idle EXCEPT !.stage = "save", !.index =
                    [a \in Accounts |->
                       IF a \in task[h].targets
                         THEN [task[h].index[a] EXCEPT !.status = s[a]]
                         ELSE task[h].index[a]]])
  BY DEF Probed
<1> DEFINE account(a) == [task[h].index[a] EXCEPT !.status = s[a]]
<1> DEFINE m == [a \in Accounts |->
                   IF a \in task[h].targets THEN account(a) ELSE task[h].index[a]]
<1>2. h \in Tasks /\ task[h].index \in Index /\ task[h].targets \subseteq Accounts
  BY DEF CommitInv, TypeOK, Task, Tasks
<1>3. \A a \in Accounts : task[h].index[a] \in Account
  BY <1>2 DEF Index
<1>4. \A a \in task[h].targets :
        account(a) \in Account /\ account(a).standing = task[h].index[a].standing
  <2> TAKE a \in task[h].targets
  <2>1. task[h].index[a] \in Account /\ s[a] \in Status
    BY <1>2, <1>3
  <2> QED BY <2>1, StatusType
<1>5. Become(h, [Idle EXCEPT !.stage = "save", !.index = m])
  BY <1>1
<1> HIDE DEF account
<1>6. m \in Index /\ \A a \in Accounts : m[a].standing = task[h].index[a].standing
  BY <1>3, <1>4 DEF Index
<1> HIDE DEF m
<1>7. /\ WorkerFree /\ UNCHANGED <<toml, db, memory, notified, ids, wish, chosen>>
      /\ memory' \in Index /\ notified' \in BOOLEAN /\ task[h].stage = "probing"
  BY DEF Probed, copies, CommitInv, TypeOK
<1>8. \A c \in Accounts : wish[c] # "none" =>
        m[c].standing = wish[c] /\ memory'[c].standing = wish[c]
  BY <1>6, <1>7 DEF CommitInv, DecisionsKept, ProbesAgree
<1> QED BY <1>2, <1>5, <1>6, <1>7, <1>8, StartsPlain

LEMMA AbandonStep ==
  ASSUME CommitInv, NEW h \in Handlers, Abandon(h)
  PROVE  CommitInv'
<1>1. /\ Become(h, Idle) /\ Idle \in Task /\ Idle.stage = "idle"
      /\ UNCHANGED <<copies, notified, ids, wish, chosen>> /\ h \in Tasks
  BY IdleType DEF Abandon, Done, Idle, Tasks
<1>2. Idle.stage \notin Busy /\ notified' \in BOOLEAN
  BY <1>1 DEF Busy, CommitInv, TypeOK
<1> QED BY <1>1, <1>2, Rests DEF copies

LEMMA MergeStep ==
  ASSUME CommitInv, OneWorker, Merge
  PROVE  CommitInv'
<1>1. PICK a \in task[Monitor].targets, s \in Status :
        \/ /\ memory' = [memory EXCEPT ![a] = [@ EXCEPT !.status = s]]
           /\ Become(Monitor, [Idle EXCEPT !.stage = "replace", !.index = memory'])
        \/ Done(Monitor) /\ UNCHANGED memory
  BY DEF Merge
<1>2. /\ WorkerFree /\ UNCHANGED <<toml, db, notified, ids, wish, chosen>>
      /\ Monitor \in Tasks /\ notified' \in BOOLEAN /\ a \in Accounts
  BY DEF Merge, Tasks, CommitInv, TypeOK, Task
<1>3. CASE /\ memory' = [memory EXCEPT ![a] = [@ EXCEPT !.status = s]]
           /\ Become(Monitor, [Idle EXCEPT !.stage = "replace", !.index = memory'])
  <2> DEFINE account == [memory[a] EXCEPT !.status = s]
  <2>1. account \in Account /\ account.standing = memory[a].standing
    <3>1. memory[a] \in Account
      BY <1>2 DEF CommitInv, TypeOK, Index
    <3> QED BY <3>1, StatusType
  <2>2. memory' = [memory EXCEPT ![a] = account]
    BY <1>3
  <2> HIDE DEF account
  <2>3. /\ memory' \in Index /\ memory'[a] = account
        /\ \A c \in Accounts : c # a => memory'[c] = memory[c]
    BY <1>2, <2>1, <2>2 DEF Index, CommitInv, TypeOK
  <2>4. \A c \in Accounts : wish[c] # "none" => memory'[c].standing = wish[c]
    BY <2>1, <2>3 DEF CommitInv, DecisionsKept
  <2> DEFINE m == memory'
  <2>5. m \in Index /\ Become(Monitor, [Idle EXCEPT !.stage = "replace", !.index = m])
    BY <1>3, <2>3
  <2>6. \A c \in Accounts : wish[c] # "none" =>
          m[c].standing = wish[c] /\ memory'[c].standing = wish[c]
    BY <2>4
  <2> HIDE DEF m
  <2> QED BY <1>2, <2>3, <2>5, <2>6, StartsPlain
<1>4. CASE Done(Monitor) /\ UNCHANGED memory
  <2>1. Become(Monitor, Idle) /\ Idle \in Task /\ Idle.stage = "idle"
    BY <1>4, IdleType DEF Done, Idle
  <2>2. Idle.stage \notin Busy
    BY <2>1 DEF Busy
  <2> QED BY <1>2, <1>4, <2>1, <2>2, Rests DEF copies
<1> QED BY <1>1, <1>3, <1>4

-----------------------------------------------------------------------------
(* The steps of a task at work. *)
LEMMA EndStep ==
  ASSUME CommitInv, OneWorker, NEW t \in Tasks, task[t].stage \in Busy, Done(t),
         wish' = wish \/ t \in Handlers,
         toml' \in Index, db' \in Index, memory' \in Index,
         notified' \in BOOLEAN, ids' = ids, chosen' = chosen,
         wish' \in [Accounts -> Standing \cup {"none"}],
         DecisionsKept'
  PROVE  CommitInv'
<1>1. Become(t, Idle) /\ Idle \in Task /\ Idle.stage = "idle"
  BY IdleType DEF Done, Idle
<1>2. Idle.stage \notin Busy /\ Idle.stage # "probing"
  BY <1>1 DEF Busy
<1> QED BY <1>1, <1>2, Goes

(* The file is written from the clone of the task. *)
LEMMA SavesIndex ==
  ASSUME CommitInv, NEW t \in Tasks, task[t].stage \in Busy, SaveIndex(task[t].index)
  PROVE  /\ toml' \in Index
         /\ notified' = TRUE
         /\ \A a \in Accounts : toml'[a].standing = task[t].index[a].standing
         /\ \A a \in Accounts : wish[a] # "none" => toml'[a].standing = wish[a]
<1>1. task[t].index \in Index
  BY DEF CommitInv, TypeOK, Task
<1>2. \A a \in Accounts : task[t].index[a] \in Account
  BY <1>1 DEF Index
<1>3. toml' = [a \in Accounts |-> Mirrored(task[t].index[a])] /\ notified' = TRUE
  BY DEF SaveIndex
<1>4. \A a \in Accounts :
        /\ Mirrored(task[t].index[a]) \in Account
        /\ Mirrored(task[t].index[a]).standing = task[t].index[a].standing
  BY <1>2, MirrorType
<1>5. toml' \in Index
  BY <1>3, <1>4 DEF Index
<1>6. \A a \in Accounts : toml'[a].standing = task[t].index[a].standing
  BY <1>3, <1>4
<1> QED BY <1>3, <1>5, <1>6 DEF CommitInv, CloneAgrees

LEMMA SaveTomlStep ==
  ASSUME CommitInv, OneWorker, NEW h \in Handlers, SaveToml(h)
  PROVE  CommitInv'
<1>1. /\ task[h].stage = "save" /\ task[h].stage \in Busy /\ h \in Tasks
      /\ UNCHANGED <<db, memory, ids, wish, chosen>> /\ db' \in Index /\ memory' \in Index
      /\ wish' \in [Accounts -> Standing \cup {"none"}]
  BY DEF SaveToml, Busy, Tasks, CommitInv, TypeOK
<1>2. CASE SaveIndex(task[h].index) /\ Goto(h, "replace")
  <2> DEFINE q == [task[h] EXCEPT !.stage = "replace"]
  <2>1. Become(h, q)
    BY <1>2 DEF Goto
  <2>2. /\ q \in Task /\ q.stage = "replace" /\ q.index = task[h].index
        /\ q.decides = task[h].decides /\ q.standing = task[h].standing
    BY <1>1 DEF CommitInv, TypeOK, Task, Busy
  <2> HIDE DEF q
  <2>3. /\ toml' \in Index /\ notified' \in BOOLEAN
        /\ \A a \in Accounts : toml'[a].standing = task[h].index[a].standing
        /\ \A a \in Accounts : wish[a] # "none" => toml'[a].standing = wish[a]
    BY <1>1, <1>2, SavesIndex
  <2>4. DecisionsKept'
    BY <1>1, <2>3 DEF CommitInv, DecisionsKept
  <2>5. \A a \in Accounts : wish'[a] # "none" => q.index[a].standing = wish'[a]
    BY <1>1, <2>2 DEF CommitInv, CloneAgrees
  <2>6. q.decides # NoAccount =>
          /\ q.decides \in Accounts
          /\ wish'[q.decides] = "none"
          /\ q.index[q.decides].standing = q.standing
    BY <1>1, <2>2 DEF CommitInv, Underway, TypeOK, Task
  <2>7. q.decides # NoAccount => toml'[q.decides].standing = q.standing
    BY <2>2, <2>3, <2>6
  <2> QED BY <1>1, <2>1, <2>2, <2>3, <2>4, <2>5, <2>6, <2>7, Goes
<1>3. CASE Done(h) /\ UNCHANGED <<toml, notified>>
  <2>1. DecisionsKept' /\ toml' \in Index /\ notified' \in BOOLEAN
    BY <1>1, <1>3 DEF CommitInv, DecisionsKept, TypeOK
  <2> QED BY <1>1, <1>3, <2>1, EndStep
<1> QED BY <1>2, <1>3 DEF SaveToml

LEMMA ReplaceStoreStep ==
  ASSUME CommitInv, OneWorker, NEW t \in Tasks, ReplaceStore(t)
  PROVE  CommitInv'
<1>1. /\ task[t].stage = "replace" /\ task[t].stage \in Busy
      /\ UNCHANGED <<toml, memory, notified, ids, wish, chosen>>
      /\ toml' \in Index /\ memory' \in Index /\ notified' \in BOOLEAN
      /\ wish' \in [Accounts -> Standing \cup {"none"}]
      /\ task[t].index \in Index
  BY DEF ReplaceStore, Busy, CommitInv, TypeOK, Task
<1>2. ASSUME NEW stage \in {"mirror", "load"}, db' = task[t].index, Goto(t, stage),
             stage = "load" \/ t = Monitor
      PROVE  CommitInv'
  <2> DEFINE q == [task[t] EXCEPT !.stage = stage]
  <2>1. Become(t, q)
    BY <1>2 DEF Goto
  <2>2. /\ q \in Task /\ q.stage = stage /\ q.index = task[t].index
        /\ q.decides = task[t].decides /\ q.standing = task[t].standing
    BY DEF CommitInv, TypeOK, Task, Busy
  <2> HIDE DEF q
  <2>3. \A a \in Accounts : wish'[a] # "none" => q.index[a].standing = wish'[a]
    BY <1>1, <2>2 DEF CommitInv, CloneAgrees
  <2>4. DecisionsKept'
    BY <1>1, <1>2, <2>2, <2>3 DEF CommitInv, DecisionsKept
  <2>5. q.decides # NoAccount =>
          /\ t \in Handlers
          /\ wish'[q.decides] = "none"
          /\ q.index[q.decides].standing = q.standing
          /\ toml'[q.decides].standing = q.standing
          /\ db'[q.decides].standing = q.standing
    BY <1>1, <1>2, <2>2 DEF CommitInv, Underway
  <2>6. q.stage # "probing" /\ db' \in Index
    BY <1>1, <1>2, <2>2
  <2> QED BY <1>1, <2>1, <2>2, <2>3, <2>4, <2>5, <2>6, Goes
<1>3. CASE Done(t) /\ UNCHANGED db
  <2>1. DecisionsKept' /\ db' \in Index
    BY <1>1, <1>3 DEF CommitInv, DecisionsKept, TypeOK
  <2> QED BY <1>1, <1>3, <2>1, EndStep
<1> QED BY <1>2, <1>3 DEF ReplaceStore

LEMMA LoadBackStep ==
  ASSUME CommitInv, OneWorker, NEW t \in Tasks, LoadBack(t)
  PROVE  CommitInv'
<1> DEFINE q == [task[t] EXCEPT !.stage = "publish", !.index = db]
<1>1. /\ task[t].stage = "load" /\ task[t].stage \in Busy
      /\ UNCHANGED <<toml, db, memory, notified, ids, wish, chosen>>
      /\ toml' \in Index /\ db' \in Index /\ memory' \in Index /\ notified' \in BOOLEAN
      /\ wish' \in [Accounts -> Standing \cup {"none"}]
  BY DEF LoadBack, copies, Busy, CommitInv, TypeOK
<1>2. /\ q \in Task /\ q.stage = "publish" /\ q.index = db
      /\ q.decides = task[t].decides /\ q.standing = task[t].standing
  BY DEF CommitInv, TypeOK, Task, Busy
<1>3. Become(t, q) \/ Done(t)
  BY DEF LoadBack
<1> HIDE DEF q
<1>4. DecisionsKept' /\ \A a \in Accounts : wish'[a] # "none" => q.index[a].standing = wish'[a]
  BY <1>1, <1>2 DEF CommitInv, DecisionsKept
<1>5. q.decides # NoAccount =>
        /\ t \in Handlers
        /\ wish'[q.decides] = "none"
        /\ q.index[q.decides].standing = q.standing
        /\ toml'[q.decides].standing = q.standing
        /\ db'[q.decides].standing = q.standing
  BY <1>1, <1>2 DEF CommitInv, Underway
<1>6. CASE Become(t, q)
  BY <1>1, <1>2, <1>4, <1>5, <1>6, Goes
<1>7. CASE Done(t)
  BY <1>1, <1>4, <1>7, EndStep
<1> QED BY <1>3, <1>6, <1>7

LEMMA PublishStep ==
  ASSUME CommitInv, OneWorker, NEW t \in Tasks, Publish(t)
  PROVE  CommitInv'
<1>1. /\ task[t].stage = "publish" /\ task[t].stage \in Busy
      /\ memory' = task[t].index /\ UNCHANGED <<toml, db, notified, ids, chosen>>
      /\ toml' \in Index /\ db' \in Index /\ memory' \in Index /\ notified' \in BOOLEAN
      /\ Done(t) /\ wish' = Acknowledged(t)
      /\ task[t].decides \in Accounts \cup {NoAccount} /\ task[t].standing \in Standing
  BY DEF Publish, Busy, CommitInv, TypeOK, Task
<1>2. \/ wish' = wish
      \/ /\ task[t].decides \in Accounts
         /\ wish' = [wish EXCEPT ![task[t].decides] = task[t].standing]
  BY <1>1 DEF Acknowledged
<1>5. wish' = wish \/ t \in Handlers
  BY <1>1, <1>2 DEF CommitInv, Underway, Acknowledged
<1>3. wish' \in [Accounts -> Standing \cup {"none"}]
  BY <1>1, <1>2 DEF CommitInv, TypeOK
<1>4. DecisionsKept'
  <2> SUFFICES ASSUME NEW a \in Accounts, wish'[a] # "none"
               PROVE  /\ toml'[a].standing = wish'[a]
                      /\ db'[a].standing = wish'[a]
                      /\ memory'[a].standing = wish'[a]
    BY DEF DecisionsKept
  <2>1. CASE wish'[a] = wish[a] /\ wish[a] # "none"
    BY <1>1, <2>1 DEF CommitInv, DecisionsKept, CloneAgrees
  <2>2. CASE wish'[a] # wish[a]
    <3>1. a = task[t].decides /\ wish'[a] = task[t].standing
      BY <1>2, <2>2 DEF CommitInv, TypeOK
    <3> QED BY <1>1, <3>1 DEF CommitInv, Underway
  <2> QED BY <2>1, <2>2
<1> QED BY <1>1, <1>3, <1>4, <1>5, EndStep

LEMMA KeepMirrorStep ==
  ASSUME CommitInv, OneWorker, KeepMirror
  PROVE  CommitInv'
<1>1. /\ Monitor \in Tasks /\ task[Monitor].stage \in Busy /\ Done(Monitor)
      /\ UNCHANGED <<db, memory, ids, wish, chosen>> /\ db' \in Index /\ memory' \in Index
      /\ wish' \in [Accounts -> Standing \cup {"none"}]
  BY DEF KeepMirror, Busy, Tasks, CommitInv, TypeOK
<1>2. CASE SaveIndex(task[Monitor].index)
  <2>1. /\ toml' \in Index /\ notified' \in BOOLEAN
        /\ \A a \in Accounts : wish[a] # "none" => toml'[a].standing = wish[a]
    BY <1>1, <1>2, SavesIndex
  <2>2. DecisionsKept'
    BY <1>1, <2>1 DEF CommitInv, DecisionsKept
  <2> QED BY <1>1, <2>1, <2>2, EndStep
<1>3. CASE UNCHANGED <<toml, notified>>
  <2>1. DecisionsKept' /\ toml' \in Index /\ notified' \in BOOLEAN
    BY <1>1, <1>3 DEF CommitInv, DecisionsKept, TypeOK
  <2> QED BY <1>1, <2>1, EndStep
<1> QED BY <1>2, <1>3 DEF KeepMirror

LEMMA RestartStep ==
  ASSUME CommitInv, Restart
  PROVE  CommitInv'
<1>1. /\ db' = Reconciled /\ memory' = Reconciled /\ notified' = FALSE
      /\ task' = [t \in Tasks |-> Idle] /\ UNCHANGED <<toml, ids, wish, chosen>>
  BY DEF Restart
<1>2. toml \in Index /\ db \in Index
  BY DEF CommitInv, TypeOK
<1>3. Reconciled \in Index
  BY <1>2 DEF Reconciled, Index
<1>4. TypeOK'
  BY <1>1, <1>3, IdleType DEF CommitInv, TypeOK
<1>5. \A t \in Tasks : task'[t].stage = "idle"
  BY <1>1 DEF Idle
<1>6. OneTask' /\ ProbesAgree' /\ CloneAgrees' /\ Underway'
  BY <1>5 DEF OneTask, ProbesAgree, CloneAgrees, Underway, Busy, Tasks
<1>7. \A a \in Accounts : wish[a] # "none" => Reconciled[a].standing = wish[a]
  BY DEF Reconciled, CommitInv, DecisionsKept
<1>8. DecisionsKept'
  BY <1>1, <1>7 DEF CommitInv, DecisionsKept
<1> QED BY <1>4, <1>6, <1>8 DEF CommitInv

LEMMA TouchStep ==
  ASSUME CommitInv, Touch \/ UNCHANGED vars
  PROVE  CommitInv'
<1>1. UNCHANGED <<toml, db, memory, ids, task, wish, chosen>> /\ notified' \in BOOLEAN
  BY DEF Touch, copies, vars, CommitInv, TypeOK
<1> QED BY <1>1 DEF CommitInv, TypeOK, OneTask, ProbesAgree, CloneAgrees, Underway,
           DecisionsKept

-----------------------------------------------------------------------------
LEMMA NextInv ==
  ASSUME CommitInv, OneWorker, [Next]_vars
  PROVE  CommitInv'
<1>1. ASSUME NEW h \in Handlers, HandlerNext(h)
      PROVE  CommitInv'
  <2>1. ASSUME NEW a \in Accounts, Decide(h, a) \/ Import(h, a) \/ Reauthenticate(h, a)
        PROVE  CommitInv'
    BY <2>1, DecideStep, ImportStep, ReauthenticateStep
  <2>2. ASSUME NEW targets \in SUBSET Accounts, StartProbe(h, targets)
        PROVE  CommitInv'
    BY <2>2, StartProbeStep
  <2>3. ASSUME Probed(h) \/ Abandon(h)
        PROVE  CommitInv'
    BY <2>3, ProbedStep, AbandonStep
  <2>4. ASSUME ReloadNow(h) PROVE CommitInv'
    BY <2>4, ReloadNowStep
  <2>5. ASSUME SaveToml(h) PROVE CommitInv'
    BY <2>5, SaveTomlStep
  <2> QED BY <1>1, <2>1, <2>2, <2>3, <2>4, <2>5 DEF HandlerNext
<1>2. ASSUME NEW t \in Tasks, ReplaceStore(t) \/ LoadBack(t) \/ Publish(t)
      PROVE  CommitInv'
  BY <1>2, ReplaceStoreStep, LoadBackStep, PublishStep
<1>3. ASSUME MonitorNext PROVE CommitInv'
  BY <1>3, MonitorProbeStep, MergeStep, KeepMirrorStep DEF MonitorNext
<1>4. ASSUME Reload PROVE CommitInv'
  BY <1>4, ReloadStep
<1>5. ASSUME Touch \/ UNCHANGED vars PROVE CommitInv'
  BY <1>5, TouchStep
<1>6. ASSUME Restart PROVE CommitInv'
  BY <1>6, RestartStep
<1> QED BY <1>1, <1>2, <1>3, <1>4, <1>5, <1>6 DEF Next

(* On one worker the invariant of the three copies holds, for every number *)
(* of accounts and, without manual probes, of concurrent requests.         *)
THEOREM CommitInvariant == OneWorker => (Spec => []CommitInv)
<1> SUFFICES ASSUME OneWorker PROVE Spec => []CommitInv
  OBVIOUS
<1>1. Init => CommitInv
  BY InitInv
<1>2. CommitInv /\ [Next]_vars => CommitInv'
  BY NextInv
<1> QED BY <1>1, <1>2, PTL DEF Spec

(* On one worker every acknowledged decision of the user (POST pool, PATCH, *)
(* DELETE, import) is in the file, the store and the memory until the next *)
(* one, through manual probes too if requests do not overlap them.         *)
THEOREM OneWorkerKeepsDecisions == OneWorker => (Spec => []DecisionsKept)
<1> SUFFICES ASSUME OneWorker PROVE Spec => []DecisionsKept
  OBVIOUS
<1>1. CommitInv => DecisionsKept
  BY DEF CommitInv
<1> QED BY CommitInvariant, <1>1, PTL

-----------------------------------------------------------------------------
(* Accounts are opt-in, for any number of workers.  An index that has only *)
(* accounts in the pool that the user put there:                           *)
Chosen(index) == \A a \in Accounts \ chosen : index[a].standing # "in"

LEMMA ConsentMeans ==
  ASSUME ConsentInv
  PROVE  /\ TypeOK
         /\ Chosen(toml) /\ Chosen(db) /\ Chosen(memory)
         /\ \A t \in Tasks : task[t] \in Task /\ task[t].index \in Index /\ Chosen(task[t].index)
<1>1. TypeOK
  BY DEF ConsentInv
<1>2. \A t \in Tasks : task[t] \in Task /\ task[t].index \in Index
  BY <1>1 DEF TypeOK, Task
<1>3. \A t \in Tasks : Chosen(task[t].index)
  BY DEF ConsentInv, ClonesOptIn, Chosen
<1>4. Chosen(toml) /\ Chosen(db) /\ Chosen(memory)
  BY DEF ConsentInv, OptIn, Chosen
<1> QED BY <1>1, <1>2, <1>3, <1>4

LEMMA InitConsent == Init => ConsentInv
<1> SUFFICES ASSUME Init PROVE ConsentInv
  OBVIOUS
<1>1. TypeOK
  BY InitInv DEF CommitInv
<1>2. \A a \in Accounts : toml[a].standing # "in" /\ Nothing[a].standing # "in"
  BY DEF Init, Imported, Gone, Nothing
<1>3. \A t \in Tasks : task[t].index = Nothing
  BY DEF Init, Idle
<1> QED BY <1>1, <1>2, <1>3 DEF ConsentInv, OptIn, ClonesOptIn, Init

(* A task becomes another, whose clone is opt-in like the copies. *)
LEMMA Consents ==
  ASSUME ConsentInv, NEW t \in Tasks, NEW q \in Task, Become(t, q),
         toml' \in Index, db' \in Index, memory' \in Index,
         notified' \in BOOLEAN, ids' \in SUBSET Accounts,
         wish' \in [Accounts -> Standing \cup {"none"}],
         chosen' \in SUBSET Accounts, chosen \subseteq chosen',
         \A a \in Accounts \ chosen' :
           /\ toml'[a].standing # "in"
           /\ db'[a].standing # "in"
           /\ memory'[a].standing # "in"
           /\ q.index[a].standing # "in"
  PROVE  ConsentInv'
<1>1. \A u \in Tasks : task'[u] = IF u = t THEN q ELSE task[u]
  BY DEF Become, ConsentInv, TypeOK
<1>2. TypeOK'
  BY DEF ConsentInv, TypeOK, Become
<1>3. OptIn'
  BY DEF OptIn
<1>4. ClonesOptIn'
  BY <1>1 DEF ConsentInv, ClonesOptIn
<1> QED BY <1>2, <1>3, <1>4 DEF ConsentInv

(* Most steps leave the choices and the index they work on as it was. *)
LEMMA ConsentsPlain ==
  ASSUME ConsentInv, NEW t \in Tasks, NEW q \in Task, Become(t, q),
         UNCHANGED <<copies, ids, wish, chosen>>, notified' \in BOOLEAN,
         Chosen(q.index)
  PROVE  ConsentInv'
<1>1. /\ TypeOK /\ Chosen(toml) /\ Chosen(db) /\ Chosen(memory)
      /\ UNCHANGED <<toml, db, memory>>
  BY ConsentMeans DEF copies
<1> QED BY <1>1, Consents DEF TypeOK, Chosen

LEMMA EndConsent ==
  ASSUME ConsentInv, NEW t \in Tasks, Done(t),
         toml' \in Index, db' \in Index, memory' \in Index,
         notified' \in BOOLEAN, UNCHANGED <<ids, chosen>>,
         wish' \in [Accounts -> Standing \cup {"none"}],
         Chosen(toml'), Chosen(db'), Chosen(memory')
  PROVE  ConsentInv'
<1>1. Become(t, Idle) /\ Idle \in Task /\ Idle.index = Nothing
  BY IdleType DEF Done, Idle
<1>2. \A a \in Accounts : Nothing[a].standing # "in"
  BY DEF Nothing, Gone
<1>3. ids' \in SUBSET Accounts /\ chosen' \in SUBSET Accounts
  BY DEF ConsentInv, TypeOK
<1> QED BY <1>1, <1>2, <1>3, Consents DEF Chosen

(* The steps of a handler before its first write. *)
LEMMA DecideConsent ==
  ASSUME ConsentInv, NEW h \in Handlers, NEW a \in Accounts, Decide(h, a)
  PROVE  ConsentInv'
<1>1. PICK s \in Standing, status \in {memory[a].status, "unknown"} :
        /\ Become(h, [Idle EXCEPT !.stage = "save", !.decides = a, !.standing = s,
                       !.index = [memory EXCEPT ![a] =
                         IF s = "gone" THEN Gone ELSE [standing |-> s, status |-> status]]])
        /\ chosen' = IF s = "in" THEN chosen \cup {a} ELSE chosen
  BY DEF Decide
<1> DEFINE account == IF s = "gone" THEN Gone ELSE [standing |-> s, status |-> status]
<1> DEFINE m == [memory EXCEPT ![a] = account]
<1> DEFINE q == [Idle EXCEPT !.stage = "save", !.decides = a, !.standing = s, !.index = m]
<1>2. TypeOK /\ memory \in Index /\ memory[a] \in Account
  BY ConsentMeans DEF TypeOK, Index
<1>3. account \in Account /\ account.standing = s
  <2>1. status \in Status
    BY <1>2 DEF Account, Status
  <2> QED BY <2>1 DEF Gone, Account, Standing, Status
<1>4. Become(h, q)
  BY <1>1
<1> HIDE DEF account
<1>5. /\ m \in Index /\ m[a] = account
      /\ \A c \in Accounts : c # a => m[c] = memory[c]
  BY <1>2, <1>3 DEF Index
<1> HIDE DEF m
<1>6. q \in Task /\ q.index = m
  BY <1>5, IdleType DEF Task, Busy, Idle
<1> HIDE DEF q
<1>7. /\ UNCHANGED <<toml, db, memory, notified, ids>> /\ h \in Tasks
      /\ wish' \in [Accounts -> Standing \cup {"none"}]
  BY <1>2 DEF Decide, copies, Tasks, TypeOK
<1>8. /\ chosen' \in SUBSET Accounts /\ chosen \subseteq chosen'
      /\ s = "in" => a \in chosen'
  BY <1>1, <1>2 DEF TypeOK
<1>9. Chosen(toml) /\ Chosen(db) /\ Chosen(memory)
  BY ConsentMeans
<1>10. \A c \in Accounts \ chosen' : q.index[c].standing # "in"
  BY <1>3, <1>5, <1>6, <1>8, <1>9 DEF Chosen
<1> QED BY <1>2, <1>4, <1>6, <1>7, <1>8, <1>9, <1>10, Consents DEF Chosen, TypeOK

LEMMA ImportConsent ==
  ASSUME ConsentInv, NEW h \in Handlers, NEW a \in Accounts, Import(h, a)
  PROVE  ConsentInv'
<1> DEFINE m == [memory EXCEPT ![a] = Imported]
<1> DEFINE q == [Idle EXCEPT !.stage = "save", !.decides = a, !.index = m]
<1>1. /\ Become(h, q) /\ wish' = [wish EXCEPT ![a] = "none"] /\ h \in Tasks
      /\ ids' = ids \cup {a} /\ UNCHANGED <<toml, db, memory, notified, chosen>>
  BY DEF Import, copies, Tasks
<1>2. TypeOK /\ Chosen(toml) /\ Chosen(db) /\ Chosen(memory)
  BY ConsentMeans
<1>3. Imported \in Account /\ Imported.standing = "out"
  BY DEF Imported, Account, Standing, Status
<1>4. m \in Index /\ Chosen(m)
  BY <1>2, <1>3 DEF Index, TypeOK, Chosen
<1> HIDE DEF m
<1>5. q \in Task /\ q.index = m
  BY <1>4, IdleType DEF Task, Busy, Idle
<1> HIDE DEF q
<1>6. /\ wish' \in [Accounts -> Standing \cup {"none"}] /\ ids' \in SUBSET Accounts
  BY <1>1, <1>2 DEF TypeOK
<1> QED BY <1>1, <1>2, <1>4, <1>5, <1>6, Consents DEF Chosen, TypeOK

LEMMA ReauthenticateConsent ==
  ASSUME ConsentInv, NEW h \in Handlers, NEW a \in Accounts, Reauthenticate(h, a)
  PROVE  ConsentInv'
<1> DEFINE account == [memory[a] EXCEPT !.status = "unknown"]
<1> DEFINE m == [memory EXCEPT ![a] = account]
<1> DEFINE q == [Idle EXCEPT !.stage = "save", !.index = m]
<1>1. /\ Become(h, q) /\ h \in Tasks
      /\ UNCHANGED <<copies, ids, wish, chosen, notified>>
  BY DEF Reauthenticate, Tasks
<1>2. TypeOK /\ Chosen(memory) /\ memory \in Index /\ memory[a] \in Account
  BY ConsentMeans DEF TypeOK, Index
<1>3. account \in Account /\ account.standing = memory[a].standing
  BY <1>2, StatusType DEF Status
<1> HIDE DEF account
<1>4. m \in Index /\ Chosen(m)
  BY <1>2, <1>3 DEF Index, Chosen
<1> HIDE DEF m
<1>5. q \in Task /\ q.index = m
  BY <1>4, IdleType DEF Task, Busy, Idle
<1> HIDE DEF q
<1> QED BY <1>1, <1>2, <1>4, <1>5, ConsentsPlain DEF TypeOK

LEMMA StartProbeConsent ==
  ASSUME ConsentInv, NEW h \in Handlers, NEW targets \in SUBSET Accounts,
         StartProbe(h, targets)
  PROVE  ConsentInv'
<1> DEFINE q == [Idle EXCEPT !.stage = "probing", !.index = memory, !.targets = targets]
<1>1. /\ Become(h, q) /\ h \in Tasks
      /\ UNCHANGED <<copies, ids, wish, chosen, notified>>
  BY DEF StartProbe, Tasks
<1>2. TypeOK /\ Chosen(memory)
  BY ConsentMeans
<1>3. q \in Task /\ q.index = memory
  BY <1>2, IdleType DEF Task, Idle, TypeOK
<1> HIDE DEF q
<1> QED BY <1>1, <1>2, <1>3, ConsentsPlain DEF TypeOK

LEMMA ProbedConsent ==
  ASSUME ConsentInv, NEW h \in Handlers, Probed(h)
  PROVE  ConsentInv'
<1>1. PICK s \in [task[h].targets -> Status] :
        Become(h, [Idle EXCEPT !.stage = "save", !.index =
                    [a \in Accounts |->
                       IF a \in task[h].targets
                         THEN [task[h].index[a] EXCEPT !.status = s[a]]
                         ELSE task[h].index[a]]])
  BY DEF Probed
<1> DEFINE account(a) == [task[h].index[a] EXCEPT !.status = s[a]]
<1> DEFINE m == [a \in Accounts |->
                   IF a \in task[h].targets THEN account(a) ELSE task[h].index[a]]
<1> DEFINE q == [Idle EXCEPT !.stage = "save", !.index = m]
<1>2. /\ h \in Tasks /\ TypeOK /\ task[h].index \in Index /\ Chosen(task[h].index)
      /\ task[h].targets \subseteq Accounts
  BY ConsentMeans DEF Task, Tasks
<1>3. \A a \in Accounts : task[h].index[a] \in Account
  BY <1>2 DEF Index
<1>4. \A a \in task[h].targets :
        account(a) \in Account /\ account(a).standing = task[h].index[a].standing
  <2> TAKE a \in task[h].targets
  <2>1. task[h].index[a] \in Account /\ s[a] \in Status
    BY <1>2, <1>3
  <2> QED BY <2>1, StatusType
<1>5. Become(h, q)
  BY <1>1
<1> HIDE DEF account
<1>6. m \in Index /\ Chosen(m)
  BY <1>2, <1>3, <1>4 DEF Index, Chosen
<1> HIDE DEF m
<1>7. q \in Task /\ q.index = m
  BY <1>6, IdleType DEF Task, Busy, Idle
<1> HIDE DEF q
<1>8. UNCHANGED <<copies, ids, wish, chosen, notified>>
  BY DEF Probed
<1> QED BY <1>2, <1>5, <1>6, <1>7, <1>8, ConsentsPlain DEF TypeOK

(* Two tasks start on the file. *)
LEMMA ReloadConsent ==
  ASSUME ConsentInv, (\E h \in Handlers : ReloadNow(h)) \/ Reload
  PROVE  ConsentInv'
<1> DEFINE q(stage) == [Idle EXCEPT !.stage = stage, !.index = toml]
<1>1. PICK t \in Tasks, stage \in {"save", "replace"} : Become(t, q(stage))
  BY DEF ReloadNow, Reload, Tasks
<1>2. UNCHANGED <<copies, ids, wish, chosen>> /\ notified' \in BOOLEAN
  BY ConsentMeans DEF ReloadNow, Reload, TypeOK
<1>3. TypeOK /\ Chosen(toml)
  BY ConsentMeans
<1>4. q(stage) \in Task /\ q(stage).index = toml
  BY <1>3, IdleType DEF Task, Busy, Idle, TypeOK
<1> HIDE DEF q
<1> QED BY <1>1, <1>2, <1>3, <1>4, ConsentsPlain

(* The steps that write a copy, read one back, or end. *)
LEMMA GotoConsent ==
  ASSUME ConsentInv, NEW t \in Tasks,
         NEW stage \in {"replace", "load", "mirror"}, Goto(t, stage),
         toml' \in Index, db' \in Index, Chosen(toml'), Chosen(db'),
         UNCHANGED <<memory, ids, wish, chosen>>, notified' \in BOOLEAN
  PROVE  ConsentInv'
<1> DEFINE q == [task[t] EXCEPT !.stage = stage]
<1>1. TypeOK /\ task[t] \in Task /\ Chosen(task[t].index) /\ Chosen(memory)
  BY ConsentMeans
<1>2. Become(t, q)
  BY DEF Goto
<1>3. q \in Task /\ q.index = task[t].index
  BY <1>1 DEF Task, Busy
<1> HIDE DEF q
<1> QED BY <1>1, <1>2, <1>3, Consents DEF Chosen, TypeOK

LEMMA SaveIndexConsent ==
  ASSUME ConsentInv, NEW t \in Tasks, SaveIndex(task[t].index)
  PROVE  toml' \in Index /\ Chosen(toml') /\ notified' = TRUE
<1>1. task[t].index \in Index /\ Chosen(task[t].index)
  BY ConsentMeans
<1>2. \A a \in Accounts : task[t].index[a] \in Account
  BY <1>1 DEF Index
<1>3. toml' = [a \in Accounts |-> Mirrored(task[t].index[a])] /\ notified' = TRUE
  BY DEF SaveIndex
<1>4. \A a \in Accounts :
        /\ Mirrored(task[t].index[a]) \in Account
        /\ Mirrored(task[t].index[a]).standing = task[t].index[a].standing
  BY <1>2, MirrorType
<1> QED BY <1>1, <1>3, <1>4 DEF Index, Chosen

LEMMA SaveTomlConsent ==
  ASSUME ConsentInv, NEW h \in Handlers, SaveToml(h)
  PROVE  ConsentInv'
<1>1. /\ h \in Tasks /\ UNCHANGED <<db, memory, ids, wish, chosen>>
      /\ TypeOK /\ Chosen(toml) /\ Chosen(db') /\ Chosen(memory')
      /\ db' \in Index /\ memory' \in Index
      /\ wish' \in [Accounts -> Standing \cup {"none"}]
  BY ConsentMeans DEF SaveToml, Tasks, TypeOK
<1>2. CASE SaveIndex(task[h].index) /\ Goto(h, "replace")
  BY <1>1, <1>2, SaveIndexConsent, GotoConsent
<1>3. CASE Done(h) /\ UNCHANGED <<toml, notified>>
  BY <1>1, <1>3, EndConsent DEF TypeOK
<1> QED BY <1>2, <1>3 DEF SaveToml

LEMMA ReplaceStoreConsent ==
  ASSUME ConsentInv, NEW t \in Tasks, ReplaceStore(t)
  PROVE  ConsentInv'
<1>1. /\ UNCHANGED <<toml, memory, notified, ids, wish, chosen>>
      /\ TypeOK /\ Chosen(toml') /\ Chosen(db) /\ Chosen(memory')
      /\ task[t].index \in Index /\ Chosen(task[t].index)
      /\ toml' \in Index /\ memory' \in Index /\ notified' \in BOOLEAN
      /\ wish' \in [Accounts -> Standing \cup {"none"}]
  BY ConsentMeans DEF ReplaceStore, TypeOK
<1>2. CASE db' = task[t].index /\ Goto(t, IF t = Monitor THEN "mirror" ELSE "load")
  <2>1. db' \in Index /\ Chosen(db')
    BY <1>1, <1>2
  <2>2. PICK stage \in {"replace", "load", "mirror"} : Goto(t, stage)
    BY <1>2
  <2> QED BY <1>1, <2>1, <2>2, GotoConsent
<1>3. CASE Done(t) /\ UNCHANGED db
  BY <1>1, <1>3, EndConsent DEF TypeOK
<1> QED BY <1>2, <1>3 DEF ReplaceStore

LEMMA LoadBackConsent ==
  ASSUME ConsentInv, NEW t \in Tasks, LoadBack(t)
  PROVE  ConsentInv'
<1> DEFINE q == [task[t] EXCEPT !.stage = "publish", !.index = db]
<1>1. /\ UNCHANGED <<copies, ids, wish, chosen, notified>>
      /\ UNCHANGED <<toml, db, memory>>
      /\ TypeOK /\ Chosen(toml') /\ Chosen(db) /\ Chosen(db') /\ Chosen(memory')
      /\ task[t] \in Task
  BY ConsentMeans DEF LoadBack, copies
<1>2. q \in Task /\ q.index = db
  BY <1>1 DEF Task, Busy, TypeOK
<1>3. Become(t, q) \/ Done(t)
  BY DEF LoadBack
<1> HIDE DEF q
<1>4. CASE Become(t, q)
  BY <1>1, <1>2, <1>4, ConsentsPlain DEF TypeOK
<1>5. CASE Done(t)
  BY <1>1, <1>5, EndConsent DEF TypeOK
<1> QED BY <1>3, <1>4, <1>5

LEMMA PublishConsent ==
  ASSUME ConsentInv, NEW t \in Tasks, Publish(t)
  PROVE  ConsentInv'
<1>1. /\ UNCHANGED <<toml, db, notified, ids, chosen>> /\ Done(t)
      /\ TypeOK /\ Chosen(toml') /\ Chosen(db')
      /\ memory' \in Index /\ Chosen(memory') /\ task[t] \in Task
  BY ConsentMeans DEF Publish
<1>2. wish' \in [Accounts -> Standing \cup {"none"}]
  BY <1>1 DEF Publish, Acknowledged, TypeOK, Task
<1> QED BY <1>1, <1>2, EndConsent DEF TypeOK

LEMMA AbandonConsent ==
  ASSUME ConsentInv, NEW h \in Handlers, Abandon(h)
  PROVE  ConsentInv'
<1>1. /\ UNCHANGED <<toml, db, memory, notified, ids, wish, chosen>>
      /\ Done(h) /\ h \in Tasks
      /\ TypeOK /\ Chosen(toml') /\ Chosen(db') /\ Chosen(memory')
  BY ConsentMeans DEF Abandon, copies, Tasks
<1> QED BY <1>1, EndConsent DEF TypeOK

(* The steps of the monitor. *)
LEMMA MonitorProbeConsent ==
  ASSUME ConsentInv, NEW a \in Accounts, MonitorProbe(a)
  PROVE  ConsentInv'
<1> DEFINE m == [Nothing EXCEPT ![a] = memory[a]]
<1> DEFINE q == [Idle EXCEPT !.stage = "probing", !.targets = {a}, !.index = m]
<1>1. /\ Become(Monitor, q) /\ Monitor \in Tasks
      /\ UNCHANGED <<copies, ids, wish, chosen, notified>>
  BY DEF MonitorProbe, Tasks
<1>2. TypeOK /\ Chosen(memory)
  BY ConsentMeans
<1>3. Nothing \in Index /\ Chosen(Nothing)
  BY DEF Nothing, Gone, Index, Account, Standing, Status, Chosen
<1>4. m \in Index /\ Chosen(m)
  BY <1>2, <1>3 DEF Index, TypeOK, Chosen
<1> HIDE DEF m
<1>5. q \in Task /\ q.index = m
  BY <1>4, IdleType DEF Task, Idle
<1> HIDE DEF q
<1> QED BY <1>1, <1>2, <1>4, <1>5, ConsentsPlain DEF TypeOK

LEMMA MergeConsent ==
  ASSUME ConsentInv, Merge
  PROVE  ConsentInv'
<1>1. PICK a \in task[Monitor].targets, s \in Status :
        \/ /\ memory' = [memory EXCEPT ![a] = [@ EXCEPT !.status = s]]
           /\ Become(Monitor, [Idle EXCEPT !.stage = "replace", !.index = memory'])
        \/ Done(Monitor) /\ UNCHANGED memory
  BY DEF Merge
<1>2. /\ Monitor \in Tasks /\ TypeOK /\ a \in Accounts
      /\ Chosen(toml) /\ Chosen(db) /\ Chosen(memory)
      /\ UNCHANGED <<toml, db, notified, ids, wish, chosen>>
  BY ConsentMeans DEF Merge, Tasks, Task
<1>3. CASE /\ memory' = [memory EXCEPT ![a] = [@ EXCEPT !.status = s]]
           /\ Become(Monitor, [Idle EXCEPT !.stage = "replace", !.index = memory'])
  <2> DEFINE account == [memory[a] EXCEPT !.status = s]
  <2> DEFINE m == memory'
  <2> DEFINE q == [Idle EXCEPT !.stage = "replace", !.index = m]
  <2>1. account \in Account /\ account.standing = memory[a].standing
    <3>1. memory[a] \in Account
      BY <1>2 DEF TypeOK, Index
    <3> QED BY <3>1, StatusType
  <2>2. m = [memory EXCEPT ![a] = account]
    BY <1>3
  <2>3. Become(Monitor, q)
    BY <1>3
  <2> HIDE DEF account
  <2>4. memory' = m
    OBVIOUS
  <2> HIDE DEF m
  <2>5. m \in Index /\ Chosen(m)
    BY <1>2, <2>1, <2>2 DEF TypeOK, Index, Chosen
  <2>6. q \in Task /\ q.index = m
    BY <2>5, IdleType DEF Task, Busy, Idle
  <2> HIDE DEF q
  <2> QED BY <1>2, <2>3, <2>4, <2>5, <2>6, Consents DEF TypeOK, Chosen
<1>4. CASE Done(Monitor) /\ UNCHANGED memory
  BY <1>2, <1>4, EndConsent DEF TypeOK, Chosen
<1> QED BY <1>1, <1>3, <1>4

LEMMA KeepMirrorConsent ==
  ASSUME ConsentInv, KeepMirror
  PROVE  ConsentInv'
<1>1. /\ Monitor \in Tasks /\ Done(Monitor) /\ UNCHANGED <<db, memory, ids, wish, chosen>>
      /\ TypeOK /\ Chosen(toml) /\ Chosen(db') /\ Chosen(memory')
  BY ConsentMeans DEF KeepMirror, Tasks
<1>2. /\ toml' \in Index /\ Chosen(toml') /\ notified' \in BOOLEAN
  BY <1>1, SaveIndexConsent DEF KeepMirror, TypeOK
<1> QED BY <1>1, <1>2, EndConsent DEF TypeOK

LEMMA RestartConsent ==
  ASSUME ConsentInv, Restart
  PROVE  ConsentInv'
<1>1. /\ db' = Reconciled /\ memory' = Reconciled /\ notified' = FALSE
      /\ task' = [t \in Tasks |-> Idle] /\ UNCHANGED <<toml, ids, wish, chosen>>
  BY DEF Restart
<1>2. TypeOK /\ Chosen(toml) /\ Chosen(db)
  BY ConsentMeans
<1>3. Reconciled \in Index /\ Chosen(Reconciled)
  BY <1>2 DEF Reconciled, Index, TypeOK, Chosen
<1>4. TypeOK'
  BY <1>1, <1>2, <1>3, IdleType DEF TypeOK
<1>5. OptIn'
  BY <1>1, <1>2, <1>3 DEF OptIn, Chosen
<1>6. \A t \in Tasks, a \in Accounts : task'[t].index[a].standing # "in"
  BY <1>1 DEF Idle, Nothing, Gone
<1>7. ClonesOptIn'
  BY <1>6 DEF ClonesOptIn
<1> QED BY <1>4, <1>5, <1>7 DEF ConsentInv

LEMMA TouchConsent ==
  ASSUME ConsentInv, Touch \/ UNCHANGED vars
  PROVE  ConsentInv'
<1>1. UNCHANGED <<toml, db, memory, ids, task, wish, chosen>> /\ notified' \in BOOLEAN
  BY DEF Touch, copies, vars, ConsentInv, TypeOK
<1> QED BY <1>1 DEF ConsentInv, TypeOK, OptIn, ClonesOptIn

LEMMA NextConsent ==
  ASSUME ConsentInv, [Next]_vars
  PROVE  ConsentInv'
<1>1. ASSUME NEW h \in Handlers, HandlerNext(h)
      PROVE  ConsentInv'
  <2>1. ASSUME NEW a \in Accounts, Decide(h, a) \/ Import(h, a) \/ Reauthenticate(h, a)
        PROVE  ConsentInv'
    BY <2>1, DecideConsent, ImportConsent, ReauthenticateConsent
  <2>2. ASSUME NEW targets \in SUBSET Accounts, StartProbe(h, targets)
        PROVE  ConsentInv'
    BY <2>2, StartProbeConsent
  <2>3. ASSUME Probed(h) \/ Abandon(h) \/ SaveToml(h)
        PROVE  ConsentInv'
    BY <2>3, ProbedConsent, AbandonConsent, SaveTomlConsent
  <2>4. ASSUME ReloadNow(h) PROVE ConsentInv'
    BY <2>4, ReloadConsent
  <2> QED BY <1>1, <2>1, <2>2, <2>3, <2>4 DEF HandlerNext
<1>2. ASSUME NEW t \in Tasks, ReplaceStore(t) \/ LoadBack(t) \/ Publish(t)
      PROVE  ConsentInv'
  BY <1>2, ReplaceStoreConsent, LoadBackConsent, PublishConsent
<1>3. ASSUME MonitorNext PROVE ConsentInv'
  BY <1>3, MonitorProbeConsent, MergeConsent, KeepMirrorConsent DEF MonitorNext
<1>4. ASSUME Reload PROVE ConsentInv'
  BY <1>4, ReloadConsent
<1>5. ASSUME Touch \/ UNCHANGED vars PROVE ConsentInv'
  BY <1>5, TouchConsent
<1>6. ASSUME Restart PROVE ConsentInv'
  BY <1>6, RestartConsent
<1> QED BY <1>1, <1>2, <1>3, <1>4, <1>5, <1>6 DEF Next

(* Whatever the races between handlers, monitor and reloader do, on any    *)
(* number of worker threads and with manual probes, no copy of the index   *)
(* has an account in the proxy pool that its user did not put there by     *)
(* POST pool or PATCH.                                                     *)
THEOREM AccountsAreOptIn == Spec => []OptIn
<1>1. Init => ConsentInv
  BY InitConsent
<1>2. ConsentInv /\ [Next]_vars => ConsentInv'
  BY NextConsent
<1>3. ConsentInv => OptIn
  BY DEF ConsentInv
<1> QED BY <1>1, <1>2, <1>3, PTL DEF Spec
=============================================================================
