---------------------------- MODULE AccountCommit ----------------------------
(***************************************************************************)
(* The account index and its three copies: the TOML mirror, the SQLite     *)
(* store and the index in memory that routing reads.  Three kinds of task  *)
(* write them: handlers of the control API (commit_accounts), the token    *)
(* monitor, and the hot reloader, which is woken by every change of the    *)
(* TOML file, the daemon's own included.                                   *)
(*                                                                         *)
(* Each task works on a clone of the whole index and writes the copies one *)
(* after the other; no lock spans two of them.  There is no await between  *)
(* the clone and the last write, except while an account is probed, so at  *)
(* most Workers tasks are in between.                                      *)
(*                                                                         *)
(* An account is its standing and its status; its revision is counted in   *)
(* the code and compared nowhere, so it is left out.                       *)
(***************************************************************************)
EXTENDS Naturals, FiniteSets

CONSTANTS
  Accounts,       \* account ids
  Handlers,       \* slots for concurrent requests to the control API
  Workers,        \* worker threads of the tokio runtime
  Monitored,      \* the token monitor runs
  ManualProbes,   \* somebody uses POST /probe or /probe-all
  Monitor, Reloader, NoAccount

Tasks == Handlers \cup {Monitor, Reloader}

ASSUME WorkersAssumption == Workers \in Nat \ {0}
ASSUME SwitchAssumption == Monitored \in BOOLEAN /\ ManualProbes \in BOOLEAN
ASSUME TasksAssumption ==
  Monitor \notin Handlers /\ Reloader \notin Handlers /\ Monitor # Reloader
ASSUME NoAccountAssumption == NoAccount \notin Accounts
ASSUME HandlersAssumption == IsFiniteSet(Handlers)

VARIABLES
  toml,      \* the accounts file
  db,        \* the rows of SQLite
  memory,    \* DaemonState.accounts, shared with the router
  notified,  \* the watcher has an event for the file
  ids,       \* the ids handed out so far
  task,      \* the tasks
  wish,      \* the last acknowledged decision of the user, per account
  chosen     \* the accounts the user ever asked to be in the pool

vars == <<toml, db, memory, notified, ids, task, wish, chosen>>
copies == <<toml, db, memory>>

-----------------------------------------------------------------------------
(* In the proxy pool, known but not in the pool, or not in the index.      *)
Standing == {"in", "out", "gone"}

(* "failed" is TemporaryFailure, a status the file cannot hold.  No step   *)
(* here tells the others apart: they are one, "unknown".                   *)
Status == {"unknown", "failed"}

Account == [standing : Standing, status : Status]
Gone == [standing |-> "gone", status |-> "unknown"]
Imported == [standing |-> "out", status |-> "unknown"]

Index == [Accounts -> Account]

(* The stages between the clone of the index and the end of the task.      *)
Busy == {"save", "replace", "load", "publish", "mirror"}

(* decides, standing: the account the request decides on, and how.         *)
Task == [stage : {"idle", "probing"} \cup Busy, index : Index,
         targets : SUBSET Accounts, decides : Accounts \cup {NoAccount},
         standing : Standing]

TypeOK ==
  /\ toml \in Index /\ db \in Index /\ memory \in Index
  /\ notified \in BOOLEAN
  /\ ids \subseteq Accounts
  /\ task \in [Tasks -> Task]
  /\ wish \in [Accounts -> Standing \cup {"none"}]
  /\ chosen \subseteq Accounts

Nothing == [a \in Accounts |-> Gone]

Idle == [stage |-> "idle", index |-> Nothing, targets |-> {},
         decides |-> NoAccount, standing |-> "out"]

(* Some accounts have been imported, none of them is in the pool. *)
Init ==
  /\ ids \in SUBSET Accounts
  /\ toml = [a \in Accounts |->
               IF a \in ids THEN Imported ELSE Gone]
  /\ db = toml
  /\ memory = toml
  /\ notified = FALSE
  /\ task = [t \in Tasks |-> Idle]
  /\ wish = [a \in Accounts |-> "none"]
  /\ chosen = {}

-----------------------------------------------------------------------------
Become(t, q) == task' = [task EXCEPT ![t] = q]
Goto(t, stage) == Become(t, [task[t] EXCEPT !.stage = stage])
Done(t) == Become(t, Idle)

(* A worker thread is free to run a task up to its next await. *)
WorkerFree == Cardinality({t \in Tasks : task[t].stage \in Busy}) < Workers

Present(a) == memory[a].standing # "gone"

(* legacy_status: what save_index writes of an account. *)
Mirrored(account) ==
  IF account.status = "failed" THEN [account EXCEPT !.status = "unknown"] ELSE account

SaveIndex(index) ==
  /\ toml' = [a \in Accounts |-> Mirrored(index[a])]
  /\ notified' = TRUE

-----------------------------------------------------------------------------
(* POST pool, PATCH and DELETE: the user decides on the standing of a.  So *)
(* does the import of a bundle that has a known account disabled; its      *)
(* status starts again.                                                    *)
Decide(h, a) ==
  /\ task[h].stage = "idle" /\ WorkerFree
  /\ Present(a)
  /\ \E s \in Standing, status \in {memory[a].status, "unknown"} :
       /\ status = memory[a].status \/ s = "out"
       /\ Become(h, [Idle EXCEPT !.stage = "save", !.decides = a, !.standing = s,
                      !.index = [memory EXCEPT ![a] =
                        IF s = "gone" THEN Gone ELSE [standing |-> s, status |-> status]]])
       /\ chosen' = IF s = "in" THEN chosen \cup {a} ELSE chosen
  /\ wish' = [wish EXCEPT ![a] = "none"]
  /\ UNCHANGED <<copies, notified, ids>>

(* Mutant of Import: an account joins the pool with its import. *)
ImportIntoPool(h, a) ==
  /\ task[h].stage = "idle" /\ WorkerFree
  /\ a \notin ids
  /\ ids' = ids \cup {a}
  /\ Become(h, [Idle EXCEPT !.stage = "save", !.decides = a, !.standing = "in",
                 !.index = [memory EXCEPT ![a] = [Imported EXCEPT !.standing = "in"]]])
  /\ wish' = [wish EXCEPT ![a] = "none"]
  /\ UNCHANGED <<copies, notified, chosen>>

(* POST import of a new account. *)
Import(h, a) ==
  /\ task[h].stage = "idle" /\ WorkerFree
  /\ a \notin ids
  /\ ids' = ids \cup {a}
  /\ Become(h, [Idle EXCEPT !.stage = "save", !.decides = a,
                 !.index = [memory EXCEPT ![a] = Imported]])
  /\ wish' = [wish EXCEPT ![a] = "none"]
  /\ UNCHANGED <<copies, notified, chosen>>

(* POST update-current, and import of a known account: its status starts   *)
(* again.                                                                  *)
Reauthenticate(h, a) ==
  /\ task[h].stage = "idle" /\ WorkerFree
  /\ Present(a)
  /\ Become(h, [Idle EXCEPT !.stage = "save",
                 !.index = [memory EXCEPT ![a] = [@ EXCEPT !.status = "unknown"]]])
  /\ UNCHANGED <<copies, notified, ids, wish, chosen>>

(* POST probe and probe-all: the index is cloned before the accounts are   *)
(* probed on another thread.                                               *)
StartProbe(h, targets) ==
  /\ ManualProbes
  /\ task[h].stage = "idle" /\ WorkerFree
  /\ \A a \in targets : Present(a)
  /\ Become(h, [Idle EXCEPT !.stage = "probing", !.index = memory, !.targets = targets])
  /\ UNCHANGED <<copies, notified, ids, wish, chosen>>

(* The probes return: the clone is committed with their result. *)
Probed(h) ==
  /\ h \in Handlers
  /\ task[h].stage = "probing" /\ WorkerFree
  /\ \E s \in [task[h].targets -> Status] :
       Become(h, [Idle EXCEPT !.stage = "save", !.index =
                   [a \in Accounts |->
                      IF a \in task[h].targets
                        THEN [task[h].index[a] EXCEPT !.status = s[a]]
                        ELSE task[h].index[a]]])
  /\ UNCHANGED <<copies, notified, ids, wish, chosen>>

(* The client does not wait longer: the handler is dropped at its await. *)
Abandon(h) ==
  /\ task[h].stage = "probing"
  /\ Done(h)
  /\ UNCHANGED <<copies, notified, ids, wish, chosen>>

(* POST daemon/reload commits what the file says. *)
ReloadNow(h) ==
  /\ task[h].stage = "idle" /\ WorkerFree
  /\ Become(h, [Idle EXCEPT !.stage = "save", !.index = toml])
  /\ UNCHANGED <<copies, notified, ids, wish, chosen>>

-----------------------------------------------------------------------------
(* commit_accounts, one step after the other; an error of any but the last *)
(* is reported and leaves the rest out.                                    *)
SaveToml(h) ==
  /\ task[h].stage = "save"
  /\ \/ SaveIndex(task[h].index) /\ Goto(h, "replace")
     \/ Done(h) /\ UNCHANGED <<toml, notified>>
  /\ UNCHANGED <<db, memory, ids, wish, chosen>>

(* Mutant of ReplaceStore: rows missing from the index are not deleted. *)
ReplaceStoreOnlyUpserts(t) ==
  /\ task[t].stage = "replace"
  /\ db' = [a \in Accounts |-> IF task[t].index[a].standing = "gone"
                                 THEN db[a] ELSE task[t].index[a]]
  /\ Goto(t, IF t = Monitor THEN "mirror" ELSE "load")
  /\ UNCHANGED <<toml, memory, notified, ids, wish, chosen>>

(* MetadataStore::replace_accounts: the rows become the index. *)
ReplaceStore(t) ==
  /\ task[t].stage = "replace"
  /\ \/ /\ db' = task[t].index
        /\ Goto(t, IF t = Monitor THEN "mirror" ELSE "load")
     \/ Done(t) /\ UNCHANGED db
  /\ UNCHANGED <<toml, memory, notified, ids, wish, chosen>>

LoadBack(t) ==
  /\ task[t].stage = "load"
  /\ \/ Become(t, [task[t] EXCEPT !.stage = "publish", !.index = db])
     \/ Done(t)
  /\ UNCHANGED <<copies, notified, ids, wish, chosen>>

(* A handler answers once the index is published: its decision counts,     *)
(* unless another handler is deciding on the same account.                 *)
Acknowledged(t) ==
  LET a == task[t].decides
      others == {h \in Handlers \ {t} : task[h].stage # "idle" /\ task[h].decides = a}
  IN IF a # NoAccount /\ others = {}
       THEN [wish EXCEPT ![a] = task[t].standing]
       ELSE wish

Publish(t) ==
  /\ task[t].stage = "publish"
  /\ memory' = task[t].index
  /\ wish' = Acknowledged(t)
  /\ Done(t)
  /\ UNCHANGED <<toml, db, notified, ids, chosen>>

-----------------------------------------------------------------------------
(* The monitor clones an account of the pool and probes it. *)
MonitorProbe(a) ==
  /\ Monitored
  /\ task[Monitor].stage = "idle" /\ WorkerFree
  /\ memory[a].standing = "in"
  /\ Become(Monitor, [Idle EXCEPT !.stage = "probing", !.targets = {a},
                       !.index = [Nothing EXCEPT ![a] = memory[a]]])
  /\ UNCHANGED <<copies, notified, ids, wish, chosen>>

(* Mutant of Merge: the probed clone replaces the whole account. *)
MergeWholeAccount ==
  /\ task[Monitor].stage = "probing" /\ WorkerFree
  /\ \E a \in task[Monitor].targets, s \in Status :
       /\ Present(a)
       /\ memory' = [memory EXCEPT ![a] =
                       [task[Monitor].index[a] EXCEPT !.status = s]]
       /\ Become(Monitor, [Idle EXCEPT !.stage = "replace", !.index = memory'])
  /\ UNCHANGED <<toml, db, notified, ids, wish, chosen>>

(* merge_probe_result, under the lock of the index: only the status of the *)
(* probed account changes.                                                 *)
Merge ==
  /\ task[Monitor].stage = "probing" /\ WorkerFree
  /\ \E a \in task[Monitor].targets, s \in Status :
       \/ /\ Present(a)
          /\ memory' = [memory EXCEPT ![a] = [@ EXCEPT !.status = s]]
          /\ Become(Monitor, [Idle EXCEPT !.stage = "replace", !.index = memory'])
       \/ /\ ~Present(a)
          /\ Done(Monitor)
          /\ UNCHANGED memory
  /\ UNCHANGED <<toml, db, notified, ids, wish, chosen>>

(* After the store, the monitor keeps the file current; it ignores errors. *)
KeepMirror ==
  /\ task[Monitor].stage = "mirror"
  /\ SaveIndex(task[Monitor].index) \/ UNCHANGED <<toml, notified>>
  /\ Done(Monitor)
  /\ UNCHANGED <<db, memory, ids, wish, chosen>>

(* The reloader takes an event and reads the file. *)
Reload ==
  /\ notified
  /\ task[Reloader].stage = "idle" /\ WorkerFree
  /\ notified' = FALSE
  /\ Become(Reloader, [Idle EXCEPT !.stage = "replace", !.index = toml])
  /\ UNCHANGED <<copies, ids, wish, chosen>>

(* The watcher also reports that the file was opened or touched. *)
Touch ==
  /\ notified' = TRUE
  /\ UNCHANGED <<copies, ids, task, wish, chosen>>

-----------------------------------------------------------------------------
(* reconcile_accounts: accounts of the file that SQLite lacks are added. *)
Reconciled ==
  [a \in Accounts |-> IF db[a].standing = "gone" THEN toml[a] ELSE db[a]]

(* The daemon dies and is started again: the store is what counts.         *)
Restart ==
  /\ db' = Reconciled
  /\ memory' = Reconciled
  /\ notified' = FALSE
  /\ task' = [t \in Tasks |-> Idle]
  /\ UNCHANGED <<toml, ids, wish, chosen>>

-----------------------------------------------------------------------------
HandlerNext(h) ==
  \/ \E a \in Accounts : Decide(h, a) \/ Import(h, a) \/ Reauthenticate(h, a)
  \/ \E targets \in SUBSET Accounts \ {{}} : StartProbe(h, targets)
  \/ Probed(h) \/ Abandon(h) \/ ReloadNow(h) \/ SaveToml(h)

MonitorNext == (\E a \in Accounts : MonitorProbe(a)) \/ Merge \/ KeepMirror

Next ==
  \/ \E h \in Handlers : HandlerNext(h)
  \/ \E t \in Tasks : ReplaceStore(t) \/ LoadBack(t) \/ Publish(t)
  \/ MonitorNext
  \/ Reload
  \/ Touch
  \/ Restart

Spec == Init /\ [][Next]_vars

-----------------------------------------------------------------------------
(* What the user was told has happened is so in every copy of the index,   *)
(* and stays so until the user decides otherwise: the account is in the    *)
(* pool, out of it, or deleted.  (A decision that failed half-way may or   *)
(* may not take effect.)                                                   *)
DecisionsKept ==
  \A a \in Accounts : wish[a] # "none" =>
    \A copy \in {toml, db, memory} : copy[a].standing = wish[a]

(* Accounts are opt-in: whatever the races of the tasks do to the index,   *)
(* with any number of workers, no copy of it ever has an account in the    *)
(* pool that the user did not at some time put there.                      *)
OptIn ==
  \A a \in Accounts \ chosen : \A copy \in {toml, db, memory} :
    copy[a].standing # "in"

(* It is inductive once it holds of the clones too. *)
ClonesOptIn ==
  \A a \in Accounts \ chosen : \A t \in Tasks : task[t].index[a].standing # "in"

ConsentInv == TypeOK /\ OptIn /\ ClonesOptIn

(* The inductive invariant behind DecisionsKept, on one worker and if      *)
(* requests come one at a time as soon as somebody probes by hand: only    *)
(* one task is between its clone and its last write, the clones agree with *)
(* what the user was told, and what a task decides is in the copies it has *)
(* written.                                                                *)
OneTask ==
  \A t, u \in Tasks : task[t].stage \in Busy /\ task[u].stage \in Busy => t = u

CloneAgrees ==
  \A t \in Tasks : task[t].stage \in Busy =>
    \A a \in Accounts : wish[a] # "none" => task[t].index[a].standing = wish[a]

Underway ==
  \A t \in Tasks :
    LET a == task[t].decides IN
    task[t].stage \in Busy /\ a # NoAccount =>
      /\ t \in Handlers
      /\ wish[a] = "none"
      /\ task[t].index[a].standing = task[t].standing
      /\ task[t].stage \in {"replace", "load", "publish"} =>
           toml[a].standing = task[t].standing
      /\ task[t].stage \in {"load", "publish"} => db[a].standing = task[t].standing

ProbesAgree ==
  \A h \in Handlers : task[h].stage = "probing" =>
    /\ ManualProbes
    /\ \A a \in Accounts : wish[a] # "none" => task[h].index[a].standing = wish[a]

CommitInv ==
  TypeOK /\ OneTask /\ ProbesAgree /\ CloneAgrees /\ Underway /\ DecisionsKept

(* A probe of the monitor is authoritative for identity and quota only:    *)
(* the standing of an account stays with the newest local revision.        *)
MonitorKeepsStandings ==
  [][ReplaceStore(Monitor) => \A a \in Accounts : db'[a].standing = db[a].standing]_vars
=============================================================================
