------------------------------ MODULE TuiClient ------------------------------
(***************************************************************************)
(* The terminal UI as a client of the daemon.  Its list of accounts is a   *)
(* copy: a watcher thread sends snapshots of the daemon's index, keys send *)
(* requests, some on threads of their own and some synchronously, and      *)
(* probes run on a local thread.  Without a daemon the list is edited and  *)
(* saved in the accounts file; a daemon that starts reconciles its store   *)
(* with that file.                                                         *)
(*                                                                         *)
(* A commit of the daemon is one step here: AccountCommit has its parts.   *)
(* The files that tell of a daemon are those of DaemonLifecycle: here a    *)
(* daemon runs or not.  An account is its standing and the stamp of its    *)
(* last change (the revision, the label and checked_at in one).  What      *)
(* decides on its place in the list (its priority, imported_at) is in the  *)
(* order of the daemon's list and in that of the screen, and the filter of *)
(* the screen is in the dialog opened under it.                            *)
(***************************************************************************)
EXTENDS Naturals, Sequences, FiniteSets

CONSTANTS
  Accounts,     \* accounts
  Slots,        \* request threads, by number
  MaxQueue,     \* bound: snapshots on their way to the screen
  MaxEvents     \* bound: keys pressed and changes from elsewhere

ASSUME AccountsAssumption == IsFiniteSet(Accounts)
ASSUME SlotsAssumption == Slots \subseteq Nat
ASSUME BoundsAssumption == MaxQueue \in Nat /\ MaxEvents \in Nat

VARIABLES
  daemon,     \* a daemon runs
  index,      \* its index; without a daemon, the rows of the store
  ranking,    \* the order in which it lists them
  file,       \* the accounts file
  notified,   \* the daemon's watcher has an event for a file it did not write
  used,       \* the ids handed out so far
  open,       \* the terminal UI runs
  owned,      \* its embedded daemon
  list,       \* ui.index.accounts
  order,      \* their order
  attached,   \* ui.attached_daemon
  pending,    \* ui.pending_index_sync
  dialog,     \* the dialog on an account
  checking,   \* the local probes
  requests,   \* the threads of enqueue_control
  updates,    \* the channel from the watcher
  now,        \* history: a clock of the changes
  version,    \* history: when the index changed last
  shown,      \* history: the version of the index the list comes from
  promised,   \* history: the version of the last edit whose outcome is held
  alone,      \* history: no daemon since the terminal started
  wish        \* history: what the user decided while alone

copies == <<index, ranking, file, notified, version>>
screen == <<list, order, shown, pending, promised>>
ui == <<open, owned, attached, dialog, checking, requests>>
outside == <<daemon, used, alone, wish>>
vars == <<copies, screen, ui, outside, updates, now>>

-----------------------------------------------------------------------------
Standing == {"in", "out", "gone"}
Account == [standing : Standing, stamp : Nat]
Index == [Accounts -> Account]

Gone == [standing |-> "gone", stamp |-> 0]
Nothing == [a \in Accounts |-> Gone]

Listed(i) == {a \in Accounts : i[a].standing # "gone"}

(* The orders of what an index lists, and which of two comes first in one. *)
Orders(i) == {r \in [1..Cardinality(Listed(i)) -> Listed(i)] :
                \A a \in Listed(i) : \E n \in DOMAIN r : r[n] = a}
Before(r) ==
  {p \in Accounts \X Accounts : \E m, n \in DOMAIN r : m < n /\ p = <<r[m], r[n]>>}

(* Those in which the accounts in kept are as they were. *)
Reordered(i, r, kept) ==
  {q \in Orders(i) : Before(q) \cap (kept \X kept) = Before(r) \cap (kept \X kept)}

(* ControlUpdate: Connected with a snapshot, or Disconnected. *)
Update == [up : BOOLEAN, index : Index, order : Seq(Accounts), version : Nat]
Disconnected == [up |-> FALSE, index |-> Nothing, order |-> <<>>, version |-> 0]

(* Checking: the accounts whose result is not in yet, as they were cloned. *)
Checking == [on : BOOLEAN, todo : SUBSET Accounts, clones : Index]
NotChecking == [on |-> FALSE, todo |-> {}, clones |-> Nothing]

(* A dialog keeps a position among the rows that match the filter.         *)
(* History: target, the account that was there when it was opened; moved,  *)
(* a snapshot has changed the rows since.                                  *)
Dialog == [kind : {"delete", "rename"}, matching : SUBSET Accounts, position : Nat,
           target : Accounts, moved : BOOLEAN]
NoDialog == [kind |-> "none"]

Request == [op : {"in", "out", "probe"}, about : SUBSET Accounts]
NoRequest == [op |-> "none"]

(* The embedded daemon's thread, with the clone of the list it was given.  *)
Owned == [stage : {"starting", "running"}, seed : Index]
NotOwned == [stage |-> "none"]

TypeOK ==
  /\ daemon \in BOOLEAN /\ notified \in BOOLEAN /\ open \in BOOLEAN
  /\ attached \in BOOLEAN /\ pending \in BOOLEAN /\ alone \in BOOLEAN
  /\ index \in Index /\ file \in Index /\ list \in Index
  /\ ranking \in Seq(Accounts) /\ order \in Seq(Accounts)
  /\ used \subseteq Accounts
  /\ owned \in Owned \cup {NotOwned}
  /\ dialog \in Dialog \cup {NoDialog}
  /\ checking \in Checking
  /\ requests \in [Slots -> Request \cup {NoRequest}]
  /\ updates \in Seq(Update)
  /\ now \in Nat /\ version \in Nat /\ shown \in Nat /\ promised \in Nat
  /\ wish \in [Accounts -> Standing \cup {"none"}]

(* Accounts have been imported and put into the pool.  The file may have   *)
(* them in another order than the store.  A descriptor may be missing      *)
(* while a daemon starts, or left over from one that crashed.              *)
Init ==
  /\ daemon \in BOOLEAN /\ attached \in BOOLEAN
  /\ used \in SUBSET Accounts
  /\ index = [a \in Accounts |-> IF a \in used THEN [standing |-> "in", stamp |-> 0] ELSE Gone]
  /\ file = index /\ list = index
  /\ ranking \in Orders(index) /\ order \in Orders(list)
  /\ notified = FALSE /\ pending = FALSE
  /\ open = TRUE /\ owned = NotOwned
  /\ dialog = NoDialog /\ checking = NotChecking
  /\ requests = [s \in Slots |-> NoRequest]
  /\ updates = <<>>
  /\ now = 0 /\ version = 0 /\ shown = 0 /\ promised = 0
  /\ alone = ~daemon
  /\ wish = [a \in Accounts |-> IF alone THEN list[a].standing ELSE "none"]

-----------------------------------------------------------------------------
(* A key or a change from elsewhere; a consequence of an earlier one.      *)
Tick == now' = now + 1
Event == now < MaxEvents /\ Tick

(* Keys that act on the list: handle_key with no dialog open. *)
Key == open /\ dialog = NoDialog /\ Event

Touched(account) == [account EXCEPT !.stamp = now + 1]
Moved(account, standing) == [account EXCEPT !.standing = standing, !.stamp = now + 1]

(* commit_accounts: the store lists by priority, then import time. *)
Commit(i, orders) ==
  /\ index' = i
  /\ ranking' \in orders
  /\ file' = i
  /\ version' = now + 1
  /\ notified' = FALSE

(* An entry of a file may be disabled: its account leaves the pool.        *)
Imports == {"import", "import_disabled"}

(* What an edit makes of an index: an import of a known account and        *)
(* update-current refresh it.                                              *)
After(i, a, kind) ==
  [i EXCEPT ![a] = IF kind = "delete" THEN Gone
                   ELSE IF @.standing = "gone" THEN [standing |-> "out", stamp |-> now + 1]
                   ELSE IF kind = "import_disabled" THEN Moved(@, "out")
                   ELSE Touched(@)]

(* The order of the daemon after it: an account that is imported or has    *)
(* another priority may be anywhere, one with a new import time not before *)
(* those it came after.                                                    *)
Ranked(a, kind) ==
  {r \in Reordered(After(index, a, kind), ranking, Accounts \ {a}) :
     /\ kind = "update" =>
          \A b \in Accounts : <<b, a>> \in Before(ranking) => <<b, a>> \in Before(r)
     /\ kind = "rename" => r = ranking}

(* On the screen a known account stays where it is, a new one is the last. *)
Placed(i, a) ==
  IF a \in Listed(list) THEN Reordered(i, order, Listed(i)) ELSE {Append(order, a)}

Applies(i, a, kind) == a \in Listed(i) \/ (kind \in Imports /\ a \notin used)

(* Mutant of RemoteEdit: the list is fetched after a refusal too. *)
RemoteEditRefreshes(a, kind, answer) ==
  /\ daemon
  /\ IF answer = "refused"
       THEN UNCHANGED copies
       ELSE Applies(index, a, kind) /\ Commit(After(index, a, kind), Ranked(a, kind))
  /\ IF answer \in {"ok", "refused"}
       THEN list' = index' /\ order' = ranking' /\ shown' = version'
       ELSE UNCHANGED <<list, order, shown>>
  /\ UNCHANGED wish

(* daemon_account_index: the request and GET accounts.  "lost": the        *)
(* request was carried out, but its answer or the second one never came.   *)
RemoteEdit(a, kind, answer) ==
  /\ daemon
  /\ IF answer = "refused"
       THEN UNCHANGED copies
       ELSE Applies(index, a, kind) /\ Commit(After(index, a, kind), Ranked(a, kind))
  /\ IF answer = "ok"
       THEN list' = index' /\ order' = ranking' /\ shown' = version'
       ELSE UNCHANGED <<list, order, shown>>
  /\ UNCHANGED wish

(* Without a daemon the list is edited and saved, and restored if that     *)
(* fails (persist_index).                                                  *)
LocalEdit(a, kind, answer) ==
  /\ ~daemon
  /\ answer \in {"ok", "refused"}
  /\ IF answer = "ok"
       THEN /\ Applies(list, a, kind)
            /\ list' = After(list, a, kind)
            /\ order' \in Placed(list', a)
            /\ file' = list'
            /\ wish' = IF alone THEN [wish EXCEPT ![a] = list'[a].standing] ELSE wish
       ELSE UNCHANGED <<list, order, file, wish>>
  /\ UNCHANGED <<index, ranking, notified, version, shown>>

(* An edit; held: the list is kept until a snapshot equals it.  An         *)
(* acknowledged edit that is held is a promise, but a list after a         *)
(* deletion may equal one from before the import of the account.           *)
Edit(a, kind, answer, held) ==
  /\ RemoteEdit(a, kind, answer) \/ LocalEdit(a, kind, answer)
  /\ pending' = (pending \/ (attached /\ held))
  /\ promised' = IF answer # "ok" THEN promised
                 ELSE IF kind = "delete" THEN 0
                 ELSE IF daemon /\ attached /\ held THEN now + 1
                 ELSE promised
  /\ used' = IF kind \in Imports /\ answer # "refused" THEN used \cup {a} ELSE used

Answers == {"ok", "refused", "lost"}

(* Key a holds the list whatever the answer is: no message begins with     *)
(* the word it looks for.                                                  *)
ImportCurrent(a) ==
  /\ Key /\ ~checking.on
  /\ \E answer \in Answers : Edit(a, "import", answer, TRUE)
  /\ UNCHANGED <<ui, daemon, alone, updates>>

(* The import editor does not hold the list. *)
ImportFile(a) ==
  /\ Key /\ ~checking.on
  /\ \E kind \in Imports, answer \in Answers : Edit(a, kind, answer, FALSE)
  /\ UNCHANGED <<ui, daemon, alone, updates>>

(* A file of several accounts of which a later one is bad: without a       *)
(* daemon those before it stay in the list, and nothing is saved.          *)
ImportPart(a) ==
  /\ Key /\ ~checking.on /\ ~daemon
  /\ \E kind \in Imports :
       Applies(list, a, kind) /\ list' = After(list, a, kind) /\ order' \in Placed(list', a)
  /\ used' = used \cup {a}
  /\ wish' = [wish EXCEPT ![a] = "none"]
  /\ UNCHANGED <<copies, shown, pending, promised, ui, daemon, alone, updates>>

(* Key u, allowed during a check. *)
UpdateFromCurrent(a) ==
  /\ Key
  /\ a \in Listed(list)
  /\ \E answer \in Answers : Edit(a, "update", answer, TRUE)
  /\ UNCHANGED <<ui, daemon, alone, updates>>

-----------------------------------------------------------------------------
(* The rows that match the filter, and the account that is at the position *)
(* of the dialog by now (selected_id).                                     *)
Visible(r, matching) == SelectSeq(r, LAMBDA a : a \in matching)
Selected(r) ==
  LET rows == Visible(r, dialog.matching)
  IN {a \in Accounts : dialog.position \in DOMAIN rows /\ rows[dialog.position] = a}

(* Mutant of OpenDialog: d and n are not refused during a check. *)
OpenDialogAnytime(kind, a) ==
  /\ Key
  /\ \E matching \in SUBSET Listed(list) :
       \E n \in DOMAIN Visible(order, matching) :
         /\ Visible(order, matching)[n] = a
         /\ dialog' = [kind |-> kind, matching |-> matching, position |-> n, target |-> a,
                       moved |-> FALSE]
  /\ UNCHANGED <<copies, screen, open, owned, attached, checking, requests, outside, updates>>

(* Keys d and n, under some filter. *)
OpenDialog(kind, a) ==
  /\ Key /\ ~checking.on
  /\ \E matching \in SUBSET Listed(list) :
       \E n \in DOMAIN Visible(order, matching) :
         /\ Visible(order, matching)[n] = a
         /\ dialog' = [kind |-> kind, matching |-> matching, position |-> n, target |-> a,
                       moved |-> FALSE]
  /\ UNCHANGED <<copies, screen, open, owned, attached, checking, requests, outside, updates>>

Cancel ==
  /\ open /\ dialog # NoDialog
  /\ dialog' = NoDialog
  /\ UNCHANGED <<copies, screen, open, owned, attached, checking, requests, outside, updates, now>>

(* The outcome is held for a deletion and for the e-mail as a label; for a *)
(* label from the editor only if it was taken: otherwise the editor stays. *)
Held(kind, answer) == {TRUE} \cup (IF kind = "rename" THEN {answer = "ok"} ELSE {})

(* The dialog acts on the account that is at its position by now, if any.  *)
Confirm ==
  /\ open /\ dialog # NoDialog /\ Event
  /\ \/ \E a \in Selected(order), answer \in Answers : \E held \in Held(dialog.kind, answer) :
          /\ Edit(a, dialog.kind, answer, held)
          /\ dialog' = IF held THEN NoDialog ELSE dialog
     \/ /\ Selected(order) = {}
        /\ dialog' = NoDialog \/ (dialog.kind = "rename" /\ UNCHANGED dialog)
        /\ UNCHANGED <<copies, screen, used, wish>>
  /\ UNCHANGED <<open, owned, attached, checking, requests, daemon, alone, updates>>

-----------------------------------------------------------------------------
(* enqueue_control: one thread per request, in no order. *)
Enqueue(op, about) ==
  /\ \E s \in Slots :
       /\ requests[s] = NoRequest
       /\ \A r \in Slots : requests[r] = NoRequest => s <= r
       /\ requests' = [requests EXCEPT ![s] = [op |-> op, about |-> about]]
  /\ UNCHANGED <<copies, screen, open, owned, attached, dialog, checking, outside, updates>>

Flipped(standing) == IF standing = "in" THEN "out" ELSE "in"

(* toggle_pool with a daemon: the list waits for a snapshot. *)
ToggleRemote(a) ==
  /\ Key /\ attached
  /\ a \in Listed(list)
  /\ Enqueue(Flipped(list[a].standing), {a})

(* toggle_pool without: the list changes, and the file if it can be saved. *)
ToggleLocal(a) ==
  /\ Key /\ ~attached
  /\ a \in Listed(list)
  /\ list' = [list EXCEPT ![a] = Moved(@, Flipped(@.standing))]
  /\ \/ /\ file' = list'
        /\ notified' = daemon
        /\ wish' = IF alone THEN [wish EXCEPT ![a] = list'[a].standing] ELSE wish
     \/ /\ UNCHANGED <<file, notified>>
        /\ wish' = [wish EXCEPT ![a] = "none"]
  /\ UNCHANGED <<index, ranking, version, order, shown, pending, promised, ui, daemon, used,
                 alone, updates>>

(* Keys r and R, and a start of the proxy, when attached. *)
ProbeRemote(about) ==
  /\ Key /\ attached /\ ~checking.on
  /\ Enqueue("probe", about)

RequestEnds(s) == requests' = [requests EXCEPT ![s] = NoRequest]

(* A thread's request reaches the daemon and is committed, or is not. *)
RequestRuns(s) ==
  /\ requests[s] # NoRequest
  /\ LET r == requests[s]
         about == r.about \cap Listed(index)
         changed == [a \in Accounts |->
                       IF a \notin about THEN index[a]
                       ELSE IF r.op = "probe" THEN Touched(index[a])
                       ELSE Moved(index[a], r.op)]
     IN \/ daemon /\ about # {} /\ Commit(changed, {ranking}) /\ Tick
        \/ UNCHANGED <<copies, now>>
  /\ RequestEnds(s)
  /\ UNCHANGED <<screen, open, owned, attached, dialog, checking, outside, updates>>

-----------------------------------------------------------------------------
(* start_probe, when not attached. *)
StartProbe(about) ==
  /\ Key /\ ~attached /\ ~checking.on
  /\ checking' = [on |-> TRUE, todo |-> about, clones |-> list]
  /\ UNCHANGED <<copies, screen, open, owned, attached, dialog, requests, outside, updates>>

(* Mutant of ProbeCompletes: the whole clone is put into the list. *)
ProbeReplaces(a) ==
  /\ open /\ a \in checking.todo
  /\ checking' = [checking EXCEPT !.todo = @ \ {a}]
  /\ list' = IF a \in Listed(list)
               THEN [list EXCEPT ![a] = Touched(checking.clones[a])] ELSE list
  /\ Tick
  /\ UNCHANGED <<copies, order, shown, pending, promised, open, owned, attached, dialog,
                 requests, outside, updates>>

(* poll_probe, Completed: only the status is merged, into an account that  *)
(* is still listed.                                                        *)
ProbeCompletes(a) ==
  /\ open /\ a \in checking.todo
  /\ checking' = [checking EXCEPT !.todo = @ \ {a}]
  /\ list' = IF a \in Listed(list) THEN [list EXCEPT ![a] = Touched(@)] ELSE list
  /\ Tick
  /\ UNCHANGED <<copies, order, shown, pending, promised, open, owned, attached, dialog,
                 requests, outside, updates>>

(* The process ends and its threads with it; stops: a daemon ends too. *)
Leave(stops) ==
  /\ open' = FALSE
  /\ owned' = NotOwned
  /\ daemon' = (daemon /\ ~stops)
  /\ dialog' = NoDialog /\ checking' = NotChecking
  /\ requests' = [s \in Slots |-> NoRequest]
  /\ updates' = <<>>
  /\ UNCHANGED <<index, ranking, version, screen, attached, used, alone, wish>>

(* poll_probe, Finished: the whole list is saved and the daemon reloads    *)
(* it, in the order of its priorities and import times.                    *)
Finish ==
  /\ open /\ checking.on /\ checking.todo = {}
  /\ checking' = NotChecking
  /\ IF daemon THEN Commit(list, Orders(list)) /\ shown' = version' /\ Tick
               ELSE file' = list /\ UNCHANGED <<index, ranking, notified, version, shown, now>>
  /\ UNCHANGED <<list, order, pending, promised, open, owned, attached, dialog, requests,
                 outside, updates>>

(* An error of either ends the terminal UI, and the thread of its embedded *)
(* daemon.                                                                 *)
FinishFails ==
  /\ open /\ checking.on /\ checking.todo = {}
  /\ Leave(owned.stage = "running")
  /\ file' \in {file, list}
  /\ notified' = (daemon' /\ (notified \/ file' # file))
  /\ UNCHANGED now

-----------------------------------------------------------------------------
(* The watcher thread: control_stream and fetch_control_update.  A fetch   *)
(* may fail while the daemon runs.                                         *)
Watch ==
  /\ open /\ Len(updates) < MaxQueue
  /\ updates' = Append(updates, [up |-> TRUE, index |-> index, order |-> ranking,
                               version |-> version])
  /\ daemon
  /\ UNCHANGED <<copies, screen, ui, outside, now>>

WatchFails ==
  /\ open /\ Len(updates) < MaxQueue
  /\ updates' = Append(updates, Disconnected)
  /\ daemon => Event
  /\ ~daemon => UNCHANGED now
  /\ UNCHANGED <<copies, screen, ui, outside>>

(* The dialog under a list that is replaced: an account that has changed   *)
(* may match the filter, or not, by its new label.                         *)
Under(u) ==
  IF dialog = NoDialog THEN {NoDialog}
  ELSE {[dialog EXCEPT !.matching = m,
                       !.moved = @ \/ Visible(u.order, m) # Visible(order, dialog.matching)] :
          m \in {m \in SUBSET Listed(u.index) :
                  \A a \in Listed(u.index) :
                    u.index[a] = list[a] => (a \in m <=> a \in dialog.matching)}}

Replaced(u) ==
  list' = u.index /\ order' = u.order /\ shown' = u.version /\ dialog' \in Under(u)

(* poll_control_updates: a snapshot replaces the list unless a check runs  *)
(* or an edit is held; one that equals the list ends the hold.             *)
Adopt(u) ==
  IF checking.on \/ pending THEN UNCHANGED <<list, order, shown, dialog>> ELSE Replaced(u)

Confirms(u) == ~checking.on /\ u.index = list /\ u.order = order

(* Mutants of PollConnected: a held list is replaced; a snapshot that      *)
(* equals the list does not end the hold.                                  *)
PollReplacesHeld ==
  /\ open /\ updates # <<>> /\ Head(updates).up
  /\ IF checking.on THEN UNCHANGED <<list, order, shown, dialog>> ELSE Replaced(Head(updates))
  /\ pending' = (pending /\ ~Confirms(Head(updates)))
  /\ attached' = TRUE
  /\ updates' = Tail(updates)
  /\ UNCHANGED <<copies, promised, open, owned, checking, requests, outside, now>>

PollNeverConfirms ==
  /\ open /\ updates # <<>> /\ Head(updates).up
  /\ Adopt(Head(updates))
  /\ attached' = TRUE
  /\ updates' = Tail(updates)
  /\ UNCHANGED <<copies, pending, promised, open, owned, checking, requests, outside, now>>

PollConnected ==
  /\ open /\ updates # <<>> /\ Head(updates).up
  /\ Adopt(Head(updates))
  /\ pending' = (pending /\ ~Confirms(Head(updates)))
  /\ attached' = TRUE
  /\ updates' = Tail(updates)
  /\ UNCHANGED <<copies, promised, open, owned, checking, requests, outside, now>>

PollDisconnected ==
  /\ open /\ updates # <<>> /\ ~Head(updates).up
  /\ attached' = FALSE
  /\ updates' = Tail(updates)
  /\ UNCHANGED <<copies, screen, open, owned, dialog, checking, requests, outside, now>>

-----------------------------------------------------------------------------
(* reconcile_accounts: rows that are in the store win over what is given   *)
(* to the daemon.                                                          *)
Reconciled(seed) == [a \in Accounts |-> IF a \in Listed(index) THEN index[a] ELSE seed[a]]

Starts(seed) ==
  /\ ~daemon
  /\ daemon' = TRUE
  /\ index' = Reconciled(seed)
  /\ ranking' \in Reordered(index', ranking, Listed(index))
  /\ version' = now + 1
  /\ alone' = FALSE
  /\ wish' = [a \in Accounts |-> "none"]
  /\ UNCHANGED <<file, notified, used, screen, attached, dialog, checking, requests, updates>>

(* A daemon is started elsewhere, with the file. *)
DaemonStarts == Event /\ Starts(file) /\ UNCHANGED <<open, owned>>

(* An account of the pool is live. *)
Eligible(i) == \E a \in Accounts : i[a].standing = "in"

(* start_proxy without a daemon: the embedded one gets a clone of the      *)
(* list.  Where there is another by the time it is up, see DaemonLifecycle. *)
StartEmbedded ==
  /\ Key /\ ~attached
  /\ owned = NotOwned \/ (owned.stage = "running" /\ ~daemon)
  /\ Eligible(list)
  /\ owned' = [stage |-> "starting", seed |-> list]
  /\ UNCHANGED <<copies, screen, open, attached, dialog, checking, requests, outside, updates>>

EmbeddedStarts ==
  /\ owned # NotOwned /\ owned.stage = "starting"
  /\ owned' = [owned EXCEPT !.stage = "running"]
  /\ Starts(owned.seed)
  /\ Tick
  /\ UNCHANGED open

DaemonStops ==
  /\ daemon /\ Event
  /\ daemon' = FALSE
  /\ notified' = FALSE
  /\ UNCHANGED <<index, ranking, file, version, screen, ui, used, alone, wish, updates>>

(* The hot reloader takes a file that the terminal saved by itself. *)
HotReload ==
  /\ daemon /\ notified
  /\ Commit(file, Orders(file))
  /\ Tick
  /\ UNCHANGED <<screen, ui, outside, updates>>

(* Another client, or the token monitor, changes an account. *)
Others(a) ==
  /\ daemon /\ Event
  /\ a \in Listed(index)
  /\ \E s \in Standing :
       LET changed == [index EXCEPT ![a] = IF s = "gone" THEN Gone ELSE Moved(@, s)]
       IN Commit(changed, Reordered(changed, ranking, Accounts \ {a}))
  /\ UNCHANGED <<screen, ui, outside, updates>>

(* run_tui ends: having embedded a daemon it stops the one that is there. *)
Quit ==
  /\ Key
  /\ Leave(owned # NotOwned)
  /\ notified' = (notified /\ daemon')
  /\ UNCHANGED file

-----------------------------------------------------------------------------
KeyNext ==
  \/ \E a \in Accounts : ImportCurrent(a) \/ ImportFile(a) \/ ImportPart(a)
                           \/ UpdateFromCurrent(a) \/ ToggleRemote(a) \/ ToggleLocal(a)
  \/ \E kind \in {"delete", "rename"}, a \in Accounts : OpenDialog(kind, a)
  \/ \E a \in Listed(list) : ProbeRemote({a}) \/ StartProbe({a})
  \/ ProbeRemote(Accounts) \/ StartProbe(Listed(list))
  \/ Confirm \/ Cancel \/ StartEmbedded \/ Quit

(* poll_probe and poll_control_updates, both in every turn of the loop. *)
PollProbe == (\E a \in Accounts : ProbeCompletes(a)) \/ Finish \/ FinishFails
PollControl == PollConnected \/ PollDisconnected

DaemonNext ==
  DaemonStarts \/ EmbeddedStarts \/ DaemonStops \/ HotReload \/ \E a \in Accounts : Others(a)

Next ==
  \/ KeyNext \/ PollProbe \/ PollControl \/ DaemonNext
  \/ Watch \/ WatchFails
  \/ \E s \in Slots : RequestRuns(s)

Spec == Init /\ [][Next]_vars

(* The loop polls both channels in every turn, a probe ends with its       *)
(* timeout, and the stream ticks every second while the daemon is there.   *)
FairSpec == Spec /\ WF_vars(PollProbe) /\ WF_vars(PollControl) /\ WF_vars(Watch)

-----------------------------------------------------------------------------
(***************************************************************************)
(* Properties                                                              *)
(***************************************************************************)
(* No dialog acts on a list while its accounts are probed: the keys that   *)
(* open one and the keys that start a probe keep each other out, though    *)
(* they are guarded in different handlers.  What waits on the channel is   *)
(* in the order of the index, and after an acknowledged edit no older      *)
(* snapshot is left there, or the list is held and has what those do not.  *)
InOrder ==
  \A i, j \in 1..Len(updates) :
    i < j /\ updates[i].up /\ updates[j].up => updates[i].version <= updates[j].version

Kept ==
  \/ pending /\ \E a \in Accounts : list[a].stamp >= promised
  \/ \A i \in 1..Len(updates) : updates[i].up => updates[i].version >= promised

TuiInv ==
  /\ TypeOK
  /\ checking.on => dialog = NoDialog
  /\ checking.on \/ checking = NotChecking
  /\ InOrder
  /\ Kept

(* An edit that the daemon acknowledged and whose outcome is held does not *)
(* leave the screen again: no snapshot from before it replaces the list,   *)
(* however late the watcher delivers it.                                   *)
ScreenKeepsEdits == shown >= promised

(* What the user decides while no daemon has been there is in the list and *)
(* in the file, if it could be saved: a check that ends later merges no    *)
(* more than the status into the list it saves.                            *)
LocalDecisionsKept ==
  alone => \A a \in Accounts :
    wish[a] # "none" => list[a].standing = wish[a] /\ file[a].standing = wish[a]

(* A dialog about an account deletes or renames that account and no other, *)
(* in the daemon's index or in the list, though it remembers no more than  *)
(* a row of a list that is filtered, and that others import, rename and    *)
(* set priorities in: the rows stay under an open dialog while the daemon  *)
(* reorders its index, while an answer is lost or refused and the editor   *)
(* stays, and until a snapshot is adopted that changes them.               *)
EditsHitTarget ==
  [][Confirm =>
       \A a \in Accounts :
         (daemon /\ index'[a] # index[a]) \/ (~daemon /\ list'[a] # list[a]) =>
           a = dialog.target \/ dialog.moved]_vars

(* With a daemon that stays, the screen comes to show its index, unless an *)
(* edit is held; and no edit is held for good whose outcome the daemon's   *)
(* index still is.                                                         *)
ScreenFollows ==
  <>[](daemon /\ open) => <>[](pending <=> <<list, order>> # <<index, ranking>>)
=============================================================================
