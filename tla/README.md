# TLA+ models of codex-switcher

codex-switcher (`src/`) is a local daemon that routes the requests of Codex
clients over several accounts. This directory holds TLA+ modules of the parts
of it that run concurrently or survive a crash, TLC configurations that check
them on small instances, and proofs (TLAPS) of the properties that matter most
for every instance. Paths below are relative to the repository, whose crate
is `src/src`.

    tlc -workers 2 -config Runtime.cfg MCProxyRuntime.tla
    tlapm ProxyRoutingProofs.tla

`PROJECT.json` lists the components, the runs, the lines every definition
models (`map`), a mutated definition for every property (`mutants`), the
disagreements between code and text (`findings`), the hazards, and the theorems.

## 1. The system

One process (tokio, multi-threaded runtime) runs a control server, a data plane
(HTTP proxy), a token monitor and a hot reloader. They share a `DaemonState`
and a `Router` behind `Arc`, and every field of those has a lock of its own.
No lock spans two fields, or a field and its copy on disk: nearly every hazard
below follows from that.

| component | state | operations | interacts with |
|---|---|---|---|
| Router and request path (`proxy/routing.rs`, `proxy/server.rs`) | circuits, sticky bindings, preferred account, pause flag, lease counters | `route`, `bind`, `open/close/expire_circuits`, `prefer`, `pause/resume`, `proxy_request` | reads the index in memory; calls the refresher; the monitor and the control API open and close circuits |
| Token refresher (`proxy/auth.rs`) | one lock per account, the snapshot file | `refresh`, `refresh_rejected` | called by requests; shares the file with `account.rs` and, through the provider, the login with the Codex client |
| Account index (`daemon/control_api.rs`, `storage.rs`, `proxy/monitor.rs`, `daemon/hot_reload.rs`) | `accounts.toml`, SQLite rows, index in memory | `commit_accounts` and its callers, the monitor's merge, the reloader, the start | the router reads the copy in memory; each write of the file wakes the reloader |
| Data-plane supervisor (`proxy/mod.rs`, `ProxyServer::serve`) | `RuntimeState`, running, accepting, the join handle, the tasks | `start`, `pause`, `resume`, `mark_blocked`, `stop` | control handlers call it; its tasks write the same state |
| Codex integration (`integration.rs`) | `config.toml`, its backup, the record | `enable`, `disable`, `migrate_if_needed`, `status` | control handlers, the terminal UI and every program start call it |
| Circuit and binding persistence (`storage.rs`) | rows of circuits and bindings | `save_circuit`, `clear_circuit`, ... | written by the router after its own copy, read at a start |
| Token monitor schedule (`proxy/monitor.rs`) | next probe and failures per account | `probe_due`, `schedule_next` | feeds the index, against the 90 s freshness of routing |
| Configuration (`config.rs` and its users) | `config.toml` of the switcher, the copies of the proxy configuration | `load`, `validate`, `repair`, `save`; PATCH, reloader, SIGHUP | control API, router, reloader |
| Daemon lifecycle (`daemon/mod.rs`, `daemon/control.rs`) | PID file, runtime descriptor, tasks | start, SIGHUP, shutdown | everything |
| Strategies, recommender, switcher | round-robin position; pure scores | `select`, `recommend` | called by `route` |
| Retention, metrics, event log (`storage.rs`) | rows of requests and events | insert, `cleanup` | requests, daemon |
| Import and probe (`account.rs`) | account records, snapshots | `import_value`, `update_from_current`, `activate`, `probe` | control API, monitor |
| Terminal UI and CLI (`tui`, `cli`) | a copy of the index, the hold on it, dialogs, local probes, request threads, the channel of snapshots | keys, `poll_probe`, `poll_control_updates`, the watcher | control API; without a daemon the accounts file; may embed a daemon |
| Diagnostics, i18n, notifications, paths | none of their own | formatting and I/O | - |

### What is hard

* **Interleavings**: `route()` takes one lock after another and the lease
  after it has returned; `commit_accounts` writes three copies one by one; the
  supervisor reads and writes its state separately.
* **Stale copies**: a handler that probes and the monitor both work on clones
  of the index taken before an await.
* **Crashes and failures** between two writes: account index, integration,
  refresh token rotated but not saved.
* **Cancellation**: a request or a control call is dropped at any await.
* **Order of answers**: a success that was sent before a quarantine arrives
  after it.
* **Liveness**: requests that retry, calls of stop that wait, the refresher's lock,
  a stop that was acknowledged, a screen that has to catch up.
* **Executions inside executions**: SIGHUP runs a second `run_daemon_impl` in the
  process of the first, whose tasks and guards live on.
* **Two ways to do everything**: the terminal UI edits the daemon's index through
  requests, its own copy without a daemon, and changes between them at any moment.

### What makes each component correct

* *Request path*: a lease is given back exactly once on each way out; the
  concurrency limit; a sticky key keeps its account; no body is repeated that
  cannot be; every request ends.
* *Refresher*: one flight per account; the snapshot keeps a token the provider
  accepts; a request is told to re-authenticate only if that is so.
* *Account index*: what the user has been told stays so in every copy, through
  restarts; the monitor never changes a standing.
* *Supervisor*: the reported state is that of the listener; every accept loop
  is known; stop returns, and only when nobody listens.
* *Integration*: the user's values are kept, put back by disable, and drift
  is reported only for the user's edits.
* *Daemon state*: the copies of the configuration agree after every change that
  was answered with ok; a circuit is the same in memory and in SQLite.
* *Lifecycle*: the PID file and the descriptor name the daemon that serves;
  an orderly exit leaves nothing behind; a stop that was acknowledged ends it.
* *Terminal UI*: an acknowledged edit does not leave the screen for an older
  snapshot; what is decided without a daemon is kept; a dialog acts on the
  account it was opened for, as long as its rows are the same; the screen follows a
  daemon that stays.

## 2. Modules

| module | models | abstracted |
|---|---|---|
| `ProxyRouting` | `Router` and `proxy_request` | quota arithmetic (a standing per account), the strategy's choice (any account of the best tier), bodies (can be repeated or not), metrics, the SQLite copy of circuits; limits and priorities do not change (PATCH may change them) |
| `TokenRefresh` | `TokenRefresher::refresh_inner`, its two callers, the writers of the snapshot | JSON, expiry (any), HTTP (answered, refused, failed) |
| `AccountCommit` | `commit_accounts`, its callers, the monitor's commit, the reloader, the restart | an account is its standing and status; the revision, which no code compares, is left out |
| `ProxyRuntime` | `ProxyRuntime`, the task of `start()`, `serve`, connections, drain | sockets, time (the drain may end at any time) |
| `LeasePool` | what `ProxyRouting` promises: leases are counting semaphores | everything else a request goes through |
| `SerialRefresh` | what `TokenRefresh` promises: one client that refreshes in one turn after the other | who refreshes, locks, cancellation |
| `DataPlane` | what `ProxyRuntime` promises one caller: a service that is off, starting, serving or stopping | tasks, flags, handles |
| `ReversibleSwitch` | what `CodexIntegration` promises one caller: a switch over `config.toml` | record, backup, the steps of a call |
| `CodexIntegration` | `enable`, `disable`, `migrate_if_needed`, `status` | TOML; values are model values |
| `DaemonLifecycle` | `run_daemon_impl`, its control server, PID file, descriptor, signals, stop requests, status checks, crashes | what the daemon does while it serves |
| `DaemonState` | on top of it: the copies of the proxy configuration and of one account's circuit, with every handler and call that changes them, and every commit of the index that deletes or re-creates the account's row | options but `enabled` and one value for the rest; the reloader's private copy |
| `TuiClient` | the terminal UI's list of accounts: keys, dialogs, requests, local probes, snapshots, the embedded daemon; and as much of a daemon and the file as it sees | a commit of the daemon is one step (`AccountCommit` has its parts), a daemon runs or not (`DaemonLifecycle`); what the order is made of (priority, import time, id), the filter outside dialogs, cursor, drawing |

`DaemonState` EXTENDS `DaemonLifecycle` and interleaves with it. `MC...` modules hold
the instances for TLC, `...Proofs` modules the proofs.

Which code an action stands for:

* **ProxyRouting.** A request is a program counter. `Accept`..`Acquire` are the
  pieces of `route()` between two locks, and `AccountLease::new`. `Prepare` is
  the read of the snapshot and the refresh before sending; `SendFails`,
  `ServerError`, `Succeed`, `Relay`, `Denied`, `TokenExpired` and `Refreshed`
  are the outcomes that `proxy_request` tells apart, with their retry flags
  (the stages `sent`, `resent`, `retried`, `refreshed`); `StreamEnd` and
  `Disconnect` are drops of the lease. `Probe`, `Publish`, `Readmit`,
  `CoolDown`, `Prefer` and `ClearBindings` are the other tasks that touch the
  router. `route()` has no await, so at most `Workers` requests are inside it.
* **TokenRefresh.** `Enter` is what `refresh_inner` does with the lock up to the
  POST, `Redeem` the provider, `Write` or `GiveUp` the rest; `Cancel` and
  `Crash` take a request away at an await; `LateRedeem` is a POST that was sent
  and arrives afterwards. Tokens are numbered in the order of issue. The
  provider and the Codex client are external.
* **AccountCommit.** Handlers, the monitor and the reloader are tasks that clone
  the index and then write the file, the store and memory in the order of the
  code, each write a step that may fail. There is no await between the clone and
  the last write, except around a probe, so at most `Workers` tasks are between
  them. `wish` (history) records what the user has been told, `chosen` the accounts
  that he has ever put into the pool.
* **ProxyRuntime.** Every access to a field under its own lock is a step, except
  that the check and the first write of `stop()` are one.
  Servers are the tasks of `start()`. `disturbed` is a history variable, see below.
* **CodexIntegration.** The two writes of a call are steps of their own; `enable`
  reads the files and makes the first backup in one step with its decision. The
  user edits while no call is under way. A version 1 record is there with its
  backup from the start (`FromV1`); the backup may be older than the
  configuration the record replaced. `own`, `edited` and `damaged` are history.

* **DaemonLifecycle.** An execution is one run of `run_daemon_impl`; its process is
  named after its first one. `Start`, `WritePid` and `BindControl` are the
  start, `Hangup` a SIGHUP (a new execution, the old one `replaced` and alive),
  `Terminate` and `RequestStop` the two ways to stop, `Notice`..`Leave` the
  `select!`, the drain, the end of the control server, and the guards that remove
  the PID file once more. `StatusRead` and `StatusRemove` are `check_daemon_status`.
  `spoiled` (history) names the processes whose files another process, a
  status check or a stop sent to a replaced generation has disturbed. `Revive` is
  POST /v1/proxy/start while `stop()` drains, which `Drain` then waits for until
  `Quell` ends the new data plane (`revived`).
* **DaemonState.** A handler's steps are its lock scopes: clone the configuration
  (`Patch`, `Reload`, `StartProxy`, `StopProxy` with its drain), change the router
  (`UpdateRouter`), write the file (`Save`, may fail), publish to the control
  context (`Publish`, the answer). `Edit` is the terminal UI, or the user,
  saving the file. `SetCircuit`/`Expire` change the router's map and `WriteRow`
  SQLite after it. `Recommit` is `replace_accounts` for the account's row: it goes with
  the account and comes back without the circuit. `Lapse` lets a deadline pass. `Load`
  is the start of an execution, `Abandon` the end of a process. `agreed` (history)
  names the executions that the row speaks for.
* **TuiClient.** One action per key that touches the list, `RequestRuns` for a
  thread of `enqueue_control`, `ProbeCompletes`/`Finish` for `poll_probe`,
  `PollConnected`/`PollDisconnected` for `poll_control_updates`, `Watch`/`WatchFails`
  for the watcher, and the daemon's start, end, hot reload and other clients.
  An account is its standing and a stamp that every change renews. `ranking` is the
  order of the daemon's list (`storage.rs:423`) and `order` that of the screen; an import, an
  `update-current`, a changed priority or a reload moves accounts in the first,
  an adopted snapshot copies it to the second. A dialog is a position among the rows
  that match the filter it was opened under; `target` and `moved` (an adopted
  snapshot has changed these rows since) are history.

The modules are checked one by one: what a component sees of another one is a
nondeterministic action of its own (`Probe`, `Publish` and `Readmit` of
`ProxyRouting` stand for every commit of `AccountCommit`: they give an account any
standing, and its circuit what the commit's caller does to it; the outcomes of
`Prepare` and `Refreshed` for `TokenRefresh`). Those actions allow everything the other
module can do, so nothing is lost for the safety properties.

## 3. Runs

| run | instance | what it shows |
|---|---|---|
| `routing_two_workers` | 1 account (limit 1), 1 key, 3 requests, 2 workers | `RoutingInv`: leases are counted exactly. `OvershootBounded`: a limit is passed by less than the number of workers. `ReplayBudget`: only a body captured whole is sent again, at most three times. `LeasesArePooled`: the requests implement `LeasePool` |
| `routing_one_worker` | 1 account (limit 1), 1 key, 2 requests, 1 worker, fair | without interleaved calls of `route()` `ConcurrencyLimit` is exact; `RequestsEnd`: every request leaves the proxy |
| `routing_sticky_race` (violation) | 2 accounts, 2 requests, 2 workers | two first requests of one key bind it to two accounts, the later write wins |
| `refresh` | 2 requests, 2 logins, at most 2 and 1 tokens | `RefreshInv` (with `SingleFlight`), `SnapshotUsable`, `NoFalseReauth`, `RefreshEnds`, under cancellation, crashes, lost answers, revocation and a Codex client with the same login. `RefreshesInTurn`: all of that implements `SerialRefresh` |
| `commit` | 2 accounts, 1 client, monitor, reloader, 1 worker | `DecisionsKept`: an acknowledged decision is in all three copies until the user decides otherwise, through failed writes and restarts. `OptIn`: no copy has an account in the pool that the user never put there |
| `commit_monitor_race` (violation) | 1 account, 1 client, 2 workers | the monitor writes a clone over a decision committed meanwhile |
| `runtime` | 1 caller, 1 connection, 2 task slots | `StopReturns`; and until a disturbance `RuntimeInv`, `StateIsTruthful`, `StopEndsListening`, and `WorksAsOnePlane`: calls, tasks and connections implement `DataPlane` |
| `runtime_two_callers` (violation) | 2 callers | a start during a drain makes stop wait for ever |
| `integration` | 1 caller, 2 providers, 1 URL, version 1 and 2 records | `BackupIsTheUsers` always; `DisableRestores` and `NoSpuriousDrift` unless damaged, and as long `WorksAsSwitch`: the three files implement `ReversibleSwitch` |
| `integration_crash` (violation) | the same without version 1 | an interrupted `enable` that is repeated records the managed values as the user's |
| `daemon` | 2 executions (two processes, or two generations of one), 2 handlers, 2 circuit calls, 2 values, 3 events of which 2 may be changes | `Reachable`, `NothingLeftBehind`, `StopIsObeyed`: clients find the daemon, it leaves nothing behind, an acknowledged stop ends it unless the data plane is started while it drains. `SettingsAgree`, `RowAgrees`: the copies of configuration and circuit agree, with the exceptions they name |
| `tui` | 2 accounts, 2 request threads, a channel of 2, 3 events; a daemon or none at the start | `TuiInv`, `ScreenKeepsEdits`, `LocalDecisionsKept`, `EditsHitTarget`, `ScreenFollows` |

**Bounds.** `MaxMinted` stops the numbering of the provider's tokens. Two tokens
for the first login and one for the second give: a refresh, a rotation, a
superseded token, and a new login while the old one is refreshed. The state
space of `AccountCommit` is finite as it is. One or two accounts, one key and
two or three requests are the least with which two requests meet at one account
(limit), one key (binding) or two keys' worth of accounts (choice); a third request
lets an overshoot and a return meet. Two task slots are a data plane and its
successor.

Two executions are enough for everything two processes or two generations do to
each other; two handlers or two calls are enough to cross. `MaxEvents` counts what
comes from outside (signals, requests, faults, status checks, crashes),
`MaxChanges` those of them that change configuration, circuit or the account's row
(or start the data plane again): two, one to disturb and one to repair. Two deadlines let
an old circuit run out while a newer one holds. The proofs about this module need none of these
bounds, so a third execution or handler adds nothing to its invariants. In
`TuiClient` three keys or outside changes are an edit, one that overtakes it, and
what shows the damage (import, delete, snapshot; open, change, confirm);
a channel of two holds a snapshot from before and one from after an edit, two
accounts let a position move. `MCInit` starts from the accounts in their order (every
other start is one of these renamed), and with a screen in another order than the
index only where the daemon has the descriptor. The proofs hold for any number of accounts,
threads, events and any length of the channel.
`Symmetry` is used only in runs without liveness properties, on sets
no constant distinguishes.

**Deadlock** is checked in every run but `daemon` and `tui`, where the events are
used up: a daemon that has exited, or a terminal that was closed, stays so.

**Disturbances.** The last properties of `ProxyRuntime` hold until one of four
things happens, each of which the code permits and after which the state it
reports may stay wrong: `mark_blocked` on a live data plane, a client that gives
up while `stop()` waits, a pause or resume that writes over a state that
changed since it read it, and a start while an earlier task has set its state
but not `running`. `StopReturns` does not depend on them.
Likewise `DisableRestores` and `NoSpuriousDrift` name their exceptions: a call
interrupted between its two writes, a backup older than what it is used for,
and a table that the user edited while a migrated record removes it.
`promised = Unsure` and `agreed` of `DaemonState` are the same idea, with the
difference that a later change that runs alone ends the disturbance: the properties
say which operation repairs what. An execution leaves `agreed` when one of its writes
fails or crosses another, when another execution writes the row, and when the row
goes with its account while the circuit is open; it enters when it begins with the
row or writes it alone. Crashes, restarts, SIGHUP and commits that keep the account
never end the agreement. `StopIsObeyed` excepts a replaced generation, and one whose
data plane was started again while it drained: `stop()` then waits for that one, which
is the counterexample of `runtime_two_callers` inside a shutdown.
`EditsHitTarget` excepts a dialog under which an adopted snapshot has
changed the rows (section 6), `ScreenFollows` a held edit that another commit has
overtaken; both are losses the code permits.

## 4. Fairness

The fairness is part of `FairSpec`, action by action:

* `RequestsEnd`: the runtime polls every request (weak fairness of its steps).
  The lookup needs strong fairness: a worker is free again and again, never
  for good, and tokio's queues are FIFO. It also assumes that upstream answers
  or breaks off. The client has no read timeout (`proxy/server.rs:638`), so an
  upstream that hangs for ever holds its lease for ever.
* `RefreshEnds`: `tokio::sync::Mutex` is handed over in order of arrival
  (strong fairness of `Enter`); the provider answers or the connection breaks.
  The refresher's client has no timeout either (`proxy/auth.rs:48`).
* `StopReturns`: every call and every task is scheduled; the drain has a timeout
  and the accept loop looks at its flag every 50 ms. Clients of the proxy need
  not be fair: connections may stay open and requests may never be answered.

* `StopIsObeyed`: the runtime polls what is ready (weak fairness of each
  execution's own steps `OwnStep`), the drain ends within its 30 s. `Drain` is not
  enabled while a data plane started during the drain runs: `stop()` awaits its handle
  (`proxy/mod.rs:177-180`), and nothing says that anybody ends it. Nothing is assumed of
  clients, signals or handlers.
* `ScreenFollows`: the loop of `run_tui` polls both channels in every turn (weak
  fairness of `PollProbe` and `PollControl`), a probe ends with its timeout, and the
  stream ticks every second while a daemon is there (weak fairness of `Watch`). No
  key, request thread or daemon need ever act.

`AccountCommit` and `CodexIntegration` have no liveness property: their calls run
straight through.

## 5. Proofs

| theorem | for every | assumes |
|---|---|---|
| `ProxyRoutingProofs!RoutingInvariant`, `LeasesAreCounted`, `OvershootIsBounded`, `ReplaysAreBounded` | accounts, keys, limits, priorities, finite requests, workers | the constants' assumptions |
| `ProxyRoutingProofs!LimitHoldsOnOneWorker`, `BindingsStayOnOneWorker` | the same | `Workers = 1` |
| `TokenRefreshProofs!RefreshInvariant`, `ReauthIsJustified`, `SnapshotStaysUsable` | requests, logins, token bounds | none |
| `AccountCommitProofs!CommitInvariant`, `OneWorkerKeepsDecisions` | accounts, handlers | `OneWorker`: one worker, and one request at a time if somebody probes by hand |
| `AccountCommitProofs!AccountsAreOptIn` | accounts, handlers, workers, with or without monitor and manual probes | none |
| `TokenRefreshProofs!RefreshImplementsSerial` | requests, logins, token bounds | none |
| `ProxyRuntimeProofs!RuntimeInvariant`, `OneCallerSeesTheTruth`, `OneCallerStops` | tasks, connections | `OneCaller` |
| `ProxyRuntimeProofs!RuntimeImplementsPlane` | tasks, connections | `OneCaller` |
| `CodexIntegrationProofs!BackupIsKept` | callers, values | none |
| `CodexIntegrationProofs!IntegrationInvariant`, `OneCallerRestores`, `OneCallerDrifts` | values | `OneCaller` |
| `CodexIntegrationProofs!IntegrationImplementsSwitch` | values | `OneCaller` |
| `ProxyRoutingProofs!RoutingImplementsLeasePool` | the same | the constants' assumptions |
| `DaemonProofs!StateLifeInvariant`, `StateIsReachable`, `StateLeavesNothing`, `StateImplementsLife` | executions, events | none |
| `DaemonStateProofs!SettingsDoAgree`, `RowsAgree` | executions, handlers, calls, values | none |
| `TuiClientProofs!ClientSafe`, `EditsStay`, `DecisionsStay`, `DialogsHit` | accounts, threads, events, channel length | the constants' assumptions (finitely many accounts) |

"None" means no assumption beyond those the modules make about their constants.

* **Routing.** The limit is no invariant on two workers, and its bound is not
  inductive. `RoutingInv` adds: every request past its lookup has an account;
  at most `Workers` requests are inside `route()`; a counter is the number of
  requests that hold the lease (so that the saturating decrement never
  saturates); and `OvershootInv`, which counts the requests that have chosen an
  account but not its lease. A lease is taken only by one of them, and a new
  one chooses only below the limit. With `Workers = 1` the bound is the limit,
  and no second request can be between lookup and bind of one key.
* **Refresh.** `SnapshotUsable` speaks of a free lock; between the provider's
  answer and the write the snapshot is stale. `HolderInv` says what the holder
  then has in hand: the token that replaces the one in the snapshot. `lost`
  names the tokens spent behind the proxy's back (dropped requests, crashes, the
  Codex client), the only excuse for a refusal of a live login.
* **Commit.** Nothing in the code keeps two tasks apart but the absence of an
  await; on one worker that is enough (`OneTask`). `CloneAgrees` and `Underway`
  carry the decision from the clone through the copies written so far.
* **Supervisor.** That the state is the listener's is true only at rest. In
  between, `StateFits` ties the state to the stage the task has reached, and
  `CallFits` says that what a call has read is still so when it writes; with one
  caller only the task itself can spoil that, and then `disturbed` says so.
  `NoOrphanLoop` names the one who knows the task: the call that is about to keep
  its handle, or has taken it to wait, and `task` otherwise. A start finds at
  most a task that is leaving, so there is never a second loop (`OneLoop`).
* **Retries.** `ReplayBudget` is not inductive: `Sends` (in `ProxyRoutingProofs`)
  bounds the count by the stage, each kind of retry leading to a stage in which
  it is not made again.
* **Integration.** `Keeps` says that the record and `config.toml` together hold
  the user's values; `CallState` says it of the pair a call is about to write.
* **Leases.** `LeasePool` sees of a request only which account it holds, and the
  counters. A step that acquires takes a lease, one that ends a holder gives one
  back, every other one stutters. `Take` is permitted by the overshoot part of
  `RoutingInv`: who is about to acquire counts against it already.
* **Opt-in.** `OptIn` holds for any number of workers, where `DecisionsKept`
  fails: a race may bring back what an account was, but only `Decide` adds a pool
  member that no clone had. `ConsentInv` says so of every copy and of
  every clone a task holds.
* **Serial refresh.** `TurnIn` finds the turn under way in the one request that holds
  the lock; that there is one is `SingleFlight`. A step of another request leaves
  the turn alone (a request that waits or is dropped has none), and a step of
  the holder begins, moves or ends it. A dropped holder, or a crash, releases
  the turn: what the provider gave it is lost, which `SerialRefresh` permits.
* **Switch.** The three files change one by one, so the switch is thrown at one
  of the writes: the one of `config.toml`. `On` reads the record before it and
  the record about to be written after it. That a call writes what the switch
  would (`Planned`) rests on `Keeps` and `CallState`.
* **Plane.** `Phase` reads neither `state` nor `running`: it is `stopping` while a call of
  stop is under way, else what the tasks are at. That a task comes up only when none
  was there, and that the wait of a stop ends with none, is `RuntimeInv`.
* **Lifecycle.** That the files name the daemon follows from where the last
  generation of the process is, if nobody else has written them: `FilesFit`.
  `Generations` says that all others of the process are `replaced`, `Apart` that two
  processes spoil each other, `ControlFits` what the control server of each may
  be doing. `StateImplementsLife` shows that every step of `DaemonState` is one of
  `DaemonLifecycle` or leaves it alone, which carries the invariant over.
* **Configuration and circuits.** `StateInv` (in `DaemonStateProofs`) follows a
  handler that is alone (`solo`) through its stages: what it has not reached yet still
  holds what was promised, what it has passed holds its clone. A second one takes `solo`
  from both. For a circuit, a call that is alone will write what memory holds; a
  member of `agreed` that writes nothing has in memory what the row says, where an
  empty memory also fits a row that is missing or has lapsed. A deadline passes for
  every copy of it at once, so it never parts two that agree.
* **Terminal UI.** `ScreenKeepsEdits` needs to know what is still on its way:
  after an acknowledged edit every snapshot in the channel is at least as new, or the
  list is held (`Kept`); and what is held differs from every older snapshot, because
  the edit gave an account a stamp that did not exist before (`DataInv`: no
  index carries a stamp newer than its version). A deletion leaves no stamp, so it is no
  promise. `UiInv` keeps dialogs and checks apart. `EditsHitTarget` rests on
  `DialogFits`: a dialog that has not been moved still selects its target. Every
  step that changes the screen's order keeps it, because no key but the dialog's own edits
  the list while one is open, an answer that is refused or lost leaves the list alone (the
  editor may stay after one), and an adopted snapshot that changes the rows sets `moved`.
  Orders are finite sequences, so finitely many accounts are assumed.

**Only model-checked**: the liveness properties (`RequestsEnd`, `RefreshEnds`,
`StopReturns`, `StopIsObeyed`, `ScreenFollows`), for which the prover has no
support, and everything the four counterexamples show. Every other invariant and
action property of a passing run is a theorem.

## 6. Where the code and its own words part

Four are runs with a counterexample: `routing_sticky_race`, `commit_monitor_race`,
`runtime_two_callers` and `integration_crash`. Met while modelling, but not kept
as runs:

* The limit is called the "maximum simultaneous upstream requests"
  (`types.rs:32`), but is checked before the lease is counted
  (`proxy/server.rs:391`); `OvershootBounded` is what holds.
* A late success lifts a 403 quarantine (`proxy/server.rs:522`) that
  `config.example.toml:70` calls persistent.
* `update_from_current` and import write the snapshot without the refresher's
  lock (`account.rs:383-397`); a refresh under way writes the old login back
  (`proxy/auth.rs:175`).
* `probe` commits a clone of the whole index that is as old as the probe
  (`daemon/control_api.rs:831`); the revision (`types.rs:36-38`) is not compared.
* On two workers the reloader replaces the store by a file it read before a
  commit (`daemon/mod.rs:140` against `control_api.rs:1135`).
* The file cannot hold every status (`account.rs:54-60`) and is read back into
  the store (`storage.rs:348`).
* A quarantine is "persistent" (`config.example.toml:70`), but its row goes with the
  account (`storage.rs:390-397`, cascade at 187) and comes back without it
  (`storage.rs:895-899`): after a deletion and a reload that brings the account back,
  the router's memory still holds the circuit (DELETE, `control_api.rs:987-1057`,
  closes none) until a restart forgets it.
* `mark_blocked` leaves the listener of a live data plane (`proxy/mod.rs:167`),
  and keep-alive connections serve requests after a stop (`proxy/server.rs:266`).
* A disable that is interrupted (`integration.rs:213`) leaves a drift that only
  a hand can remove; a disable of a migrated record removes a table that the
  user has edited (`integration.rs:200-204` against 4-6); two callers can reach
  `unreachable!()` (`integration.rs:109-121`).
* `config.example.toml:147-164` documents SIGHUP as a hot reload. It reaches
  neither the serving router nor the data plane: `daemon/mod.rs:421` runs a second
  daemon in the same process on the same ports. A stop that was sent to the old
  generation is acknowledged and lost, and removes the new one's descriptor; a
  SIGTERM in that window is swallowed.
* A second daemon, or the drain of an old one, removes the PID file and the
  descriptor of the new one; a status check does the same to a PID file
  (`daemon/control.rs:50`); a closed embedded terminal stops whichever daemon the
  descriptor names, then waits for its own thread.
* PATCH saves a clone over edits made by hand, and the terminal UI saves the whole
  configuration it was started with over what the daemon has saved
  (`tui/events.rs:619`, `667`, `839`). `ConfigChanged` reaches the reloader's own
  clone only (`daemon/mod.rs:165`). POST /proxy/start is answered with ok when
  the save failed; an option of one run is persisted by any later PATCH.
* A client gives up on POST /proxy/stop after 2 s, and the handler that would
  switch the integration off is dropped with the connection.
* `types.rs:35` calls the revision "used to reject stale daemon snapshots": no
  code compares it. An import from the editor, and the end of a local check, are
  not held, so an older snapshot that was already queued takes them off the
  screen for a while.
* "Local account edits are held until a daemon snapshot confirms them"
  (`tui/ui.rs:377`): only a snapshot that *equals* the list confirms. An edit that
  another commit overtakes (a probe of the monitor is enough), or that was refused,
  freezes the screen until the next edit. A deletion may be confirmed by a snapshot
  from before the account's import, and a later one shows it again.
* Pool switches and deletions made without a daemon are undone when one starts: the
  rows of the store win (`storage.rs:849-935`). A re-import of a deleted account
  meets the unique index (`storage.rs:178`), and the daemon does not start.
* Threads of `enqueue_control` are not ordered: of two quick toggles either may
  be the last. A toggle sent during a local check is undone by the list that the
  check saves (`tui/actions.rs:549`).
* A bundle with a bad entry, imported without a daemon, leaves the entries before
  it in the list, unsaved, and the next edit saves them (`ImportPart`).
* The dialog that deletes an account names none (`tui/draw.rs:2207`) and acts on
  the position (`tui/events.rs:955`, `tui/ui.rs:583`). With no account coming or going, a
  re-import, an update-current (`account.rs:222`, `403`) or a priority
  (`control_api.rs:964-966`) set by another client reorders the daemon's list
  (`storage.rs:423`), and a rename moves a row under a filter (`tui/ui.rs:546-563`): once
  that snapshot is adopted, Enter deletes or renames another account.
* A daemon that is stopped while a client sends POST /v1/proxy/start does not end: the
  start is not refused in `Draining` (`proxy/mod.rs:118-124`), and `stop()` waits for the
  new data plane (177-180). A second terminal UI with `--proxy` sends one
  (`main.rs:105-110`).
* PATCH lowers a concurrency limit (`control_api.rs:967-969`) below the leases that are
  out: they end by themselves.

## 7. Not modelled

* **Monitor schedule.** `probe_due` and `schedule_next` are arithmetic on a clock: 15 s
  or 5 s while healthy, else doubling up to 300 s, against the 90 s of `eligible`.
  Every module lets a probe happen at any time and an account be out for any time, so
  what is shown holds for every schedule; how long a recovered account is
  out is not shown.
* **Strategies.** Any account of the best tier may be chosen; quota
  arithmetic and scores are functions of one account. `Recommender` and
  `AccountSwitcher` have no caller.
* **Retention, metrics, event log.** Nothing decides on these tables.
* **Import formats**, parsing and repair of `config.toml`: functions of one file.
* **Current account** and its fallback: shown to the user, never read by `route`.
* **Sticky bindings on disk.** Saved only for keys that begin with `session:`, which
  `identity.rs` never makes: the code is not reached.
* **Limits and priorities that change.** `Limit` and `Priority` of `ProxyRouting` are
  constants. PATCH /v1/accounts/{id} changes them at run time (`control_api.rs:964-969`): after
  a lowered limit more leases may be out than `OvershootBounded` says, until they end.
* **Terminal UI**: the cursor outside dialogs, help, drawing, completion; requests that do not
  touch the list (switch, pause) are `Prefer` and `SetPaused` of `ProxyRouting`.
  `probe_account` and `probe_all_accounts` (`tui/actions.rs:391-472`) have no caller.
* **Diagnostics, translation, fingerprint, notifications, Windows service, paths**: no
  state.

What would come next: a clock for the monitor's schedule; `TuiClient` on top of
`AccountCommit`'s steps instead of one commit; `DecisionsKept` for one worker as the
refinement of an index that is one variable.
