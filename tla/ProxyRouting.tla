---------------------------- MODULE ProxyRouting ----------------------------
(***************************************************************************)
(* The data plane of codex-switcher: the Router of proxy/routing.rs and    *)
(* the requests of proxy/server.rs that go through it.                     *)
(*                                                                         *)
(* A request is a task of a multi-threaded runtime.  route() takes one     *)
(* lock after another and the lease is taken after it returns, so one      *)
(* call is four steps here: Lookup, Select, Bind and Acquire.  There is no *)
(* await between them, so at most Workers requests (threads of the         *)
(* runtime) are between Lookup and Acquire.  Every later stage waits at an *)
(* await, where a client that disconnects drops the request.               *)
(*                                                                         *)
(* An account is abstracted to what eligible() tells apart.  The SQLite    *)
(* copy of circuits and bindings is read at start only and is left out.    *)
(* Limit and Priority stay as they are: PATCH /v1/accounts may change them *)
(* at run time, and a limit that is lowered leaves the leases above it to  *)
(* end by themselves (active[a] > Limit[a], which no bound here allows).   *)
(***************************************************************************)
EXTENDS Integers, FiniteSets

CONSTANTS
  Accounts,    \* account ids of the index
  Keys,        \* sticky keys: one per client process, or per connection
  Requests,    \* slots for concurrent requests
  Workers,     \* worker threads of the tokio runtime
  Limit,       \* concurrency_limit of each account between two changes, 0 for unlimited
  Priority,    \* priority of each account, lower is preferred
  NoAccount, NoKey

ASSUME WorkersAssumption == Workers \in Nat \ {0}
ASSUME LimitAssumption == Limit \in [Accounts -> Nat]
ASSUME PriorityAssumption == Priority \in [Accounts -> Int]
ASSUME RequestsAssumption == IsFiniteSet(Requests)
ASSUME NoneAssumption == NoAccount \notin Accounts /\ NoKey \notin Keys

VARIABLES
  standing,    \* what the account's pool membership, probe and quota allow
  circuits,    \* the circuit of each account
  bindings,    \* sticky key -> account
  preferred,   \* the account the user switched to
  switching,   \* prefer() has written preferred but not cleared bindings
  paused,      \* routing is paused
  active,      \* leases counted per account
  req          \* the requests

vars == <<standing, circuits, bindings, preferred, switching, paused, active, req>>
pool == <<standing, preferred, switching, paused>>   \* no request changes these

-----------------------------------------------------------------------------
(* "open": in the pool, Live, probed within 90 s, used below threshold.    *)
(* "bound": the same, but used past the threshold: existing bindings only. *)
Standing == {"open", "bound", "out"}

(* A circuit without a deadline: reauth_required ("reauth") or any other   *)
(* reason ("denied"); one before its deadline, and one past it that        *)
(* expire_circuits has not removed yet.                                    *)
Circuit == {"closed", "reauth", "denied", "cooling", "expired"}

InRoute == {"select", "bind", "bind_preferred", "acquire"}
Awaiting == {"sent", "resent", "retried", "refreshed"}
Leased == {"prepare", "refreshing", "streaming"} \cup Awaiting
Stage == {"idle", "lookup"} \cup InRoute \cup Leased

Request == [stage : Stage, key : Keys \cup {NoKey}, account : Accounts \cup {NoAccount},
            replayable : BOOLEAN, retries : Nat]

IdleRequest == [stage |-> "idle", key |-> NoKey, account |-> NoAccount,
                replayable |-> FALSE, retries |-> 0]

TypeOK ==
  /\ standing \in [Accounts -> Standing]
  /\ circuits \in [Accounts -> Circuit]
  /\ bindings \in [Keys -> Accounts \cup {NoAccount}]
  /\ preferred \in Accounts \cup {NoAccount}
  /\ switching \in BOOLEAN
  /\ paused \in BOOLEAN
  /\ active \in [Accounts -> Nat]
  /\ req \in [Requests -> Request]

(* AccountIndex after a probe: accounts are opt-in, no circuit, no lease.  *)
Init ==
  /\ standing \in [Accounts -> {"open", "out"}]
  /\ circuits = [a \in Accounts |-> "closed"]
  /\ bindings = [k \in Keys |-> NoAccount]
  /\ preferred = NoAccount
  /\ switching = FALSE
  /\ paused = FALSE
  /\ active = [a \in Accounts |-> 0]
  /\ req = [r \in Requests |-> IdleRequest]

-----------------------------------------------------------------------------
(* Mutant of Eligible: an off-by-one in the comparison with the limit.     *)
EligibleInclusive(circ, a, existing) ==
  /\ standing[a] = "open" \/ (existing /\ standing[a] = "bound")
  /\ circ[a] = "closed"
  /\ Limit[a] = 0 \/ active[a] <= Limit[a]

(* Router::eligible: an existing binding ignores the quota threshold, and  *)
(* nothing else.                                                           *)
Eligible(circ, a, existing) ==
  /\ standing[a] = "open" \/ (existing /\ standing[a] = "bound")
  /\ circ[a] = "closed"
  /\ Limit[a] = 0 \/ active[a] < Limit[a]

(* Router::expire_circuits *)
Swept == [a \in Accounts |-> IF circuits[a] = "expired" THEN "closed" ELSE circuits[a]]

(* The best priority tier of the eligible accounts. *)
Tier ==
  LET able == {a \in Accounts : Eligible(circuits, a, FALSE)}
  IN  {a \in able : \A b \in able : Priority[a] <= Priority[b]}

Become(r, q) == req' = [req EXCEPT ![r] = q]

Goto(r, stage) == Become(r, [req[r] EXCEPT !.stage = stage])

(* The account is chosen. *)
Route(r, stage, a) == Become(r, [req[r] EXCEPT !.stage = stage, !.account = a])

(* One more send upstream, of the captured body. *)
Resend(r, stage) == Become(r, [req[r] EXCEPT !.stage = stage, !.retries = @ + 1])

(* The request ends, without a lease. *)
Drop(r) == Become(r, IdleRequest)

(* Router::release, the drop of an AccountLease: a saturating decrement.   *)
Release(r) ==
  /\ active' = [active EXCEPT ![req[r].account] = IF @ > 0 THEN @ - 1 ELSE 0]
  /\ Drop(r)

-----------------------------------------------------------------------------
(* handle_request: a request of sticky key k.  Its body can be sent again  *)
(* only if it was captured to the end and within 32 MiB.                   *)
Accept(r, k, replayable) ==
  /\ req[r].stage = "idle"
  /\ Become(r, [IdleRequest EXCEPT !.stage = "lookup", !.key = k,
                                    !.replayable = replayable])
  /\ UNCHANGED <<pool, circuits, bindings, active>>

InRouteNow == {r \in Requests : req[r].stage \in InRoute}

(* Mutant of Lookup: it waits for the bound account to become eligible.    *)
LookupWaits(r) ==
  LET bound == bindings[req[r].key] IN
  /\ req[r].stage = "lookup"
  /\ Cardinality(InRouteNow) < Workers
  /\ ~paused
  /\ circuits' = Swept
  /\ IF bound = NoAccount
       THEN Goto(r, "select")
       ELSE Eligible(Swept, bound, TRUE) /\ Route(r, "acquire", bound)
  /\ UNCHANGED <<pool, bindings, active>>

(* route(), up to and including the check of an existing binding.  A bound *)
(* key whose account is not eligible is answered 503.                      *)
Lookup(r) ==
  LET bound == bindings[req[r].key] IN
  /\ req[r].stage = "lookup"
  /\ Cardinality(InRouteNow) < Workers
  /\ \/ /\ paused
        /\ Drop(r)
        /\ UNCHANGED circuits
     \/ /\ ~paused
        /\ circuits' = Swept
        /\ \/ /\ bound = NoAccount
              /\ Goto(r, "select")
           \/ /\ bound # NoAccount
              /\ Eligible(Swept, bound, TRUE)
              /\ Route(r, "acquire", bound)
           \/ /\ bound # NoAccount
              /\ ~Eligible(Swept, bound, TRUE)
              /\ Drop(r)
  /\ UNCHANGED <<pool, bindings, active>>

(* route(), the choice of an account for a key without a binding: the      *)
(* preferred one if it is in the best tier, otherwise what the strategy    *)
(* picks in it.  The guard of preferred is held until that branch has      *)
(* bound the key.                                                          *)
Select(r) ==
  /\ req[r].stage = "select"
  /\ \/ /\ Tier = {}
        /\ Drop(r)
     \/ /\ preferred \in Tier
        /\ Route(r, "bind_preferred", preferred)
     \/ /\ preferred \notin Tier
        /\ \E a \in Tier : Route(r, "bind", a)
  /\ UNCHANGED <<pool, circuits, bindings, active>>

(* Router::bind *)
Bind(r) ==
  /\ req[r].stage \in {"bind", "bind_preferred"}
  /\ bindings' = [bindings EXCEPT ![req[r].key] = req[r].account]
  /\ Goto(r, "acquire")
  /\ UNCHANGED <<pool, circuits, active>>

(* AccountLease::new *)
Acquire(r) ==
  /\ req[r].stage = "acquire"
  /\ active' = [active EXCEPT ![req[r].account] = @ + 1]
  /\ Goto(r, "prepare")
  /\ UNCHANGED <<pool, circuits, bindings>>

(* Router::open_circuit and close_circuit *)
SetCircuit(a, c) == circuits' = [circuits EXCEPT ![a] = c]

(* The snapshot is read and, for a JWT about to expire, refreshed: the     *)
(* request is sent, fails without credentials, or needs a new login.       *)
Prepare(r) ==
  /\ req[r].stage = "prepare"
  /\ \/ Goto(r, "sent") /\ UNCHANGED <<circuits, active>>
     \/ Release(r) /\ UNCHANGED circuits
     \/ Release(r) /\ SetCircuit(req[r].account, "reauth")
  /\ UNCHANGED <<pool, bindings>>

(* No answer from upstream, or an error body that cannot be read.  Only a  *)
(* failure of the first send is repeated, and only with the whole body.    *)
SendFails(r) ==
  /\ req[r].stage \in Awaiting
  /\ \/ /\ req[r].stage = "sent" /\ req[r].replayable
        /\ Resend(r, "resent")
        /\ UNCHANGED active
     \/ Release(r)
  /\ UNCHANGED <<pool, circuits, bindings>>

(* Mutant of ServerError: nothing remembers that the body was sent again.  *)
ServerErrorAgain(r) ==
  /\ req[r].stage \in Awaiting
  /\ IF req[r].replayable
       THEN Resend(r, "retried")
       ELSE Goto(r, "streaming")
  /\ UNCHANGED <<pool, circuits, bindings, active>>

(* A 5xx answer is repeated once, and relayed otherwise. *)
ServerError(r) ==
  /\ req[r].stage \in Awaiting
  /\ IF req[r].stage \in {"sent", "resent"} /\ req[r].replayable
       THEN Resend(r, "retried")
       ELSE Goto(r, "streaming")
  /\ UNCHANGED <<pool, circuits, bindings, active>>

(* 2xx closes the circuit of the account, whoever opened it. *)
Succeed(r) ==
  /\ req[r].stage \in Awaiting
  /\ SetCircuit(req[r].account, "closed")
  /\ Goto(r, "streaming")
  /\ UNCHANGED <<pool, bindings, active>>

(* Any other status is relayed as it is. *)
Relay(r) ==
  /\ req[r].stage \in Awaiting
  /\ Goto(r, "streaming")
  /\ UNCHANGED <<pool, circuits, bindings, active>>

(* circuit_for_failure: 401 and 403 have no deadline.  A rate limit ends   *)
(* by Retry-After, at the quota reset last seen (which may be past), after *)
(* the configured fallback, or never if that is 0.                         *)
CircuitFor(failure) ==
  CASE failure = "expired"    -> {"reauth"}
    [] failure = "denied"     -> {"denied"}
    [] failure = "rate_limit" -> {"cooling", "expired", "denied"}

(* The rest of proxy_request for an inspected failure: a short error body  *)
(* is buffered and the lease dropped, a longer one is streamed.            *)
Refuse(r, failure) ==
  /\ \E c \in CircuitFor(failure) : SetCircuit(req[r].account, c)
  /\ Release(r) \/ (Goto(r, "streaming") /\ UNCHANGED active)

(* 403, a rate limit, or a 401 that is not token_expired. *)
Denied(r) ==
  /\ req[r].stage \in Awaiting
  /\ \E failure \in {"denied", "rate_limit"} : Refuse(r, failure)
  /\ UNCHANGED <<pool, bindings>>

(* 401 token_expired is refreshed and repeated once, if it can be.         *)
TokenExpired(r) ==
  /\ req[r].stage \in Awaiting
  /\ IF req[r].stage # "refreshed" /\ req[r].replayable
       THEN Goto(r, "refreshing") /\ UNCHANGED <<circuits, active>>
       ELSE Refuse(r, "expired")
  /\ UNCHANGED <<pool, bindings>>

(* refresh_rejected answers: the request is sent again with the credentials *)
(* now on disk, fails without them, or the first 401 stands.               *)
Refreshed(r) ==
  /\ req[r].stage = "refreshing"
  /\ \/ Resend(r, "refreshed") /\ UNCHANGED <<circuits, active>>
     \/ Release(r) /\ UNCHANGED circuits
     \/ Refuse(r, "expired")
  /\ UNCHANGED <<pool, bindings>>

(* The body ends, or breaks: StreamCompletion is dropped. *)
StreamEnd(r) ==
  /\ req[r].stage = "streaming"
  /\ Release(r)
  /\ UNCHANGED <<pool, circuits, bindings>>

(* Mutant of Disconnect: a dropped request keeps its lease. *)
DisconnectLeaks(r) ==
  /\ req[r].stage \in {"lookup"} \cup Leased
  /\ Drop(r)
  /\ UNCHANGED <<pool, circuits, bindings, active>>

(* The client goes away at an await: hyper drops the request, and what it  *)
(* owns is dropped with it.                                                *)
Disconnect(r) ==
  /\ \/ req[r].stage = "lookup" /\ Drop(r) /\ UNCHANGED active
     \/ req[r].stage \in Leased /\ Release(r)
  /\ UNCHANGED <<pool, circuits, bindings>>

-----------------------------------------------------------------------------
(* A probe of the monitor or of POST /probe is merged.  Live closes the    *)
(* circuit; a manual probe that finds a dead login opens it.               *)
Probe(a) ==
  /\ \/ \E s \in Standing : /\ standing' = [standing EXCEPT ![a] = s]
                            /\ SetCircuit(a, "closed")
     \/ /\ standing' = [standing EXCEPT ![a] = "out"]
        /\ UNCHANGED circuits
     \/ /\ standing' = [standing EXCEPT ![a] = "out"]
        /\ SetCircuit(a, "reauth")
  /\ UNCHANGED <<bindings, preferred, switching, paused, active, req>>

(* An index is published: PATCH or DELETE, or a clone or the file that may *)
(* bring back what an account was before, its circuit as it is.  Or the    *)
(* last probe is older than 90 s.                                          *)
Publish(a) ==
  /\ \E s \in Standing \ {standing[a]} : standing' = [standing EXCEPT ![a] = s]
  /\ UNCHANGED <<circuits, bindings, preferred, switching, paused, active, req>>

(* POST /pool with enabled, and /update-current: the user lifts the circuit. *)
Readmit(a) ==
  /\ \E s \in Standing : standing' = [standing EXCEPT ![a] = s]
  /\ SetCircuit(a, "closed")
  /\ UNCHANGED <<bindings, preferred, switching, paused, active, req>>

(* A circuit's deadline passes. *)
CoolDown(a) ==
  /\ circuits[a] = "cooling"
  /\ SetCircuit(a, "expired")
  /\ UNCHANGED <<pool, bindings, active, req>>

(* Router::prefer writes preferred, which waits for its readers, and then  *)
(* clears the bindings.  The user switches once at a time.                 *)
Prefer(a) ==
  /\ ~switching
  /\ \A r \in Requests : req[r].stage # "bind_preferred"
  /\ preferred' = a
  /\ switching' = TRUE
  /\ UNCHANGED <<standing, circuits, bindings, paused, active, req>>

ClearBindings ==
  /\ switching
  /\ bindings' = [k \in Keys |-> NoAccount]
  /\ switching' = FALSE
  /\ UNCHANGED <<standing, circuits, preferred, paused, active, req>>

(* Router::pause and resume *)
SetPaused ==
  /\ paused' = ~paused
  /\ UNCHANGED <<standing, circuits, bindings, preferred, switching, active, req>>

-----------------------------------------------------------------------------
(* The steps of a request once it has been accepted; not its disconnect.   *)
Step(r) ==
  \/ Select(r) \/ Bind(r) \/ Acquire(r)
  \/ Prepare(r) \/ SendFails(r) \/ ServerError(r)
  \/ Succeed(r) \/ Relay(r) \/ Denied(r) \/ TokenExpired(r)
  \/ Refreshed(r) \/ StreamEnd(r)

RequestNext(r) ==
  \/ \E k \in Keys, b \in BOOLEAN : Accept(r, k, b)
  \/ Lookup(r)
  \/ Step(r)
  \/ Disconnect(r)

AccountNext(a) ==
  Probe(a) \/ Publish(a) \/ Readmit(a) \/ CoolDown(a) \/ Prefer(a)

Next ==
  \/ \E r \in Requests : RequestNext(r)
  \/ \E a \in Accounts : AccountNext(a)
  \/ ClearBindings
  \/ SetPaused

Spec == Init /\ [][Next]_vars

(* The runtime schedules every task, one that keeps waiting for a worker   *)
(* thread too (its queues are fair), and upstream answers or breaks off.   *)
Fairness == \A r \in Requests : WF_vars(Step(r)) /\ SF_vars(Lookup(r))

FairSpec == Spec /\ Fairness

-----------------------------------------------------------------------------
Holders(a) == {r \in Requests : req[r].stage \in Leased /\ req[r].account = a}

(* Requests that have chosen a but do not hold its lease yet. *)
Choosing(a) ==
  {r \in Requests : req[r].stage \in {"bind", "bind_preferred", "acquire"}
                      /\ req[r].account = a}

(* Every lease is counted once and given back once, on every path out of   *)
(* proxy_request (answer, error, refused refresh, disconnect): the count   *)
(* eligible() compares with the limit is the number of requests that hold  *)
(* the account.                                                            *)
LeaseAccounting == \A a \in Accounts : active[a] = Cardinality(Holders(a))

(* eligible() and AccountLease::new are separate, so the limit can be      *)
(* passed; but by no more than the other worker threads that were inside   *)
(* route() at the time.                                                    *)
OvershootBounded ==
  \A a \in Accounts : Limit[a] > 0 => active[a] < Limit[a] + Workers

(* The inductive invariant behind the two: a request past its lookup knows *)
(* its account, at most Workers are in route(), and the requests that have *)
(* chosen an account already count against the overshoot.                  *)
Chosen ==
  \A r \in Requests :
    /\ req[r].stage # "idle" => req[r].key \in Keys
    /\ req[r].stage \in {"bind", "bind_preferred", "acquire"} \cup Leased
         => req[r].account \in Accounts

RouteSlots == Cardinality(InRouteNow) <= Workers

OvershootInv ==
  \A a \in Accounts :
    Limit[a] > 0 => active[a] + Cardinality(Choosing(a)) < Limit[a] + Workers

RoutingInv == TypeOK /\ Chosen /\ RouteSlots /\ LeaseAccounting /\ OvershootInv

(* proxy_request uses its account like a semaphore: the steps of a request *)
(* that acquire and drop an AccountLease are the steps of LeasePool, and   *)
(* every other step of the data plane leaves leases alone.                 *)
Pool == INSTANCE LeasePool WITH
  holds <- [r \in Requests |-> IF req[r].stage \in Leased THEN req[r].account
                                                         ELSE NoAccount],
  count <- active

LeasesArePooled == Pool!Spec

(* What the field's comment says: maximum simultaneous upstream requests.  *)
ConcurrencyLimit ==
  \A a \in Accounts : Limit[a] > 0 => active[a] <= Limit[a]

(* A sticky key is never moved from one account to another: its binding    *)
(* goes away only when the user switches accounts.                         *)
BindingNeverMigrates ==
  [][\A k \in Keys : bindings[k] # NoAccount =>
        \/ bindings'[k] = bindings[k]
        \/ switching /\ bindings'[k] = NoAccount]_vars

(* A body that was not captured whole is never sent twice, and no body is  *)
(* sent more than four times (transport, 5xx, refreshed token).            *)
ReplayBudget ==
  \A r \in Requests :
    /\ req[r].retries > 0 => req[r].replayable
    /\ req[r].retries <= 3

(* A request that is lifted out of the queue ends and gives its lease back, *)
(* whatever happens to its account meanwhile.                              *)
RequestsEnd == \A r \in Requests : req[r].stage # "idle" ~> req[r].stage = "idle"
=============================================================================
