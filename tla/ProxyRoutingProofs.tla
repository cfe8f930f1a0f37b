------------------------- MODULE ProxyRoutingProofs -------------------------
(***************************************************************************)
(* Proofs about ProxyRouting, for every set of accounts, keys, requests    *)
(* and every number of worker threads.                                     *)
(***************************************************************************)
EXTENDS ProxyRouting, FiniteSetTheorems, TLAPS

(* The step changes no request but r. *)
OnlyMoves(r) ==
  /\ req' \in [Requests -> Request]
  /\ \A p \in Requests : p # r => req'[p] = req[p]

(* A record update keeps the type and the fields it does not name.         *)
LEMMA GotoRecord ==
  ASSUME NEW x \in Request, NEW s \in Stage
  PROVE  LET q == [x EXCEPT !.stage = s]
         IN  /\ q \in Request
             /\ q.stage = s /\ q.account = x.account /\ q.key = x.key
             /\ q.retries = x.retries /\ q.replayable = x.replayable
BY DEF Request

LEMMA ResendRecord ==
  ASSUME NEW x \in Request, NEW s \in Stage
  PROVE  LET q == [x EXCEPT !.stage = s, !.retries = @ + 1]
         IN  /\ q \in Request
             /\ q.stage = s /\ q.account = x.account /\ q.key = x.key
             /\ q.retries = x.retries + 1 /\ q.replayable = x.replayable
<1>1. x.retries + 1 \in Nat
  BY DEF Request
<1> QED BY <1>1 DEF Request

LEMMA IdleRecord ==
  /\ IdleRequest \in Request
  /\ IdleRequest.stage = "idle" /\ IdleRequest.retries = 0
BY DEF Request, IdleRequest, Stage

LEMMA AcceptRecord ==
  ASSUME NEW k \in Keys, NEW b \in BOOLEAN
  PROVE  LET q == [IdleRequest EXCEPT !.stage = "lookup", !.key = k, !.replayable = b]
         IN  /\ q \in Request
             /\ q.stage = "lookup" /\ q.key = k
             /\ q.retries = 0 /\ q.replayable = b
<1>1. ASSUME NEW x \in Request, x.retries = 0, NEW s \in Stage
      PROVE  LET q == [x EXCEPT !.stage = s, !.key = k, !.replayable = b]
             IN  /\ q \in Request
                 /\ q.stage = s /\ q.key = k
                 /\ q.retries = 0 /\ q.replayable = b
  BY <1>1 DEF Request
<1>2. "lookup" \in Stage
  BY DEF Stage
<1> QED BY <1>1, <1>2, IdleRecord

(* What the four ways to move a request do to it, and to nothing else.     *)
LEMMA BecomeMoves ==
  ASSUME TypeOK, NEW r \in Requests, NEW q \in Request, Become(r, q)
  PROVE  OnlyMoves(r) /\ req'[r] = q
BY DEF TypeOK, Become, OnlyMoves

LEMMA GotoMoves ==
  ASSUME TypeOK, NEW r \in Requests, NEW s \in Stage, Goto(r, s)
  PROVE  /\ OnlyMoves(r)
         /\ req'[r].stage = s /\ req'[r].account = req[r].account
         /\ req'[r].key = req[r].key /\ req'[r].retries = req[r].retries
         /\ req'[r].replayable = req[r].replayable
<1> DEFINE q == [req[r] EXCEPT !.stage = s]
<1>1. req[r] \in Request
  BY DEF TypeOK
<1>2. /\ q \in Request
      /\ q.stage = s /\ q.account = req[r].account
      /\ q.key = req[r].key /\ q.retries = req[r].retries
      /\ q.replayable = req[r].replayable
  BY <1>1, GotoRecord
<1>3. Become(r, q)
  BY DEF Goto
<1> HIDE DEF q
<1> QED BY <1>2, <1>3, BecomeMoves

LEMMA RouteMoves ==
  ASSUME TypeOK, NEW r \in Requests, NEW s \in Stage, NEW a \in Accounts,
         Route(r, s, a)
  PROVE  /\ OnlyMoves(r)
         /\ req'[r].stage = s /\ req'[r].account = a
         /\ req'[r].key = req[r].key /\ req'[r].retries = req[r].retries
         /\ req'[r].replayable = req[r].replayable
<1> DEFINE q == [req[r] EXCEPT !.stage = s, !.account = a]
<1>1. req[r] \in Request
  BY DEF TypeOK
<1>2. /\ q \in Request
      /\ q.stage = s /\ q.account = a
      /\ q.key = req[r].key /\ q.retries = req[r].retries
      /\ q.replayable = req[r].replayable
  BY <1>1 DEF Request
<1>3. Become(r, q)
  BY DEF Route
<1> HIDE DEF q
<1> QED BY <1>2, <1>3, BecomeMoves

LEMMA ResendMoves ==
  ASSUME TypeOK, NEW r \in Requests, NEW s \in Stage, Resend(r, s)
  PROVE  /\ OnlyMoves(r)
         /\ req'[r].stage = s /\ req'[r].account = req[r].account
         /\ req'[r].key = req[r].key /\ req'[r].retries = req[r].retries + 1
         /\ req'[r].replayable = req[r].replayable
<1> DEFINE q == [req[r] EXCEPT !.stage = s, !.retries = @ + 1]
<1>1. req[r] \in Request
  BY DEF TypeOK
<1>2. /\ q \in Request
      /\ q.stage = s /\ q.account = req[r].account
      /\ q.key = req[r].key /\ q.retries = req[r].retries + 1
      /\ q.replayable = req[r].replayable
  BY <1>1, ResendRecord
<1>3. Become(r, q)
  BY DEF Resend
<1> HIDE DEF q
<1> QED BY <1>2, <1>3, BecomeMoves

LEMMA DropMoves ==
  ASSUME TypeOK, NEW r \in Requests, Drop(r)
  PROVE  /\ OnlyMoves(r)
         /\ req'[r].stage = "idle" /\ req'[r].retries = 0
BY IdleRecord, BecomeMoves DEF Drop

LEMMA AcceptMoves ==
  ASSUME TypeOK, NEW r \in Requests, NEW k \in Keys, NEW b \in BOOLEAN, Accept(r, k, b)
  PROVE  /\ OnlyMoves(r)
         /\ req'[r].stage = "lookup" /\ req'[r].key = k /\ req'[r].retries = 0
<1> DEFINE q == [IdleRequest EXCEPT !.stage = "lookup", !.key = k, !.replayable = b]
<1>1. q \in Request /\ q.stage = "lookup" /\ q.key = k /\ q.retries = 0
  BY AcceptRecord
<1>2. Become(r, q)
  BY DEF Accept
<1> HIDE DEF q
<1> QED BY <1>1, <1>2, BecomeMoves

-----------------------------------------------------------------------------
(* The ways a step can move a request through route() and its lease.       *)
Outside == {"idle", "lookup"}
Decided == {"bind", "bind_preferred", "acquire"}

HasRoom(a) == Limit[a] = 0 \/ active[a] < Limit[a]

StaysOutside(r) ==
  /\ req[r].stage \in Outside /\ req'[r].stage \in Outside
  /\ active' = active

(* Lookup goes on to select, or to the lease of the bound account. *)
Enters(r) ==
  /\ req[r].stage \in Outside /\ Cardinality(InRouteNow) < Workers
  /\ \/ req'[r].stage = "select"
     \/ /\ req'[r].stage = "acquire" /\ req'[r].account \in Accounts
        /\ HasRoom(req'[r].account)
  /\ active' = active

(* Select decides, or gives up. *)
Decides(r) ==
  /\ req[r].stage = "select"
  /\ \/ req'[r].stage = "idle"
     \/ /\ req'[r].stage \in Decided /\ req'[r].account \in Accounts
        /\ HasRoom(req'[r].account)
  /\ active' = active

Binds(r) ==
  /\ req[r].stage \in Decided /\ req'[r].stage \in Decided
  /\ req'[r].account = req[r].account
  /\ active' = active

TakesLease(r) ==
  /\ req[r].stage \in Decided /\ req'[r].stage \in Leased
  /\ req'[r].account = req[r].account
  /\ active' = [active EXCEPT ![req[r].account] = @ + 1]

KeepsLease(r) ==
  /\ req[r].stage \in Leased /\ req'[r].stage \in Leased
  /\ req'[r].account = req[r].account
  /\ active' = active

GivesBack(r) ==
  /\ req[r].stage \in Leased /\ req'[r].stage = "idle"
  /\ active' = [active EXCEPT ![req[r].account] = IF @ > 0 THEN @ - 1 ELSE 0]

Effect(r) ==
  \/ StaysOutside(r) \/ Enters(r) \/ Decides(r) \/ Binds(r)
  \/ TakesLease(r) \/ KeepsLease(r) \/ GivesBack(r)

LEMMA StagesTyped ==
  /\ InRoute \subseteq Stage /\ Leased \subseteq Stage /\ Outside \subseteq Stage
  /\ Awaiting \subseteq Leased
BY DEF Stage, InRoute, Leased, Outside, Awaiting

LEMMA ReleaseMoves ==
  ASSUME TypeOK, NEW r \in Requests, req[r].stage \in Leased, Release(r)
  PROVE  OnlyMoves(r) /\ GivesBack(r) /\ req'[r].stage = "idle"
BY DropMoves DEF Release, GivesBack

LEMMA LeasedGotoMoves ==
  ASSUME TypeOK, NEW r \in Requests, NEW s \in Leased, req[r].stage \in Leased,
         Goto(r, s), active' = active
  PROVE  OnlyMoves(r) /\ KeepsLease(r) /\ req'[r].key = req[r].key
BY GotoMoves, StagesTyped DEF KeepsLease

LEMMA LeasedResendMoves ==
  ASSUME TypeOK, NEW r \in Requests, NEW s \in Leased, req[r].stage \in Leased,
         Resend(r, s), active' = active
  PROVE  OnlyMoves(r) /\ KeepsLease(r) /\ req'[r].key = req[r].key
BY ResendMoves, StagesTyped DEF KeepsLease

(* Every step of a request is one of them. *)
LEMMA RequestEffect ==
  ASSUME TypeOK, Chosen, NEW r \in Requests, RequestNext(r)
  PROVE  /\ OnlyMoves(r) /\ Effect(r)
         /\ req'[r].stage = "idle" \/ req'[r].key = req[r].key \/ req'[r].key \in Keys
<1> DEFINE Goal == /\ OnlyMoves(r) /\ Effect(r)
                   /\ req'[r].stage = "idle" \/ req'[r].key = req[r].key
                                             \/ req'[r].key \in Keys
<1> SUFFICES Goal
  OBVIOUS
<1>a. /\ "streaming" \in Leased /\ "sent" \in Leased /\ "prepare" \in Leased
      /\ "resent" \in Leased /\ "retried" \in Leased /\ "refreshed" \in Leased
      /\ "refreshing" \in Leased /\ Awaiting \subseteq Leased
  BY DEF Leased, Awaiting
<1>b. ASSUME req[r].stage \in Leased,
             \/ Release(r)
             \/ active' = active /\ \E s \in Leased : Goto(r, s) \/ Resend(r, s)
      PROVE  Goal
  <2>1. CASE Release(r)
    BY <1>b, <2>1, ReleaseMoves DEF Effect
  <2>2. ASSUME NEW s \in Leased, Goto(r, s), active' = active
        PROVE  Goal
    BY <1>b, <2>2, LeasedGotoMoves DEF Effect
  <2>3. ASSUME NEW s \in Leased, Resend(r, s), active' = active
        PROVE  Goal
    BY <1>b, <2>3, LeasedResendMoves DEF Effect
  <2> QED BY <1>b, <2>1, <2>2, <2>3
<1>1. ASSUME NEW k \in Keys, NEW b \in BOOLEAN, Accept(r, k, b)
      PROVE  Goal
  <2>1. req[r].stage = "idle" /\ active' = active
    BY <1>1 DEF Accept
  <2> QED BY <1>1, <2>1, AcceptMoves DEF Effect, StaysOutside, Outside
<1>2. CASE Lookup(r)
  <2>1. req[r].stage = "lookup" /\ active' = active /\ Cardinality(InRouteNow) < Workers
    BY <1>2 DEF Lookup
  <2>2. CASE Drop(r)
    BY <2>1, <2>2, DropMoves DEF Effect, StaysOutside, Outside
  <2>3. CASE Goto(r, "select")
    <3>1. "select" \in Stage
      BY DEF Stage, InRoute
    <3> QED BY <2>1, <2>3, <3>1, GotoMoves DEF Effect, Enters, Outside
  <2>4. ASSUME NEW a \in Accounts, Eligible(Swept, a, TRUE), Route(r, "acquire", a)
        PROVE  Goal
    <3>1. "acquire" \in Stage
      BY DEF Stage, InRoute
    <3>2. HasRoom(a)
      BY <2>4 DEF Eligible, HasRoom
    <3> QED BY <2>1, <2>4, <3>1, <3>2, RouteMoves DEF Effect, Enters, Outside
  <2>5. bindings[req[r].key] \in Accounts \cup {NoAccount}
    BY <2>1 DEF TypeOK, Chosen
  <2> QED BY <1>2, <2>2, <2>3, <2>4, <2>5 DEF Lookup
<1>3. CASE Select(r)
  <2>1. req[r].stage = "select" /\ active' = active
    BY <1>3 DEF Select
  <2>2. CASE Drop(r)
    BY <2>1, <2>2, DropMoves DEF Effect, Decides
  <2>3. ASSUME NEW a \in Tier, NEW s \in {"bind", "bind_preferred"}, Route(r, s, a)
        PROVE  Goal
    <3>1. s \in Stage
      BY DEF Stage, InRoute
    <3>2. a \in Accounts /\ HasRoom(a)
      BY DEF Tier, Eligible, HasRoom
    <3> QED BY <2>1, <2>3, <3>1, <3>2, RouteMoves DEF Effect, Decides, Decided
  <2> QED BY <1>3, <2>2, <2>3 DEF Select
<1>4. CASE Bind(r)
  <2>1. "acquire" \in Stage
    BY DEF Stage, InRoute
  <2> QED BY <1>4, <2>1, GotoMoves DEF Bind, Effect, Binds, Decided
<1>5. CASE Acquire(r)
  <2>1. "prepare" \in Stage
    BY DEF Stage, Leased
  <2> QED BY <1>5, <1>a, <2>1, GotoMoves DEF Acquire, Effect, TakesLease, Decided
<1>6. CASE Prepare(r)
  BY <1>6, <1>a, <1>b DEF Prepare
<1>7. CASE SendFails(r)
  BY <1>7, <1>a, <1>b DEF SendFails
<1>8. CASE ServerError(r)
  BY <1>8, <1>a, <1>b DEF ServerError
<1>9. CASE Succeed(r)
  BY <1>9, <1>a, <1>b DEF Succeed
<1>10. CASE Relay(r)
  BY <1>10, <1>a, <1>b DEF Relay
<1>11. CASE Denied(r)
  BY <1>11, <1>a, <1>b DEF Denied, Refuse
<1>12. CASE TokenExpired(r)
  BY <1>12, <1>a, <1>b DEF TokenExpired, Refuse
<1>13. CASE Refreshed(r)
  BY <1>13, <1>a, <1>b DEF Refreshed, Refuse
<1>14. CASE StreamEnd(r)
  BY <1>14, <1>a, <1>b DEF StreamEnd
<1>15. CASE Disconnect(r)
  <2>1. CASE req[r].stage = "lookup"
    BY <1>15, <2>1, DropMoves DEF Disconnect, Effect, StaysOutside, Outside, Leased, Awaiting
  <2> QED BY <1>15, <1>b, <2>1 DEF Disconnect
<1> QED
  BY <1>1, <1>2, <1>3, <1>4, <1>5, <1>6, <1>7, <1>8, <1>9, <1>10, <1>11, <1>12,
     <1>13, <1>14, <1>15 DEF RequestNext, Step

-----------------------------------------------------------------------------
(* Type correctness.                                                       *)
LEMMA RequestTyping ==
  ASSUME TypeOK, Chosen, NEW r \in Requests, RequestNext(r)
  PROVE  TypeOK' /\ Chosen'
<1>1. OnlyMoves(r) /\ Effect(r)
  BY RequestEffect
<1>2. req[r].stage = "idle" \/ req[r].key \in Keys
  BY DEF Chosen
<1>3. req'[r].stage = "idle" \/ req'[r].key \in Keys
  <2>1. CASE req[r].stage # "idle"
    BY <1>2, <2>1, RequestEffect
  <2>2. CASE req[r].stage = "idle"
    <3>1. \E k \in Keys, b \in BOOLEAN : Accept(r, k, b)
      BY <2>2 DEF RequestNext, Step, Lookup, Select, Bind, Acquire, Prepare, SendFails,
         ServerError, Succeed, Relay, Denied, TokenExpired, Refreshed, StreamEnd,
         Disconnect, Awaiting, Leased
    <3> QED BY <3>1, AcceptMoves
  <2> QED BY <2>1, <2>2
<1>4. active' \in [Accounts -> Nat]
  BY <1>1 DEF TypeOK, Effect, StaysOutside, Enters, Decides, Binds, TakesLease,
     KeepsLease, GivesBack
<1>5. /\ circuits' \in [Accounts -> Circuit]
      /\ bindings' \in [Keys -> Accounts \cup {NoAccount}]
      /\ UNCHANGED pool
  <2>1. CASE \E k \in Keys, b \in BOOLEAN : Accept(r, k, b)
    BY <2>1 DEF Accept, TypeOK
  <2>2. CASE Lookup(r)
    BY <2>2 DEF Lookup, TypeOK, Swept, Circuit
  <2>3. CASE Select(r)
    BY <2>3 DEF Select, TypeOK
  <2>4. CASE Bind(r)
    BY <2>4 DEF Bind, TypeOK, Chosen
  <2>5. CASE Acquire(r)
    BY <2>5 DEF Acquire, TypeOK
  <2>6. CASE Prepare(r)
    BY <2>6 DEF Prepare, TypeOK, SetCircuit, Circuit
  <2>7. CASE SendFails(r)
    BY <2>7 DEF SendFails, TypeOK
  <2>8. CASE ServerError(r)
    BY <2>8 DEF ServerError, TypeOK
  <2>9. CASE Succeed(r)
    BY <2>9 DEF Succeed, TypeOK, SetCircuit, Circuit
  <2>10. CASE Relay(r)
    BY <2>10 DEF Relay, TypeOK
  <2>11. CASE Denied(r)
    BY <2>11 DEF Denied, Refuse, CircuitFor, TypeOK, SetCircuit, Circuit
  <2>12. CASE TokenExpired(r)
    BY <2>12 DEF TokenExpired, Refuse, CircuitFor, TypeOK, SetCircuit, Circuit
  <2>13. CASE Refreshed(r)
    BY <2>13 DEF Refreshed, Refuse, CircuitFor, TypeOK, SetCircuit, Circuit
  <2>14. CASE StreamEnd(r)
    BY <2>14 DEF StreamEnd, TypeOK
  <2>15. CASE Disconnect(r)
    BY <2>15 DEF Disconnect, TypeOK
  <2> QED
    BY <2>1, <2>2, <2>3, <2>4, <2>5, <2>6, <2>7, <2>8, <2>9, <2>10, <2>11, <2>12,
       <2>13, <2>14, <2>15 DEF RequestNext, Step
<1>6. TypeOK'
  BY <1>1, <1>4, <1>5 DEF TypeOK, OnlyMoves, pool
<1>7. req'[r].stage \in Decided \cup Leased => req'[r].account \in Accounts
  BY <1>1 DEF Chosen, Effect, StaysOutside, Enters, Decides, Binds, TakesLease,
     KeepsLease, GivesBack, Outside, Decided, Leased, Awaiting
<1>8. Chosen'
  BY <1>1, <1>3, <1>7 DEF Chosen, OnlyMoves, Decided
<1> QED BY <1>6, <1>8

(* The rest of the system leaves requests and leases alone. *)
LEMMA AmbientTyping ==
  ASSUME TypeOK, Chosen,
         (\E a \in Accounts : AccountNext(a)) \/ ClearBindings \/ SetPaused
  PROVE  TypeOK' /\ Chosen' /\ req' = req /\ active' = active
<1>1. ASSUME NEW a \in Accounts, AccountNext(a)
      PROVE  TypeOK' /\ req' = req /\ active' = active
  <2>1. CASE Probe(a)
    BY <2>1 DEF Probe, TypeOK, SetCircuit, Circuit, Standing
  <2>2. CASE Publish(a)
    BY <2>2 DEF Publish, TypeOK, Standing
  <2>3. CASE Readmit(a)
    BY <2>3 DEF Readmit, TypeOK, SetCircuit, Circuit, Standing
  <2>4. CASE CoolDown(a)
    BY <2>4 DEF CoolDown, TypeOK, SetCircuit, Circuit, pool
  <2>5. CASE Prefer(a)
    BY <2>5 DEF Prefer, TypeOK
  <2> QED BY <1>1, <2>1, <2>2, <2>3, <2>4, <2>5 DEF AccountNext
<1>2. CASE ClearBindings
  BY <1>2 DEF ClearBindings, TypeOK, Chosen
<1>3. CASE SetPaused
  BY <1>3 DEF SetPaused, TypeOK, Chosen
<1> QED BY <1>1, <1>2, <1>3 DEF Chosen

-----------------------------------------------------------------------------
(* Counting.  A set of requests given by what each request is gains or     *)
(* loses at most the request that moves.                                   *)
LEMMA CountMove ==
  ASSUME NEW S \in SUBSET Requests, NEW T \in SUBSET Requests, NEW r \in Requests,
         \A p \in Requests : p # r => (p \in T <=> p \in S)
  PROVE  /\ Cardinality(S) \in Nat /\ Cardinality(T) \in Nat
         /\ (r \in S <=> r \in T) => Cardinality(T) = Cardinality(S)
         /\ r \in T /\ r \notin S => Cardinality(T) = Cardinality(S) + 1
         /\ r \notin T /\ r \in S => Cardinality(T) = Cardinality(S) - 1
<1>1. IsFiniteSet(S) /\ IsFiniteSet(T)
  BY RequestsAssumption, FS_Subset
<1>2. Cardinality(S) \in Nat /\ Cardinality(T) \in Nat
  BY <1>1, FS_CardinalityType
<1>3. ASSUME r \in S <=> r \in T
      PROVE  Cardinality(T) = Cardinality(S)
  <2>1. S = T
    BY <1>3
  <2> QED BY <2>1
<1>4. ASSUME r \in T, r \notin S
      PROVE  Cardinality(T) = Cardinality(S) + 1
  <2>1. T = S \cup {r}
    BY <1>4
  <2> QED BY <1>1, <1>4, <2>1, FS_AddElement
<1>5. ASSUME r \notin T, r \in S
      PROVE  Cardinality(T) = Cardinality(S) - 1
  <2>1. T = S \ {r}
    BY <1>5
  <2> QED BY <1>1, <1>5, <2>1, FS_RemoveElement
<1> QED BY <1>2, <1>3, <1>4, <1>5

LEMMA HoldersMove ==
  ASSUME NEW r \in Requests, OnlyMoves(r), NEW a \in Accounts
  PROVE  LET was == req[r].stage \in Leased /\ req[r].account = a
             is  == req'[r].stage \in Leased /\ req'[r].account = a
         IN  /\ Cardinality(Holders(a)) \in Nat
             /\ (was <=> is) => Cardinality(Holders(a))' = Cardinality(Holders(a))
             /\ is /\ ~was => Cardinality(Holders(a))' = Cardinality(Holders(a)) + 1
             /\ was /\ ~is => Cardinality(Holders(a))' = Cardinality(Holders(a)) - 1
<1> DEFINE S == Holders(a)
           T == Holders(a)'
<1>1. S \in SUBSET Requests /\ T \in SUBSET Requests
  BY DEF Holders
<1>2. /\ \A p \in Requests : p # r => (p \in T <=> p \in S)
      /\ r \in S <=> req[r].stage \in Leased /\ req[r].account = a
      /\ r \in T <=> req'[r].stage \in Leased /\ req'[r].account = a
  BY DEF Holders, OnlyMoves
<1> HIDE DEF S, T
<1>3. /\ Cardinality(S) \in Nat
      /\ (r \in S <=> r \in T) => Cardinality(T) = Cardinality(S)
      /\ r \in T /\ r \notin S => Cardinality(T) = Cardinality(S) + 1
      /\ r \notin T /\ r \in S => Cardinality(T) = Cardinality(S) - 1
  BY <1>1, <1>2, CountMove
<1> QED BY <1>2, <1>3 DEF S, T

LEMMA ChoosingMove ==
  ASSUME NEW r \in Requests, OnlyMoves(r), NEW a \in Accounts
  PROVE  LET was == req[r].stage \in Decided /\ req[r].account = a
             is  == req'[r].stage \in Decided /\ req'[r].account = a
         IN  /\ Cardinality(Choosing(a)) \in Nat
             /\ (was <=> is) => Cardinality(Choosing(a))' = Cardinality(Choosing(a))
             /\ is /\ ~was => Cardinality(Choosing(a))' = Cardinality(Choosing(a)) + 1
             /\ was /\ ~is => Cardinality(Choosing(a))' = Cardinality(Choosing(a)) - 1
<1> DEFINE S == Choosing(a)
           T == Choosing(a)'
<1>1. S \in SUBSET Requests /\ T \in SUBSET Requests
  BY DEF Choosing
<1>2. /\ \A p \in Requests : p # r => (p \in T <=> p \in S)
      /\ r \in S <=> req[r].stage \in Decided /\ req[r].account = a
      /\ r \in T <=> req'[r].stage \in Decided /\ req'[r].account = a
  BY DEF Choosing, OnlyMoves, Decided
<1> HIDE DEF S, T
<1>3. /\ Cardinality(S) \in Nat
      /\ (r \in S <=> r \in T) => Cardinality(T) = Cardinality(S)
      /\ r \in T /\ r \notin S => Cardinality(T) = Cardinality(S) + 1
      /\ r \notin T /\ r \in S => Cardinality(T) = Cardinality(S) - 1
  BY <1>1, <1>2, CountMove
<1> QED BY <1>2, <1>3 DEF S, T

LEMMA RouteMove ==
  ASSUME NEW r \in Requests, OnlyMoves(r)
  PROVE  LET was == req[r].stage \in InRoute
             is  == req'[r].stage \in InRoute
         IN  /\ Cardinality(InRouteNow) \in Nat
             /\ (was <=> is) => Cardinality(InRouteNow)' = Cardinality(InRouteNow)
             /\ is /\ ~was => Cardinality(InRouteNow)' = Cardinality(InRouteNow) + 1
             /\ was /\ ~is => Cardinality(InRouteNow)' = Cardinality(InRouteNow) - 1
<1> DEFINE S == InRouteNow
           T == InRouteNow'
<1>1. S \in SUBSET Requests /\ T \in SUBSET Requests
  BY DEF InRouteNow
<1>2. /\ \A p \in Requests : p # r => (p \in T <=> p \in S)
      /\ r \in S <=> req[r].stage \in InRoute
      /\ r \in T <=> req'[r].stage \in InRoute
  BY DEF InRouteNow, OnlyMoves
<1> HIDE DEF S, T
<1>3. /\ Cardinality(S) \in Nat
      /\ (r \in S <=> r \in T) => Cardinality(T) = Cardinality(S)
      /\ r \in T /\ r \notin S => Cardinality(T) = Cardinality(S) + 1
      /\ r \notin T /\ r \in S => Cardinality(T) = Cardinality(S) - 1
  BY <1>1, <1>2, CountMove
<1> QED BY <1>2, <1>3 DEF S, T

-----------------------------------------------------------------------------
(* The inductive invariant.                                                *)
LEMMA StagesDisjoint ==
  /\ InRoute = {"select"} \cup Decided
  /\ \A s \in Outside : s \notin InRoute /\ s \notin Decided /\ s \notin Leased
  /\ \A s \in Decided : s \notin Leased
  /\ "select" \notin Decided /\ "select" \notin Leased /\ "idle" \in Outside
  /\ "acquire" \in Decided
BY DEF InRoute, Decided, Outside, Leased, Awaiting

LEMMA ChoosingWithinRoute ==
  ASSUME NEW a \in Accounts
  PROVE  /\ IsFiniteSet(InRouteNow) /\ IsFiniteSet(Choosing(a))
         /\ Cardinality(Choosing(a)) \in Nat /\ Cardinality(InRouteNow) \in Nat
         /\ Cardinality(Choosing(a)) <= Cardinality(InRouteNow)
<1>1. IsFiniteSet(InRouteNow)
  BY RequestsAssumption, FS_Subset DEF InRouteNow
<1>2. Choosing(a) \subseteq InRouteNow
  BY StagesDisjoint DEF Choosing, InRouteNow, Decided
<1> QED BY <1>1, <1>2, FS_Subset, FS_CardinalityType

LEMMA RouteSlotsStep ==
  ASSUME RouteSlots, NEW r \in Requests, OnlyMoves(r), Effect(r)
  PROVE  RouteSlots'
<1>1. CASE Enters(r)
  BY <1>1, RouteMove, WorkersAssumption DEF Enters, RouteSlots
<1>2. CASE ~Enters(r)
  <2>1. req'[r].stage \in InRoute => req[r].stage \in InRoute
    BY <1>2, StagesDisjoint DEF Effect, StaysOutside, Decides, Binds, TakesLease,
       KeepsLease, GivesBack
  <2> QED BY <2>1, RouteMove, WorkersAssumption DEF RouteSlots
<1> QED BY <1>1, <1>2

LEMMA LeaseAccountingStep ==
  ASSUME TypeOK, Chosen, LeaseAccounting, NEW r \in Requests, OnlyMoves(r), Effect(r)
  PROVE  LeaseAccounting'
<1> SUFFICES ASSUME NEW a \in Accounts
             PROVE  active'[a] = Cardinality(Holders(a))'
  BY DEF LeaseAccounting
<1> DEFINE was == req[r].stage \in Leased /\ req[r].account = a
           is  == req'[r].stage \in Leased /\ req'[r].account = a
<1>1. /\ Cardinality(Holders(a)) \in Nat
      /\ (was <=> is) => Cardinality(Holders(a))' = Cardinality(Holders(a))
      /\ is /\ ~was => Cardinality(Holders(a))' = Cardinality(Holders(a)) + 1
      /\ was /\ ~is => Cardinality(Holders(a))' = Cardinality(Holders(a)) - 1
  BY HoldersMove
<1>2. active[a] = Cardinality(Holders(a)) /\ active \in [Accounts -> Nat]
  BY DEF LeaseAccounting, TypeOK
<1>3. CASE StaysOutside(r) \/ Enters(r) \/ Decides(r) \/ Binds(r)
  <2>1. ~was /\ ~is /\ active' = active
    BY <1>3, StagesDisjoint DEF StaysOutside, Enters, Decides, Binds
  <2> QED BY <1>1, <1>2, <2>1
<1>4. CASE TakesLease(r)
  <2>1. ~was /\ (is <=> req[r].account = a)
    BY <1>4, StagesDisjoint DEF TakesLease
  <2>2. active'[a] = IF req[r].account = a THEN active[a] + 1 ELSE active[a]
    BY <1>2, <1>4 DEF TakesLease
  <2> QED BY <1>1, <1>2, <2>1, <2>2
<1>5. CASE KeepsLease(r)
  BY <1>1, <1>2, <1>5 DEF KeepsLease
<1>6. CASE GivesBack(r)
  <2>1. ~is /\ (was <=> req[r].account = a)
    BY <1>6, StagesDisjoint DEF GivesBack
  <2>2. active'[a] = IF req[r].account = a
                       THEN (IF active[a] > 0 THEN active[a] - 1 ELSE 0) ELSE active[a]
    BY <1>2, <1>6 DEF GivesBack
  <2>3. was => active[a] > 0
    <3>1. was => Cardinality(Holders(a))' = Cardinality(Holders(a)) - 1
      BY <1>1, <2>1
    <3>2. Cardinality(Holders(a))' \in Nat
      <4>1. IsFiniteSet(Holders(a)')
        BY RequestsAssumption, FS_Subset DEF Holders
      <4> QED BY <4>1, FS_CardinalityType
    <3> QED BY <1>1, <1>2, <3>1, <3>2
  <2> QED BY <1>1, <1>2, <2>1, <2>2, <2>3
<1> QED BY <1>3, <1>4, <1>5, <1>6 DEF Effect

LEMMA OvershootStep ==
  ASSUME TypeOK, Chosen, OvershootInv, RouteSlots, RouteSlots',
         NEW r \in Requests, OnlyMoves(r), Effect(r)
  PROVE  OvershootInv'
<1> SUFFICES ASSUME NEW a \in Accounts, Limit[a] > 0
             PROVE  active'[a] + Cardinality(Choosing(a))' < Limit[a] + Workers
  BY DEF OvershootInv
<1> DEFINE was == req[r].stage \in Decided /\ req[r].account = a
           is  == req'[r].stage \in Decided /\ req'[r].account = a
<1>1. /\ Cardinality(Choosing(a)) \in Nat
      /\ (was <=> is) => Cardinality(Choosing(a))' = Cardinality(Choosing(a))
      /\ is /\ ~was => Cardinality(Choosing(a))' = Cardinality(Choosing(a)) + 1
      /\ was /\ ~is => Cardinality(Choosing(a))' = Cardinality(Choosing(a)) - 1
  BY ChoosingMove
<1>2. /\ active \in [Accounts -> Nat] /\ active[a] \in Nat
      /\ Limit[a] \in Nat /\ Workers \in Nat
      /\ active[a] + Cardinality(Choosing(a)) < Limit[a] + Workers
  BY LimitAssumption, WorkersAssumption DEF OvershootInv, TypeOK
<1>3. Cardinality(Choosing(a))' \in Nat /\ Cardinality(Choosing(a))' <= Workers
  <2>1. /\ Cardinality(Choosing(a))' \in Nat /\ Cardinality(InRouteNow)' \in Nat
        /\ Cardinality(Choosing(a))' <= Cardinality(InRouteNow)'
    <3>1. IsFiniteSet(InRouteNow')
      BY RequestsAssumption, FS_Subset DEF InRouteNow
    <3>2. Choosing(a)' \subseteq InRouteNow'
      BY StagesDisjoint DEF Choosing, InRouteNow, Decided
    <3> QED BY <3>1, <3>2, FS_Subset, FS_CardinalityType
  <2> QED BY <1>2, <2>1 DEF RouteSlots
<1>4. CASE StaysOutside(r) \/ KeepsLease(r) \/ Binds(r)
  <2>1. (was <=> is) /\ active' = active
    BY <1>4, StagesDisjoint DEF StaysOutside, KeepsLease, Binds
  <2> QED BY <1>1, <1>2, <2>1
<1>5. CASE Enters(r) \/ Decides(r)
  <2>1. ~was /\ active' = active
    BY <1>5, StagesDisjoint DEF Enters, Decides
  <2>2. CASE ~is
    BY <1>1, <1>2, <2>1, <2>2
  <2>3. CASE is
    <3>1. HasRoom(a)
      BY <1>5, <2>3, StagesDisjoint DEF Enters, Decides
    <3>2. active[a] < Limit[a]
      BY <1>2, <3>1 DEF HasRoom
    <3> QED BY <1>2, <1>3, <2>1, <3>2
  <2> QED BY <2>2, <2>3
<1>6. CASE TakesLease(r)
  <2>1. ~is /\ (was <=> req[r].account = a)
    BY <1>6, StagesDisjoint DEF TakesLease
  <2>2. active'[a] = IF req[r].account = a THEN active[a] + 1 ELSE active[a]
    BY <1>2, <1>6 DEF TakesLease
  <2> QED BY <1>1, <1>2, <1>3, <2>1, <2>2
<1>7. CASE GivesBack(r)
  <2>1. ~is /\ ~was
    BY <1>7, StagesDisjoint DEF GivesBack
  <2>2. active'[a] <= active[a] /\ active'[a] \in Nat
    BY <1>2, <1>7 DEF GivesBack
  <2> QED BY <1>1, <1>2, <2>1, <2>2
<1> QED BY <1>4, <1>5, <1>6, <1>7 DEF Effect

LEMMA InitRoutingInv == Init => RoutingInv
<1> SUFFICES ASSUME Init
             PROVE  RoutingInv
  OBVIOUS
<1>1. TypeOK /\ Chosen
  BY IdleRecord, NoneAssumption
     DEF Init, TypeOK, Chosen, Standing, Circuit, Leased, Awaiting
<1>2. \A r \in Requests : req[r].stage = "idle"
  BY IdleRecord DEF Init
<1>3. InRouteNow = {} /\ \A a \in Accounts : Holders(a) = {} /\ Choosing(a) = {}
  BY <1>2 DEF InRouteNow, Holders, Choosing, InRoute, Leased, Awaiting
<1>4. \A a \in Accounts : active[a] = 0 /\ Limit[a] \in Nat
  BY LimitAssumption DEF Init
<1>5. Cardinality({}) = 0 /\ Workers \in Nat \ {0}
  BY FS_EmptySet, WorkersAssumption
<1>6. OvershootInv
  BY <1>3, <1>4, <1>5 DEF OvershootInv
<1> QED BY <1>1, <1>3, <1>4, <1>5, <1>6 DEF RoutingInv, RouteSlots, LeaseAccounting

LEMMA NextRoutingInv == RoutingInv /\ [Next]_vars => RoutingInv'
<1> SUFFICES ASSUME RoutingInv, [Next]_vars
             PROVE  RoutingInv'
  OBVIOUS
<1>0. TypeOK /\ Chosen /\ RouteSlots /\ LeaseAccounting /\ OvershootInv
  BY DEF RoutingInv
<1>1. ASSUME NEW r \in Requests, RequestNext(r)
      PROVE  RoutingInv'
  <2>1. TypeOK' /\ Chosen' /\ OnlyMoves(r) /\ Effect(r)
    BY <1>0, <1>1, RequestTyping, RequestEffect
  <2>2. RouteSlots'
    BY <1>0, <2>1, RouteSlotsStep
  <2> QED BY <1>0, <2>1, <2>2, LeaseAccountingStep, OvershootStep DEF RoutingInv
<1>2. ASSUME (\E a \in Accounts : AccountNext(a)) \/ ClearBindings \/ SetPaused
      PROVE  RoutingInv'
  <2>1. TypeOK' /\ Chosen' /\ req' = req /\ active' = active
    BY <1>0, <1>2, AmbientTyping
  <2> QED BY <1>0, <2>1 DEF RoutingInv, RouteSlots, LeaseAccounting, OvershootInv,
        InRouteNow, Holders, Choosing
<1>3. CASE UNCHANGED vars
  BY <1>0, <1>3 DEF vars, RoutingInv, TypeOK, Chosen, RouteSlots, LeaseAccounting,
     OvershootInv, InRouteNow, Holders, Choosing
<1> QED BY <1>1, <1>2, <1>3 DEF Next

(* The invariant holds in every reachable state, for every number of       *)
(* requests and of worker threads.                                         *)
THEOREM RoutingInvariant == Spec => []RoutingInv
BY InitRoutingInv, NextRoutingInv, PTL DEF Spec

(* Every lease is counted while a request holds it and given back once on  *)
(* every way out of proxy_request.                                         *)
THEOREM LeasesAreCounted == Spec => []LeaseAccounting
<1>1. RoutingInv => LeaseAccounting
  BY DEF RoutingInv
<1> QED BY <1>1, RoutingInvariant, PTL

(* The concurrency limit is passed by fewer requests than there are worker *)
(* threads.                                                                *)
THEOREM OvershootIsBounded == Spec => []OvershootBounded
<1>1. RoutingInv => OvershootBounded
  <2> SUFFICES ASSUME RoutingInv, NEW a \in Accounts, Limit[a] > 0
               PROVE  active[a] < Limit[a] + Workers
    BY DEF OvershootBounded
  <2>1. /\ active[a] + Cardinality(Choosing(a)) < Limit[a] + Workers
        /\ active[a] \in Nat /\ Limit[a] \in Nat /\ Workers \in Nat
    BY LimitAssumption, WorkersAssumption DEF RoutingInv, OvershootInv, TypeOK
  <2>2. Cardinality(Choosing(a)) \in Nat
    BY ChoosingWithinRoute
  <2> QED BY <2>1, <2>2
<1> QED BY <1>1, RoutingInvariant, PTL

-----------------------------------------------------------------------------
(* How often a body has been sent again is bounded by the stage: each kind *)
(* of retry leads to a stage in which it is not made again.                *)
Sent(r) ==
  /\ req[r].retries > 0 => req[r].replayable
  /\ req[r].retries <= 3
  /\ req[r].stage \notin {"resent", "retried", "refreshing", "refreshed", "streaming"}
       => req[r].retries = 0
  /\ req[r].stage = "resent" => req[r].retries <= 1
  /\ req[r].stage \in {"retried", "refreshing"} => req[r].retries <= 2
  /\ req[r].stage = "refreshing" => req[r].replayable

Sends == \A r \in Requests : Sent(r)

(* A step that keeps the count keeps the bound if the next stage has it. *)
LEMMA GotoSends ==
  ASSUME TypeOK, NEW r \in Requests, Sent(r), NEW s \in Stage, Goto(r, s),
         \/ s = "streaming"
         \/ s = "refreshing" /\ req[r].replayable
              /\ req[r].stage \in Awaiting \ {"refreshed"}
         \/ req[r].retries = 0 /\ s # "refreshing"
  PROVE  Sent(r)' /\ OnlyMoves(r)
<1>1. /\ OnlyMoves(r) /\ req'[r].stage = s
      /\ req'[r].retries = req[r].retries /\ req'[r].replayable = req[r].replayable
  BY GotoMoves
<1>2. req[r].retries \in Nat
  BY DEF TypeOK, Request
<1> QED BY <1>1, <1>2 DEF Sent, Awaiting

LEMMA ResendSends ==
  ASSUME TypeOK, NEW r \in Requests, Sent(r), NEW s \in Stage, Resend(r, s),
         req[r].replayable,
         \/ s = "resent" /\ req[r].stage = "sent"
         \/ s = "retried" /\ req[r].stage \in {"sent", "resent"}
         \/ s = "refreshed" /\ req[r].stage = "refreshing"
  PROVE  Sent(r)' /\ OnlyMoves(r)
<1>1. /\ OnlyMoves(r) /\ req'[r].stage = s
      /\ req'[r].retries = req[r].retries + 1 /\ req'[r].replayable = req[r].replayable
  BY ResendMoves
<1>2. req[r].retries \in Nat
  BY DEF TypeOK, Request
<1> QED BY <1>1, <1>2 DEF Sent

LEMMA DropSends ==
  ASSUME TypeOK, NEW r \in Requests, Drop(r)
  PROVE  Sent(r)' /\ OnlyMoves(r)
BY DropMoves DEF Sent

LEMMA RefuseSends ==
  ASSUME TypeOK, NEW r \in Requests, Sent(r), NEW failure, Refuse(r, failure)
  PROVE  Sent(r)' /\ OnlyMoves(r)
<1>1. Drop(r) \/ Goto(r, "streaming")
  BY DEF Refuse, Release
<1> QED BY <1>1, DropSends, GotoSends DEF Stage, Leased

(* No step of a request exceeds what its stage allows. *)
LEMMA RequestSends ==
  ASSUME TypeOK, Chosen, NEW r \in Requests, Sent(r), RequestNext(r)
  PROVE  Sent(r)' /\ OnlyMoves(r)
<1> USE DEF Stage, Leased, Awaiting, InRoute
<1>1. ASSUME NEW k \in Keys, NEW b \in BOOLEAN, Accept(r, k, b)
      PROVE  Sent(r)' /\ OnlyMoves(r)
  BY <1>1, AcceptMoves DEF Sent
<1>2. ASSUME NEW s \in {"bind", "bind_preferred", "acquire"}, NEW a \in Accounts,
             Route(r, s, a), req[r].stage \in {"lookup", "select"}
      PROVE  Sent(r)' /\ OnlyMoves(r)
  <2>1. OnlyMoves(r) /\ req'[r].stage = s
    BY <1>2, RouteMoves
  <2>2. req'[r].retries = req[r].retries /\ req'[r].replayable = req[r].replayable
    BY <1>2, RouteMoves
  <2> QED BY <1>2, <2>1, <2>2 DEF Sent
<1>3. CASE Lookup(r)
  <2>1. \/ Drop(r)
        \/ Goto(r, "select")
        \/ bindings[req[r].key] \in Accounts /\ Route(r, "acquire", bindings[req[r].key])
    BY <1>3 DEF Lookup, TypeOK, Chosen
  <2>2. req[r].stage = "lookup"
    BY <1>3 DEF Lookup
  <2>3. CASE Goto(r, "select")
    BY <2>2, <2>3, GotoSends DEF Sent
  <2> QED BY <1>2, <2>1, <2>2, <2>3, DropSends
<1>4. CASE Select(r)
  <2>1. \/ Drop(r)
        \/ \E s \in {"bind", "bind_preferred"}, a \in Accounts : Route(r, s, a)
    BY <1>4 DEF Select, Tier
  <2>2. req[r].stage = "select"
    BY <1>4 DEF Select
  <2> QED BY <1>2, <2>1, <2>2, DropSends
<1>5. CASE Bind(r) \/ Acquire(r)
  <2>1. \E s \in {"acquire", "prepare"} : Goto(r, s)
    BY <1>5 DEF Bind, Acquire
  <2>2. req[r].stage \in {"bind", "bind_preferred", "acquire"}
    BY <1>5 DEF Bind, Acquire
  <2> QED BY <2>1, <2>2, GotoSends DEF Sent
<1>6. CASE Prepare(r)
  <2>1. req[r].stage = "prepare" /\ (Goto(r, "sent") \/ Drop(r))
    BY <1>6 DEF Prepare, Release
  <2> QED BY <2>1, GotoSends, DropSends DEF Sent
<1>7. CASE SendFails(r)
  <2>1. \/ req[r].stage = "sent" /\ req[r].replayable /\ Resend(r, "resent")
        \/ Drop(r)
    BY <1>7 DEF SendFails, Release
  <2> QED BY <2>1, ResendSends, DropSends
<1>8. CASE ServerError(r)
  <2>1. \/ /\ req[r].stage \in {"sent", "resent"} /\ req[r].replayable
           /\ Resend(r, "retried")
        \/ Goto(r, "streaming")
    BY <1>8 DEF ServerError
  <2> QED BY <2>1, ResendSends, GotoSends
<1>9. CASE Succeed(r) \/ Relay(r)
  BY <1>9, GotoSends DEF Succeed, Relay
<1>10. CASE Denied(r)
  BY <1>10, RefuseSends DEF Denied
<1>11. CASE TokenExpired(r)
  <2>1. \/ /\ req[r].stage \in Awaiting \ {"refreshed"} /\ req[r].replayable
           /\ Goto(r, "refreshing")
        \/ Refuse(r, "expired")
    BY <1>11 DEF TokenExpired
  <2> QED BY <2>1, GotoSends, RefuseSends
<1>12. CASE Refreshed(r)
  <2>1. /\ req[r].stage = "refreshing"
        /\ Resend(r, "refreshed") \/ Drop(r) \/ Refuse(r, "expired")
    BY <1>12 DEF Refreshed, Release
  <2>2. req[r].replayable
    BY <2>1 DEF Sent
  <2> QED BY <2>1, <2>2, ResendSends, DropSends, RefuseSends
<1>13. CASE StreamEnd(r) \/ Disconnect(r)
  BY <1>13, DropSends DEF StreamEnd, Disconnect, Release
<1> QED
  BY <1>1, <1>3, <1>4, <1>5, <1>6, <1>7, <1>8, <1>9, <1>10, <1>11, <1>12, <1>13
     DEF RequestNext, Step

(* A body that was not captured whole is never sent twice, and no body     *)
(* more than four times, whatever upstream answers in whatever order.      *)
THEOREM ReplaysAreBounded == Spec => []ReplayBudget
<1>1. Init => Sends
  BY IdleRecord DEF Init, Sends, Sent
<1>2. RoutingInv /\ Sends /\ [Next]_vars => Sends'
  <2> SUFFICES ASSUME RoutingInv, Sends, [Next]_vars
               PROVE  Sends'
    OBVIOUS
  <2>0. TypeOK /\ Chosen
    BY DEF RoutingInv
  <2>1. ASSUME NEW r \in Requests, RequestNext(r)
        PROVE  Sends'
    <3>1. Sent(r)' /\ OnlyMoves(r)
      BY <2>0, <2>1, RequestSends DEF Sends
    <3> QED BY <3>1 DEF Sends, Sent, OnlyMoves
  <2>2. ASSUME (\E a \in Accounts : AccountNext(a)) \/ ClearBindings \/ SetPaused
        PROVE  Sends'
    BY <2>0, <2>2, AmbientTyping DEF Sends, Sent
  <2>3. CASE UNCHANGED vars
    BY <2>3 DEF vars, Sends, Sent
  <2> QED BY <2>1, <2>2, <2>3 DEF Next
<1>3. Sends => ReplayBudget
  BY DEF Sends, Sent, ReplayBudget
<1> QED BY <1>1, <1>2, <1>3, RoutingInvariant, PTL DEF Spec

-----------------------------------------------------------------------------
(* The refinement of LeasePool, with the bar variables under short names.  *)
Held == [r \in Requests |-> IF req[r].stage \in Leased THEN req[r].account
                                                      ELSE NoAccount]

LEMMA HeldMoves ==
  ASSUME NEW r \in Requests, OnlyMoves(r)
  PROVE  Held' = [Held EXCEPT ![r] = IF req'[r].stage \in Leased THEN req'[r].account
                                                                ELSE NoAccount]
BY DEF Held, OnlyMoves

(* Whatever a request does is a lease taken, a lease given back, or nothing *)
(* that the pool sees.                                                     *)
LEMMA PoolStep ==
  ASSUME RoutingInv, NEW r \in Requests, OnlyMoves(r), Effect(r)
  PROVE  [Pool!Next]_<<Held, active>>
<1>0. /\ active \in [Accounts -> Nat] /\ Limit \in [Accounts -> Nat] /\ Workers \in Nat
      /\ Held \in [Requests -> Accounts \cup {NoAccount}] /\ NoAccount \notin Accounts
  BY LimitAssumption, WorkersAssumption, NoneAssumption
     DEF RoutingInv, TypeOK, Chosen, Held, Request
<1>1. CASE StaysOutside(r) \/ Enters(r) \/ Decides(r) \/ Binds(r)
  <2>1. Held[r] = NoAccount /\ req'[r].stage \notin Leased /\ active' = active
    BY <1>1, StagesDisjoint
       DEF StaysOutside, Enters, Decides, Binds, Outside, Decided, Held
  <2> QED BY <1>0, <2>1, HeldMoves
<1>2. CASE KeepsLease(r)
  BY <1>0, <1>2, HeldMoves DEF KeepsLease, Held
<1>3. CASE TakesLease(r)
  <2> DEFINE a == req[r].account
  <2>1. a \in Accounts /\ r \in Choosing(a) /\ Held[r] = NoAccount
    BY <1>3, StagesDisjoint DEF TakesLease, RoutingInv, Chosen, Choosing, Decided, Held
  <2>2. Held' = [Held EXCEPT ![r] = a] /\ active' = [active EXCEPT ![a] = @ + 1]
    BY <1>3, HeldMoves DEF TakesLease
  <2>3. Limit[a] > 0 => active[a] < Limit[a] + Workers - 1
    <3>1. Cardinality(Choosing(a)) \in Nat /\ Cardinality(Choosing(a)) # 0
      BY <2>1, ChoosingWithinRoute, FS_CardinalityType, FS_EmptySet
    <3>2. Limit[a] > 0 => active[a] + Cardinality(Choosing(a)) < Limit[a] + Workers
      BY <2>1 DEF RoutingInv, OvershootInv
    <3> QED BY <1>0, <2>1, <3>1, <3>2
  <2>4. ASSUME NEW b \in Accounts, b = a
        PROVE  Pool!Take(r, b)
    BY <2>1, <2>2, <2>3, <2>4 DEF Pool!Take, Held
  <2>5. ASSUME NEW b \in Accounts, b = a
        PROVE  Pool!Next
    BY <2>4, <2>5 DEF Pool!Next
  <2> QED BY <2>1, <2>5
<1>4. CASE GivesBack(r)
  <2> DEFINE a == req[r].account
  <2>1. a \in Accounts /\ r \in Holders(a) /\ Held[r] = a
    BY <1>4 DEF GivesBack, RoutingInv, Chosen, Holders, Held
  <2>2. active[a] > 0
    <3>1. IsFiniteSet(Holders(a))
      BY RequestsAssumption, FS_Subset DEF Holders
    <3>2. Cardinality(Holders(a)) \in Nat /\ Cardinality(Holders(a)) # 0
      BY <2>1, <3>1, FS_CardinalityType, FS_EmptySet
    <3>3. active[a] = Cardinality(Holders(a))
      BY <2>1 DEF RoutingInv, LeaseAccounting
    <3> QED BY <3>2, <3>3
  <2>3. Held' = [Held EXCEPT ![r] = NoAccount]
    BY <1>4, HeldMoves, StagesDisjoint DEF GivesBack, Leased, Awaiting
  <2>4. active' = [active EXCEPT ![a] = @ - 1]
    BY <1>4, <2>2 DEF GivesBack
  <2>5. Pool!Give(r)
    BY <1>0, <2>1, <2>3, <2>4 DEF Pool!Give, Held
  <2> QED BY <2>5 DEF Pool!Next
<1> QED BY <1>1, <1>2, <1>3, <1>4 DEF Effect

(* proxy_request implements the counting semaphores of LeasePool: a lease  *)
(* is taken only with room for it, counted when it is taken, and comes     *)
(* back once, on every way through server.rs and routing.rs.               *)
THEOREM RoutingImplementsLeasePool == Spec => LeasesArePooled
<1>1. Init => Pool!Init
  <2> SUFFICES ASSUME Init
               PROVE  Pool!Init
    OBVIOUS
  <2>1. \A r \in Requests : req[r].stage \notin Leased
    BY IdleRecord, StagesDisjoint DEF Init, Leased, Awaiting
  <2>2. Held = [r \in Requests |-> NoAccount]
    BY <2>1 DEF Held
  <2> QED BY <2>2 DEF Init, Pool!Init, Held
<1>2. RoutingInv /\ [Next]_vars => [Pool!Next]_<<Held, active>>
  <2> SUFFICES ASSUME RoutingInv, [Next]_vars
               PROVE  [Pool!Next]_<<Held, active>>
    OBVIOUS
  <2>0. TypeOK /\ Chosen
    BY DEF RoutingInv
  <2>1. ASSUME NEW r \in Requests, RequestNext(r)
        PROVE  [Pool!Next]_<<Held, active>>
    BY <2>0, <2>1, RequestEffect, PoolStep
  <2>2. ASSUME (\E a \in Accounts : AccountNext(a)) \/ ClearBindings \/ SetPaused
        PROVE  UNCHANGED <<Held, active>>
    BY <2>0, <2>2, AmbientTyping DEF Held
  <2>3. CASE UNCHANGED vars
    BY <2>3 DEF vars, Held
  <2> QED BY <2>1, <2>2, <2>3 DEF Next
<1>3. LeasesArePooled <=> Pool!Init /\ [][Pool!Next]_<<Held, active>>
  BY DEF LeasesArePooled, Pool!Spec, Held
<1> QED BY <1>1, <1>2, <1>3, RoutingInvariant, PTL DEF Spec

-----------------------------------------------------------------------------
(* One worker thread: a call of route() is never interleaved with another. *)

(* The concurrency limit is then exact. *)
THEOREM LimitHoldsOnOneWorker ==
  ASSUME Workers = 1
  PROVE  Spec => []ConcurrencyLimit
<1>1. RoutingInv /\ OvershootBounded => ConcurrencyLimit
  BY LimitAssumption DEF RoutingInv, TypeOK, OvershootBounded, ConcurrencyLimit
<1> QED BY <1>1, RoutingInvariant, OvershootIsBounded, PTL

(* A request that is choosing an account has found no binding, and nobody  *)
(* has made one since.                                                     *)
Unbound ==
  \A r \in Requests :
    req[r].stage \in {"select", "bind", "bind_preferred"} => bindings[req[r].key] = NoAccount

LEMMA OneInRoute ==
  ASSUME Workers = 1, RouteSlots,
         NEW p \in Requests, NEW q \in Requests,
         req[p].stage \in InRoute, req[q].stage \in InRoute
  PROVE  p = q
<1>1. IsFiniteSet(InRouteNow) /\ Cardinality(InRouteNow) \in Nat
  BY RequestsAssumption, FS_Subset, FS_CardinalityType DEF InRouteNow
<1>2. p \in InRouteNow /\ q \in InRouteNow
  BY DEF InRouteNow
<1>3. Cardinality(InRouteNow) = 1
  <2>1. Cardinality(InRouteNow) <= 1
    BY DEF RouteSlots
  <2>2. Cardinality(InRouteNow) # 0
    BY <1>1, <1>2, FS_EmptySet
  <2> QED BY <1>1, <2>1, <2>2
<1> QED BY <1>1, <1>2, <1>3, FS_Singleton

(* Only Bind and ClearBindings write bindings. *)
LEMMA BindingsFrame ==
  ASSUME NEW r \in Requests, RequestNext(r), ~Bind(r)
  PROVE  bindings' = bindings
BY DEF RequestNext, Step, Accept, Lookup, Select, Acquire, Prepare, SendFails,
   ServerError, Succeed, Relay, Denied, TokenExpired, Refreshed, StreamEnd, Disconnect

LEMMA UnboundStep ==
  ASSUME Workers = 1, RoutingInv, Unbound, [Next]_vars
  PROVE  Unbound'
<1>0. TypeOK /\ Chosen /\ RouteSlots
  BY DEF RoutingInv
<1>1. ASSUME NEW r \in Requests, RequestNext(r)
      PROVE  Unbound'
  <2>1. OnlyMoves(r) /\ Effect(r)
    BY <1>0, <1>1, RequestEffect
  <2>2. CASE Bind(r)
    <3>1. req[r].stage \in InRoute /\ Goto(r, "acquire")
      BY <2>2 DEF Bind, InRoute
    <3>2. req'[r].stage = "acquire"
      <4>1. "acquire" \in Stage
        BY DEF Stage, InRoute
      <4> QED BY <1>0, <3>1, <4>1, GotoMoves
    <3>3. \A p \in Requests : p # r => req[p].stage \notin InRoute
      BY <1>0, <3>1, OneInRoute
    <3> QED BY <2>1, <3>2, <3>3 DEF Unbound, OnlyMoves, InRoute
  <2>3. CASE Lookup(r)
    <3>1. bindings' = bindings
      BY <2>3 DEF Lookup
    <3>2. CASE bindings[req[r].key] = NoAccount
      <4>1. Drop(r) \/ Goto(r, "select")
        BY <2>3, <3>2 DEF Lookup
      <4>2. "select" \in Stage
        BY DEF Stage, InRoute
      <4>3. req'[r].stage = "idle" \/ req'[r].key = req[r].key
        BY <1>0, <4>1, <4>2, DropMoves, GotoMoves
      <4> QED BY <2>1, <3>1, <3>2, <4>3 DEF Unbound, OnlyMoves
    <3>3. CASE bindings[req[r].key] # NoAccount
      <4>1. Drop(r) \/ Route(r, "acquire", bindings[req[r].key])
        BY <2>3, <3>3 DEF Lookup
      <4>2. "acquire" \in Stage /\ bindings[req[r].key] \in Accounts
        BY <1>0, <2>3, <3>3 DEF Stage, InRoute, TypeOK, Chosen, Lookup
      <4>3. req'[r].stage \in {"idle", "acquire"}
        BY <1>0, <4>1, <4>2, DropMoves, RouteMoves
      <4> QED BY <2>1, <3>1, <4>3 DEF Unbound, OnlyMoves
    <3> QED BY <3>2, <3>3
  <2>4. CASE Select(r)
    <3>1. bindings' = bindings /\ req[r].stage = "select"
      BY <2>4 DEF Select
    <3>2. Drop(r) \/ \E s \in {"bind", "bind_preferred"}, a \in Tier : Route(r, s, a)
      BY <2>4 DEF Select
    <3>3. Tier \subseteq Accounts /\ {"bind", "bind_preferred"} \subseteq Stage
      BY DEF Tier, Stage, InRoute
    <3>4. req'[r].stage = "idle" \/ req'[r].key = req[r].key
      <4>1. ASSUME NEW s \in {"bind", "bind_preferred"}, NEW a \in Tier, Route(r, s, a)
            PROVE  req'[r].key = req[r].key
        BY <1>0, <3>3, <4>1, RouteMoves
      <4> QED BY <1>0, <3>2, <4>1, DropMoves
    <3> QED BY <2>1, <3>1, <3>4 DEF Unbound, OnlyMoves
  <2>5. CASE ~Bind(r) /\ ~Lookup(r) /\ ~Select(r)
    <3>1. bindings' = bindings
      BY <1>1, <2>5, BindingsFrame
    <3>2. req'[r].stage \notin {"select", "bind", "bind_preferred"}
      <4>1. CASE \E k \in Keys, b \in BOOLEAN : Accept(r, k, b)
        BY <1>0, <4>1, AcceptMoves
      <4>2. CASE Acquire(r)
        <5>1. "prepare" \in Stage /\ Goto(r, "prepare")
          BY <4>2 DEF Acquire, Stage, Leased
        <5> QED BY <1>0, <5>1, GotoMoves
      <4>3. CASE Disconnect(r) /\ Drop(r)
        BY <1>0, <4>3, DropMoves
      <4>4. CASE req[r].stage \in Leased
        BY <2>1, <4>4, StagesDisjoint DEF Effect, StaysOutside, Enters, Decides,
           Binds, TakesLease, KeepsLease, GivesBack, Decided
      <4> QED
        BY <1>1, <2>5, <4>1, <4>2, <4>3, <4>4 DEF RequestNext, Step, Prepare,
           SendFails, ServerError, Succeed, Relay, Denied, TokenExpired, Refreshed,
           StreamEnd, Disconnect, Leased
    <3> QED BY <2>1, <3>1, <3>2 DEF Unbound, OnlyMoves
  <2> QED BY <2>2, <2>3, <2>4, <2>5
<1>2. ASSUME (\E a \in Accounts : AccountNext(a)) \/ ClearBindings \/ SetPaused
      PROVE  Unbound'
  <2>1. req' = req
    BY <1>0, <1>2, AmbientTyping
  <2>2. bindings' = bindings \/ bindings' = [k \in Keys |-> NoAccount]
    BY <1>2 DEF AccountNext, Probe, Publish, Readmit, CoolDown, Prefer, SetPaused,
       ClearBindings
  <2>3. \A r \in Requests : req[r].stage # "idle" => req[r].key \in Keys
    BY <1>0 DEF Chosen
  <2> QED BY <2>1, <2>2, <2>3 DEF Unbound
<1>3. CASE UNCHANGED vars
  BY <1>3 DEF vars, Unbound
<1> QED BY <1>1, <1>2, <1>3 DEF Next

(* Without the race of two first requests, a sticky key keeps its account  *)
(* until the user switches: routing.rs promises it does not migrate.       *)
THEOREM BindingsStayOnOneWorker ==
  ASSUME Workers = 1
  PROVE  Spec => BindingNeverMigrates
<1> DEFINE Keeps == \A k \in Keys : bindings[k] # NoAccount =>
                      \/ bindings'[k] = bindings[k]
                      \/ switching /\ bindings'[k] = NoAccount
<1>1. Init => Unbound
  BY IdleRecord DEF Init, Unbound
<1>2. RoutingInv /\ Unbound /\ [Next]_vars => Unbound'
  BY UnboundStep
<1>3. RoutingInv /\ Unbound /\ [Next]_vars => [Keeps]_vars
  <2> SUFFICES ASSUME RoutingInv, Unbound, Next
               PROVE  Keeps
    OBVIOUS
  <2>1. ASSUME NEW r \in Requests, Bind(r)
        PROVE  Keeps
    <3>1. bindings \in [Keys -> Accounts \cup {NoAccount}]
      BY DEF RoutingInv, TypeOK
    <3>2. /\ bindings[req[r].key] = NoAccount
          /\ bindings' = [bindings EXCEPT ![req[r].key] = req[r].account]
      BY <2>1 DEF Bind, Unbound
    <3> QED BY <3>1, <3>2
  <2>2. ASSUME NEW r \in Requests, RequestNext(r), ~Bind(r)
        PROVE  Keeps
    BY <2>2, BindingsFrame
  <2>3. CASE (\E a \in Accounts : AccountNext(a)) \/ ClearBindings \/ SetPaused
    BY <2>3 DEF AccountNext, Probe, Publish, Readmit, CoolDown, Prefer, SetPaused,
       ClearBindings
  <2> QED BY <2>1, <2>2, <2>3 DEF Next
<1>4. Spec => [][Keeps]_vars
  BY <1>1, <1>2, <1>3, RoutingInvariant, PTL DEF Spec
<1> QED BY <1>4 DEF BindingNeverMigrates
=============================================================================
