---------------------------- MODULE TokenRefresh ----------------------------
(***************************************************************************)
(* The OAuth refresh of one account: TokenRefresher of proxy/auth.rs, the  *)
(* snapshot file it reads and writes, the requests of proxy/server.rs that *)
(* call it, and the other writers of that file.                            *)
(*                                                                         *)
(* Everything refresh_inner does between two awaits is one step: it waits  *)
(* for the lock of the account, for the answer's head, and for its body.   *)
(* At each of them the request can be dropped (its client went away) and   *)
(* the daemon can die.  The locks of different accounts are independent,   *)
(* so one account is enough.                                               *)
(*                                                                         *)
(* The provider is external: a refresh token is redeemed at most once if   *)
(* the answer rotates it.  So is the Codex client, which holds a copy of   *)
(* the login in its own auth.json and redeems it on its own.               *)
(***************************************************************************)
EXTENDS Naturals

CONSTANTS
  Requests,     \* slots for concurrent requests of the account
  Logins,       \* logins the user goes through
  FirstLogin,   \* the one that was imported
  MaxMinted     \* bound: access tokens the provider issues, per login

ASSUME LoginsAssumption == FirstLogin \in Logins

VARIABLES
  snapshot,   \* the snapshot file of the account
  codex,      \* auth.json in the Codex home
  minted,     \* provider: access tokens issued per login
  live,       \* provider: the refresh token it accepts per login, 0 for none
  lost,       \* refresh tokens spent or superseded behind the snapshot's back
  orphans,    \* redemptions under way whose request was dropped
  req         \* the requests

vars == <<snapshot, codex, minted, live, lost, orphans, req>>
provider == <<minted, live>>

-----------------------------------------------------------------------------
(* Tokens are numbered by login in the order they are issued.              *)
Token == [login : Logins, n : Nat]

Credentials == [login : Logins, access : Nat, refresh : Nat]

Refresh(c) == [login |-> c.login, n |-> c.refresh]
Access(c)  == [login |-> c.login, n |-> c.access]

(* The stages in which the lock of the account is held. *)
Holding == {"posting", "granted", "refused", "failed"}
Stage == {"idle", "sent", "waiting"} \cup Holding

(* forced: the request was answered token_expired (refresh_rejected), and  *)
(* not called before it was sent (refresh).  held: the access token it was *)
(* sent with.  read: what refresh_inner read.  grant: the new snapshot.    *)
Request == [stage : Stage, forced : BOOLEAN,
            held : Token, read : Credentials, grant : Credentials]

TypeOK ==
  /\ snapshot \in Credentials
  /\ codex \in Credentials
  /\ minted \in [Logins -> Nat]
  /\ live \in [Logins -> Nat]
  /\ lost \subseteq Token
  /\ orphans \subseteq Token
  /\ req \in [Requests -> Request]

Fresh(f) == [login |-> f, access |-> 1, refresh |-> 1]

Idle == [stage |-> "idle", forced |-> FALSE, held |-> Access(Fresh(FirstLogin)),
         read |-> Fresh(FirstLogin), grant |-> Fresh(FirstLogin)]

(* The account was imported from the current Codex login. *)
Init ==
  /\ snapshot = Fresh(FirstLogin)
  /\ codex = Fresh(FirstLogin)
  /\ minted = [f \in Logins |-> IF f = FirstLogin THEN 1 ELSE 0]
  /\ live = [f \in Logins |-> IF f = FirstLogin THEN 1 ELSE 0]
  /\ lost = {}
  /\ orphans = {}
  /\ req = [r \in Requests |-> Idle]

-----------------------------------------------------------------------------
Become(r, q) == req' = [req EXCEPT ![r] = q]
Goto(r, stage) == Become(r, [req[r] EXCEPT !.stage = stage])

(* The request is sent upstream, or waits for the lock, with access token t. *)
Sent(r, t) == Become(r, [Idle EXCEPT !.stage = "sent", !.held = t])
Waits(r, forced, t) ==
  Become(r, [Idle EXCEPT !.stage = "waiting", !.forced = forced, !.held = t])

LockFree == \A r \in Requests : req[r].stage \notin Holding

(* proxy_request reads the credentials; a JWT goes through refresh first.  *)
Begin(r) ==
  /\ req[r].stage = "idle"
  /\ Sent(r, Access(snapshot)) \/ Waits(r, FALSE, Access(snapshot))
  /\ UNCHANGED <<snapshot, codex, provider, lost, orphans>>

(* Upstream answers: 401 token_expired, or anything else. *)
Answered(r) ==
  /\ req[r].stage = "sent"
  /\ \/ Waits(r, TRUE, req[r].held)
     \/ Become(r, Idle)
  /\ UNCHANGED <<snapshot, codex, provider, lost, orphans>>

(* StillValid: a rejected request is sent again with the credentials on    *)
(* disk, which ends it here; one that was not sent yet is sent as it is.   *)
StillValid(r) == IF req[r].forced THEN Become(r, Idle) ELSE Sent(r, req[r].held)

(* Mutant of Enter: a rejected request does not look at what the snapshot  *)
(* holds by now, and redeems the token its credentials came with.          *)
EnterWithoutReading(r) ==
  /\ req[r].stage = "waiting"
  /\ LockFree
  /\ \/ ~req[r].forced /\ StillValid(r)
     \/ Become(r, [req[r] EXCEPT !.stage = "posting",
                    !.read = [login |-> req[r].held.login, access |-> req[r].held.n,
                              refresh |-> req[r].held.n]])
  /\ UNCHANGED <<snapshot, codex, provider, lost, orphans>>

(* Mutant of Enter: the lock does not span the answer of the provider. *)
EnterWhileAnswered(r) ==
  /\ req[r].stage = "waiting"
  /\ \A s \in Requests : req[s].stage # "posting"
  /\ \/ /\ req[r].forced => Access(snapshot) # req[r].held
        /\ StillValid(r)
     \/ /\ req[r].forced => Access(snapshot) = req[r].held
        /\ Become(r, [req[r] EXCEPT !.stage = "posting", !.read = snapshot])
  /\ UNCHANGED <<snapshot, codex, provider, lost, orphans>>

(* refresh_inner once it has the lock, up to the POST. *)
Enter(r) ==
  /\ req[r].stage = "waiting"
  /\ LockFree
  /\ \/ /\ req[r].forced /\ Access(snapshot) # req[r].held
        /\ StillValid(r)
     \/ /\ ~req[r].forced         \* it does not expire within the window
        /\ StillValid(r)
     \/ /\ req[r].forced => Access(snapshot) = req[r].held
        /\ Become(r, [req[r] EXCEPT !.stage = "posting", !.read = snapshot])
  /\ UNCHANGED <<snapshot, codex, provider, lost, orphans>>

(* The provider accepts token t: it issues an access token and, if it      *)
(* rotates, a refresh token that replaces t.                               *)
Issues(t, rotates) ==
  /\ t.n = live[t.login] /\ t.n # 0
  /\ minted[t.login] < MaxMinted[t.login]
  /\ minted' = [minted EXCEPT ![t.login] = @ + 1]
  /\ live' = IF rotates THEN [live EXCEPT ![t.login] = minted[t.login] + 1] ELSE live

(* The new snapshot: without a new refresh token the old one stays.        *)
Renewed(c, rotates) ==
  [login |-> c.login, access |-> minted[c.login] + 1,
   refresh |-> IF rotates THEN minted[c.login] + 1 ELSE c.refresh]

(* The POST is answered: 2xx, 400 or 401, or not at all (another status, a *)
(* broken connection, no refresh token in the snapshot to begin with).     *)
Redeem(r) ==
  LET read == req[r].read IN
  /\ req[r].stage = "posting"
  /\ \/ \E rotates \in BOOLEAN :
          /\ Issues(Refresh(read), rotates)
          /\ Become(r, [req[r] EXCEPT !.stage = "granted", !.grant = Renewed(read, rotates)])
     \/ /\ read.refresh # live[read.login]
        /\ Goto(r, "refused")
        /\ UNCHANGED provider
     \/ Goto(r, "failed") /\ UNCHANGED provider
  /\ UNCHANGED <<snapshot, codex, lost, orphans>>

(* Mutant of Write: the rotated refresh token is not kept. *)
WriteOldRefresh(r) ==
  /\ req[r].stage = "granted"
  /\ snapshot' = [req[r].grant EXCEPT !.refresh = req[r].read.refresh]
  /\ IF req[r].forced THEN Become(r, Idle) ELSE Sent(r, Access(req[r].grant))
  /\ UNCHANGED <<codex, provider, lost, orphans>>

(* The answer is read and the snapshot replaced: Refreshed.  The lock is   *)
(* released and the credentials are read again.                            *)
Write(r) ==
  /\ req[r].stage = "granted"
  /\ snapshot' = req[r].grant
  /\ IF req[r].forced
       THEN Become(r, Idle)
       ELSE Sent(r, Access(req[r].grant))
  /\ UNCHANGED <<codex, provider, lost, orphans>>

(* Mutant of GiveUp: a failed refresh is tried again under the lock. *)
GiveUpNever(r) ==
  /\ \/ req[r].stage = "refused" /\ Become(r, Idle)
     \/ req[r].stage = "failed" /\ Goto(r, "posting")
  /\ UNCHANGED <<snapshot, codex, provider, lost, orphans>>

(* ReauthRequired ends the request; an error only a rejected one.          *)
GiveUp(r) ==
  /\ \/ req[r].stage = "refused" /\ Become(r, Idle)
     \/ /\ req[r].stage = "failed"
        /\ StillValid(r)
  /\ UNCHANGED <<snapshot, codex, provider, lost, orphans>>

(* What becomes of the token a dropped request was redeeming: the POST may *)
(* still arrive, or its answer is lost.                                    *)
Orphaned(r) ==
  IF req[r].stage = "posting" THEN {Refresh(req[r].read)} ELSE {}

Spent(r) ==
  IF req[r].stage = "granted" /\ req[r].grant.refresh # req[r].read.refresh
    THEN {Refresh(req[r].read)} ELSE {}

(* The client disconnects, or the answer of the provider breaks off. *)
Cancel(r) ==
  /\ req[r].stage # "idle"
  /\ orphans' = orphans \cup Orphaned(r)
  /\ lost' = lost \cup Spent(r)
  /\ Become(r, Idle)
  /\ UNCHANGED <<snapshot, codex, provider>>

(* The daemon dies, with every request. *)
Crash ==
  /\ orphans' = orphans \cup UNION {Orphaned(r) : r \in Requests}
  /\ lost' = lost \cup UNION {Spent(r) : r \in Requests}
  /\ req' = [r \in Requests |-> Idle]
  /\ UNCHANGED <<snapshot, codex, provider>>

-----------------------------------------------------------------------------
(* A dropped POST reaches the provider. *)
LateRedeem(t) ==
  /\ t \in orphans
  /\ orphans' = orphans \ {t}
  /\ \/ /\ Issues(t, TRUE)
        /\ lost' = lost \cup {t}
     \/ UNCHANGED <<provider, lost>>
  /\ UNCHANGED <<snapshot, codex, req>>

(* The user logs out everywhere, or the provider revokes the login. *)
Revoke(f) ==
  /\ live[f] # 0
  /\ live' = [live EXCEPT ![f] = 0]
  /\ UNCHANGED <<snapshot, codex, minted, lost, orphans, req>>

(* The user logs in to Codex anew. *)
CodexLogin(f) ==
  /\ minted[f] = 0
  /\ codex' = Fresh(f)
  /\ minted' = [minted EXCEPT ![f] = 1]
  /\ live' = [live EXCEPT ![f] = 1]
  /\ UNCHANGED <<snapshot, lost, orphans, req>>

(* The Codex client refreshes its own copy. *)
CodexRefresh ==
  \E rotates \in BOOLEAN :
    /\ Issues(Refresh(codex), rotates)
    /\ codex' = Renewed(codex, rotates)
    /\ lost' = IF rotates THEN lost \cup {Refresh(codex)} ELSE lost
    /\ UNCHANGED <<snapshot, orphans, req>>

(* activate: the snapshot becomes the login of Codex. *)
Activate ==
  /\ codex' = snapshot
  /\ UNCHANGED <<snapshot, provider, lost, orphans, req>>

(* update_from_current and import_value: the login of Codex becomes the    *)
(* snapshot.  It may be a copy whose token the proxy has redeemed.         *)
UpdateFromCurrent ==
  /\ snapshot' = codex
  /\ lost' = IF codex.refresh # live[codex.login]
               THEN lost \cup {Refresh(codex)} ELSE lost
  /\ UNCHANGED <<codex, provider, orphans, req>>

-----------------------------------------------------------------------------
(* The steps of refresh_inner and of its caller once it has the lock. *)
Finish(r) == Redeem(r) \/ Write(r) \/ GiveUp(r)

RequestNext(r) == Begin(r) \/ Answered(r) \/ Enter(r) \/ Finish(r) \/ Cancel(r)

Outside ==
  \/ \E t \in orphans : LateRedeem(t)
  \/ \E f \in Logins : Revoke(f) \/ CodexLogin(f)
  \/ CodexRefresh
  \/ Activate
  \/ UpdateFromCurrent

Next ==
  \/ \E r \in Requests : RequestNext(r)
  \/ Crash
  \/ Outside

Spec == Init /\ [][Next]_vars

(* tokio's Mutex is handed over in the order of arrival, and the provider  *)
(* answers or the connection breaks.                                       *)
Fairness == \A r \in Requests : SF_vars(Enter(r)) /\ WF_vars(Finish(r))

FairSpec == Spec /\ Fairness

-----------------------------------------------------------------------------
(* The provider accepts the refresh token of c, unless the login is over   *)
(* or somebody else has spent the token.                                   *)
Usable(c) ==
  \/ c.refresh = live[c.login]
  \/ live[c.login] = 0
  \/ Refresh(c) \in lost

(* Requests never spoil the snapshot between them, in whatever order they  *)
(* come: while no refresh is under way its refresh token is the one the    *)
(* provider accepts, except for one that was spent behind its back.        *)
SnapshotUsable == LockFree => Usable(snapshot)

(* ReauthRequired quarantines the account until the user logs in.  It is   *)
(* never the consequence of two requests redeeming one token.              *)
NoFalseReauth ==
  \A r \in Requests : req[r].stage = "refused" =>
    \/ live[req[r].read.login] = 0
    \/ Refresh(req[r].read) \in lost

(* The inductive invariant. *)
SingleFlight ==
  \A r, s \in Requests :
    req[r].stage \in Holding /\ req[s].stage \in Holding => r = s

(* Every login in sight has been issued. *)
Known ==
  /\ minted[snapshot.login] > 0 /\ minted[codex.login] > 0
  /\ \A r \in Requests :
       /\ req[r].stage \in Holding => minted[req[r].read.login] > 0
       /\ req[r].stage = "granted" => minted[req[r].grant.login] > 0
  /\ \A f \in Logins : live[f] <= minted[f]

(* While a refresh has been answered but not written, the snapshot may     *)
(* still hold the token it has redeemed.                                   *)
HolderInv ==
  \A r \in Requests :
    /\ req[r].stage = "posting" => Usable(req[r].read)
    /\ req[r].stage = "granted" =>
         /\ Usable(req[r].grant)
         /\ \/ Usable(snapshot)
            \/ /\ req[r].grant.refresh # req[r].read.refresh
               /\ Refresh(snapshot) = Refresh(req[r].read)

OthersUsable ==
  (\A r \in Requests : req[r].stage # "granted") => Usable(snapshot)

RefreshInv ==
  TypeOK /\ SingleFlight /\ Known /\ HolderInv /\ OthersUsable /\ NoFalseReauth

(* The turn of the request that has the lock of the account. *)
TurnOf(q) ==
  IF q.stage = "granted"
    THEN [stage |-> "granted", read |-> q.read, grant |-> q.grant]
    ELSE [stage |-> q.stage, read |-> q.read]

TurnIn(requests) ==
  IF \A r \in Requests : requests[r].stage \notin Holding
    THEN [stage |-> "free"]
    ELSE TurnOf(requests[CHOOSE r \in Requests : requests[r].stage \in Holding])

Serial == INSTANCE SerialRefresh WITH turn <- TurnIn(req)

(* Any number of requests, dropped at any await or lost in a crash,        *)
(* refresh an account like one client that takes a turn after the other: a *)
(* token is read, redeemed and replaced without another request between.   *)
RefreshesInTurn == Serial!Spec

(* A request that waits for the lock of its account leaves refresh_inner.  *)
RefreshEnds ==
  \A r \in Requests :
    req[r].stage \in {"waiting"} \cup Holding ~> req[r].stage \in {"idle", "sent"}
=============================================================================
