------------------------- MODULE TokenRefreshProofs -------------------------
(***************************************************************************)
(* Proofs about TokenRefresh, for every number of requests and logins.     *)
(***************************************************************************)
EXTENDS TokenRefresh, TLAPS

(* Usable, of values: what of a pair of tokens the provider accepts.       *)
Alive(c, accepts, behind) ==
  c.refresh = accepts[c.login] \/ accepts[c.login] = 0 \/ Refresh(c) \in behind

LEMMA UsableIsAlive == \A c \in Credentials : Usable(c) <=> Alive(c, live, lost)
BY DEF Usable, Alive

(* It stays so when more tokens are known to be lost.                      *)
LEMMA AliveGrows ==
  ASSUME NEW c, NEW lv, NEW ls, NEW ls2, Alive(c, lv, ls), ls \subseteq ls2
  PROVE  Alive(c, lv, ls2)
BY DEF Alive

(* When token t is replaced by another, it stays so for every other token, *)
(* and for t if it is then known to be lost.                               *)
LEMMA AliveRotates ==
  ASSUME NEW c \in Credentials, NEW t \in Token, NEW n \in Nat,
         NEW lv \in [Logins -> Nat], NEW ls, NEW ls2, ls \subseteq ls2,
         Alive(c, lv, ls), t.n = lv[t.login], t.n # 0,
         Refresh(c) = t => t \in ls2
  PROVE  Alive(c, [lv EXCEPT ![t.login] = n], ls2)
<1>1. CASE c.login # t.login
  BY <1>1 DEF Alive, Token, Credentials
<1>2. CASE c.login = t.login /\ Refresh(c) \in ls
  BY <1>2 DEF Alive
<1>3. CASE c.login = t.login /\ c.refresh = lv[c.login]
  BY <1>3 DEF Alive, Refresh, Token, Credentials
<1> QED BY <1>1, <1>2, <1>3 DEF Alive

-----------------------------------------------------------------------------
(* The step changes no request but r. *)
OnlyMoves(r) ==
  /\ req' \in [Requests -> Request]
  /\ \A p \in Requests : p # r => req'[p] = req[p]

(* Request r is left without the lock. *)
Lets(r) == OnlyMoves(r) /\ req'[r].stage \notin Holding

LEMMA StagesTyped ==
  /\ Holding \subseteq Stage
  /\ {"idle", "sent", "waiting"} \subseteq Stage
  /\ "idle" \notin Holding /\ "sent" \notin Holding /\ "waiting" \notin Holding
  /\ "granted" \in Holding /\ "posting" \in Holding
  /\ "refused" \in Holding /\ "failed" \in Holding
BY DEF Stage, Holding

LEMMA IdleRecord ==
  Idle \in Request /\ Idle.stage = "idle"
<1>1. Fresh(FirstLogin) \in Credentials /\ Access(Fresh(FirstLogin)) \in Token
  BY LoginsAssumption DEF Fresh, Access, Credentials, Token
<1> QED BY <1>1, StagesTyped DEF Idle, Request

LEMMA BecomeMoves ==
  ASSUME TypeOK, NEW r \in Requests, NEW q \in Request, Become(r, q)
  PROVE  OnlyMoves(r) /\ req'[r] = q
BY DEF TypeOK, Become, OnlyMoves

LEMMA IdleMoves ==
  ASSUME TypeOK, NEW r \in Requests, Become(r, Idle)
  PROVE  Lets(r)
BY IdleRecord, BecomeMoves, StagesTyped DEF Lets

LEMMA SentMoves ==
  ASSUME TypeOK, NEW r \in Requests, NEW t \in Token, Sent(r, t)
  PROVE  Lets(r)
<1> DEFINE q == [Idle EXCEPT !.stage = "sent", !.held = t]
<1>1. q \in Request /\ q.stage = "sent"
  BY IdleRecord, StagesTyped DEF Request
<1>2. Become(r, q)
  BY DEF Sent
<1> HIDE DEF q
<1> QED BY <1>1, <1>2, BecomeMoves, StagesTyped DEF Lets

LEMMA WaitsMoves ==
  ASSUME TypeOK, NEW r \in Requests, NEW b \in BOOLEAN, NEW t \in Token, Waits(r, b, t)
  PROVE  Lets(r)
<1> DEFINE q == [Idle EXCEPT !.stage = "waiting", !.forced = b, !.held = t]
<1>1. q \in Request /\ q.stage = "waiting"
  BY IdleRecord, StagesTyped DEF Request
<1>2. Become(r, q)
  BY DEF Waits
<1> HIDE DEF q
<1> QED BY <1>1, <1>2, BecomeMoves, StagesTyped DEF Lets

LEMMA GotoMoves ==
  ASSUME TypeOK, NEW r \in Requests, NEW s \in Stage, Goto(r, s)
  PROVE  /\ OnlyMoves(r) /\ req'[r].stage = s
         /\ req'[r].read = req[r].read /\ req'[r].grant = req[r].grant
<1> DEFINE q == [req[r] EXCEPT !.stage = s]
<1>1. req[r] \in Request
  BY DEF TypeOK
<1>2. q \in Request /\ q.stage = s /\ q.read = req[r].read /\ q.grant = req[r].grant
  BY <1>1 DEF Request
<1>3. Become(r, q)
  BY DEF Goto
<1> HIDE DEF q
<1> QED BY <1>2, <1>3, BecomeMoves

LEMMA StillValidMoves ==
  ASSUME TypeOK, NEW r \in Requests, StillValid(r)
  PROVE  Lets(r)
<1>1. req[r].held \in Token
  BY DEF TypeOK, Request
<1> QED BY <1>1, IdleMoves, SentMoves DEF StillValid

LEMMA CredentialsTyped ==
  ASSUME TypeOK
  PROVE  /\ \A c \in Credentials : Refresh(c) \in Token /\ Access(c) \in Token
         /\ \A r \in Requests : req[r].read \in Credentials /\ req[r].grant \in Credentials
                                  /\ req[r].held \in Token /\ req[r].stage \in Stage
BY DEF TypeOK, Request, Credentials, Refresh, Access, Token

(* A request without the lock has no part in the invariant.                *)
LEMMA LetsKeeps ==
  ASSUME RefreshInv, NEW r \in Requests, Lets(r), req[r].stage # "granted",
         UNCHANGED <<snapshot, codex, minted, live, lost>>, orphans' \subseteq Token
  PROVE  RefreshInv'
<1>1. TypeOK'
  BY DEF RefreshInv, TypeOK, Lets, OnlyMoves
<1>2. \A p \in Requests : req'[p].stage \in Holding => p # r /\ req'[p] = req[p]
  BY DEF Lets, OnlyMoves
<1>3. SingleFlight' /\ Known' /\ HolderInv' /\ NoFalseReauth'
  BY <1>2, StagesTyped DEF RefreshInv, SingleFlight, Known, HolderInv, NoFalseReauth,
     Usable, Refresh
<1>4. OthersUsable'
  BY StagesTyped DEF RefreshInv, OthersUsable, Usable, Refresh, Lets, OnlyMoves
<1> QED BY <1>1, <1>3, <1>4 DEF RefreshInv

-----------------------------------------------------------------------------
(* One lemma per kind of step.                                             *)
LEMMA WaitingStep ==
  ASSUME RefreshInv, NEW r \in Requests, Begin(r) \/ Answered(r) \/ GiveUp(r)
  PROVE  RefreshInv'
<1>0. TypeOK /\ Access(snapshot) \in Token /\ req[r].held \in Token
  BY CredentialsTyped DEF RefreshInv, TypeOK
<1>1. Lets(r)
  BY <1>0, IdleMoves, SentMoves, WaitsMoves, StillValidMoves
     DEF Begin, Answered, GiveUp
<1>2. /\ req[r].stage # "granted"
      /\ UNCHANGED <<snapshot, codex, minted, live, lost, orphans>>
  BY DEF Begin, Answered, GiveUp, provider
<1> QED BY <1>0, <1>1, <1>2, LetsKeeps DEF TypeOK

LEMMA EnterStep ==
  ASSUME RefreshInv, NEW r \in Requests, Enter(r)
  PROVE  RefreshInv'
<1>0. /\ TypeOK /\ req[r].stage = "waiting" /\ LockFree
      /\ UNCHANGED <<snapshot, codex, minted, live, lost, orphans>>
  BY DEF RefreshInv, Enter, provider
<1>1. CASE StillValid(r)
  BY <1>0, <1>1, StillValidMoves, LetsKeeps DEF TypeOK
<1>2. CASE ~StillValid(r)
  <2> DEFINE q == [req[r] EXCEPT !.stage = "posting", !.read = snapshot]
  <2>1. req[r] \in Request /\ snapshot \in Credentials
    BY <1>0 DEF TypeOK
  <2>2. q \in Request /\ q.stage = "posting" /\ q.read = snapshot
    BY <2>1, StagesTyped DEF Request
  <2>3. Become(r, q)
    BY <1>2 DEF Enter
  <2> HIDE DEF q
  <2>4. OnlyMoves(r) /\ req'[r].stage = "posting" /\ req'[r].read = snapshot
    BY <1>0, <2>2, <2>3, BecomeMoves
  <2>5. \A p \in Requests : req'[p].stage \in Holding => p = r
    BY <1>0, <2>4 DEF OnlyMoves, LockFree
  <2>6. Usable(snapshot)
    BY <1>0, StagesTyped DEF RefreshInv, OthersUsable, LockFree
  <2>7. TypeOK'
    BY <1>0, <2>4 DEF TypeOK, OnlyMoves
  <2>8. SingleFlight' /\ OthersUsable' /\ NoFalseReauth'
    BY <1>0, <2>4, <2>5, <2>6, StagesTyped
       DEF SingleFlight, OthersUsable, NoFalseReauth, Usable, Refresh
  <2>9. Known' /\ HolderInv'
    BY <1>0, <2>4, <2>5, <2>6, StagesTyped DEF RefreshInv, Known, HolderInv, Usable, Refresh
  <2> QED BY <2>7, <2>8, <2>9 DEF RefreshInv
<1> QED BY <1>1, <1>2

LEMMA WriteStep ==
  ASSUME RefreshInv, NEW r \in Requests, Write(r)
  PROVE  RefreshInv'
<1>0. /\ TypeOK /\ req[r].stage = "granted" /\ snapshot' = req[r].grant
      /\ UNCHANGED <<codex, minted, live, lost, orphans>>
      /\ Access(req[r].grant) \in Token /\ req[r].grant \in Credentials
  BY CredentialsTyped DEF RefreshInv, Write, provider
<1>1. Lets(r)
  BY <1>0, IdleMoves, SentMoves DEF Write
<1>2. \A p \in Requests : req'[p].stage \notin Holding
  BY <1>0, <1>1, StagesTyped DEF RefreshInv, SingleFlight, Lets, OnlyMoves
<1>3. Usable(snapshot)' /\ minted'[snapshot'.login] > 0
  BY <1>0, StagesTyped DEF RefreshInv, HolderInv, Known, Usable, Refresh
<1>4. TypeOK'
  BY <1>0, <1>1 DEF TypeOK, Lets, OnlyMoves
<1>5. SingleFlight' /\ HolderInv' /\ OthersUsable' /\ NoFalseReauth'
  BY <1>2, <1>3, StagesTyped DEF SingleFlight, HolderInv, OthersUsable, NoFalseReauth
<1>6. Known'
  BY <1>0, <1>2, <1>3, StagesTyped DEF RefreshInv, Known
<1> QED BY <1>4, <1>5, <1>6 DEF RefreshInv

(* What a dropped request leaves behind. *)
LEMMA CancelStep ==
  ASSUME RefreshInv, NEW r \in Requests, Cancel(r)
  PROVE  RefreshInv'
<1>0. /\ TypeOK /\ Lets(r)
      /\ UNCHANGED <<snapshot, codex, minted, live>>
      /\ orphans' = orphans \cup Orphaned(r) /\ lost' = lost \cup Spent(r)
  BY IdleMoves DEF RefreshInv, Cancel, provider
<1>1. Orphaned(r) \subseteq Token /\ Spent(r) \subseteq Token
  BY <1>0, CredentialsTyped DEF Orphaned, Spent
<1>2. orphans' \subseteq Token /\ lost' \subseteq Token
  BY <1>0, <1>1 DEF TypeOK
<1>3. CASE req[r].stage # "granted"
  BY <1>0, <1>2, <1>3, LetsKeeps DEF Spent
<1>4. CASE req[r].stage = "granted"
  <2>1. Usable(snapshot)'
    BY <1>0, <1>4 DEF RefreshInv, HolderInv, Usable, Spent, Refresh
  <2>2. \A p \in Requests : req'[p].stage \notin Holding
    BY <1>0, <1>4, StagesTyped DEF RefreshInv, SingleFlight, Lets, OnlyMoves
  <2>3. TypeOK'
    BY <1>0, <1>2 DEF TypeOK, Lets, OnlyMoves
  <2>4. SingleFlight' /\ HolderInv' /\ OthersUsable' /\ NoFalseReauth'
    BY <2>1, <2>2, StagesTyped DEF SingleFlight, HolderInv, OthersUsable, NoFalseReauth
  <2>5. Known'
    BY <1>0, <2>2, StagesTyped DEF RefreshInv, Known
  <2> QED BY <2>3, <2>4, <2>5 DEF RefreshInv
<1> QED BY <1>3, <1>4

LEMMA CrashStep ==
  ASSUME RefreshInv, Crash
  PROVE  RefreshInv'
<1>0. /\ TypeOK
      /\ UNCHANGED <<snapshot, codex, minted, live>>
      /\ orphans' = orphans \cup UNION {Orphaned(r) : r \in Requests}
      /\ lost' = lost \cup UNION {Spent(r) : r \in Requests}
      /\ req' = [r \in Requests |-> Idle]
  BY DEF RefreshInv, Crash, provider
<1>1. \A r \in Requests : Orphaned(r) \subseteq Token /\ Spent(r) \subseteq Token
  BY <1>0, CredentialsTyped DEF Orphaned, Spent
<1>2. orphans' \subseteq Token /\ lost' \subseteq Token
  BY <1>0, <1>1 DEF TypeOK
<1>3. \A r \in Requests : Spent(r) \subseteq lost'
  BY <1>0
<1>4. Usable(snapshot)'
  <2>1. CASE \E r \in Requests : req[r].stage = "granted"
    <3>1. PICK r \in Requests : req[r].stage = "granted"
      BY <2>1
    <3>2. CASE Usable(snapshot)
      BY <1>0, <3>2 DEF Usable, Refresh
    <3>3. CASE ~Usable(snapshot)
      <4>1. Refresh(snapshot) \in Spent(r)
        BY <3>1, <3>3 DEF RefreshInv, HolderInv, Spent
      <4> QED BY <1>0, <1>3, <4>1 DEF Usable, Refresh
    <3> QED BY <3>2, <3>3
  <2>2. CASE ~ \E r \in Requests : req[r].stage = "granted"
    BY <1>0, <2>2 DEF RefreshInv, OthersUsable, Usable, Refresh
  <2> QED BY <2>1, <2>2
<1>5. \A p \in Requests : req'[p].stage \notin Holding
  BY <1>0, IdleRecord, StagesTyped
<1>6. TypeOK'
  BY <1>0, <1>2, IdleRecord DEF TypeOK
<1>7. SingleFlight' /\ HolderInv' /\ OthersUsable' /\ NoFalseReauth'
  BY <1>4, <1>5, StagesTyped DEF SingleFlight, HolderInv, OthersUsable, NoFalseReauth
<1>8. Known'
  BY <1>0, <1>5, StagesTyped DEF RefreshInv, Known
<1> QED BY <1>6, <1>7, <1>8 DEF RefreshInv

-----------------------------------------------------------------------------
(* What the provider does when it accepts a token. *)
LEMMA IssuesEffect ==
  ASSUME TypeOK, Known, NEW t \in Token, NEW rotates \in BOOLEAN, Issues(t, rotates)
  PROVE  /\ minted' \in [Logins -> Nat] /\ live' \in [Logins -> Nat]
         /\ minted[t.login] > 0 /\ minted[t.login] + 1 \in Nat
         /\ \A f \in Logins : minted[f] > 0 => minted'[f] > 0
         /\ \A f \in Logins : live'[f] <= minted'[f]
         /\ \A f \in Logins : live[f] = 0 => live'[f] = 0
         /\ minted[t.login] + 1 # t.n
         /\ rotates => live' = [live EXCEPT ![t.login] = minted[t.login] + 1]
         /\ ~rotates => live' = live
<1>1. /\ t.login \in Logins /\ minted \in [Logins -> Nat] /\ live \in [Logins -> Nat]
      /\ \A f \in Logins : live[f] <= minted[f]
  BY DEF TypeOK, Token, Known
<1>2. /\ t.n = live[t.login] /\ t.n # 0 /\ minted' = [minted EXCEPT ![t.login] = @ + 1]
      /\ live' = IF rotates THEN [live EXCEPT ![t.login] = minted[t.login] + 1] ELSE live
  BY DEF Issues
<1>3. minted[t.login] \in Nat /\ live[t.login] \in Nat /\ live[t.login] <= minted[t.login]
  BY <1>1
<1>4. minted[t.login] > 0 /\ minted[t.login] + 1 # t.n
  BY <1>2, <1>3
<1>5. \A f \in Logins : minted'[f] = IF f = t.login THEN minted[f] + 1 ELSE minted[f]
  BY <1>1, <1>2
<1>6. \A f \in Logins :
        live'[f] = IF rotates /\ f = t.login THEN minted[f] + 1 ELSE live[f]
  BY <1>1, <1>2
<1>7. /\ \A f \in Logins : minted[f] > 0 => minted'[f] > 0
      /\ \A f \in Logins : live'[f] <= minted'[f]
      /\ \A f \in Logins : live[f] = 0 => live'[f] = 0
  BY <1>1, <1>2, <1>3, <1>5, <1>6
<1> QED BY <1>1, <1>2, <1>3, <1>4, <1>7

(* Whatever else the provider accepted stays usable. *)
LEMMA IssuesKeepsOthers ==
  ASSUME TypeOK, Known, NEW t \in Token, NEW rotates \in BOOLEAN, Issues(t, rotates),
         lost \subseteq lost', NEW c \in Credentials, Alive(c, live, lost),
         rotates /\ Refresh(c) = t => t \in lost'
  PROVE  Alive(c, live', lost')
<1>1. CASE ~rotates
  BY <1>1, IssuesEffect, AliveGrows
<1>2. CASE rotates
  <2>1. /\ live' = [live EXCEPT ![t.login] = minted[t.login] + 1]
        /\ minted[t.login] + 1 \in Nat /\ live \in [Logins -> Nat]
        /\ t.n = live[t.login] /\ t.n # 0
    BY <1>2, IssuesEffect DEF Issues, TypeOK
  <2> QED BY <1>2, <2>1, AliveRotates
<1> QED BY <1>1, <1>2

LEMMA RedeemStep ==
  ASSUME RefreshInv, NEW r \in Requests, Redeem(r)
  PROVE  RefreshInv'
<1> DEFINE read == req[r].read
<1>0. /\ TypeOK /\ Known /\ req[r].stage = "posting" /\ read \in Credentials
      /\ snapshot \in Credentials /\ Refresh(read) \in Token
      /\ UNCHANGED <<snapshot, codex, lost, orphans>>
      /\ req[r] \in Request
  BY CredentialsTyped DEF RefreshInv, Redeem, TypeOK
<1>a. Usable(snapshot) /\ Usable(read) /\ minted[read.login] > 0
  BY <1>0, StagesTyped DEF RefreshInv, OthersUsable, HolderInv, Known, SingleFlight
<1>b. \A p \in Requests : p # r => req[p].stage \notin Holding
  BY <1>0, StagesTyped DEF RefreshInv, SingleFlight
<1>1. ASSUME NEW rotates \in BOOLEAN, Issues(Refresh(read), rotates),
             Become(r, [req[r] EXCEPT !.stage = "granted", !.grant = Renewed(read, rotates)])
      PROVE  RefreshInv'
  <2> DEFINE g == Renewed(read, rotates)
             q == [req[r] EXCEPT !.stage = "granted", !.grant = g]
  <2>1. /\ Refresh(read).login = read.login /\ Refresh(read).n = read.refresh
        /\ minted[read.login] + 1 \in Nat /\ read.login \in Logins /\ read.refresh \in Nat
    BY <1>0, <1>1, IssuesEffect DEF Refresh, Credentials
  <2>2. /\ g \in Credentials /\ g.login = read.login
        /\ rotates => g.refresh = minted[read.login] + 1
        /\ ~rotates => g.refresh = read.refresh
    BY <2>1 DEF Renewed, Credentials
  <2> HIDE DEF g
  <2>3. q \in Request /\ q.stage = "granted" /\ q.read = read /\ q.grant = g
    BY <1>0, <2>2, StagesTyped DEF Request
  <2>4. Become(r, q)
    BY <1>1 DEF g
  <2> HIDE DEF q
  <2>5. /\ OnlyMoves(r) /\ req'[r].stage = "granted"
        /\ req'[r].read = read /\ req'[r].grant = g
    BY <1>0, <2>3, <2>4, BecomeMoves
  <2>6. /\ minted' \in [Logins -> Nat] /\ live' \in [Logins -> Nat]
        /\ \A f \in Logins : minted[f] > 0 => minted'[f] > 0
        /\ \A f \in Logins : live'[f] <= minted'[f]
        /\ minted[read.login] + 1 # read.refresh
        /\ rotates => live' = [live EXCEPT ![read.login] = minted[read.login] + 1]
        /\ ~rotates => live' = live
        /\ read.refresh = live[read.login]
    BY <1>0, <1>1, <2>1, IssuesEffect DEF Issues
  <2>7. live \in [Logins -> Nat] /\ codex.login \in Logins /\ snapshot.login \in Logins
    BY <1>0 DEF TypeOK, Credentials
  <2>8. Alive(g, live', lost')
    BY <2>1, <2>2, <2>6, <2>7 DEF Alive
  <2>9. Usable(snapshot)' \/ (rotates /\ Refresh(snapshot) = Refresh(read))
    <3>1. Alive(snapshot, live, lost)
      BY <1>0, <1>a, UsableIsAlive
    <3>2. Alive(snapshot, live', lost') \/ (rotates /\ Refresh(snapshot) = Refresh(read))
      BY <1>0, <1>1, <3>1, IssuesKeepsOthers
    <3> QED BY <1>0, <3>2 DEF Alive, Usable, Refresh
  <2>10. TypeOK'
    BY <1>0, <2>5, <2>6 DEF TypeOK, OnlyMoves
  <2>11. \A p \in Requests : p # r => req'[p].stage \notin Holding
    BY <1>b, <2>5 DEF OnlyMoves
  <2>12. SingleFlight' /\ OthersUsable' /\ NoFalseReauth'
    BY <2>5, <2>11, StagesTyped DEF SingleFlight, OthersUsable, NoFalseReauth
  <2>13. Known'
    BY <1>0, <1>a, <2>1, <2>2, <2>5, <2>6, <2>7, <2>11, StagesTyped DEF Known
  <2>14. HolderInv'
    <3>1. rotates => g.refresh # read.refresh
      BY <2>2, <2>6
    <3>2. Refresh(snapshot)' = Refresh(snapshot)
      BY <1>0
    <3>3. \A p \in Requests : p # r => req'[p].stage \notin {"posting", "granted"}
      BY <2>11, StagesTyped
    <3>4. Usable(req[r].grant)'
      BY <2>5, <2>8 DEF Alive, Usable, Refresh
    <3> QED BY <2>5, <2>9, <3>1, <3>2, <3>3, <3>4 DEF HolderInv
  <2> QED BY <2>10, <2>12, <2>13, <2>14 DEF RefreshInv
<1>2. ASSUME NEW s \in {"refused", "failed"}, Goto(r, s), UNCHANGED provider,
             s = "refused" => read.refresh # live[read.login]
      PROVE  RefreshInv'
  <2>1. /\ OnlyMoves(r) /\ req'[r].stage = s /\ req'[r].read = read
        /\ UNCHANGED <<minted, live>>
    BY <1>0, <1>2, GotoMoves, StagesTyped DEF provider
  <2>2. \A p \in Requests : p # r => req'[p].stage \notin Holding
    BY <1>b, <2>1 DEF OnlyMoves
  <2>3. TypeOK'
    BY <1>0, <2>1 DEF TypeOK, OnlyMoves
  <2>4. s = "refused" => live[read.login] = 0 \/ Refresh(read) \in lost
    BY <1>2, <1>a DEF Usable
  <2>5. Usable(snapshot)'
    BY <1>0, <1>a, <2>1 DEF Usable, Refresh
  <2>6. SingleFlight' /\ HolderInv' /\ OthersUsable'
    BY <2>1, <2>2, <2>5, StagesTyped DEF SingleFlight, HolderInv, OthersUsable
  <2>7. NoFalseReauth' /\ Known'
    BY <1>0, <1>a, <2>1, <2>2, <2>4, StagesTyped DEF NoFalseReauth, Known
  <2> QED BY <2>3, <2>6, <2>7 DEF RefreshInv
<1> QED BY <1>1, <1>2 DEF Redeem

-----------------------------------------------------------------------------
(* What is usable stays usable outside the proxy's own redemptions.        *)
LEMMA OutsideKeeps ==
  ASSUME RefreshInv, req' = req, UNCHANGED snapshot, lost \subseteq lost',
         codex' \in Credentials, minted' \in [Logins -> Nat], live' \in [Logins -> Nat],
         lost' \subseteq Token, orphans' \subseteq Token,
         \A f \in Logins : minted[f] > 0 => minted'[f] > 0,
         \A f \in Logins : live'[f] <= minted'[f],
         \A f \in Logins : minted[f] > 0 /\ live[f] = 0 => live'[f] = 0,
         minted'[codex'.login] > 0,
         \A c \in Credentials : minted[c.login] > 0 /\ Alive(c, live, lost)
                                  => Alive(c, live', lost')
  PROVE  RefreshInv'
<1>0. TypeOK /\ Known
  BY DEF RefreshInv
<1>1. TypeOK'
  BY <1>0 DEF TypeOK
<1>2. snapshot \in Credentials /\ snapshot.login \in Logins
  BY <1>0 DEF TypeOK, Credentials
<1>3. \A r \in Requests : /\ req[r].read \in Credentials /\ req[r].grant \in Credentials
                          /\ req[r].read.login \in Logins /\ req[r].grant.login \in Logins
  BY <1>0, CredentialsTyped DEF Credentials
<1>4. SingleFlight'
  BY DEF RefreshInv, SingleFlight
<1>5. Known'
  BY <1>0, <1>2, <1>3 DEF Known
<1>6. Usable(snapshot) => Usable(snapshot)'
  BY <1>0, <1>2 DEF Known, Usable, Alive, Refresh
<1>7. ASSUME NEW r \in Requests, req[r].stage \in Holding
      PROVE  /\ Usable(req[r].read) => Usable(req[r].read)'
             /\ req[r].stage = "granted" /\ Usable(req[r].grant) => Usable(req[r].grant)'
  <2>1. minted[req[r].read.login] > 0
    BY <1>0, <1>7 DEF Known
  <2>2. req[r].stage = "granted" => minted[req[r].grant.login] > 0
    BY <1>0 DEF Known
  <2>3. /\ Alive(req[r].read, live, lost) => Alive(req[r].read, live', lost')
        /\ req[r].stage = "granted" /\ Alive(req[r].grant, live, lost)
             => Alive(req[r].grant, live', lost')
    BY <1>3, <2>1, <2>2
  <2> QED BY <2>3 DEF Usable, Alive, Refresh
<1>8. OthersUsable'
  BY <1>6 DEF RefreshInv, OthersUsable
<1>9. HolderInv'
  <2> SUFFICES ASSUME NEW r \in Requests
               PROVE  /\ req[r].stage = "posting" => Usable(req[r].read)'
                      /\ req[r].stage = "granted" =>
                           /\ Usable(req[r].grant)'
                           /\ \/ Usable(snapshot)'
                              \/ /\ req[r].grant.refresh # req[r].read.refresh
                                 /\ Refresh(snapshot) = Refresh(req[r].read)
    BY DEF HolderInv, Refresh
  <2> QED BY <1>6, <1>7, StagesTyped DEF RefreshInv, HolderInv
<1>10. NoFalseReauth'
  <2> SUFFICES ASSUME NEW r \in Requests, req[r].stage = "refused"
               PROVE  live'[req[r].read.login] = 0 \/ Refresh(req[r].read) \in lost'
    BY DEF NoFalseReauth, Refresh
  <2>1. minted[req[r].read.login] > 0
    BY <1>0, StagesTyped DEF Known
  <2> QED BY <1>3, <2>1 DEF RefreshInv, NoFalseReauth
<1> QED BY <1>1, <1>4, <1>5, <1>8, <1>9, <1>10 DEF RefreshInv

LEMMA OutsideStep ==
  ASSUME RefreshInv, Outside
  PROVE  RefreshInv'
<1>0. /\ TypeOK /\ Known /\ codex \in Credentials /\ snapshot \in Credentials
      /\ codex.login \in Logins /\ snapshot.login \in Logins
      /\ minted \in [Logins -> Nat] /\ live \in [Logins -> Nat]
      /\ \A f \in Logins : live[f] <= minted[f]
      /\ Refresh(codex) \in Token /\ Refresh(codex).login = codex.login
      /\ lost \subseteq Token /\ orphans \subseteq Token
  BY CredentialsTyped DEF RefreshInv, TypeOK, Known, Credentials, Refresh
<1>1. ASSUME NEW t \in orphans, LateRedeem(t)
      PROVE  RefreshInv'
  <2>1. /\ t \in Token /\ req' = req /\ UNCHANGED <<snapshot, codex>>
        /\ orphans' \subseteq Token
    BY <1>0, <1>1 DEF LateRedeem
  <2>2. CASE Issues(t, TRUE) /\ lost' = lost \cup {t}
    <3>1. \A c \in Credentials : Alive(c, live, lost) => Alive(c, live', lost')
      BY <1>0, <2>1, <2>2, IssuesKeepsOthers
    <3>2. /\ minted' \in [Logins -> Nat] /\ live' \in [Logins -> Nat]
          /\ \A f \in Logins : minted[f] > 0 => minted'[f] > 0
          /\ \A f \in Logins : live'[f] <= minted'[f]
          /\ \A f \in Logins : live[f] = 0 => live'[f] = 0
      BY <1>0, <2>1, <2>2, IssuesEffect
    <3> QED BY <1>0, <2>1, <2>2, <3>1, <3>2, OutsideKeeps DEF Known
  <2>3. CASE UNCHANGED <<provider, lost>>
    BY <1>0, <2>1, <2>3, OutsideKeeps DEF provider, Known
  <2> QED BY <1>1, <2>2, <2>3 DEF LateRedeem
<1>2. ASSUME NEW f \in Logins, Revoke(f)
      PROVE  RefreshInv'
  <2>1. /\ live' = [live EXCEPT ![f] = 0]
        /\ UNCHANGED <<snapshot, codex, minted, lost, orphans, req>>
    BY <1>2 DEF Revoke
  <2>2. \A c \in Credentials : Alive(c, live, lost) => Alive(c, live', lost')
    BY <1>0, <2>1 DEF Alive, Credentials
  <2>3. \A g \in Logins : live'[g] <= minted'[g] /\ (live[g] = 0 => live'[g] = 0)
    BY <1>0, <2>1
  <2>4. live' \in [Logins -> Nat]
    BY <1>0, <2>1
  <2> QED BY <1>0, <2>1, <2>2, <2>3, <2>4, OutsideKeeps DEF Known
<1>3. ASSUME NEW f \in Logins, CodexLogin(f)
      PROVE  RefreshInv'
  <2>1. /\ minted[f] = 0 /\ codex' = Fresh(f)
        /\ minted' = [minted EXCEPT ![f] = 1] /\ live' = [live EXCEPT ![f] = 1]
        /\ UNCHANGED <<snapshot, lost, orphans, req>>
    BY <1>3 DEF CodexLogin
  <2>2. \A c \in Credentials : minted[c.login] > 0 /\ Alive(c, live, lost)
                                 => Alive(c, live', lost')
    BY <1>0, <2>1 DEF Alive, Credentials
  <2>3. \A g \in Logins : /\ minted[g] > 0 => minted'[g] > 0
                          /\ live'[g] <= minted'[g]
                          /\ minted[g] > 0 /\ live[g] = 0 => live'[g] = 0
    BY <1>0, <2>1
  <2>4. codex' \in Credentials /\ minted'[codex'.login] > 0
    BY <1>0, <2>1 DEF Fresh, Credentials
  <2>5. minted' \in [Logins -> Nat] /\ live' \in [Logins -> Nat]
    BY <1>0, <2>1
  <2> QED BY <1>0, <2>1, <2>2, <2>3, <2>4, <2>5, OutsideKeeps
<1>4. CASE CodexRefresh
  <2>1. PICK rotates \in BOOLEAN :
          /\ Issues(Refresh(codex), rotates) /\ codex' = Renewed(codex, rotates)
          /\ lost' = IF rotates THEN lost \cup {Refresh(codex)} ELSE lost
          /\ UNCHANGED <<snapshot, orphans, req>>
    BY <1>4 DEF CodexRefresh
  <2>2. \A c \in Credentials : Alive(c, live, lost) => Alive(c, live', lost')
    BY <1>0, <2>1, IssuesKeepsOthers
  <2>3. /\ minted' \in [Logins -> Nat] /\ live' \in [Logins -> Nat]
        /\ minted[codex.login] > 0 /\ minted[codex.login] + 1 \in Nat
        /\ \A f \in Logins : minted[f] > 0 => minted'[f] > 0
        /\ \A f \in Logins : live'[f] <= minted'[f]
        /\ \A f \in Logins : live[f] = 0 => live'[f] = 0
    BY <1>0, <2>1, IssuesEffect
  <2>4. codex' \in Credentials /\ codex'.login = codex.login
    BY <1>0, <2>1, <2>3 DEF Renewed, Credentials
  <2>5. lost \subseteq lost' /\ lost' \subseteq Token
    BY <1>0, <2>1
  <2> QED BY <1>0, <2>1, <2>2, <2>3, <2>4, <2>5, OutsideKeeps
<1>5. CASE Activate
  <2>1. /\ codex' = snapshot
        /\ UNCHANGED <<snapshot, minted, live, lost, orphans, req>>
    BY <1>5 DEF Activate, provider
  <2> QED BY <1>0, <2>1, OutsideKeeps DEF Known
<1>6. CASE UpdateFromCurrent
  <2>1. /\ snapshot' = codex
        /\ lost' = IF codex.refresh # live[codex.login]
                     THEN lost \cup {Refresh(codex)} ELSE lost
        /\ UNCHANGED <<codex, minted, live, orphans, req>>
    BY <1>6 DEF UpdateFromCurrent, provider
  <2>2. Usable(snapshot)'
    BY <2>1 DEF Usable
  <2>3. lost \subseteq lost' /\ lost' \subseteq Token
    BY <1>0, <2>1
  <2>4. TypeOK' /\ Known'
    BY <1>0, <2>1, <2>3 DEF TypeOK, Known
  <2>5. SingleFlight' /\ OthersUsable' /\ NoFalseReauth'
    BY <2>1, <2>2, <2>3 DEF RefreshInv, SingleFlight, OthersUsable, NoFalseReauth, Refresh
  <2>6. HolderInv'
    BY <2>1, <2>2, <2>3 DEF RefreshInv, HolderInv, Usable, Refresh
  <2> QED BY <2>4, <2>5, <2>6 DEF RefreshInv
<1> QED BY <1>1, <1>2, <1>3, <1>4, <1>5, <1>6 DEF Outside

LEMMA InitRefreshInv == Init => RefreshInv
<1> SUFFICES ASSUME Init
             PROVE  RefreshInv
  OBVIOUS
<1>1. /\ Fresh(FirstLogin) \in Credentials /\ Fresh(FirstLogin).login = FirstLogin
      /\ Fresh(FirstLogin).refresh = 1 /\ FirstLogin \in Logins
  BY LoginsAssumption DEF Fresh, Credentials
<1>2. \A r \in Requests : req[r].stage \notin Holding
  BY IdleRecord, StagesTyped DEF Init
<1>3. /\ minted[FirstLogin] = 1 /\ live[FirstLogin] = 1
      /\ \A f \in Logins : live[f] <= minted[f]
  BY <1>1 DEF Init
<1>4. TypeOK
  BY <1>1, IdleRecord DEF Init, TypeOK
<1>5. Usable(snapshot)
  BY <1>1, <1>3 DEF Init, Usable
<1>6. Known
  BY <1>1, <1>2, <1>3, StagesTyped DEF Init, Known
<1> QED BY <1>2, <1>4, <1>5, <1>6, StagesTyped
       DEF RefreshInv, SingleFlight, HolderInv, OthersUsable, NoFalseReauth

LEMMA NextRefreshInv == RefreshInv /\ [Next]_vars => RefreshInv'
<1> SUFFICES ASSUME RefreshInv, [Next]_vars
             PROVE  RefreshInv'
  OBVIOUS
<1>1. ASSUME NEW r \in Requests, RequestNext(r)
      PROVE  RefreshInv'
  BY <1>1, WaitingStep, EnterStep, RedeemStep, WriteStep, CancelStep
     DEF RequestNext, Finish
<1>2. CASE UNCHANGED vars
  BY <1>2 DEF vars, RefreshInv, TypeOK, SingleFlight, Known, HolderInv, OthersUsable,
     NoFalseReauth, Usable, Refresh
<1> QED BY <1>1, <1>2, CrashStep, OutsideStep DEF Next

(* The inductive invariant holds whatever requests, crashes, late answers  *)
(* and the Codex client do.                                                *)
THEOREM RefreshInvariant == Spec => []RefreshInv
BY InitRefreshInv, NextRefreshInv, PTL DEF Spec

(* An account is sent to the login page only when its login is over or its *)
(* token was spent outside refresh_inner: requests that are rejected       *)
(* together never redeem a refresh token twice.                            *)
THEOREM ReauthIsJustified == Spec => []NoFalseReauth
<1>1. RefreshInv => NoFalseReauth
  BY DEF RefreshInv
<1> QED BY <1>1, RefreshInvariant, PTL

(* While no refresh is under way the snapshot holds the token the provider *)
(* accepts, unless the login is over or it was spent elsewhere.            *)
THEOREM SnapshotStaysUsable == Spec => []SnapshotUsable
<1>1. RefreshInv => SnapshotUsable
  BY StagesTyped DEF RefreshInv, OthersUsable, SnapshotUsable, LockFree
<1> QED BY <1>1, RefreshInvariant, PTL

-----------------------------------------------------------------------------
(* The turn that the requests make: that of the holder, if there is one.   *)
LEMMA TurnIsFree ==
  ASSUME NEW f, \A r \in Requests : f[r].stage \notin Holding
  PROVE  TurnIn(f) = [stage |-> "free"]
BY DEF TurnIn

LEMMA TurnIsHeld ==
  ASSUME NEW f, NEW r \in Requests, f[r].stage \in Holding,
         \A s \in Requests : f[s].stage \in Holding => s = r
  PROVE  TurnIn(f) = TurnOf(f[r])
<1>1. (CHOOSE s \in Requests : f[s].stage \in Holding) = r
  OBVIOUS
<1> QED BY <1>1 DEF TurnIn

LEMMA HolderIsAlone ==
  ASSUME RefreshInv, NEW r \in Requests, req[r].stage \in Holding
  PROVE  /\ \A s \in Requests : req[s].stage \in Holding => s = r
         /\ TurnIn(req) = TurnOf(req[r])
<1>1. \A s \in Requests : req[s].stage \in Holding => s = r
  BY DEF RefreshInv, SingleFlight
<1> QED BY <1>1, TurnIsHeld

(* A request that has no part in the turn, before and after its step. *)
LEMMA TurnStays ==
  ASSUME RefreshInv, NEW r \in Requests, Lets(r), req[r].stage \notin Holding
  PROVE  TurnIn(req') = TurnIn(req)
<1>1. CASE \E h \in Requests : req[h].stage \in Holding
  <2>1. PICK h \in Requests : req[h].stage \in Holding
    BY <1>1
  <2>2. /\ TurnIn(req) = TurnOf(req[h])
        /\ \A s \in Requests : req[s].stage \in Holding => s = h
    BY <2>1, HolderIsAlone
  <2>3. req'[h] = req[h] /\ \A s \in Requests : req'[s].stage \in Holding => s = h
    BY <2>1, <2>2 DEF Lets, OnlyMoves
  <2>4. TurnIn(req') = TurnOf(req'[h])
    BY <2>1, <2>3, TurnIsHeld
  <2> QED BY <2>2, <2>3, <2>4
<1>2. CASE \A h \in Requests : req[h].stage \notin Holding
  <2>1. \A h \in Requests : req'[h].stage \notin Holding
    BY <1>2 DEF Lets, OnlyMoves
  <2> QED BY <1>2, <2>1, TurnIsFree
<1> QED BY <1>1, <1>2

(* The holder lets the lock go. *)
LEMMA TurnEnds ==
  ASSUME RefreshInv, NEW r \in Requests, Lets(r), req[r].stage \in Holding
  PROVE  /\ TurnIn(req) = TurnOf(req[r]) /\ TurnIn(req) # Serial!Free
         /\ TurnIn(req') = Serial!Free
<1>1. /\ TurnIn(req) = TurnOf(req[r])
      /\ \A s \in Requests : req[s].stage \in Holding => s = r
  BY HolderIsAlone
<1>2. TurnIn(req).stage = req[r].stage
  BY <1>1 DEF TurnOf
<1>3. TurnIn(req) # Serial!Free
  BY <1>2 DEF Serial!Free, Holding
<1>4. \A s \in Requests : req'[s].stage \notin Holding
  BY <1>1 DEF Lets, OnlyMoves
<1> QED BY <1>1, <1>3, <1>4, TurnIsFree DEF Serial!Free

(* The holder goes on with it. *)
LEMMA TurnMoves ==
  ASSUME RefreshInv, NEW r \in Requests, OnlyMoves(r),
         req[r].stage \in Holding, req'[r].stage \in Holding
  PROVE  TurnIn(req) = TurnOf(req[r]) /\ TurnIn(req') = TurnOf(req'[r])
<1>1. /\ TurnIn(req) = TurnOf(req[r])
      /\ \A s \in Requests : req[s].stage \in Holding => s = r
  BY HolderIsAlone
<1>2. \A s \in Requests : req'[s].stage \in Holding => s = r
  BY <1>1 DEF OnlyMoves
<1> QED BY <1>1, <1>2, TurnIsHeld

-----------------------------------------------------------------------------
(* Each step is a step of the serial client, or none. *)
LEMMA WaitingInTurn ==
  ASSUME RefreshInv, NEW r \in Requests, Begin(r) \/ Answered(r) \/ GiveUp(r)
  PROVE  Serial!Next
<1>0. TypeOK /\ Access(snapshot) \in Token /\ req[r].held \in Token
  BY CredentialsTyped DEF RefreshInv, TypeOK
<1>1. Lets(r) /\ UNCHANGED <<snapshot, codex, live>>
  BY <1>0, IdleMoves, SentMoves, WaitsMoves, StillValidMoves
     DEF Begin, Answered, GiveUp, provider
<1>2. CASE req[r].stage \in Holding
  BY <1>1, <1>2, TurnEnds DEF Serial!Next, Serial!Release
<1>3. CASE req[r].stage \notin Holding
  BY <1>1, <1>3, TurnStays DEF Serial!Next, Serial!Elsewhere
<1> QED BY <1>2, <1>3

LEMMA EnterInTurn ==
  ASSUME RefreshInv, NEW r \in Requests, Enter(r)
  PROVE  Serial!Next
<1>0. /\ TypeOK /\ req[r].stage = "waiting" /\ LockFree
      /\ UNCHANGED <<snapshot, codex, live>>
  BY DEF RefreshInv, Enter, provider
<1>1. CASE StillValid(r)
  <2>1. TurnIn(req') = TurnIn(req)
    BY <1>0, <1>1, StillValidMoves, TurnStays, StagesTyped
  <2> QED BY <1>0, <2>1 DEF Serial!Next, Serial!Elsewhere
<1>2. CASE ~StillValid(r)
  <2> DEFINE q == [req[r] EXCEPT !.stage = "posting", !.read = snapshot]
  <2>1. req[r] \in Request /\ snapshot \in Credentials
    BY <1>0 DEF TypeOK
  <2>2. q \in Request /\ q.stage = "posting" /\ q.read = snapshot
    BY <2>1, StagesTyped DEF Request
  <2>3. Become(r, q)
    BY <1>2 DEF Enter
  <2> HIDE DEF q
  <2>4. OnlyMoves(r) /\ req'[r].stage = "posting" /\ req'[r].read = snapshot
    BY <1>0, <2>2, <2>3, BecomeMoves
  <2>5. \A p \in Requests : req'[p].stage \in Holding => p = r
    BY <1>0, <2>4 DEF OnlyMoves, LockFree
  <2>6. TurnIn(req) = Serial!Free
    BY <1>0, TurnIsFree DEF LockFree, Serial!Free
  <2>7. TurnIn(req') = Serial!Turn("posting", snapshot)
    BY <2>4, <2>5, TurnIsHeld, StagesTyped DEF TurnOf, Serial!Turn
  <2> QED BY <1>0, <2>6, <2>7 DEF Serial!Next, Serial!Begin
<1> QED BY <1>1, <1>2

LEMMA RedeemInTurn ==
  ASSUME RefreshInv, NEW r \in Requests, Redeem(r)
  PROVE  Serial!Next
<1> DEFINE read == req[r].read
<1>0. /\ TypeOK /\ req[r].stage = "posting" /\ read \in Credentials
      /\ Refresh(read) \in Token /\ UNCHANGED <<snapshot, codex>>
      /\ req[r] \in Request /\ minted \in [Logins -> Nat] /\ live \in [Logins -> Nat]
  BY CredentialsTyped DEF RefreshInv, Redeem, TypeOK
<1>1. TurnOf(req[r]) = Serial!Turn("posting", read)
  BY <1>0 DEF TurnOf, Serial!Turn
<1>2. ASSUME NEW rotates \in BOOLEAN, Issues(Refresh(read), rotates),
             Become(r, [req[r] EXCEPT !.stage = "granted", !.grant = Renewed(read, rotates)])
      PROVE  Serial!Next
  <2> DEFINE g == Renewed(read, rotates)
             q == [req[r] EXCEPT !.stage = "granted", !.grant = g]
  <2>1. /\ Refresh(read).login = read.login /\ Refresh(read).n = read.refresh
        /\ minted[read.login] + 1 \in Nat /\ read.login \in Logins /\ read.refresh \in Nat
    BY <1>0 DEF Refresh, Credentials
  <2>2. /\ g \in Credentials /\ g.login = read.login
        /\ rotates => g.refresh = minted[read.login] + 1
        /\ ~rotates => g.refresh = read.refresh
        /\ g.refresh \in {read.refresh, g.access}
    BY <2>1 DEF Renewed, Credentials
  <2> HIDE DEF g
  <2>3. q \in Request /\ q.stage = "granted" /\ q.read = read /\ q.grant = g
    BY <1>0, <2>2, StagesTyped DEF Request
  <2>4. Become(r, q)
    BY <1>2 DEF g
  <2> HIDE DEF q
  <2>5. /\ OnlyMoves(r) /\ req'[r].stage = "granted"
        /\ req'[r].read = read /\ req'[r].grant = g
    BY <1>0, <2>3, <2>4, BecomeMoves
  <2>6. /\ live[read.login] = read.refresh
        /\ rotates => live' = [live EXCEPT ![read.login] = minted[read.login] + 1]
        /\ ~rotates => live' = live
    BY <1>2, <2>1 DEF Issues
  <2>7. live' = [live EXCEPT ![read.login] = g.refresh]
    BY <1>0, <2>1, <2>2, <2>6
  <2>8. /\ TurnIn(req) = Serial!Turn("posting", read)
        /\ TurnIn(req') = [stage |-> "granted", read |-> read, grant |-> g]
    BY <1>0, <1>1, <2>5, TurnMoves, StagesTyped DEF TurnOf
  <2>9. TurnIn(req') \in Serial!Granted(read) /\ TurnIn(req').grant = g
    BY <2>2, <2>8 DEF Serial!Granted, Serial!Credentials, Credentials
  <2>10. TurnIn(req).read = read /\ TurnIn(req).stage = "posting"
    BY <2>8 DEF Serial!Turn
  <2> QED BY <1>0, <2>6, <2>7, <2>9, <2>10 DEF Serial!Next, Serial!Redeem
<1>3. ASSUME NEW s \in {"refused", "failed"}, Goto(r, s), UNCHANGED provider,
             s = "refused" => read.refresh # live[read.login]
      PROVE  Serial!Next
  <2>1. /\ OnlyMoves(r) /\ req'[r].stage = s /\ req'[r].read = read
        /\ UNCHANGED live
    BY <1>0, <1>3, GotoMoves, StagesTyped DEF provider
  <2>2. /\ TurnIn(req) = Serial!Turn("posting", read)
        /\ TurnIn(req') = Serial!Turn(s, read)
    BY <1>0, <1>1, <2>1, TurnMoves, StagesTyped DEF TurnOf, Serial!Turn
  <2>3. TurnIn(req).read = read /\ TurnIn(req).stage = "posting"
    BY <2>2 DEF Serial!Turn
  <2>4. CASE s = "refused"
    BY <1>0, <1>3, <2>1, <2>2, <2>3, <2>4 DEF Serial!Next, Serial!Refuse
  <2>5. CASE s = "failed"
    BY <1>0, <2>1, <2>2, <2>3, <2>5 DEF Serial!Next, Serial!Fail
  <2> QED BY <2>4, <2>5
<1> QED BY <1>2, <1>3 DEF Redeem

LEMMA WriteInTurn ==
  ASSUME RefreshInv, NEW r \in Requests, Write(r)
  PROVE  Serial!Next
<1>0. /\ TypeOK /\ req[r].stage = "granted" /\ snapshot' = req[r].grant
      /\ UNCHANGED <<codex, live>> /\ Access(req[r].grant) \in Token
  BY CredentialsTyped DEF RefreshInv, Write, provider
<1>1. Lets(r)
  BY <1>0, IdleMoves, SentMoves DEF Write
<1>2. TurnIn(req) = TurnOf(req[r]) /\ TurnIn(req') = Serial!Free
  BY <1>0, <1>1, TurnEnds, StagesTyped
<1>3. TurnIn(req).stage = "granted" /\ TurnIn(req).grant = req[r].grant
  BY <1>0, <1>2 DEF TurnOf
<1> QED BY <1>0, <1>2, <1>3 DEF Serial!Next, Serial!Keep

LEMMA CancelInTurn ==
  ASSUME RefreshInv, NEW r \in Requests, Cancel(r)
  PROVE  Serial!Next
<1>1. Lets(r) /\ UNCHANGED <<snapshot, codex, live>>
  BY IdleMoves DEF RefreshInv, Cancel, provider
<1>2. CASE req[r].stage \in Holding
  BY <1>1, <1>2, TurnEnds DEF Serial!Next, Serial!Release
<1>3. CASE req[r].stage \notin Holding
  BY <1>1, <1>3, TurnStays DEF Serial!Next, Serial!Elsewhere
<1> QED BY <1>2, <1>3

LEMMA CrashInTurn ==
  ASSUME RefreshInv, Crash
  PROVE  Serial!Next
<1>1. UNCHANGED <<snapshot, codex, live>> /\ \A r \in Requests : req'[r].stage \notin Holding
  BY IdleRecord, StagesTyped DEF Crash, provider
<1>2. TurnIn(req') = Serial!Free
  BY <1>1, TurnIsFree DEF Serial!Free
<1>3. CASE TurnIn(req) = Serial!Free
  BY <1>1, <1>2, <1>3 DEF Serial!Next, Serial!Elsewhere
<1>4. CASE TurnIn(req) # Serial!Free
  BY <1>1, <1>2, <1>4 DEF Serial!Next, Serial!Release
<1> QED BY <1>3, <1>4

LEMMA OutsideInTurn ==
  ASSUME Outside
  PROVE  Serial!Next
<1>1. UNCHANGED TurnIn(req)
  BY DEF Outside, LateRedeem, Revoke, CodexLogin, CodexRefresh, Activate,
     UpdateFromCurrent
<1>2. CASE UpdateFromCurrent
  BY <1>1, <1>2 DEF UpdateFromCurrent, provider, Serial!Next, Serial!TakeOver
<1>3. CASE ~UpdateFromCurrent
  <2>1. UNCHANGED snapshot
    BY <1>3 DEF Outside, LateRedeem, Revoke, CodexLogin, CodexRefresh, Activate
  <2> QED BY <1>1, <2>1 DEF Serial!Next, Serial!Elsewhere
<1> QED BY <1>2, <1>3

(* However many requests there are, and wherever they are dropped or the   *)
(* daemon dies, refresh_inner works on the account like one client, a turn *)
(* after the other.                                                        *)
THEOREM RefreshImplementsSerial == Spec => RefreshesInTurn
<1>1. Init => Serial!Init
  <2> SUFFICES ASSUME Init PROVE Serial!Init
    OBVIOUS
  <2>1. \A r \in Requests : req[r].stage \notin Holding
    BY IdleRecord, StagesTyped DEF Init
  <2>2. TurnIn(req) = Serial!Free
    BY <2>1, TurnIsFree DEF Serial!Free
  <2>3. snapshot.login = FirstLogin /\ snapshot.refresh = 1
    BY DEF Init, Fresh
  <2>4. codex = snapshot /\ live[snapshot.login] = snapshot.refresh
    BY <2>3, LoginsAssumption DEF Init
  <2> QED BY <2>2, <2>4 DEF Serial!Init
<1>2. RefreshInv /\ [Next]_vars => [Serial!Next]_<<snapshot, codex, live, TurnIn(req)>>
  <2> SUFFICES ASSUME RefreshInv, [Next]_vars
               PROVE  Serial!Next \/ UNCHANGED <<snapshot, codex, live, TurnIn(req)>>
    OBVIOUS
  <2>1. ASSUME NEW r \in Requests, RequestNext(r)
        PROVE  Serial!Next
    BY <2>1, WaitingInTurn, EnterInTurn, RedeemInTurn, WriteInTurn, CancelInTurn
       DEF RequestNext, Finish
  <2>2. CASE UNCHANGED vars
    BY <2>2 DEF vars
  <2> QED BY <2>1, <2>2, CrashInTurn, OutsideInTurn DEF Next
<1>3. RefreshesInTurn <=>
        Serial!Init /\ [][Serial!Next]_<<snapshot, codex, live, TurnIn(req)>>
  BY DEF RefreshesInTurn, Serial!Spec, Serial!vars
<1> QED BY <1>1, <1>2, <1>3, RefreshInvariant, PTL DEF Spec
=============================================================================
