---------------------------- MODULE SerialRefresh ----------------------------
(***************************************************************************)
(* What refresh_inner promises of an account, however many requests call   *)
(* it, are dropped in it or die with the daemon: one client that takes a   *)
(* turn after the other.  A turn redeems the refresh token the snapshot    *)
(* had when it began, at most once, and ends with the answer in the        *)
(* snapshot, or with the snapshot as it was.  Nothing else writes the      *)
(* snapshot but the user, with the login of Codex.                         *)
(***************************************************************************)
EXTENDS Naturals

CONSTANT Logins

VARIABLES
  snapshot,   \* the credentials of the account
  codex,      \* the login of Codex
  live,       \* the refresh token the provider accepts, per login
  turn        \* the refresh under way

vars == <<snapshot, codex, live, turn>>

Credentials == [login : Logins, access : Nat, refresh : Nat]

Free == [stage |-> "free"]
Turn(stage, read) == [stage |-> stage, read |-> read]

(* The provider either issues a refresh token with the access token or     *)
(* leaves the one it was given.                                            *)
Granted(read) ==
  {t \in [stage : {"granted"}, read : {read}, grant : Credentials] :
     /\ t.grant.login = read.login
     /\ t.grant.refresh \in {read.refresh, t.grant.access}}

Init ==
  /\ codex = snapshot
  /\ live[snapshot.login] = snapshot.refresh
  /\ turn = Free

Begin ==
  /\ turn = Free
  /\ turn' = Turn("posting", snapshot)
  /\ UNCHANGED <<snapshot, codex, live>>

Redeem ==
  LET read == turn.read IN
  /\ turn.stage = "posting"
  /\ live[read.login] = read.refresh
  /\ turn' \in Granted(read)
  /\ live' = [live EXCEPT ![read.login] = turn'.grant.refresh]
  /\ UNCHANGED <<snapshot, codex>>

Refuse ==
  /\ turn.stage = "posting"
  /\ live[turn.read.login] # turn.read.refresh
  /\ turn' = Turn("refused", turn.read)
  /\ UNCHANGED <<snapshot, codex, live>>

Fail ==
  /\ turn.stage = "posting"
  /\ turn' = Turn("failed", turn.read)
  /\ UNCHANGED <<snapshot, codex, live>>

Keep ==
  /\ turn.stage = "granted"
  /\ snapshot' = turn.grant
  /\ turn' = Free
  /\ UNCHANGED <<codex, live>>

(* The turn is over without a result, or dropped with it. *)
Release ==
  /\ turn # Free
  /\ turn' = Free
  /\ UNCHANGED <<snapshot, codex, live>>

(* The user takes over the login of Codex, at any time. *)
TakeOver ==
  /\ snapshot' = codex
  /\ UNCHANGED <<codex, live, turn>>

(* The provider and Codex go on by themselves. *)
Elsewhere == UNCHANGED <<snapshot, turn>>

Next ==
  \/ Begin \/ Redeem \/ Refuse \/ Fail \/ Keep \/ Release
  \/ TakeOver \/ Elsewhere

Spec == Init /\ [][Next]_vars
=============================================================================
