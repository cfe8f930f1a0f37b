--------------------------- MODULE MCTokenRefresh ---------------------------
(***************************************************************************)
(* An instance of TokenRefresh for TLC.                                    *)
(***************************************************************************)
EXTENDS TokenRefresh, TLC

(* The provider refreshes the first login once and then revokes or refuses *)
(* it; of any other login, the tokens the user got by logging in suffice.  *)
OnceFirst == [f \in Logins |-> IF f = FirstLogin THEN 2 ELSE 1]
=============================================================================
