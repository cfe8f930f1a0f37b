--------------------------- MODULE MCProxyRouting ---------------------------
(***************************************************************************)
(* Instances of ProxyRouting for TLC.                                      *)
(***************************************************************************)
EXTENDS ProxyRouting, TLC

CONSTANTS a1, a2

(* One lease for every account, as a newly imported account has. *)
OneEach == [a \in Accounts |-> 1]

(* a1 takes one request at a time, any other account is unlimited. *)
FirstLimited == [a \in Accounts |-> IF a = a1 THEN 1 ELSE 0]

SameTier == [a \in Accounts |-> 100]

(* a1 is preferred over a2. *)
TwoTiers == [a \in Accounts |-> IF a = a1 THEN 1 ELSE 100]

RequestSymmetry == Permutations(Requests)
=============================================================================
