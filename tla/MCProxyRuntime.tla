--------------------------- MODULE MCProxyRuntime ---------------------------
(***************************************************************************)
(* Instances of ProxyRuntime for TLC.                                      *)
(***************************************************************************)
EXTENDS ProxyRuntime

(* Nothing but the two callers is to blame: every address can be bound.    *)
Undisturbed == ~disturbed /\ state # "Error"
=============================================================================
