---------------------------- MODULE MCDaemonState ----------------------------
(***************************************************************************)
(* Instance of DaemonState for TLC.                                        *)
(***************************************************************************)
EXTENDS DaemonState

CONSTANTS r1, r2, d1, d2
=============================================================================
