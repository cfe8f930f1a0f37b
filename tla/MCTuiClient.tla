---------------------------- MODULE MCTuiClient ----------------------------
(***************************************************************************)
(* Instance of TuiClient for TLC.  Nothing tells one account from another  *)
(* before the first step, so the first ones have been imported, and in     *)
(* their order: every other beginning is one of these renamed.  The file's *)
(* order is another one only where the daemon has the descriptor: a bound. *)
(***************************************************************************)
EXTENDS TuiClient

MCInit ==
  /\ Init
  /\ used = 1..Cardinality(used)
  /\ \A n \in DOMAIN ranking : ranking[n] = n
  /\ order = ranking \/ (daemon /\ attached)

MCSpec ==
  /\ MCInit /\ [][Next]_vars
  /\ WF_vars(PollProbe) /\ WF_vars(PollControl) /\ WF_vars(Watch)
=============================================================================
