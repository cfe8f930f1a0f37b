------------------------ MODULE MCCodexIntegration ------------------------
(***************************************************************************)
(* Instances of CodexIntegration for TLC.                                  *)
(***************************************************************************)
EXTENDS CodexIntegration
=============================================================================
