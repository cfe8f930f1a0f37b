-------------------------- MODULE ReversibleSwitch --------------------------
(***************************************************************************)
(* What the integration promises its user: a switch over config.toml.      *)
(* Switching on replaces two values, switching off brings back the file as *)
(* the user would have it by now, with the edits made in the meantime; and *)
(* neither touches a file whose managed values the user has changed.       *)
(* Once spoiled, nothing is promised any more.                             *)
(***************************************************************************)

CONSTANT Mine    \* the files a user writes

VARIABLES
  file,      \* config.toml
  own,       \* what it would be without the program
  on,        \* the switch
  spoiled

Fields == {"provider", "url", "table"}

Routed(f) == [f EXCEPT !.provider = "openai", !.url = "proxy"]

(* The managed values are in place, those of version 2 or of version 1. *)
Routes(f) ==
  \/ f.provider = "openai" /\ f.url = "proxy"
  \/ f.provider = "codex-switcher" /\ f.table = "ours"

Init ==
  /\ own \in Mine
  /\ IF on THEN Routes(file) ELSE file = own
  /\ on \in BOOLEAN
  /\ spoiled = FALSE

SwitchOn ==
  /\ ~on
  /\ on' = TRUE
  /\ file' = Routed(own)
  /\ UNCHANGED own

Upgrade ==
  /\ on /\ Routes(file)
  /\ file' = Routed(file)
  /\ UNCHANGED <<own, on>>

SwitchOff ==
  /\ on /\ Routes(file)
  /\ on' = FALSE
  /\ file' = own
  /\ UNCHANGED own

(* Of a managed value that is edited while the switch is on, the old one   *)
(* remains the user's own.                                                 *)
Edit ==
  /\ \E f \in Fields :
       /\ file' = [file EXCEPT ![f] = file'[f]]
       /\ own' = own \/ own' = [own EXCEPT ![f] = file'[f]]
  /\ ~on => own' = file'
  /\ own' \in Mine
  /\ UNCHANGED on

Spoil == spoiled' = TRUE

Next ==
  \/ ~spoiled /\ UNCHANGED spoiled /\ (SwitchOn \/ Upgrade \/ SwitchOff \/ Edit)
  \/ Spoil

Spec == Init /\ [][Next]_<<file, own, on, spoiled>>
=============================================================================
