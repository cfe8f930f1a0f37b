------------------------------ MODULE DataPlane ------------------------------
(***************************************************************************)
(* What the supervisor promises of the data plane, whatever tasks, flags   *)
(* and handles it takes: one service that is off, coming up, serving or    *)
(* being stopped.  It comes up only when it was off, clients connect only  *)
(* while it serves or a stop has not taken hold of it yet, and a stop that *)
(* has begun ends with the service off.  Once spoiled, nothing is promised *)
(* any more.                                                               *)
(***************************************************************************)

CONSTANT Conns

VARIABLES
  phase,
  clients,    \* the connections that are open
  spoiled

vars == <<phase, clients, spoiled>>

Init ==
  /\ phase = "off"
  /\ clients = {}
  /\ spoiled = FALSE

Turn(from, to) == phase \in from /\ phase' = to /\ UNCHANGED clients

Start == Turn({"off"}, "starting")

Listen == Turn({"starting"}, "serving")

Fail == Turn({"starting", "serving"}, "off")

Stop == Turn({"off", "starting", "serving"}, "stopping")

Down == Turn({"stopping"}, "off")

Connect(k) ==
  /\ phase \in {"serving", "stopping"}
  /\ k \notin clients
  /\ clients' = clients \cup {k}
  /\ UNCHANGED phase

(* Neither a stop nor a failure ends a connection: its client does. *)
Disconnect(k) ==
  /\ k \in clients
  /\ clients' = clients \ {k}
  /\ UNCHANGED phase

Next ==
  \/ /\ UNCHANGED spoiled
     /\ \/ Start \/ Listen \/ Fail \/ Stop \/ Down
        \/ \E k \in Conns : Connect(k) \/ Disconnect(k)
  \/ spoiled'

Spec == Init /\ [][Next]_vars
=============================================================================
