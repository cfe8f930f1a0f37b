------------------------------ MODULE LeasePool ------------------------------
(***************************************************************************)
(* What the router promises about concurrency, whatever a request goes     *)
(* through: accounts are leased like counting semaphores.  A request holds *)
(* one account at a time; a lease is counted when it is taken and comes    *)
(* back once; and an account with a limit is over-committed by no more     *)
(* than the worker threads that can pass the check together.               *)
(***************************************************************************)
EXTENDS Integers

CONSTANTS Accounts, Requests, Workers, Limit, NoAccount

VARIABLES
  holds,    \* the account a request has leased
  count     \* the leases of each account

Init ==
  /\ holds = [r \in Requests |-> NoAccount]
  /\ count = [a \in Accounts |-> 0]

Take(r, a) ==
  /\ holds[r] = NoAccount
  /\ Limit[a] > 0 => count[a] < Limit[a] + Workers - 1
  /\ holds' = [holds EXCEPT ![r] = a]
  /\ count' = [count EXCEPT ![a] = @ + 1]

Give(r) ==
  /\ holds[r] # NoAccount
  /\ count' = [count EXCEPT ![holds[r]] = @ - 1]
  /\ holds' = [holds EXCEPT ![r] = NoAccount]

Next == \E r \in Requests : (\E a \in Accounts : Take(r, a)) \/ Give(r)

Spec == Init /\ [][Next]_<<holds, count>>
=============================================================================
