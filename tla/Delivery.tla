------------------------------- MODULE Delivery -------------------------------
(***************************************************************************)
(* What the replication of server_main.cpp promises about the commands     *)
(* themselves: each origin numbers the commands of its own clients 1, 2,   *)
(* 3, ..., and every server applies the commands of an origin in that      *)
(* order, each once, none skipped, none that the origin has not itself     *)
(* applied, and forgets none, whatever the network does and whoever        *)
(* crashes.  Commands of different origins are not ordered.                *)
(***************************************************************************)
EXTENDS Naturals

CONSTANT Server

VARIABLE applied    \* [s][o]: how many commands of o server s has applied

TypeOK == applied \in [Server -> [Server -> Nat]]

Init == applied = [s \in Server |-> [o \in Server |-> 0]]

(* A client's command is accepted by server o.                             *)
Issue(o) == applied' = [applied EXCEPT ![o][o] = @ + 1]

(* Server s applies the next command of another server o.                  *)
Apply(s, o) ==
  /\ s # o
  /\ applied[s][o] < applied[o][o]
  /\ applied' = [applied EXCEPT ![s][o] = @ + 1]

Next == \E s, o \in Server : Issue(o) \/ Apply(s, o)

Spec == Init /\ [][Next]_applied

=============================================================================
