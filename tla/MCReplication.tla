---------------------------- MODULE MCReplication ----------------------------
(* Values of the constants of Replication for TLC. *)
EXTENDS Replication

\* Networks.
AnyPartition == SUBSET Server
Alone == [s \in Server |-> {s}]
Server1Apart == [s \in Server |-> IF s = 1 THEN {1} ELSE Server \ {1}]

\* Commands given to each server by its clients.
Commands(c0, c1, c2) == [s \in Server |-> CASE s = 0 -> c0 [] s = 1 -> c1 [] OTHER -> c2]
Server1Once == Commands(0, 1, 0)
Server0Twice == Commands(2, 0, 0)
Server1Twice == Commands(0, 2, 0)
Server2Twice == Commands(0, 0, 2)
=============================================================================
