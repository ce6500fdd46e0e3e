---------------------------- MODULE SessionGroups ----------------------------
(***************************************************************************)
(* What clients and servers get from the Spread toolkit for the groups of  *)
(* a session: the connect group "client_<id>_connect", which the client    *)
(* and its server join, the client's inbox "client_<id>_in", which only    *)
(* the client joins (together with the connect group), and the inbox       *)
(* "server_<n>_in" of each server.  Spread is external code, modelled from *)
(* its use in client_main.cpp and server_main.cpp.                         *)
(*                                                                         *)
(* A network is a value, so that a handler that joins, leaves and sends    *)
(* several times is a composition of the operators below.  A call takes    *)
(* effect in the agreed order of the group at once; what it causes waits   *)
(* in "incoming" until each receiver calls SP_receive, so that receivers   *)
(* see it late and in the order of the group.                              *)
(***************************************************************************)
EXTENDS Integers, Sequences, FiniteSets, SequencesExt

CONSTANTS
  Clients,    \* client processes
  Servers,    \* mail servers
  Seed,       \* [Clients -> what srand() got]: the second a client started in
  MaxConnects \* bound: connections asked for, by all clients

Proc == Clients \cup Servers

ASSUME ProcAssumption == Clients \cap Servers = {} /\ IsFiniteSet(Proc)

(* The k-th value of rand() in a program seeded with "seed"; two seeds are *)
(* taken never to give the same value.                                     *)
SessionId == {<<Seed[c], k>> : c \in Clients, k \in 1 .. MaxConnects + 1}

(* up: processes connected to Spread.                                      *)
(* side: the partition of the network a process is in.                     *)
(* members: who joined the connect group of a session.                     *)
(* incoming: what a process has not received yet.                          *)
Network(Message) ==
  [up : SUBSET Proc,
   side : [Proc -> {0, 1}],
   members : [SessionId -> SUBSET Proc],
   incoming : [Proc -> Seq(Message)]]

Quiescent ==
  [up       |-> Proc,
   side     |-> [p \in Proc |-> 0],
   members  |-> [g \in SessionId |-> {}],
   incoming |-> [p \in Proc |-> <<>>]]

(* The members of group g that p can reach, as its daemon lists them.      *)
Present(n, p, g) == {q \in n.members[g] : n.side[q] = n.side[p]}

-----------------------------------------------------------------------------
(* Sending.                                                                *)
SendAll(n, receivers, m) ==
  [n EXCEPT !.incoming = [q \in Proc |-> IF q \in receivers THEN Append(@[q], m) ELSE @[q]]]

(* To the inbox group of a server.                                         *)
SendToServer(n, p, s, m) ==
  SendAll(n, {q \in n.up \cap {s} : n.side[q] = n.side[p]}, m)

(* To all_servers_group.                                                   *)
SendToServers(n, p, m) ==
  SendAll(n, {q \in n.up \cap Servers : n.side[q] = n.side[p]}, m)

(* To a client's connect group or inbox.  A server that belongs to the     *)
(* connect group receives the message, too, and ignores it: it was not     *)
(* sent to server_inbox nor to all_servers_group.                          *)
SendToClient(n, p, g, m) == SendAll(n, Present(n, p, g) \cap Clients, m)

-----------------------------------------------------------------------------
(* Membership.                                                             *)

(* What process q is told of the group g.                                  *)
Told(n, q, g, cause) ==
  [type |-> "MEMBERSHIP", group |-> g, cause |-> cause,
   n_connected |-> Cardinality(Present(n, q, g))]

(* One membership message for every group of gs.                           *)
News(n, q, gs, cause) ==
  [i \in 1 .. Cardinality(gs) |-> Told(n, q, SetToSeq(gs)[i], cause)]

(* News of the groups changed[q] to each process q.                        *)
Announce(n, changed, cause) ==
  [n EXCEPT !.incoming = [q \in Proc |-> @[q] \o News(n, q, changed[q], cause)]]

(* The members of the groups gs on the side of p, other than p itself,     *)
(* with the groups of gs they belong to.                                   *)
Peers(n, p, gs) ==
  [q \in Proc |-> IF q = p \/ n.side[q] # n.side[p] THEN {}
                  ELSE {g \in gs : q \in n.members[g]}]

(* SP_join; the member that joins is told, too.                            *)
Join(n, p, g) ==
  IF p \in n.members[g] THEN n
  ELSE LET joined == [n EXCEPT !.members[g] = @ \cup {p}]
       IN  Announce(joined, [Peers(joined, p, {g}) EXCEPT ![p] = {g}], "join")

(* SP_leave; the member that leaves gets a message that is not a regular   *)
(* membership message, which both programs ignore.                         *)
LeaveAll(n, p, gs) ==
  LET left == [n EXCEPT !.members = [g \in SessionId |-> IF g \in gs THEN @[g] \ {p} ELSE @[g]]]
  IN  Announce(left, Peers(left, p, {g \in gs : p \in n.members[g]}), "leave")

Leave(n, p, g) == LeaveAll(n, p, {g} \cap SessionId)

(* A process that dies or calls SP_disconnect: its daemon announces it in  *)
(* every group (CAUSED_BY_DISCONNECT, which is treated like a leave).      *)
Exit(n, p) ==
  [LeaveAll(n, p, SessionId) EXCEPT !.up = @ \ {p}, !.incoming[p] = <<>>]

(* The network splits or heals: members of a group that are cut off from   *)
(* each other, or meet again, are told so.                                 *)
Rearranged(n, side) ==
  LET new == [n EXCEPT !.side = side]
  IN  Announce(new,
               [q \in Proc |-> {g \in SessionId :
                                  q \in n.members[g] /\ Present(n, q, g) # Present(new, q, g)}],
               "network")
=============================================================================
