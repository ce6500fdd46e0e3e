---------------------------- MODULE ClientSession ----------------------------
(***************************************************************************)
(* A client (client_main.cpp) and the servers' side of its session         *)
(* (server_main.cpp): asking for a connection, the connect group whose     *)
(* member count tells both ends whether the other is there, requests,      *)
(* answers, the acknowledgement that ends a wait, and the timer of a       *)
(* request.                                                                *)
(*                                                                         *)
(* Each handler that runs from one event to the next (a line typed by the  *)
(* user, a message, a timeout) is one action.  What a request does to the  *)
(* mailboxes is in Mailboxes, how commands spread in Replication; here     *)
(* only who answers whom, and when, matters.                               *)
(***************************************************************************)
EXTENDS SessionGroups

CONSTANTS
  Kinds,         \* bound: the requests users make
  MaxRequests,   \* bound: requests made, by all clients
  MaxCrashes,    \* bound: crashes of servers
  MaxNetChanges, \* bound: splits and healings of the network
  MaxSynchs,     \* bound: synchronizations of the servers
  Hasty          \* what users do not wait for before the next command

ASSUME KindsAssumption ==
  Kinds \subseteq {"MAIL", "READ", "DELETE", "SHOW_INBOX", "SHOW_COMPONENT"}

ASSUME SessionBoundAssumption ==
  /\ {MaxConnects, MaxRequests, MaxCrashes, MaxNetChanges, MaxSynchs} \subseteq Nat
  /\ Hasty \subseteq {"connection", "answer", "timer"}

VARIABLES
  net,     \* the network
  client,  \* [Clients -> the variables of client_main.cpp]
  node,    \* [Servers -> those of server_main.cpp a session depends on]
  budget,  \* how often the user and the environment acted
  accepted \* history: pairs of a server and a session whose CONNECT it handled

vars == <<net, client, node, budget, accepted>>

None == <<>>  \* no session, no server

ASSUME NoneAssumption == None \notin Clients

Request == 0 .. MaxRequests  \* requests in the order they were made; 0: none

(* The client.  connection_group and connected_server are what the client  *)
(* keeps as strings, draw says which value of rand() session_id is.        *)
(* The inbox is the set of the requests whose listings were merged into    *)
(* it.  timer is the draw of the session the timer was last queued in, 0   *)
(* when it is not queued.  Three fields are history: the request the user  *)
(* waits for, whether its answer was displayed, the listing last printed.  *)
Start ==
  [connected |-> FALSE, draw |-> 1, connection_group |-> None, connected_server |-> None,
   listed |-> FALSE, blocking |-> FALSE, timer |-> 0, inbox |-> {}, printInbox |-> FALSE,
   awaits |-> 0, displayed |-> FALSE, screen |-> {}]

Fresh == [client_connections |-> {}, synchronizing |-> FALSE, synch_queue |-> <<>>]

Init ==
  /\ net = Quiescent
  /\ client = [c \in Clients |-> Start]
  /\ node = [s \in Servers |-> Fresh]
  /\ budget = [connects |-> 0, requests |-> 0, crashes |-> 0, changes |-> 0, synchs |-> 0]
  /\ accepted = {}

(* The session_id of client c when its variables are k.                    *)
SessionIdOf(c, k) == <<Seed[c], k.draw>>

InSession(c) == client[c].connection_group = SessionIdOf(c, client[c])

(* A connection was asked for and is not established.                      *)
Connecting(c) == c \in net.up /\ InSession(c) /\ ~client[c].connected

Spend(what, limit) ==
  /\ budget[what] < limit
  /\ budget' = [budget EXCEPT ![what] = @ + 1]

-----------------------------------------------------------------------------
(* The user.                                                               *)

\* A defect the runs must notice: the session is left and its id is kept.
DisconnectedOnly(c) == [client[c] EXCEPT !.connected = FALSE]

(* disconnect(): leave_current_session() leaves the groups and draws a new *)
(* session_id.  One that no group was named after is as good as another,   *)
(* so that only a used one is replaced.                                    *)
Disconnected(c) ==
  [client[c] EXCEPT !.connected = FALSE, !.draw = @ + (IF InSession(c) THEN 1 ELSE 0)]

Departed(n, c) == Leave(n, c, client[c].connection_group)

(* The program accepts a command at any time.  Users that are not hasty    *)
(* wait for the connection they asked for, until its server is down and    *)
(* all is quiet; when connected, for the answer to a request; and when     *)
(* disconnected, until the timer of the last request has run out.          *)
MayType(c) ==
  /\ c \in net.up
  /\ \/ "connection" \in Hasty
     \/ ~Connecting(c)
     \/ client[c].connected_server \notin net.up /\ net.incoming[c] = <<>>
  /\ "answer" \in Hasty \/ ~client[c].connected \/ client[c].timer = 0
  /\ "timer" \in Hasty \/ client[c].connected \/ client[c].timer = 0

(* connect_to_server(): the groups are joined and the server is asked to   *)
(* join.  Nothing times this out.                                          *)
ConnectToServer(c, s) ==
  LET k == IF client[c].connected THEN Disconnected(c) ELSE client[c]
      n == IF client[c].connected THEN Departed(net, c) ELSE net
      g == SessionIdOf(c, k)
  IN  /\ MayType(c)
      /\ Spend("connects", MaxConnects)
      /\ client' = [client EXCEPT ![c] =
                      [k EXCEPT !.connection_group = g, !.connected_server = s, !.listed = FALSE]]
      /\ net' = SendToServer(Join(n, c, g), c, s, [type |-> "CONNECT", id |-> g])
      /\ UNCHANGED <<node, accepted>>

(* A request of the given kind, sent to the server connected to last.      *)
Send(c, kind) ==
  /\ MayType(c) /\ kind \in Kinds
  /\ Spend("requests", MaxRequests)
  /\ net' = SendToServer(net, c, client[c].connected_server,
                         [type |-> kind, id |-> SessionIdOf(c, client[c]), req |-> budget.requests + 1])
  /\ UNCHANGED <<node, accepted>>

(* blocking = true; E_queue(handle_timeout), which replaces the timer of   *)
(* an earlier request.                                                     *)
Waiting(k) ==
  [k EXCEPT !.blocking = TRUE, !.timer = k.draw,
            !.awaits = budget.requests + 1, !.displayed = FALSE]

SendEmail(c) ==
  /\ client[c].connected
  /\ Send(c, "MAIL")
  /\ UNCHANGED client

GetInbox(c) ==
  /\ client[c].connected
  /\ Send(c, "SHOW_INBOX")
  /\ client' = [client EXCEPT ![c] = [Waiting(@) EXCEPT !.inbox = {}, !.listed = TRUE]]

(* The index is checked against the inbox for a read, not for a delete.    *)
ReadEmail(c) ==
  /\ client[c].listed /\ client[c].inbox # {}
  /\ Send(c, "READ")
  /\ client' = [client EXCEPT ![c] = Waiting(@)]

DeleteEmail(c) ==
  /\ client[c].listed
  /\ Send(c, "DELETE")
  /\ client' = [client EXCEPT ![c] = [Waiting(@) EXCEPT !.listed = TRUE]]

GetComponent(c) ==
  /\ client[c].connected
  /\ Send(c, "SHOW_COMPONENT")
  /\ client' = [client EXCEPT ![c] = Waiting(@)]

(* The user quits, or the client dies.                                     *)
Goodbye(c) ==
  /\ c \in net.up
  /\ net' = Exit(net, c)
  /\ client' = [client EXCEPT ![c] = Start]
  /\ UNCHANGED <<node, budget, accepted>>

-----------------------------------------------------------------------------
(* What a client or a server receives.                                     *)
NextIs(p, types) ==
  p \in net.up /\ net.incoming[p] # <<>> /\ Head(net.incoming[p]).type \in types

Next1(p) == Head(net.incoming[p])

Received(p) == [net EXCEPT !.incoming[p] = Tail(@)]

\* A defect the runs must notice: any join is taken for the server's.
SomebodyJoined(m) == m.cause = "join"

(* A membership message of the connect group: the second member is the     *)
(* server.                                                                 *)
TwoAreHere(m) == m.cause = "join" /\ m.n_connected = 2

(* A member has left or died.  A departure the network caused is no case   *)
(* of the code.                                                            *)
MemberHasLeft(m) == m.cause = "leave"

ClientMembership(c) ==
  /\ NextIs(c, {"MEMBERSHIP"})
  /\ LET m == Next1(c)
         mine == m.group = client[c].connection_group
     IN  \/ /\ mine /\ TwoAreHere(m)
            /\ client' = [client EXCEPT ![c].connected = TRUE]
            /\ net' = Received(c)
         \/ /\ mine /\ MemberHasLeft(m)
            /\ client' = [client EXCEPT ![c] = Disconnected(c)]
            /\ net' = Departed(Received(c), c)
         \/ /\ ~(mine /\ (TwoAreHere(m) \/ MemberHasLeft(m)))
            /\ net' = Received(c)
            /\ UNCHANGED client
  /\ UNCHANGED <<node, budget, accepted>>

\* A defect the runs must notice: the timer stays queued when the wait ends.
ReleasedWithTimer(k) ==
  [k EXCEPT !.blocking = FALSE, !.printInbox = FALSE,
            !.screen = IF k.printInbox THEN k.inbox ELSE @]

(* An ACK ends the wait, whatever it acknowledges; it prints the listing   *)
(* that has come in.                                                       *)
Released(k) ==
  [k EXCEPT !.timer = 0, !.blocking = FALSE, !.printInbox = FALSE,
            !.screen = IF k.printInbox THEN k.inbox ELSE @]

ClientAck(c) ==
  /\ NextIs(c, {"ACK"})
  /\ client' = [client EXCEPT ![c] = IF @.blocking THEN Released(@) ELSE @]
  /\ net' = Received(c)
  /\ UNCHANGED <<node, budget, accepted>>

(* The answer proper; it is dropped when no ACK is due.                    *)
Answers == {"INBOX", "RESPONSE", "COMPONENT"}

Displays(k, m) ==
  [k EXCEPT !.inbox = IF m.type = "INBOX" THEN @ \cup {m.req} ELSE @,
            !.printInbox = @ \/ m.type = "INBOX",
            !.listed = @ \/ m.type = "INBOX",
            !.displayed = @ \/ m.req = k.awaits]

ClientAnswer(c) ==
  /\ NextIs(c, Answers)
  /\ client' = [client EXCEPT ![c] = IF @.blocking THEN Displays(@, Next1(c)) ELSE @]
  /\ net' = Received(c)
  /\ UNCHANGED <<node, budget, accepted>>

(* handle_timeout(), at any time while the timer is queued.  The client    *)
(* leaves whatever session it is in; blocking stays as it is.              *)
HandleTimeout(c) ==
  /\ c \in net.up /\ client[c].timer # 0
  /\ client' = [client EXCEPT ![c] = [Disconnected(c) EXCEPT !.timer = 0]]
  /\ net' = Departed(net, c)
  /\ UNCHANGED <<node, budget, accepted>>

-----------------------------------------------------------------------------
(* The server.                                                             *)
\* A defect the runs must notice: an ACK that lacks its body.
AckWithoutBody(n, s, m, body) == SendToClient(n, s, m.id, [type |-> "ACK", req |-> m.req])

Ack(n, s, m, body) ==
  SendToClient(n, s, m.id, [type |-> "ACK", req |-> m.req, body |-> body])

Answer(n, s, m, type) == SendToClient(n, s, m.id, [type |-> type, req |-> m.req])

Changes == {"MAIL", "READ", "DELETE"}

(* What applying a command sends: the ACK of apply_mail_message,           *)
(* apply_read_message or apply_delete_message, on every server that        *)
(* applies it, and the broadcast by the server that accepted it.           *)
Applied(n, s, m) ==
  IF m.type = "COMMAND" THEN Ack(n, s, m, m.kind)
  ELSE SendToServers(Ack(n, s, m, m.type), s,
                     [type |-> "COMMAND", kind |-> m.type, origin |-> s,
                      id |-> m.id, req |-> m.req])

(* CONNECT: while synchronizing it is handled without asking whether the   *)
(* connection exists, which makes no difference.                           *)
ServerConnect(s) ==
  /\ NextIs(s, {"CONNECT"})
  /\ LET g == Next1(s).id IN
     /\ net' = IF g \in node[s].client_connections THEN Received(s) ELSE Join(Received(s), s, g)
     /\ node' = [node EXCEPT ![s].client_connections = @ \cup {g}]
     /\ accepted' = accepted \cup {<<s, g>>}
  /\ UNCHANGED <<client, budget>>

(* Requests of sessions the server does not know are turned down; while    *)
(* synchronizing it does not look.                                         *)
Refuses(s, m) == ~node[s].synchronizing /\ m.id \notin node[s].client_connections

ServerRefuses(s) ==
  /\ NextIs(s, Kinds)
  /\ Refuses(s, Next1(s))
  /\ net' = Ack(Received(s), s, Next1(s), "refused")
  /\ UNCHANGED <<client, node, budget, accepted>>

\* A defect the runs must notice: the ACK is sent before the answer.
AcksThenShows(n, s, m, type) == Answer(Ack(n, s, m, m.type), s, m, type)

(* send_inbox_to_client, send_component_to_client: the answer and its ACK. *)
Shows(n, s, m, type) == Ack(Answer(n, s, m, type), s, m, m.type)

(* SHOW_INBOX and SHOW_COMPONENT are answered at any time.                 *)
ServerShows(s) ==
  /\ NextIs(s, {"SHOW_INBOX", "SHOW_COMPONENT"})
  /\ LET m == Next1(s)
         type == IF m.type = "SHOW_INBOX" THEN "INBOX" ELSE "COMPONENT"
     IN  /\ ~Refuses(s, m)
         /\ net' = Shows(Received(s), s, m, type)
  /\ UNCHANGED <<client, node, budget, accepted>>

(* process_new_email, process_read_command, process_delete_command.        *)
(* send_mail_to_client answers a READ with the mail or, when it is gone,   *)
(* with an ACK.                                                            *)
ServerApplies(s) ==
  /\ NextIs(s, Changes)
  /\ LET m == Next1(s) IN
     /\ ~node[s].synchronizing
     /\ ~Refuses(s, m)
     /\ \/ m.type # "READ" /\ net' = Applied(Received(s), s, m)
        \/ m.type = "READ" /\ net' = Applied(Answer(Received(s), s, m, "RESPONSE"), s, m)
        \/ m.type = "READ" /\ net' = Applied(Ack(Received(s), s, m, "missing"), s, m)
  /\ UNCHANGED <<client, node, budget, accepted>>

(* While the server synchronizes, changes go to synch_queue.               *)
ServerStashes(s) ==
  /\ NextIs(s, Changes \cup {"COMMAND"})
  /\ node[s].synchronizing
  /\ node' = [node EXCEPT ![s].synch_queue = Append(@, Next1(s))]
  /\ net' = Received(s)
  /\ UNCHANGED <<client, budget, accepted>>

(* A COMMAND of another server is applied, with its ACK, unless it is not  *)
(* the next of its origin, which module Replication decides, or a mail     *)
(* with a pending delete.  The server ignores its own COMMAND.             *)
ServerCommand(s) ==
  /\ NextIs(s, {"COMMAND"})
  /\ ~node[s].synchronizing
  /\ LET m == Next1(s) IN
     \/ m.origin # s /\ net' = Applied(Received(s), s, m)
     \/ net' = Received(s)
  /\ UNCHANGED <<client, node, budget, accepted>>

(* The member count of a session the server serves is no longer two:       *)
(* end_connection().                                                       *)
Serves(s, m) == m.group \in node[s].client_connections

\* A defect the runs must notice: a session ends only when fewer than two are left.
EndsBelowTwo(s, m) == Serves(s, m) /\ m.n_connected < 2

\* A defect the runs must notice: a session ends only when more than two are there.
EndsAboveTwo(s, m) == Serves(s, m) /\ m.n_connected > 2

Ends(s, m) == Serves(s, m) /\ m.n_connected # 2

ServerMembership(s) ==
  /\ NextIs(s, {"MEMBERSHIP"})
  /\ LET m == Next1(s) IN
     \/ /\ Ends(s, m)
        /\ net' = Leave(Received(s), s, m.group)
        /\ node' = [node EXCEPT ![s].client_connections = @ \ {m.group}]
     \/ /\ ~Ends(s, m)
        /\ net' = Received(s)
        /\ UNCHANGED node
  /\ UNCHANGED <<client, budget, accepted>>

(* synchronize() begins with a membership message of all_servers_group and *)
(* ends when the others have answered (Replication).                       *)
BeginSynch(s) ==
  /\ s \in net.up /\ ~node[s].synchronizing
  /\ Spend("synchs", MaxSynchs)
  /\ node' = [node EXCEPT ![s].synchronizing = TRUE]
  /\ UNCHANGED <<net, client, accepted>>

(* apply_queued_updates(): of the requests stashed, which all got the same *)
(* index, apply_new_command lets the first pass; of the commands, those of *)
(* other servers, but for the "silent" ones: not next, or mails with a     *)
(* pending delete.                                                         *)
IsApplied(s, queue, i) ==
  IF queue[i].type = "COMMAND"
  THEN queue[i].origin # s
  ELSE \A j \in 1 .. i - 1 : queue[j].type = "COMMAND"

Answered(n, s, queue, silent) ==
  LET answered[i \in 0 .. Len(queue)] ==
        IF i = 0 THEN n
        ELSE IF i \in silent \/ ~IsApplied(s, queue, i) THEN answered[i - 1]
        ELSE Applied(answered[i - 1], s, queue[i])
  IN  answered[Len(queue)]

EndSynch(s) ==
  /\ s \in net.up /\ node[s].synchronizing
  /\ LET queue == node[s].synch_queue
         theirs == {i \in DOMAIN queue : queue[i].type = "COMMAND"}
     IN  \E silent \in SUBSET theirs : net' = Answered(net, s, queue, silent)
  /\ node' = [node EXCEPT ![s].synchronizing = FALSE, ![s].synch_queue = <<>>]
  /\ UNCHANGED <<client, budget, accepted>>

(* A server dies, and starts again without connections.                    *)
Crash(s) ==
  /\ s \in net.up
  /\ Spend("crashes", MaxCrashes)
  /\ net' = Exit(net, s)
  /\ node' = [node EXCEPT ![s] = Fresh]
  /\ UNCHANGED <<client, accepted>>

Restart(s) ==
  /\ s \notin net.up
  /\ net' = [net EXCEPT !.up = @ \cup {s}]
  /\ UNCHANGED <<client, node, budget, accepted>>

(* The network splits or heals.                                            *)
NetworkChange ==
  \E side \in [Proc -> {0, 1}] :
    /\ side # net.side
    /\ \E c \in Clients : side[c] = 0
    /\ Spend("changes", MaxNetChanges)
    /\ net' = Rearranged(net, side)
    /\ UNCHANGED <<client, node, accepted>>

-----------------------------------------------------------------------------
UserTypes(c) ==
  \/ \E s \in Servers : ConnectToServer(c, s)
  \/ SendEmail(c)
  \/ GetInbox(c)
  \/ ReadEmail(c)
  \/ DeleteEmail(c)
  \/ GetComponent(c)
  \/ Goodbye(c)

ClientHandles(c) == ClientMembership(c) \/ ClientAck(c) \/ ClientAnswer(c)

ServerHandles(s) ==
  \/ ServerConnect(s)
  \/ ServerRefuses(s)
  \/ ServerShows(s)
  \/ ServerApplies(s)
  \/ ServerStashes(s)
  \/ ServerCommand(s)
  \/ ServerMembership(s)

Next ==
  \/ \E c \in Clients : UserTypes(c) \/ ClientHandles(c) \/ HandleTimeout(c)
  \/ \E s \in Servers :
       ServerHandles(s) \/ BeginSynch(s) \/ EndSynch(s) \/ Crash(s) \/ Restart(s)
  \/ NetworkChange

Spec == Init /\ [][Next]_vars

(* Both programs keep reading, a synchronization ends, a queued timer      *)
(* fires.  Users, crashes, restarts and the network are under no duty.     *)
FairSpec ==
  /\ Spec
  /\ \A c \in Clients : WF_vars(ClientHandles(c)) /\ WF_vars(HandleTimeout(c))
  /\ \A s \in Servers : WF_vars(ServerHandles(s)) /\ WF_vars(EndSynch(s))
-----------------------------------------------------------------------------
(* Properties.                                                             *)

(* The requests made so far.                                               *)
Made == 0 .. budget.requests

(* Values of the variables, and messages, that speak of requests in R.     *)
ClientVariables(R) ==
  [connected : BOOLEAN, draw : 1 .. MaxConnects + 1,
   connection_group : SessionId \cup {None}, connected_server : Servers \cup {None},
   listed : BOOLEAN, blocking : BOOLEAN, timer : 0 .. MaxConnects + 1,
   inbox : SUBSET R, printInbox : BOOLEAN,
   awaits : R, displayed : BOOLEAN, screen : SUBSET R]

Stashed(R) ==
  [type : Kinds \cap Changes, id : SessionId, req : R]
  \cup [type : {"COMMAND"}, kind : Kinds \cap Changes, origin : Servers, id : SessionId, req : R]

ServerVariables(R) ==
  [client_connections : SUBSET SessionId, synchronizing : BOOLEAN, synch_queue : Seq(Stashed(R))]

ServerMessage(R) ==
  [type : {"CONNECT"}, id : SessionId]
  \cup [type : Kinds, id : SessionId, req : R]
  \cup Stashed(R)

ClientMessage(R) ==
  [type : Answers, req : R]
  \cup [type : {"ACK"}, req : R, body : Kinds \cup {"refused", "missing"}]

MembershipMessage ==
  [type : {"MEMBERSHIP"}, group : SessionId, cause : {"join", "leave", "network"},
   n_connected : 0 .. Cardinality(Proc)]

(* What a process may receive.                                             *)
Receives(R, p) ==
  MembershipMessage \cup (IF p \in Clients THEN ClientMessage(R) ELSE ServerMessage(R))

NetworkOf(R) ==
  {n \in Network(MembershipMessage \cup ClientMessage(R) \cup ServerMessage(R)) :
     \A p \in Proc : n.incoming[p] \in Seq(Receives(R, p))}

(* The variables of the client, of the servers and of the network hold     *)
(* values of the types messages.h, client_main.cpp and server_main.cpp     *)
(* give them; no session draws more identifiers than connections are       *)
(* asked for, and no message is about a request that was not made.         *)
TypeOK ==
  /\ client \in [Clients -> ClientVariables(Made)]
  /\ node \in [Servers -> ServerVariables(Made)]
  /\ net \in NetworkOf(Made)
  /\ budget \in [connects : 0 .. MaxConnects, requests : Request, crashes : 0 .. MaxCrashes,
                 changes : 0 .. MaxNetChanges, synchs : 0 .. MaxSynchs]
  /\ accepted \subseteq Servers \X SessionId

(* Nothing is under way: all that was sent has been received.              *)
Quiet ==
  /\ \A p \in Proc : net.incoming[p] = <<>>
  /\ \A s \in Servers : ~node[s].synchronizing

(* When nothing is under way, a client that believes to be connected is:   *)
(* its connect group consists of itself and the server it names, and that  *)
(* server serves the session.  Both ends infer this from member counts     *)
(* alone (process_membership_message of client and server).                *)
QuietAgreement ==
  Quiet =>
    \A c \in Clients : client[c].connected =>
      LET g == client[c].connection_group
          s == client[c].connected_server
      IN  net.members[g] = {c, s} /\ g \in node[s].client_connections

(* When nothing is under way, a server belongs to the connect groups of    *)
(* the sessions it serves and to no other, and in each of them it sees     *)
(* itself and one client: no session is kept for a client that is gone or  *)
(* that two servers have joined, however users change their minds          *)
(* (end_connection).                                                       *)
QuietRelease ==
  Quiet =>
    \A s \in net.up \cap Servers, g \in SessionId :
      /\ s \in net.members[g] <=> g \in node[s].client_connections
      /\ s \in net.members[g] => \E c \in Clients : Present(net, s, g) = {s, c}

(* "Successfully connected to server" is true: the server the client names *)
(* has handled its CONNECT (connection_success).                           *)
ConnectedMeansAccepted ==
  \A c \in Clients : client[c].connected =>
    <<client[c].connected_server, client[c].connection_group>> \in accepted

(* The timer is queued only while the client waits: what ends a wait takes *)
(* the timer with it (E_dequeue in process_server_response), so that no    *)
(* answered request times out.                                             *)
TimerOnlyWhileWaiting == \A c \in Clients : client[c].timer # 0 => client[c].blocking

(* The ACK of a listing or of the names never comes to the client that     *)
(* still waits for it before their answer was displayed: whether the       *)
(* server synchronizes or not, it follows the answer (send_inbox_to_client,*)
(* send_component_to_client). The ACK of another request ends a wait, too: *)
(* it is AnswersAreDisplayed of MCClientSession that speaks of any.        *)
AcksFollowAnswers ==
  \A c \in Clients :
    /\ NextIs(c, {"ACK"})
    /\ Next1(c).req = client[c].awaits /\ client[c].blocking
    /\ Next1(c).body \in {"SHOW_INBOX", "SHOW_COMPONENT"}
    => client[c].displayed

(* A server does not keep a session its client has left.                   *)
SessionsAreReleased ==
  \A s \in Servers, g \in SessionId :
    (g \in node[s].client_connections /\ net.members[g] \cap Clients = {})
      ~> (g \notin node[s].client_connections \/ net.members[g] \cap Clients # {})
-----------------------------------------------------------------------------
(* The inductive invariant behind them (proved in SessionProofs).          *)

Coming(p) == Range(net.incoming[p])

(* A member count that will make server s leave g is on its way.           *)
Doomed(n, s, g) ==
  \E m \in Range(n.incoming[s]) : m.type = "MEMBERSHIP" /\ m.group = g /\ m.n_connected # 2

(* A session is numbered by the connections that were asked for.           *)
SessionsDrawn ==
  \A c \in Clients :
    /\ client[c].draw + (IF InSession(c) THEN 1 ELSE 0) <= budget.connects + 1
    /\ client[c].connection_group \in {None} \cup {<<Seed[c], k>> : k \in 1 .. client[c].draw}

(* Each process is in the connect groups it takes itself to be in; one     *)
(* that is down has nothing.                                               *)
MembersAgree ==
  /\ \A g \in SessionId :
       /\ \A c \in Clients :
            c \in net.members[g] <=>
              c \in net.up /\ InSession(c) /\ g = client[c].connection_group
       /\ \A s \in Servers : s \in net.members[g] <=> g \in node[s].client_connections
  /\ \A c \in Clients \ net.up : net.incoming[c] = <<>> /\ client[c] = Start
  /\ \A s \in Servers \ net.up : net.incoming[s] = <<>> /\ node[s] = Fresh

(* A server in a connect group has one other member there, or will hear    *)
(* of the difference.                                                      *)
Counted(n, s, g) == s \in n.members[g] => Doomed(n, s, g) \/ Cardinality(Present(n, s, g)) = 2

CountsReported == \A s \in Servers, g \in SessionId : Counted(net, s, g)

(* Two servers that meet in a connect group do not both stay.              *)
Parting(n, s, t, g) ==
  s # t /\ {s, t} \subseteq n.members[g] /\ n.side[s] = n.side[t]
    => Doomed(n, s, g) \/ Doomed(n, t, g)

ServersPart ==
  MaxNetChanges <= 1 =>
    /\ \A s, t \in Servers, g \in SessionId : Parting(net, s, t, g)
    /\ budget.changes = 0 => \A p, q \in Proc : net.side[p] = net.side[q]

(* The ACK of a listing or of the names comes behind them.                 *)
Behind(q, i) == \E j \in 1 .. i - 1 : q[j].type \in Answers /\ q[j].req = q[i].req

AcksBehind ==
  \A c \in Clients : \A i \in DOMAIN net.incoming[c] :
    LET m == net.incoming[c][i] IN
    m.type = "ACK" /\ m.body \in {"SHOW_INBOX", "SHOW_COMPONENT"} =>
      \/ Behind(net.incoming[c], i)
      \/ m.req = client[c].awaits /\ client[c].blocking => client[c].displayed

(* What more is true of clients with different seeds whose users wait for  *)
(* the connection they asked for.                                          *)
SeedsDiffer == \A c, d \in Clients : Seed[c] = Seed[d] => c = d

Orderly == SeedsDiffer /\ "connection" \notin Hasty

Connect(g) == [type |-> "CONNECT", id |-> g]

(* Server s is in the connect group g, or is asked to join it.             *)
Holds(s, g) == s \in net.members[g] \/ Connect(g) \in Coming(s)

OneHolder == \A s, t \in Servers, g \in SessionId : Holds(s, g) /\ Holds(t, g) => s = t

About(m, g) == m.type = "MEMBERSHIP" /\ m.group = g

(* Nobody has heard of the sessions a client is still to open.             *)
FreshSessions ==
  \A c \in Clients \cap net.up : \A k \in client[c].draw .. MaxConnects + 1 :
    LET g == <<Seed[c], k>> IN
    g # client[c].connection_group =>
      /\ net.members[g] = {}
      /\ \A s \in Servers : ~Holds(s, g)
      /\ \A m \in Coming(c) : ~About(m, g)

(* The server has joined, as the client will hear; or has left again.      *)
JoinOf(m, g) == About(m, g) /\ TwoAreHere(m)

LeaveOf(m, g) == About(m, g) /\ MemberHasLeft(m)

Met(c) == \E m \in Coming(c) : JoinOf(m, client[c].connection_group)

Deserted(c) == \E m \in Coming(c) : LeaveOf(m, client[c].connection_group)

RightServer ==
  \A c \in Clients \cap net.up :
    LET g == client[c].connection_group IN
    /\ \A s \in Servers : g # None /\ Holds(s, g) => s = client[c].connected_server
    /\ client[c].connected \/ Met(c) => <<client[c].connected_server, g>> \in accepted

(* And of users who wait for everything, while the network is whole.       *)
Calm == Orderly /\ Hasty = {} /\ MaxNetChanges = 0

Opening(c) == InSession(c) /\ ~client[c].connected /\ client[c].timer = 0

(* Client c asks a server to join: once, and nothing was heard of it yet.  *)
AskedOnce(c, g) ==
  \A s \in Servers : Connect(g) \in Coming(s) =>
    /\ Opening(c) /\ ~Met(c) /\ ~Deserted(c) /\ net.members[g] \cap Servers = {}
    /\ \A i, j \in DOMAIN net.incoming[s] :
         net.incoming[s][i] = Connect(g) /\ net.incoming[s][j] = Connect(g) => i = j

(* It hears once that the server joined, and then that it left.            *)
ToldInOrder(c, g) ==
  LET q == net.incoming[c] IN
  /\ Met(c) => Opening(c)
  /\ \A i, j \in DOMAIN q : JoinOf(q[i], g) /\ JoinOf(q[j], g) => i = j
  /\ \A i, j \in DOMAIN q : JoinOf(q[i], g) /\ LeaveOf(q[j], g) => i < j

StaysOrTells(c, g) ==
  client[c].connected \/ Met(c) =>
    /\ InSession(c)
    /\ client[c].connected_server \in net.members[g] \/ Deserted(c)

Handshakes ==
  \A c \in Clients \cap net.up :
    LET g == client[c].connection_group IN
    AskedOnce(c, g) /\ ToldInOrder(c, g) /\ StaysOrTells(c, g)

(* What clients, servers and the network believe of the sessions, and what *)
(* is on its way to them, fits together (process_membership_message of     *)
(* both programs, connect_to_server, disconnect, end_connection).          *)
SessionInv ==
  /\ TypeOK /\ SessionsDrawn /\ MembersAgree /\ CountsReported /\ ServersPart /\ AcksBehind
  /\ TimerOnlyWhileWaiting
  /\ Orderly => OneHolder /\ FreshSessions /\ RightServer
  /\ Calm => Handshakes
=============================================================================
