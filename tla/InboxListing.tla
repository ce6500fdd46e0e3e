---------------------------- MODULE InboxListing ----------------------------
(***************************************************************************)
(* What a server's answers about mail contain and what a client makes of   *)
(* them: the listing, cut into messages of INBOX_LIMIT headers and put     *)
(* together again (send_inbox_to_client, process_server_response), and     *)
(* the row of it that a read or a delete names (find_id_using_index),      *)
(* while other clients send and delete mail.                               *)
(*                                                                         *)
(* One user at one client, connected to one server; messages between the   *)
(* two arrive in order.  The user may type a command during a wait.        *)
(* Sessions, timers and rows that are not there are in ClientSession.      *)
(***************************************************************************)
EXTENDS Integers, Sequences, FiniteSets, SequencesExt

CONSTANTS
  INBOX_LIMIT,  \* headers in a message (messages.h)
  MaxMails,     \* bound: mails sent to the user
  MaxRequests,  \* bound: requests the user makes
  Dates,        \* seconds mails are stamped with
  Kinds         \* bound: the user's requests

ASSUME ListingAssumption ==
  /\ INBOX_LIMIT \in Nat \ {0}
  /\ {MaxMails, MaxRequests} \subseteq Nat
  /\ Dates \subseteq Nat
  /\ Kinds \subseteq {"READ", "DELETE", "SHOW_INBOX"}

VARIABLES
  up,         \* the server runs
  mails,      \* the user's inbox at the server, a multiset in its order
  sent,       \* number of mails sent so far
  client,     \* variables of the client
  to_server, to_client,
  requests,   \* number of requests made
  reported,   \* history: the inboxes that listings were made from
  outOfStep   \* history: a command came during a wait, or a mail to be read was gone

vars == <<up, mails, sent, client, to_server, to_client, requests, reported, outOfStep>>

Ids == 1 .. MaxMails

Mail == [id : Ids, date : Dates, read : BOOLEAN]

(* screen is the listing printed last (history).                           *)
Init ==
  /\ up = TRUE
  /\ mails = <<>>
  /\ sent = 0
  /\ client = [inbox |-> <<>>, listed |-> FALSE, blocking |-> FALSE, printInbox |-> FALSE,
               screen |-> <<>>]
  /\ to_server = <<>>
  /\ to_client = <<>>
  /\ requests = 0
  /\ reported = {}
  /\ outOfStep = FALSE

-----------------------------------------------------------------------------
(* std::multiset of mails ordered by date (operator<): an equal element    *)
(* goes behind those there are (upper_bound), and erasing one takes all    *)
(* that are equal (equal_range).                                           *)
Earlier(box, date) == Cardinality({i \in DOMAIN box : box[i].date < date})

NotLater(box, date) == Cardinality({i \in DOMAIN box : box[i].date <= date})

\* A defect the runs must notice: an element goes before all others.
InsertFirst(box, mail) == <<mail>> \o box

Insert(box, mail) == InsertAt(box, NotLater(box, mail.date) + 1, mail)

Erase(box, mail) ==
  SubSeq(box, 1, Earlier(box, mail.date)) \o SubSeq(box, NotLater(box, mail.date) + 1, Len(box))

InsertAll(box, headers) ==
  LET inserted[i \in 0 .. Len(headers)] ==
        IF i = 0 THEN box ELSE Insert(inserted[i - 1], headers[i])
  IN  inserted[Len(headers)]

(* find_mail_by_id                                                         *)
Find(id) == {mail \in Range(mails) : mail.id = id}

(* apply_mail_message, for mail of anybody; clocks of servers may differ.  *)
MailArrives(date) ==
  /\ up /\ sent < MaxMails
  /\ sent' = sent + 1
  /\ mails' = Insert(mails, [id |-> sent + 1, date |-> date, read |-> FALSE])
  /\ UNCHANGED <<up, client, to_server, to_client, requests, reported, outOfStep>>

(* The effect of apply_read_message and of apply_delete_message.           *)
AfterRead(mail) == Insert(Erase(mails, mail), [mail EXCEPT !.read = TRUE])

AfterDelete(mail) == Erase(mails, mail)

(* Another client of the same user reads or deletes a mail.                *)
OtherClient(id) ==
  /\ up
  /\ \E mail \in Find(id) : mails' \in {AfterRead(mail), AfterDelete(mail)}
  /\ UNCHANGED <<up, sent, client, to_server, to_client, requests, reported, outOfStep>>

-----------------------------------------------------------------------------
(* The client takes a command at any time (handle_keyboard_in).            *)
Ask(request) ==
  /\ request.type \in Kinds
  /\ requests < MaxRequests
  /\ requests' = requests + 1
  /\ to_server' = Append(to_server, request)
  /\ outOfStep' = (outOfStep \/ client.blocking)
  /\ UNCHANGED <<up, mails, sent, to_client, reported>>

\* A defect the runs must notice: the listing before is not cleared.
InboxKept(k) == k

InboxCleared(k) == [k EXCEPT !.inbox = <<>>]

GetInbox ==
  /\ Ask([type |-> "SHOW_INBOX"])
  /\ client' = [InboxCleared(client) EXCEPT !.blocking = TRUE, !.listed = TRUE]

\* A defect the runs must notice: rows are counted from zero.
IdInNextRow(inbox, row) == inbox[(row % Len(inbox)) + 1].id

FindIdUsingIndex(inbox, row) == inbox[row].id

(* The client refuses rows that are not there.                             *)
ReadEmail(row) ==
  /\ client.listed /\ row \in DOMAIN client.inbox
  /\ Ask([type |-> "READ", id |-> FindIdUsingIndex(client.inbox, row)])
  /\ client' = [client EXCEPT !.blocking = TRUE]

(* It does not for a delete: the user names rows there are here, others    *)
(* are in ClientSession.                                                   *)
DeleteEmail(row) ==
  /\ client.listed /\ row \in DOMAIN client.inbox
  /\ Ask([type |-> "DELETE", id |-> FindIdUsingIndex(client.inbox, row)])
  /\ client' = [client EXCEPT !.blocking = TRUE]

NextIs(type) == to_client # <<>> /\ Head(to_client).type = type

(* process_server_response: every message is dropped unless blocking.      *)
ReceiveAck ==
  /\ NextIs("ACK")
  /\ to_client' = Tail(to_client)
  /\ client' = IF ~client.blocking THEN client
               ELSE [client EXCEPT !.blocking = FALSE, !.printInbox = FALSE,
                                   !.screen = IF client.printInbox THEN client.inbox ELSE @]
  /\ UNCHANGED <<up, mails, sent, to_server, requests, reported, outOfStep>>

ReceiveInbox ==
  /\ NextIs("INBOX")
  /\ to_client' = Tail(to_client)
  /\ client' = IF ~client.blocking THEN client
               ELSE [client EXCEPT !.inbox = InsertAll(@, Head(to_client).inbox),
                                   !.printInbox = TRUE, !.listed = TRUE]
  /\ UNCHANGED <<up, mails, sent, to_server, requests, reported, outOfStep>>

(* The mail is printed and not kept.                                       *)
ReceiveResponse ==
  /\ NextIs("RESPONSE")
  /\ to_client' = Tail(to_client)
  /\ UNCHANGED <<up, mails, sent, client, to_server, requests, reported, outOfStep>>

-----------------------------------------------------------------------------
(* The server.                                                             *)
Requested(type) == up /\ to_server # <<>> /\ Head(to_server).type = type

Ack == [type |-> "ACK"]

Chunk(headers) == [type |-> "INBOX", inbox |-> headers]

Dies ==
  /\ up' = FALSE
  /\ UNCHANGED <<mails, sent, client, to_server, to_client, requests, reported, outOfStep>>

(* A message is sent when INBOX_LIMIT + 1 headers have been copied, the    *)
(* last one behind the end of the array, and says it has INBOX_LIMIT; the  *)
(* rest goes into a last message, which may be empty.                      *)
Copied(i) == i * (INBOX_LIMIT + 1)

Chunks(box) ==
  [i \in 1 .. Len(box) \div (INBOX_LIMIT + 1) + 1 |->
     LET last == Copied(i) - 1
     IN  Chunk(SubSeq(box, Copied(i - 1) + 1, IF last < Len(box) THEN last ELSE Len(box)))]

\* A defect the runs must notice: the last message claims a full array.
UncountedListing(box) ==
  LET Padding(n) == [j \in 1 .. n |-> [id |-> 0, date |-> 0, read |-> FALSE]]
      Filled(m) == Chunk(m.inbox \o Padding(INBOX_LIMIT - Len(m.inbox)))
  IN  [i \in DOMAIN Chunks(box) |-> Filled(Chunks(box)[i])] \o <<Ack>>

\* A defect the runs must notice: an empty inbox is answered with nothing.
ListingOfSome(box) == IF box = <<>> THEN <<>> ELSE Chunks(box) \o <<Ack>>

Listing(box) == Chunks(box) \o <<Ack>>

(* send_inbox_to_client, with the ACK.  Writing behind the array may kill  *)
(* the server.                                                             *)
SendInboxToClient ==
  /\ Requested("SHOW_INBOX")
  /\ \/ /\ to_server' = Tail(to_server)
        /\ to_client' = to_client \o Listing(mails)
        /\ reported' = reported \cup {mails}
        /\ UNCHANGED <<up, mails, sent, client, requests, outOfStep>>
     \/ Len(mails) > INBOX_LIMIT /\ Dies

(* process_read_command: send_mail_to_client, then apply_read_message with *)
(* an ACK of its own, also for a mail that is gone.  The text of the first *)
(* ACK then names the first mail of the inbox, which may be empty.         *)
ProcessReadCommand ==
  /\ Requested("READ")
  /\ LET found == Find(Head(to_server).id) IN
     \/ /\ \E mail \in found : mails' = AfterRead(mail)
        /\ to_client' = to_client \o <<[type |-> "RESPONSE", id |-> Head(to_server).id], Ack>>
        /\ to_server' = Tail(to_server)
        /\ UNCHANGED <<up, sent, client, requests, reported, outOfStep>>
     \/ /\ found = {}
        /\ to_client' = to_client \o <<Ack, Ack>>
        /\ to_server' = Tail(to_server)
        /\ outOfStep' = TRUE
        /\ UNCHANGED <<up, mails, sent, client, requests, reported>>
     \/ mails = <<>> /\ Dies

(* process_delete_command                                                  *)
ProcessDeleteCommand ==
  /\ Requested("DELETE")
  /\ LET found == Find(Head(to_server).id) IN
     \/ \E mail \in found : mails' = AfterDelete(mail)
     \/ found = {} /\ UNCHANGED mails
  /\ to_client' = Append(to_client, Ack)
  /\ to_server' = Tail(to_server)
  /\ UNCHANGED <<up, sent, client, requests, reported, outOfStep>>

-----------------------------------------------------------------------------
ClientHandles == ReceiveAck \/ ReceiveInbox \/ ReceiveResponse

ServerHandles == SendInboxToClient \/ ProcessReadCommand \/ ProcessDeleteCommand

Next ==
  \/ \E date \in Dates : MailArrives(date)
  \/ \E id \in Ids : OtherClient(id)
  \/ GetInbox
  \/ \E row \in 1 .. MaxMails : ReadEmail(row) \/ DeleteEmail(row)
  \/ ClientHandles
  \/ ServerHandles

Spec == Init /\ [][Next]_vars

(* Both programs go on reading what they receive.                          *)
FairSpec == Spec /\ WF_vars(ClientHandles) /\ WF_vars(ServerHandles)

-----------------------------------------------------------------------------
Request == [type : {"SHOW_INBOX"}] \cup [type : {"READ", "DELETE"}, id : Ids]

Answer ==
  [type : {"ACK"}] \cup [type : {"INBOX"}, inbox : Seq(Mail)] \cup [type : {"RESPONSE"}, id : Ids]

(* The variables keep their types: what is in a box, on its way or on the  *)
(* screen is mail that was sent.                                           *)
TypeOK ==
  /\ up \in BOOLEAN
  /\ mails \in Seq(Mail)
  /\ sent \in 0 .. MaxMails
  /\ client \in [inbox : Seq(Mail), listed : BOOLEAN, blocking : BOOLEAN, printInbox : BOOLEAN,
                 screen : Seq(Mail)]
  /\ to_server \in Seq(Request)
  /\ to_client \in Seq(Answer)
  /\ requests \in 0 .. MaxRequests
  /\ reported \subseteq Seq(Mail)
  /\ outOfStep \in BOOLEAN

(* The rows of one listing are rows of another, in the same order.         *)
IsPartOf(box, whole) ==
  \E rows \in [DOMAIN box -> DOMAIN whole] :
    /\ \A i, j \in DOMAIN box : i < j => rows[i] < rows[j]
    /\ \A i \in DOMAIN box : box[i] = whole[rows[i]]

Prints == client.printInbox /\ ~client'.printInbox

(* A listing that is printed is, row by row, from an inbox the server was  *)
(* asked for, and all of it when it fits into a message: no mail is        *)
(* missing, listed twice or left from a listing before                     *)
(* (send_inbox_to_client, get_inbox), as long as answers and waits are in  *)
(* step: no command came during a wait, no mail to be read was gone.       *)
PrintedListingIsComplete ==
  [][Prints /\ ~outOfStep =>
       \E box \in reported :
         \/ client'.screen = box
         \/ Len(box) > INBOX_LIMIT /\ IsPartOf(client'.screen, box)]_vars

(* A read or delete names the mail in the row the user picked on the       *)
(* screen, whatever mail came and went since and whatever the client waits *)
(* for (find_id_using_index), unless a listing came in that is not printed *)
(* yet.                                                                    *)
RequestsNamePickedMail ==
  [][\A row \in Ids :
       (ReadEmail(row) \/ DeleteEmail(row)) /\ ~client.printInbox =>
         row \in DOMAIN client.screen /\ Last(to_server').id = client.screen[row].id]_vars

(* A wait comes to an end, whatever the server finds, unless it dies: each *)
(* answer ends with an ACK, also that of nothing.                          *)
WaitsEnd == client.blocking ~> (~client.blocking \/ ~up)
-----------------------------------------------------------------------------
(* The inductive invariant behind them (proved in ListingProofs).          *)

Sorted(box) == \A i, j \in DOMAIN box : i <= j => box[i].date <= box[j].date

BoxesSorted ==
  /\ Sorted(mails) /\ Sorted(client.inbox)
  /\ \A box \in reported : Sorted(box)
  /\ \A i \in DOMAIN to_client : to_client[i].type = "INBOX" => Sorted(to_client[i].inbox)

(* The client holds what is on the screen, or nothing, unless it waits to  *)
(* print what came in.                                                     *)
ScreenShown ==
  /\ client.printInbox => client.blocking
  /\ client.printInbox \/ client.inbox \in {<<>>, client.screen}

(* The listing of box is on its way, and i messages of it are there.       *)
ListingUnderWay(box, i) ==
  LET n == Len(Listing(box))
      heard == SubSeq(box, 1, IF Copied(i) < Len(box) THEN Copied(i) ELSE Len(box))
  IN  /\ to_server = <<>> /\ to_client = SubSeq(Listing(box), i + 1, n)
      /\ client.printInbox <=> i > 0
      /\ IsPartOf(client.inbox, heard)
      /\ Len(box) <= INBOX_LIMIT => client.inbox = heard

(* What is on its way answers the request the client waits for: nothing    *)
(* yet, a short answer, or a listing.                                      *)
Idle == ~client.blocking /\ to_server = <<>> /\ to_client = <<>>

Asked ==
  /\ client.blocking /\ ~client.printInbox
  /\ Len(to_server) = 1 /\ to_client = <<>>
  /\ to_server[1].type = "SHOW_INBOX" => client.inbox = <<>>

Answered ==
  /\ client.blocking /\ ~client.printInbox
  /\ to_server = <<>>
  /\ \/ to_client = <<Ack>>
     \/ \E id \in Ids : to_client = <<[type |-> "RESPONSE", id |-> id], Ack>>

Listed ==
  /\ client.blocking
  /\ \E box \in reported : \E i \in 0 .. Len(Chunks(box)) : ListingUnderWay(box, i)

OneExchange == Idle \/ Asked \/ Answered \/ Listed

(* Boxes are in order, the client prints what it holds, and what is on its *)
(* way is what it waits for, as long as no command came during a wait and  *)
(* no mail to be read was gone.                                            *)
ListingInv == TypeOK /\ BoxesSorted /\ ScreenShown /\ (~outOfStep => OneExchange)
=============================================================================
