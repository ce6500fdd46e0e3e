--------------------------- MODULE MCClientSession ---------------------------
(* Values of the constants of ClientSession for TLC. *)
EXTENDS ClientSession

CONSTANTS c1, c2, s1, s2, monday, tuesday

OneClient == {c1}
TwoClients == {c1, c2}
OneServer == {s1}
TwoServers == {s1, s2}

\* When the clients were started.
DifferentSeconds == [c \in Clients |-> IF c = c1 THEN monday ELSE tuesday]
SameSecond == [c \in Clients |-> monday]

\* What users ask for.
Listings == {"SHOW_INBOX", "SHOW_COMPONENT"}
MailOnly == {"MAIL"}
ListAndRead == {"SHOW_INBOX", "READ"}
ListAndDelete == {"SHOW_INBOX", "DELETE"}
Everything == {"MAIL", "READ", "DELETE", "SHOW_INBOX", "SHOW_COMPONENT"}

-----------------------------------------------------------------------------
(* Promises that the program does not keep.  README says for which values  *)
(* of the constants TLC shows it.                                          *)

(* The answer to the request the user waits for is displayed and not       *)
(* dropped by the guard of process_server_response.                        *)
AnswersAreDisplayed ==
  \A c \in Clients :
    NextIs(c, Answers) /\ Next1(c).req = client[c].awaits => client[c].blocking

(* A mail that was asked for comes before its ACK (process_read_command).  *)
ReadsAreAnswered ==
  \A c \in Clients :
    /\ NextIs(c, {"ACK"})
    /\ Next1(c).req = client[c].awaits /\ client[c].blocking /\ Next1(c).body = "READ"
    => client[c].displayed

(* A delete goes by the listing the user sees (delete_email,               *)
(* find_id_using_index).                                                   *)
DeletesNameShownMail ==
  [][\A c \in Clients :
       DeleteEmail(c) => client[c].inbox # {} /\ client[c].inbox = client[c].screen]_vars

(* Asking for a connection comes to an end: the client is connected, gives *)
(* up or is told (connect_to_server).                                      *)
ConnectingEnds == \A c \in Clients : Connecting(c) ~> ~Connecting(c)
=============================================================================
