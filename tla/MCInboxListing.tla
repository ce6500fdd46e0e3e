---------------------------- MODULE MCInboxListing ----------------------------
(* Values of the constants of InboxListing for TLC. *)
EXTENDS InboxListing

TwoSeconds == {1, 2}
Everything == {"READ", "DELETE", "SHOW_INBOX"}

-----------------------------------------------------------------------------
(* Promises that the program does not keep.  README says for which values  *)
(* of the constants TLC shows it.                                          *)

(* No answer makes the server use an inbox's first mail, or the array's    *)
(* end, that is not there (send_mail_to_client, send_inbox_to_client).     *)
ServerStaysUp == up

(* A listing is whole, however long (send_inbox_to_client).                *)
LongListingIsComplete == [][Prints /\ ~outOfStep => client'.screen \in reported]_vars

(* No mail is listed twice, whatever was gone before (get_inbox).          *)
NothingIsListedTwice ==
  [][Prints => \A i, j \in DOMAIN client'.screen :
       client'.screen[i].id = client'.screen[j].id => i = j]_vars

(* A listing is from one inbox, whatever the user types while it comes in. *)
EveryListingIsComplete ==
  [][Prints =>
       \E box \in reported :
         \/ client'.screen = box
         \/ Len(box) > INBOX_LIMIT /\ IsPartOf(client'.screen, box)]_vars

(* A pick is of a row on the screen, also while a listing comes in         *)
(* (find_id_using_index).                                                  *)
EveryPickIsOnTheScreen ==
  [][\A row \in Ids :
       (ReadEmail(row) \/ DeleteEmail(row)) =>
         row \in DOMAIN client.screen /\ Last(to_server').id = client.screen[row].id]_vars

(* A listing that arrives is awaited: the client does not drop it.         *)
ListingsAreAwaited == NextIs("INBOX") => client.blocking
=============================================================================
