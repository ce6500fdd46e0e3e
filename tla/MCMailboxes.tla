----------------------------- MODULE MCMailboxes -----------------------------
(* Values of the constants of Mailboxes for TLC. *)
EXTENDS Mailboxes, TLC

CONSTANTS u1, u2, c1, c2, d1, d2

OneUser == {u1}
TwoUsers == {u1, u2}
OneClient == {c1}
TwoClients == {c1, c2}
OneSecond == {d1}
TwoSeconds == {d1, d2}

\* The first command of server 1, issued or not.
FirstOfOne == [origin : {1}, index : {1}]

\* Users, clients and seconds are told apart by equality only.
Symmetry == Permutations(User) \cup Permutations(Client) \cup Permutations(Dates)

-----------------------------------------------------------------------------
(* Promises that the program does not keep.  README says for which values  *)
(* of the constants TLC shows it.                                          *)

(* Servers that applied the same commands show the same inboxes            *)
(* (apply_read_message, apply_delete_message).                             *)
InboxesConverge ==
  \A s, t \in Server : applied[s] = applied[t] => inboxes[s] = inboxes[t]

(* A read mark is kept pending only for a mail still to come               *)
(* (apply_read_message).                                                   *)
PendingReadsAwaitMail ==
  \A s \in Server : \A id \in pending_read[s] : id.index > applied[s][id.origin]
=============================================================================
