----------------------------- MODULE MCStateFiles -----------------------------
(* Values of the constants of StateFiles and StateJson for TLC. *)
EXTENDS StateFiles

\* Values an uninitialized index may have.
Garbage == {-1, 1}

\* What a saved state is made of.
SmallCounts == {0, 1}
TwoUsers == {"ann", "bob"}
MailOf(o, date, read) ==
  [id |-> [origin |-> o, index |-> 1], date_sent |-> date, message |-> "hello", read |-> read]
TwoMails == {MailOf(0, 10, TRUE), MailOf(1, 10, FALSE)}

-----------------------------------------------------------------------------
(* Promises that the program does not keep.  README says for which values  *)
(* of Interrupts, or of the bounds, TLC shows it.                          *)

(* A crash at any moment leaves files that the next start can read         *)
(* (write_json, read_json).                                                *)
StartsAgain == phase # "failed"

(* When collection is over, no block is left that is full of safe commands *)
(* (erase_queue_up_to).                                                    *)
FullOfSafe(o, b) == (b + 1) * FILE_BLOCK_SIZE - 1 < mem.safe[o]

BlocksAreDiscarded ==
  AtRest => \A o \in Origin : \A b \in DOMAIN files.log[o] : ~FullOfSafe(o, b)
=============================================================================
