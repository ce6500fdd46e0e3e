---------------------------- MODULE MCServerNames ----------------------------
(* Values of the constants of ServerNames for TLC. *)
EXTENDS ServerNames, MCReplication

LastFirst == [s \in Server |-> N_MACHINES - s]

-----------------------------------------------------------------------------
(* Promises that the program does not keep.  README says for which values  *)
(* of the constants TLC shows it.                                          *)

(* The names sent by a server that does not synchronize are those of the   *)
(* members of its group (send_component_to_client).                        *)
ComponentIsListed ==
  \A s \in Server : phase[s] = "main" => ListedNames(s) = synch_members[s]

(* As many names are sent as the message says (num_servers, from n_synching *)
(* and not from the names copied).                                         *)
NamesAreCounted ==
  \A s \in Server : Answers(s) => Cardinality(received[s]) = NumServers(s)
=============================================================================
