----------------------------- MODULE ServerNames -----------------------------
(***************************************************************************)
(* What "v -- show servers in current component" shows: replication with   *)
(* the array synch_members[] of a server, which synchronize() fills with   *)
(* the members of the view in Spread's order and send_component_to_client  *)
(* reads by server number.  Replication has the members as a set; here the *)
(* array keeps what a longer view left behind in it.                       *)
(***************************************************************************)
EXTENDS Replication

CONSTANT Order  \* [Server -> Nat]: the order in which Spread lists members

ASSUME OrderAssumption ==
  /\ Order \in [Server -> Nat]
  /\ \A s, t \in Server : Order[s] = Order[t] => s = t

VARIABLE names  \* [Server -> [Slot -> Server or NoName]]: synch_members[]

Slot == 1 .. N_MACHINES

NoName == N_MACHINES

NamesVars == <<vars, names>>

Place(members, t) == Cardinality({u \in members : Order[u] <= Order[t]})

InOrder(members) ==
  [i \in 1 .. Cardinality(members) |-> CHOOSE t \in members : Place(members, t) = i]

\* A defect the runs must notice: the last member is not copied.
CopyAllButLast(array, members) ==
  [i \in Slot |-> IF i < Cardinality(members) THEN InOrder(members)[i] ELSE array[i]]

(* copy_group_members: the names of the view over the first ones there.    *)
CopyGroupMembers(array, members) ==
  [i \in Slot |-> IF i <= Cardinality(members) THEN InOrder(members)[i] ELSE array[i]]

NamesInit ==
  /\ Init
  /\ names = [s \in Server |-> CopyGroupMembers([i \in Slot |-> NoName], InitialPartition[s])]

\* A defect the runs must notice: synchronize() copies only when it is called,
\* not when it begins again.
CopiesOnce(s) == phase[s] # "waiting" /\ phase'[s] = "waiting"

(* The copy is taken when a synchronization begins or begins again, at the *)
(* label of synchronize(); what it copies changes at no other step.        *)
Copies(s) == phase'[s] = "waiting"

NamesNext ==
  /\ Next
  /\ names' = [s \in Server |->
                IF phase'[s] = "down" THEN [i \in Slot |-> NoName]
                ELSE IF Copies(s) THEN CopyGroupMembers(names[s], synch_members'[s])
                ELSE names[s]]

NamesSpec == NamesInit /\ [][NamesNext]_NamesVars

-----------------------------------------------------------------------------
(* The answer of send_component_to_client: the slot of every server that   *)
(* is marked in servers_present[], and the number of members.              *)
Answers(s) == phase[s] = "main" \/ Waiting(s)

ListedNames(s) == {names[s][j + 1] : j \in received[s]}

NumServers(s) == Cardinality(synch_members[s])

(* The members are the first servers by number.                            *)
InFront(s) == synch_members[s] = 0 .. NumServers(s) - 1

(* When the members are the first servers, in whatever order Spread lists  *)
(* them, every name sent is that of a member, whatever longer views left   *)
(* in the array and however often the view changed while the server        *)
(* waited; and every member is named once it no longer waits               *)
(* (copy_group_members, clear_synch_arrays, mark_knowledge_as_received).   *)
FrontIsListed ==
  \A s \in Server :
    Answers(s) /\ InFront(s) =>
      /\ ListedNames(s) \subseteq synch_members[s]
      /\ phase[s] = "main" => ListedNames(s) = synch_members[s]

(* The inductive invariant behind it (proved in NamesProofs).  A server is *)
(* a member of the views it is told of; it marks members, all of them once *)
(* it does not wait; and the array begins with the members' names.         *)
NamesInv ==
  \A s \in Server :
    /\ \A n \in 1 .. Len(mailbox[s]) :
         mailbox[s][n].type = "MEMBERSHIP" => s \in mailbox[s][n].members
    /\ received[s] \subseteq synch_members[s]
    /\ phase[s] # "waiting" => received[s] = synch_members[s]
    /\ phase[s] = "down" => synch_members[s] = {}
    /\ \A i \in 1 .. NumServers(s) : names[s][i] = InOrder(synch_members[s])[i]
=============================================================================
