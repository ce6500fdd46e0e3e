----------------------------- MODULE SpreadGroup -----------------------------
(***************************************************************************)
(* The service the mail servers get from the Spread toolkit, restricted to *)
(* the one group they all join, "all_servers_group".  Spread is a library  *)
(* outside the program's own code: this module models it from how          *)
(* server_main.cpp uses it (SP_join, SP_multicast with AGREED_MESS,        *)
(* SP_receive of regular and membership messages), i.e. Extended Virtual   *)
(* Synchrony:                                                              *)
(*   - what one server multicasts is ordered in the order it was sent;     *)
(*   - servers that share a view receive the same messages in one order,   *)
(*     the sender included;                                                *)
(*   - a message not yet ordered when the network changes is delivered to  *)
(*     those the sender can still reach, possibly in its next view;        *)
(*   - a changed set of reachable members is announced by a membership     *)
(*     message, placed in the same order for all of its members.           *)
(***************************************************************************)
EXTENDS Integers, Sequences, FiniteSets

CONSTANTS
  N_MACHINES,       \* the number of mail servers (messages.h)
  InitialPartition  \* [Server -> SUBSET Server]: the network at the start

Server == 0 .. N_MACHINES - 1

ASSUME NMachinesAssumption == N_MACHINES \in Nat \ {0}

ASSUME InitialPartitionAssumption ==
  /\ InitialPartition \in [Server -> SUBSET Server]
  /\ \A s \in Server : s \in InitialPartition[s]

VARIABLES
  component,  \* [Server -> SUBSET Server]: the network partition a server is in
  view,       \* [Server -> SUBSET Server]: the last membership installed
  mailbox,    \* [Server -> Seq(Message)]: ordered, not yet read by SP_receive
  outbox      \* [Server -> Seq(Message)]: multicast, not yet ordered

netVars == <<component, view, mailbox, outbox>>

Knowledge == [Server -> [Server -> Nat]]

Command == [type : {"COMMAND"}, origin : Server, index : Nat]

(* The messages of the group (messages.h), reduced to what replication     *)
(* reads of them.                                                          *)
Multicasts == Command
                \cup [type : {"KNOWLEDGE"}, sender : Server, summary : Knowledge]

Membership == [type : {"MEMBERSHIP"}, members : SUBSET Server]

Message == Multicasts \cup Membership

NetTypeOK ==
  /\ component \in [Server -> SUBSET Server]
  /\ view \in [Server -> SUBSET Server]
  /\ mailbox \in [Server -> Seq(Message)]
  /\ outbox \in [Server -> Seq(Multicasts)]

-----------------------------------------------------------------------------
(* The group has settled: the view of each server is its partition.        *)
NetInit ==
  /\ component = InitialPartition
  /\ view = InitialPartition
  /\ mailbox = [s \in Server |-> <<>>]
  /\ outbox = [s \in Server |-> <<>>]

(* SP_multicast: hand the messages over, in order; never blocks.           *)
Multicast(s, messages) == outbox' = [outbox EXCEPT ![s] = @ \o messages]

(* SP_receive returns the next message, of the given type.                 *)
NextIs(s, type) == mailbox[s] # <<>> /\ Head(mailbox[s]).type = type

ReadNext(s) == mailbox' = [mailbox EXCEPT ![s] = Tail(@)]

(* The group orders the oldest message of s and delivers it to the servers *)
(* that s can reach and that share its view.                               *)
Deliver(s) ==
  /\ outbox[s] # <<>>
  /\ s \in view[s]
  /\ mailbox' = [t \in Server |->
                  IF t \in component[s] /\ view[t] = view[s]
                  THEN Append(mailbox[t], Head(outbox[s]))
                  ELSE mailbox[t]]
  /\ outbox' = [outbox EXCEPT ![s] = Tail(@)]
  /\ UNCHANGED <<component, view>>

(* The members of the group that s can reach, when "joined" is the set of  *)
(* servers connected to the group.                                         *)
Reached(s, joined) == component[s] \cap joined

(* The group installs a new view for the members that s reaches.           *)
InstallView(s, joined) ==
  LET members == Reached(s, joined) IN
  /\ s \in joined
  /\ \E t \in members : view[t] # members
  /\ view' = [t \in Server |-> IF t \in members THEN members ELSE view[t]]
  /\ mailbox' = [t \in Server |->
                  IF t \in members
                  THEN Append(mailbox[t], [type |-> "MEMBERSHIP", members |-> members])
                  ELSE mailbox[t]]
  /\ UNCHANGED <<component, outbox>>

(* The network: two partitions heal into one, once the group has announced *)
(* the previous changes in both; or one splits in two.                     *)
Merge(s, t, joined) ==
  /\ component[s] # component[t]
  /\ \A u \in Reached(s, joined) \cup Reached(t, joined) :
       view[u] = Reached(u, joined)
  /\ component' = [u \in Server |->
                    IF u \in component[s] \cup component[t]
                    THEN component[s] \cup component[t]
                    ELSE component[u]]
  /\ UNCHANGED <<view, mailbox, outbox>>

Split(s, part) ==
  /\ part \subseteq component[s]
  /\ s \in part
  /\ part # component[s]
  /\ component' = [u \in Server |->
                    IF u \in part THEN part
                    ELSE IF u \in component[s] THEN component[s] \ part
                    ELSE component[u]]
  /\ UNCHANGED <<view, mailbox, outbox>>

(* The process of s dies: its connection to the group goes with it.        *)
Disconnect(s) ==
  /\ view' = [view EXCEPT ![s] = {}]
  /\ mailbox' = [mailbox EXCEPT ![s] = <<>>]
  /\ outbox' = [outbox EXCEPT ![s] = <<>>]
  /\ UNCHANGED component

=============================================================================
