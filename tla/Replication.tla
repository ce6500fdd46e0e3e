----------------------------- MODULE Replication -----------------------------
(***************************************************************************)
(* The replication core of server_main.cpp: how a mail server applies the  *)
(* commands its clients give it, logs them, multicasts them, learns what   *)
(* its peers have applied (the knowledge matrix), resends what they lack   *)
(* when the membership changes, discards what everybody has, and recovers  *)
(* after a crash.                                                          *)
(*                                                                         *)
(* A command is its identifier: the server it originates on and its index  *)
(* there.  What a command does to the mailboxes is module Mailboxes.  The  *)
(* two state files and one log record are written atomically here.         *)
(***************************************************************************)
EXTENDS SpreadGroup, FiniteSetsExt

CONSTANTS
  FILE_BLOCK_SIZE,           \* log records per file (server.h)
  MAX_UPDATES_BW_SERIALIZE,  \* commands applied between two saves (server.h)
  MAX_CHANGES_BW_GARBAGE,    \* knowledge changes between two collections
  MaxCommands,               \* [Server -> Nat]: bound on client commands
  Partitions,                \* the partitions the network may form
  MaxNetChanges,             \* bound on merges and splits of the network
  MaxCrashes,                \* bound on crashes
  ClientsWait                \* TRUE: clients are silent while servers synchronize

ASSUME ThresholdAssumption ==
  /\ FILE_BLOCK_SIZE \in Nat \ {0}
  /\ MAX_UPDATES_BW_SERIALIZE \in Nat \ {0}
  /\ MAX_CHANGES_BW_GARBAGE \in Nat \ {0}

ASSUME BoundAssumption ==
  /\ MaxCommands \in [Server -> Nat]
  /\ Partitions \subseteq SUBSET Server
  /\ MaxNetChanges \in Nat
  /\ MaxCrashes \in Nat
  /\ ClientsWait \in BOOLEAN

VARIABLES
  \* struct State and the other globals of a server process
  knowledge,          \* [s][t][o]: s knows that t applied o's commands up to it
  applied_to_state,   \* [s][o]: the commands of o in the state of s
  safe_delivered,     \* [s][o]: every server is known to have applied up to it
  command_queue,      \* [s][o]: indices of the commands of o kept to resend
  current_block,      \* [s][o]: the oldest log file of o thought to be on disk
  updates_since_serialize,
  changes_since_garbage_collection,
  \* the synchronization in progress
  phase,              \* where the server's thread is
  synch_members,      \* the members of the view being synchronized
  received,           \* received[] and servers_present[], which stay equal
  need_to_send,       \* the origins whose commands s has still to resend
  synch_queue,        \* commands stashed until the synchronization ends
  cursor,             \* the next log record to read while loading
  \* files
  inbox_state, log_state, log_files,
  \* history and bounds
  logged,             \* [s][o]: log records of o that s has ever written
  net_changes, crashes

memoryVars == <<knowledge, applied_to_state, safe_delivered, command_queue,
                current_block, updates_since_serialize,
                changes_since_garbage_collection>>
synchVars == <<synch_members, received, need_to_send>>
stateFiles == <<inbox_state, log_state>>
diskVars == <<inbox_state, log_state, log_files, logged>>
boundVars == <<net_changes, crashes>>

vars == <<memoryVars, synchVars, phase, synch_queue, cursor, diskVars,
          boundVars, netVars>>

Phase == {"down", "loading", "main", "waiting", "finishing"}

Counts == [Server -> Nat]

Saved == [knowledge : Knowledge, applied_to_state : Counts]

MemoryTypeOK ==
  /\ knowledge \in [Server -> Knowledge]
  /\ applied_to_state \in [Server -> Counts]
  /\ safe_delivered \in [Server -> Counts]
  /\ command_queue \in [Server -> [Server -> Seq(Nat)]]
  /\ current_block \in [Server -> Counts]
  /\ updates_since_serialize \in [Server -> 0 .. MAX_UPDATES_BW_SERIALIZE - 1]
  /\ changes_since_garbage_collection \in [Server -> 0 .. MAX_CHANGES_BW_GARBAGE - 1]

SynchTypeOK ==
  /\ phase \in [Server -> Phase]
  /\ synch_members \in [Server -> SUBSET Server]
  /\ received \in [Server -> SUBSET Server]
  /\ need_to_send \in [Server -> SUBSET Server]
  /\ synch_queue \in [Server -> Seq(Command)]
  /\ cursor \in [Server -> [origin : Server, index : Nat]]

DiskTypeOK ==
  /\ inbox_state \in [Server -> Saved]
  /\ log_state \in [Server -> Counts]
  /\ log_files \in [Server -> [Server -> SUBSET Nat]]
  /\ logged \in [Server -> Counts]

TypeOK ==
  /\ NetTypeOK
  /\ MemoryTypeOK
  /\ SynchTypeOK
  /\ DiskTypeOK
  /\ net_changes \in Nat
  /\ crashes \in Nat

-----------------------------------------------------------------------------
Zeros == [o \in Server |-> 0]

(* Servers that have connected to the group.                               *)
Joined == {s \in Server : phase[s] \notin {"down", "loading"}}

Block(index) == index \div FILE_BLOCK_SIZE

CommandMessage(o, i) == [type |-> "COMMAND", origin |-> o, index |-> i]

\* A defect the runs must notice: every row is filled with the sender's own.
KnowledgeMessageOwnRow(s, summary) ==
  [type |-> "KNOWLEDGE", sender |-> s, summary |-> [t \in Server |-> summary[s]]]

KnowledgeMessage(s, summary) ==
  [type |-> "KNOWLEDGE", sender |-> s, summary |-> summary]

(* Every server was started with no file and synchronized with those of    *)
(* its partition; the KNOWLEDGE messages this took count as changes.       *)
Init ==
  /\ NetInit
  /\ knowledge = [s \in Server |-> [t \in Server |-> Zeros]]
  /\ applied_to_state = [s \in Server |-> Zeros]
  /\ safe_delivered = [s \in Server |-> Zeros]
  /\ command_queue = [s \in Server |-> [o \in Server |-> <<>>]]
  /\ current_block = [s \in Server |-> [o \in Server |-> Block(1)]]
  /\ updates_since_serialize = [s \in Server |-> 0]
  /\ changes_since_garbage_collection \in
       [Server -> 0 .. MAX_CHANGES_BW_GARBAGE - 1]
  /\ phase = [s \in Server |-> "main"]
  /\ synch_members = InitialPartition
  /\ received = InitialPartition
  /\ need_to_send = [s \in Server |-> {}]
  /\ synch_queue = [s \in Server |-> <<>>]
  /\ cursor = [s \in Server |-> [origin |-> 0, index |-> 0]]
  /\ inbox_state = [s \in Server |->
                     [knowledge |-> [t \in Server |-> Zeros],
                      applied_to_state |-> Zeros]]
  /\ log_state = [s \in Server |-> Zeros]
  /\ log_files = [s \in Server |-> [o \in Server |-> {}]]
  /\ logged = [s \in Server |-> Zeros]
  /\ net_changes = 0
  /\ crashes = 0

-----------------------------------------------------------------------------
(* Applying commands.                                                      *)

\* A defect the runs must notice: saves as safe what only s has.
WriteStateOwnRow(s) ==
  /\ inbox_state' = [inbox_state EXCEPT ![s] =
                      [knowledge |-> knowledge'[s],
                       applied_to_state |-> applied_to_state'[s]]]
  /\ log_state' = [log_state EXCEPT ![s] = knowledge'[s][s]]

(* write_state(): both state files, with what the process now holds.       *)
WriteState(s) ==
  /\ inbox_state' = [inbox_state EXCEPT ![s] =
                      [knowledge |-> knowledge'[s],
                       applied_to_state |-> applied_to_state'[s]]]
  /\ log_state' = [log_state EXCEPT ![s] = safe_delivered[s]]

\* A defect the runs must notice: one command too late.
SerializesLate(s) == updates_since_serialize[s] + 1 > MAX_UPDATES_BW_SERIALIZE

Serializes(s) == updates_since_serialize[s] + 1 >= MAX_UPDATES_BW_SERIALIZE

(* The mailbox effect apart; its KNOWLEDGE broadcast is in Broadcasts.     *)
ApplyCommandToState(s, o, i) ==
  /\ knowledge' = [knowledge EXCEPT ![s][s][o] = @ + 1]
  /\ applied_to_state' = [applied_to_state EXCEPT ![s][o] = @ + 1]
  /\ command_queue' = [command_queue EXCEPT ![s][o] = Append(@, i)]
  /\ IF Serializes(s)
     THEN /\ WriteState(s)
          /\ updates_since_serialize' = [updates_since_serialize EXCEPT ![s] = 0]
     ELSE /\ UNCHANGED stateFiles
          /\ updates_since_serialize' = [updates_since_serialize EXCEPT ![s] = @ + 1]
  /\ UNCHANGED <<safe_delivered, current_block, changes_since_garbage_collection>>

(* What s multicasts when it applies command i of o: its knowledge if it   *)
(* serializes, then the command if it is its own.                          *)
Broadcasts(s, o, i) ==
  (IF Serializes(s) THEN <<KnowledgeMessage(s, knowledge'[s])>> ELSE <<>>)
    \o (IF o = s THEN <<CommandMessage(o, i)>> ELSE <<>>)

\* A defect the runs must notice: only the server's own commands are logged.
WriteOwnCommandToLog(s, o, i) ==
  /\ log_files' = [log_files EXCEPT ![s][o] = IF o = s THEN @ \cup {i} ELSE @]
  /\ logged' = [logged EXCEPT ![s][o] = @ + 1]

WriteCommandToLog(s, o, i) ==
  /\ log_files' = [log_files EXCEPT ![s][o] = @ \cup {i}]
  /\ logged' = [logged EXCEPT ![s][o] = @ + 1]

\* A defect the runs must notice: the last command is taken once more.
IsNextOrLast(s, o, i) == i >= knowledge[s][s][o]

IsNext(s, o, i) == i = knowledge[s][s][o] + 1

ApplyNewCommand(s, o, i) ==
  \/ /\ IsNext(s, o, i)
     /\ WriteCommandToLog(s, o, i)
     /\ ApplyCommandToState(s, o, i)
     /\ Multicast(s, Broadcasts(s, o, i))
  \/ /\ ~ IsNext(s, o, i)
     /\ UNCHANGED <<memoryVars, diskVars, outbox>>

(* The servers of the partition of s synchronized and none of them has     *)
(* another server's command left to resend: the environment of the runs    *)
(* that keep clients silent until then.                                    *)
Settled(s) ==
  \A t \in Reached(s, Joined) :
    /\ phase[t] = "main"
    /\ view[t] = Reached(s, Joined)
    /\ \A n \in 1 .. Len(mailbox[t]) : mailbox[t][n].type # "MEMBERSHIP"
    /\ \A n \in 1 .. Len(outbox[t]) :
         outbox[t][n].type = "COMMAND" => outbox[t][n].origin = t

(* MAIL, READ or DELETE from a client: process_new_email() and its like.   *)
NewCommand(s) ==
  /\ phase[s] = "main"
  /\ logged[s][s] < MaxCommands[s]
  /\ ClientsWait => Settled(s)
  /\ ApplyNewCommand(s, s, knowledge[s][s][s] + 1)
  /\ UNCHANGED <<phase, synchVars, synch_queue, cursor, boundVars,
                 component, view, mailbox>>

\* A defect the runs must notice: waits for servers outside the view.
WaitingForAll(s) ==
  /\ phase[s] = "waiting"
  /\ Cardinality(received[s]) < N_MACHINES

(* The loop of wait_for_everyone() goes on.                                *)
Waiting(s) ==
  /\ phase[s] = "waiting"
  /\ Cardinality(received[s]) < Cardinality(synch_members[s])

(* The same message while the server waits for its peers.                  *)
StashCommand(s) ==
  /\ Waiting(s)
  /\ logged[s][s] + Len(SelectSeq(synch_queue[s], LAMBDA c : c.origin = s))
       < MaxCommands[s]
  /\ ~ ClientsWait
  /\ synch_queue' = [synch_queue EXCEPT ![s] =
                      Append(@, CommandMessage(s, knowledge[s][s][s] + 1))]
  /\ UNCHANGED <<memoryVars, diskVars, phase, synchVars, cursor, boundVars, netVars>>

(* COMMAND from a server: applied at once, or stashed while waiting.       *)
ReadCommand(s) ==
  /\ NextIs(s, "COMMAND")
  /\ ReadNext(s)
  /\ \/ /\ phase[s] = "main"
        /\ ApplyNewCommand(s, Head(mailbox[s]).origin, Head(mailbox[s]).index)
        /\ UNCHANGED synch_queue
     \/ /\ Waiting(s)
        /\ synch_queue' = [synch_queue EXCEPT ![s] = Append(@, Head(mailbox[s]))]
        /\ UNCHANGED <<memoryVars, diskVars, outbox>>
  /\ UNCHANGED <<phase, synchVars, cursor, boundVars, component, view>>

-----------------------------------------------------------------------------
(* Knowledge and garbage collection.                                       *)

\* A defect the runs must notice: pops one command too many.
EraseOneMore(queue, index) ==
  LET kept == {n \in 1 .. Len(queue) : queue[n] > index + 1} IN
  IF kept = {} THEN <<>> ELSE SubSeq(queue, Min(kept), Len(queue))

(* What remains of a queue once erase_queue_up_to() popped its front while *)
(* that was at most "index".                                               *)
EraseUpTo(queue, index) ==
  LET kept == {n \in 1 .. Len(queue) : queue[n] > index} IN
  IF kept = {} THEN <<>> ELSE SubSeq(queue, Min(kept), Len(queue))

(* The positions popped from the queue whose log block is not the current  *)
(* one.                                                                    *)
BlockChanges(queue, index, block) ==
  {n \in 1 .. Len(queue) - Len(EraseUpTo(queue, index)) : Block(queue[n]) # block}

\* A defect the runs must notice: what somebody has applied.
SafeForSomebody(matrix, o) == Max({matrix[t][o] : t \in Server})

(* What every server is known to have applied of o.                        *)
SafeIndex(matrix, o) == Min({matrix[t][o] : t \in Server})

(* collect_garbage() with the matrix s now has.  At the first block change *)
(* of an origin its log files up to that block are removed; every block    *)
(* change first writes the state files, so that the last origin with one   *)
(* tells how much of the new safe_delivered is on disk.                    *)
CollectGarbage(s, matrix) ==
  LET safe == [o \in Server |-> SafeIndex(matrix, o)]
      changes(o) == BlockChanges(command_queue[s][o], safe[o], current_block[s][o])
      changed == {o \in Server : changes(o) # {}}
      removed(o) == current_block[s][o] .. Block(command_queue[s][o][Min(changes(o))]) - 1
  IN
  /\ safe_delivered' = [safe_delivered EXCEPT ![s] = safe]
  /\ command_queue' = [command_queue EXCEPT ![s] =
                        [o \in Server |-> EraseUpTo(@[o], safe[o])]]
  /\ current_block' = [current_block EXCEPT ![s] =
                        [o \in Server |-> IF o \in changed THEN Block(safe[o]) ELSE @[o]]]
  /\ log_files' = [log_files EXCEPT ![s] =
                    [o \in Server |->
                      IF o \in changed
                      THEN {i \in @[o] : Block(i) \notin removed(o)}
                      ELSE @[o]]]
  /\ IF changed = {}
     THEN UNCHANGED stateFiles
     ELSE /\ inbox_state' = [inbox_state EXCEPT ![s] =
                              [knowledge |-> matrix,
                               applied_to_state |-> applied_to_state[s]]]
          /\ log_state' = [log_state EXCEPT ![s] =
                            [o \in Server |-> IF o <= Max(changed) THEN safe[o]
                                              ELSE safe_delivered[s][o]]]

\* A defect the runs must notice: any different entry replaces what s knows.
RaisedOrLowered(s, summary) ==
  {p \in Server \X Server : summary[p[1]][p[2]] # knowledge[s][p[1]][p[2]]}

(* The entries of the matrix that a summary raises.                        *)
Raised(s, summary) ==
  {p \in Server \X Server : summary[p[1]][p[2]] > knowledge[s][p[1]][p[2]]}

UpdateKnowledge(s, summary) ==
  LET matrix == [t \in Server |-> [o \in Server |->
                  IF <<t, o>> \in Raised(s, summary) THEN summary[t][o]
                  ELSE knowledge[s][t][o]]]
      changes == changes_since_garbage_collection[s]
                   + Cardinality(Raised(s, summary)) + 1
  IN
  /\ knowledge' = [knowledge EXCEPT ![s] = matrix]
  /\ IF changes >= MAX_CHANGES_BW_GARBAGE
     THEN /\ CollectGarbage(s, matrix)
          /\ changes_since_garbage_collection' =
               [changes_since_garbage_collection EXCEPT ![s] = 0]
     ELSE /\ UNCHANGED <<safe_delivered, command_queue, current_block, log_files, stateFiles>>
          /\ changes_since_garbage_collection' =
               [changes_since_garbage_collection EXCEPT ![s] = changes]
  /\ UNCHANGED <<applied_to_state, updates_since_serialize, logged>>

(* KNOWLEDGE from a server.  A waiting server also marks the sender, if it *)
(* is a member of the view being synchronized.                             *)
ReadKnowledge(s) ==
  /\ NextIs(s, "KNOWLEDGE")
  /\ ReadNext(s)
  /\ UpdateKnowledge(s, Head(mailbox[s]).summary)
  /\ \/ /\ phase[s] = "main"
        /\ UNCHANGED received
     \/ /\ Waiting(s)
        /\ received' = [received EXCEPT ![s] =
                         @ \cup ({Head(mailbox[s]).sender} \cap synch_members[s])]
  /\ UNCHANGED <<phase, synch_members, need_to_send, synch_queue, cursor,
                 boundVars, component, view, outbox>>

-----------------------------------------------------------------------------
(* Synchronization.                                                        *)

(* The membership of all_servers_group changed: synchronize() begins, or   *)
(* wait_for_everyone() returns false and it begins again.                  *)
ReadMembership(s) ==
  /\ NextIs(s, "MEMBERSHIP")
  /\ phase[s] = "main" \/ Waiting(s)
  /\ ReadNext(s)
  /\ Multicast(s, <<KnowledgeMessage(s, knowledge[s])>>)
  /\ synch_members' = [synch_members EXCEPT ![s] = Head(mailbox[s]).members]
  /\ received' = [received EXCEPT ![s] = {s}]
  /\ phase' = [phase EXCEPT ![s] = "waiting"]
  /\ UNCHANGED <<memoryVars, diskVars, need_to_send, synch_queue, cursor,
                 boundVars, component, view>>

\* A defect the runs must notice: s must have more than itself.
MySynchServersStrict(s) ==
  {o \in Server :
    \A t \in received[s] : \/ knowledge[s][t][o] < knowledge[s][s][o]
                           \/ knowledge[s][t][o] = knowledge[s][s][o] /\ s < t}

(* The origins of whose commands s has the most among the servers heard    *)
(* of; the lowest of those that have as many resends them.                 *)
MySynchServers(s) ==
  {o \in Server :
    \A t \in received[s] : \/ knowledge[s][t][o] < knowledge[s][s][o]
                           \/ knowledge[s][t][o] = knowledge[s][s][o] /\ s <= t}

\* A defect the runs must notice: starts after what the best of them has.
StartIndexOfBest(s, o) == Max({knowledge[s][t][o] : t \in received[s]})

StartIndex(s, o) == Min({knowledge[s][t][o] : t \in received[s]})

(* The commands in a queue of o from the one after index "start" on.       *)
MessagesFrom(queue, o, start) ==
  LET found == {n \in 1 .. Len(queue) : queue[n] = start + 1} IN
  IF found = {} THEN <<>>
  ELSE [n \in 1 .. Len(queue) - Min(found) + 1 |->
         CommandMessage(o, queue[Min(found) + n - 1])]

SynchCommands(s, o) == MessagesFrom(command_queue[s][o], o, StartIndex(s, o))

(* What is left of synchronize() and apply_queued_updates(): one step per  *)
(* origin resent and per command stashed, and then the main loop.          *)
Finishing(s) ==
  phase' = [phase EXCEPT ![s] = IF need_to_send'[s] = {} /\ synch_queue'[s] = <<>>
                                THEN "main" ELSE "finishing"]

(* wait_for_everyone() returns true: count_my_synch_servers().  Origins    *)
(* with no command to resend are left out.                                 *)
FinishWaiting(s) ==
  /\ phase[s] = "waiting"
  /\ ~ Waiting(s)
  /\ need_to_send' = [need_to_send EXCEPT ![s] =
                       {o \in MySynchServers(s) : SynchCommands(s, o) # <<>>}]
  /\ UNCHANGED <<memoryVars, diskVars, synch_members, received, synch_queue,
                 cursor, boundVars, netVars>>
  /\ Finishing(s)

(* broadcast_messages_from_queue() for the next of the origins to send.    *)
SendSynchCommands(s) ==
  LET o == Min(need_to_send[s]) IN
  /\ phase[s] = "finishing"
  /\ need_to_send[s] # {}
  /\ Multicast(s, SynchCommands(s, o))
  /\ need_to_send' = [need_to_send EXCEPT ![s] = @ \ {o}]
  /\ UNCHANGED <<memoryVars, diskVars, synch_members, received, synch_queue,
                 cursor, boundVars, component, view, mailbox>>
  /\ Finishing(s)

(* One turn of the loop of apply_queued_updates().                         *)
ApplyQueuedUpdate(s) ==
  LET command == Head(synch_queue[s]) IN
  /\ phase[s] = "finishing"
  /\ need_to_send[s] = {}
  /\ synch_queue[s] # <<>>
  /\ ApplyNewCommand(s, command.origin, command.index)
  /\ synch_queue' = [synch_queue EXCEPT ![s] = Tail(@)]
  /\ UNCHANGED <<synchVars, cursor, boundVars, component, view, mailbox>>
  /\ Finishing(s)

-----------------------------------------------------------------------------
(* Crash and recovery.                                                     *)

(* The process dies between two steps; its files stay.                     *)
Crash(s) ==
  /\ phase[s] # "down"
  /\ crashes < MaxCrashes
  /\ crashes' = crashes + 1
  /\ phase' = [phase EXCEPT ![s] = "down"]
  /\ knowledge' = [knowledge EXCEPT ![s] = [t \in Server |-> Zeros]]
  /\ applied_to_state' = [applied_to_state EXCEPT ![s] = Zeros]
  /\ safe_delivered' = [safe_delivered EXCEPT ![s] = Zeros]
  /\ command_queue' = [command_queue EXCEPT ![s] = [o \in Server |-> <<>>]]
  /\ current_block' = [current_block EXCEPT ![s] = Zeros]
  /\ updates_since_serialize' = [updates_since_serialize EXCEPT ![s] = 0]
  /\ changes_since_garbage_collection' =
       [changes_since_garbage_collection EXCEPT ![s] = 0]
  /\ synch_members' = [synch_members EXCEPT ![s] = {}]
  /\ received' = [received EXCEPT ![s] = {}]
  /\ need_to_send' = [need_to_send EXCEPT ![s] = {}]
  /\ synch_queue' = [synch_queue EXCEPT ![s] = <<>>]
  /\ Disconnect(s)
  /\ UNCHANGED <<diskVars, cursor, net_changes>>

(* The process starts: read_state_file().  The group has announced its     *)
(* departure to everybody before.                                          *)
Restart(s) ==
  /\ phase[s] = "down"
  /\ \A t \in Server : s \notin view[t]
  /\ phase' = [phase EXCEPT ![s] = "loading"]
  /\ knowledge' = [knowledge EXCEPT ![s] = inbox_state[s].knowledge]
  /\ applied_to_state' = [applied_to_state EXCEPT ![s] = inbox_state[s].applied_to_state]
  /\ safe_delivered' = [safe_delivered EXCEPT ![s] = log_state[s]]
  /\ current_block' = [current_block EXCEPT ![s] =
                        [o \in Server |-> Block(log_state[s][o] + 1)]]
  /\ cursor' = [cursor EXCEPT ![s] = [origin |-> 0, index |-> log_state[s][0] + 1]]
  /\ UNCHANGED <<command_queue, updates_since_serialize,
                 changes_since_garbage_collection, synchVars, synch_queue,
                 diskVars, boundVars, netVars>>

(* read_log_files(): the log holds the next record of the origin at the    *)
(* cursor.  It is applied if the saved state lacks it, and kept to resend. *)
(* There is no connection to multicast on yet.                             *)
ReplayLogRecord(s) ==
  LET o == cursor[s].origin
      i == cursor[s].index IN
  /\ phase[s] = "loading"
  /\ i \in log_files[s][o]
  /\ \/ /\ i > applied_to_state[s][o]
        /\ ApplyCommandToState(s, o, i)
     \/ /\ i <= applied_to_state[s][o]
        /\ command_queue' = [command_queue EXCEPT ![s][o] = Append(@, i)]
        /\ UNCHANGED <<knowledge, applied_to_state, safe_delivered, current_block,
                       updates_since_serialize, changes_since_garbage_collection,
                       stateFiles>>
  /\ cursor' = [cursor EXCEPT ![s].index = @ + 1]
  /\ UNCHANGED <<log_files, logged, phase, synchVars, synch_queue, boundVars, netVars>>

(* The log of that origin ends: on to the next, or to the main loop.       *)
NextLog(s) ==
  LET o == cursor[s].origin IN
  /\ phase[s] = "loading"
  /\ cursor[s].index \notin log_files[s][o]
  /\ IF o + 1 \in Server
     THEN /\ cursor' = [cursor EXCEPT ![s] =
                         [origin |-> o + 1, index |-> safe_delivered[s][o + 1] + 1]]
          /\ UNCHANGED phase
     ELSE /\ phase' = [phase EXCEPT ![s] = "main"]
          /\ cursor' = [cursor EXCEPT ![s] = [origin |-> 0, index |-> 0]]
  /\ UNCHANGED <<memoryVars, diskVars, synchVars, synch_queue, boundVars, netVars>>

-----------------------------------------------------------------------------
(* The network.                                                            *)

serverVars == <<memoryVars, synchVars, phase, synch_queue, cursor, diskVars, crashes>>

GroupDeliver(s) == Deliver(s) /\ UNCHANGED <<serverVars, net_changes>>

GroupInstallView(s) == InstallView(s, Joined) /\ UNCHANGED <<serverVars, net_changes>>

NetworkChange ==
  /\ net_changes < MaxNetChanges
  /\ net_changes' = net_changes + 1
  /\ \/ \E s, t \in Server : Merge(s, t, Joined)
     \/ \E s \in Server : \E part \in Partitions : Split(s, part)
  /\ \A s \in Server : component'[s] \in Partitions
  /\ UNCHANGED serverVars

Next ==
  \/ \E s \in Server :
       \/ NewCommand(s) \/ StashCommand(s) \/ ReadCommand(s)
       \/ ReadKnowledge(s) \/ ReadMembership(s)
       \/ FinishWaiting(s) \/ SendSynchCommands(s)
       \/ ApplyQueuedUpdate(s)
       \/ Crash(s) \/ Restart(s) \/ ReplayLogRecord(s) \/ NextLog(s)
       \/ GroupDeliver(s) \/ GroupInstallView(s)
  \/ NetworkChange

Spec == Init /\ [][Next]_vars

(* The server process keeps reading what it receives, the group keeps      *)
(* ordering and announcing.  Nothing obliges clients, the network, crashes *)
(* or restarts.                                                            *)
ServerStep(s) ==
  \/ ReadCommand(s) \/ ReadKnowledge(s) \/ ReadMembership(s)
  \/ FinishWaiting(s) \/ SendSynchCommands(s) \/ ApplyQueuedUpdate(s)
  \/ ReplayLogRecord(s) \/ NextLog(s)

Fairness == \A s \in Server : /\ WF_vars(ServerStep(s))
                              /\ WF_vars(GroupDeliver(s))
                              /\ WF_vars(GroupInstallView(s))

FairSpec == Spec /\ Fairness

-----------------------------------------------------------------------------
(* Properties.                                                             *)

(* A server never believes that a peer applied more than the peer has      *)
(* logged, whatever order the KNOWLEDGE messages, resends, crashes and     *)
(* recoveries came in: the entrywise maximum of update_knowledge() only    *)
(* spreads what some server was entitled to say.  Garbage collection and   *)
(* the choice of the resender rest on it.                                  *)
KnowledgeSound ==
  \A s, t, o \in Server : knowledge[s][t][o] <= logged[t][o]

(* A server that is up has in its state, and claims for itself, exactly    *)
(* the commands it ever logged: what a crash wiped between two saves comes *)
(* back from the log, and no peer's summary talks it into skipping one.    *)
RestartLosesNothing ==
  \A s \in Joined, o \in Server :
    /\ applied_to_state[s][o] = logged[s][o]
    /\ knowledge[s][s][o] = logged[s][o]

(* Whatever another server lacks, however long it was away, a server that  *)
(* is up can still resend: its queue of the origin has every such command, *)
(* in order, after any number of collections and restarts.                 *)
QueueCoversLaggards ==
  \A s \in Joined, t, o \in Server :
    logged[t][o] < logged[s][o] =>
      MessagesFrom(command_queue[s][o], o, logged[t][o])
        = [n \in 1 .. logged[s][o] - logged[t][o] |-> CommandMessage(o, logged[t][o] + n)]

(* The same of the log files: delete_file_block() never removes a command  *)
(* some server has not logged, so that a crash does not take away the      *)
(* ability to resend it.                                                   *)
LogCoversLaggards ==
  \A s, t, o \in Server : logged[t][o] + 1 .. logged[s][o] \subseteq log_files[s][o]

StateFilesGrow ==
  \A s, o \in Server :
    /\ log_state[s][o] <= log_state'[s][o]
    /\ inbox_state[s].applied_to_state[o] <= inbox_state'[s].applied_to_state[o]
    /\ \A t \in Server :
         inbox_state[s].knowledge[t][o] <= inbox_state'[s].knowledge[t][o]

(* The state files never go back, although a restarted server loads older  *)
(* values than it had and saves again while it replays its log, and        *)
(* collect_garbage() saves safe_delivered half way through its loop.       *)
StateFilesNeverRegress == [][StateFilesGrow]_vars

(* Nothing is under way among the servers that s reaches.                  *)
Quiet(s) ==
  \A t \in Reached(s, Joined) :
    /\ phase[t] = "main"
    /\ view[t] = Reached(s, Joined)
    /\ mailbox[t] = <<>>
    /\ outbox[t] = <<>>

(* When a partition has come to rest its servers have applied the same     *)
(* commands, without any further exchange.                                 *)
QuietConvergence ==
  \A s \in Joined : Quiet(s) =>
    \A t \in Reached(s, Joined) : applied_to_state[s] = applied_to_state[t]

(* A command stashed for a client during synchronization is applied when   *)
(* its turn comes.                                                         *)
StashedCommandsAreApplied ==
  [][\A s \in Server :
       ApplyQueuedUpdate(s) /\ Head(synch_queue[s]).origin = s
         => logged'[s][s] = logged[s][s] + 1]_vars

(* No server waits for ever in wait_for_everyone(), although its peers may *)
(* crash, leave its view, or answer for an earlier view.                   *)
SynchTerminates ==
  \A s \in Server : phase[s] = "waiting" ~> phase[s] # "waiting"

(* Two servers that stay in one partition end with the same commands.      *)
EventuallyConsistent ==
  \A s, t \in Server :
    <>[](s \in Joined /\ t \in Reached(s, Joined))
      => <>[](applied_to_state[s] = applied_to_state[t])

(* The commands logged by the servers implement Delivery.                  *)
D == INSTANCE Delivery WITH applied <- logged

DeliverySpec == D!Spec

-----------------------------------------------------------------------------
(* The inductive invariant behind KnowledgeSound, RestartLosesNothing and  *)
(* LogCoversLaggards.                                                      *)

Below(matrix, counts) == \A t, o \in Server : matrix[t][o] <= counts[t][o]

SummariesBelow(messages, counts) ==
  \A n \in 1 .. Len(messages) :
    messages[n].type = "KNOWLEDGE" => Below(messages[n].summary, counts)

(* No message on its way claims more than was logged.                      *)
MessagesSound ==
  \A s \in Server : /\ SummariesBelow(mailbox[s], logged)
                    /\ SummariesBelow(outbox[s], logged)

(* What was saved is a state the server was in, and what is safe in the    *)
(* one file is known to all in the other.                                  *)
SavedSound ==
  \A s \in Server :
    /\ Below(inbox_state[s].knowledge, logged)
    /\ inbox_state[s].applied_to_state = inbox_state[s].knowledge[s]
    /\ \A t, o \in Server : log_state[s][o] <= inbox_state[s].knowledge[t][o]

(* safe_delivered only grows, and stays below what s knows of everybody.   *)
SafeSound ==
  \A s \in Server : phase[s] # "down" =>
    \A o \in Server :
      /\ log_state[s][o] <= safe_delivered[s][o]
      /\ \A t \in Server : safe_delivered[s][o] <= knowledge[s][t][o]

(* The log holds what a restart reads: all after the saved safe_delivered. *)
LogComplete ==
  \A s, o \in Server :
    /\ log_files[s][o] \subseteq 1 .. logged[s][o]
    /\ log_state[s][o] + 1 .. logged[s][o] \subseteq log_files[s][o]

(* How far read_log_files() has brought the state.                         *)
LoadingSound ==
  \A s \in Server : phase[s] = "loading" =>
    /\ applied_to_state[s] = knowledge[s][s]
    /\ safe_delivered[s] = log_state[s]
    /\ \A o \in Server : o < cursor[s].origin => applied_to_state[s][o] = logged[s][o]
    /\ LET o == cursor[s].origin
           i == cursor[s].index
       IN  /\ log_state[s][o] < i
           /\ i <= applied_to_state[s][o] + 1

ReplicationInv ==
  /\ TypeOK
  /\ KnowledgeSound
  /\ RestartLosesNothing
  /\ MessagesSound
  /\ SavedSound
  /\ SafeSound
  /\ LogComplete
  /\ LoadingSound

-----------------------------------------------------------------------------
(* What is added to it for DeliverySpec, QueueCoversLaggards and           *)
(* StateFilesNeverRegress.                                                 *)

(* The queue has the commands after "low" up to "high", in order.          *)
Window(queue, low, high) ==
  /\ Len(queue) = high - low
  /\ \A n \in 1 .. Len(queue) : queue[n] = low + n

(* A queue is what was logged after safe_delivered; while read_log_files() *)
(* is at work, as far as it has come.                                      *)
QueueFits(s, o) ==
  /\ s \in Joined => Window(command_queue[s][o], safe_delivered[s][o], logged[s][o])
  /\ phase[s] = "down" => command_queue[s][o] = <<>>
  /\ phase[s] = "loading" =>
       /\ o < cursor[s].origin =>
            Window(command_queue[s][o], safe_delivered[s][o], logged[s][o])
       /\ o = cursor[s].origin =>
            Window(command_queue[s][o], safe_delivered[s][o], cursor[s].index - 1)
       /\ o > cursor[s].origin => command_queue[s][o] = <<>>

QueueExact == \A s, o \in Server : QueueFits(s, o)

(* Nobody has a command that its origin has not logged.                    *)
NoneAhead == \A s, o \in Server : logged[s][o] <= logged[o][o]

Issued ==
  {m \in Message : m.type = "COMMAND" => m.index <= logged[m.origin][m.origin]}

Stashed(s) ==
  {c \in Command : c.origin # s => c.index <= logged[c.origin][c.origin]}

(* Nor is one on its way, or stashed unless by its origin.                 *)
CommandsIssued ==
  \A s \in Server : /\ mailbox[s] \in Seq(Issued)
                    /\ outbox[s] \in Seq(Issued)
                    /\ synch_queue[s] \in Seq(Stashed(s))

(* What a running server knows is not less than what it saved.             *)
SavedBehind ==
  \A s \in Server : phase[s] # "down" => Below(inbox_state[s].knowledge, knowledge[s])

DeliveryInv == QueueExact /\ NoneAhead /\ CommandsIssued /\ SavedBehind

=============================================================================
