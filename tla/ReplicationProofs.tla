-------------------------- MODULE ReplicationProofs --------------------------
(***************************************************************************)
(* Theorems about Replication, for every number of servers, thresholds and *)
(* bounds: its types, its inductive invariant ReplicationInv and what the  *)
(* servers rely on that follows from it, and the command queues, which     *)
(* hold what another server may lack.                                      *)
(***************************************************************************)
EXTENDS Replication, Minimum, TLAPS, FiniteSetTheorems, SequenceTheorems

-----------------------------------------------------------------------------
(* The operators the actions are built from.                               *)

(* What erase_queue_up_to() leaves of a queue is a queue.                  *)
LEMMA EraseUpToType ==
  ASSUME NEW queue \in Seq(Nat), NEW index \in Nat
  PROVE  EraseUpTo(queue, index) \in Seq(Nat)
<1>. DEFINE kept == {n \in 1 .. Len(queue) : queue[n] > index}
<1>0. Len(queue) \in Nat /\ kept \in SUBSET (1 .. Len(queue))
  OBVIOUS
<1>. HIDE DEF kept
<1>1. kept # {} => Min(kept) \in 1 .. Len(queue)
  BY <1>0, MinPosition
<1>2. kept # {} => SubSeq(queue, Min(kept), Len(queue)) \in Seq(Nat)
  BY <1>1
<1>. QED
  BY <1>2 DEF EraseUpTo, kept

(* broadcast_messages_from_queue() sends commands.                         *)
LEMMA MessagesFromType ==
  ASSUME NEW queue \in Seq(Nat), NEW o \in Server, NEW start
  PROVE  MessagesFrom(queue, o, start) \in Seq(Command)
<1>. DEFINE found == {n \in 1 .. Len(queue) : queue[n] = start + 1}
            len == Len(queue) - Min(found) + 1
<1>1. CASE found = {}
  BY <1>1 DEF MessagesFrom
<1>2. CASE found # {}
  <2>0. Len(queue) \in Nat /\ found \in SUBSET (1 .. Len(queue))
    OBVIOUS
  <2>. HIDE DEF found
  <2>1. Min(found) \in 1 .. Len(queue)
    BY <1>2, <2>0, MinPosition
  <2>2. len \in Nat
    BY <2>1
  <2>3. \A n \in 1 .. len : CommandMessage(o, queue[Min(found) + n - 1]) \in Command
    BY <2>1 DEF CommandMessage, Command
  <2>. HIDE DEF len
  <2>4. [n \in 1 .. len |-> CommandMessage(o, queue[Min(found) + n - 1])] \in Seq(Command)
    BY <2>2, <2>3
  <2>. QED
    BY <1>2, <2>4 DEF MessagesFrom, len, found
<1>. QED
  BY <1>1, <1>2

LEMMA ServerNonempty == 0 \in Server
BY NMachinesAssumption DEF Server

(* The least value in a nonempty set of entries of a table of naturals.    *)
LEMMA MinEntry ==
  ASSUME NEW f, NEW S \in SUBSET Server, S # {}, \A t \in S : f[t] \in Nat
  PROVE  /\ Min({f[t] : t \in S}) \in Nat
         /\ \A t \in S : Min({f[u] : u \in S}) <= f[t]
         /\ \E t \in S : Min({f[u] : u \in S}) = f[t]
<1>. DEFINE values == {f[t] : t \in S}
<1>1. values \in SUBSET Nat /\ values # {} /\ \A t \in S : f[t] \in values
  OBVIOUS
<1>2. \A v \in values : \E t \in S : v = f[t]
  OBVIOUS
<1>. HIDE DEF values
<1>3. /\ Min(values) \in values
      /\ Min(values) \in Nat
      /\ \A x \in values : Min(values) <= x
  BY <1>1, MinProperty
<1>. QED
  BY <1>1, <1>2, <1>3 DEF values

(* The number of entries of the matrix that an update raises is a natural. *)
LEMMA EntriesFinite ==
  ASSUME NEW S \in SUBSET (Server \X Server)
  PROVE  Cardinality(S) \in Nat
<1>1. 0 \in Int /\ N_MACHINES - 1 \in Int
  BY NMachinesAssumption
<1>2. IsFiniteSet(Server)
  BY <1>1, FS_Interval DEF Server
<1>3. IsFiniteSet(Server \X Server)
  BY <1>2, FS_Product
<1>. QED
  BY <1>3, FS_Subset, FS_CardinalityType

(* What a server reads is a message.                                       *)
LEMMA ReadType ==
  ASSUME TypeOK, NEW s \in Server, mailbox[s] # <<>>
  PROVE  /\ Head(mailbox[s]) \in Message
         /\ Tail(mailbox[s]) \in Seq(Message)
         /\ ReadNext(s) => mailbox' \in [Server -> Seq(Message)]
<1>1. mailbox \in [Server -> Seq(Message)] /\ mailbox[s] \in Seq(Message)
  BY DEF TypeOK, NetTypeOK
<1>2. Head(mailbox[s]) \in Message /\ Tail(mailbox[s]) \in Seq(Message)
  BY <1>1, HeadTailProperties
<1>. QED
  BY <1>1, <1>2 DEF ReadNext

(* What a server multicasts joins its outbox.                              *)
LEMMA MulticastType ==
  ASSUME TypeOK, NEW s \in Server, NEW messages \in Seq(Multicasts),
         Multicast(s, messages)
  PROVE  outbox' \in [Server -> Seq(Multicasts)]
<1>1. outbox \in [Server -> Seq(Multicasts)] /\ outbox[s] \in Seq(Multicasts)
  BY DEF TypeOK, NetTypeOK
<1>2. outbox[s] \o messages \in Seq(Multicasts)
  BY <1>1, ConcatProperties
<1>. QED
  BY <1>1, <1>2 DEF Multicast

-----------------------------------------------------------------------------
(* Type correctness.                                                       *)

LEMMA CommandMessageType ==
  ASSUME NEW o \in Server, NEW i \in Nat
  PROVE  CommandMessage(o, i) \in Command /\ CommandMessage(o, i) \in Multicasts
BY DEF CommandMessage, Command, Multicasts

LEMMA KnowledgeMessageType ==
  ASSUME NEW s \in Server, NEW matrix \in Knowledge
  PROVE  KnowledgeMessage(s, matrix) \in Multicasts
BY DEF KnowledgeMessage, Multicasts

LEMMA BumpType ==
  ASSUME NEW counts \in Counts, NEW o \in Server
  PROVE  [counts EXCEPT ![o] = @ + 1] \in Counts
BY DEF Counts

(* Applying a command keeps the types of memory and state files.           *)
LEMMA ApplyCommandToStateType ==
  ASSUME TypeOK, NEW s \in Server, NEW o \in Server, NEW i \in Nat,
         ApplyCommandToState(s, o, i)
  PROVE  /\ MemoryTypeOK'
         /\ inbox_state' \in [Server -> Saved]
         /\ log_state' \in [Server -> Counts]
<1>. USE DEF TypeOK, MemoryTypeOK, DiskTypeOK
<1>1. /\ knowledge' \in [Server -> Knowledge]
      /\ applied_to_state' \in [Server -> Counts]
  <2>. DEFINE row == [knowledge[s][s] EXCEPT ![o] = @ + 1]
              matrix == [knowledge[s] EXCEPT ![s] = row]
  <2>1. row \in [Server -> Nat]
    <3>1. knowledge[s][s] \in Counts
      BY DEF Knowledge, Counts
    <3>. QED
      BY <3>1, BumpType DEF Counts
  <2>2. matrix \in Knowledge
    <3>. HIDE DEF row
    <3>. QED
      BY <2>1 DEF Knowledge
  <2>3. knowledge' = [knowledge EXCEPT ![s] = matrix]
    BY DEF ApplyCommandToState
  <2>4. knowledge' \in [Server -> Knowledge]
    <3>. HIDE DEF matrix
    <3>. QED
      BY <2>2, <2>3
  <2>5. applied_to_state' \in [Server -> Counts]
    <3>. DEFINE counts == [applied_to_state[s] EXCEPT ![o] = @ + 1]
    <3>1. counts \in Counts
      BY BumpType
    <3>2. applied_to_state' = [applied_to_state EXCEPT ![s] = counts]
      BY DEF ApplyCommandToState
    <3>. HIDE DEF counts
    <3>. QED
      BY <3>1, <3>2
  <2>. QED
    BY <2>4, <2>5
<1>2. command_queue' \in [Server -> [Server -> Seq(Nat)]]
  <2>1. Append(command_queue[s][o], i) \in Seq(Nat)
    BY AppendProperties
  <2>. QED
    BY <2>1 DEF ApplyCommandToState
<1>3. updates_since_serialize' \in [Server -> 0 .. MAX_UPDATES_BW_SERIALIZE - 1]
  <2>1. updates_since_serialize \in [Server -> 0 .. MAX_UPDATES_BW_SERIALIZE - 1]
    OBVIOUS
  <2>2. CASE Serializes(s)
    <3>1. 0 \in 0 .. MAX_UPDATES_BW_SERIALIZE - 1
      BY ThresholdAssumption
    <3>2. updates_since_serialize' = [updates_since_serialize EXCEPT ![s] = 0]
      BY <2>2 DEF ApplyCommandToState
    <3>. QED
      BY <2>1, <3>1, <3>2
  <2>3. CASE ~ Serializes(s)
    <3>1. updates_since_serialize[s] + 1 \in 0 .. MAX_UPDATES_BW_SERIALIZE - 1
      BY <2>1, <2>3, ThresholdAssumption DEF Serializes
    <3>2. updates_since_serialize' = [updates_since_serialize EXCEPT ![s] = @ + 1]
      BY <2>3 DEF ApplyCommandToState
    <3>. QED
      BY <2>1, <3>1, <3>2
  <2>. QED
    BY <2>2, <2>3
<1>4. /\ safe_delivered' \in [Server -> Counts]
      /\ current_block' \in [Server -> Counts]
      /\ changes_since_garbage_collection' \in [Server -> 0 .. MAX_CHANGES_BW_GARBAGE - 1]
  BY DEF ApplyCommandToState
<1>5. /\ inbox_state' \in [Server -> Saved]
      /\ log_state' \in [Server -> Counts]
  <2>1. knowledge'[s] \in Knowledge /\ applied_to_state'[s] \in Counts
    BY <1>1
  <2>2. CASE Serializes(s)
    <3>1. [knowledge |-> knowledge'[s], applied_to_state |-> applied_to_state'[s]] \in Saved
      BY <2>1 DEF Saved
    <3>2. WriteState(s)
      BY <2>2 DEF ApplyCommandToState
    <3>. QED
      BY <3>1, <3>2 DEF WriteState
  <2>3. CASE ~ Serializes(s)
    BY <2>3 DEF ApplyCommandToState, stateFiles
  <2>. QED
    BY <2>2, <2>3
<1>. QED
  BY <1>1, <1>2, <1>3, <1>4, <1>5

LEMMA ApplyNewCommandType ==
  ASSUME TypeOK, NEW s \in Server, NEW o \in Server, NEW i \in Nat,
         ApplyNewCommand(s, o, i)
  PROVE  MemoryTypeOK' /\ DiskTypeOK' /\ outbox' \in [Server -> Seq(Multicasts)]
<1>1. CASE IsNext(s, o, i)
  <2>1. /\ WriteCommandToLog(s, o, i)
        /\ ApplyCommandToState(s, o, i)
        /\ Multicast(s, Broadcasts(s, o, i))
    BY <1>1 DEF ApplyNewCommand
  <2>2. /\ MemoryTypeOK'
        /\ inbox_state' \in [Server -> Saved]
        /\ log_state' \in [Server -> Counts]
    BY <2>1, ApplyCommandToStateType
  <2>3. /\ log_files' \in [Server -> [Server -> SUBSET Nat]]
        /\ logged' \in [Server -> Counts]
    BY <2>1 DEF WriteCommandToLog, TypeOK, DiskTypeOK, Counts
  <2>4. Broadcasts(s, o, i) \in Seq(Multicasts)
    <3>1. knowledge'[s] \in Knowledge
      BY <2>2 DEF MemoryTypeOK
    <3>2. KnowledgeMessage(s, knowledge'[s]) \in Multicasts
      BY <3>1, KnowledgeMessageType
    <3>3. CommandMessage(o, i) \in Multicasts
      BY CommandMessageType
    <3>. QED
      BY <3>2, <3>3, ConcatProperties DEF Broadcasts
  <2>. QED
    BY <2>1, <2>2, <2>3, <2>4, MulticastType DEF DiskTypeOK
<1>2. CASE ~ IsNext(s, o, i)
  <2>1. UNCHANGED <<memoryVars, diskVars, outbox>>
    BY <1>2 DEF ApplyNewCommand
  <2>. QED
    BY <2>1 DEF memoryVars, diskVars, TypeOK, NetTypeOK, MemoryTypeOK, DiskTypeOK
<1>. QED
  BY <1>1, <1>2

(* The matrix update_knowledge() makes of the summary it reads.            *)
Learned(s, summary) ==
  [t \in Server |-> [o \in Server |->
    IF summary[t][o] > knowledge[s][t][o] THEN summary[t][o] ELSE knowledge[s][t][o]]]

LEMMA UpdateKnowledgeMatrix ==
  ASSUME TypeOK, NEW s \in Server, NEW summary \in Knowledge,
         UpdateKnowledge(s, summary)
  PROVE  /\ Learned(s, summary) \in Knowledge
         /\ knowledge' = [knowledge EXCEPT ![s] = Learned(s, summary)]
<1>1. knowledge[s] \in Knowledge
  BY DEF TypeOK, MemoryTypeOK
<1>2. Learned(s, summary) \in Knowledge
  BY <1>1 DEF Learned, Knowledge
<1>3. \A t, o \in Server :
        <<t, o>> \in Raised(s, summary) <=> summary[t][o] > knowledge[s][t][o]
  BY DEF Raised
<1>. QED
  BY <1>2, <1>3 DEF UpdateKnowledge, Learned

LEMMA BlockType ==
  ASSUME NEW i \in Nat
  PROVE  Block(i) \in Nat
BY ThresholdAssumption DEF Block

(* Garbage collection keeps the types of what it changes.                  *)
LEMMA CollectGarbageType ==
  ASSUME TypeOK, NEW s \in Server, NEW matrix \in Knowledge, CollectGarbage(s, matrix)
  PROVE  /\ safe_delivered' \in [Server -> Counts]
         /\ command_queue' \in [Server -> [Server -> Seq(Nat)]]
         /\ current_block' \in [Server -> Counts]
         /\ log_files' \in [Server -> [Server -> SUBSET Nat]]
         /\ inbox_state' \in [Server -> Saved]
         /\ log_state' \in [Server -> Counts]
<1>. DEFINE safe == [o \in Server |-> SafeIndex(matrix, o)]
            changes(o) == BlockChanges(command_queue[s][o], safe[o], current_block[s][o])
            changed == {o \in Server : changes(o) # {}}
            removed(o) == current_block[s][o] .. Block(command_queue[s][o][Min(changes(o))]) - 1
            queues == [o \in Server |-> EraseUpTo(command_queue[s][o], safe[o])]
            blocks == [o \in Server |-> IF o \in changed THEN Block(safe[o])
                                        ELSE current_block[s][o]]
            files == [o \in Server |->
                       IF o \in changed
                       THEN {i \in log_files[s][o] : Block(i) \notin removed(o)}
                       ELSE log_files[s][o]]
            saved == [o \in Server |-> IF o <= Max(changed) THEN safe[o]
                                       ELSE safe_delivered[s][o]]
<1>. USE DEF TypeOK, MemoryTypeOK, DiskTypeOK
<1>1. safe \in Counts
  <2>1. ASSUME NEW o \in Server
        PROVE  SafeIndex(matrix, o) \in Nat
    <3>. DEFINE column == {matrix[t][o] : t \in Server}
    <3>1. column \in SUBSET Nat
      BY DEF Knowledge
    <3>2. column # {}
      BY ServerNonempty, ZenonT(30)
    <3>. HIDE DEF column
    <3>3. Min(column) \in Nat
      BY <3>1, <3>2, MinProperty
    <3>. QED
      BY <3>3 DEF column, SafeIndex
  <2>. QED
    BY <2>1 DEF Counts
<1>2. /\ safe_delivered' = [safe_delivered EXCEPT ![s] = safe]
      /\ command_queue' = [command_queue EXCEPT ![s] = queues]
      /\ current_block' = [current_block EXCEPT ![s] = blocks]
      /\ log_files' = [log_files EXCEPT ![s] = files]
      /\ \/ UNCHANGED stateFiles
         \/ /\ inbox_state' = [inbox_state EXCEPT ![s] =
                                [knowledge |-> matrix,
                                 applied_to_state |-> applied_to_state[s]]]
            /\ log_state' = [log_state EXCEPT ![s] = saved]
  BY DEF CollectGarbage
<1>. HIDE DEF safe
<1>3. queues \in [Server -> Seq(Nat)]
  <2>1. ASSUME NEW o \in Server
        PROVE  EraseUpTo(command_queue[s][o], safe[o]) \in Seq(Nat)
    <3>1. command_queue[s][o] \in Seq(Nat) /\ safe[o] \in Nat
      BY <1>1 DEF Counts
    <3>. QED
      BY <3>1, EraseUpToType
  <2>. QED
    BY <2>1
<1>. HIDE DEF changes, changed, removed
<1>4. blocks \in Counts
  <2>1. ASSUME NEW o \in Server
        PROVE  Block(safe[o]) \in Nat /\ current_block[s][o] \in Nat
    <3>1. safe[o] \in Nat
      BY <1>1 DEF Counts
    <3>. QED
      BY <3>1, BlockType DEF Counts
  <2>. QED
    BY <2>1 DEF Counts
<1>5. files \in [Server -> SUBSET Nat]
  OBVIOUS
<1>6. saved \in Counts
  BY <1>1 DEF Counts
<1>7. [knowledge |-> matrix, applied_to_state |-> applied_to_state[s]] \in Saved
  BY DEF Saved
<1>. HIDE DEF queues, blocks, files, saved
<1>8. /\ safe_delivered' \in [Server -> Counts]
      /\ current_block' \in [Server -> Counts]
  BY <1>1, <1>2, <1>4
<1>9. /\ command_queue' \in [Server -> [Server -> Seq(Nat)]]
      /\ log_files' \in [Server -> [Server -> SUBSET Nat]]
  BY <1>2, <1>3, <1>5
<1>10. inbox_state' \in [Server -> Saved] /\ log_state' \in [Server -> Counts]
  <2>1. inbox_state \in [Server -> Saved] /\ log_state \in [Server -> Counts]
    OBVIOUS
  <2>. HIDE DEF TypeOK, MemoryTypeOK, DiskTypeOK
  <2>2. CASE UNCHANGED stateFiles
    BY <2>1, <2>2 DEF stateFiles
  <2>3. CASE ~ UNCHANGED stateFiles
    BY <1>2, <1>6, <1>7, <2>1, <2>3
  <2>. QED
    BY <2>2, <2>3
<1>. QED
  BY <1>8, <1>9, <1>10

LEMMA UpdateKnowledgeType ==
  ASSUME TypeOK, NEW s \in Server, NEW summary \in Knowledge,
         UpdateKnowledge(s, summary)
  PROVE  MemoryTypeOK' /\ DiskTypeOK'
<1>. DEFINE changes == changes_since_garbage_collection[s]
                         + Cardinality(Raised(s, summary)) + 1
<1>1. /\ knowledge' = [knowledge EXCEPT ![s] = Learned(s, summary)]
      /\ Learned(s, summary) \in Knowledge
  BY UpdateKnowledgeMatrix
<1>2. knowledge' \in [Server -> Knowledge]
  BY <1>1 DEF TypeOK, MemoryTypeOK
<1>3. UNCHANGED <<applied_to_state, updates_since_serialize, logged>>
  BY DEF UpdateKnowledge
<1>4. CASE changes >= MAX_CHANGES_BW_GARBAGE
  <2>1. /\ CollectGarbage(s, Learned(s, summary))
        /\ changes_since_garbage_collection' =
             [changes_since_garbage_collection EXCEPT ![s] = 0]
    BY <1>4 DEF UpdateKnowledge, Learned, Raised
  <2>2. 0 \in 0 .. MAX_CHANGES_BW_GARBAGE - 1
    BY ThresholdAssumption
  <2>. QED
    BY <1>1, <1>2, <1>3, <2>1, <2>2, CollectGarbageType
    DEF TypeOK, MemoryTypeOK, DiskTypeOK
<1>5. CASE ~ (changes >= MAX_CHANGES_BW_GARBAGE)
  <2>1. Cardinality(Raised(s, summary)) \in Nat
    BY EntriesFinite DEF Raised
  <2>2. changes \in 0 .. MAX_CHANGES_BW_GARBAGE - 1
    BY <1>5, <2>1, ThresholdAssumption DEF TypeOK, MemoryTypeOK
  <2>3. /\ UNCHANGED <<safe_delivered, command_queue, current_block, log_files, stateFiles>>
        /\ changes_since_garbage_collection' =
             [changes_since_garbage_collection EXCEPT ![s] = changes]
    BY <1>5 DEF UpdateKnowledge
  <2>. HIDE DEF changes
  <2>. QED
    BY <1>2, <1>3, <2>2, <2>3 DEF TypeOK, MemoryTypeOK, DiskTypeOK, stateFiles
<1>. QED
  BY <1>4, <1>5

LEMMA InitType == Init => TypeOK
<1>. SUFFICES ASSUME Init
              PROVE  TypeOK
  OBVIOUS
<1>1. Zeros \in Counts /\ [t \in Server |-> Zeros] \in Knowledge
  BY DEF Zeros, Counts, Knowledge
<1>2. NetTypeOK
  BY InitialPartitionAssumption DEF Init, NetInit, NetTypeOK
<1>3. MemoryTypeOK
  <2>1. 0 \in 0 .. MAX_UPDATES_BW_SERIALIZE - 1
    BY ThresholdAssumption
  <2>2. [o \in Server |-> Block(1)] \in Counts
    BY BlockType DEF Counts
  <2>. QED
    BY <1>1, <2>1, <2>2 DEF Init, MemoryTypeOK
<1>4. SynchTypeOK
  <2>1. [origin |-> 0, index |-> 0] \in [origin : Server, index : Nat]
    BY ServerNonempty
  <2>2. "main" \in Phase
    BY DEF Phase
  <2>. QED
    BY <2>1, <2>2, InitialPartitionAssumption DEF Init, SynchTypeOK
<1>5. DiskTypeOK
  <2>1. [knowledge |-> [t \in Server |-> Zeros], applied_to_state |-> Zeros] \in Saved
    BY <1>1 DEF Saved
  <2>. QED
    BY <1>1, <2>1 DEF Init, DiskTypeOK
<1>. QED
  BY <1>2, <1>3, <1>4, <1>5 DEF Init, TypeOK

(* Every step keeps the types.                                             *)
LEMMA NextType == TypeOK /\ [Next]_vars => TypeOK'
<1>. SUFFICES ASSUME TypeOK, [Next]_vars
              PROVE  TypeOK'
  OBVIOUS
<1>. USE DEF TypeOK
<1>. DEFINE Counters == net_changes' \in Nat /\ crashes' \in Nat
<1>1. ASSUME NEW s \in Server, NewCommand(s)
      PROVE  TypeOK'
  <2>1. ApplyNewCommand(s, s, knowledge[s][s][s] + 1)
    BY <1>1 DEF NewCommand
  <2>2. knowledge[s][s][s] + 1 \in Nat
    BY DEF MemoryTypeOK, Knowledge
  <2>3. MemoryTypeOK' /\ DiskTypeOK' /\ outbox' \in [Server -> Seq(Multicasts)]
    BY <2>1, <2>2, ApplyNewCommandType
  <2>4. UNCHANGED <<phase, synchVars, synch_queue, cursor, boundVars,
                    component, view, mailbox>>
    BY <1>1 DEF NewCommand
  <2>. QED
    BY <2>3, <2>4 DEF NetTypeOK, SynchTypeOK, synchVars, boundVars
<1>2. ASSUME NEW s \in Server, StashCommand(s)
      PROVE  TypeOK'
  <2>1. knowledge[s][s][s] + 1 \in Nat
    BY DEF MemoryTypeOK, Knowledge
  <2>2. CommandMessage(s, knowledge[s][s][s] + 1) \in Command
    BY <2>1, CommandMessageType
  <2>3. synch_queue' = [synch_queue EXCEPT ![s] =
                         Append(@, CommandMessage(s, knowledge[s][s][s] + 1))]
    BY <1>2 DEF StashCommand
  <2>4. synch_queue' \in [Server -> Seq(Command)]
    BY <2>2, <2>3, AppendProperties DEF SynchTypeOK
  <2>5. UNCHANGED <<memoryVars, diskVars, phase, synchVars, cursor, boundVars, netVars>>
    BY <1>2 DEF StashCommand
  <2>. QED
    BY <2>4, <2>5 DEF NetTypeOK, MemoryTypeOK, SynchTypeOK, DiskTypeOK,
                      memoryVars, diskVars, synchVars, boundVars, netVars
<1>3. ASSUME NEW s \in Server, ReadCommand(s)
      PROVE  TypeOK'
  <2>1. mailbox[s] # <<>> /\ Head(mailbox[s]).type = "COMMAND" /\ ReadNext(s)
    BY <1>3 DEF ReadCommand, NextIs
  <2>2. Head(mailbox[s]) \in Message /\ mailbox' \in [Server -> Seq(Message)]
    BY <2>1, ReadType
  <2>3. Head(mailbox[s]) \in Command
    BY <2>1, <2>2 DEF Message, Multicasts, Membership
  <2>4. UNCHANGED <<phase, synchVars, cursor, boundVars, component, view>>
    BY <1>3 DEF ReadCommand
  <2>5. CASE /\ ApplyNewCommand(s, Head(mailbox[s]).origin, Head(mailbox[s]).index)
             /\ UNCHANGED synch_queue
    <3>1. MemoryTypeOK' /\ DiskTypeOK' /\ outbox' \in [Server -> Seq(Multicasts)]
      BY <2>3, <2>5, ApplyNewCommandType DEF Command
    <3>. QED
      BY <2>2, <2>4, <2>5, <3>1 DEF NetTypeOK, SynchTypeOK, synchVars, boundVars
  <2>6. CASE /\ synch_queue' = [synch_queue EXCEPT ![s] = Append(@, Head(mailbox[s]))]
             /\ UNCHANGED <<memoryVars, diskVars, outbox>>
    <3>1. synch_queue' \in [Server -> Seq(Command)]
      BY <2>3, <2>6, AppendProperties DEF SynchTypeOK
    <3>. QED
      BY <2>2, <2>4, <2>6, <3>1 DEF NetTypeOK, MemoryTypeOK, SynchTypeOK, DiskTypeOK,
                                    memoryVars, diskVars, synchVars, boundVars
  <2>. QED
    BY <1>3, <2>5, <2>6 DEF ReadCommand
<1>4. ASSUME NEW s \in Server, ReadKnowledge(s)
      PROVE  TypeOK'
  <2>1. mailbox[s] # <<>> /\ Head(mailbox[s]).type = "KNOWLEDGE" /\ ReadNext(s)
    BY <1>4 DEF ReadKnowledge, NextIs
  <2>2. Head(mailbox[s]) \in Message /\ mailbox' \in [Server -> Seq(Message)]
    BY <2>1, ReadType
  <2>3. Head(mailbox[s]).summary \in Knowledge
    BY <2>1, <2>2 DEF Message, Multicasts, Membership, Command
  <2>4. MemoryTypeOK' /\ DiskTypeOK'
    BY <1>4, <2>3, UpdateKnowledgeType DEF ReadKnowledge
  <2>5. received' \in [Server -> SUBSET Server]
    <3>. DEFINE marked == received[s] \cup ({Head(mailbox[s]).sender} \cap synch_members[s])
    <3>1. marked \in SUBSET Server
      BY DEF SynchTypeOK
    <3>2. received' = received \/ received' = [received EXCEPT ![s] = marked]
      BY <1>4 DEF ReadKnowledge
    <3>. HIDE DEF marked
    <3>. QED
      BY <3>1, <3>2 DEF SynchTypeOK
  <2>6. UNCHANGED <<phase, synch_members, need_to_send, synch_queue, cursor,
                    boundVars, component, view, outbox>>
    BY <1>4 DEF ReadKnowledge
  <2>. QED
    BY <2>2, <2>4, <2>5, <2>6 DEF NetTypeOK, SynchTypeOK, boundVars
<1>5. ASSUME NEW s \in Server, ReadMembership(s)
      PROVE  TypeOK'
  <2>1. mailbox[s] # <<>> /\ Head(mailbox[s]).type = "MEMBERSHIP" /\ ReadNext(s)
    BY <1>5 DEF ReadMembership, NextIs
  <2>2. Head(mailbox[s]) \in Message /\ mailbox' \in [Server -> Seq(Message)]
    BY <2>1, ReadType
  <2>3. Head(mailbox[s]).members \in SUBSET Server
    BY <2>1, <2>2 DEF Message, Multicasts, Membership, Command
  <2>4. knowledge[s] \in Knowledge
    BY DEF MemoryTypeOK
  <2>5. <<KnowledgeMessage(s, knowledge[s])>> \in Seq(Multicasts)
    BY <2>4, KnowledgeMessageType
  <2>6. outbox' \in [Server -> Seq(Multicasts)]
    BY <1>5, <2>5, MulticastType DEF ReadMembership
  <2>7. /\ synch_members' \in [Server -> SUBSET Server]
        /\ received' \in [Server -> SUBSET Server]
        /\ phase' \in [Server -> Phase]
    BY <1>5, <2>3 DEF ReadMembership, SynchTypeOK, Phase
  <2>8. UNCHANGED <<memoryVars, diskVars, need_to_send, synch_queue, cursor,
                    boundVars, component, view>>
    BY <1>5 DEF ReadMembership
  <2>. QED
    BY <2>2, <2>6, <2>7, <2>8 DEF NetTypeOK, MemoryTypeOK, SynchTypeOK, DiskTypeOK,
                                  memoryVars, diskVars, boundVars
<1>6. ASSUME NEW s \in Server, FinishWaiting(s)
      PROVE  TypeOK'
  <2>1. /\ need_to_send' \in [Server -> SUBSET Server]
        /\ phase' \in [Server -> Phase]
    BY <1>6 DEF FinishWaiting, Finishing, MySynchServers, SynchTypeOK, Phase
  <2>2. UNCHANGED <<memoryVars, diskVars, synch_members, received, synch_queue,
                    cursor, boundVars, netVars>>
    BY <1>6 DEF FinishWaiting
  <2>. QED
    BY <2>1, <2>2 DEF NetTypeOK, MemoryTypeOK, SynchTypeOK, DiskTypeOK,
                      memoryVars, diskVars, boundVars, netVars
<1>7. ASSUME NEW s \in Server, SendSynchCommands(s)
      PROVE  TypeOK'
  <2>. DEFINE o == Min(need_to_send[s])
  <2>1. o \in Server
    <3>1. need_to_send[s] \in SUBSET Server /\ need_to_send[s] # {}
      BY <1>7 DEF SendSynchCommands, SynchTypeOK
    <3>2. Server \subseteq Nat
      BY NMachinesAssumption DEF Server
    <3>3. need_to_send[s] \in SUBSET Nat
      BY <3>1, <3>2
    <3>. QED
      BY <3>1, <3>3, MinProperty
  <2>. HIDE DEF o
  <2>2. command_queue[s][o] \in Seq(Nat)
    BY <2>1 DEF MemoryTypeOK
  <2>3. SynchCommands(s, o) \in Seq(Command)
    BY <2>1, <2>2, MessagesFromType DEF SynchCommands
  <2>4. SynchCommands(s, o) \in Seq(Multicasts)
    BY <2>3 DEF Multicasts
  <2>5. Multicast(s, SynchCommands(s, o))
    BY <1>7 DEF SendSynchCommands, o
  <2>6. outbox' \in [Server -> Seq(Multicasts)]
    BY <2>4, <2>5, MulticastType
  <2>7. /\ need_to_send' \in [Server -> SUBSET Server]
        /\ phase' \in [Server -> Phase]
    BY <1>7 DEF SendSynchCommands, Finishing, SynchTypeOK, Phase
  <2>8. UNCHANGED <<memoryVars, diskVars, synch_members, received, synch_queue,
                    cursor, boundVars, component, view, mailbox>>
    BY <1>7 DEF SendSynchCommands
  <2>. QED
    BY <2>6, <2>7, <2>8 DEF NetTypeOK, MemoryTypeOK, SynchTypeOK, DiskTypeOK,
                            memoryVars, diskVars, boundVars
<1>8. ASSUME NEW s \in Server, ApplyQueuedUpdate(s)
      PROVE  TypeOK'
  <2>1. synch_queue[s] \in Seq(Command) /\ synch_queue[s] # <<>>
    BY <1>8 DEF ApplyQueuedUpdate, SynchTypeOK
  <2>2. Head(synch_queue[s]) \in Command /\ Tail(synch_queue[s]) \in Seq(Command)
    BY <2>1, HeadTailProperties
  <2>3. synch_queue' \in [Server -> Seq(Command)] /\ phase' \in [Server -> Phase]
    BY <1>8, <2>2 DEF ApplyQueuedUpdate, Finishing, SynchTypeOK, Phase
  <2>4. MemoryTypeOK' /\ DiskTypeOK' /\ outbox' \in [Server -> Seq(Multicasts)]
    BY <1>8, <2>2, ApplyNewCommandType DEF ApplyQueuedUpdate, Command
  <2>5. UNCHANGED <<synchVars, cursor, boundVars, component, view, mailbox>>
    BY <1>8 DEF ApplyQueuedUpdate
  <2>. QED
    BY <2>3, <2>4, <2>5 DEF NetTypeOK, SynchTypeOK, synchVars, boundVars
<1>9. ASSUME NEW s \in Server, Crash(s)
      PROVE  TypeOK'
  <2>1. Zeros \in Counts /\ [t \in Server |-> Zeros] \in Knowledge
    BY DEF Zeros, Counts, Knowledge
  <2>2. 0 \in 0 .. MAX_UPDATES_BW_SERIALIZE - 1 /\ 0 \in 0 .. MAX_CHANGES_BW_GARBAGE - 1
    BY ThresholdAssumption
  <2>3. MemoryTypeOK'
    BY <1>9, <2>1, <2>2 DEF Crash, MemoryTypeOK
  <2>4. SynchTypeOK'
    BY <1>9 DEF Crash, SynchTypeOK, Phase
  <2>5. DiskTypeOK' /\ net_changes' \in Nat /\ crashes' \in Nat
    BY <1>9 DEF Crash, DiskTypeOK, diskVars
  <2>6. NetTypeOK'
    BY <1>9 DEF Crash, Disconnect, NetTypeOK
  <2>. QED
    BY <2>3, <2>4, <2>5, <2>6
<1>10. ASSUME NEW s \in Server, Restart(s)
       PROVE  TypeOK'
  <2>1. /\ inbox_state[s].knowledge \in Knowledge
        /\ inbox_state[s].applied_to_state \in Counts
        /\ log_state[s] \in Counts
    BY DEF DiskTypeOK, Saved
  <2>2. [o \in Server |-> Block(log_state[s][o] + 1)] \in Counts
    <3>1. ASSUME NEW o \in Server
          PROVE  Block(log_state[s][o] + 1) \in Nat
      <4>1. log_state[s][o] + 1 \in Nat
        BY <2>1 DEF Counts
      <4>. QED
        BY <4>1, BlockType
    <3>. QED
      BY <3>1 DEF Counts
  <2>3. [origin |-> 0, index |-> log_state[s][0] + 1] \in [origin : Server, index : Nat]
    BY <2>1, ServerNonempty DEF Counts
  <2>4. UNCHANGED <<command_queue, updates_since_serialize,
                    changes_since_garbage_collection, synchVars, synch_queue,
                    diskVars, boundVars, netVars>>
    BY <1>10 DEF Restart
  <2>5. MemoryTypeOK'
    BY <1>10, <2>1, <2>2, <2>4 DEF Restart, MemoryTypeOK
  <2>6. SynchTypeOK'
    BY <1>10, <2>3, <2>4 DEF Restart, SynchTypeOK, Phase, synchVars
  <2>. QED
    BY <2>4, <2>5, <2>6 DEF DiskTypeOK, NetTypeOK, diskVars, boundVars, netVars
<1>11. ASSUME NEW s \in Server, ReplayLogRecord(s)
       PROVE  TypeOK'
  <2>. DEFINE o == cursor[s].origin
              i == cursor[s].index
  <2>1. o \in Server /\ i \in Nat
    BY DEF SynchTypeOK
  <2>2. UNCHANGED <<log_files, logged, phase, synchVars, synch_queue, boundVars, netVars>>
    BY <1>11 DEF ReplayLogRecord
  <2>3. cursor' \in [Server -> [origin : Server, index : Nat]]
    <3>1. cursor[s] \in [origin : Server, index : Nat]
      BY DEF SynchTypeOK
    <3>2. [cursor[s] EXCEPT !.index = @ + 1] \in [origin : Server, index : Nat]
      BY <3>1
    <3>3. cursor' = [cursor EXCEPT ![s] = [cursor[s] EXCEPT !.index = @ + 1]]
      BY <1>11 DEF ReplayLogRecord
    <3>. QED
      BY <3>2, <3>3 DEF SynchTypeOK
  <2>4. SynchTypeOK' /\ NetTypeOK' /\ net_changes' \in Nat /\ crashes' \in Nat
    BY <2>2, <2>3 DEF SynchTypeOK, NetTypeOK, synchVars, boundVars, netVars
  <2>. HIDE DEF o, i
  <2>5. CASE ApplyCommandToState(s, o, i)
    <3>1. /\ MemoryTypeOK'
          /\ inbox_state' \in [Server -> Saved]
          /\ log_state' \in [Server -> Counts]
      BY <2>1, <2>5, ApplyCommandToStateType
    <3>. QED
      BY <2>2, <2>4, <3>1 DEF DiskTypeOK
  <2>6. CASE /\ command_queue' = [command_queue EXCEPT ![s][o] = Append(@, i)]
             /\ UNCHANGED <<knowledge, applied_to_state, safe_delivered, current_block,
                            updates_since_serialize, changes_since_garbage_collection,
                            stateFiles>>
    <3>1. Append(command_queue[s][o], i) \in Seq(Nat)
      BY <2>1, AppendProperties DEF MemoryTypeOK
    <3>2. command_queue' \in [Server -> [Server -> Seq(Nat)]]
      BY <2>6, <3>1 DEF MemoryTypeOK
    <3>. QED
      BY <2>2, <2>4, <2>6, <3>2 DEF MemoryTypeOK, DiskTypeOK, stateFiles
  <2>. QED
    BY <1>11, <2>5, <2>6 DEF ReplayLogRecord, o, i
<1>12. ASSUME NEW s \in Server, NextLog(s)
       PROVE  TypeOK'
  <2>1. UNCHANGED <<memoryVars, diskVars, synchVars, synch_queue, boundVars, netVars>>
    BY <1>12 DEF NextLog
  <2>. DEFINE next == [origin |-> cursor[s].origin + 1,
                       index |-> safe_delivered[s][cursor[s].origin + 1] + 1]
              none == [origin |-> 0, index |-> 0]
  <2>2. cursor[s].origin + 1 \in Server => next \in [origin : Server, index : Nat]
    <3>1. safe_delivered[s] \in Counts
      BY DEF MemoryTypeOK
    <3>. QED
      BY <3>1 DEF Counts
  <2>3. none \in [origin : Server, index : Nat]
    BY ServerNonempty
  <2>4. \/ /\ cursor[s].origin + 1 \in Server
           /\ cursor' = [cursor EXCEPT ![s] = next]
           /\ UNCHANGED phase
        \/ /\ phase' = [phase EXCEPT ![s] = "main"]
           /\ cursor' = [cursor EXCEPT ![s] = none]
    BY <1>12 DEF NextLog
  <2>. HIDE DEF next, none
  <2>5. cursor' \in [Server -> [origin : Server, index : Nat]] /\ phase' \in [Server -> Phase]
    <3>1. cursor \in [Server -> [origin : Server, index : Nat]] /\ phase \in [Server -> Phase]
      BY DEF SynchTypeOK
    <3>2. CASE /\ cursor[s].origin + 1 \in Server
               /\ cursor' = [cursor EXCEPT ![s] = next]
               /\ UNCHANGED phase
      BY <2>2, <3>1, <3>2
    <3>3. CASE /\ phase' = [phase EXCEPT ![s] = "main"]
               /\ cursor' = [cursor EXCEPT ![s] = none]
      BY <2>3, <3>1, <3>3 DEF Phase
    <3>. QED
      BY <2>4, <3>2, <3>3
  <2>. QED
    BY <2>1, <2>5 DEF NetTypeOK, MemoryTypeOK, SynchTypeOK, DiskTypeOK,
                      memoryVars, diskVars, synchVars, boundVars, netVars
<1>13. ASSUME NEW s \in Server, GroupDeliver(s)
       PROVE  TypeOK'
  <2>1. outbox[s] \in Seq(Multicasts) /\ outbox[s] # <<>>
    BY <1>13 DEF GroupDeliver, Deliver, NetTypeOK
  <2>2. Head(outbox[s]) \in Message /\ Tail(outbox[s]) \in Seq(Multicasts)
    BY <2>1, HeadTailProperties DEF Message
  <2>3. \A t \in Server : Append(mailbox[t], Head(outbox[s])) \in Seq(Message)
    BY <2>2, AppendProperties DEF NetTypeOK
  <2>4. NetTypeOK'
    BY <1>13, <2>2, <2>3 DEF GroupDeliver, Deliver, NetTypeOK
  <2>. QED
    BY <1>13, <2>4 DEF GroupDeliver, MemoryTypeOK, SynchTypeOK, DiskTypeOK,
                       serverVars, memoryVars, synchVars, diskVars
<1>14. ASSUME NEW s \in Server, GroupInstallView(s)
       PROVE  TypeOK'
  <2>. DEFINE members == Reached(s, Joined)
              announcement == [type |-> "MEMBERSHIP", members |-> members]
  <2>1. members \in SUBSET Server
    BY DEF Reached, Joined
  <2>2. announcement \in Message
    BY <2>1 DEF Message, Membership
  <2>3. /\ view' = [t \in Server |-> IF t \in members THEN members ELSE view[t]]
        /\ mailbox' = [t \in Server |-> IF t \in members THEN Append(mailbox[t], announcement)
                                        ELSE mailbox[t]]
        /\ UNCHANGED <<component, outbox>>
    BY <1>14 DEF GroupInstallView, InstallView
  <2>. HIDE DEF members, announcement
  <2>4. \A t \in Server : Append(mailbox[t], announcement) \in Seq(Message)
    BY <2>2, AppendProperties DEF NetTypeOK
  <2>5. NetTypeOK'
    BY <2>1, <2>3, <2>4 DEF NetTypeOK
  <2>. QED
    BY <1>14, <2>5 DEF GroupInstallView, MemoryTypeOK, SynchTypeOK, DiskTypeOK,
                       serverVars, memoryVars, synchVars, diskVars
<1>15. ASSUME NetworkChange
       PROVE  TypeOK'
  <2>1. NetTypeOK'
    <3>1. CASE \E s, t \in Server : Merge(s, t, Joined)
      BY <3>1 DEF Merge, NetTypeOK
    <3>2. CASE \E s \in Server : \E part \in Partitions : Split(s, part)
      <4>1. PICK s \in Server, part \in Partitions : Split(s, part)
        BY <3>2
      <4>2. part \in SUBSET Server /\ component[s] \in SUBSET Server
        BY <4>1 DEF Split, NetTypeOK
      <4>. QED
        BY <4>1, <4>2 DEF Split, NetTypeOK
    <3>. QED
      BY <1>15, <3>1, <3>2 DEF NetworkChange
  <2>2. net_changes' \in Nat /\ UNCHANGED serverVars
    BY <1>15 DEF NetworkChange
  <2>. QED
    BY <2>1, <2>2 DEF MemoryTypeOK, SynchTypeOK, DiskTypeOK,
                      serverVars, memoryVars, synchVars, diskVars
<1>16. ASSUME UNCHANGED vars
       PROVE  TypeOK'
  BY <1>16 DEF NetTypeOK, MemoryTypeOK, SynchTypeOK, DiskTypeOK, vars, memoryVars,
               synchVars, diskVars, boundVars, netVars
<1>. QED
  BY <1>1, <1>2, <1>3, <1>4, <1>5, <1>6, <1>7, <1>8, <1>9, <1>10, <1>11, <1>12,
     <1>13, <1>14, <1>15, <1>16 DEF Next

(* Every variable keeps its type, for every number of servers, every       *)
(* threshold and every bound.                                              *)
THEOREM TypeCorrect == Spec => []TypeOK
<1>1. TypeOK /\ [Next]_vars => TypeOK'
  BY NextType
<1>. QED
  BY InitType, <1>1, PTL DEF Spec

-----------------------------------------------------------------------------
(* Messages.                                                               *)

(* Counts that only grow keep a matrix below them.                         *)
LEMMA BelowGrows ==
  ASSUME NEW matrix \in Knowledge, NEW old \in [Server -> Counts],
         NEW new \in [Server -> Counts], Below(old, new), Below(matrix, old)
  PROVE  Below(matrix, new)
BY DEF Below, Knowledge, Counts

LEMMA SummaryType ==
  ASSUME NEW messages \in Seq(Message), NEW n \in 1 .. Len(messages),
         messages[n].type = "KNOWLEDGE"
  PROVE  messages[n].summary \in Knowledge
BY DEF Message, Multicasts, Command, Membership

LEMMA SummariesGrow ==
  ASSUME NEW messages \in Seq(Message), NEW old \in [Server -> Counts],
         NEW new \in [Server -> Counts], Below(old, new),
         SummariesBelow(messages, old)
  PROVE  SummariesBelow(messages, new)
<1>. SUFFICES ASSUME NEW n \in 1 .. Len(messages), messages[n].type = "KNOWLEDGE"
              PROVE  Below(messages[n].summary, new)
  BY DEF SummariesBelow
<1>1. messages[n].summary \in Knowledge
  BY SummaryType
<1>2. Below(messages[n].summary, old)
  BY DEF SummariesBelow
<1>. QED
  BY <1>1, <1>2, BelowGrows

LEMMA SummariesOfTail ==
  ASSUME NEW messages \in Seq(Message), NEW counts, messages # <<>>,
         SummariesBelow(messages, counts)
  PROVE  SummariesBelow(Tail(messages), counts)
<1>1. /\ Len(Tail(messages)) = Len(messages) - 1
      /\ \A n \in 1 .. Len(Tail(messages)) : Tail(messages)[n] = messages[n + 1]
  BY HeadTailProperties
<1>2. \A n \in 1 .. Len(Tail(messages)) : n + 1 \in 1 .. Len(messages)
  BY <1>1
<1>. QED
  BY <1>1, <1>2 DEF SummariesBelow

LEMMA SummariesOfConcat ==
  ASSUME NEW first \in Seq(Message), NEW second \in Seq(Message), NEW counts,
         SummariesBelow(first, counts), SummariesBelow(second, counts)
  PROVE  SummariesBelow(first \o second, counts)
<1>. SUFFICES ASSUME NEW n \in 1 .. Len(first \o second),
                     (first \o second)[n].type = "KNOWLEDGE"
              PROVE  Below((first \o second)[n].summary, counts)
  BY DEF SummariesBelow
<1>1. (first \o second)[n] = IF n <= Len(first) THEN first[n] ELSE second[n - Len(first)]
  BY ConcatProperties
<1>2. CASE n <= Len(first)
  BY <1>1, <1>2 DEF SummariesBelow
<1>3. CASE ~ (n <= Len(first))
  <2>1. n - Len(first) \in 1 .. Len(second)
    BY <1>3, ConcatProperties
  <2>. QED
    BY <1>1, <1>3, <2>1 DEF SummariesBelow
<1>. QED
  BY <1>2, <1>3

LEMMA SummariesOfAppend ==
  ASSUME NEW messages \in Seq(Message), NEW m \in Message, NEW counts,
         SummariesBelow(messages, counts),
         m.type = "KNOWLEDGE" => Below(m.summary, counts)
  PROVE  SummariesBelow(Append(messages, m), counts)
<1>1. <<m>> \in Seq(Message) /\ SummariesBelow(<<m>>, counts)
  BY DEF SummariesBelow
<1>2. Append(messages, m) = messages \o <<m>>
  BY AppendIsConcat
<1>. QED
  BY <1>1, <1>2, SummariesOfConcat

(* Commands carry no summary.                                              *)
LEMMA CommandsHaveNone ==
  ASSUME NEW messages \in Seq(Command), NEW counts
  PROVE  SummariesBelow(messages, counts)
<1>1. \A n \in 1 .. Len(messages) : messages[n] \in Command
  OBVIOUS
<1>. QED
  BY <1>1 DEF SummariesBelow, Command

-----------------------------------------------------------------------------
(* The part of the invariant that is not about messages.                   *)

CoreInv ==
  /\ KnowledgeSound
  /\ RestartLosesNothing
  /\ SavedSound
  /\ SafeSound
  /\ LogComplete
  /\ LoadingSound

(* The step neither starts nor stops a process nor ends its loading.       *)
SamePhases ==
  \A t \in Server : /\ phase'[t] = "down" <=> phase[t] = "down"
                    /\ phase'[t] = "loading" <=> phase[t] = "loading"

LEMMA SameJoined ==
  ASSUME SamePhases
  PROVE  Joined' = Joined
BY DEF SamePhases, Joined

LEMMA CoreUnchanged ==
  ASSUME ReplicationInv, SamePhases, UNCHANGED <<memoryVars, diskVars, cursor>>
  PROVE  CoreInv'
<1>. USE DEF ReplicationInv, memoryVars, diskVars
<1>1. KnowledgeSound' /\ SavedSound' /\ LogComplete'
  BY DEF KnowledgeSound, SavedSound, LogComplete, Below
<1>2. RestartLosesNothing'
  BY SameJoined DEF RestartLosesNothing
<1>3. SafeSound' /\ LoadingSound'
  BY DEF SamePhases, SafeSound, LoadingSound
<1>. QED
  BY <1>1, <1>2, <1>3 DEF CoreInv

(* Entry by entry, the types the comparisons below are about.              *)
Entries ==
  /\ \A t, u, v \in Server : knowledge[t][u][v] \in Nat
  /\ \A t, u, v \in Server : inbox_state[t].knowledge[u][v] \in Nat
  /\ \A t, v \in Server : /\ applied_to_state[t][v] \in Nat
                          /\ safe_delivered[t][v] \in Nat
                          /\ log_state[t][v] \in Nat
                          /\ logged[t][v] \in Nat
                          /\ log_files[t][v] \in SUBSET Nat

LEMMA EntryTypes == TypeOK => Entries
<1>. SUFFICES ASSUME TypeOK
              PROVE  Entries
  OBVIOUS
<1>1. \A t, u \in Server : knowledge[t][u] \in [Server -> Nat]
  BY DEF TypeOK, MemoryTypeOK, Knowledge
<1>2. \A t \in Server : inbox_state[t].knowledge \in Knowledge
  BY DEF TypeOK, DiskTypeOK, Saved
<1>3. \A t, u \in Server : inbox_state[t].knowledge[u] \in [Server -> Nat]
  BY <1>2 DEF Knowledge
<1>4. \A t \in Server : /\ applied_to_state[t] \in [Server -> Nat]
                        /\ safe_delivered[t] \in [Server -> Nat]
                        /\ log_state[t] \in [Server -> Nat]
                        /\ logged[t] \in [Server -> Nat]
                        /\ log_files[t] \in [Server -> SUBSET Nat]
  BY DEF TypeOK, MemoryTypeOK, DiskTypeOK, Counts
<1>. QED
  BY <1>1, <1>3, <1>4 DEF Entries

LEMMA EntryTypesNext == TypeOK' => Entries'
BY EntryTypes, PTL

(* Pointwise, what applying a command changes.                             *)
LEMMA ApplyPointwise ==
  ASSUME TypeOK, NEW s \in Server, NEW o \in Server, NEW i \in Nat,
         ApplyCommandToState(s, o, i)
  PROVE  /\ \A t, u, v \in Server :
              knowledge'[t][u][v] = IF t = s /\ u = s /\ v = o
                                    THEN knowledge[t][u][v] + 1 ELSE knowledge[t][u][v]
         /\ \A t, v \in Server :
              applied_to_state'[t][v] = IF t = s /\ v = o
                                        THEN applied_to_state[t][v] + 1
                                        ELSE applied_to_state[t][v]
         /\ safe_delivered' = safe_delivered
         /\ \/ UNCHANGED stateFiles
            \/ /\ inbox_state' = [inbox_state EXCEPT ![s] =
                                   [knowledge |-> knowledge'[s],
                                    applied_to_state |-> applied_to_state'[s]]]
               /\ log_state' = [log_state EXCEPT ![s] = safe_delivered[s]]
<1>1. \A t, u, v \in Server :
        knowledge'[t][u][v] = IF t = s /\ u = s /\ v = o
                              THEN knowledge[t][u][v] + 1 ELSE knowledge[t][u][v]
  BY DEF TypeOK, MemoryTypeOK, ApplyCommandToState, Knowledge
<1>2. \A t, v \in Server :
        applied_to_state'[t][v] = IF t = s /\ v = o
                                  THEN applied_to_state[t][v] + 1
                                  ELSE applied_to_state[t][v]
  BY DEF TypeOK, MemoryTypeOK, ApplyCommandToState, Counts
<1>3. safe_delivered' = safe_delivered
  BY DEF ApplyCommandToState
<1>4. \/ UNCHANGED stateFiles
      \/ WriteState(s)
  BY DEF ApplyCommandToState
<1>. QED
  BY <1>1, <1>2, <1>3, <1>4 DEF WriteState

(* Applying a logged command, live or from the log, keeps what is known    *)
(* and what is saved sound.                                                *)
LEMMA ApplySound ==
  ASSUME ReplicationInv, TypeOK', SamePhases,
         NEW s \in Server, NEW o \in Server, NEW i \in Nat,
         phase[s] # "down",
         ApplyCommandToState(s, o, i),
         applied_to_state[s] = knowledge[s][s],
         knowledge[s][s][o] + 1 <= logged'[s][o],
         Below(logged, logged')
  PROVE  /\ KnowledgeSound'
         /\ SavedSound'
         /\ SafeSound'
         /\ applied_to_state'[s] = knowledge'[s][s]
         /\ \A t, v \in Server : log_state[t][v] <= log_state'[t][v]
<1>0. TypeOK /\ KnowledgeSound /\ SavedSound /\ SafeSound /\ Entries /\ Entries'
  BY EntryTypes, EntryTypesNext DEF ReplicationInv
<1>1. /\ \A t, u, v \in Server :
           knowledge'[t][u][v] = IF t = s /\ u = s /\ v = o
                                 THEN knowledge[t][u][v] + 1 ELSE knowledge[t][u][v]
      /\ \A t, v \in Server :
           applied_to_state'[t][v] = IF t = s /\ v = o
                                     THEN applied_to_state[t][v] + 1
                                     ELSE applied_to_state[t][v]
      /\ safe_delivered' = safe_delivered
      /\ \/ UNCHANGED stateFiles
         \/ /\ inbox_state' = [inbox_state EXCEPT ![s] =
                                [knowledge |-> knowledge'[s],
                                 applied_to_state |-> applied_to_state'[s]]]
            /\ log_state' = [log_state EXCEPT ![s] = safe_delivered[s]]
  BY <1>0, ApplyPointwise
<1>2. /\ knowledge \in [Server -> [Server -> [Server -> Nat]]]
      /\ knowledge' \in [Server -> [Server -> [Server -> Nat]]]
      /\ applied_to_state \in [Server -> [Server -> Nat]]
      /\ applied_to_state' \in [Server -> [Server -> Nat]]
      /\ safe_delivered \in [Server -> [Server -> Nat]]
      /\ log_state \in [Server -> [Server -> Nat]]
      /\ log_state' \in [Server -> [Server -> Nat]]
      /\ logged \in [Server -> [Server -> Nat]]
      /\ logged' \in [Server -> [Server -> Nat]]
  BY <1>0 DEF TypeOK, MemoryTypeOK, DiskTypeOK, Knowledge, Counts
<1>3. /\ inbox_state \in [Server -> Saved]
      /\ inbox_state' \in [Server -> Saved]
  BY <1>0 DEF TypeOK, DiskTypeOK
<1>4. ASSUME NEW t \in Server, NEW u \in Server, NEW v \in Server
      PROVE  knowledge[t][u][v] <= knowledge'[t][u][v]
  <2>1. knowledge[t][u][v] \in Nat
    BY <1>0 DEF Entries
  <2>. QED
    BY <1>1, <2>1
<1>5. KnowledgeSound'
  <2>. SUFFICES ASSUME NEW t \in Server, NEW u \in Server, NEW v \in Server
                PROVE  knowledge'[t][u][v] <= logged'[u][v]
    BY DEF KnowledgeSound
  <2>1. knowledge[t][u][v] <= logged[u][v] /\ logged[u][v] <= logged'[u][v]
    BY <1>0 DEF KnowledgeSound, Below
  <2>2. CASE t = s /\ u = s /\ v = o
    BY <1>1, <2>2
  <2>3. CASE ~ (t = s /\ u = s /\ v = o)
    BY <1>0, <1>1, <2>1, <2>3 DEF Entries
  <2>. QED
    BY <2>2, <2>3
<1>6. applied_to_state'[s] = knowledge'[s][s]
  <2>1. \A v \in Server : applied_to_state'[s][v] = knowledge'[s][s][v]
    BY <1>1
  <2>. QED
    BY <1>2, <2>1
<1>7. CASE UNCHANGED stateFiles
  <2>1. SavedSound'
    <3>1. \A t \in Server : inbox_state[t].knowledge \in Knowledge
      BY <1>3 DEF Saved
    <3>2. \A t \in Server : Below(inbox_state[t].knowledge, logged')
      BY <1>0, <1>2, <3>1, BelowGrows DEF SavedSound, Counts
    <3>3. inbox_state' = inbox_state /\ log_state' = log_state
      BY <1>7 DEF stateFiles
    <3>. QED
      BY <1>0, <3>2, <3>3 DEF SavedSound
  <2>2. SafeSound'
    <3>1. ASSUME NEW t \in Server, NEW u \in Server, NEW v \in Server, phase[t] # "down"
          PROVE  /\ log_state[t][v] <= safe_delivered[t][v]
                 /\ safe_delivered[t][v] <= knowledge'[t][u][v]
      <4>1. /\ log_state[t][v] <= safe_delivered[t][v]
            /\ safe_delivered[t][v] <= knowledge[t][u][v]
        BY <1>0, <3>1 DEF SafeSound
      <4>2. /\ safe_delivered[t][v] \in Nat /\ knowledge[t][u][v] \in Nat
            /\ knowledge'[t][u][v] \in Nat
        BY <1>0 DEF Entries
      <4>3. knowledge[t][u][v] <= knowledge'[t][u][v]
        BY <1>4
      <4>. QED
        BY <4>1, <4>2, <4>3
    <3>. QED
      BY <1>1, <1>7, <3>1 DEF SafeSound, SamePhases, stateFiles
  <2>. QED
    BY <1>0, <1>5, <1>6, <1>7, <2>1, <2>2 DEF stateFiles, Entries
<1>8. CASE /\ inbox_state' = [inbox_state EXCEPT ![s] =
                               [knowledge |-> knowledge'[s],
                                applied_to_state |-> applied_to_state'[s]]]
           /\ log_state' = [log_state EXCEPT ![s] = safe_delivered[s]]
  <2>1. /\ \A v \in Server : log_state'[s][v] = safe_delivered[s][v]
        /\ \A t, v \in Server : t # s => log_state'[t][v] = log_state[t][v]
    BY <1>2, <1>8
  <2>2. /\ inbox_state'[s].knowledge = knowledge'[s]
        /\ inbox_state'[s].applied_to_state = applied_to_state'[s]
        /\ \A t \in Server : t # s => inbox_state'[t] = inbox_state[t]
    BY <1>3, <1>8
  <2>3. \A v \in Server : /\ log_state[s][v] <= safe_delivered[s][v]
                          /\ \A t \in Server : safe_delivered[s][v] <= knowledge[s][t][v]
    BY <1>0 DEF SafeSound
  <2>4. SavedSound'
    <3>1. \A t \in Server : inbox_state[t].knowledge \in Knowledge
      BY <1>3 DEF Saved
    <3>2. \A t \in Server : t # s => Below(inbox_state'[t].knowledge, logged')
      BY <1>0, <1>2, <2>2, <3>1, BelowGrows DEF SavedSound, Counts
    <3>3. Below(inbox_state'[s].knowledge, logged')
      BY <1>5, <2>2 DEF KnowledgeSound, Below
    <3>4. \A t \in Server :
            inbox_state'[t].applied_to_state = inbox_state'[t].knowledge[t]
      BY <1>0, <1>6, <2>2 DEF SavedSound
    <3>5. \A t, v \in Server : log_state'[s][v] <= inbox_state'[s].knowledge[t][v]
      <4>. SUFFICES ASSUME NEW t \in Server, NEW v \in Server
                    PROVE  safe_delivered[s][v] <= knowledge'[s][t][v]
        BY <2>1, <2>2
      <4>1. safe_delivered[s][v] <= knowledge[s][t][v]
        BY <2>3
      <4>2. /\ safe_delivered[s][v] \in Nat /\ knowledge[s][t][v] \in Nat
            /\ knowledge'[s][t][v] \in Nat
        BY <1>0 DEF Entries
      <4>3. knowledge[s][t][v] <= knowledge'[s][t][v]
        BY <1>4
      <4>. QED
        BY <4>1, <4>2, <4>3
    <3>6. \A r, t, v \in Server :
            r # s => log_state'[r][v] <= inbox_state'[r].knowledge[t][v]
      BY <1>0, <2>1, <2>2 DEF SavedSound
    <3>. QED
      BY <3>2, <3>3, <3>4, <3>5, <3>6 DEF SavedSound
  <2>5. SafeSound'
    <3>1. ASSUME NEW t \in Server, NEW u \in Server, NEW v \in Server, phase[t] # "down"
          PROVE  /\ log_state'[t][v] <= safe_delivered[t][v]
                 /\ safe_delivered[t][v] <= knowledge'[t][u][v]
      <4>1. /\ log_state[t][v] <= safe_delivered[t][v]
            /\ safe_delivered[t][v] <= knowledge[t][u][v]
        BY <1>0, <3>1 DEF SafeSound
      <4>2. /\ safe_delivered[t][v] \in Nat /\ knowledge[t][u][v] \in Nat
            /\ knowledge'[t][u][v] \in Nat
        BY <1>0 DEF Entries
      <4>3. knowledge[t][u][v] <= knowledge'[t][u][v]
        BY <1>4
      <4>4. log_state'[t][v] = safe_delivered[t][v] \/ log_state'[t][v] = log_state[t][v]
        BY <2>1
      <4>. QED
        BY <4>1, <4>2, <4>3, <4>4
    <3>. QED
      BY <1>1, <3>1 DEF SafeSound, SamePhases
  <2>6. ASSUME NEW t \in Server, NEW v \in Server
        PROVE  log_state[t][v] <= log_state'[t][v]
    <3>1. log_state[t][v] \in Nat
      BY <1>0 DEF Entries
    <3>2. CASE t = s
      BY <2>1, <2>3, <3>2
    <3>3. CASE t # s
      BY <2>1, <3>1, <3>3
    <3>. QED
      BY <3>2, <3>3
  <2>. QED
    BY <1>5, <1>6, <2>4, <2>5, <2>6
<1>. QED
  BY <1>1, <1>7, <1>8

(* A running server applies the next command of an origin, or drops one.   *)
LEMMA ApplyNewCommandCore ==
  ASSUME ReplicationInv, TypeOK', SamePhases, UNCHANGED cursor,
         NEW s \in Joined, NEW o \in Server, NEW i \in Nat,
         ApplyNewCommand(s, o, i)
  PROVE  CoreInv' /\ Below(logged, logged')
<1>. USE DEF ReplicationInv
<1>0. /\ s \in Server /\ phase[s] # "down" /\ phase[s] # "loading"
      /\ Entries /\ Entries'
  BY EntryTypes, EntryTypesNext DEF Joined
<1>1. CASE IsNext(s, o, i)
  <2>1. WriteCommandToLog(s, o, i) /\ ApplyCommandToState(s, o, i)
    BY <1>1 DEF ApplyNewCommand
  <2>2. /\ logged \in [Server -> [Server -> Nat]]
        /\ logged' \in [Server -> [Server -> Nat]]
        /\ log_state \in [Server -> [Server -> Nat]]
        /\ log_state' \in [Server -> [Server -> Nat]]
        /\ knowledge \in [Server -> [Server -> [Server -> Nat]]]
        /\ applied_to_state \in [Server -> [Server -> Nat]]
        /\ log_files \in [Server -> [Server -> SUBSET Nat]]
    BY DEF TypeOK, MemoryTypeOK, DiskTypeOK, Knowledge, Counts
  <2>3. \A t, v \in Server : logged'[t][v] = IF t = s /\ v = o
                                             THEN logged[t][v] + 1 ELSE logged[t][v]
    BY <1>0, <2>1, <2>2 DEF WriteCommandToLog
  <2>4. \A t, v \in Server : log_files'[t][v] = IF t = s /\ v = o
                                                THEN log_files[t][v] \cup {i}
                                                ELSE log_files[t][v]
    BY <1>0, <2>1, <2>2 DEF WriteCommandToLog
  <2>5. \A v \in Server : /\ knowledge[s][s][v] = logged[s][v]
                          /\ applied_to_state[s][v] = logged[s][v]
    BY DEF RestartLosesNothing
  <2>6. applied_to_state[s] = knowledge[s][s]
    BY <1>0, <2>2, <2>5
  <2>7. Below(logged, logged')
    BY <1>0, <2>3 DEF Below, Entries
  <2>8. i = logged[s][o] + 1
    BY <1>1, <2>5 DEF IsNext
  <2>9. /\ KnowledgeSound' /\ SavedSound' /\ SafeSound'
        /\ \A t, v \in Server : log_state[t][v] <= log_state'[t][v]
    <3>1. knowledge[s][s][o] + 1 <= logged'[s][o]
      BY <1>0, <2>2, <2>3, <2>5
    <3>. QED
      BY <1>0, <2>1, <2>6, <2>7, <3>1, ApplySound
  <2>10. RestartLosesNothing'
    <3>1. \A t \in Joined, v \in Server :
            /\ applied_to_state'[t][v] = logged'[t][v]
            /\ knowledge'[t][t][v] = logged'[t][v]
      BY <1>0, <2>1, <2>3, ApplyPointwise DEF RestartLosesNothing, Joined
    <3>. QED
      BY <3>1, SameJoined DEF RestartLosesNothing
  <2>11. LogComplete'
    <3>. SUFFICES ASSUME NEW t \in Server, NEW v \in Server
                  PROVE  /\ log_files'[t][v] \subseteq 1 .. logged'[t][v]
                         /\ log_state'[t][v] + 1 .. logged'[t][v] \subseteq log_files'[t][v]
      BY DEF LogComplete
    <3>1. /\ log_files[t][v] \subseteq 1 .. logged[t][v]
          /\ log_state[t][v] + 1 .. logged[t][v] \subseteq log_files[t][v]
      BY DEF LogComplete
    <3>2. log_state[t][v] <= log_state'[t][v]
      BY <2>9
    <3>. QED
      <4>1. CASE t = s /\ v = o
        <5>1. /\ logged'[t][v] = logged[t][v] + 1
              /\ log_files'[t][v] = log_files[t][v] \cup {logged[t][v] + 1}
          BY <2>3, <2>4, <2>8, <4>1
        <5>2. logged[t][v] \in Nat /\ log_state[t][v] \in Nat /\ log_state'[t][v] \in Nat
          BY <1>0 DEF Entries
        <5>. QED
          BY <3>1, <3>2, <5>1, <5>2
      <4>2. CASE ~ (t = s /\ v = o)
        <5>1. logged'[t][v] = logged[t][v] /\ log_files'[t][v] = log_files[t][v]
          BY <2>3, <2>4, <4>2
        <5>2. logged[t][v] \in Nat /\ log_state[t][v] \in Nat /\ log_state'[t][v] \in Nat
          BY <1>0 DEF Entries
        <5>. QED
          BY <3>1, <3>2, <5>1, <5>2
      <4>. QED
        BY <4>1, <4>2
  <2>12. LoadingSound'
    <3>. SUFFICES ASSUME NEW t \in Server, phase[t] = "loading"
                  PROVE  /\ applied_to_state'[t] = applied_to_state[t]
                         /\ knowledge'[t] = knowledge[t]
                         /\ safe_delivered'[t] = safe_delivered[t]
                         /\ log_state'[t] = log_state[t]
                         /\ logged'[t] = logged[t]
      BY DEF LoadingSound, SamePhases
    <3>1. t # s
      BY <1>0
    <3>. QED
      <4>1. /\ applied_to_state'[t] = applied_to_state[t]
            /\ knowledge'[t] = knowledge[t]
            /\ safe_delivered'[t] = safe_delivered[t]
        BY <1>0, <2>1, <3>1 DEF ApplyCommandToState, TypeOK, MemoryTypeOK
      <4>2. log_state' = log_state \/ log_state' = [log_state EXCEPT ![s] = safe_delivered[s]]
        BY <1>0, <2>1, ApplyPointwise DEF stateFiles
      <4>3. log_state'[t] = log_state[t]
        BY <1>0, <3>1, <4>2 DEF TypeOK, DiskTypeOK
      <4>4. logged'[t] = logged[t]
        BY <1>0, <2>1, <3>1 DEF WriteCommandToLog, TypeOK, DiskTypeOK
      <4>. QED
        BY <4>1, <4>3, <4>4
  <2>. QED
    BY <2>7, <2>9, <2>10, <2>11, <2>12 DEF CoreInv
<1>2. CASE ~ IsNext(s, o, i)
  <2>1. UNCHANGED <<memoryVars, diskVars>>
    BY <1>2 DEF ApplyNewCommand
  <2>2. Below(logged, logged')
    BY <1>0, <2>1 DEF diskVars, Below, Entries
  <2>. QED
    BY <2>1, <2>2, CoreUnchanged
<1>. QED
  BY <1>1, <1>2

-----------------------------------------------------------------------------
(* Knowledge and garbage collection.                                       *)

(* The last server of a nonempty set.                                      *)
LEMMA MaxServer ==
  ASSUME NEW S \in SUBSET Server, NEW x \in S
  PROVE  x <= Max(S)
<1>. DEFINE R == {N_MACHINES - y : y \in S}
<1>1. R \in SUBSET Nat /\ R # {}
  BY NMachinesAssumption DEF Server
<1>. HIDE DEF R
<1>2. Min(R) \in R /\ \A r \in R : Min(R) <= r
  BY <1>1, MinProperty
<1>3. PICK m \in S : Min(R) = N_MACHINES - m
  BY <1>2 DEF R
<1>4. ASSUME NEW y \in S
      PROVE  m >= y
  <2>1. N_MACHINES - y \in R
    BY DEF R
  <2>2. m \in Int /\ y \in Int /\ N_MACHINES \in Int
    BY NMachinesAssumption DEF Server
  <2>. QED
    BY <1>2, <1>3, <2>1, <2>2
<1>5. Max(S) \in S /\ \A y \in S : Max(S) >= y
  BY <1>4 DEF Max
<1>. QED
  BY <1>5 DEF Server

LEMMA BlockMonotone ==
  ASSUME NEW i \in Nat, NEW j \in Nat, Block(i) < Block(j)
  PROVE  i < j
BY ThresholdAssumption DEF Block

(* erase_queue_up_to() pops nothing after its index.                       *)
LEMMA PoppedUpTo ==
  ASSUME NEW queue \in Seq(Nat), NEW index \in Nat,
         NEW n \in 1 .. Len(queue) - Len(EraseUpTo(queue, index))
  PROVE  n \in 1 .. Len(queue) /\ queue[n] <= index
<1>. DEFINE kept == {m \in 1 .. Len(queue) : queue[m] > index}
<1>0. Len(queue) \in Nat /\ kept \in SUBSET (1 .. Len(queue)) /\ kept \in SUBSET Nat
  OBVIOUS
<1>1. \A m \in 1 .. Len(queue) : m \notin kept => queue[m] <= index
  OBVIOUS
<1>2. EraseUpTo(queue, index) = IF kept = {} THEN <<>>
                                ELSE SubSeq(queue, Min(kept), Len(queue))
  BY DEF EraseUpTo
<1>. HIDE DEF kept
<1>3. CASE kept = {}
  BY <1>0, <1>1, <1>2, <1>3
<1>4. CASE kept # {}
  <2>1. Min(kept) \in 1 .. Len(queue) /\ \A m \in kept : Min(kept) <= m
    BY <1>0, <1>4, MinPosition, MinProperty
  <2>2. Len(SubSeq(queue, Min(kept), Len(queue))) = Len(queue) - Min(kept) + 1
    BY <1>0, <2>1, SubSeqProperties
  <2>3. n \in 1 .. Len(queue) /\ n < Min(kept)
    <3>. DEFINE m == Min(kept)
                left == Len(EraseUpTo(queue, index))
    <3>1. left = Len(queue) - m + 1
      BY <1>2, <1>4, <2>2
    <3>2. m \in Int /\ m >= 1 /\ Len(queue) \in Int /\ n \in 1 .. Len(queue) - left
      BY <1>0, <2>1
    <3>. HIDE DEF m, left
    <3>3. n \in 1 .. Len(queue) /\ n < m
      BY <3>1, <3>2
    <3>. QED
      BY <3>3 DEF m
  <2>4. n \notin kept
    BY <1>0, <2>1, <2>3
  <2>. QED
    BY <1>1, <2>3, <2>4
<1>. QED
  BY <1>3, <1>4

OthersUntouched(s) ==
  \A t \in Server : t # s =>
    /\ safe_delivered'[t] = safe_delivered[t]
    /\ log_state'[t] = log_state[t]
    /\ log_files'[t] = log_files[t]
    /\ inbox_state'[t] = inbox_state[t]

SafeRaised(s, matrix) ==
  \A o \in Server :
    /\ safe_delivered[s][o] <= safe_delivered'[s][o]
    /\ \A t \in Server : safe_delivered'[s][o] <= matrix[t][o]
    /\ log_files'[s][o] \subseteq log_files[s][o]

SavedUpToSafe(s, matrix) ==
  \/ /\ UNCHANGED stateFiles
     /\ log_files'[s] = log_files[s]
  \/ /\ inbox_state'[s] = [knowledge |-> matrix,
                           applied_to_state |-> applied_to_state[s]]
     /\ \A o \in Server :
          /\ safe_delivered[s][o] <= log_state'[s][o]
          /\ log_state'[s][o] <= safe_delivered'[s][o]
          /\ \A i \in log_files[s][o] :
               i > log_state'[s][o] => i \in log_files'[s][o]

(* collect_garbage() moves safe_delivered up to what s now knows of all,   *)
(* saves no more than that, and removes no record after what it saves.     *)
LEMMA CollectGarbageSafe ==
  ASSUME TypeOK, NEW s \in Server, NEW matrix \in Knowledge,
         CollectGarbage(s, matrix),
         \A t, o \in Server : safe_delivered[s][o] <= matrix[t][o]
  PROVE  OthersUntouched(s) /\ SafeRaised(s, matrix) /\ SavedUpToSafe(s, matrix)
<1>. USE DEF OthersUntouched, SafeRaised, SavedUpToSafe
<1>. DEFINE safe == [o \in Server |-> SafeIndex(matrix, o)]
            changes(o) == BlockChanges(command_queue[s][o], safe[o], current_block[s][o])
            changed == {o \in Server : changes(o) # {}}
            removed(o) == current_block[s][o] .. Block(command_queue[s][o][Min(changes(o))]) - 1
            files == [o \in Server |->
                       IF o \in changed
                       THEN {i \in log_files[s][o] : Block(i) \notin removed(o)}
                       ELSE log_files[s][o]]
            saved == [o \in Server |-> IF o <= Max(changed) THEN safe[o]
                                       ELSE safe_delivered[s][o]]
<1>1. /\ safe_delivered' = [safe_delivered EXCEPT ![s] = safe]
      /\ log_files' = [log_files EXCEPT ![s] = files]
      /\ \/ changed = {} /\ UNCHANGED stateFiles
         \/ /\ inbox_state' = [inbox_state EXCEPT ![s] =
                                [knowledge |-> matrix,
                                 applied_to_state |-> applied_to_state[s]]]
            /\ log_state' = [log_state EXCEPT ![s] = saved]
  BY DEF CollectGarbage
<1>2. ASSUME NEW o \in Server
      PROVE  /\ safe[o] \in Nat
             /\ safe_delivered[s][o] <= safe[o]
             /\ \A t \in Server : safe[o] <= matrix[t][o]
  <2>. DEFINE column == {matrix[t][o] : t \in Server}
  <2>1. column \in SUBSET Nat
    BY DEF Knowledge
  <2>2. column # {}
    BY ServerNonempty
  <2>3. \A t \in Server : matrix[t][o] \in column
    OBVIOUS
  <2>4. \A x \in column : safe_delivered[s][o] <= x
    OBVIOUS
  <2>. HIDE DEF column
  <2>5. Min(column) \in column /\ Min(column) \in Nat /\ \A x \in column : Min(column) <= x
    BY <2>1, <2>2, MinProperty
  <2>. QED
    BY <2>3, <2>4, <2>5 DEF column, SafeIndex
<1>. HIDE DEF safe
<1>3. /\ safe_delivered \in [Server -> Counts]
      /\ log_state \in [Server -> Counts]
      /\ log_files \in [Server -> [Server -> SUBSET Nat]]
      /\ inbox_state \in [Server -> Saved]
  BY DEF TypeOK, MemoryTypeOK, DiskTypeOK
<1>4. \A o \in changed : o <= Max(changed)
  <2>1. changed \in SUBSET Server
    OBVIOUS
  <2>. HIDE DEF changed
  <2>. QED
    BY <2>1, MaxServer
<1>5. ASSUME NEW o \in changed, NEW i \in Nat, Block(i) \in removed(o)
      PROVE  i < safe[o]
  <2>. DEFINE queue == command_queue[s][o]
  <2>1. o \in Server /\ changes(o) # {}
    OBVIOUS
  <2>2. queue \in Seq(Nat) /\ safe[o] \in Nat
    BY <1>2, <2>1 DEF TypeOK, MemoryTypeOK
  <2>3. changes(o) \in SUBSET (1 .. Len(queue) - Len(EraseUpTo(queue, safe[o])))
    BY DEF BlockChanges
  <2>4. changes(o) \in SUBSET Nat
    <3>. DEFINE last == Len(queue) - Len(EraseUpTo(queue, safe[o]))
                popped == changes(o)
    <3>1. popped \in SUBSET (1 .. last)
      BY <2>3
    <3>. HIDE DEF last, popped
    <3>2. popped \in SUBSET Nat
      BY <3>1
    <3>. QED
      BY <3>2 DEF popped
  <2>5. Min(changes(o)) \in changes(o)
    <3>. HIDE DEF changes
    <3>. QED
      BY <2>1, <2>4, MinProperty
  <2>. DEFINE n == Min(changes(o))
  <2>6. n \in 1 .. Len(queue) - Len(EraseUpTo(queue, safe[o]))
    BY <2>3, <2>5
  <2>7. Block(i) <= Block(queue[n]) - 1
    BY <1>5, SMTT(30)
  <2>. HIDE DEF changes, changed, removed, n, queue
  <2>8. n \in 1 .. Len(queue) /\ queue[n] <= safe[o]
    BY <2>2, <2>6, PoppedUpTo
  <2>9. queue[n] \in Nat
    BY <2>2, <2>8
  <2>10. i < queue[n]
    <3>1. Block(i) \in Nat /\ Block(queue[n]) \in Nat
      BY <2>9, BlockType
    <3>. QED
      BY <2>7, <2>9, <3>1, BlockMonotone
  <2>. QED
    BY <2>2, <2>8, <2>9, <2>10
<1>. HIDE DEF changes, removed
<1>6. \A o \in Server : /\ files[o] \subseteq log_files[s][o]
                        /\ o \notin changed => files[o] = log_files[s][o]
  OBVIOUS
<1>7. ASSUME NEW o \in changed, NEW i \in log_files[s][o], i > safe[o]
      PROVE  i \in files[o]
  <2>1. o \in Server
    OBVIOUS
  <2>2. i \in Nat /\ safe[o] \in Nat
    BY <1>2, <1>3, <2>1
  <2>3. Block(i) \notin removed(o)
    BY <1>5, <1>7, <2>2
  <2>. QED
    BY <2>1, <2>3
<1>8. \A o \in Server : saved[o] = IF o <= Max(changed) THEN safe[o] ELSE safe_delivered[s][o]
  OBVIOUS
<1>9. files \in [Server -> SUBSET Nat] /\ saved \in [Server -> Nat]
  <2>1. \A o \in Server : safe[o] \in Nat /\ safe_delivered[s][o] \in Nat
    BY <1>2, <1>3 DEF Counts
  <2>2. \A o \in Server : log_files[s][o] \in SUBSET Nat
    BY <1>3
  <2>. QED
    BY <2>1, <2>2
<1>10. changed = {} => files = log_files[s]
  BY <1>3
<1>. HIDE DEF changed, files, saved
<1>11. \A t \in Server : t # s =>
         /\ safe_delivered'[t] = safe_delivered[t]
         /\ log_state'[t] = log_state[t]
         /\ log_files'[t] = log_files[t]
         /\ inbox_state'[t] = inbox_state[t]
  BY <1>1, <1>3 DEF stateFiles
<1>12. safe_delivered'[s] = safe /\ log_files'[s] = files
  BY <1>1, <1>3
<1>13. CASE changed = {} /\ UNCHANGED stateFiles
  BY <1>2, <1>6, <1>10, <1>11, <1>12, <1>13
<1>14. CASE /\ inbox_state' = [inbox_state EXCEPT ![s] =
                                [knowledge |-> matrix,
                                 applied_to_state |-> applied_to_state[s]]]
            /\ log_state' = [log_state EXCEPT ![s] = saved]
  <2>1. /\ inbox_state'[s] = [knowledge |-> matrix,
                              applied_to_state |-> applied_to_state[s]]
        /\ log_state'[s] = saved
    BY <1>3, <1>14
  <2>2. ASSUME NEW o \in Server
        PROVE  /\ safe_delivered[s][o] <= saved[o]
               /\ saved[o] <= safe[o]
    <3>1. safe_delivered[s][o] \in Nat /\ safe[o] \in Nat /\ safe_delivered[s][o] <= safe[o]
      BY <1>2, <1>3 DEF Counts
    <3>2. saved[o] = safe[o] \/ saved[o] = safe_delivered[s][o]
      BY <1>8
    <3>. QED
      BY <3>1, <3>2
  <2>3. ASSUME NEW o \in Server, NEW i \in log_files[s][o], i > saved[o]
        PROVE  i \in files[o]
    <3>1. CASE o \in changed
      BY <1>4, <1>7, <1>8, <2>3, <3>1
    <3>2. CASE o \notin changed
      BY <1>6, <3>2
    <3>. QED
      BY <3>1, <3>2
  <2>. QED
    BY <1>2, <1>6, <1>11, <1>12, <2>1, <2>2, <2>3
<1>. QED
  BY <1>1, <1>13, <1>14

LEMMA LearnedPointwise ==
  ASSUME TypeOK, NEW s \in Server, NEW summary \in Knowledge
  PROVE  \A u, v \in Server :
           /\ Learned(s, summary)[u][v] \in Nat
           /\ knowledge[s][u][v] <= Learned(s, summary)[u][v]
           /\ \/ Learned(s, summary)[u][v] = knowledge[s][u][v]
              \/ Learned(s, summary)[u][v] = summary[u][v]
           /\ summary[u][v] <= knowledge[s][u][v] =>
                Learned(s, summary)[u][v] = knowledge[s][u][v]
<1>. SUFFICES ASSUME NEW u \in Server, NEW v \in Server
              PROVE  /\ Learned(s, summary)[u][v] \in Nat
                     /\ knowledge[s][u][v] <= Learned(s, summary)[u][v]
                     /\ \/ Learned(s, summary)[u][v] = knowledge[s][u][v]
                        \/ Learned(s, summary)[u][v] = summary[u][v]
                     /\ summary[u][v] <= knowledge[s][u][v] =>
                          Learned(s, summary)[u][v] = knowledge[s][u][v]
  OBVIOUS
<1>1. summary[u][v] \in Nat
  BY DEF Knowledge
<1>2. knowledge[s][u][v] \in Nat
  BY EntryTypes DEF Entries
<1>3. Learned(s, summary)[u][v] = IF summary[u][v] > knowledge[s][u][v]
                                  THEN summary[u][v] ELSE knowledge[s][u][v]
  BY DEF Learned
<1>. QED
  BY <1>1, <1>2, <1>3

(* A running server takes in a summary that claims no more than was        *)
(* logged: nothing it says of itself changes.                              *)
LEMMA UpdateKnowledgeCore ==
  ASSUME ReplicationInv, TypeOK', SamePhases, UNCHANGED cursor,
         NEW s \in Joined, NEW summary \in Knowledge,
         Below(summary, logged),
         UpdateKnowledge(s, summary)
  PROVE  CoreInv' /\ UNCHANGED logged
<1>. DEFINE matrix == Learned(s, summary)
<1>0. /\ s \in Server /\ phase[s] # "down" /\ phase[s] # "loading"
      /\ TypeOK /\ KnowledgeSound /\ RestartLosesNothing /\ SavedSound
      /\ SafeSound /\ LogComplete /\ LoadingSound
      /\ Entries /\ Entries'
  BY EntryTypes, EntryTypesNext DEF Joined, ReplicationInv
<1>1. matrix \in Knowledge /\ knowledge' = [knowledge EXCEPT ![s] = matrix]
  BY <1>0, UpdateKnowledgeMatrix
<1>2. \A u, v \in Server :
        /\ matrix[u][v] \in Nat
        /\ knowledge[s][u][v] <= matrix[u][v]
        /\ matrix[u][v] = knowledge[s][u][v] \/ matrix[u][v] = summary[u][v]
        /\ summary[u][v] <= knowledge[s][u][v] => matrix[u][v] = knowledge[s][u][v]
  BY <1>0, LearnedPointwise
<1>3. UNCHANGED <<applied_to_state, logged>>
  BY DEF UpdateKnowledge
<1>4. \/ /\ CollectGarbage(s, matrix)
      \/ UNCHANGED <<safe_delivered, log_files, stateFiles>>
  BY DEF UpdateKnowledge, Learned, Raised
<1>. HIDE DEF matrix
<1>5. /\ knowledge'[s] = matrix
      /\ \A t \in Server : t # s => knowledge'[t] = knowledge[t]
  BY <1>0, <1>1 DEF TypeOK, MemoryTypeOK
<1>6. \A u, v \in Server : matrix[u][v] <= logged[u][v]
  BY <1>0, <1>2 DEF KnowledgeSound, Below
<1>7. \A v \in Server : matrix[s][v] = knowledge[s][s][v]
  <2>. SUFFICES ASSUME NEW v \in Server
                PROVE  matrix[s][v] = knowledge[s][s][v]
    OBVIOUS
  <2>1. summary[s][v] <= logged[s][v]
    BY <1>0 DEF Below
  <2>2. knowledge[s][s][v] = logged[s][v]
    BY <1>0 DEF RestartLosesNothing
  <2>. QED
    BY <1>0, <1>2, <2>1, <2>2
<1>8. KnowledgeSound'
  <2>. SUFFICES ASSUME NEW t \in Server, NEW u \in Server, NEW v \in Server
                PROVE  knowledge'[t][u][v] <= logged[u][v]
    BY <1>3 DEF KnowledgeSound
  <2>1. CASE t = s
    BY <1>5, <1>6, <2>1
  <2>2. CASE t # s
    BY <1>0, <1>5, <2>2 DEF KnowledgeSound
  <2>. QED
    BY <2>1, <2>2
<1>9. RestartLosesNothing'
  <2>1. ASSUME NEW t \in Joined, NEW v \in Server
        PROVE  /\ applied_to_state'[t][v] = logged'[t][v]
               /\ knowledge'[t][t][v] = logged'[t][v]
    <3>1. /\ applied_to_state[t][v] = logged[t][v]
          /\ knowledge[t][t][v] = logged[t][v]
      BY <1>0 DEF RestartLosesNothing
    <3>2. knowledge'[t][t][v] = knowledge[t][t][v]
      BY <1>5, <1>7 DEF Joined
    <3>. QED
      BY <1>3, <3>1, <3>2
  <2>. QED
    BY <2>1, SameJoined DEF RestartLosesNothing
<1>10. applied_to_state[s] = matrix[s]
  <2>1. \A v \in Server : applied_to_state[s][v] = matrix[s][v]
    BY <1>0, <1>7 DEF RestartLosesNothing
  <2>2. applied_to_state[s] \in [Server -> Nat] /\ matrix[s] \in [Server -> Nat]
    BY <1>0, <1>1 DEF TypeOK, MemoryTypeOK, Counts, Knowledge
  <2>. QED
    BY <2>1, <2>2
<1>11. CASE UNCHANGED <<safe_delivered, log_files, stateFiles>>
  <2>1. /\ safe_delivered' = safe_delivered /\ log_files' = log_files
        /\ inbox_state' = inbox_state /\ log_state' = log_state
    BY <1>11 DEF stateFiles
  <2>2. SavedSound' /\ LogComplete'
    BY <1>0, <1>3, <2>1 DEF SavedSound, LogComplete, Below
  <2>3. SafeSound'
    <3>. SUFFICES ASSUME NEW t \in Server, phase[t] # "down", NEW v \in Server
                  PROVE  /\ log_state[t][v] <= safe_delivered[t][v]
                         /\ \A u \in Server : safe_delivered[t][v] <= knowledge'[t][u][v]
      BY <2>1 DEF SafeSound, SamePhases
    <3>1. /\ log_state[t][v] <= safe_delivered[t][v]
          /\ \A u \in Server : safe_delivered[t][v] <= knowledge[t][u][v]
      BY <1>0 DEF SafeSound
    <3>2. ASSUME NEW u \in Server
          PROVE  safe_delivered[t][v] <= knowledge'[t][u][v]
      <4>1. /\ safe_delivered[t][v] \in Nat /\ knowledge[t][u][v] \in Nat
            /\ knowledge'[t][u][v] \in Nat
        BY <1>0 DEF Entries
      <4>2. knowledge[t][u][v] <= knowledge'[t][u][v]
        BY <1>2, <1>5, <4>1
      <4>. QED
        BY <3>1, <4>1, <4>2
    <3>. QED
      BY <3>1, <3>2
  <2>4. LoadingSound'
    <3>. SUFFICES ASSUME NEW t \in Server, phase[t] = "loading"
                  PROVE  knowledge'[t] = knowledge[t]
      BY <1>0, <1>3, <2>1 DEF LoadingSound, SamePhases
    <3>. QED
      BY <1>0, <1>5
  <2>. QED
    BY <1>3, <1>8, <1>9, <2>2, <2>3, <2>4 DEF CoreInv
<1>12. CASE CollectGarbage(s, matrix)
  <2>1. \A u, v \in Server : safe_delivered[s][v] <= matrix[u][v]
    <3>. SUFFICES ASSUME NEW u \in Server, NEW v \in Server
                  PROVE  safe_delivered[s][v] <= matrix[u][v]
      OBVIOUS
    <3>1. safe_delivered[s][v] <= knowledge[s][u][v]
      BY <1>0 DEF SafeSound
    <3>2. safe_delivered[s][v] \in Nat /\ knowledge[s][u][v] \in Nat
      BY <1>0 DEF Entries
    <3>. QED
      BY <1>2, <3>1, <3>2
  <2>0. OthersUntouched(s) /\ SafeRaised(s, matrix) /\ SavedUpToSafe(s, matrix)
    BY <1>0, <1>1, <1>12, <2>1, CollectGarbageSafe
  <2>2. \A t \in Server : t # s =>
          /\ safe_delivered'[t] = safe_delivered[t]
          /\ log_state'[t] = log_state[t]
          /\ log_files'[t] = log_files[t]
          /\ inbox_state'[t] = inbox_state[t]
    BY <2>0 DEF OthersUntouched
  <2>3. \A v \in Server :
          /\ safe_delivered[s][v] <= safe_delivered'[s][v]
          /\ \A u \in Server : safe_delivered'[s][v] <= matrix[u][v]
          /\ log_files'[s][v] \subseteq log_files[s][v]
    BY <2>0 DEF SafeRaised
  <2>4. \/ /\ UNCHANGED stateFiles
           /\ log_files'[s] = log_files[s]
        \/ /\ inbox_state'[s] = [knowledge |-> matrix,
                                 applied_to_state |-> applied_to_state[s]]
           /\ \A v \in Server :
                /\ safe_delivered[s][v] <= log_state'[s][v]
                /\ log_state'[s][v] <= safe_delivered'[s][v]
                /\ \A i \in log_files[s][v] :
                     i > log_state'[s][v] => i \in log_files'[s][v]
    BY <2>0 DEF SavedUpToSafe
  <2>5. LoadingSound'
    <3>. SUFFICES ASSUME NEW t \in Server, phase[t] = "loading"
                  PROVE  /\ knowledge'[t] = knowledge[t]
                         /\ safe_delivered'[t] = safe_delivered[t]
                         /\ log_state'[t] = log_state[t]
      BY <1>0, <1>3 DEF LoadingSound, SamePhases
    <3>. QED
      BY <1>0, <1>5, <2>2
  <2>6. \A v \in Server : /\ log_state[s][v] <= log_state'[s][v]
                          /\ log_state'[s][v] <= safe_delivered'[s][v]
    <3>. SUFFICES ASSUME NEW v \in Server
                  PROVE  /\ log_state[s][v] <= log_state'[s][v]
                         /\ log_state'[s][v] <= safe_delivered'[s][v]
      OBVIOUS
    <3>1. log_state[s][v] <= safe_delivered[s][v]
      BY <1>0 DEF SafeSound
    <3>2. /\ log_state[s][v] \in Nat /\ log_state'[s][v] \in Nat
          /\ safe_delivered[s][v] \in Nat /\ safe_delivered'[s][v] \in Nat
      BY <1>0 DEF Entries
    <3>3. CASE UNCHANGED stateFiles
      BY <2>3, <3>1, <3>2, <3>3 DEF stateFiles
    <3>4. CASE ~ UNCHANGED stateFiles
      BY <2>4, <3>1, <3>2, <3>4
    <3>. QED
      BY <3>3, <3>4
  <2>7. SafeSound'
    <3>. SUFFICES ASSUME NEW t \in Server, phase[t] # "down", NEW v \in Server
                  PROVE  /\ log_state'[t][v] <= safe_delivered'[t][v]
                         /\ \A u \in Server : safe_delivered'[t][v] <= knowledge'[t][u][v]
      BY DEF SafeSound, SamePhases
    <3>1. CASE t = s
      BY <1>5, <2>3, <2>6, <3>1
    <3>2. CASE t # s
      BY <1>0, <1>5, <2>2, <3>2 DEF SafeSound
    <3>. QED
      BY <3>1, <3>2
  <2>8. SavedSound'
    <3>. SUFFICES ASSUME NEW t \in Server
                  PROVE  /\ Below(inbox_state'[t].knowledge, logged)
                         /\ inbox_state'[t].applied_to_state = inbox_state'[t].knowledge[t]
                         /\ \A u, v \in Server :
                              log_state'[t][v] <= inbox_state'[t].knowledge[u][v]
      BY <1>3 DEF SavedSound
    <3>1. CASE t # s \/ UNCHANGED stateFiles
      <4>1. inbox_state'[t] = inbox_state[t] /\ log_state'[t] = log_state[t]
        BY <2>2, <3>1 DEF stateFiles
      <4>. QED
        BY <1>0, <4>1 DEF SavedSound
    <3>2. CASE t = s /\ ~ UNCHANGED stateFiles
      <4>1. /\ inbox_state'[s].knowledge = matrix
            /\ inbox_state'[s].applied_to_state = applied_to_state[s]
        BY <2>4, <3>2
      <4>2. Below(matrix, logged)
        BY <1>6 DEF Below
      <4>3. ASSUME NEW u \in Server, NEW v \in Server
            PROVE  log_state'[s][v] <= matrix[u][v]
        <5>1. log_state'[s][v] <= safe_delivered'[s][v]
          BY <2>6
        <5>2. safe_delivered'[s][v] <= matrix[u][v]
          BY <2>3
        <5>3. log_state'[s][v] \in Nat /\ safe_delivered'[s][v] \in Nat /\ matrix[u][v] \in Nat
          BY <1>0, <1>2 DEF Entries
        <5>. QED
          BY <5>1, <5>2, <5>3
      <4>. QED
        BY <1>10, <3>2, <4>1, <4>2, <4>3
    <3>. QED
      BY <3>1, <3>2
  <2>9. LogComplete'
    <3>. SUFFICES ASSUME NEW t \in Server, NEW v \in Server
                  PROVE  /\ log_files'[t][v] \subseteq 1 .. logged[t][v]
                         /\ log_state'[t][v] + 1 .. logged[t][v] \subseteq log_files'[t][v]
      BY <1>3 DEF LogComplete
    <3>1. /\ log_files[t][v] \subseteq 1 .. logged[t][v]
          /\ log_state[t][v] + 1 .. logged[t][v] \subseteq log_files[t][v]
      BY <1>0 DEF LogComplete
    <3>2. CASE t # s \/ UNCHANGED stateFiles
      <4>1. CASE t # s
        BY <2>2, <3>1, <4>1
      <4>2. CASE t = s /\ UNCHANGED stateFiles
        <5>1. CASE log_files'[s] = log_files[s]
          BY <3>1, <4>2, <5>1 DEF stateFiles
        <5>2. CASE ~ (log_files'[s] = log_files[s])
          <6>1. \A i \in log_files[s][v] : i > log_state'[s][v] => i \in log_files'[s][v]
            BY <2>4, <5>2
          <6>2. \A i \in log_state'[s][v] + 1 .. logged[s][v] : i > log_state'[s][v]
            BY <1>0 DEF Entries
          <6>3. log_files'[s][v] \subseteq log_files[s][v]
            BY <2>3
          <6>4. log_state'[s] = log_state[s]
            BY <4>2 DEF stateFiles
          <6>. QED
            BY <3>1, <4>2, <6>1, <6>2, <6>3, <6>4
        <5>. QED
          BY <5>1, <5>2
      <4>. QED
        BY <3>2, <4>1, <4>2
    <3>3. CASE t = s /\ ~ UNCHANGED stateFiles
      <4>1. \A i \in log_files[s][v] : i > log_state'[s][v] => i \in log_files'[s][v]
        BY <2>4, <3>3
      <4>2. \A i \in log_state'[s][v] + 1 .. logged[s][v] :
              i > log_state'[s][v] /\ i \in log_state[s][v] + 1 .. logged[s][v]
        <5>1. log_state[s][v] \in Nat /\ log_state'[s][v] \in Nat /\ logged[s][v] \in Nat
          BY <1>0 DEF Entries
        <5>. QED
          BY <2>6, <5>1
      <4>3. log_files'[s][v] \subseteq log_files[s][v]
        BY <2>3
      <4>. QED
        BY <3>1, <3>3, <4>1, <4>2, <4>3
    <3>. QED
      BY <3>2, <3>3
  <2>. QED
    BY <1>3, <1>8, <1>9, <2>5, <2>7, <2>8, <2>9 DEF CoreInv
<1>. QED
  BY <1>4, <1>11, <1>12

-----------------------------------------------------------------------------
(* Crash and recovery.                                                     *)

LEMMA LoadingEntries ==
  ASSUME ReplicationInv, NEW s \in Server, phase[s] = "loading"
  PROVE  LET o == cursor[s].origin
             i == cursor[s].index
         IN  /\ o \in Server /\ i \in Nat
             /\ log_state[s][o] \in Nat /\ applied_to_state[s][o] \in Nat
             /\ logged[s][o] \in Nat
             /\ log_state[s][o] < i
             /\ i <= applied_to_state[s][o] + 1
             /\ applied_to_state[s] = knowledge[s][s]
             /\ safe_delivered[s] = log_state[s]
             /\ applied_to_state[s][o] <= logged[s][o]
<1>. USE DEF ReplicationInv
<1>1. cursor[s].origin \in Server /\ cursor[s].index \in Nat
  BY DEF TypeOK, SynchTypeOK
<1>2. Entries
  BY EntryTypes
<1>3. applied_to_state[s][cursor[s].origin] <= logged[s][cursor[s].origin]
  BY <1>1 DEF KnowledgeSound, LoadingSound
<1>. QED
  BY <1>1, <1>2, <1>3 DEF LoadingSound, Entries

(* A log record is replayed only as the next command of its origin.        *)
LEMMA ReplayCore ==
  ASSUME ReplicationInv, TypeOK', NEW s \in Server, ReplayLogRecord(s)
  PROVE  CoreInv' /\ UNCHANGED logged
<1>. DEFINE o == cursor[s].origin
            i == cursor[s].index
<1>0. /\ TypeOK /\ KnowledgeSound /\ RestartLosesNothing /\ SavedSound
      /\ SafeSound /\ LogComplete /\ LoadingSound
      /\ Entries /\ Entries'
  BY EntryTypes, EntryTypesNext DEF ReplicationInv
<1>1. /\ phase[s] = "loading" /\ i \in log_files[s][o]
      /\ UNCHANGED <<log_files, logged, phase>>
      /\ cursor' = [cursor EXCEPT ![s].index = @ + 1]
  BY DEF ReplayLogRecord
<1>2. /\ o \in Server /\ i \in Nat
      /\ log_state[s][o] \in Nat /\ applied_to_state[s][o] \in Nat
      /\ logged[s][o] \in Nat
      /\ log_state[s][o] < i
      /\ i <= applied_to_state[s][o] + 1
      /\ applied_to_state[s] = knowledge[s][s]
      /\ safe_delivered[s] = log_state[s]
  BY <1>1, LoadingEntries
<1>3. SamePhases /\ Joined' = Joined /\ s \notin Joined
  BY <1>1 DEF SamePhases, Joined
<1>4. /\ cursor'[s].origin = o /\ cursor'[s].index = i + 1
      /\ \A t \in Server : t # s => cursor'[t] = cursor[t]
  <2>1. cursor \in [Server -> [origin : Server, index : Nat]]
    BY <1>0 DEF TypeOK, SynchTypeOK
  <2>2. cursor' = [cursor EXCEPT ![s] = [cursor[s] EXCEPT !.index = @ + 1]]
    BY <1>1
  <2>. QED
    BY <2>1, <2>2
<1>5. i <= logged[s][o]
  BY <1>0, <1>1, <1>2 DEF LogComplete
<1>6. Below(logged, logged')
  BY <1>0, <1>1 DEF Below, Entries
<1>7. \/ /\ i > applied_to_state[s][o]
         /\ ApplyCommandToState(s, o, i)
      \/ /\ i <= applied_to_state[s][o]
         /\ UNCHANGED <<knowledge, applied_to_state, safe_delivered, stateFiles>>
  BY DEF ReplayLogRecord
<1>. HIDE DEF o, i
<1>8. CASE i > applied_to_state[s][o] /\ ApplyCommandToState(s, o, i)
  <2>1. i = applied_to_state[s][o] + 1
    BY <1>2, <1>8
  <2>2. knowledge[s][s][o] + 1 <= logged'[s][o]
    BY <1>1, <1>2, <1>5, <2>1
  <2>3. /\ KnowledgeSound' /\ SavedSound' /\ SafeSound'
        /\ applied_to_state'[s] = knowledge'[s][s]
        /\ \A t, v \in Server : log_state[t][v] <= log_state'[t][v]
    BY <1>1, <1>2, <1>3, <1>6, <1>8, <2>2, ApplySound
  <2>4. /\ \A t, u, v \in Server :
              t # s => knowledge'[t][u][v] = knowledge[t][u][v]
        /\ \A t, v \in Server :
              applied_to_state'[t][v] = IF t = s /\ v = o
                                        THEN applied_to_state[t][v] + 1
                                        ELSE applied_to_state[t][v]
        /\ safe_delivered' = safe_delivered
    BY <1>0, <1>2, <1>8, ApplyPointwise
  <2>5. log_state' = log_state \/ log_state' = [log_state EXCEPT ![s] = safe_delivered[s]]
    BY <1>0, <1>2, <1>8, ApplyPointwise DEF stateFiles
  <2>6. log_state' = log_state
    <3>1. log_state \in [Server -> Counts]
      BY <1>0 DEF TypeOK, DiskTypeOK
    <3>. QED
      BY <1>2, <2>5, <3>1
  <2>7. RestartLosesNothing'
    <3>1. \A t \in Joined, v \in Server :
            /\ applied_to_state'[t][v] = logged'[t][v]
            /\ knowledge'[t][t][v] = logged'[t][v]
      BY <1>0, <1>1, <1>3, <2>4 DEF RestartLosesNothing, Joined
    <3>. QED
      BY <1>3, <3>1 DEF RestartLosesNothing
  <2>8. LogComplete'
    BY <1>0, <1>1, <2>6 DEF LogComplete
  <2>9. LoadingSound'
    <3>1. ASSUME NEW t \in Server, phase[t] = "loading", t # s
          PROVE  applied_to_state'[t] = applied_to_state[t] /\ knowledge'[t] = knowledge[t]
      BY <1>0, <1>8, <3>1 DEF ApplyCommandToState, TypeOK, MemoryTypeOK
    <3>2. /\ \A v \in Server : v < o => applied_to_state'[s][v] = logged[s][v]
          /\ log_state[s][o] < i + 1
          /\ i + 1 <= applied_to_state'[s][o] + 1
      <4>1. \A v \in Server : v < o => applied_to_state[s][v] = logged[s][v]
        BY <1>0, <1>1 DEF LoadingSound, o
      <4>2. \A v \in Server : v < o => applied_to_state'[s][v] = applied_to_state[s][v]
        BY <1>2, <2>4 DEF Server
      <4>. QED
        BY <1>2, <2>1, <2>4, <4>1, <4>2
    <3>. SUFFICES ASSUME NEW t \in Server, phase[t] = "loading"
                  PROVE  /\ applied_to_state'[t] = knowledge'[t][t]
                         /\ safe_delivered'[t] = log_state'[t]
                         /\ \A v \in Server : v < cursor'[t].origin =>
                              applied_to_state'[t][v] = logged'[t][v]
                         /\ log_state'[t][cursor'[t].origin] < cursor'[t].index
                         /\ cursor'[t].index <= applied_to_state'[t][cursor'[t].origin] + 1
      BY <1>1 DEF LoadingSound
    <3>3. CASE t = s
      BY <1>1, <1>2, <1>4, <2>3, <2>4, <2>6, <3>2, <3>3
    <3>4. CASE t # s
      BY <1>0, <1>1, <1>4, <2>4, <2>6, <3>1, <3>4 DEF LoadingSound
    <3>. QED
      BY <3>3, <3>4
  <2>. QED
    BY <1>1, <2>3, <2>7, <2>8, <2>9 DEF CoreInv
<1>9. CASE /\ i <= applied_to_state[s][o]
           /\ UNCHANGED <<knowledge, applied_to_state, safe_delivered, stateFiles>>
  <2>1. /\ knowledge' = knowledge /\ applied_to_state' = applied_to_state
        /\ safe_delivered' = safe_delivered
        /\ inbox_state' = inbox_state /\ log_state' = log_state
        /\ log_files' = log_files /\ logged' = logged /\ phase' = phase
    BY <1>1, <1>9 DEF stateFiles
  <2>2. KnowledgeSound' /\ SavedSound' /\ SafeSound' /\ LogComplete'
    BY <1>0, <2>1 DEF KnowledgeSound, SavedSound, SafeSound, LogComplete, Below
  <2>3. RestartLosesNothing'
    BY <1>0, <1>3, <2>1 DEF RestartLosesNothing
  <2>4. LoadingSound'
    <3>. SUFFICES ASSUME NEW t \in Server, phase[t] = "loading"
                  PROVE  /\ applied_to_state[t] = knowledge[t][t]
                         /\ safe_delivered[t] = log_state[t]
                         /\ \A v \in Server : v < cursor'[t].origin =>
                              applied_to_state[t][v] = logged[t][v]
                         /\ log_state[t][cursor'[t].origin] < cursor'[t].index
                         /\ cursor'[t].index <= applied_to_state[t][cursor'[t].origin] + 1
      BY <2>1 DEF LoadingSound
    <3>1. CASE t = s
      <4>1. /\ log_state[s][o] < i + 1
            /\ i + 1 <= applied_to_state[s][o] + 1
        BY <1>2, <1>9
      <4>2. \A v \in Server : v < o => applied_to_state[s][v] = logged[s][v]
        BY <1>0, <1>1 DEF LoadingSound, o
      <4>. QED
        BY <1>2, <1>4, <3>1, <4>1, <4>2
    <3>2. CASE t # s
      BY <1>0, <1>4, <3>2 DEF LoadingSound
    <3>. QED
      BY <3>1, <3>2
  <2>. QED
    BY <2>1, <2>2, <2>3, <2>4 DEF CoreInv
<1>. QED
  BY <1>7, <1>8, <1>9

(* The log of an origin ends where everything it logged is applied again.  *)
LEMMA NextLogCore ==
  ASSUME ReplicationInv, TypeOK', NEW s \in Server, NextLog(s)
  PROVE  CoreInv' /\ UNCHANGED logged
<1>. DEFINE o == cursor[s].origin
            i == cursor[s].index
<1>0. /\ TypeOK /\ KnowledgeSound /\ RestartLosesNothing /\ SavedSound
      /\ SafeSound /\ LogComplete /\ LoadingSound
      /\ Entries /\ Entries'
  BY EntryTypes, EntryTypesNext DEF ReplicationInv
<1>1. phase[s] = "loading" /\ i \notin log_files[s][o]
  BY DEF NextLog
<1>2. /\ o \in Server /\ i \in Nat
      /\ log_state[s][o] \in Nat /\ applied_to_state[s][o] \in Nat
      /\ logged[s][o] \in Nat
      /\ log_state[s][o] < i
      /\ i <= applied_to_state[s][o] + 1
      /\ applied_to_state[s] = knowledge[s][s]
      /\ safe_delivered[s] = log_state[s]
      /\ applied_to_state[s][o] <= logged[s][o]
  BY <1>1, LoadingEntries
<1>3. applied_to_state[s][o] = logged[s][o]
  <2>1. log_state[s][o] + 1 .. logged[s][o] \subseteq log_files[s][o]
    BY <1>0, <1>2 DEF LogComplete
  <2>2. i \notin log_state[s][o] + 1 .. logged[s][o]
    BY <1>1, <2>1
  <2>. QED
    BY <1>2, <2>2
<1>4. \A v \in Server : v < o + 1 => applied_to_state[s][v] = logged[s][v]
  <2>1. \A v \in Server : v < o => applied_to_state[s][v] = logged[s][v]
    BY <1>0, <1>1 DEF LoadingSound
  <2>2. \A v \in Server : v < o + 1 => v < o \/ v = o
    BY <1>2 DEF Server
  <2>. QED
    BY <1>3, <2>1, <2>2
<1>5. /\ knowledge' = knowledge /\ applied_to_state' = applied_to_state
      /\ safe_delivered' = safe_delivered
      /\ inbox_state' = inbox_state /\ log_state' = log_state
      /\ log_files' = log_files /\ logged' = logged
  BY DEF NextLog, memoryVars, diskVars
<1>6. KnowledgeSound' /\ SavedSound' /\ LogComplete'
  BY <1>0, <1>5 DEF KnowledgeSound, SavedSound, LogComplete, Below
<1>7. \/ /\ o + 1 \in Server
         /\ cursor' = [cursor EXCEPT ![s] =
                        [origin |-> o + 1, index |-> safe_delivered[s][o + 1] + 1]]
         /\ UNCHANGED phase
      \/ /\ o + 1 \notin Server
         /\ phase' = [phase EXCEPT ![s] = "main"]
         /\ cursor' = [cursor EXCEPT ![s] = [origin |-> 0, index |-> 0]]
  BY DEF NextLog
<1>8. cursor \in [Server -> [origin : Server, index : Nat]] /\ phase \in [Server -> Phase]
  BY <1>0 DEF TypeOK, SynchTypeOK
<1>. HIDE DEF o, i
<1>9. CASE /\ o + 1 \in Server
           /\ cursor' = [cursor EXCEPT ![s] =
                          [origin |-> o + 1, index |-> safe_delivered[s][o + 1] + 1]]
           /\ UNCHANGED phase
  <2>1. Joined' = Joined
    BY <1>9 DEF Joined
  <2>2. RestartLosesNothing' /\ SafeSound'
    BY <1>0, <1>5, <1>9, <2>1 DEF RestartLosesNothing, SafeSound
  <2>3. /\ cursor'[s].origin = o + 1 /\ cursor'[s].index = safe_delivered[s][o + 1] + 1
        /\ \A t \in Server : t # s => cursor'[t] = cursor[t]
    BY <1>8, <1>9
  <2>4. /\ log_state[s][o + 1] < safe_delivered[s][o + 1] + 1
        /\ safe_delivered[s][o + 1] + 1 <= applied_to_state[s][o + 1] + 1
    <3>1. safe_delivered[s][o + 1] <= knowledge[s][s][o + 1]
      BY <1>0, <1>1, <1>9 DEF SafeSound
    <3>2. /\ log_state[s][o + 1] \in Nat /\ safe_delivered[s][o + 1] \in Nat
          /\ applied_to_state[s][o + 1] \in Nat
      BY <1>0, <1>9 DEF Entries
    <3>. QED
      BY <1>2, <3>1, <3>2
  <2>5. LoadingSound'
    <3>. SUFFICES ASSUME NEW t \in Server, phase[t] = "loading"
                  PROVE  /\ applied_to_state[t] = knowledge[t][t]
                         /\ safe_delivered[t] = log_state[t]
                         /\ \A v \in Server : v < cursor'[t].origin =>
                              applied_to_state[t][v] = logged[t][v]
                         /\ log_state[t][cursor'[t].origin] < cursor'[t].index
                         /\ cursor'[t].index <= applied_to_state[t][cursor'[t].origin] + 1
      BY <1>5, <1>9 DEF LoadingSound
    <3>1. CASE t = s
      BY <1>2, <1>4, <2>3, <2>4, <3>1
    <3>2. CASE t # s
      BY <1>0, <2>3, <3>2 DEF LoadingSound
    <3>. QED
      BY <3>1, <3>2
  <2>. QED
    BY <1>5, <1>6, <2>2, <2>5 DEF CoreInv
<1>10. CASE /\ o + 1 \notin Server
            /\ phase' = [phase EXCEPT ![s] = "main"]
            /\ cursor' = [cursor EXCEPT ![s] = [origin |-> 0, index |-> 0]]
  <2>1. \A v \in Server : v < o + 1
    BY <1>2, <1>10, NMachinesAssumption DEF Server
  <2>2. \A v \in Server : /\ applied_to_state[s][v] = logged[s][v]
                          /\ knowledge[s][s][v] = logged[s][v]
    BY <1>2, <1>4, <2>1
  <2>3. phase'[s] = "main" /\ \A t \in Server : t # s => phase'[t] = phase[t]
    BY <1>8, <1>10
  <2>4. \A t \in Joined' : t = s \/ t \in Joined
    BY <2>3 DEF Joined
  <2>5. RestartLosesNothing'
    <3>. SUFFICES ASSUME NEW t \in Joined', NEW v \in Server
                  PROVE  /\ applied_to_state[t][v] = logged[t][v]
                         /\ knowledge[t][t][v] = logged[t][v]
      BY <1>5 DEF RestartLosesNothing
    <3>. QED
      BY <1>0, <2>2, <2>4 DEF RestartLosesNothing
  <2>6. SafeSound'
    <3>. SUFFICES ASSUME NEW t \in Server, phase'[t] # "down"
                  PROVE  phase[t] # "down"
      BY <1>0, <1>5 DEF SafeSound
    <3>. QED
      BY <1>1, <2>3
  <2>7. LoadingSound'
    <3>. SUFFICES ASSUME NEW t \in Server, phase'[t] = "loading"
                  PROVE  phase[t] = "loading" /\ cursor'[t] = cursor[t]
      BY <1>0, <1>5 DEF LoadingSound
    <3>1. t # s
      BY <2>3
    <3>. QED
      BY <1>8, <1>10, <2>3, <3>1
  <2>. QED
    BY <1>5, <1>6, <2>5, <2>6, <2>7 DEF CoreInv
<1>. QED
  BY <1>7, <1>9, <1>10

(* The files of a crashed server are what the next start reads.            *)
LEMMA CrashCore ==
  ASSUME ReplicationInv, TypeOK', NEW s \in Server, Crash(s)
  PROVE  CoreInv' /\ UNCHANGED logged
<1>0. /\ TypeOK /\ KnowledgeSound /\ RestartLosesNothing /\ SavedSound
      /\ SafeSound /\ LogComplete /\ LoadingSound /\ Entries
  BY EntryTypes DEF ReplicationInv
<1>1. /\ inbox_state' = inbox_state /\ log_state' = log_state
      /\ log_files' = log_files /\ logged' = logged /\ cursor' = cursor
  BY DEF Crash, diskVars
<1>2. /\ phase'[s] = "down"
      /\ knowledge'[s] = [t \in Server |-> Zeros]
      /\ \A t \in Server : t # s => /\ phase'[t] = phase[t]
                                    /\ knowledge'[t] = knowledge[t]
                                    /\ applied_to_state'[t] = applied_to_state[t]
                                    /\ safe_delivered'[t] = safe_delivered[t]
  BY <1>0 DEF Crash, TypeOK, MemoryTypeOK, SynchTypeOK
<1>3. KnowledgeSound'
  <2>. SUFFICES ASSUME NEW t \in Server, NEW u \in Server, NEW v \in Server
                PROVE  knowledge'[t][u][v] <= logged[u][v]
    BY <1>1 DEF KnowledgeSound
  <2>1. CASE t = s
    BY <1>0, <1>2, <2>1 DEF Zeros, Entries
  <2>2. CASE t # s
    BY <1>0, <1>2, <2>2 DEF KnowledgeSound
  <2>. QED
    BY <2>1, <2>2
<1>4. RestartLosesNothing'
  <2>. SUFFICES ASSUME NEW t \in Joined', NEW v \in Server
                PROVE  /\ applied_to_state'[t][v] = logged[t][v]
                       /\ knowledge'[t][t][v] = logged[t][v]
    BY <1>1 DEF RestartLosesNothing
  <2>1. t \in Joined /\ t # s /\ t \in Server
    BY <1>2 DEF Joined
  <2>. QED
    BY <1>0, <1>2, <2>1 DEF RestartLosesNothing
<1>5. SavedSound' /\ LogComplete'
  BY <1>0, <1>1 DEF SavedSound, LogComplete, Below
<1>6. SafeSound' /\ LoadingSound'
  BY <1>0, <1>1, <1>2 DEF SafeSound, LoadingSound
<1>. QED
  BY <1>1, <1>3, <1>4, <1>5, <1>6 DEF CoreInv

LEMMA RestartCore ==
  ASSUME ReplicationInv, TypeOK', NEW s \in Server, Restart(s)
  PROVE  CoreInv' /\ UNCHANGED logged
<1>0. /\ TypeOK /\ KnowledgeSound /\ RestartLosesNothing /\ SavedSound
      /\ SafeSound /\ LogComplete /\ LoadingSound /\ Entries
  BY EntryTypes DEF ReplicationInv
<1>1. /\ inbox_state' = inbox_state /\ log_state' = log_state
      /\ log_files' = log_files /\ logged' = logged
  BY DEF Restart, diskVars
<1>2. /\ phase'[s] = "loading"
      /\ knowledge'[s] = inbox_state[s].knowledge
      /\ applied_to_state'[s] = inbox_state[s].applied_to_state
      /\ safe_delivered'[s] = log_state[s]
      /\ cursor'[s] = [origin |-> 0, index |-> log_state[s][0] + 1]
      /\ \A t \in Server : t # s => /\ phase'[t] = phase[t]
                                    /\ knowledge'[t] = knowledge[t]
                                    /\ applied_to_state'[t] = applied_to_state[t]
                                    /\ safe_delivered'[t] = safe_delivered[t]
                                    /\ cursor'[t] = cursor[t]
  BY <1>0 DEF Restart, TypeOK, MemoryTypeOK, SynchTypeOK
<1>3. /\ \A t, v \in Server : inbox_state[s].knowledge[t][v] <= logged[t][v]
      /\ inbox_state[s].applied_to_state = inbox_state[s].knowledge[s]
      /\ \A t, v \in Server : log_state[s][v] <= inbox_state[s].knowledge[t][v]
  BY <1>0 DEF SavedSound, Below
<1>4. KnowledgeSound'
  <2>. SUFFICES ASSUME NEW t \in Server, NEW u \in Server, NEW v \in Server
                PROVE  knowledge'[t][u][v] <= logged[u][v]
    BY <1>1 DEF KnowledgeSound
  <2>1. CASE t = s
    BY <1>2, <1>3, <2>1
  <2>2. CASE t # s
    BY <1>0, <1>2, <2>2 DEF KnowledgeSound
  <2>. QED
    BY <2>1, <2>2
<1>5. RestartLosesNothing'
  <2>. SUFFICES ASSUME NEW t \in Joined', NEW v \in Server
                PROVE  /\ applied_to_state'[t][v] = logged[t][v]
                       /\ knowledge'[t][t][v] = logged[t][v]
    BY <1>1 DEF RestartLosesNothing
  <2>1. t \in Joined /\ t # s /\ t \in Server
    BY <1>2 DEF Joined
  <2>. QED
    BY <1>0, <1>2, <2>1 DEF RestartLosesNothing
<1>6. SavedSound' /\ LogComplete'
  BY <1>0, <1>1 DEF SavedSound, LogComplete, Below
<1>7. SafeSound'
  <2>. SUFFICES ASSUME NEW t \in Server, phase'[t] # "down", NEW v \in Server
                PROVE  /\ log_state[t][v] <= safe_delivered'[t][v]
                       /\ \A u \in Server : safe_delivered'[t][v] <= knowledge'[t][u][v]
    BY <1>1 DEF SafeSound
  <2>1. CASE t = s
    <3>1. log_state[s][v] \in Nat
      BY <1>0 DEF Entries
    <3>. QED
      BY <1>2, <1>3, <2>1, <3>1
  <2>2. CASE t # s
    BY <1>0, <1>2, <2>2 DEF SafeSound
  <2>. QED
    BY <2>1, <2>2
<1>8. LoadingSound'
  <2>. SUFFICES ASSUME NEW t \in Server, phase'[t] = "loading"
                PROVE  /\ applied_to_state'[t] = knowledge'[t][t]
                       /\ safe_delivered'[t] = log_state[t]
                       /\ \A v \in Server : v < cursor'[t].origin =>
                            applied_to_state'[t][v] = logged[t][v]
                       /\ log_state[t][cursor'[t].origin] < cursor'[t].index
                       /\ cursor'[t].index <= applied_to_state'[t][cursor'[t].origin] + 1
    BY <1>1 DEF LoadingSound
  <2>1. CASE t = s
    <3>1. cursor'[s].origin = 0 /\ cursor'[s].index = log_state[s][0] + 1
      BY <1>2
    <3>2. \A v \in Server : ~ (v < 0)
      BY DEF Server
    <3>3. log_state[s][0] <= inbox_state[s].knowledge[s][0]
      BY <1>3, ServerNonempty
    <3>4. log_state[s][0] \in Nat /\ inbox_state[s].knowledge[s][0] \in Nat
      BY <1>0, ServerNonempty DEF Entries
    <3>. QED
      BY <1>2, <1>3, <2>1, <3>1, <3>2, <3>3, <3>4
  <2>2. CASE t # s
    BY <1>0, <1>2, <2>2 DEF LoadingSound
  <2>. QED
    BY <2>1, <2>2
<1>. QED
  BY <1>1, <1>4, <1>5, <1>6, <1>7, <1>8 DEF CoreInv

-----------------------------------------------------------------------------
(* No message claims too much.                                             *)

LEMMA MessagesGrow ==
  ASSUME TypeOK, TypeOK', MessagesSound, Below(logged, logged')
  PROVE  \A t \in Server : /\ SummariesBelow(mailbox[t], logged')
                           /\ SummariesBelow(outbox[t], logged')
<1>. SUFFICES ASSUME NEW t \in Server
              PROVE  /\ SummariesBelow(mailbox[t], logged')
                     /\ SummariesBelow(outbox[t], logged')
  OBVIOUS
<1>1. /\ mailbox[t] \in Seq(Message) /\ outbox[t] \in Seq(Multicasts)
      /\ logged \in [Server -> Counts] /\ logged' \in [Server -> Counts]
  BY DEF TypeOK, NetTypeOK, DiskTypeOK
<1>2. outbox[t] \in Seq(Message)
  BY <1>1 DEF Message
<1>3. SummariesBelow(mailbox[t], logged) /\ SummariesBelow(outbox[t], logged)
  BY DEF MessagesSound
<1>. QED
  BY <1>1, <1>2, <1>3, SummariesGrow

(* The server reads a message, multicasts some, or both.                   *)
LEMMA MessagesAfter ==
  ASSUME TypeOK, TypeOK', MessagesSound, Below(logged, logged'),
         NEW s \in Server, NEW messages \in Seq(Multicasts),
         SummariesBelow(messages, logged'),
         UNCHANGED mailbox \/ (mailbox[s] # <<>> /\ ReadNext(s)),
         UNCHANGED outbox \/ Multicast(s, messages)
  PROVE  MessagesSound'
<1>1. \A t \in Server : /\ SummariesBelow(mailbox[t], logged')
                        /\ SummariesBelow(outbox[t], logged')
  BY MessagesGrow
<1>2. /\ mailbox \in [Server -> Seq(Message)]
      /\ outbox \in [Server -> Seq(Multicasts)]
  BY DEF TypeOK, NetTypeOK
<1>3. ASSUME NEW t \in Server
      PROVE  SummariesBelow(mailbox'[t], logged')
  <2>1. CASE UNCHANGED mailbox
    BY <1>1, <2>1
  <2>2. CASE mailbox[s] # <<>> /\ ReadNext(s)
    <3>1. SummariesBelow(Tail(mailbox[s]), logged')
      BY <1>1, <1>2, <2>2, SummariesOfTail
    <3>2. mailbox'[t] = IF t = s THEN Tail(mailbox[s]) ELSE mailbox[t]
      BY <1>2, <2>2 DEF ReadNext
    <3>. QED
      BY <1>1, <3>1, <3>2
  <2>. QED
    BY <2>1, <2>2
<1>4. ASSUME NEW t \in Server
      PROVE  SummariesBelow(outbox'[t], logged')
  <2>1. CASE UNCHANGED outbox
    BY <1>1, <2>1
  <2>2. CASE Multicast(s, messages)
    <3>1. outbox[s] \in Seq(Message) /\ messages \in Seq(Message)
      BY <1>2 DEF Message
    <3>2. SummariesBelow(outbox[s] \o messages, logged')
      BY <1>1, <3>1, SummariesOfConcat
    <3>3. outbox'[t] = IF t = s THEN outbox[s] \o messages ELSE outbox[t]
      BY <1>2, <2>2 DEF Multicast
    <3>. QED
      BY <1>1, <3>2, <3>3
  <2>. QED
    BY <2>1, <2>2
<1>. QED
  BY <1>3, <1>4 DEF MessagesSound

(* What a server says of its knowledge is true when it says it.            *)
LEMMA BroadcastsSound ==
  ASSUME TypeOK', KnowledgeSound', NEW s \in Server, NEW o \in Server, NEW i \in Nat
  PROVE  /\ Broadcasts(s, o, i) \in Seq(Multicasts)
         /\ SummariesBelow(Broadcasts(s, o, i), logged')
<1>. DEFINE mine == <<KnowledgeMessage(s, knowledge'[s])>>
            command == <<CommandMessage(o, i)>>
            first == IF Serializes(s) THEN mine ELSE <<>>
            second == IF o = s THEN command ELSE <<>>
<1>1. knowledge'[s] \in Knowledge
  BY DEF TypeOK, MemoryTypeOK
<1>2. mine \in Seq(Multicasts) /\ command \in Seq(Multicasts)
  BY <1>1, KnowledgeMessageType, CommandMessageType DEF Multicasts
<1>3. SummariesBelow(mine, logged')
  BY DEF SummariesBelow, KnowledgeMessage, Below, KnowledgeSound
<1>4. SummariesBelow(command, logged')
  BY DEF SummariesBelow, CommandMessage
<1>5. <<>> \in Seq(Multicasts) /\ SummariesBelow(<<>>, logged')
  BY DEF SummariesBelow
<1>. HIDE DEF mine, command
<1>6. /\ first \in Seq(Multicasts) /\ second \in Seq(Multicasts)
      /\ SummariesBelow(first, logged') /\ SummariesBelow(second, logged')
  BY <1>2, <1>3, <1>4, <1>5
<1>7. Broadcasts(s, o, i) = first \o second
  BY DEF Broadcasts, mine, command
<1>. HIDE DEF first, second
<1>8. first \in Seq(Message) /\ second \in Seq(Message)
  BY <1>6 DEF Message
<1>9. first \o second \in Seq(Multicasts) /\ SummariesBelow(first \o second, logged')
  BY <1>6, <1>8, SummariesOfConcat
<1>. QED
  BY <1>7, <1>9

-----------------------------------------------------------------------------
(* The inductive invariant.                                                *)

LEMMA InitSafe == Init => ReplicationInv
<1>. SUFFICES ASSUME Init
              PROVE  ReplicationInv
  OBVIOUS
<1>1. TypeOK
  BY InitType
<1>2. \A t, u, v \in Server :
        /\ knowledge[t][u][v] = 0 /\ applied_to_state[t][v] = 0
        /\ safe_delivered[t][v] = 0 /\ log_state[t][v] = 0 /\ logged[t][v] = 0
        /\ log_files[t][v] = {}
        /\ inbox_state[t].knowledge[u][v] = 0
        /\ inbox_state[t].applied_to_state = Zeros
        /\ inbox_state[t].knowledge[u] = Zeros
        /\ phase[t] = "main"
  BY DEF Init, Zeros
<1>3. MessagesSound
  BY DEF Init, NetInit, MessagesSound, SummariesBelow
<1>4. KnowledgeSound /\ RestartLosesNothing /\ SavedSound /\ SafeSound
  BY <1>2 DEF KnowledgeSound, RestartLosesNothing, SavedSound, SafeSound, Below, Joined
<1>5. LogComplete
  BY <1>2 DEF LogComplete
<1>6. LoadingSound
  BY <1>2 DEF LoadingSound
<1>. QED
  BY <1>1, <1>3, <1>4, <1>5, <1>6 DEF ReplicationInv

(* A running server applies a command it took from a client, from its      *)
(* mailbox or from its synch_queue.                                        *)
LEMMA ApplyStep ==
  ASSUME ReplicationInv, TypeOK', SamePhases, UNCHANGED cursor,
         NEW s \in Joined, NEW o \in Server, NEW i \in Nat,
         ApplyNewCommand(s, o, i),
         UNCHANGED mailbox \/ (mailbox[s] # <<>> /\ ReadNext(s))
  PROVE  CoreInv' /\ MessagesSound'
<1>1. CoreInv' /\ Below(logged, logged')
  BY ApplyNewCommandCore
<1>2. s \in Server /\ TypeOK /\ MessagesSound /\ KnowledgeSound'
  BY <1>1 DEF Joined, ReplicationInv, CoreInv
<1>3. /\ Broadcasts(s, o, i) \in Seq(Multicasts)
      /\ SummariesBelow(Broadcasts(s, o, i), logged')
  BY <1>2, BroadcastsSound
<1>4. UNCHANGED outbox \/ Multicast(s, Broadcasts(s, o, i))
  BY DEF ApplyNewCommand
<1>. QED
  BY <1>1, <1>2, <1>3, <1>4, MessagesAfter

(* A step that only reads or multicasts.                                   *)
LEMMA TalkStep ==
  ASSUME ReplicationInv, TypeOK', SamePhases, UNCHANGED <<memoryVars, diskVars, cursor>>,
         NEW s \in Server, NEW messages \in Seq(Multicasts),
         SummariesBelow(messages, logged),
         UNCHANGED mailbox \/ (mailbox[s] # <<>> /\ ReadNext(s)),
         UNCHANGED outbox \/ Multicast(s, messages)
  PROVE  CoreInv' /\ MessagesSound'
<1>1. CoreInv'
  BY CoreUnchanged
<1>2. logged' = logged
  BY DEF diskVars
<1>3. Below(logged, logged')
  BY <1>2, EntryTypes DEF Below, Entries, ReplicationInv
<1>. QED
  BY <1>1, <1>2, <1>3, MessagesAfter DEF ReplicationInv

LEMMA SilentStep ==
  ASSUME ReplicationInv, TypeOK', SamePhases, UNCHANGED <<memoryVars, diskVars, cursor>>,
         UNCHANGED outbox, NEW s \in Server,
         UNCHANGED mailbox \/ (mailbox[s] # <<>> /\ ReadNext(s))
  PROVE  CoreInv' /\ MessagesSound'
<1>1. <<>> \in Seq(Multicasts) /\ SummariesBelow(<<>>, logged)
  BY DEF SummariesBelow
<1>. QED
  BY <1>1, TalkStep

(* What the group does to the messages in its hands.                       *)
LEMMA DeliverSound ==
  ASSUME TypeOK, MessagesSound, NEW s \in Server, Deliver(s), UNCHANGED logged
  PROVE  MessagesSound'
<1>1. /\ mailbox \in [Server -> Seq(Message)]
      /\ outbox \in [Server -> Seq(Multicasts)] /\ outbox[s] # <<>>
  BY DEF TypeOK, NetTypeOK, Deliver
<1>. DEFINE m == Head(outbox[s])
<1>2. outbox[s] \in Seq(Message) /\ m \in Message
  BY <1>1, HeadTailProperties DEF Message
<1>3. m.type = "KNOWLEDGE" => Below(m.summary, logged)
  <2>1. SummariesBelow(outbox[s], logged)
    BY DEF MessagesSound
  <2>2. m = outbox[s][1] /\ 1 \in 1 .. Len(outbox[s])
    BY <1>1
  <2>. QED
    BY <2>1, <2>2 DEF SummariesBelow
<1>4. SummariesBelow(Tail(outbox[s]), logged)
  BY <1>1, <1>2, SummariesOfTail DEF MessagesSound
<1>5. /\ \A t \in Server : mailbox'[t] = mailbox[t] \/ mailbox'[t] = Append(mailbox[t], m)
      /\ \A t \in Server : outbox'[t] = outbox[t] \/ outbox'[t] = Tail(outbox[s])
  BY <1>1 DEF Deliver
<1>. HIDE DEF m
<1>6. \A t \in Server : SummariesBelow(Append(mailbox[t], m), logged)
  BY <1>1, <1>2, <1>3, SummariesOfAppend DEF MessagesSound
<1>. QED
  BY <1>4, <1>5, <1>6 DEF MessagesSound

LEMMA InstallViewSound ==
  ASSUME TypeOK, MessagesSound, NEW s \in Server, InstallView(s, Joined), UNCHANGED logged
  PROVE  MessagesSound'
<1>. DEFINE m == [type |-> "MEMBERSHIP", members |-> Reached(s, Joined)]
<1>1. mailbox \in [Server -> Seq(Message)] /\ m \in Message
  <2>1. Reached(s, Joined) \in SUBSET Server
    BY DEF Reached, Joined
  <2>. QED
    BY <2>1 DEF TypeOK, NetTypeOK, Message, Membership
<1>2. m.type # "KNOWLEDGE"
  OBVIOUS
<1>3. /\ \A t \in Server : mailbox'[t] = mailbox[t] \/ mailbox'[t] = Append(mailbox[t], m)
      /\ outbox' = outbox
  BY DEF InstallView
<1>. HIDE DEF m
<1>4. \A t \in Server : SummariesBelow(Append(mailbox[t], m), logged)
  BY <1>1, <1>2, SummariesOfAppend DEF MessagesSound
<1>. QED
  BY <1>3, <1>4 DEF MessagesSound

LEMMA NextSafe == ReplicationInv /\ TypeOK' /\ [Next]_vars => CoreInv' /\ MessagesSound'
<1>. SUFFICES ASSUME ReplicationInv, TypeOK', [Next]_vars
              PROVE  CoreInv' /\ MessagesSound'
  OBVIOUS
<1>0. TypeOK /\ MessagesSound /\ KnowledgeSound
  BY DEF ReplicationInv
<1>1. ASSUME NEW s \in Server, NewCommand(s)
      PROVE  CoreInv' /\ MessagesSound'
  <2>1. knowledge[s][s][s] + 1 \in Nat
    BY <1>0, EntryTypes DEF Entries
  <2>2. s \in Joined /\ SamePhases /\ UNCHANGED <<cursor, mailbox>>
    BY <1>1 DEF NewCommand, Joined, SamePhases
  <2>. QED
    BY <1>1, <2>1, <2>2, ApplyStep DEF NewCommand
<1>2. ASSUME NEW s \in Server, StashCommand(s)
      PROVE  CoreInv' /\ MessagesSound'
  <2>1. SamePhases /\ UNCHANGED <<memoryVars, diskVars, cursor, mailbox, outbox>>
    BY <1>2 DEF StashCommand, SamePhases, netVars
  <2>. QED
    BY <2>1, SilentStep
<1>3. ASSUME NEW s \in Server, ReadCommand(s)
      PROVE  CoreInv' /\ MessagesSound'
  <2>1. mailbox[s] # <<>> /\ Head(mailbox[s]).type = "COMMAND" /\ ReadNext(s)
    BY <1>3 DEF ReadCommand, NextIs
  <2>2. Head(mailbox[s]) \in Command
    BY <1>0, <2>1, ReadType DEF Message, Multicasts, Membership
  <2>3. SamePhases /\ UNCHANGED cursor
    BY <1>3 DEF ReadCommand, SamePhases
  <2>4. CASE /\ phase[s] = "main"
             /\ ApplyNewCommand(s, Head(mailbox[s]).origin, Head(mailbox[s]).index)
    <3>1. s \in Joined
      BY <2>4 DEF Joined
    <3>2. Head(mailbox[s]).origin \in Server /\ Head(mailbox[s]).index \in Nat
      BY <2>2 DEF Command
    <3>. QED
      BY <2>1, <2>3, <2>4, <3>1, <3>2, ApplyStep
  <2>5. CASE UNCHANGED <<memoryVars, diskVars, outbox>>
    BY <2>1, <2>3, <2>5, SilentStep
  <2>. QED
    BY <1>3, <2>4, <2>5 DEF ReadCommand
<1>4. ASSUME NEW s \in Server, ReadKnowledge(s)
      PROVE  CoreInv' /\ MessagesSound'
  <2>1. mailbox[s] # <<>> /\ Head(mailbox[s]).type = "KNOWLEDGE" /\ ReadNext(s)
    BY <1>4 DEF ReadKnowledge, NextIs
  <2>2. mailbox[s] \in Seq(Message) /\ Head(mailbox[s]) = mailbox[s][1]
        /\ 1 \in 1 .. Len(mailbox[s])
    BY <1>0, <2>1 DEF TypeOK, NetTypeOK
  <2>3. Head(mailbox[s]).summary \in Knowledge
    BY <2>1, <2>2, SummaryType
  <2>4. Below(Head(mailbox[s]).summary, logged)
    BY <1>0, <2>1, <2>2 DEF MessagesSound, SummariesBelow
  <2>5. s \in Joined /\ SamePhases /\ UNCHANGED <<cursor, outbox>>
    BY <1>4 DEF ReadKnowledge, Waiting, Joined, SamePhases
  <2>6. CoreInv' /\ UNCHANGED logged
    BY <1>4, <2>3, <2>4, <2>5, UpdateKnowledgeCore DEF ReadKnowledge
  <2>7. Below(logged, logged')
    BY <1>0, <2>6, EntryTypes DEF Below, Entries
  <2>8. <<>> \in Seq(Multicasts) /\ SummariesBelow(<<>>, logged')
    BY DEF SummariesBelow
  <2>. QED
    BY <1>0, <2>1, <2>5, <2>6, <2>7, <2>8, MessagesAfter
<1>5. ASSUME NEW s \in Server, ReadMembership(s)
      PROVE  CoreInv' /\ MessagesSound'
  <2>. DEFINE mine == <<KnowledgeMessage(s, knowledge[s])>>
  <2>1. mailbox[s] # <<>> /\ ReadNext(s) /\ Multicast(s, mine)
    BY <1>5 DEF ReadMembership, NextIs
  <2>2. SamePhases
    BY <1>0, <1>5 DEF ReadMembership, Waiting, SamePhases, TypeOK, SynchTypeOK
  <2>3. UNCHANGED <<memoryVars, diskVars, cursor>>
    BY <1>5 DEF ReadMembership
  <2>4. mine \in Seq(Multicasts)
    BY <1>0, KnowledgeMessageType DEF TypeOK, MemoryTypeOK
  <2>5. SummariesBelow(mine, logged)
    BY <1>0 DEF SummariesBelow, KnowledgeMessage, Below, KnowledgeSound
  <2>. HIDE DEF mine
  <2>. QED
    BY <2>1, <2>2, <2>3, <2>4, <2>5, TalkStep
<1>6. ASSUME NEW s \in Server, FinishWaiting(s)
      PROVE  CoreInv' /\ MessagesSound'
  <2>1. SamePhases
    BY <1>0, <1>6 DEF FinishWaiting, Finishing, SamePhases, TypeOK, SynchTypeOK
  <2>2. UNCHANGED <<memoryVars, diskVars, cursor, mailbox, outbox>>
    BY <1>6 DEF FinishWaiting, netVars
  <2>. QED
    BY <2>1, <2>2, SilentStep
<1>7. ASSUME NEW s \in Server, SendSynchCommands(s)
      PROVE  CoreInv' /\ MessagesSound'
  <2>. DEFINE o == Min(need_to_send[s])
  <2>1. o \in Server
    <3>1. need_to_send[s] \in SUBSET Server /\ need_to_send[s] # {}
      BY <1>0, <1>7 DEF SendSynchCommands, TypeOK, SynchTypeOK
    <3>2. need_to_send[s] \in SUBSET Nat
      BY <3>1, NMachinesAssumption DEF Server
    <3>. QED
      BY <3>1, <3>2, MinProperty
  <2>. HIDE DEF o
  <2>2. SynchCommands(s, o) \in Seq(Command)
    BY <1>0, <2>1, MessagesFromType DEF SynchCommands, TypeOK, MemoryTypeOK
  <2>3. SynchCommands(s, o) \in Seq(Multicasts) /\ SummariesBelow(SynchCommands(s, o), logged)
    BY <2>2, CommandsHaveNone DEF Multicasts
  <2>4. SamePhases
    BY <1>0, <1>7 DEF SendSynchCommands, Finishing, SamePhases, TypeOK, SynchTypeOK
  <2>5. /\ UNCHANGED <<memoryVars, diskVars, cursor>> /\ UNCHANGED mailbox
        /\ Multicast(s, SynchCommands(s, o))
    BY <1>7 DEF SendSynchCommands, o
  <2>. QED
    BY <2>3, <2>4, <2>5, TalkStep
<1>8. ASSUME NEW s \in Server, ApplyQueuedUpdate(s)
      PROVE  CoreInv' /\ MessagesSound'
  <2>1. synch_queue[s] \in Seq(Command) /\ synch_queue[s] # <<>>
    BY <1>0, <1>8 DEF ApplyQueuedUpdate, TypeOK, SynchTypeOK
  <2>2. Head(synch_queue[s]).origin \in Server /\ Head(synch_queue[s]).index \in Nat
    <3>1. Head(synch_queue[s]) \in Command
      BY <2>1, HeadTailProperties
    <3>. QED
      BY <3>1 DEF Command
  <2>3. s \in Joined /\ UNCHANGED <<cursor, mailbox>>
    BY <1>8 DEF ApplyQueuedUpdate, Joined
  <2>4. SamePhases
    BY <1>0, <1>8 DEF ApplyQueuedUpdate, Finishing, SamePhases, TypeOK, SynchTypeOK
  <2>5. ApplyNewCommand(s, Head(synch_queue[s]).origin, Head(synch_queue[s]).index)
    BY <1>8 DEF ApplyQueuedUpdate
  <2>. QED
    BY <2>2, <2>3, <2>4, <2>5, ApplyStep
<1>9. ASSUME NEW s \in Server, Crash(s)
      PROVE  CoreInv' /\ MessagesSound'
  <2>1. CoreInv' /\ UNCHANGED logged
    BY <1>9, CrashCore
  <2>2. \A t \in Server : /\ mailbox'[t] = mailbox[t] \/ mailbox'[t] = <<>>
                          /\ outbox'[t] = outbox[t] \/ outbox'[t] = <<>>
    BY <1>0, <1>9 DEF Crash, Disconnect, TypeOK, NetTypeOK
  <2>3. SummariesBelow(<<>>, logged)
    BY DEF SummariesBelow
  <2>. QED
    BY <1>0, <2>1, <2>2, <2>3 DEF MessagesSound
<1>10. ASSUME NEW s \in Server, Restart(s) \/ ReplayLogRecord(s) \/ NextLog(s)
       PROVE  CoreInv' /\ MessagesSound'
  <2>1. CoreInv' /\ UNCHANGED logged
    BY <1>10, RestartCore, ReplayCore, NextLogCore
  <2>2. mailbox' = mailbox /\ outbox' = outbox
    BY <1>10 DEF Restart, ReplayLogRecord, NextLog, netVars
  <2>. QED
    BY <1>0, <2>1, <2>2 DEF MessagesSound
<1>11. ASSUME NEW s \in Server, GroupDeliver(s) \/ GroupInstallView(s)
       PROVE  CoreInv' /\ MessagesSound'
  <2>1. UNCHANGED <<memoryVars, diskVars, cursor>> /\ phase' = phase
    BY <1>11 DEF GroupDeliver, GroupInstallView, serverVars
  <2>2. SamePhases /\ UNCHANGED logged
    BY <2>1 DEF SamePhases, diskVars
  <2>3. MessagesSound'
    BY <1>0, <1>11, <2>2, DeliverSound, InstallViewSound DEF GroupDeliver, GroupInstallView
  <2>. QED
    BY <2>1, <2>2, <2>3, CoreUnchanged
<1>12. ASSUME NetworkChange
       PROVE  CoreInv' /\ MessagesSound'
  <2>1. /\ UNCHANGED <<memoryVars, diskVars, cursor>> /\ phase' = phase
        /\ UNCHANGED <<mailbox, outbox>>
    BY <1>12 DEF NetworkChange, Merge, Split, serverVars
  <2>2. SamePhases
    BY <2>1 DEF SamePhases
  <2>. QED
    BY <2>1, <2>2, ServerNonempty, SilentStep
<1>13. ASSUME UNCHANGED vars
       PROVE  CoreInv' /\ MessagesSound'
  <2>1. /\ UNCHANGED <<memoryVars, diskVars, cursor>> /\ phase' = phase
        /\ UNCHANGED <<mailbox, outbox>>
    BY <1>13 DEF vars, netVars
  <2>2. SamePhases
    BY <2>1 DEF SamePhases
  <2>. QED
    BY <2>1, <2>2, ServerNonempty, SilentStep
<1>. QED
  BY <1>1, <1>2, <1>3, <1>4, <1>5, <1>6, <1>7, <1>8, <1>9, <1>10, <1>11, <1>12,
     <1>13 DEF Next

(* ReplicationInv holds in every reachable state: for any number of        *)
(* servers, any thresholds, any network changes, any number of crashes.    *)
THEOREM ReplicationInvariant == Spec => []ReplicationInv
<1>1. ReplicationInv /\ [Next]_vars => ReplicationInv'
  <2>1. ReplicationInv /\ [Next]_vars => TypeOK'
    BY NextType DEF ReplicationInv
  <2>. QED
    BY <2>1, NextSafe DEF CoreInv, ReplicationInv
<1>. QED
  BY InitSafe, <1>1, PTL DEF Spec

(* What update_knowledge() believes of a peer, the peer has logged.        *)
THEOREM KnowledgeIsSound == Spec => []KnowledgeSound
<1>1. ReplicationInv => KnowledgeSound
  BY DEF ReplicationInv
<1>. QED
  BY <1>1, ReplicationInvariant, PTL

(* load_state() brings back all that the server ever logged.               *)
THEOREM RestartsLoseNothing == Spec => []RestartLosesNothing
<1>1. ReplicationInv => RestartLosesNothing
  BY DEF ReplicationInv
<1>. QED
  BY <1>1, ReplicationInvariant, PTL

(* delete_file_block() leaves the log records that some server lacks.      *)
THEOREM LogsCoverLaggards == Spec => []LogCoversLaggards
<1>1. ReplicationInv => LogCoversLaggards
  <2>. SUFFICES ASSUME ReplicationInv, NEW s \in Server, NEW t \in Server, NEW o \in Server
                PROVE  logged[t][o] + 1 .. logged[s][o] \subseteq log_files[s][o]
    BY DEF LogCoversLaggards
  <2>1. log_state[s][o] + 1 .. logged[s][o] \subseteq log_files[s][o]
    BY DEF ReplicationInv, LogComplete
  <2>2. /\ log_state[s][o] <= inbox_state[s].knowledge[t][o]
        /\ inbox_state[s].knowledge[t][o] <= logged[t][o]
    BY DEF ReplicationInv, SavedSound, Below
  <2>3. /\ log_state[s][o] \in Nat /\ inbox_state[s].knowledge[t][o] \in Nat
        /\ logged[t][o] \in Nat /\ logged[s][o] \in Nat
    BY EntryTypes DEF Entries, ReplicationInv
  <2>4. logged[t][o] + 1 .. logged[s][o] \subseteq log_state[s][o] + 1 .. logged[s][o]
    BY <2>2, <2>3
  <2>. QED
    BY <2>1, <2>4
<1>. QED
  BY <1>1, ReplicationInvariant, PTL

-----------------------------------------------------------------------------
(* What a step does to memory and disk, whichever action it is.            *)

(* Nothing.                                                                *)
Unmoved == SamePhases /\ UNCHANGED <<memoryVars, diskVars, cursor>>

(* apply_new_command() finds the next command of o.                        *)
Applies(s, o, i) ==
  /\ SamePhases
  /\ UNCHANGED cursor
  /\ s \in Joined
  /\ IsNext(s, o, i)
  /\ WriteCommandToLog(s, o, i)
  /\ ApplyCommandToState(s, o, i)

(* update_knowledge(), with what some server was entitled to say.          *)
Learns(s, summary) ==
  /\ SamePhases
  /\ UNCHANGED cursor
  /\ s \in Joined
  /\ Below(summary, logged)
  /\ UpdateKnowledge(s, summary)

(* apply_new_command applies the next command or nothing.                  *)
LEMMA ApplyKinds ==
  ASSUME SamePhases, UNCHANGED cursor, NEW s \in Joined, NEW o \in Server,
         NEW i \in Nat, ApplyNewCommand(s, o, i)
  PROVE  Unmoved \/ Applies(s, o, i)
BY DEF ApplyNewCommand, Unmoved, Applies

(* Every step is one of these, or a crash, or part of a recovery.          *)
LEMMA StepKinds ==
  ASSUME ReplicationInv, [Next]_vars
  PROVE  \/ Unmoved
         \/ \E s, o \in Server, i \in Nat : Applies(s, o, i)
         \/ \E s \in Server, summary \in Knowledge : Learns(s, summary)
         \/ \E s \in Server : Crash(s) \/ Restart(s) \/ ReplayLogRecord(s) \/ NextLog(s)
<1>. DEFINE Goal == \/ Unmoved
                    \/ \E s, o \in Server, i \in Nat : Applies(s, o, i)
                    \/ \E s \in Server, summary \in Knowledge : Learns(s, summary)
                    \/ \E s \in Server :
                         Crash(s) \/ Restart(s) \/ ReplayLogRecord(s) \/ NextLog(s)
<1>0. TypeOK /\ MessagesSound
  BY DEF ReplicationInv
<1>1. ASSUME NEW s \in Server, NewCommand(s)
      PROVE  Goal
  <2>1. knowledge[s][s][s] + 1 \in Nat
    BY <1>0, EntryTypes DEF Entries
  <2>2. s \in Joined /\ SamePhases /\ UNCHANGED cursor
    BY <1>1 DEF NewCommand, Joined, SamePhases
  <2>. QED
    BY <1>1, <2>1, <2>2, ApplyKinds DEF NewCommand
<1>2. ASSUME NEW s \in Server, ReadCommand(s)
      PROVE  Goal
  <2>1. mailbox[s] # <<>> /\ Head(mailbox[s]).type = "COMMAND"
    BY <1>2 DEF ReadCommand, NextIs
  <2>2. Head(mailbox[s]) \in Command
    BY <1>0, <2>1, ReadType DEF Message, Multicasts, Membership
  <2>3. SamePhases /\ UNCHANGED cursor
    BY <1>2 DEF ReadCommand, SamePhases
  <2>4. CASE /\ phase[s] = "main"
             /\ ApplyNewCommand(s, Head(mailbox[s]).origin, Head(mailbox[s]).index)
    <3>1. s \in Joined
      BY <2>4 DEF Joined
    <3>2. Head(mailbox[s]).origin \in Server /\ Head(mailbox[s]).index \in Nat
      BY <2>2 DEF Command
    <3>. QED
      BY <2>3, <2>4, <3>1, <3>2, ApplyKinds
  <2>5. CASE UNCHANGED <<memoryVars, diskVars, outbox>>
    BY <2>3, <2>5 DEF Unmoved
  <2>. QED
    BY <1>2, <2>4, <2>5 DEF ReadCommand
<1>3. ASSUME NEW s \in Server, ReadKnowledge(s)
      PROVE  Goal
  <2>1. mailbox[s] # <<>> /\ Head(mailbox[s]).type = "KNOWLEDGE"
    BY <1>3 DEF ReadKnowledge, NextIs
  <2>2. mailbox[s] \in Seq(Message) /\ Head(mailbox[s]) = mailbox[s][1]
        /\ 1 \in 1 .. Len(mailbox[s])
    BY <1>0, <2>1 DEF TypeOK, NetTypeOK
  <2>3. Head(mailbox[s]).summary \in Knowledge
    BY <2>1, <2>2, SummaryType
  <2>4. Below(Head(mailbox[s]).summary, logged)
    BY <1>0, <2>1, <2>2 DEF MessagesSound, SummariesBelow
  <2>5. s \in Joined /\ SamePhases /\ UNCHANGED cursor
    BY <1>3 DEF ReadKnowledge, Waiting, Joined, SamePhases
  <2>. QED
    BY <1>3, <2>3, <2>4, <2>5 DEF ReadKnowledge, Learns
<1>4. ASSUME NEW s \in Server,
             ReadMembership(s) \/ FinishWaiting(s) \/ SendSynchCommands(s) \/ StashCommand(s)
      PROVE  Goal
  <2>1. SamePhases
    BY <1>0, <1>4 DEF ReadMembership, FinishWaiting, SendSynchCommands, StashCommand,
                      Waiting, Finishing, SamePhases, TypeOK, SynchTypeOK
  <2>2. UNCHANGED <<memoryVars, diskVars, cursor>>
    BY <1>4 DEF ReadMembership, FinishWaiting, SendSynchCommands, StashCommand
  <2>. QED
    BY <2>1, <2>2 DEF Unmoved
<1>5. ASSUME NEW s \in Server, ApplyQueuedUpdate(s)
      PROVE  Goal
  <2>1. synch_queue[s] \in Seq(Command) /\ synch_queue[s] # <<>>
    BY <1>0, <1>5 DEF ApplyQueuedUpdate, TypeOK, SynchTypeOK
  <2>2. Head(synch_queue[s]).origin \in Server /\ Head(synch_queue[s]).index \in Nat
    <3>1. Head(synch_queue[s]) \in Command
      BY <2>1, HeadTailProperties
    <3>. QED
      BY <3>1 DEF Command
  <2>3. s \in Joined /\ UNCHANGED cursor
    BY <1>5 DEF ApplyQueuedUpdate, Joined
  <2>4. SamePhases
    BY <1>0, <1>5 DEF ApplyQueuedUpdate, Finishing, SamePhases, TypeOK, SynchTypeOK
  <2>5. ApplyNewCommand(s, Head(synch_queue[s]).origin, Head(synch_queue[s]).index)
    BY <1>5 DEF ApplyQueuedUpdate
  <2>. QED
    BY <2>2, <2>3, <2>4, <2>5, ApplyKinds
<1>6. ASSUME \/ \E s \in Server : GroupDeliver(s) \/ GroupInstallView(s)
             \/ NetworkChange
             \/ UNCHANGED vars
      PROVE  Goal
  <2>1. UNCHANGED <<memoryVars, diskVars, cursor>> /\ phase' = phase
    BY <1>6 DEF GroupDeliver, GroupInstallView, NetworkChange, serverVars, vars
  <2>. QED
    BY <2>1 DEF Unmoved, SamePhases
<1>. QED
  BY <1>1, <1>2, <1>3, <1>4, <1>5, <1>6 DEF Next

-----------------------------------------------------------------------------
(* How the state files follow the memory.                                  *)

(* A state file stays or is written from the memory after the step; the    *)
(* matrix in memory grows, or is read from the file.                       *)
FilesFollow ==
  \A t \in Server :
    /\ \A v \in Server : log_state[t][v] <= log_state'[t][v]
    /\ \/ inbox_state'[t].knowledge = inbox_state[t].knowledge
       \/ /\ inbox_state'[t].knowledge = knowledge'[t]
          /\ phase[t] # "down"
          /\ Below(knowledge[t], knowledge'[t])
    /\ phase'[t] # "down" =>
         \/ phase[t] # "down" /\ Below(knowledge[t], knowledge'[t])
         \/ inbox_state'[t].knowledge = knowledge'[t]

(* Then they never go back.                                                *)
LEMMA FilesGrow ==
  ASSUME ReplicationInv, ReplicationInv', SavedBehind, FilesFollow
  PROVE  SavedBehind' /\ StateFilesGrow
<1>0. /\ Entries /\ Entries' /\ SavedSound /\ SavedSound'
  BY EntryTypes, EntryTypesNext DEF ReplicationInv
<1>1. ASSUME NEW t \in Server, NEW u \in Server, NEW v \in Server
      PROVE  inbox_state[t].knowledge[u][v] <= inbox_state'[t].knowledge[u][v]
  <2>0. /\ inbox_state[t].knowledge[u][v] \in Nat /\ knowledge[t][u][v] \in Nat
        /\ knowledge'[t][u][v] \in Nat
    BY <1>0 DEF Entries
  <2>1. CASE inbox_state'[t].knowledge = inbox_state[t].knowledge
    BY <2>0, <2>1
  <2>2. CASE /\ inbox_state'[t].knowledge = knowledge'[t]
             /\ phase[t] # "down"
             /\ Below(knowledge[t], knowledge'[t])
    <3>1. inbox_state[t].knowledge[u][v] <= knowledge[t][u][v]
      BY <2>2 DEF SavedBehind, Below
    <3>2. knowledge[t][u][v] <= knowledge'[t][u][v]
      BY <2>2 DEF Below
    <3>. QED
      BY <2>0, <2>2, <3>1, <3>2
  <2>. QED
    BY <2>1, <2>2 DEF FilesFollow
<1>2. ASSUME NEW t \in Server, NEW v \in Server
      PROVE  inbox_state[t].applied_to_state[v] <= inbox_state'[t].applied_to_state[v]
  <2>1. /\ inbox_state[t].applied_to_state = inbox_state[t].knowledge[t]
        /\ inbox_state'[t].applied_to_state = inbox_state'[t].knowledge[t]
    BY <1>0 DEF SavedSound
  <2>. QED
    BY <1>1, <2>1
<1>3. SavedBehind'
  <2>. SUFFICES ASSUME NEW t \in Server, phase'[t] # "down", NEW u \in Server, NEW v \in Server
                PROVE  inbox_state'[t].knowledge[u][v] <= knowledge'[t][u][v]
    BY DEF SavedBehind, Below
  <2>0. /\ inbox_state[t].knowledge[u][v] \in Nat /\ knowledge[t][u][v] \in Nat
        /\ knowledge'[t][u][v] \in Nat
    BY <1>0 DEF Entries
  <2>1. CASE inbox_state'[t].knowledge = knowledge'[t]
    BY <2>0, <2>1
  <2>2. CASE /\ inbox_state'[t].knowledge = inbox_state[t].knowledge
             /\ phase[t] # "down" /\ Below(knowledge[t], knowledge'[t])
    <3>1. inbox_state[t].knowledge[u][v] <= knowledge[t][u][v]
      BY <2>2 DEF SavedBehind, Below
    <3>2. knowledge[t][u][v] <= knowledge'[t][u][v]
      BY <2>2 DEF Below
    <3>. QED
      BY <2>0, <2>2, <3>1, <3>2
  <2>. QED
    BY <2>1, <2>2 DEF FilesFollow
<1>. QED
  BY <1>1, <1>2, <1>3 DEF StateFilesGrow, FilesFollow

(* A table is not above itself.                                            *)
LEMMA BelowItself ==
  ASSUME NEW matrix \in Knowledge
  PROVE  Below(matrix, matrix)
BY DEF Below, Knowledge

(* What changes neither knowledge nor files leaves them in order.          *)
LEMMA UnmovedFiles ==
  ASSUME ReplicationInv, Unmoved
  PROVE  FilesFollow
<1>0. TypeOK /\ Entries
  BY EntryTypes DEF ReplicationInv
<1>1. UNCHANGED <<knowledge, inbox_state, log_state>> /\ SamePhases
  BY DEF Unmoved, memoryVars, diskVars
<1>2. \A t \in Server : Below(knowledge[t], knowledge'[t])
  BY <1>0, <1>1, BelowItself DEF TypeOK, MemoryTypeOK
<1>. QED
  BY <1>0, <1>1, <1>2 DEF FilesFollow, SamePhases, Entries

(* apply_command_to_state(), live or for a record of the log.              *)
LEMMA ApplyFiles ==
  ASSUME ReplicationInv, TypeOK', SamePhases, NEW s \in Server, phase[s] # "down",
         NEW o \in Server, NEW i \in Nat, ApplyCommandToState(s, o, i)
  PROVE  FilesFollow
<1>0. TypeOK /\ SafeSound /\ Entries /\ Entries'
  BY EntryTypes, EntryTypesNext DEF ReplicationInv
<1>1. /\ \A t, u, v \in Server :
           knowledge'[t][u][v] = IF t = s /\ u = s /\ v = o
                                 THEN knowledge[t][u][v] + 1 ELSE knowledge[t][u][v]
      /\ \/ UNCHANGED stateFiles
         \/ /\ inbox_state' = [inbox_state EXCEPT ![s] =
                                [knowledge |-> knowledge'[s],
                                 applied_to_state |-> applied_to_state'[s]]]
            /\ log_state' = [log_state EXCEPT ![s] = safe_delivered[s]]
  BY <1>0, ApplyPointwise
<1>2. /\ inbox_state \in [Server -> Saved]
      /\ log_state \in [Server -> Counts]
  BY <1>0 DEF TypeOK, DiskTypeOK
<1>3. ASSUME NEW t \in Server
      PROVE  Below(knowledge[t], knowledge'[t])
  <2>. SUFFICES ASSUME NEW u \in Server, NEW v \in Server
                PROVE  knowledge[t][u][v] <= knowledge'[t][u][v]
    BY DEF Below
  <2>1. knowledge[t][u][v] \in Nat
    BY <1>0 DEF Entries
  <2>. QED
    BY <1>1, <2>1
<1>4. ASSUME NEW t \in Server
      PROVE  /\ \A v \in Server : log_state[t][v] <= log_state'[t][v]
             /\ \/ inbox_state'[t].knowledge = inbox_state[t].knowledge
                \/ /\ inbox_state'[t].knowledge = knowledge'[t]
                   /\ phase[t] # "down"
  <2>1. CASE UNCHANGED stateFiles
    BY <1>0, <2>1 DEF stateFiles, Entries
  <2>2. CASE /\ inbox_state' = [inbox_state EXCEPT ![s] =
                                [knowledge |-> knowledge'[s],
                                 applied_to_state |-> applied_to_state'[s]]]
             /\ log_state' = [log_state EXCEPT ![s] = safe_delivered[s]]
    <3>1. CASE t = s
      BY <1>0, <1>2, <2>2, <3>1 DEF SafeSound
    <3>2. CASE t # s
      BY <1>0, <1>2, <2>2, <3>2 DEF Entries
    <3>. QED
      BY <3>1, <3>2
  <2>. QED
    BY <1>1, <2>1, <2>2
<1>. QED
  BY <1>3, <1>4 DEF FilesFollow, SamePhases

(* update_knowledge() and the collection that may follow.                  *)
LEMMA LearnFiles ==
  ASSUME ReplicationInv, TypeOK', NEW s \in Server, NEW summary \in Knowledge,
         Learns(s, summary)
  PROVE  FilesFollow
<1>. DEFINE matrix == Learned(s, summary)
<1>0. /\ TypeOK /\ SafeSound /\ Entries /\ Entries'
      /\ phase[s] # "down" /\ SamePhases /\ UpdateKnowledge(s, summary)
  BY EntryTypes, EntryTypesNext DEF ReplicationInv, Learns, Joined
<1>1. matrix \in Knowledge /\ knowledge' = [knowledge EXCEPT ![s] = matrix]
  BY <1>0, UpdateKnowledgeMatrix
<1>2. \A u, v \in Server : matrix[u][v] \in Nat /\ knowledge[s][u][v] <= matrix[u][v]
  BY <1>0, LearnedPointwise
<1>3. CollectGarbage(s, matrix) \/ UNCHANGED stateFiles
  BY <1>0 DEF UpdateKnowledge, Learned, Raised, stateFiles
<1>. HIDE DEF matrix
<1>4. /\ knowledge'[s] = matrix
      /\ \A t \in Server : t # s => knowledge'[t] = knowledge[t]
  BY <1>0, <1>1 DEF TypeOK, MemoryTypeOK
<1>5. \A t \in Server : Below(knowledge[t], knowledge'[t])
  BY <1>0, <1>2, <1>4, BelowItself DEF Below, TypeOK, MemoryTypeOK
<1>6. CASE UNCHANGED stateFiles
  BY <1>0, <1>5, <1>6 DEF stateFiles, FilesFollow, SamePhases, Entries
<1>7. CASE CollectGarbage(s, matrix)
  <2>1. \A u, v \in Server : safe_delivered[s][v] <= matrix[u][v]
    <3>. SUFFICES ASSUME NEW u \in Server, NEW v \in Server
                  PROVE  safe_delivered[s][v] <= matrix[u][v]
      OBVIOUS
    <3>1. safe_delivered[s][v] <= knowledge[s][u][v]
      BY <1>0 DEF SafeSound
    <3>2. safe_delivered[s][v] \in Nat /\ knowledge[s][u][v] \in Nat
      BY <1>0 DEF Entries
    <3>. QED
      BY <1>2, <3>1, <3>2
  <2>2. OthersUntouched(s) /\ SavedUpToSafe(s, matrix)
    BY <1>0, <1>1, <1>7, <2>1, CollectGarbageSafe
  <2>3. ASSUME NEW t \in Server
        PROVE  /\ \A v \in Server : log_state[t][v] <= log_state'[t][v]
               /\ \/ inbox_state'[t].knowledge = inbox_state[t].knowledge
                  \/ /\ inbox_state'[t].knowledge = knowledge'[t]
                     /\ phase[t] # "down"
    <3>1. CASE t # s
      BY <1>0, <2>2, <3>1 DEF OthersUntouched, Entries
    <3>2. CASE UNCHANGED stateFiles
      BY <1>0, <3>2 DEF stateFiles, Entries
    <3>3. CASE t = s /\ ~ UNCHANGED stateFiles
      <4>1. /\ inbox_state'[s].knowledge = matrix
            /\ \A v \in Server : safe_delivered[s][v] <= log_state'[s][v]
        BY <2>2, <3>3 DEF SavedUpToSafe
      <4>2. ASSUME NEW v \in Server
            PROVE  log_state[s][v] <= log_state'[s][v]
        <5>1. log_state[s][v] <= safe_delivered[s][v]
          BY <1>0 DEF SafeSound
        <5>2. /\ log_state[s][v] \in Nat /\ log_state'[s][v] \in Nat
              /\ safe_delivered[s][v] \in Nat
          BY <1>0 DEF Entries
        <5>. QED
          BY <4>1, <5>1, <5>2
      <4>. QED
        BY <1>0, <1>4, <3>3, <4>1, <4>2
    <3>. QED
      BY <3>1, <3>2, <3>3
  <2>. QED
    BY <1>0, <1>5, <2>3 DEF FilesFollow, SamePhases
<1>. QED
  BY <1>3, <1>6, <1>7

(* A crash, a restart and a replay leave the files as they are, or save    *)
(* what was replayed.                                                      *)
LEMMA RecoveryFiles ==
  ASSUME ReplicationInv, TypeOK', NEW s \in Server,
         Crash(s) \/ Restart(s) \/ ReplayLogRecord(s) \/ NextLog(s)
  PROVE  FilesFollow
<1>0. TypeOK /\ Entries
  BY EntryTypes DEF ReplicationInv
<1>1. \A t \in Server : Below(knowledge[t], knowledge[t])
  BY <1>0, BelowItself DEF TypeOK, MemoryTypeOK
<1>2. CASE Crash(s)
  <2>1. /\ phase' = [phase EXCEPT ![s] = "down"]
        /\ \A t \in Server : t # s => knowledge'[t] = knowledge[t]
        /\ UNCHANGED <<inbox_state, log_state>>
    BY <1>0, <1>2 DEF Crash, diskVars, TypeOK, MemoryTypeOK
  <2>. QED
    BY <1>0, <1>1, <2>1 DEF FilesFollow, Entries, TypeOK, SynchTypeOK
<1>3. CASE Restart(s)
  <2>1. /\ phase' = [phase EXCEPT ![s] = "loading"]
        /\ knowledge' = [knowledge EXCEPT ![s] = inbox_state[s].knowledge]
        /\ UNCHANGED <<inbox_state, log_state>>
    BY <1>3 DEF Restart, diskVars
  <2>2. /\ knowledge'[s] = inbox_state'[s].knowledge
        /\ \A t \in Server : t # s => knowledge'[t] = knowledge[t] /\ phase'[t] = phase[t]
    BY <1>0, <2>1 DEF TypeOK, MemoryTypeOK, SynchTypeOK
  <2>. QED
    BY <1>0, <1>1, <2>1, <2>2 DEF FilesFollow, Entries
<1>4. CASE ReplayLogRecord(s)
  <2>1. /\ phase[s] # "down" /\ SamePhases
        /\ cursor[s].origin \in Server /\ cursor[s].index \in Nat
    BY <1>0, <1>4 DEF ReplayLogRecord, SamePhases, TypeOK, SynchTypeOK
  <2>2. CASE ApplyCommandToState(s, cursor[s].origin, cursor[s].index)
    BY <2>1, <2>2, ApplyFiles
  <2>3. CASE UNCHANGED <<knowledge, stateFiles>>
    BY <1>0, <1>1, <2>1, <2>3 DEF FilesFollow, SamePhases, stateFiles, Entries
  <2>. QED
    BY <1>4, <2>2, <2>3 DEF ReplayLogRecord
<1>5. CASE NextLog(s)
  <2>1. /\ UNCHANGED <<knowledge, inbox_state, log_state>>
        /\ \A t \in Server : phase'[t] # "down" => phase[t] # "down"
    BY <1>0, <1>5 DEF NextLog, memoryVars, diskVars, TypeOK, SynchTypeOK
  <2>. QED
    BY <1>0, <1>1, <2>1 DEF FilesFollow, Entries
<1>. QED
  BY <1>2, <1>3, <1>4, <1>5

-----------------------------------------------------------------------------
(* SavedBehind makes the property inductive: the files lag behind the      *)
(* memory they are next written from.                                      *)

(* At first the files hold nothing.                                        *)
LEMMA InitSavedBehind == Init => SavedBehind
<1>. SUFFICES ASSUME Init, NEW t \in Server, NEW u \in Server, NEW v \in Server
              PROVE  inbox_state[t].knowledge[u][v] <= knowledge[t][u][v]
  BY DEF SavedBehind, Below
<1>1. inbox_state[t].knowledge[u][v] = 0 /\ knowledge[t][u][v] = 0
  BY DEF Init, Zeros
<1>. QED
  BY <1>1

(* Every step leaves the files behind memory and takes none back.          *)
LEMMA NextFilesGrow ==
  ASSUME ReplicationInv, ReplicationInv', SavedBehind, [Next]_vars
  PROVE  SavedBehind' /\ StateFilesGrow
<1>0. TypeOK'
  BY DEF ReplicationInv
<1>1. FilesFollow
  <2>1. CASE Unmoved
    BY <2>1, UnmovedFiles
  <2>2. ASSUME NEW s \in Server, NEW o \in Server, NEW i \in Nat, Applies(s, o, i)
        PROVE  FilesFollow
    BY <1>0, <2>2, ApplyFiles DEF Applies, Joined
  <2>3. ASSUME NEW s \in Server, NEW summary \in Knowledge, Learns(s, summary)
        PROVE  FilesFollow
    BY <1>0, <2>3, LearnFiles
  <2>4. ASSUME NEW s \in Server,
               Crash(s) \/ Restart(s) \/ ReplayLogRecord(s) \/ NextLog(s)
        PROVE  FilesFollow
    BY <1>0, <2>4, RecoveryFiles
  <2>. QED
    BY <2>1, <2>2, <2>3, <2>4, StepKinds
<1>. QED
  BY <1>1, FilesGrow

(* What is saved is never less than what was, although a restarted server  *)
(* starts from less than it once had (write_state, collect_garbage).       *)
THEOREM FilesNeverRegress == Spec => StateFilesNeverRegress
<1>1. ReplicationInv /\ ReplicationInv' /\ SavedBehind /\ [Next]_vars
        => SavedBehind' /\ StateFilesGrow
  BY NextFilesGrow
<1>2. ReplicationInv /\ ReplicationInv' /\ SavedBehind /\ [Next]_vars
        => [StateFilesGrow]_vars
  BY <1>1
<1>. QED
  BY <1>1, <1>2, InitSavedBehind, ReplicationInvariant, PTL
     DEF Spec, StateFilesNeverRegress

-----------------------------------------------------------------------------
(* Queues that are windows of a numbering.                                 *)

(* The next index extends a window.                                        *)
LEMMA WindowAppend ==
  ASSUME NEW queue \in Seq(Nat), NEW low \in Nat, NEW high \in Nat,
         Window(queue, low, high)
  PROVE  Window(Append(queue, high + 1), low, high + 1)
BY DEF Window

(* An empty queue is a window between equal bounds.                        *)
LEMMA WindowEmpty ==
  ASSUME NEW low \in Nat
  PROVE  Window(<<>>, low, low)
BY DEF Window

(* The indices of a window lie between its bounds.                         *)
LEMMA WindowBound ==
  ASSUME NEW queue \in Seq(Nat), NEW low \in Nat, NEW high \in Nat,
         Window(queue, low, high), NEW n \in 1 .. Len(queue)
  PROVE  queue[n] \in Nat /\ low < queue[n] /\ queue[n] <= high
BY DEF Window

(* A window from a later index on is what follows that index.              *)
LEMMA WindowTail ==
  ASSUME NEW queue \in Seq(Nat), NEW low \in Nat, NEW high \in Nat,
         Window(queue, low, high),
         NEW index \in Nat, low <= index, index < high
  PROVE  LET m == index - low + 1 IN
         /\ m \in 1 .. Len(queue)
         /\ Window(SubSeq(queue, m, Len(queue)), index, high)
<1>. DEFINE m == index - low + 1
<1>1. Len(queue) = high - low /\ \A n \in 1 .. Len(queue) : queue[n] = low + n
  BY DEF Window
<1>2. m \in 1 .. Len(queue) /\ m \in Nat
  BY <1>1
<1>. DEFINE rest == SubSeq(queue, m, Len(queue))
<1>3. /\ Len(rest) = Len(queue) - m + 1
      /\ \A n \in 1 .. Len(rest) : rest[n] = queue[m + n - 1]
  BY <1>2, SubSeqProperties
<1>. HIDE DEF rest
<1>4. Len(rest) = high - index
  BY <1>1, <1>3
<1>5. ASSUME NEW n \in 1 .. Len(rest)
      PROVE  rest[n] = index + n
  <2>1. m + n - 1 \in 1 .. Len(queue)
    BY <1>1, <1>2, <1>4
  <2>2. queue[m + n - 1] = low + (m + n - 1)
    BY <1>1, <2>1
  <2>. QED
    BY <1>3, <2>2
<1>. QED
  BY <1>2, <1>4, <1>5 DEF Window, rest

(* The least position where a numbered queue exceeds an index.             *)
LEMMA WindowFirst ==
  ASSUME NEW n \in Nat, NEW m \in 1 .. n, NEW S \in SUBSET (1 .. n),
         \A k \in 1 .. n : k \in S <=> k >= m
  PROVE  S # {} /\ Min(S) = m
<1>1. S \in SUBSET Nat /\ m \in S
  OBVIOUS
<1>2. Min(S) \in S /\ Min(S) <= m
  BY <1>1, MinProperty
<1>3. Min(S) \in 1 .. n /\ Min(S) >= m
  BY <1>2
<1>4. Min(S) = m
  BY <1>2, <1>3
<1>. QED
  BY <1>1, <1>4

(* erase_queue_up_to() leaves the commands after its index.                *)
LEMMA WindowErase ==
  ASSUME NEW queue \in Seq(Nat), NEW low \in Nat, NEW high \in Nat,
         Window(queue, low, high),
         NEW index \in Nat, low <= index, index <= high
  PROVE  Window(EraseUpTo(queue, index), index, high)
<1>. DEFINE kept == {n \in 1 .. Len(queue) : queue[n] > index}
<1>1. Len(queue) \in Nat /\ Len(queue) = high - low
      /\ \A n \in 1 .. Len(queue) : queue[n] = low + n
  BY DEF Window
<1>2. EraseUpTo(queue, index) = IF kept = {} THEN <<>>
                                ELSE SubSeq(queue, Min(kept), Len(queue))
  BY DEF EraseUpTo
<1>3. kept \in SUBSET (1 .. Len(queue))
      /\ \A n \in 1 .. Len(queue) : n \in kept <=> low + n > index
  BY <1>1
<1>. HIDE DEF kept
<1>4. CASE index = high
  <2>1. kept = {}
    BY <1>1, <1>3, <1>4
  <2>. QED
    BY <1>2, <1>4, <2>1, WindowEmpty
<1>5. CASE index < high
  <2>. DEFINE m == index - low + 1
  <2>1. m \in 1 .. Len(queue) /\ Window(SubSeq(queue, m, Len(queue)), index, high)
    BY <1>5, WindowTail
  <2>2. \A n \in 1 .. Len(queue) : n \in kept <=> n >= m
    BY <1>3
  <2>. HIDE DEF m
  <2>3. kept # {} /\ Min(kept) = m
    BY <1>1, <1>3, <2>1, <2>2, WindowFirst
  <2>. QED
    BY <1>2, <2>1, <2>3
<1>. QED
  BY <1>4, <1>5

(* broadcast_messages_from_queue() sends the commands after its start.     *)
LEMMA WindowMessages ==
  ASSUME NEW queue \in Seq(Nat), NEW low \in Nat, NEW high \in Nat,
         Window(queue, low, high), NEW o,
         NEW start \in Nat, low <= start, start < high
  PROVE  MessagesFrom(queue, o, start)
           = [n \in 1 .. high - start |-> CommandMessage(o, start + n)]
<1>. DEFINE found == {n \in 1 .. Len(queue) : queue[n] = start + 1}
            m == start + 1 - low
<1>1. Len(queue) = high - low /\ \A n \in 1 .. Len(queue) : queue[n] = low + n
  BY DEF Window
<1>2. m \in 1 .. Len(queue)
  BY <1>1
<1>3. found = {m}
  BY <1>1, <1>2
<1>4. Min(found) = m
  <2>1. {m} \in SUBSET Nat /\ {m} # {}
    BY <1>1
  <2>2. Min({m}) \in {m}
    BY <2>1, MinProperty
  <2>. QED
    BY <1>3, <2>2
<1>5. MessagesFrom(queue, o, start)
        = [n \in 1 .. Len(queue) - m + 1 |-> CommandMessage(o, queue[m + n - 1])]
  BY <1>3, <1>4 DEF MessagesFrom
<1>6. Len(queue) - m + 1 = high - start
  BY <1>1
<1>7. ASSUME NEW n \in 1 .. high - start
      PROVE  queue[m + n - 1] = start + n
  <2>1. m + n - 1 \in 1 .. Len(queue)
    BY <1>1, <1>2
  <2>. QED
    BY <1>1, <2>1
<1>. HIDE DEF m, found
<1>. QED
  BY <1>5, <1>6, <1>7

-----------------------------------------------------------------------------
(* QueueExact is kept.                                                     *)

(* A step that leaves alone what the queue of s for o is compared with.    *)
LEMMA SameQueue ==
  ASSUME NEW s \in Server, NEW o \in Server, QueueFits(s, o),
         command_queue'[s][o] = command_queue[s][o],
         safe_delivered'[s][o] = safe_delivered[s][o],
         logged'[s][o] = logged[s][o],
         phase'[s] = "down" <=> phase[s] = "down",
         phase'[s] = "loading" <=> phase[s] = "loading",
         cursor'[s] = cursor[s]
  PROVE  QueueFits(s, o)'
BY DEF QueueFits, Joined

(* Entry by entry, the types of what the queues are compared with.         *)
LEMMA QueueTypes ==
  ASSUME TypeOK
  PROVE  /\ Entries
         /\ \A s, o \in Server : command_queue[s][o] \in Seq(Nat)
         /\ \A s \in Server : cursor[s].origin \in Server /\ cursor[s].index \in Nat
         /\ Server \subseteq Nat
<1>1. \A s \in Server : command_queue[s] \in [Server -> Seq(Nat)]
  BY DEF TypeOK, MemoryTypeOK
<1>2. \A s \in Server : cursor[s].origin \in Server /\ cursor[s].index \in Nat
  BY DEF TypeOK, SynchTypeOK
<1>3. Server \subseteq Nat
  BY NMachinesAssumption DEF Server
<1>4. Entries
  BY EntryTypes
<1>. QED
  BY <1>1, <1>2, <1>3, <1>4

(* The command that is logged joins the queue.                             *)
LEMMA AppliesQueues ==
  ASSUME ReplicationInv, QueueExact, NEW s \in Server, NEW o \in Server,
         NEW i \in Nat, Applies(s, o, i)
  PROVE  QueueExact'
<1>0. TypeOK /\ s \in Joined
  BY DEF ReplicationInv, Applies
<1>1. /\ command_queue \in [Server -> [Server -> Seq(Nat)]]
      /\ logged \in [Server -> [Server -> Nat]]
      /\ knowledge[s][s][o] = logged[s][o]
      /\ safe_delivered[s][o] \in Nat /\ logged[s][o] \in Nat
  BY <1>0, EntryTypes DEF TypeOK, MemoryTypeOK, DiskTypeOK, Counts, ReplicationInv,
                          RestartLosesNothing, Entries
<1>2. i = logged[s][o] + 1
  BY <1>1 DEF Applies, IsNext
<1>3. /\ command_queue' = [command_queue EXCEPT ![s][o] = Append(@, i)]
      /\ logged' = [logged EXCEPT ![s][o] = @ + 1]
      /\ safe_delivered' = safe_delivered /\ cursor' = cursor
  BY DEF Applies, ApplyCommandToState, WriteCommandToLog
<1>4. SamePhases
  BY DEF Applies
<1>. SUFFICES ASSUME NEW t \in Server, NEW v \in Server
              PROVE  QueueFits(t, v)'
  BY DEF QueueExact
<1>5. CASE t = s /\ v = o
  <2>1. /\ command_queue'[s][o] = Append(command_queue[s][o], logged[s][o] + 1)
        /\ logged'[s][o] = logged[s][o] + 1
        /\ safe_delivered'[s][o] = safe_delivered[s][o]
    BY <1>1, <1>2, <1>3
  <2>2. Window(command_queue[s][o], safe_delivered[s][o], logged[s][o])
    BY <1>0 DEF QueueExact, QueueFits
  <2>3. command_queue[s][o] \in Seq(Nat)
    BY <1>1
  <2>4. Window(command_queue'[s][o], safe_delivered'[s][o], logged'[s][o])
    BY <1>1, <2>1, <2>2, <2>3, WindowAppend
  <2>5. phase'[s] # "down" /\ phase'[s] # "loading"
    BY <1>0, <1>4 DEF SamePhases, Joined
  <2>. QED
    BY <1>5, <2>4, <2>5 DEF QueueFits
<1>6. CASE ~ (t = s /\ v = o)
  <2>1. /\ command_queue'[t][v] = command_queue[t][v]
        /\ logged'[t][v] = logged[t][v]
    BY <1>1, <1>3, <1>6
  <2>. QED
    BY <1>3, <1>4, <2>1, SameQueue DEF QueueExact, SamePhases
<1>. QED
  BY <1>5, <1>6

(* collect_garbage() pops what everybody has.                              *)
LEMMA LearnsQueues ==
  ASSUME ReplicationInv, ReplicationInv', QueueExact, NEW s \in Server,
         NEW summary \in Knowledge, Learns(s, summary)
  PROVE  QueueExact'
<1>. DEFINE matrix == Learned(s, summary)
            safe == [o \in Server |-> SafeIndex(matrix, o)]
            queues == [o \in Server |-> EraseUpTo(command_queue[s][o], safe[o])]
<1>0. /\ TypeOK /\ SafeSound /\ SafeSound' /\ KnowledgeSound'
      /\ Entries /\ Entries'
      /\ s \in Joined /\ SamePhases /\ cursor' = cursor /\ UpdateKnowledge(s, summary)
  BY EntryTypes, EntryTypesNext DEF ReplicationInv, Learns
<1>1. matrix \in Knowledge /\ knowledge' = [knowledge EXCEPT ![s] = matrix]
  BY <1>0, UpdateKnowledgeMatrix
<1>2. \A u, v \in Server : matrix[u][v] \in Nat /\ knowledge[s][u][v] <= matrix[u][v]
  BY <1>0, LearnedPointwise
<1>3. logged' = logged
  BY <1>0 DEF UpdateKnowledge
<1>4. CollectGarbage(s, matrix) \/ UNCHANGED <<safe_delivered, command_queue>>
  BY <1>0 DEF UpdateKnowledge, Learned, Raised
<1>. HIDE DEF matrix
<1>5. CASE UNCHANGED <<safe_delivered, command_queue>>
  BY <1>0, <1>3, <1>5, SameQueue DEF QueueExact, SamePhases
<1>6. CASE CollectGarbage(s, matrix)
  <2>1. \A u, v \in Server : safe_delivered[s][v] <= matrix[u][v]
    <3>. SUFFICES ASSUME NEW u \in Server, NEW v \in Server
                  PROVE  safe_delivered[s][v] <= matrix[u][v]
      OBVIOUS
    <3>1. safe_delivered[s][v] <= knowledge[s][u][v]
      BY <1>0 DEF SafeSound, Joined
    <3>2. safe_delivered[s][v] \in Nat /\ knowledge[s][u][v] \in Nat
      BY <1>0 DEF Entries
    <3>. QED
      BY <1>2, <3>1, <3>2
  <2>2. OthersUntouched(s) /\ SafeRaised(s, matrix)
    BY <1>0, <1>1, <1>6, <2>1, CollectGarbageSafe
  <2>3. /\ safe_delivered' = [safe_delivered EXCEPT ![s] = safe]
        /\ command_queue' = [command_queue EXCEPT ![s] = queues]
    BY <1>6 DEF CollectGarbage
  <2>4. /\ safe_delivered'[s] = safe
        /\ command_queue'[s] = queues
        /\ \A t \in Server : t # s => /\ command_queue'[t] = command_queue[t]
                                      /\ safe_delivered'[t] = safe_delivered[t]
    BY <1>0, <2>3 DEF TypeOK, MemoryTypeOK
  <2>. SUFFICES ASSUME NEW t \in Server, NEW v \in Server
                PROVE  QueueFits(t, v)'
    BY DEF QueueExact
  <2>5. CASE t # s
    BY <1>0, <1>3, <2>4, <2>5, SameQueue DEF QueueExact, SamePhases
  <2>6. CASE t = s
    <3>1. /\ safe_delivered[s][v] <= safe[v]
          /\ safe[v] <= logged[s][v]
          /\ safe[v] \in Nat
      <4>1. safe_delivered'[s][v] = safe[v]
        BY <2>4
      <4>2. phase'[s] # "down"
        BY <1>0 DEF SamePhases, Joined
      <4>3. /\ safe_delivered'[s][v] <= knowledge'[s][s][v]
            /\ knowledge'[s][s][v] <= logged'[s][v]
        BY <1>0, <4>2 DEF SafeSound, KnowledgeSound
      <4>4. /\ safe_delivered'[s][v] \in Nat /\ knowledge'[s][s][v] \in Nat
            /\ logged'[s][v] \in Nat
        BY <1>0 DEF Entries
      <4>5. safe_delivered[s][v] <= safe_delivered'[s][v]
        BY <2>2 DEF SafeRaised
      <4>. HIDE DEF safe
      <4>. QED
        BY <1>3, <4>1, <4>3, <4>4, <4>5
    <3>2. /\ command_queue'[s][v] = EraseUpTo(command_queue[s][v], safe[v])
          /\ safe_delivered'[s][v] = safe[v]
      BY <2>4
    <3>. HIDE DEF safe
    <3>3. Window(command_queue[s][v], safe_delivered[s][v], logged[s][v])
      BY <1>0 DEF QueueExact, QueueFits
    <3>4. /\ command_queue[s][v] \in Seq(Nat)
          /\ safe_delivered[s][v] \in Nat /\ logged[s][v] \in Nat
      BY <1>0, QueueTypes DEF Entries
    <3>5. Window(command_queue'[s][v], safe_delivered'[s][v], logged'[s][v])
      BY <1>3, <3>1, <3>2, <3>3, <3>4, WindowErase
    <3>6. phase'[s] # "down" /\ phase'[s] # "loading"
      BY <1>0 DEF SamePhases, Joined
    <3>. QED
      BY <2>6, <3>5, <3>6 DEF QueueFits
  <2>. QED
    BY <2>5, <2>6
<1>. QED
  BY <1>4, <1>5, <1>6

(* A crash empties the queues, and a server that is down has none to keep. *)
LEMMA CrashQueues ==
  ASSUME TypeOK, QueueExact, NEW s \in Server, Crash(s)
  PROVE  QueueExact'
<1>1. /\ phase' = [phase EXCEPT ![s] = "down"]
      /\ command_queue' = [command_queue EXCEPT ![s] = [o \in Server |-> <<>>]]
      /\ safe_delivered' = [safe_delivered EXCEPT ![s] = Zeros]
      /\ logged' = logged /\ cursor' = cursor
  BY DEF Crash, diskVars
<1>2. /\ phase'[s] = "down" /\ \A o \in Server : command_queue'[s][o] = <<>>
      /\ \A t \in Server : t # s => /\ phase'[t] = phase[t]
                                    /\ command_queue'[t] = command_queue[t]
                                    /\ safe_delivered'[t] = safe_delivered[t]
  BY <1>1 DEF TypeOK, MemoryTypeOK, SynchTypeOK
<1>. SUFFICES ASSUME NEW t \in Server, NEW v \in Server
              PROVE  QueueFits(t, v)'
  BY DEF QueueExact
<1>3. CASE t = s
  BY <1>2, <1>3 DEF QueueFits, Joined
<1>4. CASE t # s
  BY <1>1, <1>2, <1>4, SameQueue DEF QueueExact
<1>. QED
  BY <1>3, <1>4

(* read_state_file(): the queues of a process that starts are empty.       *)
LEMMA RestartQueues ==
  ASSUME TypeOK, QueueExact, NEW s \in Server, Restart(s)
  PROVE  QueueExact'
<1>1. /\ phase' = [phase EXCEPT ![s] = "loading"] /\ phase[s] = "down"
      /\ cursor' = [cursor EXCEPT ![s] = [origin |-> 0, index |-> log_state[s][0] + 1]]
      /\ safe_delivered' = [safe_delivered EXCEPT ![s] = log_state[s]]
      /\ logged' = logged /\ command_queue' = command_queue
  BY DEF Restart, diskVars
<1>2. /\ phase'[s] = "loading"
      /\ cursor'[s].origin = 0 /\ cursor'[s].index = log_state[s][0] + 1
      /\ safe_delivered'[s] = log_state[s]
      /\ \A t \in Server : t # s => /\ phase'[t] = phase[t]
                                    /\ cursor'[t] = cursor[t]
                                    /\ safe_delivered'[t] = safe_delivered[t]
  BY <1>1 DEF TypeOK, MemoryTypeOK, SynchTypeOK
<1>. SUFFICES ASSUME NEW t \in Server, NEW v \in Server
              PROVE  QueueFits(t, v)'
  BY DEF QueueExact
<1>3. CASE t = s
  <2>1. command_queue'[s][v] = <<>>
    BY <1>1 DEF QueueExact, QueueFits
  <2>2. ~ (v < 0)
    BY DEF Server
  <2>3. log_state[s][0] \in Nat
    BY EntryTypes, ServerNonempty DEF Entries
  <2>4. Window(<<>>, log_state[s][0], log_state[s][0])
    BY <2>3, WindowEmpty
  <2>5. cursor'[s].index - 1 = log_state[s][0]
    BY <1>2, <2>3
  <2>. QED
    BY <1>2, <1>3, <2>1, <2>2, <2>4, <2>5 DEF QueueFits, Joined
<1>4. CASE t # s
  BY <1>1, <1>2, <1>4, SameQueue DEF QueueExact
<1>. QED
  BY <1>3, <1>4

(* A record read from the log joins the queue, applied or not.             *)
LEMMA ReplayQueues ==
  ASSUME ReplicationInv, QueueExact, NEW s \in Server, ReplayLogRecord(s)
  PROVE  QueueExact'
<1>. DEFINE o == cursor[s].origin
            i == cursor[s].index
<1>0. TypeOK
  BY DEF ReplicationInv
<1>1. /\ phase[s] = "loading" /\ phase' = phase /\ logged' = logged
      /\ safe_delivered' = safe_delivered
      /\ command_queue' = [command_queue EXCEPT ![s][o] = Append(@, i)]
      /\ cursor' = [cursor EXCEPT ![s].index = @ + 1]
  BY DEF ReplayLogRecord, ApplyCommandToState
<1>2. /\ o \in Server /\ i \in Nat /\ log_state[s][o] \in Nat
      /\ log_state[s][o] < i /\ safe_delivered[s] = log_state[s]
  BY <1>1, LoadingEntries
<1>3. /\ cursor'[s].origin = o /\ cursor'[s].index = i + 1
      /\ \A t \in Server : t # s => cursor'[t] = cursor[t]
  BY <1>0, <1>1 DEF TypeOK, SynchTypeOK
<1>4. command_queue \in [Server -> [Server -> Seq(Nat)]]
  BY <1>0 DEF TypeOK, MemoryTypeOK
<1>. HIDE DEF o, i
<1>5. /\ command_queue'[s][o] = Append(command_queue[s][o], i)
      /\ \A t, v \in Server : ~ (t = s /\ v = o) =>
           command_queue'[t][v] = command_queue[t][v]
  BY <1>1, <1>2, <1>4
<1>. SUFFICES ASSUME NEW t \in Server, NEW v \in Server
              PROVE  QueueFits(t, v)'
  BY DEF QueueExact
<1>6. CASE t # s
  BY <1>1, <1>3, <1>5, <1>6, SameQueue DEF QueueExact
<1>7. CASE t = s /\ v # o
  <2>1. QueueFits(s, v)
    BY DEF QueueExact
  <2>. QED
    BY <1>1, <1>3, <1>5, <1>7, <2>1 DEF QueueFits, Joined, o
<1>8. CASE t = s /\ v = o
  <2>1. Window(command_queue[s][o], safe_delivered[s][o], i - 1)
    BY <1>1, <1>2 DEF QueueExact, QueueFits, o, i
  <2>2. i - 1 \in Nat /\ (i - 1) + 1 = i /\ (i + 1) - 1 = i
    BY <1>2
  <2>3. command_queue[s][o] \in Seq(Nat) /\ safe_delivered[s][o] \in Nat
    BY <1>2, <1>4
  <2>4. Window(Append(command_queue[s][o], i), safe_delivered[s][o], i)
    BY <2>1, <2>2, <2>3, WindowAppend
  <2>5. ~ (o < o) /\ ~ (o > o)
    BY <1>2 DEF Server
  <2>. QED
    BY <1>1, <1>3, <1>5, <1>8, <2>2, <2>4, <2>5 DEF QueueFits, Joined
<1>. QED
  BY <1>6, <1>7, <1>8

(* The log of an origin ends with the last command that was logged.        *)
LEMMA LogEnd ==
  ASSUME ReplicationInv, NEW s \in Server, NextLog(s)
  PROVE  cursor[s].index - 1 = logged[s][cursor[s].origin]
<1>. DEFINE o == cursor[s].origin
            i == cursor[s].index
<1>1. phase[s] = "loading" /\ i \notin log_files[s][o]
  BY DEF NextLog
<1>2. /\ o \in Server /\ i \in Nat
      /\ log_state[s][o] \in Nat /\ applied_to_state[s][o] \in Nat
      /\ logged[s][o] \in Nat
      /\ log_state[s][o] < i
      /\ i <= applied_to_state[s][o] + 1
      /\ applied_to_state[s][o] <= logged[s][o]
  BY <1>1, LoadingEntries
<1>3. i \notin log_state[s][o] + 1 .. logged[s][o]
  BY <1>1, <1>2 DEF ReplicationInv, LogComplete
<1>. HIDE DEF o, i
<1>4. i - 1 = logged[s][o]
  BY <1>2, <1>3
<1>. QED
  BY <1>4 DEF o, i

(* When a log has been read to its end, its queue is complete.             *)
LEMMA NextLogQueues ==
  ASSUME ReplicationInv, QueueExact, NEW s \in Server, NextLog(s)
  PROVE  QueueExact'
<1>. DEFINE o == cursor[s].origin
<1>0. TypeOK
  BY DEF ReplicationInv
<1>1. /\ phase[s] = "loading"
      /\ command_queue' = command_queue /\ safe_delivered' = safe_delivered
      /\ logged' = logged
  BY DEF NextLog, memoryVars, diskVars
<1>2. o \in Server /\ cursor[s].index - 1 = logged[s][o]
  BY <1>1, LoadingEntries, LogEnd
<1>3. \A v \in Server :
        /\ v <= o => Window(command_queue[s][v], safe_delivered[s][v], logged[s][v])
        /\ v > o => command_queue[s][v] = <<>>
  <2>. SUFFICES ASSUME NEW v \in Server
                PROVE  /\ v <= o => Window(command_queue[s][v], safe_delivered[s][v],
                                           logged[s][v])
                       /\ v > o => command_queue[s][v] = <<>>
    OBVIOUS
  <2>1. QueueFits(s, v)
    BY DEF QueueExact
  <2>2. v <= o <=> v < o \/ v = o
    BY <1>2 DEF Server
  <2>. QED
    BY <1>1, <1>2, <2>1, <2>2 DEF QueueFits
<1>. SUFFICES ASSUME NEW t \in Server, NEW v \in Server
              PROVE  QueueFits(t, v)'
  BY DEF QueueExact
<1>4. CASE t # s
  <2>1. phase'[t] = phase[t] /\ cursor'[t] = cursor[t]
    BY <1>0, <1>4 DEF NextLog, TypeOK, SynchTypeOK
  <2>. QED
    BY <1>1, <2>1, SameQueue DEF QueueExact
<1>5. CASE t = s /\ o + 1 \in Server
  <2>1. /\ phase'[s] = "loading"
        /\ cursor'[s].origin = o + 1
        /\ cursor'[s].index = safe_delivered[s][o + 1] + 1
    BY <1>0, <1>1, <1>5 DEF NextLog, TypeOK, SynchTypeOK
  <2>2. safe_delivered[s][o + 1] \in Nat
    BY <1>0, <1>5, EntryTypes DEF Entries
  <2>3. /\ cursor'[s].index - 1 = safe_delivered[s][o + 1]
        /\ Window(<<>>, safe_delivered[s][o + 1], safe_delivered[s][o + 1])
    BY <2>1, <2>2, WindowEmpty
  <2>4. /\ v < o + 1 => v <= o
        /\ v > o + 1 => v > o
        /\ o + 1 > o
    BY <1>2 DEF Server
  <2>. QED
    BY <1>1, <1>3, <1>5, <2>1, <2>3, <2>4 DEF QueueFits, Joined
<1>6. CASE t = s /\ o + 1 \notin Server
  <2>1. phase'[s] = "main"
    BY <1>0, <1>6 DEF NextLog, TypeOK, SynchTypeOK
  <2>2. v <= o
    BY <1>2, <1>6, NMachinesAssumption DEF Server
  <2>. QED
    BY <1>1, <1>3, <1>6, <2>1, <2>2 DEF QueueFits
<1>. QED
  BY <1>4, <1>5, <1>6

(* At first the queues are empty.                                          *)
LEMMA InitQueues == Init => QueueExact
<1>. SUFFICES ASSUME Init, NEW s \in Server, NEW o \in Server
              PROVE  QueueFits(s, o)
  BY DEF QueueExact
<1>1. /\ command_queue[s][o] = <<>> /\ phase[s] = "main"
      /\ safe_delivered[s][o] = 0 /\ logged[s][o] = 0
  BY DEF Init, Zeros
<1>. QED
  BY <1>1, WindowEmpty DEF QueueFits

(* Every step keeps the queues exact.                                      *)
LEMMA NextQueues ==
  ASSUME ReplicationInv, ReplicationInv', QueueExact, [Next]_vars
  PROVE  QueueExact'
<1>0. TypeOK
  BY DEF ReplicationInv
<1>1. CASE Unmoved
  <2>1. /\ command_queue' = command_queue /\ safe_delivered' = safe_delivered
        /\ logged' = logged /\ cursor' = cursor /\ SamePhases
    BY <1>1 DEF Unmoved, memoryVars, diskVars
  <2>. QED
    BY <2>1, SameQueue DEF QueueExact, SamePhases
<1>2. ASSUME NEW s \in Server, NEW o \in Server, NEW i \in Nat, Applies(s, o, i)
      PROVE  QueueExact'
  BY <1>2, AppliesQueues
<1>3. ASSUME NEW s \in Server, NEW summary \in Knowledge, Learns(s, summary)
      PROVE  QueueExact'
  BY <1>3, LearnsQueues
<1>4. ASSUME NEW s \in Server,
             Crash(s) \/ Restart(s) \/ ReplayLogRecord(s) \/ NextLog(s)
      PROVE  QueueExact'
  BY <1>0, <1>4, CrashQueues, RestartQueues, ReplayQueues, NextLogQueues
<1>. QED
  BY <1>1, <1>2, <1>3, <1>4, StepKinds

(* The queues are what was logged and not collected, at every moment of    *)
(* every execution, through crashes and recoveries.                        *)
THEOREM QueuesAreExact == Spec => []QueueExact
<1>1. ReplicationInv /\ ReplicationInv' /\ QueueExact /\ [Next]_vars => QueueExact'
  BY NextQueues
<1>. QED
  BY <1>1, InitQueues, ReplicationInvariant, PTL DEF Spec

(* Any server that is up can resend whatever any other server lacks        *)
(* (broadcast_messages_from_queue), however the collections went.          *)
THEOREM QueuesCoverLaggards == Spec => []QueueCoversLaggards
<1>1. ReplicationInv /\ QueueExact => QueueCoversLaggards
  <2>. SUFFICES ASSUME ReplicationInv, QueueExact,
                       NEW s \in Joined, NEW t \in Server, NEW o \in Server,
                       logged[t][o] < logged[s][o]
                PROVE  MessagesFrom(command_queue[s][o], o, logged[t][o])
                         = [n \in 1 .. logged[s][o] - logged[t][o] |->
                             CommandMessage(o, logged[t][o] + n)]
    BY DEF QueueCoversLaggards
  <2>0. s \in Server /\ TypeOK
    BY DEF Joined, ReplicationInv
  <2>1. Window(command_queue[s][o], safe_delivered[s][o], logged[s][o])
    BY <2>0 DEF QueueExact, QueueFits
  <2>2. /\ safe_delivered[s][o] <= knowledge[s][t][o]
        /\ knowledge[s][t][o] <= logged[t][o]
    BY <2>0 DEF ReplicationInv, SafeSound, KnowledgeSound, Joined
  <2>3. /\ command_queue[s][o] \in Seq(Nat)
        /\ safe_delivered[s][o] \in Nat /\ knowledge[s][t][o] \in Nat
        /\ logged[t][o] \in Nat /\ logged[s][o] \in Nat
    BY <2>0, QueueTypes DEF Entries
  <2>4. safe_delivered[s][o] <= logged[t][o]
    BY <2>2, <2>3
  <2>. DEFINE queue == command_queue[s][o]
              low == safe_delivered[s][o]
              high == logged[s][o]
              start == logged[t][o]
  <2>5. /\ queue \in Seq(Nat) /\ low \in Nat /\ high \in Nat /\ start \in Nat
        /\ Window(queue, low, high) /\ low <= start /\ start < high
    BY <2>1, <2>3, <2>4
  <2>. HIDE DEF queue, low, high, start
  <2>6. MessagesFrom(queue, o, start)
          = [n \in 1 .. high - start |-> CommandMessage(o, start + n)]
    BY <2>5, WindowMessages
  <2>. QED
    BY <2>6 DEF queue, high, start
<1>. QED
  BY <1>1, QueuesAreExact, ReplicationInvariant, PTL
=============================================================================
