---------------------------- MODULE DeliveryProofs ----------------------------
(* Replication implements Delivery: every step of the servers is a step of *)
(* the abstract specification on the counts of logged commands, or leaves  *)
(* them as they are.                                                       *)
EXTENDS ReplicationProofs

-----------------------------------------------------------------------------
(* Messages about commands that were issued.                               *)

(* Sequences over a set are sequences over a larger one.                   *)
LEMMA SeqOfLarger ==
  ASSUME NEW S, NEW T, S \subseteq T, NEW seq \in Seq(S)
  PROVE  seq \in Seq(T)
OBVIOUS

(* A command once issued stays so.                                         *)
LEMMA IssuedGrows ==
  ASSUME TypeOK, TypeOK', Below(logged, logged')
  PROVE  /\ Issued \subseteq Issued'
         /\ \A s \in Server : Stashed(s) \subseteq Stashed(s)'
<1>1. \A o \in Server : /\ logged[o][o] \in Nat /\ logged'[o][o] \in Nat
                        /\ logged[o][o] <= logged'[o][o]
  BY EntryTypes, EntryTypesNext DEF Entries, Below
<1>2. \A c \in Command : /\ c.index \in Nat
                         /\ c.index <= logged[c.origin][c.origin] =>
                              c.index <= logged'[c.origin][c.origin]
  BY <1>1 DEF Command
<1>3. \A m \in Message : m.type = "COMMAND" => m \in Command
  BY DEF Message, Multicasts, Membership
<1>. QED
  BY <1>2, <1>3 DEF Issued, Stashed

(* What s resends comes from its queue, so its origin has issued it.       *)
LEMMA ResendsIssued ==
  ASSUME TypeOK, QueueExact, NoneAhead, NEW s \in Joined, NEW o \in Server, NEW start
  PROVE  MessagesFrom(command_queue[s][o], o, start) \in Seq(Issued)
<1>. DEFINE queue == command_queue[s][o]
            found == {n \in 1 .. Len(queue) : queue[n] = start + 1}
            len == Len(queue) - Min(found) + 1
<1>0. /\ s \in Server /\ queue \in Seq(Nat)
      /\ safe_delivered[s][o] \in Nat /\ logged[s][o] \in Nat /\ logged[o][o] \in Nat
      /\ logged[s][o] <= logged[o][o]
  BY QueueTypes DEF Joined, Entries, NoneAhead
<1>1. Window(queue, safe_delivered[s][o], logged[s][o])
  BY <1>0 DEF QueueExact, QueueFits
<1>2. ASSUME NEW n \in 1 .. Len(queue)
      PROVE  queue[n] \in Nat /\ queue[n] <= logged[o][o]
  <2>1. queue[n] \in Nat /\ queue[n] <= logged[s][o]
    BY <1>0, <1>1, WindowBound
  <2>. QED
    BY <1>0, <2>1
<1>3. \A n \in 1 .. Len(queue) : CommandMessage(o, queue[n]) \in Issued
  <2>. SUFFICES ASSUME NEW n \in 1 .. Len(queue)
                PROVE  CommandMessage(o, queue[n]) \in Issued
    OBVIOUS
  <2>1. CommandMessage(o, queue[n]) \in Message
    BY <1>2, CommandMessageType DEF Message
  <2>. QED
    BY <1>2, <2>1 DEF Issued, CommandMessage
<1>4. CASE found = {}
  BY <1>4 DEF MessagesFrom
<1>5. CASE found # {}
  <2>0. Len(queue) \in Nat /\ found \in SUBSET (1 .. Len(queue))
    BY <1>0
  <2>. HIDE DEF found, queue
  <2>1. Min(found) \in 1 .. Len(queue)
    BY <1>5, <2>0, MinPosition
  <2>2. len \in Nat /\ \A n \in 1 .. len : Min(found) + n - 1 \in 1 .. Len(queue)
    BY <2>0, <2>1
  <2>. HIDE DEF len
  <2>3. [n \in 1 .. len |-> CommandMessage(o, queue[Min(found) + n - 1])] \in Seq(Issued)
    BY <1>3, <2>2
  <2>. QED
    BY <1>5, <2>3 DEF MessagesFrom, len, found, queue
<1>. QED
  BY <1>4, <1>5

(* A summary is no command, so that nobody has to have issued it.          *)
LEMMA KnowledgeIssued ==
  ASSUME NEW s \in Server, NEW matrix \in Knowledge
  PROVE  KnowledgeMessage(s, matrix) \in Issued /\ KnowledgeMessage(s, matrix) \in Issued'
<1>1. KnowledgeMessage(s, matrix) \in Message
  BY KnowledgeMessageType DEF Message
<1>2. KnowledgeMessage(s, matrix).type # "COMMAND"
  BY DEF KnowledgeMessage
<1>. QED
  BY <1>1, <1>2 DEF Issued

(* The server reads a message, multicasts some, or both.                   *)
LEMMA CommandsAfter ==
  ASSUME TypeOK, TypeOK', CommandsIssued, Below(logged, logged'),
         NEW s \in Server, NEW messages \in Seq(Issued'),
         UNCHANGED mailbox \/ (mailbox[s] # <<>> /\ ReadNext(s)),
         UNCHANGED outbox \/ Multicast(s, messages),
         synch_queue' \in [Server -> Seq(Command)],
         \A t \in Server : synch_queue'[t] \in Seq(Stashed(t)')
  PROVE  CommandsIssued'
<1>1. \A t \in Server : mailbox[t] \in Seq(Issued') /\ outbox[t] \in Seq(Issued')
  BY IssuedGrows, SeqOfLarger DEF CommandsIssued
<1>2. /\ mailbox \in [Server -> Seq(Message)]
      /\ outbox \in [Server -> Seq(Multicasts)]
  BY DEF TypeOK, NetTypeOK
<1>3. ASSUME NEW t \in Server
      PROVE  mailbox'[t] \in Seq(Issued')
  <2>1. CASE UNCHANGED mailbox
    BY <1>1, <2>1
  <2>2. CASE mailbox[s] # <<>> /\ ReadNext(s)
    <3>1. Tail(mailbox[s]) \in Seq(Issued')
      BY <1>1, <2>2, HeadTailProperties
    <3>2. mailbox'[t] = IF t = s THEN Tail(mailbox[s]) ELSE mailbox[t]
      BY <1>2, <2>2 DEF ReadNext
    <3>. QED
      BY <1>1, <3>1, <3>2
  <2>. QED
    BY <2>1, <2>2
<1>4. ASSUME NEW t \in Server
      PROVE  outbox'[t] \in Seq(Issued')
  <2>1. CASE UNCHANGED outbox
    BY <1>1, <2>1
  <2>2. CASE Multicast(s, messages)
    <3>1. outbox[s] \o messages \in Seq(Issued')
      BY <1>1, ConcatProperties
    <3>2. outbox'[t] = IF t = s THEN outbox[s] \o messages ELSE outbox[t]
      BY <1>2, <2>2 DEF Multicast
    <3>. QED
      BY <1>1, <3>1, <3>2
  <2>. QED
    BY <2>1, <2>2
<1>. QED
  BY <1>3, <1>4 DEF CommandsIssued

-----------------------------------------------------------------------------
(* What a step does to the counts.                                         *)

(* One server logs one command, its own or one its origin has logged.      *)
Logs(s, o) ==
  /\ logged' = [logged EXCEPT ![s][o] = @ + 1]
  /\ o # s => logged[s][o] < logged[o][o]

DeliveryStep == UNCHANGED logged \/ \E s, o \in Server : Logs(s, o)

(* A step of Delivery forgets nothing.                                     *)
LEMMA StepGrows ==
  ASSUME TypeOK, DeliveryStep
  PROVE  Below(logged, logged')
<1>1. logged \in [Server -> [Server -> Nat]]
  BY DEF TypeOK, DiskTypeOK, Counts
<1>2. CASE UNCHANGED logged
  BY <1>1, <1>2 DEF Below
<1>3. ASSUME NEW s \in Server, NEW o \in Server, Logs(s, o)
      PROVE  Below(logged, logged')
  BY <1>1, <1>3 DEF Below, Logs
<1>. QED
  BY <1>2, <1>3 DEF DeliveryStep

(* A step of Delivery takes nobody ahead of an origin.                     *)
LEMMA StepNoneAhead ==
  ASSUME TypeOK, NoneAhead, DeliveryStep
  PROVE  NoneAhead'
<1>1. logged \in [Server -> [Server -> Nat]]
  BY DEF TypeOK, DiskTypeOK, Counts
<1>2. CASE UNCHANGED logged
  BY <1>2 DEF NoneAhead
<1>3. ASSUME NEW s \in Server, NEW o \in Server, Logs(s, o)
      PROVE  NoneAhead'
  <2>. SUFFICES ASSUME NEW t \in Server, NEW v \in Server
                PROVE  logged'[t][v] <= logged'[v][v]
    BY DEF NoneAhead
  <2>1. /\ logged'[t][v] = IF t = s /\ v = o THEN logged[t][v] + 1 ELSE logged[t][v]
        /\ logged'[v][v] = IF v = s /\ v = o THEN logged[v][v] + 1 ELSE logged[v][v]
    BY <1>1, <1>3 DEF Logs
  <2>2. logged[t][v] \in Nat /\ logged[v][v] \in Nat /\ logged[t][v] <= logged[v][v]
    BY <1>1 DEF NoneAhead
  <2>3. t = s /\ v = o /\ o # s => logged[t][v] < logged[v][v]
    BY <1>3 DEF Logs
  <2>. QED
    BY <2>1, <2>2, <2>3
<1>. QED
  BY <1>2, <1>3 DEF DeliveryStep

(* A server applies a command it took from a client, from its mailbox or   *)
(* from its synch_queue: it multicasts what was issued.                    *)
LEMMA ApplyIssued ==
  ASSUME ReplicationInv, TypeOK', NEW s \in Joined, NEW o \in Server, NEW i \in Nat,
         o # s => i <= logged[o][o],
         ApplyNewCommand(s, o, i)
  PROVE  /\ DeliveryStep
         /\ \E messages \in Seq(Issued') : UNCHANGED outbox \/ Multicast(s, messages)
<1>0. /\ TypeOK /\ s \in Server
      /\ knowledge[s][s][o] = logged[s][o] /\ logged[s][o] \in Nat /\ logged[s][s] \in Nat
  BY EntryTypes DEF ReplicationInv, RestartLosesNothing, Joined, Entries
<1>1. CASE IsNext(s, o, i)
  <2>1. /\ logged' = [logged EXCEPT ![s][o] = @ + 1]
        /\ Multicast(s, Broadcasts(s, o, i))
    BY <1>1 DEF ApplyNewCommand, WriteCommandToLog
  <2>2. i = logged[s][o] + 1
    BY <1>0, <1>1 DEF IsNext
  <2>3. Logs(s, o)
    <3>1. o # s => logged[o][o] \in Nat
      BY <1>0, EntryTypes DEF Entries
    <3>. QED
      BY <1>0, <2>1, <2>2, <3>1 DEF Logs
  <2>. DEFINE mine == <<KnowledgeMessage(s, knowledge'[s])>>
              command == <<CommandMessage(o, i)>>
              first == IF Serializes(s) THEN mine ELSE <<>>
              second == IF o = s THEN command ELSE <<>>
  <2>4. mine \in Seq(Issued')
    <3>1. knowledge'[s] \in Knowledge
      BY <1>0 DEF TypeOK, MemoryTypeOK
    <3>. QED
      BY <1>0, <3>1, KnowledgeIssued
  <2>5. o = s => command \in Seq(Issued')
    <3>1. CommandMessage(o, i) \in Message
      BY CommandMessageType DEF Message
    <3>2. o = s => logged'[s][s] = i
      BY <1>0, <2>1, <2>2 DEF TypeOK, DiskTypeOK, Counts
    <3>3. o = s => CommandMessage(o, i) \in Issued'
      BY <3>1, <3>2 DEF Issued, CommandMessage
    <3>. QED
      BY <3>3
  <2>. HIDE DEF mine, command
  <2>6. first \in Seq(Issued') /\ second \in Seq(Issued')
    BY <2>4, <2>5
  <2>7. Broadcasts(s, o, i) = first \o second
    BY DEF Broadcasts, mine, command
  <2>. HIDE DEF first, second
  <2>8. Broadcasts(s, o, i) \in Seq(Issued')
    BY <2>6, <2>7, ConcatProperties
  <2>. QED
    BY <1>0, <2>1, <2>3, <2>8 DEF DeliveryStep
<1>2. CASE ~ IsNext(s, o, i)
  <2>1. UNCHANGED outbox /\ UNCHANGED logged
    BY <1>2 DEF ApplyNewCommand, diskVars
  <2>2. <<>> \in Seq(Issued')
    OBVIOUS
  <2>. QED
    BY <2>1, <2>2 DEF DeliveryStep
<1>. QED
  BY <1>1, <1>2

-----------------------------------------------------------------------------
(* Every action, one after the other.                                      *)

(* A step that leaves the counts alone and multicasts what was issued.     *)
LEMMA SilentIssued ==
  ASSUME TypeOK, TypeOK', CommandsIssued, UNCHANGED logged,
         NEW s \in Server, NEW messages \in Seq(Issued),
         UNCHANGED mailbox \/ (mailbox[s] # <<>> /\ ReadNext(s)),
         UNCHANGED outbox \/ Multicast(s, messages),
         UNCHANGED synch_queue
  PROVE  CommandsIssued'
<1>1. Below(logged, logged')
  BY StepGrows DEF DeliveryStep
<1>2. messages \in Seq(Issued')
  BY <1>1, IssuedGrows, SeqOfLarger
<1>3. synch_queue' \in [Server -> Seq(Command)]
  BY DEF TypeOK, SynchTypeOK
<1>4. \A t \in Server : synch_queue'[t] \in Seq(Stashed(t)')
  BY <1>1, IssuedGrows, SeqOfLarger DEF CommandsIssued
<1>. QED
  BY <1>1, <1>2, <1>3, <1>4, CommandsAfter

(* What the head of a mailbox says was issued.                             *)
LEMMA ReadIssued ==
  ASSUME TypeOK, CommandsIssued, NEW s \in Server, NextIs(s, "COMMAND")
  PROVE  /\ Head(mailbox[s]) \in Command
         /\ Head(mailbox[s]).index <= logged[Head(mailbox[s]).origin][Head(mailbox[s]).origin]
<1>1. Head(mailbox[s]) \in Issued
  BY HeadTailProperties DEF CommandsIssued, NextIs
<1>2. Head(mailbox[s]) \in Message /\ Head(mailbox[s]).type = "COMMAND"
  BY <1>1 DEF Issued, NextIs
<1>. QED
  BY <1>1, <1>2 DEF Issued, Message, Multicasts, Membership

(* Every step is one of Delivery or leaves the logs alone, and puts no     *)
(* command on its way that its origin has not issued.                      *)
LEMMA NextIssued ==
  ASSUME ReplicationInv, TypeOK', QueueExact, NoneAhead, CommandsIssued, [Next]_vars
  PROVE  DeliveryStep /\ CommandsIssued'
<1>0. TypeOK /\ <<>> \in Seq(Issued) /\ <<>> \in Seq(Issued')
  BY DEF ReplicationInv
<1>. DEFINE Goal == DeliveryStep /\ CommandsIssued'
<1>1. ASSUME NEW s \in Server, NewCommand(s)
      PROVE  Goal
  <2>1. s \in Joined /\ knowledge[s][s][s] + 1 \in Nat
    BY <1>0, <1>1, EntryTypes DEF Entries, NewCommand, Joined
  <2>2. /\ ApplyNewCommand(s, s, knowledge[s][s][s] + 1)
        /\ UNCHANGED <<synch_queue, mailbox>>
    BY <1>1 DEF NewCommand
  <2>3. /\ DeliveryStep
        /\ \E messages \in Seq(Issued') : UNCHANGED outbox \/ Multicast(s, messages)
    BY <2>1, <2>2, ApplyIssued
  <2>4. Below(logged, logged')
    BY <1>0, <2>3, StepGrows
  <2>5. /\ synch_queue' \in [Server -> Seq(Command)]
        /\ \A t \in Server : synch_queue'[t] \in Seq(Stashed(t)')
    BY <1>0, <2>2, <2>4, IssuedGrows, SeqOfLarger DEF CommandsIssued, TypeOK, SynchTypeOK
  <2>. QED
    BY <1>0, <2>2, <2>3, <2>4, <2>5, CommandsAfter
<1>2. ASSUME NEW s \in Server, StashCommand(s)
      PROVE  Goal
  <2>1. UNCHANGED <<logged, mailbox, outbox>>
    BY <1>2 DEF StashCommand, diskVars, netVars
  <2>2. DeliveryStep /\ Below(logged, logged')
    BY <1>0, <2>1, StepGrows DEF DeliveryStep
  <2>. DEFINE c == CommandMessage(s, knowledge[s][s][s] + 1)
  <2>3. c \in Command /\ c.origin = s
    <3>1. knowledge[s][s][s] + 1 \in Nat
      BY <1>0, EntryTypes DEF Entries
    <3>. QED
      BY <3>1, CommandMessageType DEF CommandMessage
  <2>4. synch_queue' = [synch_queue EXCEPT ![s] = Append(@, c)]
    BY <1>2 DEF StashCommand
  <2>. HIDE DEF c
  <2>5. \A t \in Server : synch_queue[t] \in Seq(Stashed(t)')
    BY <1>0, <2>2, IssuedGrows, SeqOfLarger DEF CommandsIssued
  <2>6. c \in Stashed(s)'
    BY <2>3 DEF Stashed
  <2>7. Append(synch_queue[s], c) \in Seq(Stashed(s)')
    BY <2>5, <2>6, AppendProperties
  <2>8. \A t \in Server : synch_queue'[t] \in Seq(Stashed(t)')
    BY <1>0, <2>4, <2>5, <2>7 DEF TypeOK, SynchTypeOK
  <2>. QED
    BY <1>0, <2>1, <2>2, <2>8, CommandsAfter DEF TypeOK, SynchTypeOK
<1>3. ASSUME NEW s \in Server, ReadCommand(s)
      PROVE  Goal
  <2>. DEFINE c == Head(mailbox[s])
  <2>1. NextIs(s, "COMMAND") /\ mailbox[s] # <<>> /\ ReadNext(s)
    BY <1>3 DEF ReadCommand, NextIs
  <2>2. c \in Command /\ c.index <= logged[c.origin][c.origin]
    BY <1>0, <2>1, ReadIssued
  <2>3. c.origin \in Server /\ c.index \in Nat
    BY <2>2 DEF Command
  <2>4. CASE /\ phase[s] = "main"
             /\ ApplyNewCommand(s, c.origin, c.index)
             /\ UNCHANGED synch_queue
    <3>. HIDE DEF c
    <3>1. s \in Joined
      BY <2>4 DEF Joined
    <3>2. /\ DeliveryStep
          /\ \E messages \in Seq(Issued') : UNCHANGED outbox \/ Multicast(s, messages)
      BY <2>2, <2>3, <2>4, <3>1, ApplyIssued
    <3>3. Below(logged, logged')
      BY <1>0, <3>2, StepGrows
    <3>4. /\ synch_queue' \in [Server -> Seq(Command)]
          /\ \A t \in Server : synch_queue'[t] \in Seq(Stashed(t)')
      BY <1>0, <2>4, <3>3, IssuedGrows, SeqOfLarger DEF CommandsIssued, TypeOK, SynchTypeOK
    <3>. QED
      BY <1>0, <2>1, <3>2, <3>3, <3>4, CommandsAfter
  <2>5. CASE /\ synch_queue' = [synch_queue EXCEPT ![s] = Append(@, c)]
             /\ UNCHANGED <<memoryVars, diskVars, outbox>>
    <3>1. UNCHANGED <<logged, outbox>>
      BY <2>5 DEF diskVars
    <3>2. DeliveryStep /\ Below(logged, logged')
      BY <1>0, <3>1, StepGrows DEF DeliveryStep
    <3>. HIDE DEF c
    <3>3. c \in Stashed(s)'
      BY <2>2, <3>1 DEF Stashed
    <3>4. \A t \in Server : synch_queue[t] \in Seq(Stashed(t)')
      BY <1>0, <3>2, IssuedGrows, SeqOfLarger DEF CommandsIssued
    <3>5. Append(synch_queue[s], c) \in Seq(Stashed(s)')
      BY <3>3, <3>4, AppendProperties
    <3>6. \A t \in Server : synch_queue'[t] \in Seq(Stashed(t)')
      BY <1>0, <2>5, <3>4, <3>5 DEF TypeOK, SynchTypeOK
    <3>. QED
      BY <1>0, <2>1, <3>1, <3>2, <3>6, CommandsAfter DEF TypeOK, SynchTypeOK
  <2>. QED
    BY <1>3, <2>4, <2>5 DEF ReadCommand
<1>4. ASSUME NEW s \in Server, ReadKnowledge(s)
      PROVE  Goal
  <2>1. mailbox[s] # <<>> /\ ReadNext(s) /\ UNCHANGED <<logged, outbox, synch_queue>>
    BY <1>4 DEF ReadKnowledge, NextIs, UpdateKnowledge
  <2>. QED
    BY <1>0, <2>1, SilentIssued DEF DeliveryStep
<1>5. ASSUME NEW s \in Server, ReadMembership(s)
      PROVE  Goal
  <2>. DEFINE mine == <<KnowledgeMessage(s, knowledge[s])>>
  <2>1. /\ mailbox[s] # <<>> /\ ReadNext(s) /\ Multicast(s, mine)
        /\ UNCHANGED <<logged, synch_queue>>
    BY <1>5 DEF ReadMembership, NextIs, diskVars
  <2>2. mine \in Seq(Issued)
    <3>1. knowledge[s] \in Knowledge
      BY <1>0 DEF TypeOK, MemoryTypeOK
    <3>. QED
      BY <3>1, KnowledgeIssued
  <2>. HIDE DEF mine
  <2>. QED
    BY <1>0, <2>1, <2>2, SilentIssued DEF DeliveryStep
<1>6. ASSUME NEW s \in Server, FinishWaiting(s)
      PROVE  Goal
  <2>1. UNCHANGED <<logged, mailbox, outbox, synch_queue>>
    BY <1>6 DEF FinishWaiting, diskVars, netVars
  <2>. QED
    BY <1>0, <2>1, SilentIssued DEF DeliveryStep
<1>7. ASSUME NEW s \in Server, SendSynchCommands(s)
      PROVE  Goal
  <2>. DEFINE o == Min(need_to_send[s])
  <2>1. o \in Server /\ s \in Joined
    <3>1. need_to_send[s] \in SUBSET Server /\ need_to_send[s] # {}
      BY <1>0, <1>7 DEF SendSynchCommands, TypeOK, SynchTypeOK
    <3>2. need_to_send[s] \in SUBSET Nat
      BY <3>1, NMachinesAssumption DEF Server
    <3>. QED
      BY <1>7, <3>1, <3>2, MinProperty DEF SendSynchCommands, Joined
  <2>2. /\ UNCHANGED <<logged, mailbox, synch_queue>>
        /\ Multicast(s, SynchCommands(s, o))
    BY <1>7 DEF SendSynchCommands, diskVars
  <2>. HIDE DEF o
  <2>3. SynchCommands(s, o) \in Seq(Issued)
    BY <1>0, <2>1, ResendsIssued DEF SynchCommands
  <2>. QED
    BY <1>0, <2>2, <2>3, SilentIssued DEF DeliveryStep
<1>8. ASSUME NEW s \in Server, ApplyQueuedUpdate(s)
      PROVE  Goal
  <2>. DEFINE c == Head(synch_queue[s])
  <2>1. /\ synch_queue[s] # <<>> /\ s \in Joined
        /\ ApplyNewCommand(s, c.origin, c.index)
        /\ synch_queue' = [synch_queue EXCEPT ![s] = Tail(@)]
        /\ UNCHANGED mailbox
    BY <1>8 DEF ApplyQueuedUpdate, Joined
  <2>2. synch_queue[s] \in Seq(Stashed(s))
    BY DEF CommandsIssued
  <2>3. c \in Stashed(s)
    BY <2>1, <2>2, HeadTailProperties
  <2>4. c.origin \in Server /\ c.index \in Nat /\ (c.origin # s => c.index <= logged[c.origin][c.origin])
    BY <2>3 DEF Stashed, Command
  <2>. HIDE DEF c
  <2>5. /\ DeliveryStep
        /\ \E messages \in Seq(Issued') : UNCHANGED outbox \/ Multicast(s, messages)
    BY <2>1, <2>4, ApplyIssued
  <2>6. Below(logged, logged')
    BY <1>0, <2>5, StepGrows
  <2>7. \A t \in Server : synch_queue[t] \in Seq(Stashed(t)')
    BY <1>0, <2>6, IssuedGrows, SeqOfLarger DEF CommandsIssued
  <2>8. Tail(synch_queue[s]) \in Seq(Stashed(s)')
    BY <2>1, <2>7, HeadTailProperties
  <2>9. /\ synch_queue' \in [Server -> Seq(Command)]
        /\ \A t \in Server : synch_queue'[t] \in Seq(Stashed(t)')
    BY <1>0, <2>1, <2>7, <2>8 DEF TypeOK, SynchTypeOK
  <2>. QED
    BY <1>0, <2>1, <2>5, <2>6, <2>9, CommandsAfter
<1>9. ASSUME NEW s \in Server, Crash(s)
      PROVE  Goal
  <2>1. /\ UNCHANGED logged
        /\ mailbox' = [mailbox EXCEPT ![s] = <<>>]
        /\ outbox' = [outbox EXCEPT ![s] = <<>>]
        /\ synch_queue' = [synch_queue EXCEPT ![s] = <<>>]
    BY <1>9 DEF Crash, Disconnect, diskVars
  <2>2. Issued' = Issued /\ \A t \in Server : Stashed(t)' = Stashed(t)
    BY <2>1 DEF Issued, Stashed
  <2>3. ASSUME NEW t \in Server
        PROVE  /\ mailbox'[t] = mailbox[t] \/ mailbox'[t] = <<>>
               /\ outbox'[t] = outbox[t] \/ outbox'[t] = <<>>
               /\ synch_queue'[t] = synch_queue[t] \/ synch_queue'[t] = <<>>
    BY <1>0, <2>1 DEF TypeOK, NetTypeOK, SynchTypeOK
  <2>4. \A t \in Server : <<>> \in Seq(Stashed(t))
    OBVIOUS
  <2>5. \A t \in Server : /\ mailbox'[t] \in Seq(Issued)
                          /\ outbox'[t] \in Seq(Issued)
                          /\ synch_queue'[t] \in Seq(Stashed(t))
    BY <1>0, <2>3, <2>4 DEF CommandsIssued
  <2>. QED
    BY <2>1, <2>2, <2>5 DEF CommandsIssued, DeliveryStep
<1>10. ASSUME \/ \E s \in Server : Restart(s) \/ ReplayLogRecord(s) \/ NextLog(s)
              \/ NetworkChange
              \/ UNCHANGED vars
       PROVE  Goal
  <2>1. UNCHANGED <<logged, mailbox, outbox, synch_queue>>
    BY <1>10 DEF Restart, ReplayLogRecord, NextLog, NetworkChange, Merge, Split,
                 serverVars, diskVars, netVars, vars
  <2>. QED
    BY <1>0, <2>1, ServerNonempty, SilentIssued DEF DeliveryStep
<1>11. ASSUME NEW s \in Server, GroupDeliver(s)
       PROVE  Goal
  <2>. DEFINE m == Head(outbox[s])
  <2>1. UNCHANGED <<logged, synch_queue>> /\ outbox[s] # <<>>
    BY <1>11 DEF GroupDeliver, Deliver, serverVars, diskVars
  <2>2. outbox[s] \in Seq(Issued)
    BY DEF CommandsIssued
  <2>3. m \in Issued /\ Tail(outbox[s]) \in Seq(Issued)
    BY <2>1, <2>2, HeadTailProperties
  <2>4. /\ \A t \in Server : mailbox'[t] = mailbox[t] \/ mailbox'[t] = Append(mailbox[t], m)
        /\ \A t \in Server : outbox'[t] = outbox[t] \/ outbox'[t] = Tail(outbox[s])
    BY <1>0, <1>11 DEF GroupDeliver, Deliver, TypeOK, NetTypeOK
  <2>. HIDE DEF m
  <2>5. \A t \in Server : Append(mailbox[t], m) \in Seq(Issued)
    BY <2>3, AppendProperties DEF CommandsIssued
  <2>6. Issued' = Issued /\ \A t \in Server : Stashed(t)' = Stashed(t)
    BY <2>1 DEF Issued, Stashed
  <2>7. \A t \in Server : /\ mailbox'[t] \in Seq(Issued)
                          /\ outbox'[t] \in Seq(Issued)
                          /\ synch_queue'[t] \in Seq(Stashed(t))
    BY <2>1, <2>3, <2>4, <2>5 DEF CommandsIssued
  <2>. QED
    BY <2>1, <2>6, <2>7 DEF CommandsIssued, DeliveryStep
<1>12. ASSUME NEW s \in Server, GroupInstallView(s)
       PROVE  Goal
  <2>. DEFINE m == [type |-> "MEMBERSHIP", members |-> Reached(s, Joined)]
  <2>1. UNCHANGED <<logged, synch_queue, outbox>>
    BY <1>12 DEF GroupInstallView, InstallView, serverVars, diskVars
  <2>2. m \in Issued
    <3>1. Reached(s, Joined) \in SUBSET Server
      BY DEF Reached, Joined
    <3>. QED
      BY <3>1 DEF Issued, Message, Membership
  <2>3. \A t \in Server : mailbox'[t] = mailbox[t] \/ mailbox'[t] = Append(mailbox[t], m)
    BY <1>12 DEF GroupInstallView, InstallView
  <2>. HIDE DEF m
  <2>4. \A t \in Server : Append(mailbox[t], m) \in Seq(Issued)
    BY <2>2, AppendProperties DEF CommandsIssued
  <2>5. Issued' = Issued /\ \A t \in Server : Stashed(t)' = Stashed(t)
    BY <2>1 DEF Issued, Stashed
  <2>6. \A t \in Server : /\ mailbox'[t] \in Seq(Issued)
                          /\ outbox'[t] \in Seq(Issued)
                          /\ synch_queue'[t] \in Seq(Stashed(t))
    BY <2>1, <2>3, <2>4 DEF CommandsIssued
  <2>. QED
    BY <2>1, <2>5, <2>6 DEF CommandsIssued, DeliveryStep
<1>. QED
  BY <1>1, <1>2, <1>3, <1>4, <1>5, <1>6, <1>7, <1>8, <1>9, <1>10, <1>11, <1>12 DEF Next

(* At first nothing is logged and nothing on its way.                      *)
LEMMA InitIssued == Init => NoneAhead /\ CommandsIssued
<1>. SUFFICES ASSUME Init
              PROVE  NoneAhead /\ CommandsIssued
  OBVIOUS
<1>1. \A s, o \in Server : logged[s][o] = 0
  BY DEF Init, Zeros
<1>2. \A s \in Server : mailbox[s] = <<>> /\ outbox[s] = <<>> /\ synch_queue[s] = <<>>
  BY DEF Init, NetInit
<1>3. NoneAhead
  BY <1>1 DEF NoneAhead
<1>4. \A s \in Server : <<>> \in Seq(Issued) /\ <<>> \in Seq(Stashed(s))
  OBVIOUS
<1>5. CommandsIssued
  BY <1>2, <1>4 DEF CommandsIssued
<1>. QED
  BY <1>3, <1>5

-----------------------------------------------------------------------------
(* The theorems.                                                           *)

(* Queues, messages, stashed commands and state files agree with what the  *)
(* servers have logged, in every reachable state.                          *)
THEOREM DeliveryInvariant == Spec => []DeliveryInv
<1>. DEFINE Inv == QueueExact /\ NoneAhead /\ CommandsIssued /\ SavedBehind
<1>1. Init => Inv
  BY InitIssued, InitQueues, InitSavedBehind
<1>2. ReplicationInv /\ ReplicationInv' /\ Inv /\ [Next]_vars => Inv'
  <2>. SUFFICES ASSUME ReplicationInv, ReplicationInv', Inv, [Next]_vars
                PROVE  Inv'
    OBVIOUS
  <2>1. TypeOK /\ TypeOK'
    BY DEF ReplicationInv
  <2>2. DeliveryStep /\ CommandsIssued'
    BY <2>1, NextIssued
  <2>. QED
    BY <2>1, <2>2, StepNoneAhead, NextQueues, NextFilesGrow
<1>3. Inv <=> DeliveryInv
  BY DEF DeliveryInv
<1>. HIDE DEF Inv
<1>. QED
  BY <1>1, <1>2, <1>3, ReplicationInvariant, PTL DEF Spec

(* A server's log is a prefix of its origin's, extended one command at a   *)
(* time: the abstract promise of Delivery, whatever the network does and   *)
(* whoever crashes.                                                        *)
THEOREM DeliveryImplemented == Spec => DeliverySpec
<1>1. Init => D!Init
  BY DEF Init, D!Init, Zeros
<1>2. ReplicationInv /\ ReplicationInv' /\ DeliveryInv /\ [Next]_vars => [D!Next]_logged
  <2>. SUFFICES ASSUME ReplicationInv, ReplicationInv', DeliveryInv, [Next]_vars
                PROVE  [D!Next]_logged
    OBVIOUS
  <2>1. DeliveryStep
    BY NextIssued DEF DeliveryInv, ReplicationInv
  <2>2. CASE UNCHANGED logged
    BY <2>2
  <2>3. ASSUME NEW s \in Server, NEW o \in Server, Logs(s, o)
        PROVE  D!Next
    <3>1. CASE s = o
      BY <2>3, <3>1 DEF Logs, D!Next, D!Issue
    <3>2. CASE s # o
      BY <2>3, <3>2 DEF Logs, D!Next, D!Apply
    <3>. QED
      BY <3>1, <3>2
  <2>. QED
    BY <2>1, <2>2, <2>3 DEF DeliveryStep
<1>. QED
  BY <1>1, <1>2, ReplicationInvariant, DeliveryInvariant, PTL
     DEF Spec, DeliverySpec, D!Spec

=============================================================================
