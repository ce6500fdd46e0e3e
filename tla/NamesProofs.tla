----------------------------- MODULE NamesProofs -----------------------------
(***************************************************************************)
(* Theorems about ServerNames, for every number of servers and whatever    *)
(* the order in which Spread lists them: its inductive invariant NamesInv, *)
(* and from it FrontIsListed.                                              *)
(***************************************************************************)
EXTENDS ServerNames, ReplicationProofs

-----------------------------------------------------------------------------
(* Members in Spread's order.                                              *)

(* Servers are as many as their numbers say.                               *)
LEMMA ServersAreFinite ==
  /\ IsFiniteSet(Server) /\ Cardinality(Server) = N_MACHINES
  /\ \A members \in SUBSET Server :
       IsFiniteSet(members) /\ Cardinality(members) \in 0 .. N_MACHINES
<1>1. N_MACHINES \in Nat \ {0}
  BY NMachinesAssumption
<1>2. IsFiniteSet(Server) /\ Cardinality(Server) = N_MACHINES
  BY <1>1, FS_Interval DEF Server
<1>3. ASSUME NEW members \in SUBSET Server
      PROVE  IsFiniteSet(members) /\ Cardinality(members) \in 0 .. N_MACHINES
  <2>1. IsFiniteSet(members) /\ Cardinality(members) <= N_MACHINES
    BY <1>2, FS_Subset
  <2>. QED
    BY <1>1, <2>1, FS_CardinalityType
<1>. QED
  BY <1>2, <1>3

(* Every place is that of one member.                                      *)
LEMMA PlacesAreTaken ==
  ASSUME NEW members \in SUBSET Server
  PROVE  LET k == Cardinality(members)
         IN  /\ \A t \in members : Place(members, t) \in 1 .. k
             /\ \A t, u \in members : Place(members, t) = Place(members, u) => t = u
             /\ \A i \in 1 .. k : \E t \in members : Place(members, t) = i
<1>. DEFINE k == Cardinality(members)
            upTo(t) == {u \in members : Order[u] <= Order[t]}
            place == [t \in members |-> Place(members, t)]
<1>1. IsFiniteSet(members) /\ k \in Nat
  BY ServersAreFinite
<1>. HIDE DEF k
<1>2. \A t \in members : Order[t] \in Nat
  BY OrderAssumption
<1>3. ASSUME NEW t \in members
      PROVE  /\ IsFiniteSet(upTo(t)) /\ Cardinality(upTo(t)) \in Nat
             /\ Place(members, t) = Cardinality(upTo(t))
  <2>1. upTo(t) \in SUBSET members
    OBVIOUS
  <2>2. IsFiniteSet(upTo(t))
    BY <1>1, <2>1, FS_Subset
  <2>3. Cardinality(upTo(t)) \in Nat
    BY <2>2, FS_CardinalityType
  <2>. QED
    BY <2>2, <2>3 DEF Place
<1>4. ASSUME NEW t \in members
      PROVE  Place(members, t) \in 1 .. k
  <2>1. upTo(t) \in SUBSET members /\ t \in upTo(t)
    BY <1>2
  <2>2. Cardinality(upTo(t)) <= k
    BY <1>1, <2>1, FS_Subset DEF k
  <2>3. Cardinality(upTo(t)) # 0
    BY <1>3, <2>1, FS_EmptySet
  <2>. QED
    BY <1>1, <1>3, <2>2, <2>3
<1>5. ASSUME NEW t \in members, NEW u \in members, Place(members, t) = Place(members, u),
             Order[t] <= Order[u]
      PROVE  t = u
  <2>1. upTo(t) \in SUBSET upTo(u)
    BY <1>2, <1>5
  <2>2. Cardinality(upTo(u)) = Cardinality(upTo(t))
    BY <1>3, <1>5
  <2>3. upTo(u) = upTo(t)
    BY <1>3, <2>1, <2>2, FS_Subset
  <2>4. u \in upTo(t)
    BY <1>2, <2>3
  <2>5. Order[u] = Order[t]
    BY <1>2, <1>5, <2>4
  <2>. QED
    BY <2>5, OrderAssumption
<1>6. \A t, u \in members : Place(members, t) = Place(members, u) => t = u
  <2>1. \A t, u \in members : Order[t] <= Order[u] \/ Order[u] <= Order[t]
    BY <1>2
  <2>. QED
    BY <1>5, <2>1, Zenon
<1>7. place \in Injection(members, 1 .. k)
  <2>1. place \in [members -> 1 .. k]
    BY <1>4
  <2>2. \A t, u \in members : place[t] = place[u] => t = u
    BY <1>6
  <2>. HIDE DEF place
  <2>. QED
    BY <2>1, <2>2 DEF Injection, IsInjective
<1>8. IsFiniteSet(1 .. k) /\ Cardinality(1 .. k) = k
  BY <1>1, FS_Interval
<1>. HIDE DEF place
<1>9. place \in Surjection(members, 1 .. k)
  BY <1>7, <1>8, FS_Injection DEF k
<1>10. \A i \in 1 .. k : \E t \in members : place[t] = i
  BY <1>9 DEF Surjection
<1>11. \A i \in 1 .. k : \E t \in members : Place(members, t) = i
  BY <1>10 DEF place
<1>. QED
  BY <1>4, <1>6, <1>11 DEF k

(* The members in order are the members.                                   *)
LEMMA InOrderIsTheMembers ==
  ASSUME NEW members \in SUBSET Server
  PROVE  /\ \A i \in 1 .. Cardinality(members) : InOrder(members)[i] \in members
         /\ \A t \in members : \E i \in 1 .. Cardinality(members) : InOrder(members)[i] = t
<1>. DEFINE k == Cardinality(members)
            at(i) == CHOOSE t \in members : Place(members, t) = i
<1>1. /\ \A t \in members : Place(members, t) \in 1 .. k
      /\ \A t, u \in members : Place(members, t) = Place(members, u) => t = u
      /\ \A i \in 1 .. k : \E t \in members : Place(members, t) = i
  BY PlacesAreTaken, Zenon
<1>2. \A i \in 1 .. k : InOrder(members)[i] = at(i)
  BY DEF InOrder
<1>3. ASSUME NEW i \in 1 .. k
      PROVE  at(i) \in members /\ Place(members, at(i)) = i
  BY <1>1
<1>. HIDE DEF k, at
<1>4. \A t \in members : at(Place(members, t)) = t
  BY <1>1, <1>3
<1>. QED
  BY <1>1, <1>2, <1>3, <1>4 DEF k

-----------------------------------------------------------------------------
(* The invariant, server by server.                                        *)

Includes(messages, s) ==
  \A n \in 1 .. Len(messages) : messages[n].type = "MEMBERSHIP" => s \in messages[n].members

Marked(s) ==
  /\ received[s] \subseteq synch_members[s]
  /\ phase[s] # "waiting" => received[s] = synch_members[s]
  /\ phase[s] = "down" => synch_members[s] = {}

Named(s) == \A i \in 1 .. NumServers(s) : names[s][i] = InOrder(synch_members[s])[i]

LEMMA NamesInvParts ==
  NamesInv <=> \A s \in Server : Includes(mailbox[s], s) /\ Marked(s) /\ Named(s)
BY Zenon DEF NamesInv, Includes, Marked, Named

(* A message that does not exclude s, behind others.                       *)
LEMMA IncludesAppend ==
  ASSUME NEW messages \in Seq(Message), NEW s, NEW m \in Message, Includes(messages, s),
         m.type = "MEMBERSHIP" => s \in m.members
  PROVE  Includes(Append(messages, m), s)
<1>1. /\ Len(messages) \in Nat /\ Len(Append(messages, m)) = Len(messages) + 1
      /\ \A n \in 1 .. Len(messages) : Append(messages, m)[n] = messages[n]
      /\ Append(messages, m)[Len(messages) + 1] = m
  BY AppendProperties
<1>2. ASSUME NEW n \in 1 .. Len(messages) + 1, Append(messages, m)[n].type = "MEMBERSHIP"
      PROVE  s \in Append(messages, m)[n].members
  <2>1. CASE n = Len(messages) + 1
    BY <1>1, <1>2, <2>1
  <2>2. CASE n # Len(messages) + 1
    <3>1. n \in 1 .. Len(messages)
      BY <1>1, <2>2
    <3>. QED
      BY <1>1, <1>2, <3>1, Zenon DEF Includes
  <2>. QED
    BY <2>1, <2>2
<1>. QED
  BY <1>1, <1>2 DEF Includes

LEMMA IncludesTail ==
  ASSUME NEW messages \in Seq(Message), messages # <<>>, NEW s, Includes(messages, s)
  PROVE  /\ Includes(Tail(messages), s)
         /\ Head(messages).type = "MEMBERSHIP" => s \in Head(messages).members
<1>1. /\ Len(messages) \in Nat /\ Len(messages) # 0
      /\ Head(messages) = messages[1]
      /\ Len(Tail(messages)) = Len(messages) - 1
      /\ \A n \in 1 .. Len(Tail(messages)) : Tail(messages)[n] = messages[n + 1]
  BY EmptySeq, HeadTailProperties
<1>2. 1 \in 1 .. Len(messages)
  BY <1>1
<1>3. \A n \in 1 .. Len(Tail(messages)) : n + 1 \in 1 .. Len(messages)
  BY <1>1
<1>. QED
  BY <1>1, <1>2, <1>3, Zenon DEF Includes

(* Who receives a view is a member of it.                                  *)
LEMMA MailboxesStep ==
  ASSUME TypeOK, [Next]_vars, \A t \in Server : Includes(mailbox[t], t)
  PROVE  \A t \in Server : Includes(mailbox'[t], t)
<1>. DEFINE Good == \A t \in Server : Includes(mailbox'[t], t)
<1>0. mailbox \in [Server -> Seq(Message)] /\ outbox \in [Server -> Seq(Multicasts)]
  BY DEF TypeOK, NetTypeOK
<1>1. ASSUME mailbox' = mailbox
      PROVE  Good
  BY <1>1
<1>2. ASSUME NEW s \in Server, ReadNext(s), mailbox[s] # <<>>
      PROVE  Good
  <2>1. Includes(Tail(mailbox[s]), s)
    BY <1>0, <1>2, IncludesTail
  <2>2. \A t \in Server : mailbox'[t] = IF t = s THEN Tail(mailbox[s]) ELSE mailbox[t]
    BY <1>0, <1>2 DEF ReadNext
  <2>. QED
    BY <2>1, <2>2
<1>3. ASSUME NEW s \in Server, Crash(s)
      PROVE  Good
  <2>1. Includes(<<>>, s)
    BY DEF Includes
  <2>2. \A t \in Server : mailbox'[t] = IF t = s THEN <<>> ELSE mailbox[t]
    BY <1>0, <1>3 DEF Crash, Disconnect
  <2>. QED
    BY <2>1, <2>2
<1>4. ASSUME NEW s \in Server, GroupDeliver(s)
      PROVE  Good
  <2>. DEFINE m == Head(outbox[s])
  <2>1. outbox[s] \in Seq(Multicasts) /\ outbox[s] # <<>>
    BY <1>0, <1>4 DEF GroupDeliver, Deliver
  <2>2. m \in Multicasts
    BY <2>1, HeadTailProperties
  <2>3. m \in Message /\ m.type # "MEMBERSHIP"
    BY <2>2 DEF Message, Multicasts, Command
  <2>4. \A t \in Server : mailbox'[t] \in {mailbox[t], Append(mailbox[t], m)}
    BY <1>4 DEF GroupDeliver, Deliver
  <2>. HIDE DEF m
  <2>5. \A t \in Server : Includes(Append(mailbox[t], m), t)
    BY <1>0, <2>3, IncludesAppend
  <2>. QED
    BY <2>4, <2>5
<1>5. ASSUME NEW s \in Server, GroupInstallView(s)
      PROVE  Good
  <2>. DEFINE members == Reached(s, Joined)
              m == [type |-> "MEMBERSHIP", members |-> members]
  <2>1. members \in SUBSET Server
    BY DEF Reached, Joined
  <2>2. m \in Message /\ m.members = members
    BY <2>1 DEF Message, Membership
  <2>3. \A t \in Server : mailbox'[t] = IF t \in members THEN Append(mailbox[t], m) ELSE mailbox[t]
    BY <1>5 DEF GroupInstallView, InstallView
  <2>. HIDE DEF m, members
  <2>4. \A t \in members : Includes(Append(mailbox[t], m), t)
    BY <1>0, <2>1, <2>2, IncludesAppend
  <2>. QED
    BY <2>3, <2>4
<1>6. ASSUME NEW s \in Server,
             \/ NewCommand(s) \/ StashCommand(s) \/ FinishWaiting(s) \/ SendSynchCommands(s)
             \/ ApplyQueuedUpdate(s) \/ Restart(s) \/ ReplayLogRecord(s) \/ NextLog(s)
      PROVE  mailbox' = mailbox
  BY <1>6 DEF NewCommand, StashCommand, FinishWaiting, SendSynchCommands, ApplyQueuedUpdate,
              Restart, ReplayLogRecord, NextLog, netVars
<1>7. ASSUME NetworkChange
      PROVE  mailbox' = mailbox
  BY <1>7 DEF NetworkChange, Merge, Split
<1>8. ASSUME NEW s \in Server, ReadCommand(s) \/ ReadKnowledge(s) \/ ReadMembership(s)
      PROVE  ReadNext(s) /\ mailbox[s] # <<>>
  BY <1>8 DEF ReadCommand, ReadKnowledge, ReadMembership, NextIs
<1>9. CASE UNCHANGED vars
  BY <1>1, <1>9 DEF vars, netVars
<1>. QED
  BY <1>1, <1>2, <1>3, <1>4, <1>5, <1>6, <1>7, <1>8, <1>9 DEF Next

(* What another server's step leaves as it is.                             *)
Kept(t) ==
  phase'[t] = phase[t] /\ synch_members'[t] = synch_members[t] /\ received'[t] = received[t]

(* The members of the view change when the server goes to wait or dies.    *)
Changes(s) == synch_members'[s] = synch_members[s] \/ phase'[s] \in {"waiting", "down"}

LEMMA MarkedKept ==
  ASSUME NEW t, Kept(t), Marked(t)
  PROVE  Marked(t)' /\ Changes(t)
BY DEF Kept, Marked, Changes

(* Who waits no longer has heard of every member.                          *)
LEMMA AllMarked ==
  ASSUME TypeOK, NEW s \in Server, Marked(s), phase[s] = "waiting", ~Waiting(s)
  PROVE  received[s] = synch_members[s]
<1>1. received[s] \in SUBSET synch_members[s] /\ synch_members[s] \in SUBSET Server
  BY DEF Marked, TypeOK, SynchTypeOK
<1>2. /\ IsFiniteSet(synch_members[s])
      /\ Cardinality(synch_members[s]) \in Nat /\ Cardinality(received[s]) \in Nat
  BY <1>1, ServersAreFinite, FS_CardinalityType, FS_Subset
<1>3. Cardinality(received[s]) <= Cardinality(synch_members[s])
  BY <1>1, <1>2, FS_Subset
<1>4. ~(Cardinality(received[s]) < Cardinality(synch_members[s]))
  BY DEF Waiting
<1>5. Cardinality(synch_members[s]) = Cardinality(received[s])
  BY <1>2, <1>3, <1>4
<1>. QED
  BY <1>1, <1>2, <1>5, FS_Subset

(* Every step marks members only, all of them before it stops waiting.     *)
LEMMA MarkedStep ==
  ASSUME TypeOK, [Next]_vars,
         \A t \in Server : Includes(mailbox[t], t) /\ Marked(t)
  PROVE  \A t \in Server : Marked(t)' /\ Changes(t)
<1>. DEFINE Good == \A t \in Server : Marked(t)' /\ Changes(t)
<1>0. /\ phase \in [Server -> Phase]
      /\ synch_members \in [Server -> SUBSET Server]
      /\ received \in [Server -> SUBSET Server]
      /\ mailbox \in [Server -> Seq(Message)]
  BY DEF TypeOK, SynchTypeOK, NetTypeOK
<1>1. ASSUME UNCHANGED <<phase, synch_members, received>>
      PROVE  Good
  BY <1>1, MarkedKept DEF Kept
<1>2. ASSUME NEW s \in Server, \A t \in Server \ {s} : Kept(t), Marked(s)' /\ Changes(s)
      PROVE  Good
  BY <1>2, MarkedKept
<1>3. ASSUME NEW s \in Server,
             \/ NewCommand(s) \/ StashCommand(s) \/ ReadCommand(s) \/ ReplayLogRecord(s)
             \/ GroupDeliver(s) \/ GroupInstallView(s)
      PROVE  UNCHANGED <<phase, synch_members, received>>
  BY <1>3 DEF NewCommand, StashCommand, ReadCommand, ReplayLogRecord, GroupDeliver,
              GroupInstallView, serverVars, synchVars
<1>4. ASSUME NetworkChange
      PROVE  UNCHANGED <<phase, synch_members, received>>
  BY <1>4 DEF NetworkChange, serverVars, synchVars
<1>5. ASSUME NEW s \in Server, ReadKnowledge(s)
      PROVE  Good
  <2>1. UNCHANGED <<phase, synch_members>>
    BY <1>5 DEF ReadKnowledge
  <2>2. CASE UNCHANGED received
    BY <1>1, <2>1, <2>2
  <2>3. CASE /\ Waiting(s)
             /\ received' = [received EXCEPT ![s] =
                              @ \cup ({Head(mailbox[s]).sender} \cap synch_members[s])]
    <3>1. \A t \in Server \ {s} : Kept(t)
      BY <1>0, <2>1, <2>3 DEF Kept
    <3>2. received'[s] \subseteq synch_members[s] /\ phase[s] = "waiting"
      BY <1>0, <2>3 DEF Marked, Waiting
    <3>3. Marked(s)' /\ Changes(s)
      BY <2>1, <3>2 DEF Marked, Changes
    <3>. QED
      BY <1>2, <3>1, <3>3
  <2>. QED
    BY <1>5, <2>2, <2>3 DEF ReadKnowledge
<1>6. ASSUME NEW s \in Server, ReadMembership(s)
      PROVE  Good
  <2>1. mailbox[s] # <<>> /\ Head(mailbox[s]).type = "MEMBERSHIP"
    BY <1>6 DEF ReadMembership, NextIs
  <2>2. s \in Head(mailbox[s]).members
    BY <1>0, <2>1, IncludesTail
  <2>3. /\ synch_members' = [synch_members EXCEPT ![s] = Head(mailbox[s]).members]
        /\ received' = [received EXCEPT ![s] = {s}]
        /\ phase' = [phase EXCEPT ![s] = "waiting"]
    BY <1>6 DEF ReadMembership
  <2>4. \A t \in Server \ {s} : Kept(t)
    BY <1>0, <2>3 DEF Kept
  <2>5. Marked(s)' /\ Changes(s)
    BY <1>0, <2>2, <2>3 DEF Marked, Changes
  <2>. QED
    BY <1>2, <2>4, <2>5
<1>7. ASSUME NEW s \in Server,
             FinishWaiting(s) \/ SendSynchCommands(s) \/ ApplyQueuedUpdate(s)
      PROVE  Good
  <2>1. /\ UNCHANGED <<synch_members, received>>
        /\ phase[s] \in {"waiting", "finishing"}
        /\ phase[s] = "waiting" => ~Waiting(s)
        /\ Finishing(s)
    BY <1>7 DEF FinishWaiting, SendSynchCommands, ApplyQueuedUpdate, synchVars
  <2>2. received[s] = synch_members[s]
    BY <2>1, AllMarked DEF Marked
  <2>3. phase'[s] \in {"main", "finishing"} /\ \A t \in Server \ {s} : phase'[t] = phase[t]
    BY <1>0, <2>1 DEF Finishing
  <2>4. \A t \in Server \ {s} : Kept(t)
    BY <2>1, <2>3 DEF Kept
  <2>5. Marked(s)' /\ Changes(s)
    BY <2>1, <2>2, <2>3 DEF Marked, Changes
  <2>. QED
    BY <1>2, <2>4, <2>5
<1>8. ASSUME NEW s \in Server, Crash(s)
      PROVE  Good
  <2>1. /\ phase' = [phase EXCEPT ![s] = "down"]
        /\ synch_members' = [synch_members EXCEPT ![s] = {}]
        /\ received' = [received EXCEPT ![s] = {}]
    BY <1>8 DEF Crash
  <2>2. \A t \in Server \ {s} : Kept(t)
    BY <1>0, <2>1 DEF Kept
  <2>3. Marked(s)' /\ Changes(s)
    BY <1>0, <2>1 DEF Marked, Changes
  <2>. QED
    BY <1>2, <2>2, <2>3
<1>9. ASSUME NEW s \in Server, Restart(s) \/ NextLog(s)
      PROVE  Good
  <2>1. /\ UNCHANGED <<synch_members, received>>
        /\ phase[s] \in {"down", "loading"}
        /\ \/ phase' = phase
           \/ phase' = [phase EXCEPT ![s] = "loading"]
           \/ phase' = [phase EXCEPT ![s] = "main"]
    BY <1>9 DEF Restart, NextLog, synchVars
  <2>2. \A t \in Server \ {s} : Kept(t)
    BY <1>0, <2>1 DEF Kept
  <2>3. Marked(s)' /\ Changes(s)
    <3>1. received[s] = synch_members[s]
      BY <2>1 DEF Marked
    <3>2. phase'[s] = phase[s] \/ phase'[s] \in {"loading", "main"}
      BY <1>0, <2>1
    <3>3. phase'[s] = "down" => synch_members[s] = {}
      BY <3>2 DEF Marked
    <3>. QED
      BY <2>1, <3>1, <3>3 DEF Marked, Changes
  <2>. QED
    BY <1>2, <2>2, <2>3
<1>10. CASE UNCHANGED vars
  BY <1>1, <1>10 DEF vars, synchVars
<1>. QED
  BY <1>1, <1>3, <1>4, <1>5, <1>6, <1>7, <1>8, <1>9, <1>10 DEF Next

(* What is copied are the members' names.                                  *)
LEMMA CopiedNames ==
  ASSUME NEW array, NEW members \in SUBSET Server
  PROVE  \A i \in 1 .. Cardinality(members) :
           CopyGroupMembers(array, members)[i] = InOrder(members)[i]
<1>1. Cardinality(members) \in 0 .. N_MACHINES
  BY ServersAreFinite
<1>2. \A i \in 1 .. Cardinality(members) : i \in Slot /\ i <= Cardinality(members)
  BY <1>1, NMachinesAssumption DEF Slot
<1>. QED
  BY <1>2 DEF CopyGroupMembers

(* The names stay with the members.                                        *)
LEMMA NamedKept ==
  ASSUME NEW s, Named(s), names'[s] = names[s], synch_members'[s] = synch_members[s]
  PROVE  Named(s)'
<1>1. \A i \in 1 .. Cardinality(synch_members[s]) : names[s][i] = InOrder(synch_members[s])[i]
  BY DEF Named, NumServers
<1>2. \A i \in 1 .. Cardinality(synch_members'[s]) :
        names'[s][i] = InOrder(synch_members'[s])[i]
  BY <1>1
<1>. QED
  BY <1>2, Zenon DEF Named, NumServers, InOrder, Place

(* Every step copies the names of members that change.                     *)
LEMMA NamedStep ==
  ASSUME TypeOK, TypeOK', NamesNext, NEW s \in Server, Marked(s)', Changes(s), Named(s)
  PROVE  Named(s)'
<1>1. names'[s] = IF phase'[s] = "down" THEN [i \in Slot |-> NoName]
                  ELSE IF Copies(s) THEN CopyGroupMembers(names[s], synch_members'[s])
                  ELSE names[s]
  BY DEF NamesNext
<1>2. synch_members'[s] \in SUBSET Server
  BY DEF TypeOK, SynchTypeOK
<1>3. NumServers(s)' = Cardinality(synch_members'[s])
  BY DEF NumServers
<1>4. CASE phase'[s] = "down"
  <2>1. synch_members'[s] = {}
    BY <1>4 DEF Marked
  <2>2. NumServers(s)' = 0
    BY <1>3, <2>1, FS_EmptySet
  <2>. QED
    BY <2>2 DEF Named
<1>5. CASE phase'[s] = "waiting"
  <2>1. names'[s] = CopyGroupMembers(names[s], synch_members'[s])
    BY <1>1, <1>5 DEF Copies
  <2>2. \A i \in 1 .. Cardinality(synch_members'[s]) :
          names'[s][i] = InOrder(synch_members'[s])[i]
    BY <1>2, <2>1, CopiedNames
  <2>. QED
    BY <1>3, <2>2, Zenon DEF Named, InOrder, Place
<1>6. CASE phase'[s] \notin {"down", "waiting"}
  <2>1. names'[s] = names[s] /\ synch_members'[s] = synch_members[s]
    BY <1>1, <1>6 DEF Copies, Changes
  <2>. QED
    BY <2>1, NamedKept
<1>. QED
  BY <1>4, <1>5, <1>6

LEMMA NamesInvStep ==
  ASSUME TypeOK, TypeOK', NamesInv, [NamesNext]_NamesVars
  PROVE  NamesInv'
<1>1. \A t \in Server : Includes(mailbox[t], t) /\ Marked(t) /\ Named(t)
  BY NamesInvParts
<1>2. CASE NamesNext
  <2>1. [Next]_vars
    BY <1>2 DEF NamesNext
  <2>2. \A t \in Server : Includes(mailbox'[t], t)
    BY <1>1, <2>1, MailboxesStep
  <2>3. \A t \in Server : Marked(t)' /\ Changes(t)
    BY <1>1, <2>1, MarkedStep
  <2>4. \A t \in Server : Named(t)'
    BY <1>1, <1>2, <2>3, NamedStep
  <2>. QED
    BY <2>2, <2>3, <2>4, Zenon DEF NamesInv, Includes, Marked, Named
<1>3. CASE UNCHANGED NamesVars
  <2>1. UNCHANGED <<mailbox, phase, synch_members, received, names>>
    BY <1>3 DEF NamesVars, vars, synchVars, netVars
  <2>2. \A t \in Server : Named(t)'
    BY <1>1, <2>1, NamedKept
  <2>3. \A t \in Server : Includes(mailbox'[t], t) /\ Marked(t)'
    BY <1>1, <2>1, Zenon DEF Marked
  <2>. QED
    BY <2>2, <2>3, Zenon DEF NamesInv, Includes, Marked, Named
<1>. QED
  BY <1>2, <1>3

LEMMA NamesInvInit ==
  ASSUME NamesInit
  PROVE  NamesInv
<1>. SUFFICES ASSUME NEW s \in Server
              PROVE  Includes(mailbox[s], s) /\ Marked(s) /\ Named(s)
  BY NamesInvParts
<1>1. Includes(mailbox[s], s)
  <2>1. mailbox[s] = <<>>
    BY DEF NamesInit, Init, NetInit
  <2>. QED
    BY <2>1 DEF Includes
<1>2. Marked(s)
  BY DEF NamesInit, Init, Marked
<1>3. Named(s)
  <2>1. /\ names[s] = CopyGroupMembers([i \in Slot |-> NoName], synch_members[s])
        /\ synch_members[s] \in SUBSET Server
    BY InitialPartitionAssumption DEF NamesInit, Init
  <2>. QED
    BY <2>1, CopiedNames DEF Named, NumServers
<1>. QED
  BY <1>1, <1>2, <1>3

-----------------------------------------------------------------------------
(* ServerNames only adds the array: its steps are steps of Replication, so *)
(* that what is proved of Replication holds.                               *)
THEOREM NamesOnlyAdd == NamesSpec => Spec
<1>1. NamesInit => Init
  BY DEF NamesInit
<1>2. [NamesNext]_NamesVars => [Next]_vars
  BY DEF NamesNext, NamesVars
<1>. QED
  BY <1>1, <1>2, PTL DEF NamesSpec, Spec

(* A server is a member of the views it is told of, marks only members,    *)
(* all of them once it does not wait, and its array begins with their      *)
(* names (mark_knowledge_as_received, copy_group_members).                 *)
THEOREM NamesInvariant == NamesSpec => []NamesInv
<1>1. NamesSpec => []TypeOK
  BY NamesOnlyAdd, TypeCorrect, PTL
<1>2. TypeOK /\ TypeOK' /\ NamesInv /\ [NamesNext]_NamesVars => NamesInv'
  BY NamesInvStep
<1>. QED
  BY <1>1, <1>2, NamesInvInit, PTL DEF NamesSpec

(* When the members are the first servers, every name sent is a member's,  *)
(* and every member is named by a server that does not wait                *)
(* (send_component_to_client).                                             *)
THEOREM ComponentIsNamed == NamesSpec => []FrontIsListed
<1>1. TypeOK /\ NamesInv => FrontIsListed
  <2>. SUFFICES ASSUME TypeOK, NamesInv, NEW s \in Server, Answers(s), InFront(s)
                PROVE  /\ ListedNames(s) \subseteq synch_members[s]
                       /\ phase[s] = "main" => ListedNames(s) = synch_members[s]
    BY DEF FrontIsListed
  <2>. DEFINE members == synch_members[s]
              k == Cardinality(members)
  <2>1. members \in SUBSET Server /\ k \in Nat
    BY ServersAreFinite DEF TypeOK, SynchTypeOK
  <2>2. /\ received[s] \subseteq members
        /\ phase[s] # "waiting" => received[s] = members
        /\ \A i \in 1 .. k : names[s][i] = InOrder(members)[i]
    BY Zenon DEF NamesInv, NumServers
  <2>3. members = 0 .. k - 1
    BY DEF InFront, NumServers
  <2>4. /\ \A i \in 1 .. k : InOrder(members)[i] \in members
        /\ \A t \in members : \E i \in 1 .. k : InOrder(members)[i] = t
    BY <2>1, InOrderIsTheMembers
  <2>5. ListedNames(s) = {names[s][j + 1] : j \in received[s]}
    BY DEF ListedNames
  <2>. HIDE DEF k, members
  <2>6. \A j \in members : j + 1 \in 1 .. k
    BY <2>1, <2>3
  <2>7. ListedNames(s) \subseteq members
    BY <2>2, <2>4, <2>5, <2>6
  <2>8. ASSUME phase[s] = "main", NEW t \in members
        PROVE  t \in ListedNames(s)
    <3>1. PICK i \in 1 .. k : InOrder(members)[i] = t
      BY <2>4
    <3>2. i - 1 \in members /\ (i - 1) + 1 = i
      BY <2>1, <2>3
    <3>3. i - 1 \in received[s]
      BY <2>2, <2>8, <3>2
    <3>4. names[s][(i - 1) + 1] = t
      BY <2>2, <3>1, <3>2
    <3>. QED
      BY <2>5, <3>3, <3>4
  <2>. QED
    BY <2>7, <2>8 DEF members
<1>2. NamesSpec => []TypeOK
  BY NamesOnlyAdd, TypeCorrect, PTL
<1>. QED
  BY <1>1, <1>2, NamesInvariant, PTL
=============================================================================
