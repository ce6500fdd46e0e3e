---------------------------- MODULE MailboxProofs ----------------------------
(* Theorems about Mailboxes, for every number of servers, users, clients   *)
(* and seconds, and every bound.                                           *)
EXTENDS Mailboxes, Minimum, TLAPS, SequenceTheorems

-----------------------------------------------------------------------------
(* What the properties say of a state, one command or mail at a time.      *)

CommandTable == [Server -> Seq(Command)]

(* The fields that each kind of command has.                               *)
LEMMA CommandFields ==
  ASSUME NEW c \in Command
  PROVE  /\ c.type \in {"MAIL", "READ", "DELETE"}
         /\ c.type = "MAIL" => c.to \in User /\ c.date_sent \in Dates
         /\ c.type \in {"READ", "DELETE"} => c.username \in User /\ c.id \in Id
BY DEF Command

(* The i-th command of o is a command.                                     *)
LEMMA CommandsTyped ==
  ASSUME NEW cmds \in CommandTable, NEW o \in Server, NEW i \in DOMAIN cmds[o]
  PROVE  cmds[o][i] \in Command
BY DEF CommandTable

(* The commands in a state are those up to its count, for each origin.     *)
LEMMA ArrivedMembers ==
  ASSUME NEW st \in State, NEW id
  PROVE  id \in Arrived(st) <=> id \in Id /\ id.index <= st.applied[id.origin]
<1>1. \A o \in Server : st.applied[o] \in Nat
  BY DEF State, Counts
<1>2. ASSUME id \in Arrived(st)
      PROVE  id \in Id /\ id.index <= st.applied[id.origin]
  <2>1. PICK o \in Server : \E i \in 1 .. st.applied[o] : id = IdOf(o, i)
    BY <1>2 DEF Arrived
  <2>2. PICK i \in 1 .. st.applied[o] : id = IdOf(o, i)
    BY <2>1
  <2>3. i \in Nat \ {0} /\ i <= st.applied[o]
    BY <1>1
  <2>. QED
    BY <2>2, <2>3 DEF IdOf, Id
<1>3. ASSUME id \in Id, id.index <= st.applied[id.origin]
      PROVE  id \in Arrived(st)
  <2>1. /\ id.origin \in Server
        /\ id.index \in 1 .. st.applied[id.origin]
        /\ id = IdOf(id.origin, id.index)
    BY <1>1, <1>3 DEF Id, IdOf
  <2>. QED
    BY <2>1 DEF Arrived
<1>. QED
  BY <1>2, <1>3

(* The identifier of the i-th command of o.                                *)
LEMMA IdOfFields ==
  ASSUME NEW o \in Server, NEW i \in Nat \ {0}
  PROVE  IdOf(o, i) \in Id /\ IdOf(o, i).origin = o /\ IdOf(o, i).index = i
BY DEF IdOf, Id

(* An identifier is that of its origin's command at its index.             *)
LEMMA IdOfItself ==
  ASSUME NEW id \in Id
  PROVE  id = IdOf(id.origin, id.index) /\ id.origin \in Server /\ id.index \in Nat \ {0}
BY DEF IdOf, Id

(* A mail is in the inbox that the commands call for.                      *)
Belongs(cmds, st, u, m) ==
  /\ m.id \in Kept(cmds, st, u)
  /\ m.date_sent = cmds[m.id.origin][m.id.index].date_sent
  /\ m.read <=> Marked(cmds, st, "READ", m.id)

(* An inbox matches the commands when it has the mails that belong there.  *)
LEMMA ExpectedMembers ==
  ASSUME NEW cmds, NEW st, NEW u, NEW m \in Mail
  PROVE  m \in Expected(cmds, st, u) <=> Belongs(cmds, st, u, m)
<1>. DEFINE Read(id) == Marked(cmds, st, "READ", id)
<1>1. \A id : Read(id) \in BOOLEAN
  BY DEF Marked
<1>2. m = [id |-> m.id, date_sent |-> m.date_sent, read |-> m.read] /\ m.read \in BOOLEAN
  BY DEF Mail
<1>3. m \in Expected(cmds, st, u) <=>
        \E id \in Kept(cmds, st, u) :
          m = [id |-> id, date_sent |-> cmds[id.origin][id.index].date_sent, read |-> Read(id)]
  BY DEF Expected
<1>. HIDE DEF Read
<1>4. ASSUME m \in Expected(cmds, st, u)
      PROVE  Belongs(cmds, st, u, m)
  <2>1. PICK id \in Kept(cmds, st, u) :
          m = [id |-> id, date_sent |-> cmds[id.origin][id.index].date_sent, read |-> Read(id)]
    BY <1>3, <1>4
  <2>2. m.id = id /\ m.date_sent = cmds[id.origin][id.index].date_sent /\ m.read = Read(id)
    BY <2>1
  <2>. QED
    BY <2>2, <1>1 DEF Belongs, Read
<1>5. ASSUME Belongs(cmds, st, u, m)
      PROVE  m \in Expected(cmds, st, u)
  <2>1. m.id \in Kept(cmds, st, u) /\ m.date_sent = cmds[m.id.origin][m.id.index].date_sent
    BY <1>5 DEF Belongs
  <2>2. m.read <=> Read(m.id)
    BY <1>5 DEF Belongs, Read
  <2>3. m.read = Read(m.id)
    BY <2>2, <1>1, <1>2
  <2>. QED
    BY <2>1, <2>3, <1>2, <1>3
<1>. QED
  BY <1>4, <1>5

(* The mails that the commands call for are mails.                         *)
LEMMA ExpectedTyped ==
  ASSUME NEW cmds \in CommandTable, NEW st \in State, NEW u \in User,
         \A o \in Server : st.applied[o] <= Len(cmds[o])
  PROVE  Expected(cmds, st, u) \in SUBSET Mail
<1>1. ASSUME NEW id \in Kept(cmds, st, u)
      PROVE  id \in Id /\ cmds[id.origin][id.index].date_sent \in Dates
  <2>1. id \in Id /\ id.index <= st.applied[id.origin]
    BY ArrivedMembers DEF Kept
  <2>2. id.origin \in Server /\ id.index \in DOMAIN cmds[id.origin]
    BY <2>1 DEF Id, CommandTable, State, Counts
  <2>3. cmds[id.origin][id.index] \in Command
    BY <2>2, CommandsTyped
  <2>. QED
    BY <2>1, <2>3, CommandFields DEF Kept
<1>2. \A id : Marked(cmds, st, "READ", id) \in BOOLEAN
  BY DEF Marked
<1>. QED
  BY <1>1, <1>2 DEF Expected, Mail

(* An inbox matches the commands when it has just the mails that belong.   *)
LEMMA InboxesMatchMembers ==
  ASSUME NEW cmds \in CommandTable, NEW st \in State,
         \A o \in Server : st.applied[o] <= Len(cmds[o])
  PROVE  InboxesMatch(cmds, st) <=>
           \A u \in User : \A m \in Mail : m \in st.inboxes[u] <=> Belongs(cmds, st, u, m)
<1>1. \A u \in User : st.inboxes[u] \in SUBSET Mail /\ Expected(cmds, st, u) \in SUBSET Mail
  BY ExpectedTyped DEF State
<1>. QED
  BY <1>1, ExpectedMembers DEF InboxesMatch

-----------------------------------------------------------------------------
(* A command more in the logs: what was sound stays sound.                 *)

(* cmds2 has the commands of cmds and maybe others after them.             *)
Extends(cmds, cmds2) ==
  \A o \in Server :
    /\ DOMAIN cmds[o] \subseteq DOMAIN cmds2[o]
    /\ \A i \in DOMAIN cmds[o] : cmds2[o][i] = cmds[o][i]

(* A mail stays a mail.                                                    *)
LEMMA HasMailExtends ==
  ASSUME NEW cmds, NEW cmds2, Extends(cmds, cmds2), NEW id \in Id, HasMail(cmds, id)
  PROVE  /\ HasMail(cmds2, id)
         /\ cmds2[id.origin][id.index] = cmds[id.origin][id.index]
BY DEF HasMail, Extends, Id

(* What the state counts is not changed.                                   *)
LEMMA MarkedExtends ==
  ASSUME NEW cmds \in CommandTable, NEW cmds2, Extends(cmds, cmds2), NEW st \in State,
         \A o \in Server : st.applied[o] <= Len(cmds[o]),
         NEW type, NEW id
  PROVE  Marked(cmds2, st, type, id) <=> Marked(cmds, st, type, id)
<1>1. ASSUME NEW o \in Server, NEW i \in 1 .. st.applied[o]
      PROVE  cmds2[o][i] = cmds[o][i]
  <2>1. i \in DOMAIN cmds[o]
    BY DEF CommandTable, State, Counts
  <2>. QED
    BY <2>1 DEF Extends
<1>. QED
  BY <1>1 DEF Marked

(* What is pending about one identifier is what the commands say.          *)
Matches(cmds, st, id) ==
  /\ id \in st.pending_delete <=> Marked(cmds, st, "DELETE", id)
  /\ id \in st.pending_read <=> Marked(cmds, st, "READ", id)

(* Reads and deletes name identifiers.                                     *)
LEMMA NamedTyped ==
  ASSUME NEW cmds \in CommandTable
  PROVE  Named(cmds) \in SUBSET Id
<1>1. ASSUME NEW o \in Server, NEW i \in DOMAIN cmds[o], cmds[o][i].type # "MAIL"
      PROVE  cmds[o][i].id \in Id
  BY <1>1, CommandsTyped, CommandFields
<1>. QED
  BY <1>1 DEF Named

(* What some read or delete in the state is about is named.                *)
LEMMA MarkedNamed ==
  ASSUME NEW cmds \in CommandTable, NEW st \in State,
         \A o \in Server : st.applied[o] <= Len(cmds[o]),
         NEW type \in {"READ", "DELETE"}, NEW id, Marked(cmds, st, type, id)
  PROVE  id \in Named(cmds)
<1>1. PICK o \in Server : \E i \in 1 .. st.applied[o] : cmds[o][i].type = type /\ cmds[o][i].id = id
  BY DEF Marked
<1>2. PICK i \in 1 .. st.applied[o] : cmds[o][i].type = type /\ cmds[o][i].id = id
  BY <1>1
<1>3. i \in DOMAIN cmds[o]
  BY DEF CommandTable, State, Counts
<1>. QED
  BY <1>2, <1>3 DEF Named

(* Pending reads and deletes match the commands when they do so for every  *)
(* identifier that has not come: others are neither pending nor named.     *)
LEMMA PendingMatchEverywhere ==
  ASSUME NEW cmds \in CommandTable, NEW st \in State,
         \A o \in Server : st.applied[o] <= Len(cmds[o])
  PROVE  PendingMatch(cmds, st) <=>
           \A id \in Id : id \notin Arrived(st) => Matches(cmds, st, id)
<1>. DEFINE about == st.pending_delete \cup st.pending_read \cup Named(cmds)
<1>1. about \in SUBSET Id
  BY NamedTyped DEF State
<1>2. ASSUME NEW id \in Id
      PROVE  id.index > st.applied[id.origin] <=> id \notin Arrived(st)
  <2>1. id.index \in Nat /\ st.applied[id.origin] \in Nat
    BY DEF Id, State, Counts
  <2>. QED
    BY <2>1, ArrivedMembers
<1>3. PendingMatch(cmds, st) <=>
        \A id \in about : id.index > st.applied[id.origin] => Matches(cmds, st, id)
  BY DEF PendingMatch, Matches
<1>4. ASSUME NEW id \in Id, id \notin about
      PROVE  Matches(cmds, st, id)
  <2>1. id \notin st.pending_delete /\ id \notin st.pending_read /\ id \notin Named(cmds)
    BY <1>4
  <2>2. ~ Marked(cmds, st, "DELETE", id) /\ ~ Marked(cmds, st, "READ", id)
    BY <2>1, MarkedNamed
  <2>. QED
    BY <2>1, <2>2 DEF Matches
<1>. HIDE DEF about
<1>. QED
  BY <1>1, <1>2, <1>3, <1>4

(* The assumptions about seconds and users held before the command.        *)
LEMMA AssumptionsBefore ==
  ASSUME NEW cmds \in CommandTable, NEW cmds2 \in CommandTable, Extends(cmds, cmds2)
  PROVE  /\ NoTies(cmds2) => NoTies(cmds)
         /\ OwnMail(cmds2) => OwnMail(cmds)
<1>1. NoTies(cmds2) => NoTies(cmds)
  BY DEF NoTies, Extends
<1>2. ASSUME OwnMail(cmds2), NEW o \in Server, NEW i \in DOMAIN cmds[o],
             cmds[o][i].type \in {"READ", "DELETE"}, HasMail(cmds, cmds[o][i].id)
      PROVE  cmds[cmds[o][i].id.origin][cmds[o][i].id.index].to = cmds[o][i].username
  <2>. DEFINE c == cmds[o][i]
  <2>1. c \in Command /\ c.id \in Id /\ HasMail(cmds, c.id) /\ HasMail(cmds2, c.id)
    BY <1>2, CommandsTyped, CommandFields, HasMailExtends
  <2>2. i \in DOMAIN cmds2[o] /\ cmds2[o][i] = c
    BY DEF Extends
  <2>3. cmds2[c.id.origin][c.id.index].to = c.username
    BY <1>2, <2>1, <2>2 DEF OwnMail
  <2>. QED
    BY <2>1, <2>3, HasMailExtends
<1>. QED
  BY <1>1, <1>2 DEF OwnMail

(* A sound state stays sound when other commands are accepted.             *)
LEMMA SoundExtends ==
  ASSUME NEW cmds \in CommandTable, NEW cmds2 \in CommandTable, Extends(cmds, cmds2),
         NEW st \in State, Sound(cmds, st)
  PROVE  Sound(cmds2, st)
<1>1. /\ \A o \in Server : st.applied[o] <= Len(cmds[o]) /\ st.applied[o] \in Nat
      /\ \A o \in Server : Len(cmds[o]) \in Nat /\ DOMAIN cmds[o] = 1 .. Len(cmds[o])
      /\ \A o \in Server : Len(cmds2[o]) \in Nat /\ DOMAIN cmds2[o] = 1 .. Len(cmds2[o])
  BY DEF Sound, State, Counts, CommandTable
<1>2. ASSUME NEW o \in Server
      PROVE  st.applied[o] <= Len(cmds2[o])
  <2>1. 1 .. Len(cmds[o]) \subseteq 1 .. Len(cmds2[o])
    BY <1>1 DEF Extends
  <2>2. Len(cmds[o]) <= Len(cmds2[o])
    <3>1. CASE Len(cmds[o]) = 0
      BY <1>1, <3>1
    <3>2. CASE Len(cmds[o]) # 0
      <4>1. Len(cmds[o]) \in 1 .. Len(cmds[o])
        BY <1>1, <3>2
      <4>2. Len(cmds[o]) \in 1 .. Len(cmds2[o])
        BY <2>1, <4>1
      <4>. QED
        BY <1>1, <4>2
    <3>. QED
      BY <3>1, <3>2
  <2>. QED
    BY <1>1, <2>2
<1>3. \A type, id : Marked(cmds2, st, type, id) <=> Marked(cmds, st, type, id)
  BY <1>1, MarkedExtends
<1>4. \A u \in User : \A m \in st.inboxes[u] : m.id \in Arrived(st) /\ HasMail(cmds2, m.id)
  <2>1. \A u \in User : \A m \in st.inboxes[u] : m.id \in Id
    BY DEF State, Mail
  <2>. QED
    BY <2>1, HasMailExtends DEF Sound
<1>5. \A id \in st.pending_read : HasMail(cmds2, id)
  BY HasMailExtends DEF Sound, State
<1>6. PendingMatch(cmds2, st)
  <2>1. \A id \in Id : id \notin Arrived(st) => Matches(cmds, st, id)
    BY <1>1, PendingMatchEverywhere DEF Sound
  <2>2. \A id \in Id : id \notin Arrived(st) => Matches(cmds2, st, id)
    BY <1>3, <2>1 DEF Matches
  <2>. QED
    BY <1>2, <2>2, PendingMatchEverywhere
<1>7. ASSUME NoTies(cmds2), OwnMail(cmds2)
      PROVE  InboxesMatch(cmds2, st) /\ PendingAwaits(cmds2, st)
  <2>1. InboxesMatch(cmds, st) /\ PendingAwaits(cmds, st)
    BY <1>7, AssumptionsBefore DEF Sound
  <2>2. PendingAwaits(cmds2, st)
    BY <2>1, <1>3 DEF PendingAwaits
  <2>3. ASSUME NEW id \in Arrived(st)
        PROVE  cmds2[id.origin][id.index] = cmds[id.origin][id.index]
    <3>1. id \in Id /\ id.index <= st.applied[id.origin]
      BY ArrivedMembers
    <3>2. id.origin \in Server /\ id.index \in DOMAIN cmds[id.origin]
      BY <1>1, <3>1 DEF Id
    <3>. QED
      BY <3>2 DEF Extends
  <2>4. \A u : \A id : id \in Kept(cmds2, st, u) <=> id \in Kept(cmds, st, u)
    BY <1>3, <2>3 DEF Kept
  <2>5. \A u, m : Belongs(cmds2, st, u, m) <=> Belongs(cmds, st, u, m)
    <3>1. \A u : Kept(cmds, st, u) \subseteq Arrived(st)
      BY DEF Kept
    <3>. QED
      BY <1>3, <2>3, <2>4, <3>1 DEF Belongs
  <2>6. InboxesMatch(cmds2, st)
    BY <1>1, <1>2, <2>1, <2>5, InboxesMatchMembers
  <2>. QED
    BY <2>2, <2>6
<1>. QED
  BY <1>2, <1>4, <1>5, <1>6, <1>7 DEF Sound

-----------------------------------------------------------------------------
(* The next command of o, applied to any state: what ApplyCommandToState   *)
(* does to that of one server.                                             *)

TakesMail(st, id, command, st2) ==
  \/ /\ id \in st.pending_delete
     /\ st2.pending_delete = st.pending_delete \ {id}
     /\ st2.inboxes = st.inboxes /\ st2.pending_read = st.pending_read
  \/ /\ id \notin st.pending_delete
     /\ st2.inboxes = [st.inboxes EXCEPT ![command.to] = @ \cup
                         {[id |-> id, date_sent |-> command.date_sent,
                           read |-> id \in st.pending_read]}]
     /\ st2.pending_read = st.pending_read \ {id}
     /\ st2.pending_delete = st.pending_delete

Found(st, command) == {m \in st.inboxes[command.username] : m.id = command.id}

TakesRead(st, command, st2) ==
  \/ /\ \E m \in Found(st, command) :
          st2.inboxes = [st.inboxes EXCEPT ![command.username] =
                          Erase(@, m) \cup {[m EXCEPT !.read = TRUE]}]
     /\ st2.pending_delete = st.pending_delete /\ st2.pending_read = st.pending_read
  \/ /\ Found(st, command) = {}
     /\ st2.pending_read = st.pending_read \cup {command.id}
     /\ st2.inboxes = st.inboxes /\ st2.pending_delete = st.pending_delete

TakesDelete(st, command, st2) ==
  \/ /\ \E m \in Found(st, command) :
          st2.inboxes = [st.inboxes EXCEPT ![command.username] = Erase(@, m)]
     /\ st2.pending_delete = st.pending_delete /\ st2.pending_read = st.pending_read
  \/ /\ Found(st, command) = {}
     /\ st2.pending_delete = st.pending_delete \cup {command.id}
     /\ st2.inboxes = st.inboxes /\ st2.pending_read = st.pending_read

NextId(st, o) == IdOf(o, st.applied[o] + 1)
NextCommand(cmds, st, o) == cmds[o][st.applied[o] + 1]

Receives(cmds, st, o, st2) ==
  LET command == NextCommand(cmds, st, o) IN
  /\ st2.applied = [st.applied EXCEPT ![o] = @ + 1]
  /\ \/ command.type = "MAIL" /\ TakesMail(st, NextId(st, o), command, st2)
     \/ command.type = "READ" /\ TakesRead(st, command, st2)
     \/ command.type = "DELETE" /\ TakesDelete(st, command, st2)

(* The command that comes next has the next identifier.                    *)
LEMMA NextOne ==
  ASSUME NEW cmds \in CommandTable, NEW st \in State, NEW o \in Server,
         st.applied[o] < Len(cmds[o])
  PROVE  /\ st.applied[o] \in Nat /\ Len(cmds[o]) \in Nat
         /\ st.applied[o] + 1 \in DOMAIN cmds[o]
         /\ NextCommand(cmds, st, o) \in Command
         /\ NextId(st, o) \in Id
         /\ NextId(st, o).origin = o /\ NextId(st, o).index = st.applied[o] + 1
<1>1. /\ st.applied[o] \in Nat /\ Len(cmds[o]) \in Nat
      /\ st.applied[o] + 1 \in DOMAIN cmds[o]
  BY DEF State, Counts, CommandTable
<1>. QED
  BY <1>1, CommandsTyped, IdOfFields DEF NextCommand, NextId

(* Applying it keeps a state a state.                                      *)
LEMMA ReceiveTyped ==
  ASSUME NEW cmds \in CommandTable, NEW st \in State, NEW o \in Server, NEW st2,
         st.applied[o] < Len(cmds[o]), Receives(cmds, st, o, st2)
  PROVE  /\ st2.applied \in Counts
         /\ st2.inboxes \in [User -> SUBSET Mail]
         /\ st2.pending_delete \in SUBSET Id
         /\ st2.pending_read \in SUBSET Id
<1>. DEFINE c == NextCommand(cmds, st, o)
            id == NextId(st, o)
<1>1. /\ st.applied \in Counts /\ st.inboxes \in [User -> SUBSET Mail]
      /\ st.pending_delete \in SUBSET Id /\ st.pending_read \in SUBSET Id
  BY DEF State
<1>2. c \in Command /\ id \in Id
  BY NextOne
<1>3. st2.applied \in Counts
  BY <1>1 DEF Receives, Counts
<1>4. CASE c.type = "MAIL" /\ TakesMail(st, id, c, st2)
  <2>1. c.to \in User /\ c.date_sent \in Dates
    BY <1>2, <1>4, CommandFields
  <2>2. [id |-> id, date_sent |-> c.date_sent, read |-> id \in st.pending_read] \in Mail
    BY <1>2, <2>1 DEF Mail
  <2>. QED
    BY <1>1, <1>3, <1>4, <2>1, <2>2 DEF TakesMail
<1>5. CASE c.type = "READ" /\ TakesRead(st, c, st2)
  <2>1. c.username \in User /\ c.id \in Id
    BY <1>2, <1>5, CommandFields
  <2>2. \A m \in Mail : [m EXCEPT !.read = TRUE] \in Mail
    BY DEF Mail
  <2>3. \A m \in Found(st, c) : Erase(st.inboxes[c.username], m) \in SUBSET Mail /\ m \in Mail
    BY <1>1, <2>1 DEF Erase, Found
  <2>4. ASSUME NEW m \in Found(st, c),
               st2.inboxes = [st.inboxes EXCEPT ![c.username] =
                               Erase(@, m) \cup {[m EXCEPT !.read = TRUE]}]
        PROVE  st2.inboxes \in [User -> SUBSET Mail]
    <3>1. Erase(st.inboxes[c.username], m) \cup {[m EXCEPT !.read = TRUE]} \in SUBSET Mail
      BY <2>2, <2>3
    <3>. QED
      BY <1>1, <2>1, <2>4, <3>1
  <2>5. st2.inboxes \in [User -> SUBSET Mail]
    BY <1>1, <1>5, <2>4 DEF TakesRead
  <2>6. st2.pending_delete \in SUBSET Id /\ st2.pending_read \in SUBSET Id
    BY <1>1, <1>5, <2>1 DEF TakesRead
  <2>. QED
    BY <1>3, <2>5, <2>6
<1>6. CASE c.type = "DELETE" /\ TakesDelete(st, c, st2)
  <2>1. c.username \in User /\ c.id \in Id
    BY <1>2, <1>6, CommandFields
  <2>2. \A m \in Found(st, c) : Erase(st.inboxes[c.username], m) \in SUBSET Mail
    BY <1>1, <2>1 DEF Erase, Found
  <2>. QED
    BY <1>1, <1>3, <1>6, <2>1, <2>2 DEF TakesDelete
<1>. QED
  BY <1>4, <1>5, <1>6 DEF Receives

(* It adds its identifier to those in the state.                           *)
LEMMA ReceiveArrives ==
  ASSUME NEW cmds \in CommandTable, NEW st \in State, NEW o \in Server, NEW st2 \in State,
         st.applied[o] < Len(cmds[o]), Receives(cmds, st, o, st2), NEW id
  PROVE  id \in Arrived(st2) <=> id \in Arrived(st) \/ id = NextId(st, o)
<1>1. /\ st2.applied = [st.applied EXCEPT ![o] = st.applied[o] + 1]
      /\ st.applied \in [Server -> Nat]
  BY DEF Receives, State, Counts
<1>2. id \in Id => (id = NextId(st, o) <=> id.origin = o /\ id.index = st.applied[o] + 1)
  BY NextOne, IdOfItself DEF NextId
<1>3. ASSUME id \in Id
      PROVE  id.index <= st2.applied[id.origin] <=>
               id.index <= st.applied[id.origin] \/ id = NextId(st, o)
  BY <1>1, <1>2, <1>3, IdOfItself
<1>. QED
  BY <1>3, ArrivedMembers, NextOne

(* It marks the mail it names, and no other.                               *)
LEMMA ReceiveMarks ==
  ASSUME NEW cmds \in CommandTable, NEW st \in State, NEW o \in Server, NEW st2 \in State,
         st.applied[o] < Len(cmds[o]), Receives(cmds, st, o, st2), NEW type, NEW id
  PROVE  Marked(cmds, st2, type, id) <=>
           \/ Marked(cmds, st, type, id)
           \/ NextCommand(cmds, st, o).type = type /\ NextCommand(cmds, st, o).id = id
<1>1. /\ st2.applied = [st.applied EXCEPT ![o] = st.applied[o] + 1]
      /\ st.applied \in [Server -> Nat]
  BY DEF Receives, State, Counts
<1>2. ASSUME NEW p \in Server, NEW i
      PROVE  i \in 1 .. st2.applied[p] <=>
               i \in 1 .. st.applied[p] \/ (p = o /\ i = st.applied[o] + 1)
  BY <1>1
<1>. QED
  BY <1>2 DEF Marked, NextCommand

(* A mail of an inbox was there before, but for its read mark, or came.    *)
LEMMA ReceiveListed ==
  ASSUME NEW cmds \in CommandTable, NEW st \in State, NEW o \in Server, NEW st2 \in State,
         st.applied[o] < Len(cmds[o]), Receives(cmds, st, o, st2),
         NEW u \in User, NEW m \in st2.inboxes[u]
  PROVE  \/ \E x \in st.inboxes[u] : x.id = m.id
         \/ NextCommand(cmds, st, o).type = "MAIL" /\ m.id = NextId(st, o)
<1>. DEFINE c == NextCommand(cmds, st, o)
            id == NextId(st, o)
<1>1. st.inboxes \in [User -> SUBSET Mail] /\ c \in Command
  BY NextOne DEF State
<1>2. CASE c.type = "MAIL" /\ TakesMail(st, id, c, st2)
  <2>1. c.to \in User
    BY <1>1, <1>2, CommandFields
  <2>. DEFINE new == [id |-> id, date_sent |-> c.date_sent, read |-> id \in st.pending_read]
  <2>2. new.id = id
    OBVIOUS
  <2>. HIDE DEF new
  <2>3. \/ st2.inboxes = st.inboxes
        \/ st2.inboxes = [st.inboxes EXCEPT ![c.to] = st.inboxes[c.to] \cup {new}]
    BY <1>2 DEF TakesMail, new
  <2>4. m \in st.inboxes[u] \/ m = new
    BY <1>1, <2>1, <2>3
  <2>. QED
    BY <1>2, <2>2, <2>4
<1>3. CASE c.type = "READ" /\ TakesRead(st, c, st2)
  <2>1. c.username \in User
    BY <1>1, <1>3, CommandFields
  <2>2. ASSUME NEW x \in Found(st, c),
               st2.inboxes = [st.inboxes EXCEPT ![c.username] =
                               Erase(@, x) \cup {[x EXCEPT !.read = TRUE]}]
        PROVE  \E y \in st.inboxes[u] : y.id = m.id
    <3>1. x \in st.inboxes[c.username] /\ x \in Mail
      BY <1>1, <2>1 DEF Found
    <3>. DEFINE marked == [x EXCEPT !.read = TRUE]
    <3>2. marked.id = x.id
      BY <3>1 DEF Mail
    <3>. HIDE DEF marked
    <3>3. st2.inboxes = [st.inboxes EXCEPT ![c.username] =
                          Erase(st.inboxes[c.username], x) \cup {marked}]
      BY <2>2 DEF marked
    <3>4. m \in st.inboxes[u] \/ (u = c.username /\ m = marked)
      BY <1>1, <2>1, <3>3 DEF Erase
    <3>. QED
      BY <3>1, <3>2, <3>4
  <2>. QED
    BY <1>3, <2>2 DEF TakesRead
<1>4. CASE c.type = "DELETE" /\ TakesDelete(st, c, st2)
  <2>1. c.username \in User
    BY <1>1, <1>4, CommandFields
  <2>. QED
    BY <1>1, <1>4, <2>1 DEF TakesDelete, Erase
<1>. QED
  BY <1>2, <1>3, <1>4 DEF Receives

(* What is to be read was to be read or is named by the command, a read.   *)
LEMMA ReceivePending ==
  ASSUME NEW cmds \in CommandTable, NEW st \in State, NEW o \in Server, NEW st2 \in State,
         st.applied[o] < Len(cmds[o]), Receives(cmds, st, o, st2),
         NEW id \in st2.pending_read
  PROVE  \/ id \in st.pending_read
         \/ NextCommand(cmds, st, o).type = "READ" /\ id = NextCommand(cmds, st, o).id
BY DEF Receives, TakesMail, TakesRead, TakesDelete

(* The next command changes what is pending for a mail that has not come   *)
(* just when it names that mail: there is nothing of it to be found.       *)
LEMMA ReceiveAwaits ==
  ASSUME NEW cmds \in CommandTable, NEW st \in State, NEW o \in Server, NEW st2 \in State,
         st.applied[o] < Len(cmds[o]), Receives(cmds, st, o, st2),
         \A u \in User : \A m \in st.inboxes[u] : m.id \in Arrived(st),
         NEW id, id \notin Arrived(st2)
  PROVE  /\ id \in st2.pending_delete <=>
              \/ id \in st.pending_delete
              \/ NextCommand(cmds, st, o).type = "DELETE" /\ NextCommand(cmds, st, o).id = id
         /\ id \in st2.pending_read <=>
              \/ id \in st.pending_read
              \/ NextCommand(cmds, st, o).type = "READ" /\ NextCommand(cmds, st, o).id = id
<1>. DEFINE c == NextCommand(cmds, st, o)
<1>1. id \notin Arrived(st) /\ id # NextId(st, o)
  BY ReceiveArrives
<1>2. c \in Command
  BY NextOne
<1>3. CASE c.type = "MAIL" /\ TakesMail(st, NextId(st, o), c, st2)
  BY <1>1, <1>3 DEF TakesMail
<1>4. ASSUME c.type \in {"READ", "DELETE"}, c.id = id
      PROVE  Found(st, c) = {}
  <2>1. c.username \in User
    BY <1>2, <1>4, CommandFields
  <2>. QED
    BY <1>1, <1>4, <2>1 DEF Found
<1>5. CASE c.type = "READ" /\ TakesRead(st, c, st2)
  BY <1>4, <1>5 DEF TakesRead
<1>6. CASE c.type = "DELETE" /\ TakesDelete(st, c, st2)
  BY <1>4, <1>6 DEF TakesDelete
<1>. QED
  BY <1>3, <1>5, <1>6 DEF Receives

(* What is pending for the mails still to come goes on matching.           *)
LEMMA ReceivePendingMatch ==
  ASSUME NEW cmds \in CommandTable, NEW st \in State, NEW o \in Server, NEW st2 \in State,
         st.applied[o] < Len(cmds[o]), Receives(cmds, st, o, st2), Sound(cmds, st),
         \A p \in Server : st2.applied[p] <= Len(cmds[p])
  PROVE  PendingMatch(cmds, st2)
<1>1. \A id \in Id : id \notin Arrived(st) => Matches(cmds, st, id)
  BY PendingMatchEverywhere DEF Sound
<1>2. \A u \in User : \A m \in st.inboxes[u] : m.id \in Arrived(st)
  BY DEF Sound
<1>3. ASSUME NEW id \in Id, id \notin Arrived(st2)
      PROVE  Matches(cmds, st2, id)
  <2>1. id \notin Arrived(st)
    BY <1>3, ReceiveArrives
  <2>2. Matches(cmds, st, id)
    BY <1>1, <2>1
  <2>. QED
    BY <1>2, <1>3, <2>2, ReceiveAwaits, ReceiveMarks DEF Matches
<1>. QED
  BY <1>3, PendingMatchEverywhere

-----------------------------------------------------------------------------
(* The inboxes, as long as mails differ in their second and users act on   *)
(* their own mail.                                                         *)

Fair(cmds) == NoTies(cmds) /\ OwnMail(cmds)

(* Mails are equal when their fields are.                                  *)
LEMMA SameMail ==
  ASSUME NEW m \in Mail, NEW x \in Mail, m.id = x.id, m.date_sent = x.date_sent,
         m.read <=> x.read
  PROVE  m = x
<1>1. m.read \in BOOLEAN /\ x.read \in BOOLEAN
  BY DEF Mail
<1>2. m.read = x.read
  BY <1>1
<1>. QED
  BY <1>2 DEF Mail

(* A mail's identifier, or its second, tells it from others of the inbox.  *)
LEMMA OneMail ==
  ASSUME NEW cmds \in CommandTable, NEW st \in State, Sound(cmds, st), Fair(cmds),
         NEW u \in User, NEW m \in st.inboxes[u], NEW x \in st.inboxes[u],
         m.id = x.id \/ m.date_sent = x.date_sent
  PROVE  m = x
<1>1. m \in Mail /\ x \in Mail /\ m.id \in Id /\ x.id \in Id
  BY DEF State, Mail
<1>2. Belongs(cmds, st, u, m) /\ Belongs(cmds, st, u, x)
  BY <1>1, InboxesMatchMembers DEF Sound, Fair
<1>3. HasMail(cmds, m.id) /\ HasMail(cmds, x.id)
  BY DEF Sound
<1>4. m.id = x.id
  <2>1. CASE m.date_sent = x.date_sent
    <3>. DEFINE a == m.id
                b == x.id
    <3>1. /\ a.origin \in Server /\ b.origin \in Server
          /\ a.index \in DOMAIN cmds[a.origin] /\ cmds[a.origin][a.index].type = "MAIL"
          /\ b.index \in DOMAIN cmds[b.origin] /\ cmds[b.origin][b.index].type = "MAIL"
      BY <1>1, <1>3, IdOfItself DEF HasMail
    <3>2. cmds[a.origin][a.index].date_sent = cmds[b.origin][b.index].date_sent
      BY <1>2, <2>1 DEF Belongs
    <3>3. a.origin = b.origin /\ a.index = b.index
      BY <3>1, <3>2 DEF Fair, NoTies
    <3>. QED
      BY <1>1, <3>3, IdOfItself
  <2>. QED
    BY <2>1
<1>. QED
  BY <1>1, <1>2, <1>4, SameMail DEF Belongs

(* A read or delete that finds nothing in its user's inbox names no mail   *)
(* of anybody's.                                                           *)
LEMMA NothingFound ==
  ASSUME NEW cmds \in CommandTable, NEW st \in State, Sound(cmds, st), Fair(cmds),
         NEW o \in Server, NEW i \in DOMAIN cmds[o],
         cmds[o][i].type \in {"READ", "DELETE"}, Found(st, cmds[o][i]) = {},
         NEW u \in User
  PROVE  cmds[o][i].id \notin Kept(cmds, st, u)
<1>. DEFINE c == cmds[o][i]
            k == c.id
            m == [id |-> k, date_sent |-> cmds[k.origin][k.index].date_sent,
                  read |-> Marked(cmds, st, "READ", k)]
<1>1. SUFFICES ASSUME k \in Kept(cmds, st, u)
               PROVE  FALSE
  OBVIOUS
<1>2. c \in Command /\ k \in Id /\ c.username \in User
  BY CommandsTyped, CommandFields
<1>3. cmds[k.origin][k.index].to = c.username
  <2>1. k.index <= st.applied[k.origin] /\ st.applied[k.origin] <= Len(cmds[k.origin])
    BY <1>1, <1>2, ArrivedMembers, IdOfItself DEF Kept, Sound
  <2>2. k.index \in DOMAIN cmds[k.origin]
    BY <1>2, <2>1 DEF Id, State, Counts, CommandTable
  <2>3. HasMail(cmds, k)
    BY <1>1, <2>2 DEF Kept, HasMail
  <2>. QED
    BY <2>3 DEF Fair, OwnMail
<1>4. u = c.username
  BY <1>1, <1>3 DEF Kept
<1>5. m \in Expected(cmds, st, u)
  BY <1>1 DEF Expected
<1>6. m \in st.inboxes[u]
  BY <1>5 DEF Sound, Fair, InboxesMatch
<1>7. m.id = k
  OBVIOUS
<1>. QED
  BY <1>4, <1>6, <1>7 DEF Found

(* The mails kept after the command.                                       *)
LEMMA ReceiveKept ==
  ASSUME NEW cmds \in CommandTable, NEW st \in State, NEW o \in Server, NEW st2 \in State,
         st.applied[o] < Len(cmds[o]), Receives(cmds, st, o, st2), NEW u, NEW id
  PROVE  id \in Kept(cmds, st2, u) <=>
           /\ id \in Arrived(st) \/ id = NextId(st, o)
           /\ cmds[id.origin][id.index].type = "MAIL"
           /\ cmds[id.origin][id.index].to = u
           /\ ~ Marked(cmds, st, "DELETE", id)
           /\ ~ (NextCommand(cmds, st, o).type = "DELETE" /\ NextCommand(cmds, st, o).id = id)
BY ReceiveArrives, ReceiveMarks DEF Kept

(* A mail joins the inbox it was sent to, with the mark it waited for,     *)
(* unless it was deleted before it came.                                   *)
LEMMA MailKeepsMatch ==
  ASSUME NEW cmds \in CommandTable, NEW st \in State, NEW o \in Server, NEW st2 \in State,
         st.applied[o] < Len(cmds[o]), Receives(cmds, st, o, st2),
         Sound(cmds, st), Fair(cmds), NextCommand(cmds, st, o).type = "MAIL",
         NEW u \in User, NEW m \in Mail
  PROVE  m \in st2.inboxes[u] <=> Belongs(cmds, st2, u, m)
<1>. DEFINE c == NextCommand(cmds, st, o)
            id == NextId(st, o)
            waits == id \in st.pending_read
            new == [id |-> id, date_sent |-> c.date_sent, read |-> waits]
<1>1. /\ c \in Command /\ id \in Id /\ c.to \in User /\ c.date_sent \in Dates
      /\ c = cmds[id.origin][id.index]
      /\ st.inboxes \in [User -> SUBSET Mail]
  BY NextOne, CommandFields DEF NextCommand, State
<1>2. id \notin Arrived(st)
  BY NextOne, ArrivedMembers
<1>3. /\ id \in st.pending_delete <=> Marked(cmds, st, "DELETE", id)
      /\ id \in st.pending_read <=> Marked(cmds, st, "READ", id)
  <2>1. Matches(cmds, st, id)
    BY <1>1, <1>2, PendingMatchEverywhere DEF Sound
  <2>. QED
    BY <2>1 DEF Matches
<1>4. m \in st.inboxes[u] <=> Belongs(cmds, st, u, m)
  BY InboxesMatchMembers DEF Sound, Fair
<1>5. TakesMail(st, id, c, st2)
  BY DEF Receives
<1>6. new \in Mail /\ new.id = id /\ new.date_sent = c.date_sent
      /\ (new.read <=> id \in st.pending_read)
  <2>1. waits \in BOOLEAN
    OBVIOUS
  <2>. HIDE DEF waits, c, id
  <2>2. new \in Mail /\ new.id = id /\ new.date_sent = c.date_sent /\ new.read = waits
    BY <1>1, <2>1 DEF Mail
  <2>3. new.read <=> waits
    BY <2>2
  <2>. QED
    BY <2>2, <2>3 DEF waits
<1>7. Belongs(cmds, st2, u, m) <=>
        \/ Belongs(cmds, st, u, m)
        \/ /\ m.id = id /\ c.to = u /\ id \notin st.pending_delete
           /\ m.date_sent = c.date_sent /\ (m.read <=> id \in st.pending_read)
  <2>1. m.id \in Kept(cmds, st2, u) <=>
          m.id \in Kept(cmds, st, u) \/ (m.id = id /\ c.to = u /\ id \notin st.pending_delete)
    <3>1. CASE m.id = id
      BY <1>1, <1>2, <1>3, <3>1, ReceiveKept DEF Kept
    <3>2. CASE m.id # id
      BY <3>2, ReceiveKept DEF Kept
    <3>. QED
      BY <3>1, <3>2
  <2>2. Marked(cmds, st2, "READ", m.id) <=> Marked(cmds, st, "READ", m.id)
    BY ReceiveMarks
  <2>3. m.id \in Kept(cmds, st, u) => m.id # id
    BY <1>2 DEF Kept
  <2>. HIDE DEF c, id
  <2>. QED
    BY <1>1, <1>3, <2>1, <2>2, <2>3 DEF Belongs
<1>. HIDE DEF new
<1>8. m \in st2.inboxes[u] <=>
        m \in st.inboxes[u] \/ (u = c.to /\ id \notin st.pending_delete /\ m = new)
  <2>1. \/ id \in st.pending_delete /\ st2.inboxes = st.inboxes
        \/ /\ id \notin st.pending_delete
           /\ st2.inboxes = [st.inboxes EXCEPT ![c.to] = st.inboxes[c.to] \cup {new}]
    BY <1>5 DEF TakesMail, new
  <2>. QED
    BY <1>1, <2>1
<1>9. m = new <=> m.id = id /\ m.date_sent = c.date_sent /\ (m.read <=> id \in st.pending_read)
  BY <1>6, SameMail
<1>. QED
  BY <1>4, <1>7, <1>8, <1>9

(* A read marks the one mail that it names, or the inboxes wait for it.    *)
LEMMA ReadKeepsMatch ==
  ASSUME NEW cmds \in CommandTable, NEW st \in State, NEW o \in Server, NEW st2 \in State,
         st.applied[o] < Len(cmds[o]), Receives(cmds, st, o, st2),
         Sound(cmds, st), Fair(cmds), NextCommand(cmds, st, o).type = "READ",
         NEW u \in User, NEW m \in Mail
  PROVE  m \in st2.inboxes[u] <=> Belongs(cmds, st2, u, m)
<1>. DEFINE c == NextCommand(cmds, st, o)
<1>1. /\ c \in Command /\ c.username \in User /\ c.id \in Id
      /\ st.inboxes \in [User -> SUBSET Mail]
  BY NextOne, CommandFields DEF State
<1>3. \A v \in User : \A x \in Mail : x \in st.inboxes[v] <=> Belongs(cmds, st, v, x)
  BY InboxesMatchMembers DEF Sound, Fair
<1>4. m.id \in Kept(cmds, st2, u) <=> m.id \in Kept(cmds, st, u)
  <2>1. cmds[NextId(st, o).origin][NextId(st, o).index] = c
    BY NextOne DEF NextCommand
  <2>. QED
    BY <2>1, ReceiveKept DEF Kept
<1>5. Marked(cmds, st2, "READ", m.id) <=> Marked(cmds, st, "READ", m.id) \/ m.id = c.id
  BY ReceiveMarks
<1>6. TakesRead(st, c, st2)
  BY DEF Receives
<1>7. CASE Found(st, c) = {}
  <2>1. st2.inboxes = st.inboxes
    BY <1>6, <1>7 DEF TakesRead
  <2>2. c.id \notin Kept(cmds, st, u)
    BY <1>7, NextOne, NothingFound DEF NextCommand
  <2>3. Belongs(cmds, st2, u, m) <=> Belongs(cmds, st, u, m)
    BY <1>4, <1>5, <2>2 DEF Belongs
  <2>. QED
    BY <1>3, <2>1, <2>3
<1>8. ASSUME NEW x \in Found(st, c),
             st2.inboxes = [st.inboxes EXCEPT ![c.username] =
                             Erase(@, x) \cup {[x EXCEPT !.read = TRUE]}]
      PROVE  m \in st2.inboxes[u] <=> Belongs(cmds, st2, u, m)
  <2>. DEFINE marked == [x EXCEPT !.read = TRUE]
  <2>1. x \in st.inboxes[c.username] /\ x.id = c.id /\ x \in Mail
    BY <1>1 DEF Found
  <2>2. marked \in Mail /\ marked.id = c.id /\ marked.date_sent = x.date_sent /\ marked.read = TRUE
    BY <2>1 DEF Mail
  <2>. HIDE DEF marked
  <2>3. Belongs(cmds, st, c.username, x)
    BY <1>1, <1>3, <2>1
  <2>4. m \in st2.inboxes[u] <=>
          IF u = c.username
          THEN (m \in st.inboxes[u] /\ m.date_sent # x.date_sent) \/ m = marked
          ELSE m \in st.inboxes[u]
    <3>1. st2.inboxes = [st.inboxes EXCEPT ![c.username] =
                          Erase(st.inboxes[c.username], x) \cup {marked}]
      BY <1>8 DEF marked
    <3>. QED
      BY <1>1, <3>1 DEF Erase
  <2>5. CASE m.id # c.id
    <3>1. Belongs(cmds, st2, u, m) <=> Belongs(cmds, st, u, m)
      BY <1>4, <1>5, <2>5 DEF Belongs
    <3>2. u = c.username /\ m \in st.inboxes[u] => m.date_sent # x.date_sent
      BY <2>1, <2>5, OneMail
    <3>3. m # marked
      BY <2>2, <2>5
    <3>. QED
      BY <1>3, <2>4, <3>1, <3>2, <3>3
  <2>6. CASE m.id = c.id /\ u # c.username
    <3>1. m.id \notin Kept(cmds, st, u)
      BY <2>1, <2>3, <2>6 DEF Belongs, Kept
    <3>2. ~ Belongs(cmds, st, u, m) /\ ~ Belongs(cmds, st2, u, m)
      BY <1>4, <3>1 DEF Belongs
    <3>. QED
      BY <1>3, <2>4, <2>6, <3>2
  <2>7. CASE m.id = c.id /\ u = c.username
    <3>1. m \in st.inboxes[u] => m = x
      BY <2>1, <2>7, OneMail
    <3>2. m = marked <=> m.date_sent = x.date_sent /\ m.read
      BY <2>2, <2>7, SameMail
    <3>3. m.id \in Kept(cmds, st2, u) /\ Marked(cmds, st2, "READ", m.id)
      BY <1>4, <1>5, <2>1, <2>3, <2>7 DEF Belongs
    <3>4. x.date_sent = cmds[m.id.origin][m.id.index].date_sent
      BY <2>1, <2>3, <2>7 DEF Belongs
    <3>5. Belongs(cmds, st2, u, m) <=> m.date_sent = x.date_sent /\ m.read
      BY <3>3, <3>4 DEF Belongs
    <3>. QED
      BY <2>4, <2>7, <3>1, <3>2, <3>5
  <2>. QED
    BY <2>5, <2>6, <2>7
<1>. QED
  BY <1>6, <1>7, <1>8 DEF TakesRead

(* A delete takes out the one mail that it names, or the inboxes wait for  *)
(* it to come.                                                             *)
LEMMA DeleteKeepsMatch ==
  ASSUME NEW cmds \in CommandTable, NEW st \in State, NEW o \in Server, NEW st2 \in State,
         st.applied[o] < Len(cmds[o]), Receives(cmds, st, o, st2),
         Sound(cmds, st), Fair(cmds), NextCommand(cmds, st, o).type = "DELETE",
         NEW u \in User, NEW m \in Mail
  PROVE  m \in st2.inboxes[u] <=> Belongs(cmds, st2, u, m)
<1>. DEFINE c == NextCommand(cmds, st, o)
<1>1. /\ c \in Command /\ c.username \in User /\ c.id \in Id
      /\ st.inboxes \in [User -> SUBSET Mail]
  BY NextOne, CommandFields DEF State
<1>2. \A v \in User : \A x \in Mail : x \in st.inboxes[v] <=> Belongs(cmds, st, v, x)
  BY InboxesMatchMembers DEF Sound, Fair
<1>3. m.id \in Kept(cmds, st2, u) <=> m.id \in Kept(cmds, st, u) /\ m.id # c.id
  <2>1. cmds[NextId(st, o).origin][NextId(st, o).index] = c
    BY NextOne DEF NextCommand
  <2>. QED
    BY <2>1, ReceiveKept DEF Kept
<1>4. Marked(cmds, st2, "READ", m.id) <=> Marked(cmds, st, "READ", m.id)
  BY ReceiveMarks
<1>5. Belongs(cmds, st2, u, m) <=> Belongs(cmds, st, u, m) /\ m.id # c.id
  BY <1>3, <1>4 DEF Belongs
<1>6. TakesDelete(st, c, st2)
  BY DEF Receives
<1>7. CASE Found(st, c) = {}
  <2>1. st2.inboxes = st.inboxes
    BY <1>6, <1>7 DEF TakesDelete
  <2>2. c.id \notin Kept(cmds, st, u)
    BY <1>7, NextOne, NothingFound DEF NextCommand
  <2>. QED
    BY <1>2, <1>5, <2>1, <2>2 DEF Belongs
<1>8. ASSUME NEW x \in Found(st, c),
             st2.inboxes = [st.inboxes EXCEPT ![c.username] = Erase(@, x)]
      PROVE  m \in st2.inboxes[u] <=> Belongs(cmds, st2, u, m)
  <2>1. x \in st.inboxes[c.username] /\ x.id = c.id /\ x \in Mail
    BY <1>1 DEF Found
  <2>2. Belongs(cmds, st, c.username, x)
    BY <1>1, <1>2, <2>1
  <2>3. m \in st2.inboxes[u] <=>
          m \in st.inboxes[u] /\ (u = c.username => m.date_sent # x.date_sent)
    BY <1>1, <1>8 DEF Erase
  <2>4. u = c.username /\ m \in st.inboxes[u] => (m.date_sent # x.date_sent <=> m.id # c.id)
    BY <2>1, OneMail
  <2>5. u # c.username /\ m \in st.inboxes[u] => m.id # c.id
    BY <1>2, <2>1, <2>2 DEF Belongs, Kept
  <2>. QED
    BY <1>2, <1>5, <2>3, <2>4, <2>5
<1>. QED
  BY <1>6, <1>7, <1>8 DEF TakesDelete

(* Read marks go on waiting only for mails to come, or deleted ones.       *)
LEMMA ReceiveKeepsAwaits ==
  ASSUME NEW cmds \in CommandTable, NEW st \in State, NEW o \in Server, NEW st2 \in State,
         st.applied[o] < Len(cmds[o]), Receives(cmds, st, o, st2), MailNamed(cmds),
         Sound(cmds, st), Fair(cmds)
  PROVE  PendingAwaits(cmds, st2)
<1>. DEFINE c == NextCommand(cmds, st, o)
<1>1. \A id \in st.pending_read : id \notin Arrived(st) \/ Marked(cmds, st, "DELETE", id)
  <2>1. \A id \in st.pending_read : id.index \in Nat /\ st.applied[id.origin] \in Nat
    BY DEF State, Counts, Id
  <2>. QED
    BY <2>1, ArrivedMembers DEF Sound, Fair, PendingAwaits
<1>2. SUFFICES ASSUME NEW id \in st2.pending_read, id \in Arrived(st2)
               PROVE  Marked(cmds, st2, "DELETE", id)
  <2>1. \A id \in st2.pending_read :
          id.index \in Nat /\ st2.applied[id.origin] \in Nat /\ id \in Id
    BY DEF State, Counts, Id
  <2>. QED
    BY <1>2, <2>1, ArrivedMembers DEF PendingAwaits
<1>3. id \in Arrived(st) \/ id = NextId(st, o)
  BY <1>2, ReceiveArrives
<1>4. SUFFICES Marked(cmds, st, "DELETE", id)
  BY ReceiveMarks
<1>5. c = cmds[NextId(st, o).origin][NextId(st, o).index] /\ c \in Command
  BY NextOne DEF NextCommand
<1>6. CASE c.type = "MAIL" /\ TakesMail(st, NextId(st, o), c, st2)
  <2>1. NextId(st, o) \in Id /\ NextId(st, o) \notin Arrived(st)
    BY NextOne, ArrivedMembers
  <2>2. NextId(st, o) \in st.pending_delete <=> Marked(cmds, st, "DELETE", NextId(st, o))
    BY <2>1, PendingMatchEverywhere DEF Sound, Matches
  <2>3. CASE id = NextId(st, o)
    BY <1>6, <2>2, <2>3 DEF TakesMail
  <2>4. CASE id # NextId(st, o)
    <3>1. id \in st.pending_read
      BY <1>6 DEF TakesMail
    <3>. QED
      BY <1>1, <1>3, <2>4, <3>1
  <2>. QED
    BY <2>3, <2>4
<1>7. ASSUME id \in st.pending_read, c.type # "MAIL"
      PROVE  Marked(cmds, st, "DELETE", id)
  <2>1. id # NextId(st, o)
    BY <1>5, <1>7 DEF Sound, HasMail
  <2>. QED
    BY <1>1, <1>3, <1>7, <2>1
<1>8. CASE c.type = "DELETE" /\ TakesDelete(st, c, st2)
  BY <1>2, <1>7, <1>8 DEF TakesDelete
<1>9. CASE c.type = "READ" /\ TakesRead(st, c, st2)
  <2>1. id \in st.pending_read \/ (id = c.id /\ Found(st, c) = {})
    BY <1>2, <1>9 DEF TakesRead
  <2>2. CASE id = c.id /\ Found(st, c) = {}
    <3>1. HasMail(cmds, id)
      BY <1>9, <2>2, NextOne DEF MailNamed, NextCommand
    <3>2. id \in Arrived(st)
      BY <1>3, <1>5, <1>9, <3>1 DEF HasMail
    <3>3. cmds[id.origin][id.index].to \in User
      <4>1. id \in Id /\ id.origin \in Server
        BY <1>5, <1>9, <2>2, CommandFields, IdOfItself
      <4>2. cmds[id.origin][id.index] \in Command /\ cmds[id.origin][id.index].type = "MAIL"
        BY <3>1, <4>1, CommandsTyped DEF HasMail
      <4>. QED
        BY <4>2, CommandFields
    <3>4. id \notin Kept(cmds, st, cmds[id.origin][id.index].to)
      BY <1>9, <2>2, <3>3, NextOne, NothingFound DEF NextCommand
    <3>. QED
      BY <3>1, <3>2, <3>4 DEF Kept, HasMail
  <2>. QED
    BY <1>7, <1>9, <2>1, <2>2
<1>. QED
  BY <1>6, <1>8, <1>9 DEF Receives

(* The next command of any origin keeps a sound state sound.               *)
LEMMA ReceiveSound ==
  ASSUME NEW cmds \in CommandTable, NEW st \in State, NEW o \in Server, NEW st2 \in State,
         st.applied[o] < Len(cmds[o]), Receives(cmds, st, o, st2), MailNamed(cmds),
         Sound(cmds, st)
  PROVE  Sound(cmds, st2)
<1>. DEFINE c == NextCommand(cmds, st, o)
<1>1. \A p \in Server : st2.applied[p] <= Len(cmds[p])
  <2>1. st2.applied = [st.applied EXCEPT ![o] = st.applied[o] + 1] /\ st.applied \in [Server -> Nat]
    BY DEF Receives, State, Counts
  <2>2. \A p \in Server : Len(cmds[p]) \in Nat /\ st.applied[p] <= Len(cmds[p])
    BY DEF CommandTable, Sound
  <2>. QED
    BY <2>1, <2>2
<1>2. c = cmds[NextId(st, o).origin][NextId(st, o).index]
  BY NextOne DEF NextCommand
<1>3. ASSUME NEW u \in User, NEW m \in st2.inboxes[u]
      PROVE  m.id \in Arrived(st2) /\ HasMail(cmds, m.id)
  <2>1. CASE \E x \in st.inboxes[u] : x.id = m.id
    BY <2>1, ReceiveArrives DEF Sound
  <2>2. CASE c.type = "MAIL" /\ m.id = NextId(st, o)
    BY <1>2, <2>2, ReceiveArrives, NextOne DEF HasMail
  <2>. QED
    BY <2>1, <2>2, ReceiveListed
<1>4. ASSUME NEW id \in st2.pending_read
      PROVE  HasMail(cmds, id)
  <2>1. c.type = "READ" => HasMail(cmds, c.id)
    BY NextOne DEF MailNamed, NextCommand
  <2>. QED
    BY <2>1, ReceivePending DEF Sound
<1>5. PendingMatch(cmds, st2)
  BY <1>1, ReceivePendingMatch
<1>6. ASSUME Fair(cmds)
      PROVE  InboxesMatch(cmds, st2) /\ PendingAwaits(cmds, st2)
  <2>1. c.type \in {"MAIL", "READ", "DELETE"}
    BY NextOne, CommandFields
  <2>2. \A u \in User : \A m \in Mail : m \in st2.inboxes[u] <=> Belongs(cmds, st2, u, m)
    BY <1>6, <2>1, MailKeepsMatch, ReadKeepsMatch, DeleteKeepsMatch
  <2>3. InboxesMatch(cmds, st2)
    BY <1>1, <2>2, InboxesMatchMembers
  <2>4. PendingAwaits(cmds, st2)
    BY <1>6, ReceiveKeepsAwaits
  <2>. QED
    BY <2>3, <2>4
<1>. QED
  BY <1>1, <1>3, <1>4, <1>5, <1>6 DEF Sound, Fair

(* Before any command everything is sound.                                 *)
LEMMA EmptySound ==
  ASSUME NEW cmds \in CommandTable, \A o \in Server : cmds[o] = <<>>,
         NEW st \in State, st.applied = NoCommands, st.inboxes = [u \in User |-> {}],
         st.pending_delete = {}, st.pending_read = {}
  PROVE  Sound(cmds, st)
<1>1. \A o \in Server : st.applied[o] = 0 /\ Len(cmds[o]) = 0
  BY DEF NoCommands
<1>2. \A id : id \notin Arrived(st)
  BY <1>1, ArrivedMembers DEF Id
<1>3. PendingMatch(cmds, st)
  <2>1. \A type, id : ~ Marked(cmds, st, type, id)
    BY <1>1 DEF Marked
  <2>. QED
    BY <2>1 DEF PendingMatch
<1>4. InboxesMatch(cmds, st) /\ PendingAwaits(cmds, st)
  BY <1>2 DEF InboxesMatch, PendingAwaits, Expected, Kept
<1>. QED
  BY <1>1, <1>3, <1>4 DEF Sound

-----------------------------------------------------------------------------
(* The steps of the servers.                                               *)

StatesTyped ==
  /\ applied \in [Server -> Counts]
  /\ inboxes \in [Server -> [User -> SUBSET Mail]]
  /\ pending_delete \in [Server -> SUBSET Id]
  /\ pending_read \in [Server -> SUBSET Id]

(* The state of a server is a state.                                       *)
LEMMA StateOfTyped ==
  ASSUME StatesTyped, NEW s \in Server
  PROVE  /\ StateOf(s) \in State
         /\ StateOf(s).applied = applied[s]
         /\ StateOf(s).inboxes = inboxes[s]
         /\ StateOf(s).pending_delete = pending_delete[s]
         /\ StateOf(s).pending_read = pending_read[s]
BY DEF StatesTyped, StateOf, State

(* ApplyCommandToState gives its server the next command, and the others   *)
(* nothing.                                                                *)
LEMMA AppliesReceives ==
  ASSUME StatesTyped, NEW cmds \in CommandTable, NEW s \in Server, NEW o \in Server,
         applied[s][o] < Len(cmds[o]),
         ApplyCommandToState(s, o, cmds[o][applied[s][o] + 1])
  PROVE  /\ Receives(cmds, StateOf(s), o, StateOf(s)')
         /\ \A t \in Server : t # s => StateOf(t)' = StateOf(t)
         /\ StatesTyped'
         /\ \/ UNCHANGED fileVars
            \/ saved' = [saved EXCEPT ![s] = StateOf(s)'] /\ saves < MaxSaves /\ saves' = saves + 1
<1>. DEFINE c == cmds[o][applied[s][o] + 1]
            id == IdOf(o, applied[s][o] + 1)
            st == StateOf(s)
            st2 == StateOf(s)'
<1>1. /\ st \in State /\ st.applied = applied[s] /\ st.inboxes = inboxes[s]
      /\ st.pending_delete = pending_delete[s] /\ st.pending_read = pending_read[s]
  BY StateOfTyped
<1>2. /\ st2.applied = applied'[s] /\ st2.inboxes = inboxes'[s]
      /\ st2.pending_delete = pending_delete'[s] /\ st2.pending_read = pending_read'[s]
  BY DEF StateOf
<1>3. c = NextCommand(cmds, st, o) /\ id = NextId(st, o)
  BY <1>1 DEF NextCommand, NextId
<1>4. c \in Command /\ id \in Id
  BY <1>1, <1>3, NextOne
<1>5. /\ applied' = [applied EXCEPT ![s][o] = @ + 1]
      /\ \/ c.type = "MAIL" /\ ApplyMail(s, id, c)
         \/ c.type = "READ" /\ ApplyRead(s, c)
         \/ c.type = "DELETE" /\ ApplyDelete(s, c)
  BY DEF ApplyCommandToState
<1>. HIDE DEF st, st2, c, id
<1>6. st2.applied = [st.applied EXCEPT ![o] = @ + 1]
  BY <1>1, <1>2, <1>5 DEF StatesTyped
<1>7. /\ \/ c.type = "MAIL" /\ TakesMail(st, id, c, st2)
         \/ c.type = "READ" /\ TakesRead(st, c, st2)
         \/ c.type = "DELETE" /\ TakesDelete(st, c, st2)
      /\ \A t \in Server \ {s} :
           /\ inboxes'[t] = inboxes[t]
           /\ pending_delete'[t] = pending_delete[t] /\ pending_read'[t] = pending_read[t]
      /\ DOMAIN inboxes' = Server /\ DOMAIN pending_delete' = Server /\ DOMAIN pending_read' = Server
      /\ inboxes' = [t \in Server |-> inboxes'[t]]
      /\ pending_delete' = [t \in Server |-> pending_delete'[t]]
      /\ pending_read' = [t \in Server |-> pending_read'[t]]
  <2>1. CASE c.type = "MAIL" /\ ApplyMail(s, id, c)
    BY <1>1, <1>2, <2>1 DEF ApplyMail, TakesMail, StatesTyped
  <2>2. CASE c.type = "READ" /\ ApplyRead(s, c)
    <3>1. FindMail(s, c.username, c.id) = Found(st, c)
      BY <1>1 DEF FindMail, Found
    <3>2. ASSUME NEW m \in Found(st, c),
                 inboxes' = [inboxes EXCEPT ![s][c.username] =
                              Erase(@, m) \cup {[m EXCEPT !.read = TRUE]}],
                 UNCHANGED <<pending_delete, pending_read>>
          PROVE  TakesRead(st, c, st2)
      <4>. DEFINE left == Erase(inboxes[s][c.username], m) \cup {[m EXCEPT !.read = TRUE]}
      <4>1. inboxes'[s] = [inboxes[s] EXCEPT ![c.username] = left]
        BY <3>2 DEF StatesTyped
      <4>2. left = Erase(st.inboxes[c.username], m) \cup {[m EXCEPT !.read = TRUE]}
        BY <1>1
      <4>. HIDE DEF left
      <4>3. st2.inboxes = [st.inboxes EXCEPT ![c.username] = left]
        BY <1>1, <1>2, <4>1
      <4>4. st2.inboxes = [st.inboxes EXCEPT ![c.username] =
                            Erase(@, m) \cup {[m EXCEPT !.read = TRUE]}]
        BY <4>2, <4>3
      <4>. QED
        BY <1>1, <1>2, <3>2, <4>4 DEF TakesRead
    <3>3. TakesRead(st, c, st2)
      <4>1. CASE Found(st, c) = {}
        BY <1>1, <1>2, <2>2, <3>1, <4>1 DEF ApplyRead, TakesRead, StatesTyped
      <4>2. CASE Found(st, c) # {}
        <5>1. \E m \in Found(st, c) :
                 /\ inboxes' = [inboxes EXCEPT ![s][c.username] =
                                Erase(@, m) \cup {[m EXCEPT !.read = TRUE]}]
                 /\ UNCHANGED <<pending_delete, pending_read>>
          BY <2>2, <3>1, <4>2 DEF ApplyRead
        <5>. QED
          BY <3>2, <5>1
      <4>. QED
        BY <4>1, <4>2
    <3>4. /\ \E mails : inboxes' = [inboxes EXCEPT ![s] = mails]
          /\ \E ids : pending_read' = [pending_read EXCEPT ![s] = ids]
          /\ pending_delete' = pending_delete
      <4>1. inboxes = [inboxes EXCEPT ![s] = inboxes[s]]
            /\ pending_read = [pending_read EXCEPT ![s] = pending_read[s]]
        BY DEF StatesTyped
      <4>. QED
        BY <2>2, <4>1 DEF ApplyRead
    <3>. QED
      BY <2>2, <3>3, <3>4 DEF StatesTyped
  <2>3. CASE c.type = "DELETE" /\ ApplyDelete(s, c)
    <3>1. FindMail(s, c.username, c.id) = Found(st, c)
      BY <1>1 DEF FindMail, Found
    <3>. QED
      BY <1>1, <1>2, <2>3, <3>1 DEF ApplyDelete, TakesDelete, StatesTyped
  <2>. QED
    BY <1>5, <2>1, <2>2, <2>3
<1>8. Receives(cmds, st, o, st2)
  BY <1>3, <1>6, <1>7 DEF Receives
<1>9. st2.applied \in Counts /\ st2.inboxes \in [User -> SUBSET Mail]
      /\ st2.pending_delete \in SUBSET Id /\ st2.pending_read \in SUBSET Id
  BY <1>1, <1>8, ReceiveTyped
<1>10. \A t \in Server \ {s} : applied'[t] = applied[t]
  BY <1>5 DEF StatesTyped
<1>11. StatesTyped'
  <2>1. applied' \in [Server -> Counts]
    BY <1>2, <1>5, <1>9, <1>10 DEF StatesTyped
  <2>2. inboxes' \in [Server -> [User -> SUBSET Mail]]
    <3>1. \A t \in Server : inboxes'[t] \in [User -> SUBSET Mail]
      BY <1>2, <1>7, <1>9 DEF StatesTyped
    <3>. QED
      BY <1>7, <3>1
  <2>3. pending_delete' \in [Server -> SUBSET Id]
    <3>1. \A t \in Server : pending_delete'[t] \in SUBSET Id
      BY <1>2, <1>7, <1>9 DEF StatesTyped
    <3>. QED
      BY <1>7, <3>1
  <2>4. pending_read' \in [Server -> SUBSET Id]
    <3>1. \A t \in Server : pending_read'[t] \in SUBSET Id
      BY <1>2, <1>7, <1>9 DEF StatesTyped
    <3>. QED
      BY <1>7, <3>1
  <2>. QED
    BY <2>1, <2>2, <2>3, <2>4 DEF StatesTyped
<1>12. \A t \in Server : t # s => StateOf(t)' = StateOf(t)
  BY <1>7, <1>10 DEF StateOf
<1>13. \/ UNCHANGED fileVars
       \/ saved' = [saved EXCEPT ![s] = st2] /\ saves < MaxSaves /\ saves' = saves + 1
  BY DEF ApplyCommandToState, WriteInboxState, st2, StateOf
<1>. QED
  BY <1>8, <1>11, <1>12, <1>13 DEF st, st2

FilesTyped == saved \in [Server -> State] /\ saves \in 0 .. MaxSaves

AllSound(cmds) == \A t \in Server : Sound(cmds, StateOf(t)) /\ Sound(cmds, saved[t])

(* A server that applies its next command stays sound, and so does its     *)
(* file, whether it is written or not.                                     *)
LEMMA ApplySound ==
  ASSUME StatesTyped, FilesTyped, NEW cmds \in CommandTable, MailNamed(cmds),
         NEW s \in Server, NEW o \in Server,
         applied[s][o] < Len(cmds[o]),
         ApplyCommandToState(s, o, cmds[o][applied[s][o] + 1]),
         \A t \in Server : Sound(cmds, StateOf(t)) /\ Sound(cmds, saved[t])
  PROVE  /\ StatesTyped' /\ FilesTyped'
         /\ \A t \in Server : Sound(cmds, StateOf(t)') /\ Sound(cmds, saved'[t])
         /\ applied' = [applied EXCEPT ![s][o] = @ + 1]
         /\ \A t \in Server : saved'[t] = saved[t] \/ saved'[t].applied = applied'[t]
<1>1. /\ Receives(cmds, StateOf(s), o, StateOf(s)')
      /\ \A t \in Server : t # s => StateOf(t)' = StateOf(t)
      /\ StatesTyped'
      /\ \/ UNCHANGED fileVars
         \/ saved' = [saved EXCEPT ![s] = StateOf(s)'] /\ saves < MaxSaves /\ saves' = saves + 1
  BY AppliesReceives
<1>2. /\ StateOf(s) \in State /\ StateOf(s).applied = applied[s]
  BY StateOfTyped
<1>3. StateOf(s)' \in State /\ StateOf(s)'.applied = applied'[s]
  BY <1>1, StateOfTyped DEF StatesTyped, StateOf, State
<1>4. Sound(cmds, StateOf(s)')
  BY <1>1, <1>2, <1>3, ReceiveSound
<1>5. FilesTyped'
  BY <1>1, <1>3, MailboxAssumption DEF FilesTyped, fileVars
<1>6. \A t \in Server : saved'[t] = saved[t] \/ (saved'[t] = StateOf(s)' /\ t = s)
  BY <1>1 DEF FilesTyped, fileVars
<1>. QED
  BY <1>1, <1>3, <1>4, <1>5, <1>6 DEF ApplyCommandToState

(* The commands with one more of s.                                        *)
LEMMA AppendExtends ==
  ASSUME NEW cmds \in CommandTable, NEW s \in Server, NEW command \in Command, NEW cmds2,
         cmds2 = [cmds EXCEPT ![s] = Append(@, command)]
  PROVE  /\ cmds2 \in CommandTable
         /\ Extends(cmds, cmds2)
         /\ Len(cmds2[s]) = Len(cmds[s]) + 1
         /\ cmds2[s][Len(cmds[s]) + 1] = command
         /\ \A o \in Server \ {s} : cmds2[o] = cmds[o]
<1>1. cmds[s] \in Seq(Command) /\ cmds2[s] = Append(cmds[s], command)
  BY DEF CommandTable
<1>2. cmds2[s] \in Seq(Command)
  BY <1>1
<1>3. Len(cmds2[s]) = Len(cmds[s]) + 1 /\ cmds2[s][Len(cmds[s]) + 1] = command
  BY <1>1
<1>4. /\ DOMAIN cmds[s] \subseteq DOMAIN cmds2[s]
      /\ \A i \in DOMAIN cmds[s] : cmds2[s][i] = cmds[s][i]
  BY <1>1
<1>5. \A o \in Server \ {s} : cmds2[o] = cmds[o]
  BY DEF CommandTable
<1>. QED
  BY <1>2, <1>3, <1>4, <1>5 DEF CommandTable, Extends

(* A read of a mail that was sent leaves all reads that way.               *)
LEMMA AppendNamed ==
  ASSUME NEW cmds \in CommandTable, NEW s \in Server, NEW command \in Command, NEW cmds2,
         cmds2 = [cmds EXCEPT ![s] = Append(@, command)], MailNamed(cmds),
         command.type = "READ" => HasMail(cmds, command.id)
  PROVE  MailNamed(cmds2)
<1>1. SUFFICES ASSUME NEW o \in Server, NEW i \in DOMAIN cmds2[o],
                      cmds2[o][i].type = "READ"
               PROVE  HasMail(cmds2, cmds2[o][i].id)
  BY DEF MailNamed
<1>. DEFINE c == cmds2[o][i]
<1>2. /\ cmds2 \in CommandTable /\ Extends(cmds, cmds2)
      /\ c = command \/ (i \in DOMAIN cmds[o] /\ c = cmds[o][i])
  <2>1. cmds2 \in CommandTable /\ Extends(cmds, cmds2)
    BY AppendExtends
  <2>2. CASE o = s
    <3>1. cmds[s] \in Seq(Command) /\ cmds2[s] = Append(cmds[s], command)
      BY DEF CommandTable
    <3>. QED
      BY <2>1, <2>2, <3>1
  <2>3. CASE o # s
    BY <2>1, <2>3, AppendExtends
  <2>. QED
    BY <2>1, <2>2, <2>3
<1>3. c \in Command
  BY <1>2, CommandsTyped
<1>4. c.id \in Id /\ HasMail(cmds, c.id)
  BY <1>1, <1>2, <1>3, CommandFields DEF MailNamed
<1>. QED
  BY <1>2, <1>4, HasMailExtends

(* TypeOK in the parts that the lemmas use.                                *)
LEMMA TypeParts ==
  TypeOK <=> /\ StatesTyped /\ FilesTyped /\ commands \in CommandTable
             /\ logged \in [Server -> Counts] /\ username \in [Client -> User]
             /\ connected \in [Client -> Server] /\ inbox \in [Client -> SUBSET Id]
BY DEF TypeOK, StatesTyped, FilesTyped, CommandTable

(* A request: the command is new in the logs, and applied at once.         *)
LEMMA IssueInv ==
  ASSUME MailboxInv, NEW s \in Server, NEW command \in Command, Issue(s, command),
         command.type = "READ" => HasMail(commands, command.id)
  PROVE  MailboxInv'
<1>1. /\ StatesTyped /\ FilesTyped /\ commands \in CommandTable
      /\ logged \in [Server -> Counts] /\ username \in [Client -> User]
      /\ connected \in [Client -> Server] /\ inbox \in [Client -> SUBSET Id]
      /\ LogsCover /\ MailNamed(commands)
  BY TypeParts DEF MailboxInv
<1>2. /\ commands' = [commands EXCEPT ![s] = Append(@, command)]
      /\ logged' = [logged EXCEPT ![s][s] = @ + 1]
      /\ applied[s] = logged[s]
      /\ ApplyCommandToState(s, s, command)
      /\ UNCHANGED <<username, connected, inbox>>
  BY DEF Issue, Up, D!Issue, clientVars
<1>3. /\ commands' \in CommandTable /\ Extends(commands, commands') /\ MailNamed(commands')
      /\ Len(commands'[s]) = Len(commands[s]) + 1
      /\ commands'[s][Len(commands[s]) + 1] = command
      /\ \A o \in Server \ {s} : commands'[o] = commands[o]
  <2>. DEFINE cmds2 == [commands EXCEPT ![s] = Append(@, command)]
  <2>1. /\ cmds2 \in CommandTable /\ Extends(commands, cmds2)
        /\ Len(cmds2[s]) = Len(commands[s]) + 1
        /\ cmds2[s][Len(commands[s]) + 1] = command
        /\ \A o \in Server \ {s} : cmds2[o] = commands[o]
    BY <1>1, AppendExtends
  <2>2. MailNamed(cmds2)
    BY <1>1, AppendNamed
  <2>3. commands' = cmds2
    BY <1>2
  <2>. HIDE DEF cmds2
  <2>. QED
    BY <2>1, <2>2, <2>3
<1>4. applied[s][s] = Len(commands[s])
  BY <1>1, <1>2 DEF LogsCover
<1>5. \A t \in Server : Sound(commands', StateOf(t)) /\ Sound(commands', saved[t])
  BY <1>1, <1>3, SoundExtends, StateOfTyped DEF MailboxInv, FilesTyped
<1>6. Len(commands[s]) \in Nat
  BY <1>1 DEF CommandTable
<1>7. applied[s][s] < Len(commands'[s]) /\ command = commands'[s][applied[s][s] + 1]
  BY <1>3, <1>4, <1>6
<1>8. /\ StatesTyped' /\ FilesTyped'
      /\ \A t \in Server : Sound(commands', StateOf(t)') /\ Sound(commands', saved'[t])
      /\ applied' = [applied EXCEPT ![s][s] = @ + 1]
      /\ \A t \in Server : saved'[t] = saved[t] \/ saved'[t].applied = applied'[t]
  <2>. DEFINE cmds == commands'
  <2>1. cmds \in CommandTable /\ MailNamed(cmds) /\ applied[s][s] < Len(cmds[s])
        /\ \A t \in Server : Sound(cmds, StateOf(t)) /\ Sound(cmds, saved[t])
    BY <1>3, <1>5, <1>7
  <2>2. ApplyCommandToState(s, s, cmds[s][applied[s][s] + 1])
    BY <1>2, <1>7
  <2>. HIDE DEF cmds
  <2>3. /\ StatesTyped' /\ FilesTyped'
        /\ \A t \in Server : Sound(cmds, StateOf(t)') /\ Sound(cmds, saved'[t])
        /\ applied' = [applied EXCEPT ![s][s] = @ + 1]
        /\ \A t \in Server : saved'[t] = saved[t] \/ saved'[t].applied = applied'[t]
    BY <1>1, <2>1, <2>2, ApplySound
  <2>. QED
    BY <2>3 DEF cmds
<1>9. logged' \in [Server -> Counts]
  BY <1>1, <1>2 DEF Counts
<1>10. LogsCover'
  <2>1. \A t, o \in Server : logged[t][o] \in Nat /\ applied[t][o] \in Nat
                            /\ saved[t].applied[o] \in Nat
    BY <1>1 DEF StatesTyped, FilesTyped, State, Counts
  <2>2. \A t, o \in Server :
          /\ applied'[t][o] = IF t = s /\ o = s THEN applied[s][s] + 1 ELSE applied[t][o]
          /\ logged'[t][o] = IF t = s /\ o = s THEN logged[s][s] + 1 ELSE logged[t][o]
    BY <1>1, <1>2, <1>8 DEF StatesTyped, Counts
  <2>3. ASSUME NEW t \in Server, NEW o \in Server
        PROVE  /\ applied'[t][o] <= logged'[t][o]
               /\ logged'[t][o] <= logged'[o][o]
               /\ logged'[o][o] = Len(commands'[o])
    <3>1. /\ applied[t][o] <= logged[t][o] /\ logged[t][o] <= logged[o][o]
          /\ logged[o][o] = Len(commands[o])
      BY <1>1 DEF LogsCover
    <3>2. logged'[o][o] = Len(commands'[o])
      BY <1>3, <2>2, <3>1
    <3>3. applied'[t][o] <= logged'[t][o]
      BY <2>1, <2>2, <3>1
    <3>4. logged'[t][o] <= logged'[o][o]
      <4>1. logged[t][o] \in Nat /\ logged[o][o] \in Nat
        BY <2>1
      <4>2. CASE o = s
        <5>1. logged'[o][o] = logged[o][o] + 1
          BY <2>2, <4>2
        <5>2. logged'[t][o] = logged[o][o] + 1 \/ logged'[t][o] = logged[t][o]
          BY <2>2, <4>2
        <5>. QED
          BY <3>1, <4>1, <5>1, <5>2
      <4>3. CASE o # s
        <5>1. logged'[o][o] = logged[o][o] /\ logged'[t][o] = logged[t][o]
          BY <2>2, <4>3
        <5>. QED
          BY <3>1, <5>1
      <4>. QED
        BY <4>2, <4>3
    <3>. QED
      BY <3>2, <3>3, <3>4
  <2>4. ASSUME NEW t \in Server, NEW o \in Server
        PROVE  saved'[t].applied[o] <= logged'[t][o]
    <3>1. CASE saved'[t] = saved[t]
      BY <1>1, <2>1, <2>2, <3>1 DEF LogsCover
    <3>2. CASE saved'[t].applied = applied'[t]
      BY <2>3, <3>2
    <3>. QED
      BY <1>8, <3>1, <3>2
  <2>. QED
    BY <2>3, <2>4 DEF LogsCover
<1>11. \A c \in Client : \A id \in inbox'[c] : HasMail(commands', id)
  BY <1>1, <1>2, <1>3, HasMailExtends DEF MailboxInv
<1>12. TypeOK'
  BY <1>1, <1>2, <1>3, <1>8, <1>9 DEF TypeOK, StatesTyped, FilesTyped, CommandTable
<1>. QED
  BY <1>3, <1>8, <1>10, <1>11, <1>12 DEF MailboxInv

(* A command of another server that arrives, or one of the log that is     *)
(* replayed: the next one of o, which the logs have.                       *)
LEMMA NextCommandInv ==
  ASSUME MailboxInv, NEW s \in Server, NEW o \in Server,
         applied[s][o] < Len(commands[o]),
         ApplyCommandToState(s, o, commands[o][applied[s][o] + 1]),
         UNCHANGED <<commands, clientVars>>,
         logged' \in [Server -> Counts],
         \A t, p \in Server : logged[t][p] <= logged'[t][p] /\ logged'[t][p] <= logged'[p][p],
         \A p \in Server : logged'[p][p] = logged[p][p],
         applied[s][o] < logged'[s][o]
  PROVE  MailboxInv'
<1>1. /\ StatesTyped /\ FilesTyped /\ commands \in CommandTable
      /\ logged \in [Server -> Counts] /\ username \in [Client -> User]
      /\ connected \in [Client -> Server] /\ inbox \in [Client -> SUBSET Id]
      /\ LogsCover /\ MailNamed(commands)
      /\ \A t \in Server : Sound(commands, StateOf(t)) /\ Sound(commands, saved[t])
  BY TypeParts DEF MailboxInv
<1>2. /\ StatesTyped' /\ FilesTyped'
      /\ \A t \in Server : Sound(commands, StateOf(t)') /\ Sound(commands, saved'[t])
      /\ applied' = [applied EXCEPT ![s][o] = @ + 1]
      /\ \A t \in Server : saved'[t] = saved[t] \/ saved'[t].applied = applied'[t]
  BY <1>1, ApplySound
<1>3. \A t, p \in Server : logged[t][p] \in Nat /\ logged'[t][p] \in Nat
                          /\ applied[t][p] \in Nat /\ saved[t].applied[p] \in Nat
  BY <1>1 DEF StatesTyped, FilesTyped, State, Counts
<1>4. ASSUME NEW t \in Server, NEW p \in Server
      PROVE  applied'[t][p] <= logged'[t][p]
  <2>1. applied[t][p] <= logged[t][p]
    BY <1>1 DEF LogsCover
  <2>2. CASE t = s /\ p = o
    <3>1. applied'[t][p] = applied[s][o] + 1
      BY <1>1, <1>2, <2>2 DEF StatesTyped, Counts
    <3>. QED
      BY <1>3, <2>2, <3>1
  <2>3. CASE ~ (t = s /\ p = o)
    <3>1. applied'[t][p] = applied[t][p]
      BY <1>1, <1>2, <2>3 DEF StatesTyped, Counts
    <3>2. logged[t][p] <= logged'[t][p]
      OBVIOUS
    <3>. QED
      BY <1>3, <2>1, <3>1, <3>2
  <2>. QED
    BY <2>2, <2>3
<1>5. ASSUME NEW t \in Server, NEW p \in Server
      PROVE  saved'[t].applied[p] <= logged'[t][p]
  <2>1. CASE saved'[t] = saved[t]
    <3>1. saved[t].applied[p] <= logged[t][p] /\ logged[t][p] <= logged'[t][p]
      BY <1>1 DEF LogsCover
    <3>. QED
      BY <1>3, <2>1, <3>1
  <2>2. CASE saved'[t].applied = applied'[t]
    BY <1>4, <2>2
  <2>. QED
    BY <1>2, <2>1, <2>2
<1>6. LogsCover'
  BY <1>1, <1>4, <1>5 DEF LogsCover
<1>7. TypeOK'
  BY <1>1, <1>2 DEF TypeOK, StatesTyped, FilesTyped, CommandTable, clientVars
<1>. QED
  BY <1>1, <1>2, <1>6, <1>7 DEF MailboxInv, clientVars

(* The steps that leave the logs and states alone, or save one, or go      *)
(* back to a saved one.                                                    *)
LEMMA RestartInv ==
  ASSUME MailboxInv, NEW s \in Server, Restart(s)
  PROVE  MailboxInv'
<1>1. /\ TypeOK /\ StatesTyped /\ saved[s] \in State /\ LogsCover
      /\ \A t \in Server : Sound(commands, StateOf(t)) /\ Sound(commands, saved[t])
  BY TypeParts DEF MailboxInv, FilesTyped
<1>2. /\ StateOf(s)' = saved[s]
      /\ \A t \in Server : t # s => StateOf(t)' = StateOf(t)
      /\ applied' = [applied EXCEPT ![s] = saved[s].applied]
      /\ UNCHANGED <<commands, logged, fileVars, clientVars>>
  <2>1. saved[s] = [applied |-> saved[s].applied, inboxes |-> saved[s].inboxes,
                    pending_delete |-> saved[s].pending_delete,
                    pending_read |-> saved[s].pending_read]
    BY <1>1 DEF State
  <2>. QED
    BY <1>1, <2>1 DEF Restart, StateOf, StatesTyped
<1>3. StatesTyped'
  BY <1>1 DEF Restart, StatesTyped, State
<1>4. LogsCover'
  BY <1>1, <1>2 DEF LogsCover, StatesTyped, fileVars
<1>5. TypeOK'
  BY <1>1, <1>2, <1>3 DEF TypeOK, StatesTyped, fileVars, clientVars
<1>6. \A t \in Server : Sound(commands, StateOf(t)') /\ Sound(commands, saved[t])
  BY <1>1, <1>2
<1>. QED
  BY <1>2, <1>4, <1>5, <1>6 DEF MailboxInv, fileVars, clientVars

(* A collection saves the state that the server runs with.                 *)
LEMMA CollectGarbageInv ==
  ASSUME MailboxInv, NEW s \in Server, CollectGarbage(s)
  PROVE  MailboxInv'
<1>1. /\ TypeOK /\ StatesTyped /\ LogsCover /\ saved \in [Server -> State]
      /\ \A t \in Server : Sound(commands, StateOf(t)) /\ Sound(commands, saved[t])
  BY TypeParts DEF MailboxInv, FilesTyped
<1>2. /\ UNCHANGED <<commands, logged, stateVars, clientVars>>
      /\ saves < MaxSaves /\ saves' = saves + 1
      /\ saved' = [saved EXCEPT ![s] = StateOf(s)]
  BY DEF CollectGarbage, WriteInboxState, StateOf, stateVars
<1>3. StateOf(s) \in State /\ StateOf(s).applied = applied[s]
  BY <1>1, StateOfTyped
<1>4. saved' \in [Server -> State] /\ saves' \in 0 .. MaxSaves
  BY <1>1, <1>2, <1>3, MailboxAssumption DEF TypeOK
<1>5. \A t \in Server : saved'[t] = saved[t] \/ (saved'[t] = StateOf(s) /\ t = s)
  BY <1>1, <1>2
<1>6. LogsCover'
  BY <1>1, <1>2, <1>3, <1>5 DEF LogsCover, stateVars
<1>7. TypeOK'
  BY <1>1, <1>2, <1>4 DEF TypeOK, stateVars, clientVars
<1>8. \A t \in Server : Sound(commands, StateOf(t)) /\ Sound(commands, saved'[t])
  BY <1>1, <1>5
<1>9. \A t \in Server : StateOf(t)' = StateOf(t)
  BY <1>2 DEF StateOf, stateVars
<1>. QED
  BY <1>2, <1>6, <1>7, <1>8, <1>9 DEF MailboxInv, stateVars, clientVars

(* Clients change nothing but themselves, and list mails that were sent.   *)
LEMMA ClientInv ==
  ASSUME MailboxInv,
         UNCHANGED <<commands, logged, stateVars, fileVars>>,
         username' \in [Client -> User], connected' \in [Client -> Server],
         inbox' \in [Client -> SUBSET Id],
         \A c \in Client : \A id \in inbox'[c] : HasMail(commands, id)
  PROVE  MailboxInv'
<1>1. TypeOK'
  BY DEF MailboxInv, TypeOK, stateVars, fileVars
<1>2. LogsCover'
  BY DEF MailboxInv, LogsCover, stateVars, fileVars
<1>3. \A t \in Server : StateOf(t)' = StateOf(t)
  BY DEF StateOf, stateVars
<1>. QED
  BY <1>1, <1>2, <1>3 DEF MailboxInv, fileVars

-----------------------------------------------------------------------------
(* Every step keeps the invariant.                                         *)
LEMMA MailboxNext ==
  MailboxInv /\ [Next]_vars => MailboxInv'
<1>. SUFFICES ASSUME MailboxInv, [Next]_vars
              PROVE  MailboxInv'
  OBVIOUS
<1>1. /\ TypeOK /\ LogsCover
      /\ username \in [Client -> User] /\ connected \in [Client -> Server]
      /\ inbox \in [Client -> SUBSET Id]
      /\ \A c \in Client : \A id \in inbox[c] : HasMail(commands, id)
      /\ \A s \in Server : inboxes[s] \in [User -> SUBSET Mail]
      /\ \A s \in Server : Sound(commands, StateOf(s))
      /\ logged \in [Server -> Counts]
      /\ \A s, o \in Server : logged[s][o] \in Nat /\ applied[s][o] \in Nat
  BY DEF MailboxInv, TypeOK, Counts
<1>2. ASSUME NEW s \in Server, ProcessNewEmail(s)
      PROVE  MailboxInv'
  <2>1. PICK u \in User, date \in Dates :
          Issue(s, [type |-> "MAIL", to |-> u, date_sent |-> date])
    BY <1>2 DEF ProcessNewEmail
  <2>. DEFINE command == [type |-> "MAIL", to |-> u, date_sent |-> date]
  <2>2. command \in Command /\ command.type = "MAIL"
    BY DEF Command
  <2>. HIDE DEF command
  <2>. QED
    BY <2>1, <2>2, IssueInv DEF command
<1>3. ASSUME NEW s \in Server, ProcessReadCommand(s)
      PROVE  MailboxInv'
  <2>0. PICK c \in Client : \E id \in inbox[c] :
          Issue(s, [type |-> "READ", username |-> username[c], id |-> id])
    BY <1>3 DEF ProcessReadCommand
  <2>1. PICK id \in inbox[c] :
          Issue(s, [type |-> "READ", username |-> username[c], id |-> id])
    BY <2>0
  <2>. DEFINE command == [type |-> "READ", username |-> username[c], id |-> id]
  <2>2. command \in Command /\ HasMail(commands, command.id)
    BY <1>1, <2>1 DEF Command
  <2>. QED
    BY <2>1, <2>2, IssueInv
<1>4. ASSUME NEW s \in Server, ProcessDeleteCommand(s)
      PROVE  MailboxInv'
  <2>0. PICK c \in Client : \E id \in inbox[c] \cup Strays :
          Issue(s, [type |-> "DELETE", username |-> username[c], id |-> id])
    BY <1>4 DEF ProcessDeleteCommand
  <2>1. PICK id \in inbox[c] \cup Strays :
          Issue(s, [type |-> "DELETE", username |-> username[c], id |-> id])
    BY <2>0
  <2>. DEFINE command == [type |-> "DELETE", username |-> username[c], id |-> id]
  <2>2. command \in Command /\ command.type # "READ"
    BY <1>1, <2>1, MailboxAssumption DEF Command
  <2>. QED
    BY <2>1, <2>2, IssueInv
<1>5. ASSUME NEW s \in Server, NEW o \in Server, ProcessCommandMessage(s, o)
      PROVE  MailboxInv'
  <2>1. /\ applied[s] = logged[s] /\ s # o /\ logged[s][o] < logged[o][o]
        /\ logged' = [logged EXCEPT ![s][o] = @ + 1]
        /\ ApplyCommandToState(s, o, commands[o][applied[s][o] + 1])
        /\ UNCHANGED <<commands, clientVars>>
    BY <1>5 DEF ProcessCommandMessage, Up, D!Apply
  <2>2. \A t, p \in Server :
          logged'[t][p] = IF t = s /\ p = o THEN logged[s][o] + 1 ELSE logged[t][p]
    BY <1>1, <2>1 DEF Counts
  <2>3. logged' \in [Server -> Counts]
    BY <1>1, <2>1 DEF Counts
  <2>4. \A p \in Server : logged'[p][p] = logged[p][p]
    BY <2>1, <2>2
  <2>5. ASSUME NEW t \in Server, NEW p \in Server
        PROVE  logged[t][p] <= logged'[t][p] /\ logged'[t][p] <= logged'[p][p]
    BY <1>1, <2>1, <2>2, <2>4 DEF LogsCover
  <2>6. applied[s][o] < logged'[s][o] /\ applied[s][o] < Len(commands[o])
    BY <1>1, <2>1, <2>2 DEF LogsCover
  <2>. QED
    BY <2>1, <2>3, <2>4, <2>5, <2>6, NextCommandInv
<1>6. ASSUME NEW s \in Server, ReplayLogRecord(s)
      PROVE  MailboxInv'
  <2>. DEFINE behind == {p \in Server : applied[s][p] < logged[s][p]}
              o == Min(behind)
  <2>1. behind \in SUBSET Nat /\ behind # {}
    BY <1>6, MailboxAssumption DEF ReplayLogRecord, Server
  <2>2. o \in behind
    BY <2>1, MinProperty
  <2>3. /\ ApplyCommandToState(s, o, commands[o][applied[s][o] + 1])
        /\ UNCHANGED <<commands, logged, clientVars>>
    BY <1>6 DEF ReplayLogRecord
  <2>4. o \in Server /\ applied[s][o] < logged[s][o]
    BY <2>2
  <2>. HIDE DEF o
  <2>5. \A t, p \in Server : logged[t][p] <= logged'[t][p] /\ logged'[t][p] <= logged'[p][p]
    BY <1>1, <2>3 DEF LogsCover
  <2>6. applied[s][o] < logged'[s][o] /\ applied[s][o] < Len(commands[o])
    BY <1>1, <2>3, <2>4 DEF LogsCover
  <2>. QED
    BY <1>1, <2>3, <2>4, <2>5, <2>6, NextCommandInv
<1>7. ASSUME NEW c \in Client, GetInbox(c)
      PROVE  MailboxInv'
  <2>. DEFINE s == connected[c]
              listed == SendInboxToClient(s, username[c])
  <2>1. s \in Server /\ username[c] \in User
    BY <1>1
  <2>2. \A id \in listed : id \in Id /\ HasMail(commands, id)
    <3>1. /\ StateOf(s).inboxes = inboxes[s] /\ inboxes[s][username[c]] \in SUBSET Mail
      BY <1>1, <2>1 DEF StateOf
    <3>2. \A m \in inboxes[s][username[c]] : m.id \in Id /\ HasMail(commands, m.id)
      BY <1>1, <2>1, <3>1 DEF Sound, Mail
    <3>. QED
      BY <3>2 DEF SendInboxToClient
  <2>3. /\ inbox' = [inbox EXCEPT ![c] = listed]
        /\ UNCHANGED <<commands, logged, stateVars, fileVars, username, connected>>
    BY <1>7 DEF GetInbox
  <2>. HIDE DEF listed, s
  <2>4. inbox' \in [Client -> SUBSET Id]
    BY <1>1, <2>2, <2>3
  <2>5. \A d \in Client : \A id \in inbox'[d] : HasMail(commands, id)
    BY <1>1, <2>2, <2>3
  <2>. QED
    BY <1>1, <2>3, <2>4, <2>5, ClientInv
<1>8. ASSUME NEW c \in Client, NEW s \in Server, ConnectToServer(c, s)
      PROVE  MailboxInv'
  <2>1. inbox' \in [Client -> SUBSET Id] /\ connected' \in [Client -> Server]
    BY <1>1, <1>8 DEF ConnectToServer
  <2>2. \A d \in Client : \A id \in inbox'[d] : HasMail(commands, id)
    BY <1>1, <1>8 DEF ConnectToServer
  <2>. QED
    BY <1>1, <1>8, <2>1, <2>2, ClientInv DEF ConnectToServer
<1>9. ASSUME NEW c \in Client, NEW u \in User, LogIn(c, u)
      PROVE  MailboxInv'
  BY <1>1, <1>9, ClientInv DEF LogIn
<1>10. ASSUME UNCHANGED vars
       PROVE  MailboxInv'
  BY <1>1, <1>10, ClientInv DEF vars, clientVars
<1>. QED
  BY <1>2, <1>3, <1>4, <1>5, <1>6, <1>7, <1>8, <1>9, <1>10, CollectGarbageInv, RestartInv
     DEF Next

(* At first everything is empty.                                           *)
LEMMA MailboxInit ==
  Init => MailboxInv
<1>. SUFFICES ASSUME Init
              PROVE  MailboxInv
  OBVIOUS
<1>1. NoCommands \in Counts /\ (\A o \in Server : NoCommands[o] = 0)
  BY DEF NoCommands, Counts
<1>2. TypeOK
  BY <1>1, MailboxAssumption DEF Init, TypeOK, State
<1>3. commands \in CommandTable /\ \A o \in Server : commands[o] = <<>>
  BY <1>2 DEF Init, TypeOK, CommandTable
<1>4. \A s \in Server : Sound(commands, StateOf(s)) /\ Sound(commands, saved[s])
  <2>1. \A s \in Server : StateOf(s) \in State /\ saved[s] \in State
    BY <1>2, TypeParts, StateOfTyped DEF FilesTyped
  <2>. QED
    BY <1>3, <2>1, EmptySound DEF Init, StateOf
<1>5. LogsCover
  BY <1>1, <1>3 DEF Init, LogsCover
<1>6. MailNamed(commands)
  BY <1>3 DEF MailNamed
<1>7. \A c \in Client : \A id \in inbox[c] : HasMail(commands, id)
  BY DEF Init
<1>. QED
  BY <1>2, <1>4, <1>5, <1>6, <1>7 DEF MailboxInv

-----------------------------------------------------------------------------
(* What every server runs with, and what it would restart with, is Sound:  *)
(* it counts commands there are, holds only mails that came, awaits what   *)
(* the commands it counts say and, without ties and mix-ups of users, has  *)
(* the inboxes they call for (apply_command_to_state, read_log_files).     *)
THEOREM MailboxInvariant == Spec => []MailboxInv
<1>. QED
  BY MailboxInit, MailboxNext, PTL DEF Spec

(* The types of the commands, states, files and clients.                   *)
THEOREM MailboxTypes == Spec => []TypeOK
<1>1. MailboxInv => TypeOK
  BY DEF MailboxInv
<1>. QED
  BY <1>1, MailboxInvariant, PTL

(* An inbox is what the set of applied commands says, whatever their order *)
(* and however often the server crashed and replayed its logs, as long as  *)
(* mails differ in their second and no read or delete names another user's *)
(* mail (apply_mail_message, apply_read_message, apply_delete_message).    *)
THEOREM InboxesFollowCommands == Spec => []InboxesMatchCommands
<1>1. MailboxInv => InboxesMatchCommands
  BY DEF MailboxInv, InboxesMatchCommands, Sound
<1>. QED
  BY <1>1, MailboxInvariant, PTL

(* A server remembers the reads and deletes of what has not come, even of  *)
(* what nobody ever sends, and makes none up, whatever the seconds and     *)
(* users (apply_read_message, apply_delete_message, apply_mail_message).   *)
THEOREM PendingFollowsCommands == Spec => []PendingMatchesCommands
<1>1. MailboxInv => PendingMatchesCommands
  BY DEF MailboxInv, PendingMatchesCommands, Sound
<1>. QED
  BY <1>1, MailboxInvariant, PTL

(* A read mark is kept pending only for a mail still to come, or for one   *)
(* that some command deletes.                                              *)
THEOREM PendingReadsWait == Spec => []PendingAwaitsMail
<1>1. MailboxInv => PendingAwaitsMail
  BY DEF MailboxInv, PendingAwaitsMail, Sound
<1>. QED
  BY <1>1, MailboxInvariant, PTL
=============================================================================
