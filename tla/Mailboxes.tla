------------------------------ MODULE Mailboxes ------------------------------
(***************************************************************************)
(* What the commands do: the inboxes of the users on every server, built   *)
(* by apply_mail_message(), apply_read_message() and                       *)
(* apply_delete_message() from commands that reach each server in another  *)
(* order, saved and replayed after a crash.                                *)
(*                                                                         *)
(* How commands travel is left to module Delivery, which Replication       *)
(* implements: each origin's commands come in order, those of different    *)
(* origins in any order.  A mail is its identifier, its second and its     *)
(* read mark; addresses, subjects and texts do not matter here.            *)
(***************************************************************************)
EXTENDS Naturals, Sequences, FiniteSetsExt

CONSTANTS
  N_MACHINES,    \* the number of mail servers (messages.h)
  User,          \* the user names
  Client,        \* the client programs
  Dates,         \* the seconds in which mail is sent
  MaxCommands,   \* bound on the commands of all clients
  MaxSaves,      \* bound on the writes of inbox state files
  Strays,        \* what a delete of a row that is not there may name
  DatesDiffer,   \* TRUE: no two mails are sent in the same second
  UsersStay      \* TRUE: a client program keeps the user it started with

Server == 0 .. N_MACHINES - 1

Id == [origin : Server, index : Nat \ {0}]

ASSUME MailboxAssumption ==
  /\ N_MACHINES \in Nat \ {0}
  /\ Strays \subseteq Id
  /\ MaxCommands \in Nat
  /\ MaxSaves \in Nat
  /\ DatesDiffer \in BOOLEAN
  /\ UsersStay \in BOOLEAN

VARIABLES
  commands,        \* [o]: the commands of o, as every log has them
  logged,          \* [s][o]: how many of them s has logged
  applied,         \* [s][o]: how many of them are in the state of s
  inboxes,         \* [s][u]: the mails of user u on s
  pending_delete,  \* [s]: mails to drop when they come
  pending_read,    \* [s]: mails to mark as read when they come
  saved,           \* [s]: the inbox state file
  saves,           \* how many were written, a bound
  username,        \* [c]: the user logged in
  connected,       \* [c]: the server the client talks to
  inbox            \* [c]: the mails of the last listing it gave

stateVars == <<applied, inboxes, pending_delete, pending_read>>
fileVars == <<saved, saves>>
clientVars == <<username, connected, inbox>>
vars == <<commands, logged, stateVars, fileVars, clientVars>>

D == INSTANCE Delivery WITH applied <- logged

Mail == [id : Id, date_sent : Dates, read : BOOLEAN]

Command == [type : {"MAIL"}, to : User, date_sent : Dates]
             \cup [type : {"READ", "DELETE"}, username : User, id : Id]

Counts == [Server -> Nat]

State == [applied : Counts, inboxes : [User -> SUBSET Mail],
          pending_delete : SUBSET Id, pending_read : SUBSET Id]

TypeOK ==
  /\ commands \in [Server -> Seq(Command)]
  /\ logged \in [Server -> Counts]
  /\ applied \in [Server -> Counts]
  /\ inboxes \in [Server -> [User -> SUBSET Mail]]
  /\ pending_delete \in [Server -> SUBSET Id]
  /\ pending_read \in [Server -> SUBSET Id]
  /\ saved \in [Server -> State]
  /\ saves \in 0 .. MaxSaves
  /\ username \in [Client -> User]
  /\ connected \in [Client -> Server]
  /\ inbox \in [Client -> SUBSET Id]

-----------------------------------------------------------------------------
NoCommands == [o \in Server |-> 0]

Init ==
  /\ commands = [o \in Server |-> <<>>]
  /\ logged = [s \in Server |-> NoCommands]
  /\ applied = [s \in Server |-> NoCommands]
  /\ inboxes = [s \in Server |-> [u \in User |-> {}]]
  /\ pending_delete = [s \in Server |-> {}]
  /\ pending_read = [s \in Server |-> {}]
  /\ saved = [s \in Server |->
               [applied |-> NoCommands, inboxes |-> [u \in User |-> {}],
                pending_delete |-> {}, pending_read |-> {}]]
  /\ saves = 0
  /\ username \in [Client -> User]
  /\ connected \in [Client -> Server]
  /\ inbox = [c \in Client |-> {}]

\* A defect the runs must notice: identifiers count from 0.
IdFromZero(o, i) == [origin |-> o, index |-> i - 1]

IdOf(o, i) == [origin |-> o, index |-> i]

(* find_mail_by_id(): at most one mail.                                    *)
FindMail(s, u, id) == {m \in inboxes[s][u] : m.id = id}

(* multiset::erase of a value: all the mails its operator< calls equal,    *)
(* which compares their seconds.                                           *)
Erase(mails, m) == {x \in mails : x.date_sent # m.date_sent}

\* A defect the runs must notice: a mail deleted before it came is kept.
ApplyMailRegardless(s, id, command) ==
  /\ inboxes' = [inboxes EXCEPT ![s][command.to] = @ \cup
                  {[id |-> id, date_sent |-> command.date_sent,
                    read |-> id \in pending_read[s]]}]
  /\ pending_read' = [pending_read EXCEPT ![s] = @ \ {id}]
  /\ UNCHANGED pending_delete

\* A defect the runs must notice: the mark of a mail that came is kept.
ApplyMailKeepsMark(s, id, command) ==
  /\ inboxes' = [inboxes EXCEPT ![s][command.to] = @ \cup
                  (IF id \in pending_delete[s] THEN {}
                   ELSE {[id |-> id, date_sent |-> command.date_sent,
                          read |-> id \in pending_read[s]]})]
  /\ pending_delete' = [pending_delete EXCEPT ![s] = @ \ {id}]
  /\ UNCHANGED pending_read

ApplyMail(s, id, command) ==
  \/ /\ id \in pending_delete[s]
     /\ pending_delete' = [pending_delete EXCEPT ![s] = @ \ {id}]
     /\ UNCHANGED <<inboxes, pending_read>>
  \/ /\ id \notin pending_delete[s]
     /\ inboxes' = [inboxes EXCEPT ![s][command.to] = @ \cup
                     {[id |-> id, date_sent |-> command.date_sent,
                       read |-> id \in pending_read[s]]}]
     /\ pending_read' = [pending_read EXCEPT ![s] = @ \ {id}]
     /\ UNCHANGED pending_delete

\* A defect the runs must notice: a mail read before it came stays unread.
ApplyReadIfThere(s, command) ==
  LET found == FindMail(s, command.username, command.id) IN
  /\ inboxes' = [inboxes EXCEPT ![s][command.username] =
                  IF found = {} THEN @
                  ELSE LET m == CHOOSE m \in found : TRUE
                       IN  Erase(@, m) \cup {[m EXCEPT !.read = TRUE]}]
  /\ UNCHANGED <<pending_delete, pending_read>>

ApplyRead(s, command) ==
  LET found == FindMail(s, command.username, command.id) IN
  \/ /\ \E m \in found :
          inboxes' = [inboxes EXCEPT ![s][command.username] =
                       Erase(@, m) \cup {[m EXCEPT !.read = TRUE]}]
     /\ UNCHANGED <<pending_delete, pending_read>>
  \/ /\ found = {}
     /\ pending_read' = [pending_read EXCEPT ![s] = @ \cup {command.id}]
     /\ UNCHANGED <<inboxes, pending_delete>>

ApplyDelete(s, command) ==
  LET found == FindMail(s, command.username, command.id) IN
  \/ /\ \E m \in found :
          inboxes' = [inboxes EXCEPT ![s][command.username] = Erase(@, m)]
     /\ UNCHANGED <<pending_delete, pending_read>>
  \/ /\ found = {}
     /\ pending_delete' = [pending_delete EXCEPT ![s] = @ \cup {command.id}]
     /\ UNCHANGED <<inboxes, pending_read>>

\* A defect the runs must notice: the pending sets are not saved.
WriteWithoutPending(s) ==
  /\ saves < MaxSaves
  /\ saves' = saves + 1
  /\ saved' = [saved EXCEPT ![s] =
                [applied |-> applied'[s], inboxes |-> inboxes'[s],
                 pending_delete |-> {}, pending_read |-> {}]]

(* write_inbox_state(): the JSON file keeps all that the module models, so *)
(* that rereading it gives the same state.                                 *)
WriteInboxState(s) ==
  /\ saves < MaxSaves
  /\ saves' = saves + 1
  /\ saved' = [saved EXCEPT ![s] =
                [applied |-> applied'[s], inboxes |-> inboxes'[s],
                 pending_delete |-> pending_delete'[s],
                 pending_read |-> pending_read'[s]]]

(* apply_command_to_state(), for the next command of o.  Whether it saves  *)
(* the state depends on counters that module Replication has.              *)
ApplyCommandToState(s, o, command) ==
  LET id == IdOf(o, applied[s][o] + 1) IN
  /\ applied' = [applied EXCEPT ![s][o] = @ + 1]
  /\ \/ command.type = "MAIL" /\ ApplyMail(s, id, command)
     \/ command.type = "READ" /\ ApplyRead(s, command)
     \/ command.type = "DELETE" /\ ApplyDelete(s, command)
  /\ UNCHANGED fileVars \/ WriteInboxState(s)

-----------------------------------------------------------------------------
(* s has replayed its log.                                                 *)
Up(s) == applied[s] = logged[s]

CommandCount ==
  Cardinality(UNION {{IdOf(o, i) : i \in DOMAIN commands[o]} : o \in Server})

(* A request of a client becomes a command of the server it talks to.      *)
Issue(s, command) ==
  /\ Up(s)
  /\ CommandCount < MaxCommands
  /\ commands' = [commands EXCEPT ![s] = Append(@, command)]
  /\ D!Issue(s)
  /\ ApplyCommandToState(s, s, command)
  /\ UNCHANGED clientVars

SentAt(date) ==
  \E o \in Server : \E i \in 1 .. Len(commands[o]) :
    commands[o][i].type = "MAIL" /\ commands[o][i].date_sent = date

ProcessNewEmail(s) ==
  \E u \in User, date \in Dates :
    /\ DatesDiffer => ~ SentAt(date)
    /\ Issue(s, [type |-> "MAIL", to |-> u, date_sent |-> date])

(* read_email() names a mail of the client's listing, and the user who is  *)
(* logged in now.  The reply is left out.                                  *)
ProcessReadCommand(s) ==
  \E c \in Client : \E id \in inbox[c] :
    /\ connected[c] = s
    /\ Issue(s, [type |-> "READ", username |-> username[c], id |-> id])

(* delete_email() does not check the row: find_id_using_index() returns    *)
(* nothing for one that is not there, so that any identifier may be sent.  *)
ProcessDeleteCommand(s) ==
  \E c \in Client : \E id \in inbox[c] \cup Strays :
    /\ connected[c] = s
    /\ Issue(s, [type |-> "DELETE", username |-> username[c], id |-> id])

(* A command of another server arrives and is the next one.                *)
ProcessCommandMessage(s, o) ==
  /\ Up(s)
  /\ D!Apply(s, o)
  /\ ApplyCommandToState(s, o, commands[o][logged[s][o] + 1])
  /\ UNCHANGED <<commands, clientVars>>

(* collect_garbage() saves the state when it frees a log file.             *)
CollectGarbage(s) ==
  /\ Up(s)
  /\ UNCHANGED <<commands, logged, stateVars, clientVars>>
  /\ WriteInboxState(s)

(* A crash and read_inbox_state() at the next start.                       *)
Restart(s) ==
  /\ applied' = [applied EXCEPT ![s] = saved[s].applied]
  /\ inboxes' = [inboxes EXCEPT ![s] = saved[s].inboxes]
  /\ pending_delete' = [pending_delete EXCEPT ![s] = saved[s].pending_delete]
  /\ pending_read' = [pending_read EXCEPT ![s] = saved[s].pending_read]
  /\ UNCHANGED <<commands, logged, fileVars, clientVars>>

(* read_log_files(): the next record that the state lacks, one origin      *)
(* after the other, whatever order the commands were first applied in.     *)
ReplayLogRecord(s) ==
  LET behind == {o \in Server : applied[s][o] < logged[s][o]}
      o == Min(behind)
  IN
  /\ behind # {}
  /\ ApplyCommandToState(s, o, commands[o][applied[s][o] + 1])
  /\ UNCHANGED <<commands, logged, clientVars>>

(* The client program.  connect_to_server() makes it list mail first       *)
(* (listed = false), here by forgetting the listing.                       *)
ConnectToServer(c, s) ==
  /\ connected' = [connected EXCEPT ![c] = s]
  /\ inbox' = [inbox EXCEPT ![c] = {}]
  /\ UNCHANGED <<commands, logged, stateVars, fileVars, username>>

(* send_inbox_to_client(): the identifiers of the mails it lists.          *)
SendInboxToClient(s, u) == {m.id : m \in inboxes[s][u]}

(* get_inbox() and its answer.                                             *)
GetInbox(c) ==
  /\ Up(connected[c])
  /\ inbox' = [inbox EXCEPT ![c] = SendInboxToClient(connected[c], username[c])]
  /\ UNCHANGED <<commands, logged, stateVars, fileVars, username, connected>>

(* log_in() leaves the listing and the connection as they are.             *)
LogIn(c, u) ==
  /\ ~ UsersStay
  /\ username' = [username EXCEPT ![c] = u]
  /\ UNCHANGED <<commands, logged, stateVars, fileVars, connected, inbox>>

Next ==
  \/ \E s \in Server :
       \/ ProcessNewEmail(s) \/ ProcessReadCommand(s) \/ ProcessDeleteCommand(s)
       \/ \E o \in Server : ProcessCommandMessage(s, o)
       \/ CollectGarbage(s) \/ Restart(s) \/ ReplayLogRecord(s)
  \/ \E c \in Client :
       \/ GetInbox(c)
       \/ \E s \in Server : ConnectToServer(c, s)
       \/ \E u \in User : LogIn(c, u)

Spec == Init /\ [][Next]_vars

-----------------------------------------------------------------------------
(* Properties.                                                             *)

(* What a state file or a running server holds: it is judged by the        *)
(* commands of all origins, cmds, whether s runs with it or has saved it.  *)
StateOf(s) ==
  [applied |-> applied[s], inboxes |-> inboxes[s],
   pending_delete |-> pending_delete[s], pending_read |-> pending_read[s]]

(* The identifier is that of a mail somebody sent.                         *)
HasMail(cmds, id) ==
  /\ id.index \in DOMAIN cmds[id.origin]
  /\ cmds[id.origin][id.index].type = "MAIL"

Arrived(st) == UNION {{IdOf(o, i) : i \in 1 .. st.applied[o]} : o \in Server}

(* A command of the given type about mail id is in the state.              *)
Marked(cmds, st, type, id) ==
  \E o \in Server : \E i \in 1 .. st.applied[o] :
    cmds[o][i].type = type /\ cmds[o][i].id = id

(* The mails to u that came and that no command in the state deletes, read *)
(* when one says so: "delete > read > message", with no order among the    *)
(* commands.                                                               *)
Kept(cmds, st, u) ==
  {id \in Arrived(st) : /\ cmds[id.origin][id.index].type = "MAIL"
                        /\ cmds[id.origin][id.index].to = u
                        /\ ~ Marked(cmds, st, "DELETE", id)}

Expected(cmds, st, u) ==
  {[id |-> id, date_sent |-> cmds[id.origin][id.index].date_sent,
    read |-> Marked(cmds, st, "READ", id)] : id \in Kept(cmds, st, u)}

(* No two mails are of one second.                                         *)
NoTies(cmds) ==
  \A o, p \in Server : \A i \in DOMAIN cmds[o], j \in DOMAIN cmds[p] :
    /\ cmds[o][i].type = "MAIL" /\ cmds[p][j].type = "MAIL"
    /\ cmds[o][i].date_sent = cmds[p][j].date_sent
    => o = p /\ i = j

(* Reads and deletes of a mail name the user the mail was sent to.         *)
OwnMail(cmds) ==
  \A o \in Server : \A i \in DOMAIN cmds[o] :
    LET c == cmds[o][i] IN
    c.type \in {"READ", "DELETE"} /\ HasMail(cmds, c.id) =>
      cmds[c.id.origin][c.id.index].to = c.username

InboxesMatch(cmds, st) == \A u \in User : st.inboxes[u] = Expected(cmds, st, u)

(* The identifiers that reads and deletes name.                            *)
Named(cmds) ==
  UNION {{cmds[o][i].id : i \in {j \in DOMAIN cmds[o] : cmds[o][j].type # "MAIL"}} :
           o \in Server}

(* What has not come, whether anybody sent it already or not, is pending   *)
(* just when a command in the state says so.                               *)
PendingMatch(cmds, st) ==
  \A id \in st.pending_delete \cup st.pending_read \cup Named(cmds) :
    id.index > st.applied[id.origin] =>
      /\ id \in st.pending_delete <=> Marked(cmds, st, "DELETE", id)
      /\ id \in st.pending_read <=> Marked(cmds, st, "READ", id)

PendingAwaits(cmds, st) ==
  \A id \in st.pending_read :
    id.index > st.applied[id.origin] \/ Marked(cmds, st, "DELETE", id)

(* In whatever order mails, reads and deletes of different servers came,   *)
(* and after any replay of a log on an older saved state, an inbox is what *)
(* the set of applied commands says: no mail lost, none resurrected, and   *)
(* no read mark lost; as long as mails differ in their second and no read  *)
(* or delete names another user's mail (apply_read_message,                *)
(* apply_delete_message, log_in).                                          *)
InboxesMatchCommands ==
  NoTies(commands) /\ OwnMail(commands) =>
    \A s \in Server : InboxesMatch(commands, StateOf(s))

(* A server remembers the reads and deletes of what it waits for, also     *)
(* across a restart, and makes none up (apply_mail_message,                *)
(* read_inbox_state).                                                      *)
PendingMatchesCommands == \A s \in Server : PendingMatch(commands, StateOf(s))

(* A read mark is kept pending only for a mail still to come, or for one   *)
(* that some command deletes, where it stays (apply_mail_message,          *)
(* apply_read_message).                                                    *)
PendingAwaitsMail ==
  NoTies(commands) /\ OwnMail(commands) =>
    \A s \in Server : PendingAwaits(commands, StateOf(s))

-----------------------------------------------------------------------------
(* The inductive invariant behind them (proved in MailboxProofs).          *)

(* Reads are about mails that were sent (read_email checks the row).       *)
MailNamed(cmds) ==
  \A o \in Server : \A i \in DOMAIN cmds[o] :
    cmds[o][i].type = "READ" => HasMail(cmds, cmds[o][i].id)

(* A state counts commands there are; its inboxes hold mails that came; it *)
(* waits to read mails only, and for what the commands it counts say; and  *)
(* without ties and mix-ups of users its inboxes are what they call for.   *)
Sound(cmds, st) ==
  /\ \A o \in Server : st.applied[o] <= Len(cmds[o])
  /\ \A u \in User : \A m \in st.inboxes[u] :
       m.id \in Arrived(st) /\ HasMail(cmds, m.id)
  /\ \A id \in st.pending_read : HasMail(cmds, id)
  /\ PendingMatch(cmds, st)
  /\ NoTies(cmds) /\ OwnMail(cmds) => InboxesMatch(cmds, st) /\ PendingAwaits(cmds, st)

(* Neither a state nor its file is ahead of the log, nor the log of the    *)
(* commands there are.                                                     *)
LogsCover ==
  \A s, o \in Server :
    /\ applied[s][o] <= logged[s][o]
    /\ saved[s].applied[o] <= logged[s][o]
    /\ logged[s][o] <= logged[o][o]
    /\ logged[o][o] = Len(commands[o])

(* What every server runs with and what it would restart with are both     *)
(* sound, so that a crash at any point and a replay in another order keep  *)
(* the promises above (read_inbox_state, read_log_files).                  *)
MailboxInv ==
  /\ TypeOK
  /\ LogsCover
  /\ MailNamed(commands)
  /\ \A c \in Client : \A id \in inbox[c] : HasMail(commands, id)
  /\ \A s \in Server : Sound(commands, StateOf(s)) /\ Sound(commands, saved[s])
=============================================================================
