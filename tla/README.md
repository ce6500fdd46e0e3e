# Verification of the replicated mail service

This directory specifies the mail service of this repository in TLA+. Five mail
servers keep the mailboxes of all users, replicated over the Spread group
communication toolkit; a client program talks to one server at a time. Servers
crash and restart, the network splits and heals, and the servers reconcile what
they did apart.

The modules model the code of `src/`, not the design document. Where the two
differ, TLC shows it (see *Disagreements*).

## 1. Inventory

### Components

| component | code | state | operations |
|---|---|---|---|
| replication | `server_main.cpp` 266-333, 335-367, 443-448 | `state.knowledge`, `state.applied_to_state`, `command_queue`, `updates_since_serialize` | accept a client's command, apply a peer's, broadcast |
| synchronization | 224-241, 544-689, 752-860 | `synch_members`, `received`, `n_received`, `synch_queue`, `need_to_send`, `start_index` | exchange summaries, wait, choose who resends, resend, apply what was stashed |
| garbage collection | 691-740 | `state.safe_delivered`, `current_block`, `changes_since_garbage_collection` | trim the queues, remove log files, save |
| files and recovery | 921-1192 | `inbox_state_<id>.json`, `log_state_<id>.json`, `log_<id>_<origin>_<block>` | save, append a record, load, replay |
| mailboxes | 369-441, 908-919 | `state.inboxes`, `pending_delete`, `pending_read` | apply mail, read, delete |
| requests | 162-222, 450-534, 607-629 | `mess`, `synch_queue` | dispatch, refuse, stash, list an inbox, send a mail, list the component, acknowledge |
| connections | 224-249, 536-542; `client_main.cpp` 252-283, 358-416 | `client_connections`; `connected`, `session_id`, `connection_group` | connect, accept, end, disconnect |
| client | `client_main.cpp` | `username`, `inbox`, `listed`, `blocking`, `printInbox`, a timer | log in, send, list, read, delete, show component, time out, quit |
| JSON | 978-994, 1069-1192; `utils.hpp` | the trees of the two state files | state to tree, tree to state |
| Spread | `include/` (vendored) | groups, views, messages in transit | agreed multicast, membership messages |

A server is one thread: `main` reads one message and handles it to the end.
The exception is a membership change of `all_servers_group`: `synchronize()`
takes over and reads messages itself in `wait_for_everyone()`, where it treats
some at once (KNOWLEDGE, listings), stashes others (COMMAND, and MAIL, READ,
DELETE of clients) and starts over at the next membership change.

A *command* is a mail, a read or a delete that some server accepted. Its
identifier is the server's number and an index that counts that server's
commands from 1. `knowledge[t][o]` is how many commands of `o` the server
believes `t` to have applied. Servers talk by COMMAND and KNOWLEDGE multicasts.

### What is hard

* An answer of an earlier view counts in a later one (`mark_knowledge_as_received`
  compares the sender with the group, not the view), and each server decides on
  its own whether it is the one to resend.
* A command that is not the next of its origin is dropped for good (line 325);
  nothing asks for it again.
* Commands are accepted, and numbered, while another synchronization runs.
* A crash may come between any two steps; the state file is older than the log,
  and a replay saves again in its middle.
* Garbage collection removes log files on the strength of second-hand knowledge.
* Commands of different origins reach a server in any order: a read or delete
  may come before its mail.
* Client and server learn of each other only by the member count of a group that
  both join. Messages of several sessions, servers and replicas reach one client,
  and nothing in an answer says which request it is for.
* A user can type at any time: while the program waits for an answer, for a
  connection, or for a timer that nobody cancelled.
* The files are written by several system calls, and read by a loop that does
  not ask how much it got.

### What makes each component correct

* replication: the commands of an origin are applied in order, each once, by
  everybody; servers that stay together end up equal.
* synchronization: it ends; a partition that has come to rest agrees.
* garbage collection: whatever some server lacks is still held, in memory and on
  disk, by every server that has it.
* recovery: a restarted server has in its state all it ever logged.
* mailboxes: an inbox depends on the set of applied commands and not their order.
* connections: at rest both ends agree whether there is a session; a session
  whose client or server is gone is given up.
* client: what the user asked for is displayed, whole, before the wait ends; what
  the user picks is what is acted on; waits end.
* files: whatever order of writes a death interrupts, the next start ends with
  each logged command applied once; what is written is what is read.

`PROJECT.json` lists the hazards line by line, with the properties that cover
them.

## 2. Modules

| module | what it is |
|---|---|
| `Delivery` | the promise: each origin's commands are applied in order, each once, by every server, none forgotten |
| `SpreadGroup` | the group of the servers as Spread provides it (external) |
| `Replication` | replication, synchronization, garbage collection, crash and recovery; EXTENDS `SpreadGroup` and refines `Delivery` |
| `ReplicationProofs` | TLAPS: types, the inductive invariant and what it implies; state files never regress; the queues are exact, and so cover who lags behind |
| `DeliveryProofs` | TLAPS: `Replication` implements `Delivery` |
| `Mailboxes` | what commands do to the inboxes, with `Delivery` as the transport |
| `MailboxProofs` | TLAPS: the inductive invariant of `Mailboxes` and all the run's invariants |
| `Minimum` | TLAPS: the least element of a set of naturals |
| `ServerNames` | the names of the component, EXTENDS `Replication` by the array they are read from |
| `NamesProofs` | TLAPS: the inductive invariant of `ServerNames` and `FrontIsListed` |
| `SessionGroups` | the groups of clients and single servers as Spread provides them (external) |
| `ClientSession` | clients, servers and their sessions, requests, answers and timers; EXTENDS `SessionGroups` |
| `SessionProofs` | TLAPS: the inductive invariant of `ClientSession` and all the runs' safety properties |
| `InboxListing` | listings cut into messages and put together again, and the rows a read or delete names |
| `ListingProofs` | TLAPS: the inductive invariant of `InboxListing` and its two action properties |
| `StateJson` | the state as trees of texts and back: operators only |
| `StateFiles` | the log and the state files, operation by operation, with deaths in between; EXTENDS `StateJson` |
| `StateFilesProofs` | TLAPS: the inductive invariant of `StateFiles` and what it says of a server at rest; states come back from their trees |
| `MCReplication`, `MCMailboxes`, `MCServerNames`, `MCClientSession`, `MCInboxListing`, `MCStateFiles` | values of the constants for TLC, and promises the code breaks (see *Disagreements*) |

### SpreadGroup

Spread gives Extended Virtual Synchrony. `component` is the partition of the
network a server is in, `view` the last membership installed for it, `mailbox`
what it will receive, `outbox` what it has multicast and the group has not
ordered yet. `Deliver` orders one message for all servers that share the
sender's view and partition; a message not ordered before a change is ordered in
the sender's next view. `InstallView` puts the membership message in the same
place for all its members. Two assumptions keep the model within what Spread
does: two partitions merge only once the group has announced the previous
changes in both (`Merge`), and a restarted process joins after its departure was
announced (`Replication!Restart`).

### Replication

The variables carry the names of the C++ globals, indexed by server. Some
notes on the correspondence:

* `phase` is where the thread of a server is: `main` (the loop of `main`),
  `waiting` (in `wait_for_everyone`), `finishing` (after it, until
  `apply_queued_updates` has emptied the stash), `loading` (`read_log_files`),
  `down`.
* `received[]` and `servers_present[]` change together everywhere and are one
  set; `n_received` is its cardinality.
* A command is its identifier; the log file of an origin is the set of indices
  it holds, because records are appended and whole blocks are removed.
* A handler that runs from one `read_message` to the next is one action, with
  the saving, broadcasting and collecting it causes. `synchronize()` is split
  where other processes can be told apart: the wait, one step per origin resent,
  one step per command taken from the stash.
* `ReplayLogRecord` applies one record with the save it may cause: the process
  does not die inside that step here. `StateFiles` has the deaths inside it.
* `CollectGarbage` is the loop over the origins in closed form. `write_state`
  runs inside that loop, so that `log_state` may hold the new safe index of
  some origins and the old one of others: the last origin with a block change
  tells which.
* `read_log_files` runs before `SP_connect`: the multicasts it attempts go
  nowhere and are left out.
* `logged` is a history variable, the number of records ever written. It says
  what the files cannot say once blocks are gone.
* `Init` is a group that has been started without files and has synchronized;
  its members differ in how many knowledge changes they have counted.
  `MaxCommands`, `MaxNetChanges` and `MaxCrashes` bound a run. `ClientsWait` is
  an assumption on the environment, not on the code: clients are silent until
  the servers of a partition have synchronized.

### Mailboxes

`commands[o]` is the one sequence of commands of origin `o`; `logged[s][o]`
says how many of them server `s` has and changes only by the actions of
`Delivery`. `applied[s]` differs from it after a crash: `Restart` goes back to
the saved state and `ReplayLogRecord` applies the log origin by origin, an order
that may differ from the first one. `ApplyMail`, `ApplyRead` and `ApplyDelete`
are the three functions of the code, each a disjunction over its `if`. `Erase`
is `multiset::erase` of a value, i.e. of all mails that the element order, the
second they were sent in, does not tell apart. A save may happen with any
command and at any collection; which ones save is decided in `Replication`.
Clients keep a listing of identifiers and the name of the user: those two are
what a READ or DELETE carries. `read_email` checks that the row is there;
`delete_email` does not, and may send any identifier. `Strays` are the ones it
may send besides those listed: of a mail the client never saw, of a command that
is no mail, or of one that nobody has issued yet. Replies are in the modules below. Users, clients and seconds
are only compared for equality, so that the runs treat them as symmetric.

`InboxesMatchCommands` and `PendingAwaitsMail` are claimed while no two mails are
of one second (`NoTies`) and no read or delete names another user's mail (`OwnMail`): the code
keeps neither promise otherwise. `DatesDiffer` and `UsersStay` are the same
conditions as bounds. A state is judged by operators on a record (`StateOf`), so
that the one a server runs with and the one in its file obey the same
definitions. `mailbox_three` has them, to spend its states on the order
of commands; in `users_move` users move and all mails are of one second, so that
what is pending is checked without the conditions, and with state files. That the
promises hold with both at once, for any number of servers, users, seconds and
files, is what `MailboxProofs` proves.

### SessionGroups and ClientSession

A network is a value: who runs, which side of the network each is on, who joined
which connect group, and what each process has not received yet. `Join`, `Leave`,
`Exit` and the sends are functions on it, so that a handler that leaves, joins
and sends is one composition. Calls take effect in the order of the group at
once and are seen late by the receivers; the delay stands for that of the
network. The toolkit announces a join, a leave or the end of a process with the
member count, and a change of the network as one caused by the network.

In `ClientSession` each handler is one action: of the client, every command of
the menu (`ConnectToServer` with the disconnection it may begin with,
`SendEmail`, `GetInbox`, `ReadEmail`, `DeleteEmail`, `GetComponent`, `Goodbye`),
membership messages, ACKs, other answers, and `HandleTimeout`; of a server,
CONNECT, the requests it refuses, those it shows (listing, component), those it
applies, those it stashes when it synchronizes, commands of other servers and
membership messages. Some notes:

* `client_connections` and the variables of the client keep their names. A
  session is the seed of the client's `rand()` and the number of the value
  drawn; identifiers no group was named after are interchangeable, so that
  `Disconnected` draws a new one only when the present one was used.
* Answers are reduced to the number of the request they answer, which the code
  does not send: it is history, and what the properties speak about. So is what
  a wait is for, what was displayed, and which CONNECTs servers have handled.
* Mail is taken to be there for every listing; that an inbox may be empty is the
  subject of `InboxListing`. A mail that is gone when it is to be read is answered
  `missing`.
* A synchronization is a phase in which requests that change mailboxes are
  stashed, of any length, with no relation to the other servers' phases: a superset of
  what `Replication` allows but for one thing: the resending after a merge, whose
  COMMANDs are like any other that come late, is left out. When it ends, `Answered` sends the answers of the stash in
  order, as a recursive function of the number of entries handled.
* A COMMAND of another server may be dropped without effect, in the main loop and
  from the stash, because it is not the next of its origin (line 325): which ones
  are is decided in `Replication`.
* A queued timer may fire at any time: the code's five seconds have no lower
  bound in steps of a network.
* `Hasty` lists what users do *not* wait for: the answer to a connection, the
  answer to a request, the timer of a request of an ended session. The program
  permits all of it; the runs say what depends on it.

### InboxListing

An inbox is a sequence in the order of the multiset: an equal element goes
behind those there are (`NotLater`), and erasing one takes all of its second
(from `Earlier` to `NotLater`). The client's inbox is a multiset of the same
kind, into which each message is inserted header by header (`InsertAll`).
`Chunks` says what `send_inbox_to_client` puts in its
messages: the header number `INBOX_LIMIT + 1` is copied behind the array and
not counted, so that it is lost, or the server dies of it. A read whose mail is
gone yields two ACKs, or, when the inbox is empty, may kill the server: the code
dereferences `begin()`. Other clients send, read and delete mail at any moment.
The user may type at any time: no command of the menu looks at `blocking`.
`reported` keeps the inboxes listings were made from, and `outOfStep` that a
command came during a wait or that a mail was gone when it was to be read; both
are history. From then on ACKs and waits are out of step: a listing may be
cleared while it comes in, printed empty, dropped in part or come in during the wait
for the next, and `PrintedListingIsComplete` promises nothing (*Disagreements*).
`RequestsNamePickedMail` excepts only picks between the first message of a listing
and the ACK that prints it. Deletes of rows that are not there are in
`ClientSession` and `Mailboxes`.

### StateFiles

`Replication` writes files in single steps. Here a handler is a list `todo` of
file operations: `WriteState` is four (each JSON file is truncated, then
written), `WriteCommandToLog` two (the file is created, then the record
appended), the collection saves before it deletes each block. A death comes
between any two of them, and, as `Interrupts` says, within them: after the file
was created, after half of a record, after the truncation. A state file is empty
or holds one state; a log file is a sequence of half records.

`Start` reads the state files; `OpenLog`, `ReadRecord` and `CloseLog` are
`read_log_files` with its locals in `reader`: the index it looks for, the block
and position it reads at, the stream's end, and `buf`, which keeps its content
when nothing is read and begins with what was on the stack (`StackIndices`).
Bytes from the middle of a record are taken never to look like the index looked
for. How often the state is saved is left open, which includes what `Replication`
does. Commands come in the order of each origin. `inboxes` is the bag of
commands that were applied.

### StateJson

A tree node has a text and children under keys, as in `boost::property_tree`.
`InboxStateTree`, `LogStateTree` and `StateOf` are the conversions, function by
function, of `server_main.cpp` and `utils.hpp`; numbers and flags go through
text. `StateFiles` takes what it reads from a state file for the state that was
saved; `TreesKeepStates` is the reason, over all states within the bounds
(`ServerStates`), with mails of one second, marks, pending identifiers and inboxes
that are empty or missing.

### ServerNames

`synch_members[]` is an array in Spread's order, copied at the label of
`synchronize()` over the first places; what a longer view left behind stays. A
copy of an unchanged view changes nothing and is not told apart. The order in
which Spread lists members is a constant: `Order` gives every server a place of
its own, and `InOrder` lists the members of a view by it.

## 3. Runs

Deadlock is checked in the runs of `Mailboxes`, where files can always be read
again. In the others it is not: commands, requests, changes of the network and
crashes are bounded, and the processes may come to rest.

| run | module | instance | shows |
|---|---|---|---|
| `partition_two` | `ServerNames` | 2 servers, apart at first, listed backwards; 2 commands; 2 network changes | `TypeOK`, `KnowledgeSound`, `QueueCoversLaggards`, `FrontIsListed`, `NamesInv` (the invariant of the proofs) |
| `crash_two` | `Replication` | 2 servers; 2 commands; 1 network change, 1 crash | `RestartLosesNothing`, `LogCoversLaggards`, `ReplicationInv` and `DeliveryInv` (the invariants of the proofs), `StateFilesNeverRegress`, refinement of `Delivery` |
| `converge_three` | `Replication` | 3 servers, one apart; 2 commands; 1 network change; clients wait | `QuietConvergence` |
| `liveness_two` | `Replication` | 2 servers; 1 command; 1 network change, 1 crash | `SynchTerminates`, `EventuallyConsistent` |
| `mailbox_three` | `Mailboxes` | 3 servers, 1 user, 3 commands, replays of whole logs; a delete may name the first command of server 1, issued or not | `TypeOK`, `InboxesMatchCommands`, `PendingAwaitsMail` |
| `users_move` | `Mailboxes` | 2 servers, 2 users on one client, 3 commands, 1 state file, one second for all mails; deletes as in `mailbox_three` | `MailboxInv` (the invariant of the proofs), `PendingMatchesCommands` |
| `session_two` | `ClientSession` | 1 client, 2 servers; 2 connections, 2 requests of any kind, 1 crash, 1 synchronization; users wait | `TypeOK`, `SessionInv` (the invariant of the proofs, with what it claims of users that wait), `QuietAgreement`, `ConnectedMeansAccepted`, `AcksFollowAnswers` |
| `hasty_users` | `ClientSession` | 1 client, 2 servers; 2 connections, 1 request, 1 crash, 1 change of the network; users wait for nothing | `SessionInv` (what it claims of everybody), `QuietRelease`, `TimerOnlyWhileWaiting`, `SessionsAreReleased` |
| `files_two` | `StateFiles`, `StateJson` | 2 origins, 3 commands of each, blocks of 2, 2 deaths between operations; states of 2 users and 2 mails | `TypeOK`, `FilesInv` (the invariant of the proofs), `NothingLostNothingTwice`, `QueuesComeBack`, `SavedStateComesBack`, `RecoveryEnds` |
| `listings` | `InboxListing` | 3 mails in 2 seconds, 1 header in a message, 3 requests, also during a wait | `TypeOK`, `ListingInv` (the invariant of the proofs), `PrintedListingIsComplete`, `RequestsNamePickedMail`, `WaitsEnd` |
| `gap_three` | `Replication` | as `converge_three`, but clients do not wait | `QuietConvergence` is violated |
| `stash_two` | `Replication` | 2 servers; 2 commands; 1 network change | `StashedCommandsAreApplied` is violated |

Why the bounds are enough. The thresholds shrink so that everything happens
within a few commands: a save after 2 commands rather than 5, a collection at
every knowledge change, one record to a log file. Two commands of one origin
make a gap, two blocks and one save possible; one network change lets two
partitions meet, two let them part again during a synchronization. Three
servers are needed for one to lag behind two that are equal, and for a delete to
overtake its mail between two servers; two suffice for the rest. Three commands
are a mail, a read and a delete of it, or a second mail. A client needs
two connections to have a session that ends and one that its remains can
disturb. Two requests let an answer of one meet the wait for the other. Three commands of an origin, in blocks of
two, fill two blocks (indices begin at 1) and put the end of the second at the
start of a third, so that a collection and a recovery pass from block to block
(what happens across more of them is proved); a second origin is what
`buf` and the loop carry over, and a second death may come during the load after
the first. A message of 1 header is full with 1 mail; a second is the header
nobody gets, as the 21st is with messages of 20; a third begins the second
message. Three requests are, for instance, two listings and a read or delete between,
behind, or during the wait for one of them. A stray delete names a mail of another
server before or after it came, a command that is not a mail, or nothing. The theorems of section 4 have no bounds.

`converge_three` assumes `ClientsWait`. Without it `QuietConvergence` is false
(`gap_three`); with it the synchronization itself is what the run examines.

### Fairness

`FairSpec` requires weak fairness of each server's own steps (the loop of
`main` and of `wait_for_everyone` never stops reading, sending never blocks), of
the group's ordering of what was multicast and of its announcing of changes
(Spread's guarantees). Clients, network changes, crashes and restarts are not
fair: nothing obliges them. `EventuallyConsistent` speaks of servers that are in
one partition from some point on.

`ClientSession!FairSpec`: both programs go on handling what they receive (their
main loops), a queued timer fires in the end (Spread's event loop), and a
synchronization ends, which `SynchTerminates` shows of `Replication`.
`InboxListing!FairSpec`: both programs go on handling. `StateFiles!FairSpec`: a
process that is not killed carries out its file operations and its load.

### Disagreements

Two runs expect a violation:

| run | what happens | what is said |
|---|---|---|
| `stash_two` | commands stashed in one synchronization all get the index `knowledge + 1` (line 756): all but the first are dropped | design p.19: stashed messages are processed "as if a user just sent them" |
| `gap_three` | a server receives a new command of an origin before the resent older ones, drops it (line 325), and stays without it until the next membership change | design p.4: "The servers will quickly reach consensus about the state of the application once they are connected to each other" |

The other promises the code breaks are not runs of their own. TLC finds each of
them broken, in seconds (`QuietConvergence` with two changes by `-simulate`, in
minutes), when the run named here is given this property in place
of its own and the constants that are listed; where none are, the run's instance is
enough. Properties that no run checks are at the end of the MC modules.

| run and property | constants to change | what happens | what is said |
|---|---|---|---|
| `mailbox_three`, `InboxesConverge` | `DatesDiffer = FALSE` | `erase(*it)` (410, 436) removes all mails of one second; a server that gets one of them later keeps it | design p.7: "The messages can be applied in any order to achieve the same state" |
| `users_move`, `InboxesConverge` | `DatesDiffer = TRUE`, `Dates <- TwoSeconds`, `Strays = {}` | `log_in` keeps the listing of the previous user; a read or delete of it acts on servers that lack the mail and not on those that have it | the same |
| `mailbox_three`, `PendingReadsAwaitMail` | | a read of a deleted mail stays in `pending_read` for ever | design p.22: "Else if command.id in state.pending_delete or state.deleted: Do nothing" |
| `session_two`, `AnswersAreDisplayed` | | every replica that applies a command sends an ACK (417), and any ACK ends the wait (`client_main.cpp` 287): the listing that comes after it is dropped | design p.10: "If ServerInboxResponse is received: Append mail headers to inbox list Print mail headers" |
| `session_two`, `ReadsAreAnswered` | | a READ stashed during a synchronization (628) is acknowledged without the mail | design p.19, as for `stash_two` |
| `session_two`, `DeletesNameShownMail` | | `listed` is set when a listing is asked for (`client_main.cpp` 483): a delete can precede it | `client_main.cpp` 165: "Must list mail first" |
| `session_two`, `ConnectedMeansAccepted` | `Hasty = {"connection"}` | another server's join makes the member count 2 (`client_main.cpp` 268): the client takes the wrong one for connected | design p.4: the membership message "is how it can confirm that a successful connection has been established" |
| `session_two`, `ConnectedMeansAccepted` | `Clients <- TwoClients`, `Seed <- SameSecond` | two clients started in one second draw the same `session_id` (`client_main.cpp` 74) | design p.4: "a uniquely identifying integer" |
| `session_two`, `QuietAgreement` | `Hasty = {"timer"}` | the timer of a request outlives its session and ends the next (`client_main.cpp` 455) | design p.13: "On receive membership message from client_<name>_connect: Disconnect Stop waiting" |
| `session_two`, `QuietAgreement` | `MaxNetChanges = 1` | a departure caused by the network is ignored by the client (`client_main.cpp` 275), while the server ends the session | design p.13: "If number of members == 2: Set connected = true Else Call Disconnect" |
| `session_two`, `ConnectingEnds` | `SPECIFICATION FairSpec`, `MaxRequests = 0`, `MaxSynchs = 0` | nothing ends the wait for a server that is down (`client_main.cpp` 383) | design p.13: "On connection timeout: Call Disconnect" |
| `listings`, `LongListingIsComplete` | | the 21st mail is copied behind the array (465) and not sent | design p.31: "up to 20 inbox headers" |
| `listings`, `ServerStaysUp` | | that copy, or the answer to a read in an empty inbox, which dereferences its end (505), may kill the server | design p.22: "Do nothing" |
| `listings`, `ListingsAreAwaited` | | a read of a mail that is gone gets two ACKs (507, 417), the second of which ends the next wait; or a command is typed during a wait, and the ACK of the first one ends both | design p.29: the ACK is the "Message to end response to a client" |
| `files_two`, `StartsAgain` | `Interrupts = {"json"}` | a death within `write_json` (1084) leaves a file no start accepts | design p.7: the state is saved "so that on startup, only the updates that were written after serializing the state need to be reapplied" |
| `files_two`, `NothingLostNothingTwice` | `Interrupts = {"record"}` | a death within the write of a record (1059): the next start applies a part of it or loses the records after it | line 1014: "Apply all remaining files to state" |
| `files_two`, `NothingLostNothingTwice` | `Interrupts = {"create"}` | a log file that was created and not written: `buf` still holds a record of the origin before (1018), which is applied again | design p.16: "While more lines to read: If command index > state.applied_to_state[n] Call apply_update(log update)" |
| `files_two`, `BlocksAreDiscarded` | `FILE_BLOCK_SIZE = 1` | `current_block` jumps to the block of the safe index (718); blocks in between stay | design p.19: "Delete all log files from machine i that are full and only contain commands with index less than state.safe_delivered[i]" |
| `listings`, `EveryListingIsComplete` | | an `l` typed between the headers of a listing and its ACK clears the list (`client_main.cpp` 477), and the ACK prints what is left, which is nothing | design p.10: "If ServerInboxResponse is received: Append mail headers to inbox list Print mail headers" |
| `listings`, `EveryPickIsOnTheScreen` | | a read or delete typed between the headers of a listing and its ACK names a row that was not printed yet: headers are inserted when they come (`client_main.cpp` 313) and printed with the ACK (293) | the same |
| `listings`, `NothingIsListedTwice` | | a wait ends too early, after a listing asked for twice or a read of a mail that is gone; the listing of that wait comes in while the client waits for another one, and both are inserted | design p.10: "If ServerInboxResponse is received: Append mail headers to inbox list Print mail headers" |
| `converge_three`, `QuietConvergence` | `MaxNetChanges = 2` | a command in transit is stashed by a server in a synchronization that a second change of the network begins anew; the stash survives that. This server declares what it knew before, and applies the command after the synchronization; another one, which lacks the command before it, drops the same command from its own stash. Nobody resends it | design p.4, as for `gap_three` |
| `partition_two`, `ComponentIsListed` | | names are read by server number from an array in Spread's order (522) | design p.35: "number is right but server not printed after partitioning" |
| `partition_two`, `NamesAreCounted` | | a server that waits announces all members (518) and names those that answered | design p.29: "the names of current connected group" |

The passing runs stay clear of these by what users wait for (`Hasty`), by no
changes of the network in `session_two`, by deaths between operations
(`Interrupts = {}`), and by properties that name their condition (`NoTies`,
`OwnMail`, `outOfStep`, `printInbox`); each is the negation of one of the causes
above.

## 4. Proofs

Checked by TLAPS for every number of servers, users, clients and seconds, all
thresholds and all bounds, from the assumptions on the constants that the
modules name (`NMachinesAssumption`, `InitialPartitionAssumption`,
`ThresholdAssumption`, `BoundAssumption`; `OrderAssumption`: no two servers share
a place; `MailboxAssumption`; `ProcAssumption`: clients are not servers and there
are finitely many; `KindsAssumption`, `SessionBoundAssumption`, `NoneAssumption`;
`ListingAssumption`; `FilesAssumption`; `JsonAssumption`: a state has finitely many users and mails;
`TextAssumption`: `put()` writes different numbers, and the two flags,
differently), which TLC evaluates in every run. The invariants the proofs rest on are themselves
properties of runs: TLC has checked them on small instances, and mutants break
them.

| theorem | module | says |
|---|---|---|
| `TypeCorrect` | `ReplicationProofs` | `Spec => []TypeOK` |
| `ReplicationInvariant` | `ReplicationProofs` | `Spec => []ReplicationInv` |
| `KnowledgeIsSound`, `RestartsLoseNothing`, `LogsCoverLaggards` | `ReplicationProofs` | `KnowledgeSound`, `RestartLosesNothing`, `LogCoversLaggards` always hold |
| `FilesNeverRegress` | `ReplicationProofs` | the action property `StateFilesNeverRegress` |
| `QueuesAreExact`, `QueuesCoverLaggards` | `ReplicationProofs` | `QueueExact`, `QueueCoversLaggards` always hold |
| `DeliveryInvariant` | `DeliveryProofs` | `Spec => []DeliveryInv` |
| `DeliveryImplemented` | `DeliveryProofs` | `Spec => DeliverySpec`, the refinement of `Delivery` |
| `NamesOnlyAdd` | `NamesProofs` | `NamesSpec => Spec`: what holds of `Replication` holds of `ServerNames` |
| `NamesInvariant`, `ComponentIsNamed` | `NamesProofs` | `NamesInv`, `FrontIsListed` always hold |
| `MailboxInvariant`, `MailboxTypes` | `MailboxProofs` | `Spec => []MailboxInv`, `Spec => []TypeOK` |
| `InboxesFollowCommands`, `PendingFollowsCommands`, `PendingReadsWait` | `MailboxProofs` | `InboxesMatchCommands`, `PendingMatchesCommands`, `PendingAwaitsMail` always hold |
| `FilesInvariant`, `FilesTypes` | `StateFilesProofs` | `Spec => []FilesInv`, `Spec => []TypeOK`, if `Interrupts \subseteq {"json"}` |
| `NothingIsLostOrTwice`, `QueuesAreWhole` | `StateFilesProofs` | `NothingLostNothingTwice`, `QueuesComeBack` always hold, on the same condition |
| `SavedStatesReturn` | `StateFilesProofs` | `SavedStateComesBack` always holds, for states of any size |
| `SessionInvariant`, `SessionTypes` | `SessionProofs` | `Spec => []SessionInv`, `Spec => []TypeOK` |
| `AnswersComeFirst`, `TimersAreAwaited` | `SessionProofs` | `AcksFollowAnswers`, `TimerOnlyWhileWaiting` always hold |
| `ConnectionsWereAccepted` | `SessionProofs` | `ConnectedMeansAccepted` always holds, if seeds differ and users wait for their connection |
| `SessionsAreGivenUp` | `SessionProofs` | `QuietRelease` always holds, if the network changes once at most, or on that same condition |
| `QuietlyAgreed` | `SessionProofs` | `QuietAgreement` always holds, if seeds differ, users wait, and the network stays whole |
| `ListingInvariant`, `ListingTypes` | `ListingProofs` | `Spec => []ListingInv`, `Spec => []TypeOK` |
| `PrintedFromOneInbox`, `PicksAreOnTheScreen` | `ListingProofs` | the action properties `PrintedListingIsComplete`, `RequestsNamePickedMail` |

### Replication

None of the properties is inductive. A server believes what
a KNOWLEDGE message says, so the messages in transit must be sound
(`MessagesSound`); after a crash it believes its file, so what was saved must be
sound (`SavedSound`). A received summary raises the receiver's own row only if
it claims more than the receiver logged, which `MessagesSound` excludes: hence
`RestartLosesNothing` survives `update_knowledge`. Recovery needs the log to
hold everything after the saved safe index (`LogComplete`), and `LoadingSound`
says how far the replay has come: the origins before the cursor are complete,
and the cursor is never more than one past what is applied. Removing log files
is justified by `SafeSound`: a safe index is below every row of the matrix, and
the matrix is sound, so that whatever lies below it is logged everywhere. The
files on disk only ever hold older safe indices than memory, although
`write_state` runs half way through the collection.

The proof of the step is one lemma per action and, under it, one step per
conjunct that the action can disturb. Lemmas about `SafeIndex`, `EraseUpTo` and
the collection carry the arithmetic.

`LogsCoverLaggards` has this content: the files of a server are complete from the
least index any server has logged.

`StateFilesNeverRegress` is an action property, and a restarted server does start
from less than it once knew: it needs `SavedBehind`, that a running server never
knows less than its file, for a save to be a gain. The handlers fall into those
that leave knowledge alone, apply one command, or learn from a summary
(`StepKinds`), and each kind keeps it.

`QueueExact` says of a queue not only that it is long enough: it is the
window from the safe index to what was logged, index by index, and during the
replay as far as the cursor has come. The weaker statement is not kept by
`erase_queue_up_to`, which looks for the first index above the safe one, nor by
the resending, which looks for one index. The end of a log must be the end of
what was logged, which `LogComplete` and `LoadingSound` give.

The refinement maps `applied` of `Delivery` to `logged`. A step that applies a
command must take one that its origin has logged, so that every COMMAND in a
mailbox, an outbox or a stash has to have been issued (`CommandsIssued`; a server's
own stashed commands get their index only when they leave the stash), also the
ones resent by others, whose queues are exact. `NoneAhead` is the rest. All
other steps, crashes and restarts included, leave `logged` alone.

### Mailboxes

`Sound(cmds, st)` judges a state by the commands of all origins: it counts no
more than there are, every mail in an inbox came and was a mail, what is pending
of all that has not come is just what applied reads and deletes say (without any
condition), and while mails differ in their second and no read or delete names
another user's mail, each inbox is the set the commands call for, and a read mark waits only for what is to come or
deleted. `MailboxInv` claims it of the state of every server *and of its file*,
together with `LogsCover` (no state is ahead of its log) and `MailNamed` (reads
name mails that exist, because listings do and `read_email` checks the row). Deletes
may name anything. `PendingMatch` quantifies over the identifiers that some
command names or that are pending, and so says the same of every identifier,
issued or not (`PendingMatchEverywhere`). That is what makes it
inductive: a restart takes the file for the state, and the replay, in
whatever order, applies commands to it one by one.

Two lemmas carry it. `SoundExtends`: a command accepted anywhere leaves every
sound state sound, the conditions included, which only become harder.
`ReceiveSound`: the next command of any origin keeps a state sound; its parts are
one lemma for each of mail, read and delete (`MailKeepsMatch`, `ReadKeepsMatch`,
`DeleteKeepsMatch`), with `OneMail` (erasing all mails of a second erases one)
and `NothingFound` (a read or delete that finds nothing in its user's inbox names no
mail of anybody's) between them.

### StateFiles

The theorems have one hypothesis, `Interrupts \subseteq {"json"}`: a death does
not come after a log file was created and before its record is there, nor within
a record. The code breaks `NothingLostNothingTwice` without it, as *Disagreements*
shows. A death within `write_json` is allowed: it leaves a torn file that no start
accepts, and a server that does not start loses nothing more.

`NothingLostNothingTwice` and `QueuesComeBack` speak of a server at rest, and
say nothing of the files. `FilesInv` relates the three places a command can be
in, at every operation of every handler:

* `LogsHold`: a log file holds the records of its block from some first index
  to some last one, each whole, in order.
* `DiskSound`: the two state files may be of different moments, because a death
  may come between their writes. What `log_state` calls safe, the state in
  `inbox_state` has applied, and the logs hold every record after it. This is
  what the order of the writes is for; with `log_state` first the invariant fails.
* `HandlersSound`: what is left of a handler saves both files before it deletes
  a block, deletes and pops only what is safe, and appends before it applies.
  This holds of what is left after each of its operations, and so at any death.
* `MemorySound`: a queue is the window from the safe index to what was applied,
  or to where the replay stands (`Cursor`); while a collection is under way
  its start may still be behind.
* `ReaderSound`: `read_log_files` stands at a record of its block, has passed
  all older than the one it looks for, and `buf` holds the last one it read.

A server with `todo` empty and nothing to read is the case where all of them meet:
the cursor is at the last record logged, and what was applied is what it counts.
The proof is one lemma per file operation and per step of the reader, and for
the handlers one that a list of operations in order stays so when its head is
carried out (`TailSound`) and one for each list they make. `EffectGrows` carries
the bag: one more command applied, one more element.

`SavedStatesReturn` is about operators only. A child of a tree is found by its key
because no other has it (`KidFound`; `SetToSeq` names each user once), texts come
back as the values they were made of, and a mail read back goes behind those read
before it because inboxes are written in their order (`NextGoesLast`). An inbox is
made again by recursion over its mails; the first one to be inserted wrongly
would be the least of a set of indices (`Minimum`), and there is none.

The attempt corrected the model once: `current_block` after a load
is the block of the index after the last one, so that `Blocks` reaches to the
block of `MaxIndex + 1`.

### ClientSession

Both programs only count the members of a connect group, so that what one end
believes of the other depends on what is still to be received at either.
`SessionInv` relates beliefs, groups and undelivered messages. It has three parts, one
for each degree of patience of users and network:

* Of everybody: a process is in the connect groups it takes itself to be in
  (`MembersAgree`); a server in a group of other than two members will hear of it
  (`CountsReported`: a membership message on its way ends that session,
  `Doomed`); of two servers in one group and on one side of the network one is
  about to leave, if the network changes once at most (`ServersPart`); identifiers are drawn in order (`SessionsDrawn`); an ACK
  comes behind what it acknowledges (`AcksBehind`). `TypeOK` and
  `TimerOnlyWhileWaiting` belong to it.
* If seeds differ and users wait for their connection (`Orderly`): a session has
  one server at most that holds it or is asked to (`OneHolder`), which is the one
  the client names (`RightServer`), and nobody has heard of a session still to be
  opened (`FreshSessions`). A client is then told of two members only when
  the second is the server it asked.
* If, besides, users wait for answers and timers and the network is whole
  (`Calm`): a session goes through its handshake in order (`Handshakes`): asked
  once (`AskedOnce`), told once of the join and only then of a departure
  (`ToldInOrder`), and from there on the server stays or the client will hear
  that it left (`StaysOrTells`). At rest nothing is left to hear.

Each condition is needed: *Disagreements* has a run of `ConnectedMeansAccepted` or
`QuietAgreement` for the negation of each. `QuietRelease` needs one of two. If users do
not wait and the network changes twice, it is false with three servers and three
connections (and no requests or crashes): two servers are left in one connect
group, each counts two members, the other server being the second, and both keep a
session that has no client. Hence the hypothesis `MaxNetChanges <= 1 \/ Orderly`.

The handlers reduce to a few functions on the network (`Join`, `Leave`, `Exit`,
the sends), each of which appends to mailboxes. The proof has lemmas about what
these append, about messages that no part of the invariant speaks of, and then, for
every part, one lemma per handler. The answers to a stash (`Answered`) are handled by
the least number of entries for which what is to be shown fails (`Minimum`).

### InboxListing

What is printed depends on messages, on the order of both multisets and on which
wait is on. `ListingInv` says: boxes are sorted (`BoxesSorted`); the client holds
what is on the screen, or nothing, unless it is about to print (`ScreenShown`);
and, until a mail was gone when it was to be read or a command came during a
wait, one exchange at most is under way (`OneExchange`): a request, a short answer, or the rest of a listing, of
which the client holds the part that came (`ListingUnderWay`).

The last is the arithmetic of `send_inbox_to_client`. The message number `i` ends
one header before `Copied(i)`, a multiple of `INBOX_LIMIT + 1`, and the next one
starts behind it: the header at `Copied(i)` is the one that is lost. What the
client holds is part of the first `Copied(i)` mails of the box, in their order,
and *all* of them when the box fits into a message. Insertion by date appends here, because the box is sorted and what came earlier is not later
(`InsertAllAppends`); so the rows of the next message go behind those of the one before
(`PartGrows`).

`PicksAreOnTheScreen` follows from `ScreenShown` alone: it holds of commands
during a wait, too, but not once a listing came in that is not printed yet
(`~printInbox`), when the client goes by rows the user has not seen
(*Disagreements*).

### ServerNames

`FrontIsListed` follows from `NamesInv`: the array of a server begins with its view
in Spread's order; it marks members only, and all of them unless it waits. Marks are
taken from KNOWLEDGE of members, and a server leaves the wait when as many are
marked as there are members, so that a subset of equal size is all of them. That
the array names every member is a fact about places: in a set of `n` servers with
distinct places the number of those not behind one is injective and lies in
`1 .. n`, so it takes every value (`PlacesAreTaken`). A server is told only of views it is
a member of, which matters for the view a server is alone in.

### Only model-checked

* Liveness (`SynchTerminates`, `EventuallyConsistent`, `SessionsAreReleased`,
  `RecoveryEnds`, `WaitsEnd`): out of the prover's reach.
* `QuietConvergence`: TLC finds it true of three servers, silent clients and one
  change of the network; a second change, or clients that are not silent, break
  it (*Disagreements*). What it would take for one change and any number of
  servers is in section 6.

## 5. Not modelled

* The terminal: parsing of commands, prompts, the typing of a mail.
* Addresses, subjects and texts of mail, fixed-size buffers and `strcpy` into
  them, JSON syntax (`StateJson` has the trees, not their characters).
* Errors of `SP_` calls: both programs print them, or exit, which is a crash.
* Functions nothing calls: `connect_failure_handler` (`client_main.cpp` 392),
  `inbox_to_ptree` (1151) and `generate_iterable_ptree` (`utils.hpp` 87).
* Values of undefined behaviour beyond their consequence: the identifier of
  `find_id_using_index` out of range is any (`Strays` of `Mailboxes`, of a server
  and with an index above 0), a dereferenced end either goes unnoticed or kills
  the server.
* `fsync`: the files of a process that dies keep what it wrote; the machine
  does not fail.
* Build files and `install_dependencies.sh`.
* The integer width of indices: a server would have to accept 2^31 commands.

## 6. What is left

`QuietConvergence` for any number of servers, either of one change, or of any
number of changes under a condition such as that no command is in transit or
stashed when the network changes. The proof has to follow, for all members of a
view at once, which server resends what (`find_max`) and in what order the group
delivers that and the commands still on their way.
