------------------------------ MODULE StateFiles ------------------------------
(***************************************************************************)
(* The files of one server (server_main.cpp): the log of each origin, cut  *)
(* into blocks, and the two state files, written one system call after the *)
(* other, with a death of the process between any two; and the start, that *)
(* reads them back record by record (read_state_file, read_log_files).     *)
(*                                                                         *)
(* Replication writes files in single steps and knows what a log holds as  *)
(* a set of indices; here a log file is what was appended to it, and a     *)
(* handler is the list of the file operations it still has to do.          *)
(***************************************************************************)
EXTENDS StateJson

CONSTANTS
  FILE_BLOCK_SIZE, \* indices in a block of a log (server.h)
  MaxIndex,        \* bound: commands of each origin
  MaxCrashes,      \* bound: deaths of the process
  Interrupts,      \* operations a death may leave half done
  StackIndices     \* what id.index of the uninitialized buffer may hold

ASSUME FilesAssumption ==
  /\ FILE_BLOCK_SIZE \in Nat \ {0}
  /\ {MaxIndex, MaxCrashes} \subseteq Nat
  /\ Interrupts \subseteq {"create", "record", "json"}
  /\ StackIndices \subseteq Int /\ StackIndices # {}

VARIABLES
  phase,   \* "down", "reading" (load_state), "running" or "failed"
  mem,     \* State and the globals that collection uses
  files,   \* the directory
  todo,    \* what the handler that runs still has to do
  reader,  \* the local variables of read_log_files
  logged,  \* history: [Origin -> Nat], records completely written
  crashes

vars == <<phase, mem, files, todo, reader, logged, crashes>>

Origin == 0 .. N_MACHINES - 1

Block(index) == index \div FILE_BLOCK_SIZE

(* The index after the last may be the first of its block.                 *)
Blocks == 0 .. Block(MaxIndex + 1)

(* A directory is a function from the files there are to their content: of *)
(* a state file <<>> while it is truncated and <<value>> when written, of a *)
(* block the sequence of what was appended.                                *)
NoFiles == [file \in {} |-> <<>>]

Exists(dir, file) == file \in DOMAIN dir

Holds(dir, file, content) ==
  [f \in DOMAIN dir \cup {file} |-> IF f = file THEN content ELSE dir[f]]

(* A UserCommand in a log is two halves: the first holds its identifier,   *)
(* the second the rest of its data.                                        *)
Half(o, k, part) == [origin |-> o, index |-> k, part |-> part]
Record(o, k) == <<Half(o, k, 1), Half(o, k, 2)>>

Saved(m) == [applied |-> m.applied, inboxes |-> m.inboxes]

Zero == [o \in Origin |-> 0]

Empty ==
  [applied |-> Zero, inboxes |-> EmptyBag, safe |-> Zero, current_block |-> Zero,
   queue |-> [o \in Origin |-> <<>>]]

NoReader == [origin |-> N_MACHINES, index |-> 0, block |-> 0, pos |-> 0,
             open |-> FALSE, eof |-> FALSE, buf |-> Record(0, 0)]

(* A server that was started for the first time and found no files.        *)
Init ==
  /\ phase = "running"
  /\ mem = [Empty EXCEPT !.current_block = [o \in Origin |-> Block(1)]]
  /\ files = [state |-> NoFiles, log |-> [o \in Origin |-> NoFiles]]
  /\ todo = <<>>
  /\ reader = NoReader
  /\ logged = Zero
  /\ crashes = 0

-----------------------------------------------------------------------------
(* What handlers do, as lists of operations.                               *)

\* A defect the runs must notice: what is safe is saved before what is applied.
WriteLogStateFirst ==
  <<[do |-> "truncate", file |-> "log_state"], [do |-> "write", file |-> "log_state"],
    [do |-> "truncate", file |-> "inbox_state"], [do |-> "write", file |-> "inbox_state"]>>

(* write_state: write_json truncates a file before it writes it.           *)
WriteState ==
  <<[do |-> "truncate", file |-> "inbox_state"], [do |-> "write", file |-> "inbox_state"],
    [do |-> "truncate", file |-> "log_state"], [do |-> "write", file |-> "log_state"]>>

(* write_command_to_log: the first record of a block creates its file.     *)
WriteCommandToLog(o, k) ==
  <<[do |-> "create", origin |-> o, index |-> k], [do |-> "append", origin |-> o, index |-> k]>>

(* apply_new_command, for the next command of some origin.                 *)
ApplyNewCommand(o) ==
  LET k == mem.applied[o] + 1 IN
  /\ phase = "running" /\ todo = <<>> /\ k <= MaxIndex
  /\ todo' = WriteCommandToLog(o, k) \o <<[do |-> "apply", command |-> Record(o, k)]>>
  /\ UNCHANGED <<phase, mem, files, reader, logged, crashes>>

(* collect_garbage: what every server is known to have, per origin, is at  *)
(* most what this one applied (Replication!KnowledgeSound).                *)
CollectGarbage(safe) ==
  /\ phase = "running" /\ todo = <<>>
  /\ safe # mem.safe
  /\ \A o \in Origin : safe[o] \in mem.safe[o] .. mem.applied[o]
  /\ todo' = [i \in 1 .. N_MACHINES |-> [do |-> "collect", origin |-> i - 1, index |-> safe[i - 1]]]
  /\ UNCHANGED <<phase, mem, files, reader, logged, crashes>>

(* delete_file_block of the blocks from current_block up to the one of the *)
(* command that is popped.                                                 *)
Deletions(o, index) ==
  [i \in 1 .. Block(index) - mem.current_block[o] |->
     [do |-> "delete", origin |-> o, block |-> mem.current_block[o] + i - 1]]

-----------------------------------------------------------------------------
(* Single operations.                                                      *)
Doing(what) == todo # <<>> /\ Head(todo).do = what

Op == Head(todo)

(* A JSON file loses its content when it is opened and gets the new one    *)
(* when it is written.                                                     *)
Truncate ==
  /\ Doing("truncate")
  /\ files' = [files EXCEPT !.state = Holds(@, Op.file, <<>>)]
  /\ todo' = Tail(todo)
  /\ UNCHANGED <<phase, mem, reader, logged, crashes>>

Write ==
  /\ Doing("write")
  /\ LET value == IF Op.file = "inbox_state" THEN Saved(mem) ELSE mem.safe
     IN  files' = [files EXCEPT !.state = Holds(@, Op.file, <<value>>)]
  /\ todo' = Tail(todo)
  /\ UNCHANGED <<phase, mem, reader, logged, crashes>>

Create ==
  /\ Doing("create")
  /\ files' = [files EXCEPT !.log[Op.origin] =
                 IF Exists(@, Block(Op.index)) THEN @ ELSE Holds(@, Block(Op.index), <<>>)]
  /\ todo' = Tail(todo)
  /\ UNCHANGED <<phase, mem, reader, logged, crashes>>

AppendRecord ==
  /\ Doing("append")
  /\ files' = [files EXCEPT !.log[Op.origin][Block(Op.index)] = @ \o Record(Op.origin, Op.index)]
  /\ logged' = [logged EXCEPT ![Op.origin] = @ + 1]
  /\ todo' = Tail(todo)
  /\ UNCHANGED <<phase, mem, reader, crashes>>

(* apply_command_to_state.  The command goes by the identifier it holds.   *)
Queued(m, command) == [m EXCEPT !.queue[command[1].origin] = Append(@, command[1].index)]

Applied(m, command) ==
  [Queued(m, command) EXCEPT !.applied[command[1].origin] = @ + 1,
                             !.inboxes = @ (+) SetToBag({command})]

(* Every few commands the state is saved; how many, Replication decides.   *)
Apply ==
  /\ Doing("apply")
  /\ mem' = Applied(mem, Op.command)
  /\ \/ todo' = Tail(todo)
     \/ todo' = WriteState \o Tail(todo)
  /\ UNCHANGED <<phase, files, reader, logged, crashes>>

(* The next origin of collect_garbage, and erase_queue_up_to: one command  *)
(* after the other is popped; at a change of block the state is saved and  *)
(* blocks are deleted.                                                     *)
Collect ==
  /\ Doing("collect")
  /\ mem' = [mem EXCEPT !.safe[Op.origin] = Op.index]
  /\ todo' = <<[Op EXCEPT !.do = "erase"]>> \o Tail(todo)
  /\ UNCHANGED <<phase, files, reader, logged, crashes>>

FrontIndex(o) == Head(mem.queue[o])

MorePops == mem.queue[Op.origin] # <<>> /\ FrontIndex(Op.origin) <= Op.index

DifferentBlock(o) == mem.current_block[o] # Block(FrontIndex(o))

\* A defect the runs must notice: blocks are deleted before the state is saved.
DeletesThenSaves(o) == Deletions(o, FrontIndex(o)) \o WriteState

SavesThenDeletes(o) == WriteState \o Deletions(o, FrontIndex(o))

EraseDone ==
  /\ Doing("erase")
  /\ ~MorePops
  /\ todo' = Tail(todo)
  /\ UNCHANGED <<phase, mem, files, reader, logged, crashes>>

EraseFront ==
  /\ Doing("erase")
  /\ MorePops
  /\ ~DifferentBlock(Op.origin)
  /\ mem' = [mem EXCEPT !.queue[Op.origin] = Tail(@)]
  /\ UNCHANGED <<phase, files, todo, reader, logged, crashes>>

EraseBlock ==
  /\ Doing("erase")
  /\ MorePops
  /\ DifferentBlock(Op.origin)
  /\ todo' = SavesThenDeletes(Op.origin) \o <<[Op EXCEPT !.do = "pop"]>> \o todo
  /\ UNCHANGED <<phase, mem, files, reader, logged, crashes>>

Pop ==
  /\ Doing("pop")
  /\ mem' = [mem EXCEPT !.current_block[Op.origin] = Block(Op.index),
                        !.queue[Op.origin] = Tail(@)]
  /\ todo' = Tail(todo)
  /\ UNCHANGED <<phase, files, reader, logged, crashes>>

Delete ==
  /\ Doing("delete")
  /\ files' = [files EXCEPT !.log[Op.origin] = Restrict(@, DOMAIN @ \ {Op.block})]
  /\ todo' = Tail(todo)
  /\ UNCHANGED <<phase, mem, reader, logged, crashes>>

-----------------------------------------------------------------------------
(* The process dies between two operations, or within one that Interrupts  *)
(* lists: after the file of a block was created, after half of a record,   *)
(* after a JSON file was truncated.                                        *)
BetweenOperations ==
  todo # <<>> => ~(\/ Doing("write")
                   \/ Doing("append") /\ files.log[Op.origin][Block(Op.index)] = <<>>)

Dies(now) ==
  /\ crashes < MaxCrashes
  /\ crashes' = crashes + 1
  /\ phase' = "down"
  /\ mem' = Empty
  /\ files' = now
  /\ todo' = <<>>
  /\ reader' = NoReader
  /\ UNCHANGED logged

Crash ==
  /\ phase \in {"running", "reading"}
  /\ \/ BetweenOperations /\ Dies(files)
     \/ "json" \in Interrupts /\ Doing("write") /\ Dies(files)
     \/ /\ "create" \in Interrupts /\ Doing("append")
        /\ files.log[Op.origin][Block(Op.index)] = <<>>
        /\ Dies(files)
     \/ /\ "record" \in Interrupts /\ Doing("append")
        /\ Dies([files EXCEPT !.log[Op.origin][Block(Op.index)] =
                   Append(@, Half(Op.origin, Op.index, 1))])

-----------------------------------------------------------------------------
(* load_state.                                                             *)

(* read_state_file: read_json throws on a torn file and nobody catches it. *)
Start ==
  LET torn == \E file \in DOMAIN files.state : files.state[file] = <<>>
      Read(file, default) == IF Exists(files.state, file) THEN Head(files.state[file]) ELSE default
      state == Read("inbox_state", Saved(Empty))
      safe == Read("log_state", Zero)
  IN  /\ phase = "down"
      /\ \/ torn /\ phase' = "failed" /\ UNCHANGED <<mem, reader>>
         \/ /\ ~torn
            /\ phase' = "reading"
            /\ mem' = [Empty EXCEPT !.applied = state.applied, !.inboxes = state.inboxes,
                                    !.safe = safe,
                                    !.current_block = [o \in Origin |-> Block(safe[o] + 1)]]
            /\ \E index \in StackIndices :
                 reader' = [NoReader EXCEPT !.origin = 0, !.buf = Record(0, index)]
      /\ UNCHANGED <<files, todo, logged, crashes>>

(* read_log_files: the logs of the origins, one after the other, each from *)
(* the block of the first index that is not safe.                          *)
Reading == phase = "reading" /\ todo = <<>>

NextOrigin == [reader EXCEPT !.origin = @ + 1, !.open = FALSE]

OpenLog ==
  LET index == mem.safe[reader.origin] + 1 IN
  /\ Reading /\ reader.origin \in Origin /\ ~reader.open
  /\ reader' = IF Exists(files.log[reader.origin], Block(index))
               THEN [reader EXCEPT !.index = index, !.block = Block(index), !.pos = 0,
                                   !.open = TRUE, !.eof = FALSE]
               ELSE NextOrigin
  /\ UNCHANGED <<phase, mem, files, todo, logged, crashes>>

CloseLog ==
  /\ Reading /\ reader.open /\ reader.eof
  /\ reader' = NextOrigin
  /\ UNCHANGED <<phase, mem, files, todo, logged, crashes>>

(* infile.read: past the end of the file the buffer keeps what it held.    *)
Content == files.log[reader.origin][reader.block]

Reach == IF reader.pos + 2 <= Len(Content) THEN reader.pos + 2 ELSE Len(Content)

Buffer ==
  [i \in 1 .. 2 |-> IF reader.pos + i <= Len(Content) THEN Content[reader.pos + i] ELSE reader.buf[i]]

\* A defect the runs must notice: the end of a file goes unnoticed.
NeverAtEnd == FALSE

AtEnd == reader.pos + 2 > Len(Content)

(* The record read is the one looked for: bytes from the middle of a       *)
(* record are taken never to look like an index.                           *)
\* A defect the runs must notice: every record read is taken for the next.
AnyRecord(index) == Buffer[1].part = 1

Matches(index) == Buffer[1].part = 1 /\ Buffer[1].index = index

(* After the last record of a block the next one is opened, if there is.   *)
Advanced(r) ==
  IF Block(r.index) = r.block THEN r
  ELSE IF Exists(files.log[r.origin], Block(r.index))
       THEN [r EXCEPT !.block = Block(r.index), !.pos = 0, !.eof = FALSE]
       ELSE [r EXCEPT !.origin = @ + 1, !.open = FALSE]

(* Records the state file covers are only put into the queue.              *)
\* A defect the runs must notice: records the state covers are applied again.
AppliesAll == TRUE

Applies == reader.index > mem.applied[reader.origin]

ReadRecord ==
  LET read == [reader EXCEPT !.buf = Buffer, !.pos = Reach, !.eof = AtEnd]
      found == Matches(reader.index)
  IN  /\ Reading /\ reader.open /\ ~reader.eof
      /\ reader' = Advanced([read EXCEPT !.index = IF found THEN @ + 1 ELSE @])
      /\ \/ ~found /\ UNCHANGED <<mem, todo>>
         \/ found /\ ~Applies /\ mem' = Queued(mem, Buffer) /\ UNCHANGED todo
         \/ /\ found /\ Applies
            /\ todo' = <<[do |-> "apply", command |-> Buffer]>>
            /\ UNCHANGED mem
      /\ UNCHANGED <<phase, files, logged, crashes>>

Loaded ==
  /\ Reading /\ reader.origin = N_MACHINES
  /\ phase' = "running"
  /\ reader' = NoReader
  /\ UNCHANGED <<mem, files, todo, logged, crashes>>

-----------------------------------------------------------------------------
Operation ==
  \/ Truncate
  \/ Write
  \/ Create
  \/ AppendRecord
  \/ Apply
  \/ Collect
  \/ EraseDone
  \/ EraseFront
  \/ EraseBlock
  \/ Pop
  \/ Delete

Load == OpenLog \/ CloseLog \/ ReadRecord \/ Loaded

Next ==
  \/ \E o \in Origin : ApplyNewCommand(o)
  \/ \E safe \in [Origin -> 0 .. MaxIndex] : CollectGarbage(safe)
  \/ Operation
  \/ Load
  \/ Crash
  \/ Start

Spec == Init /\ [][Next]_vars

(* A process that is not killed goes on.                                   *)
FairSpec == Spec /\ WF_vars(Operation) /\ WF_vars(Load)

-----------------------------------------------------------------------------
Halves == [origin : Origin, index : Int, part : 1 .. 2]

States(m) ==
  /\ m.applied \in [Origin -> 0 .. MaxIndex]
  /\ IsABag(m.inboxes)

(* Every variable keeps its type: files hold halves of records or whole    *)
(* states, and no origin logs or applies more commands than there are      *)
(* (apply_command_to_state counts what it applies).                        *)
TypeOK ==
  /\ phase \in {"down", "reading", "running", "failed"}
  /\ States(mem)
  /\ mem.safe \in [Origin -> 0 .. MaxIndex]
  /\ mem.current_block \in [Origin -> Blocks]
  /\ \A o \in Origin : mem.queue[o] \in Seq(Int)
  /\ DOMAIN files.state \subseteq {"inbox_state", "log_state"}
  /\ \A file \in DOMAIN files.state : Len(files.state[file]) <= 1
  /\ \A o \in Origin :
       /\ DOMAIN files.log[o] \subseteq Blocks
       /\ \A b \in DOMAIN files.log[o] : files.log[o][b] \in Seq(Halves)
  /\ reader.origin \in 0 .. N_MACHINES
  /\ logged \in [Origin -> 0 .. MaxIndex]
  /\ crashes \in 0 .. MaxCrashes

AtRest == phase = "running" /\ todo = <<>>

(* A server at rest holds the effect of every command it ever logged, and  *)
(* holds it once, whatever the order of its writes to the files was cut at *)
(* (load_state, write_state, erase_queue_up_to).                           *)
NothingLostNothingTwice ==
  AtRest =>
    /\ mem.applied = logged
    /\ mem.inboxes = SetToBag(UNION {{Record(o, k) : k \in 1 .. logged[o]} : o \in Origin})

(* The queue of an origin is, without gaps, what the logs hold and is not  *)
(* yet safe, so that a restarted server can resend all of it               *)
(* (read_log_files puts back even the records it does not apply).          *)
QueuesComeBack ==
  AtRest =>
    \A o \in Origin :
      mem.queue[o] = [i \in 1 .. logged[o] - mem.safe[o] |-> mem.safe[o] + i]

(* A server that loads its files has before it the state it saved, field   *)
(* by field: every counter in its place, both pending sets, each user's    *)
(* inbox with its mails in order and their marks, and empty sets and       *)
(* inboxes too (write_state, read_state_file).                             *)
SavedStateComesBack == phase = "reading" => TreesKeepStates

(* A start comes to an end, whatever the logs hold (the loops of           *)
(* read_log_files), unless the process is killed again.                    *)
RecoveryEnds == phase = "reading" ~> phase # "reading"

-----------------------------------------------------------------------------
(* The inductive invariant behind them (proved in StateFilesProofs).       *)

Alive == phase \in {"reading", "running"}

Effect(applied) == SetToBag(UNION {{Record(o, k) : k \in 1 .. applied[o]} : o \in Origin})

Window(from, to) == [i \in 1 .. to - from |-> from + i]

(* The records first .. last of o, half after half.                        *)
RunOf(o, first, last) ==
  [i \in 1 .. 2 * (last + 1 - first) |-> Half(o, first + (i - 1) \div 2, ((i - 1) % 2) + 1)]

(* What a handler does after it read the next command of o.                *)
NewCommand(o, k) ==
  WriteCommandToLog(o, k) \o <<[do |-> "apply", command |-> Record(o, k)]>>

(* What is on disk, or would be taken for it: <<>> while a file is torn.   *)
SavedOnDisk ==
  IF Exists(files.state, "inbox_state") THEN files.state["inbox_state"] ELSE <<Saved(Empty)>>

SafeOnDisk ==
  IF Exists(files.state, "log_state") THEN files.state["log_state"] ELSE <<Zero>>

OpTypes ==
  [do : {"truncate", "write"}, file : {"inbox_state", "log_state"}]
    \cup [do : {"create", "append"}, origin : Origin, index : 1 .. MaxIndex]
    \cup {[do |-> "apply", command |-> Record(o, k)] : o \in Origin, k \in 1 .. MaxIndex}
    \cup [do : {"collect", "erase", "pop"}, origin : Origin, index : 0 .. MaxIndex]
    \cup [do : {"delete"}, origin : Origin, block : Blocks]

Types ==
  /\ phase \in {"down", "reading", "running", "failed"}
  /\ mem \in [applied : [Origin -> 0 .. MaxIndex], inboxes : {Effect(mem.applied)},
              safe : [Origin -> 0 .. MaxIndex], current_block : [Origin -> Blocks],
              queue : [Origin -> Seq(Int)]]
  /\ DOMAIN files = {"state", "log"} /\ DOMAIN files.log = Origin
  /\ DOMAIN files.state \subseteq {"inbox_state", "log_state"}
  /\ \A o \in Origin : DOMAIN files.log[o] \subseteq Blocks
  /\ reader \in [origin : 0 .. N_MACHINES, index : Nat, block : Nat, pos : Nat,
                 open : BOOLEAN, eof : BOOLEAN, buf : {reader.buf}]
  /\ todo \in Seq(OpTypes)
  /\ logged \in [Origin -> 0 .. MaxIndex]
  /\ crashes \in 0 .. MaxCrashes
  /\ ~Alive => mem = Empty /\ todo = <<>> /\ reader = NoReader
  /\ phase = "running" => reader = NoReader
  /\ phase = "reading" =>
       \A i \in DOMAIN todo : todo[i].do \in {"apply", "truncate", "write"}

(* A block has the records of its indices, all there are and one after the *)
(* other; only between the creation of a file and the first write to it is *)
(* it empty.                                                               *)
IsBlock(o, b, first, last) ==
  /\ last <= logged[o]
  /\ \A k \in 1 .. logged[o] : Block(k) = b <=> k \in first .. last
  /\ files.log[o][b] = RunOf(o, first, last)

LogsHold ==
  \A o \in Origin : \A b \in DOMAIN files.log[o] :
    \E first \in 1 .. MaxIndex, last \in 0 .. MaxIndex :
      /\ IsBlock(o, b, first, last)
      /\ \/ first <= last
         \/ Doing("append") /\ Op.origin = o /\ Block(Op.index) = b

CompleteFrom(safe) ==
  \A o \in Origin : \A k \in 1 .. logged[o] : safe[o] <= k => Block(k) \in DOMAIN files.log[o]

(* The state files are of one moment or two: what the older one of them,   *)
(* log_state, calls safe the other one has applied, and the logs hold the  *)
(* rest.  Only a death within a write leaves a torn one.                   *)
SavedSound ==
  SavedOnDisk # <<>> =>
    LET applied == Head(SavedOnDisk).applied IN
    /\ applied \in [Origin -> 0 .. MaxIndex]
    /\ SavedOnDisk = <<[applied |-> applied, inboxes |-> Effect(applied)]>>
    /\ \A o \in Origin : applied[o] <= logged[o]
    /\ SafeOnDisk # <<>> => \A o \in Origin : Head(SafeOnDisk)[o] <= applied[o]

SafeSound ==
  SafeOnDisk # <<>> =>
    LET safe == Head(SafeOnDisk) IN
    /\ safe \in [Origin -> 0 .. MaxIndex]
    /\ SafeOnDisk = <<safe>>
    /\ CompleteFrom(safe)
    /\ Alive => \A o \in Origin : safe[o] <= mem.safe[o]

TornWhileWritten ==
  Interrupts = {} =>
    \A file \in DOMAIN files.state :
      files.state[file] = <<>> => Doing("write") /\ Op.file = file

DiskSound ==
  /\ \A file \in DOMAIN files.state : Len(files.state[file]) <= 1
  /\ SavedSound /\ SafeSound /\ TornWhileWritten
  /\ Alive => CompleteFrom(mem.safe)

(* How far the replay, or the server, has come with the commands of o.     *)
Sought(o) ==
  IF o < reader.origin THEN logged[o]
  ELSE IF o = reader.origin /\ reader.open THEN reader.index - 1
  ELSE mem.safe[o]

Pending(o) == Doing("apply") /\ Op.command[1].origin = o

Cursor(o) == IF Pending(o) THEN Sought(o) - 1 ELSE Sought(o)

Collecting(o) == \E i \in DOMAIN todo : todo[i].do = "erase" /\ todo[i].origin = o

MemorySound ==
  Alive => \A o \in Origin :
    /\ mem.safe[o] <= Cursor(o) /\ Cursor(o) <= mem.applied[o] /\ mem.applied[o] <= logged[o]
    /\ Pending(o) => Op.command = Record(o, Cursor(o) + 1) /\ mem.applied[o] = Cursor(o)
    /\ \E from \in 0 .. mem.safe[o] :
         /\ mem.queue[o] = Window(from, Cursor(o))
         /\ ~Collecting(o) => from = mem.safe[o]

(* The reader is at a record of its block, has gone past all of them that  *)
(* are older than the one it looks for, and found those it looked for.     *)
ReaderSound ==
  phase = "reading" /\ reader.open =>
    /\ reader.origin \in Origin
    /\ reader.block \in DOMAIN files.log[reader.origin]
    /\ reader.block = Block(reader.index)
    /\ reader.index \in mem.safe[reader.origin] + 1 .. logged[reader.origin] + 1
    /\ \E first, last \in 1 .. MaxIndex : \E next \in first .. last + 1 :
         /\ IsBlock(reader.origin, reader.block, first, last)
         /\ reader.pos = 2 * (next - first)
         /\ next <= reader.index
         /\ next < reader.index => reader.index = mem.safe[reader.origin] + 1
         /\ first < next => reader.buf = Record(reader.origin, next - 1)
         /\ reader.eof => next = last + 1

(* What a handler still has to do is in an order that it can be cut at.    *)
Before(i, op) == \E j \in 1 .. i - 1 : todo[j] = op

LogsNext(i) ==
  todo[i].do \in {"create", "append"} =>
    \E o \in Origin :
      todo \in {NewCommand(o, logged[o] + 1), Tail(NewCommand(o, logged[o] + 1))}

WritesWhole(i) ==
  todo[i].do = "truncate" =>
    i < Len(todo) /\ todo[i + 1] = [do |-> "write", file |-> todo[i].file]

SavesBoth(i) ==
  todo[i].do \in {"truncate", "write"} /\ todo[i].file = "log_state" =>
    \/ SavedOnDisk = <<Saved(mem)>>
    \/ Before(i, [do |-> "write", file |-> "inbox_state"])

DeletesSafe(i) ==
  todo[i].do = "delete" =>
    /\ todo[i].block < Block(mem.safe[todo[i].origin])
    /\ \/ SafeOnDisk = <<mem.safe>>
       \/ Before(i, [do |-> "write", file |-> "log_state"])

PopsSafe(i) ==
  /\ todo[i].do = "pop" =>
       /\ i < Len(todo)
       /\ todo[i + 1] = [do |-> "erase", origin |-> todo[i].origin, index |-> todo[i].index]
       /\ mem.queue[todo[i].origin] # <<>>
       /\ FrontIndex(todo[i].origin) <= todo[i].index
  /\ todo[i].do \in {"pop", "erase"} => todo[i].index = mem.safe[todo[i].origin]

CollectsApplied(i) ==
  todo[i].do = "collect" =>
    todo[i].index \in mem.safe[todo[i].origin] .. mem.applied[todo[i].origin]

InOrderOf(first, second) ==
  /\ second.do \in {"append", "apply"} => first.do \in {"create", "append"}
  /\ first.do # "apply"
  /\ first.do = "pop" => second.do \in {"erase", "collect"}
  /\ first.do \in {"erase", "collect"} => second.do = "collect"
  /\ first.do = "collect" => second.origin # first.origin

HandlersSound ==
  /\ \A i \in DOMAIN todo :
       /\ LogsNext(i) /\ WritesWhole(i) /\ SavesBoth(i)
       /\ DeletesSafe(i) /\ PopsSafe(i) /\ CollectsApplied(i)
  /\ \A i, j \in DOMAIN todo : i < j => InOrderOf(todo[i], todo[j])
  /\ Doing("append") => Block(Op.index) \in DOMAIN files.log[Op.origin]

(* Whatever handler is cut at whatever operation, what memory, the state   *)
(* files and the logs hold fits together, so that the next start finds all *)
(* of it again (write_state, erase_queue_up_to, load_state).               *)
FilesInv ==
  /\ Types
  /\ LogsHold /\ DiskSound /\ MemorySound /\ ReaderSound /\ HandlersSound
=============================================================================
