--------------------------- MODULE StateFilesProofs ---------------------------
(***************************************************************************)
(* Proofs about module StateFiles: its inductive invariant FilesInv holds  *)
(* of every step of every handler, of a death between any two of them or   *)
(* within the writing of a state file, and of the start that follows, and  *)
(* with it what is claimed of a server at rest.  One lemma per action      *)
(* (XSound), one of its steps per conjunct of the invariant.  And about    *)
(* StateJson: every state comes back from its trees.                       *)
(***************************************************************************)
EXTENDS StateFiles, Minimum, TLAPS, FiniteSetTheorems, SequenceTheorems

-----------------------------------------------------------------------------
(* Operators of the model.                                                 *)

(* What the assumptions on the constants say of the bounds.                *)
LEMMA MaxIndexNat == MaxIndex \in Nat /\ N_MACHINES \in Nat \ {0} /\ FILE_BLOCK_SIZE \in Nat \ {0}
BY FilesAssumption, JsonAssumption

(* Later indices are in no earlier block.                                  *)
LEMMA BlockMonotone ==
  ASSUME NEW j \in Nat, NEW k \in Nat, j <= k
  PROVE  /\ Block(j) \in Nat /\ Block(k) \in Nat
         /\ Block(j) <= Block(k)
<1>. DEFINE F == FILE_BLOCK_SIZE
            p == j \div F
            q == k \div F
<1>1. F \in Nat \ {0}
  BY MaxIndexNat
<1>2. /\ p \in Int /\ F * p <= j /\ j < F * p + F
      /\ q \in Int /\ F * q <= k /\ k < F * q + F
  BY <1>1, SMT
<1>. HIDE DEF F, p, q
<1>3. p \in Nat /\ q \in Nat
  BY <1>1, <1>2, SMT
<1>4. ASSUME q < p
      PROVE  FALSE
  <2>1. q + 1 <= p
    BY <1>2, <1>4
  <2>2. F * (q + 1) <= F * p
    BY <2>1, <1>1, <1>2, SMT
  <2>3. F * (q + 1) = F * q + F
    BY <1>1, <1>2, SMT
  <2>. QED
    BY <2>2, <2>3, <1>1, <1>2, SMT
<1>. QED
  BY <1>2, <1>3, <1>4 DEF Block, p, q, F

(* The block of an index, or of the one after the last, is a block.        *)
LEMMA BlockTyped ==
  ASSUME NEW k \in Nat, k <= MaxIndex + 1
  PROVE  Block(k) \in Blocks /\ Block(k) \in Nat
<1>1. MaxIndex + 1 \in Nat
  BY MaxIndexNat
<1>2. Block(k) \in Nat /\ Block(MaxIndex + 1) \in Nat /\ Block(k) <= Block(MaxIndex + 1)
  BY <1>1, BlockMonotone
<1>. QED
  BY <1>2 DEF Blocks

(* A bag with one copy of everything, and of one thing more.               *)
LEMMA BagGrows ==
  ASSUME NEW S, NEW x, x \notin S
  PROVE  SetToBag(S) (+) SetToBag({x}) = SetToBag(S \cup {x})
BY DEF SetToBag, (+)

(* Applying the next command of an origin to the effect of all before it   *)
(* gives the effect of all up to it.                                       *)
LEMMA EffectGrows ==
  ASSUME NEW applied \in [Origin -> 0 .. MaxIndex], NEW o \in Origin
  PROVE  /\ IsABag(Effect(applied))
         /\ Effect(applied) (+) SetToBag({Record(o, applied[o] + 1)})
              = Effect([applied EXCEPT ![o] = applied[o] + 1])
<1>. DEFINE Of(a) == UNION {{Record(p, k) : k \in 1 .. a[p]} : p \in Origin}
            next == [applied EXCEPT ![o] = applied[o] + 1]
            new == Record(o, applied[o] + 1)
<1>1. /\ MaxIndex \in Nat
      /\ \A p \in Origin : applied[p] \in Nat
      /\ \A p \in Origin : next[p] = IF p = o THEN applied[p] + 1 ELSE applied[p]
  BY MaxIndexNat
<1>2. \A p, q, k, l : Record(p, k) = Record(q, l) => p = q /\ k = l
  BY DEF Record, Half
<1>3. new \notin Of(applied)
  <2>1. SUFFICES ASSUME NEW p \in Origin, NEW k \in 1 .. applied[p], new = Record(p, k)
                 PROVE  FALSE
    OBVIOUS
  <2>2. p = o /\ k = applied[o] + 1
    BY <1>2, <2>1
  <2>. QED
    BY <1>1, <2>2
<1>4. Of(next) = Of(applied) \cup {new}
  <2>1. ASSUME NEW r \in Of(next)
        PROVE  r \in Of(applied) \cup {new}
    <3>0. PICK p \in Origin : r \in {Record(p, k) : k \in 1 .. next[p]}
      OBVIOUS
    <3>1. PICK k \in 1 .. next[p] : r = Record(p, k)
      BY <3>0
    <3>2. CASE k \in 1 .. applied[p]
      BY <3>1, <3>2
    <3>3. CASE k \notin 1 .. applied[p]
      <4>1. p = o /\ k = applied[o] + 1
        BY <1>1, <3>3
      <4>. QED
        BY <3>1, <4>1
    <3>. QED
      BY <3>2, <3>3
  <2>2. ASSUME NEW r \in Of(applied)
        PROVE  r \in Of(next)
    <3>0. PICK p \in Origin : r \in {Record(p, k) : k \in 1 .. applied[p]}
      OBVIOUS
    <3>1. PICK k \in 1 .. applied[p] : r = Record(p, k)
      BY <3>0
    <3>2. k \in 1 .. next[p]
      BY <1>1
    <3>. QED
      BY <3>1, <3>2
  <2>3. new \in Of(next)
    <3>1. applied[o] + 1 \in 1 .. next[o]
      BY <1>1
    <3>. QED
      BY <3>1
  <2>. QED
    BY <2>1, <2>2, <2>3
<1>. HIDE DEF Of, next, new
<1>5. Effect(applied) = SetToBag(Of(applied)) /\ Effect(next) = SetToBag(Of(next))
  BY DEF Effect, Of
<1>6. Effect(applied) (+) SetToBag({new}) = Effect(next)
  BY <1>3, <1>4, <1>5, BagGrows
<1>7. IsABag(Effect(applied))
  BY <1>5 DEF IsABag, SetToBag
<1>. QED
  BY <1>6, <1>7 DEF next, new

(* Without commands the inboxes are as at the first start.                 *)
LEMMA EffectOfNothing == Effect(Zero) = EmptyBag
<1>1. \A p \in Origin : {Record(p, k) : k \in 1 .. Zero[p]} = {}
  BY DEF Zero
<1>2. UNION {{Record(p, k) : k \in 1 .. Zero[p]} : p \in Origin} = {}
  BY <1>1
<1>. QED
  BY <1>2 DEF Effect, EmptyBag

(* The ends of a queue without gaps: what its front is, and what it is     *)
(* after the front was popped or the next command appended.                *)
LEMMA WindowProperty ==
  ASSUME NEW from \in Nat, NEW to \in Int
  PROVE  /\ Window(from, to) \in Seq(Int)
         /\ Window(from, to) = <<>> <=> to <= from
         /\ from < to => Head(Window(from, to)) = from + 1
         /\ from < to => Tail(Window(from, to)) = Window(from + 1, to)
         /\ from <= to => Append(Window(from, to), to + 1) = Window(from, to + 1)
<1>. DEFINE w == Window(from, to)
<1>1. CASE to <= from
  <2>1. w = <<>>
    BY <1>1 DEF Window
  <2>2. from = to => Append(<<>>, to + 1) = Window(from, to + 1)
    <3>1. from = to => to + 1 - from = 1
      OBVIOUS
    <3>. QED
      BY <3>1, SMT DEF Window
  <2>. QED
    BY <1>1, <2>1, <2>2
<1>2. CASE from < to
  <2>1. w \in Seq(Int) /\ Len(w) = to - from /\ \A i \in 1 .. to - from : w[i] = from + i
    BY <1>2 DEF Window
  <2>2. w # <<>>
    BY <1>2, <2>1
  <2>. DEFINE t == Window(from + 1, to)
              a == Window(from, to + 1)
  <2>3. /\ t \in Seq(Int) /\ Len(t) = to - (from + 1)
        /\ \A i \in 1 .. to - (from + 1) : t[i] = from + 1 + i
    BY <1>2 DEF Window
  <2>4. /\ a \in Seq(Int) /\ Len(a) = to + 1 - from
        /\ \A i \in 1 .. to + 1 - from : a[i] = from + i
    BY <1>2 DEF Window
  <2>. HIDE DEF w, t, a
  <2>5. Tail(w) = t
    <3>1. Tail(w) \in Seq(Int) /\ Len(Tail(w)) = Len(t)
      BY <2>1, <2>2, <2>3, HeadTailProperties
    <3>2. \A i \in 1 .. Len(Tail(w)) : Tail(w)[i] = t[i]
      BY <2>1, <2>2, <2>3, HeadTailProperties
    <3>. QED
      BY <2>3, <3>1, <3>2, SeqEqual
  <2>6. Append(w, to + 1) = a
    <3>1. Append(w, to + 1) \in Seq(Int) /\ Len(Append(w, to + 1)) = Len(a)
      BY <2>1, <2>4
    <3>2. \A i \in 1 .. Len(a) : Append(w, to + 1)[i] = a[i]
      BY <2>1, <2>4
    <3>. QED
      BY <2>4, <3>1, <3>2, SeqEqual
  <2>7. Head(w) = from + 1
    BY <1>2, <2>1
  <2>. QED
    BY <1>2, <2>1, <2>2, <2>5, <2>6, <2>7 DEF w, t, a
<1>. QED
  BY <1>1, <1>2

(* A block has two halves for each record, and one record more is appended *)
(* at its end.                                                             *)
LEMMA RunProperty ==
  ASSUME NEW o, NEW first \in Nat, NEW last \in Nat, first <= last + 1
  PROVE  /\ Len(RunOf(o, first, last)) = 2 * (last + 1 - first)
         /\ RunOf(o, first, last) \o Record(o, last + 1) = RunOf(o, first, last + 1)
         /\ o \in Origin => RunOf(o, first, last) \in Seq(Halves)
<1>. DEFINE n == 2 * (last + 1 - first)
            H == [origin : {o}, index : Int, part : 1 .. 2]
            E(i) == Half(o, first + (i - 1) \div 2, ((i - 1) % 2) + 1)
            r == RunOf(o, first, last)
            s == RunOf(o, first, last + 1)
            x == Record(o, last + 1)
<1>1. ASSUME NEW i \in Int
      PROVE  E(i) \in H
  <2>1. first + (i - 1) \div 2 \in Int /\ ((i - 1) % 2) + 1 \in 1 .. 2
    OBVIOUS
  <2>. QED
    BY <2>1 DEF Half
<1>2. ASSUME NEW k \in Int
      PROVE  E(2 * (k - first) + 1) = Half(o, k, 1) /\ E(2 * (k - first) + 2) = Half(o, k, 2)
  <2>1. /\ (2 * (k - first) + 1 - 1) \div 2 = k - first /\ (2 * (k - first) + 1 - 1) % 2 = 0
        /\ (2 * (k - first) + 2 - 1) \div 2 = k - first /\ (2 * (k - first) + 2 - 1) % 2 = 1
    OBVIOUS
  <2>2. first + (k - first) = k
    OBVIOUS
  <2>. QED
    BY <2>1, <2>2
<1>3. r = [i \in 1 .. n |-> E(i)]
  BY DEF RunOf
<1>4. s = [i \in 1 .. n + 2 |-> E(i)]
  <2>1. 2 * (last + 1 + 1 - first) = n + 2
    OBVIOUS
  <2>. QED
    BY <2>1 DEF RunOf
<1>5. n \in Nat
  OBVIOUS
<1>6. E(n + 1) = Half(o, last + 1, 1) /\ E(n + 2) = Half(o, last + 1, 2)
  BY <1>2
<1>7. x \in Seq(H) /\ Len(x) = 2 /\ x[1] = Half(o, last + 1, 1) /\ x[2] = Half(o, last + 1, 2)
  BY DEF Record, Half
<1>9. o \in Origin => H \subseteq Halves
  BY DEF Halves
<1>. HIDE DEF n, H, E, r, s, x
<1>10. r \in Seq(H) /\ Len(r) = n /\ \A i \in 1 .. n : r[i] = E(i)
  BY <1>1, <1>3, <1>5
<1>11. s \in Seq(H) /\ Len(s) = n + 2 /\ \A i \in 1 .. n + 2 : s[i] = E(i)
  BY <1>1, <1>4, <1>5
<1>12. r \o x = s
  <2>1. /\ r \o x \in Seq(H) /\ Len(r \o x) = n + 2
        /\ \A i \in 1 .. n + 2 : (r \o x)[i] = IF i <= n THEN r[i] ELSE x[i - n]
    <3>1. /\ r \o x \in Seq(H) /\ Len(r \o x) = Len(r) + Len(x)
          /\ \A i \in 1 .. Len(r) + Len(x) :
               (r \o x)[i] = IF i <= Len(r) THEN r[i] ELSE x[i - Len(r)]
      BY <1>7, <1>10, ConcatProperties
    <3>. QED
      BY <1>7, <1>10, <3>1
  <2>2. ASSUME NEW i \in 1 .. n + 2
        PROVE  (r \o x)[i] = s[i]
    <3>1. CASE i <= n
      BY <1>5, <1>10, <1>11, <2>1, <3>1
    <3>2. CASE i = n + 1
      BY <1>5, <1>6, <1>7, <1>11, <2>1, <3>2
    <3>3. CASE i = n + 2
      BY <1>5, <1>6, <1>7, <1>11, <2>1, <3>3
    <3>4. i <= n \/ i = n + 1 \/ i = n + 2
      BY <1>5
    <3>. QED
      BY <3>1, <3>2, <3>3, <3>4
  <2>. QED
    BY <1>11, <2>1, <2>2, SeqEqual
<1>14. o \in Origin => r \in Seq(Halves)
  BY <1>9, <1>10, SeqMonotonic
<1>. QED
  BY <1>10, <1>12, <1>14 DEF r, s, n, x

(* The halves of the record of an index in a block.                        *)
RecordAt(r, i, o, k) == r[i + 1] = Half(o, k, 1) /\ r[i + 2] = Half(o, k, 2)

(* Where in a block the record of an index is.                             *)
LEMMA RunHalves ==
  ASSUME NEW o, NEW first \in Nat, NEW last \in Nat, NEW k \in first .. last,
         NEW i \in Nat, i = 2 * (k - first)
  PROVE  RecordAt(RunOf(o, first, last), i, o, k)
<1>1. i + 1 \in 1 .. 2 * (last + 1 - first) /\ i + 2 \in 1 .. 2 * (last + 1 - first)
  OBVIOUS
<1>2. /\ (i + 1 - 1) \div 2 = k - first /\ (i + 1 - 1) % 2 = 0
      /\ (i + 2 - 1) \div 2 = k - first /\ (i + 2 - 1) % 2 = 1
  OBVIOUS
<1>3. first + (k - first) = k
  OBVIOUS
<1>. QED
  BY <1>1, <1>2, <1>3 DEF RunOf, RecordAt

-----------------------------------------------------------------------------
(* The invariant gives the type invariant and what is claimed of a server  *)
(* at rest.                                                                *)

(* It gives the types.                                                     *)
LEMMA InvGivesTypes ==
  ASSUME FilesInv
  PROVE  TypeOK
<1>1. Types /\ LogsHold /\ DiskSound
  BY DEF FilesInv
<1>2. States(mem)
  <2>1. mem.applied \in [Origin -> 0 .. MaxIndex] /\ mem.inboxes = Effect(mem.applied)
    BY <1>1 DEF Types
  <2>2. 0 \in Origin
    BY MaxIndexNat DEF Origin
  <2>3. IsABag(Effect(mem.applied))
    BY <2>1, <2>2, EffectGrows
  <2>. QED
    BY <2>1, <2>3 DEF States
<1>3. ASSUME NEW o \in Origin
      PROVE  /\ DOMAIN files.log[o] \subseteq Blocks
             /\ \A b \in DOMAIN files.log[o] : files.log[o][b] \in Seq(Halves)
  <2>1. ASSUME NEW b \in DOMAIN files.log[o]
        PROVE  files.log[o][b] \in Seq(Halves)
    <3>1. PICK first \in 1 .. MaxIndex, last \in 0 .. MaxIndex :
            files.log[o][b] = RunOf(o, first, last)
      BY <1>1 DEF LogsHold, IsBlock
    <3>2. CASE first <= last + 1
      BY <3>1, <3>2, RunProperty, MaxIndexNat
    <3>3. CASE ~ (first <= last + 1)
      <4>1. first \in Int /\ last \in Int
        BY MaxIndexNat
      <4>2. 1 .. 2 * (last + 1 - first) = {}
        BY <3>3, <4>1
      <4>3. RunOf(o, first, last) = <<>>
        BY <4>2 DEF RunOf
      <4>. QED
        BY <3>1, <4>3
    <3>. QED
      BY <3>2, <3>3
  <2>. QED
    BY <1>1, <2>1 DEF Types
<1>4. /\ phase \in {"down", "reading", "running", "failed"}
      /\ mem.safe \in [Origin -> 0 .. MaxIndex]
      /\ mem.current_block \in [Origin -> Blocks]
      /\ \A o \in Origin : mem.queue[o] \in Seq(Int)
      /\ DOMAIN files.state \subseteq {"inbox_state", "log_state"}
      /\ reader.origin \in 0 .. N_MACHINES
      /\ logged \in [Origin -> 0 .. MaxIndex]
      /\ crashes \in 0 .. MaxCrashes
  BY <1>1 DEF Types
<1>5. \A file \in DOMAIN files.state : Len(files.state[file]) <= 1
  BY <1>1 DEF DiskSound
<1>. QED
  BY <1>2, <1>3, <1>4, <1>5 DEF TypeOK

(* At rest nothing is pending and every log was replayed, so that memory   *)
(* is the effect of what was logged and the queues are whole.              *)
LEMMA InvGivesRest ==
  ASSUME FilesInv
  PROVE  NothingLostNothingTwice /\ QueuesComeBack
<1>. SUFFICES ASSUME AtRest
              PROVE  /\ mem.applied = logged
                     /\ mem.inboxes = SetToBag(UNION {{Record(o, k) : k \in 1 .. logged[o]} : o \in Origin})
                     /\ \A o \in Origin :
                          mem.queue[o] = [i \in 1 .. logged[o] - mem.safe[o] |-> mem.safe[o] + i]
  BY DEF NothingLostNothingTwice, QueuesComeBack
<1>1. Types /\ MemorySound /\ Alive /\ phase = "running" /\ todo = <<>>
  BY DEF FilesInv, AtRest, Alive
<1>2. reader.origin = N_MACHINES /\ MaxIndex \in Nat
  BY <1>1, MaxIndexNat DEF Types, NoReader
<1>3. ASSUME NEW o \in Origin
      PROVE  /\ mem.applied[o] = logged[o]
             /\ mem.queue[o] = Window(mem.safe[o], logged[o])
  <2>1. ~ Collecting(o)
    BY <1>1 DEF Collecting
  <2>2. Cursor(o) = logged[o]
    <3>1. o < reader.origin
      BY <1>2, MaxIndexNat DEF Origin
    <3>. QED
      BY <1>1, <3>1 DEF Cursor, Pending, Doing, Sought
  <2>3. logged[o] <= mem.applied[o] /\ mem.applied[o] <= logged[o]
    BY <1>1, <2>2 DEF MemorySound
  <2>4. logged[o] \in Int /\ mem.applied[o] \in Int
    BY <1>1, <1>2 DEF Types
  <2>. QED
    BY <1>1, <2>1, <2>2, <2>3, <2>4 DEF MemorySound
<1>4. mem.applied = logged
  <2>1. mem.applied \in [Origin -> 0 .. MaxIndex] /\ logged \in [Origin -> 0 .. MaxIndex]
    BY <1>1 DEF Types
  <2>. QED
    BY <1>3, <2>1
<1>5. mem.inboxes = Effect(logged)
  BY <1>1, <1>4 DEF Types
<1>. QED
  BY <1>3, <1>4, <1>5 DEF Effect, Window

-----------------------------------------------------------------------------
(* Parts of the invariant that a step leaves alone.                        *)

(* The state of a server that has read nothing.                            *)
LEMMA EmptyIsTyped ==
  /\ Empty.applied = Zero /\ Empty.safe = Zero
  /\ Empty \in [applied : [Origin -> 0 .. MaxIndex], inboxes : {Effect(Empty.applied)},
                safe : [Origin -> 0 .. MaxIndex], current_block : [Origin -> Blocks],
                queue : [Origin -> Seq(Int)]]
  /\ Zero \in [Origin -> 0 .. MaxIndex]
<1>1. Zero \in [Origin -> 0 .. MaxIndex]
  BY MaxIndexNat DEF Zero
<1>2. Zero \in [Origin -> Blocks]
  <2>1. Block(MaxIndex + 1) \in Nat
    BY BlockMonotone, MaxIndexNat
  <2>. QED
    BY <2>1 DEF Zero, Blocks
<1>3. [o \in Origin |-> <<>>] \in [Origin -> Seq(Int)]
  OBVIOUS
<1>. QED
  BY <1>1, <1>2, <1>3, EffectOfNothing DEF Empty

(* The local variables of read_log_files before it runs.                   *)
LEMMA NoReaderIsTyped ==
  NoReader \in [origin : 0 .. N_MACHINES, index : Nat, block : Nat, pos : Nat,
                open : BOOLEAN, eof : BOOLEAN, buf : {NoReader.buf}]
BY MaxIndexNat DEF NoReader

(* Logs that no step touched hold what they held.                          *)
LEMMA LogsKept ==
  ASSUME LogsHold, files'.log = files.log, logged' = logged, ~ Doing("append")
  PROVE  LogsHold'
<1>1. ASSUME NEW o \in Origin, NEW b \in DOMAIN files'.log[o]
      PROVE  \E first \in 1 .. MaxIndex, last \in 0 .. MaxIndex :
               IsBlock(o, b, first, last)' /\ first <= last
  <2>1. b \in DOMAIN files.log[o]
    OBVIOUS
  <2>2. PICK first \in 1 .. MaxIndex, last \in 0 .. MaxIndex :
          IsBlock(o, b, first, last) /\ first <= last
    BY <2>1 DEF LogsHold
  <2>3. IsBlock(o, b, first, last)'
    BY <2>2 DEF IsBlock
  <2>. QED
    BY <2>2, <2>3
<1>. QED
  BY <1>1 DEF LogsHold

(* Logs that are complete from some indices are so from later ones.        *)
LEMMA CompleteFromMore ==
  ASSUME NEW a \in [Origin -> Nat], NEW b \in [Origin -> Nat],
         logged \in [Origin -> Nat],
         \A o \in Origin : a[o] <= b[o], CompleteFrom(a)
  PROVE  CompleteFrom(b)
<1>1. ASSUME NEW o \in Origin, NEW k \in 1 .. logged[o], b[o] <= k
      PROVE  Block(k) \in DOMAIN files.log[o]
  <2>1. a[o] <= k
    <3>1. a[o] \in Nat /\ b[o] \in Nat /\ a[o] <= b[o] /\ logged[o] \in Nat
      OBVIOUS
    <3>. QED
      BY <1>1, <3>1
  <2>. QED
    BY <2>1 DEF CompleteFrom
<1>. QED
  BY <1>1 DEF CompleteFrom

(* The files stay sound while no file changes and nothing becomes unsafe.  *)
LEMMA DiskKept ==
  ASSUME Types, DiskSound, files' = files, logged' = logged, ~ Doing("write"),
         Alive' => /\ Alive
                   /\ mem'.safe \in [Origin -> 0 .. MaxIndex]
                   /\ \A o \in Origin : mem.safe[o] <= mem'.safe[o]
  PROVE  DiskSound'
<1>1. SavedOnDisk' = SavedOnDisk /\ SafeOnDisk' = SafeOnDisk
  BY DEF SavedOnDisk, SafeOnDisk, Exists
<1>2. logged \in [Origin -> Nat] /\ mem.safe \in [Origin -> Nat] /\ MaxIndex \in Nat
  BY MaxIndexNat DEF Types
<1>5. (Alive => CompleteFrom(mem.safe))'
  <2>. SUFFICES ASSUME Alive'
                PROVE  CompleteFrom(mem.safe)'
    OBVIOUS
  <2>1. mem'.safe \in [Origin -> Nat]
    BY <1>2
  <2>2. CompleteFrom(mem.safe)
    BY DEF DiskSound
  <2>3. CompleteFrom(mem'.safe)
    BY <1>2, <2>1, <2>2, CompleteFromMore
  <2>. QED
    BY <2>3 DEF CompleteFrom
<1>6. \A file \in DOMAIN files'.state : Len(files'.state[file]) <= 1
  BY DEF DiskSound
<1>7. SavedSound'
  BY <1>1 DEF DiskSound, SavedSound
<1>8. SafeSound'
  <2>. SUFFICES ASSUME SafeOnDisk # <<>>
                PROVE  /\ Head(SafeOnDisk) \in [Origin -> 0 .. MaxIndex]
                       /\ SafeOnDisk = <<Head(SafeOnDisk)>>
                       /\ CompleteFrom(Head(SafeOnDisk))
                       /\ Alive' => \A o \in Origin : Head(SafeOnDisk)[o] <= mem'.safe[o]
    BY <1>1 DEF CompleteFrom, SafeSound
  <2>1. /\ Head(SafeOnDisk) \in [Origin -> 0 .. MaxIndex]
        /\ SafeOnDisk = <<Head(SafeOnDisk)>>
        /\ CompleteFrom(Head(SafeOnDisk))
        /\ Alive => \A o \in Origin : Head(SafeOnDisk)[o] <= mem.safe[o]
    BY DEF DiskSound, SafeSound
  <2>2. ASSUME Alive', NEW o \in Origin
        PROVE  Head(SafeOnDisk)[o] <= mem'.safe[o]
    <3>1. Head(SafeOnDisk)[o] <= mem.safe[o] /\ mem.safe[o] <= mem'.safe[o]
      BY <2>1, <2>2
    <3>2. Head(SafeOnDisk)[o] \in Int /\ mem.safe[o] \in Int /\ mem'.safe[o] \in Int
      BY <1>2, <2>1, <2>2
    <3>. QED
      BY <3>1, <3>2
  <2>. QED
    BY <2>1, <2>2
<1>9. TornWhileWritten'
  BY DEF DiskSound, TornWhileWritten
<1>. QED
  BY <1>5, <1>6, <1>7, <1>8, <1>9 DEF DiskSound

(* Memory stays sound while it and the reader do not change.               *)
LEMMA MemoryKept ==
  ASSUME MemorySound, mem' = mem, logged' = logged, reader' = reader,
         Alive' => Alive, ~ Doing("apply"), ~ Doing("apply")',
         \A o \in Origin : Collecting(o) => Collecting(o)'
  PROVE  MemorySound'
<1>. SUFFICES ASSUME Alive', NEW o \in Origin
              PROVE  (/\ mem.safe[o] <= Cursor(o) /\ Cursor(o) <= mem.applied[o]
                      /\ mem.applied[o] <= logged[o]
                      /\ Pending(o) => Op.command = Record(o, Cursor(o) + 1)
                                         /\ mem.applied[o] = Cursor(o)
                      /\ \E from \in 0 .. mem.safe[o] :
                           /\ mem.queue[o] = Window(from, Cursor(o))
                           /\ ~Collecting(o) => from = mem.safe[o])'
  BY DEF MemorySound
<1>1. ~ Pending(o) /\ ~ Pending(o)'
  BY DEF Pending
<1>2. Cursor(o)' = Cursor(o)
  BY <1>1 DEF Cursor, Sought
<1>. QED
  BY <1>1, <1>2 DEF MemorySound

(* The reader stays where it is while neither it nor the logs change.      *)
LEMMA ReaderKept ==
  ASSUME ReaderSound, phase' = phase,
         phase = "reading" => /\ files'.log = files.log /\ logged' = logged
                              /\ reader' = reader /\ mem'.safe = mem.safe
  PROVE  ReaderSound'
<1>1. CASE phase = "reading"
  <2>1. \A o, b, first, last : IsBlock(o, b, first, last)' <=> IsBlock(o, b, first, last)
    BY <1>1 DEF IsBlock
  <2>. QED
    BY <1>1, <2>1 DEF ReaderSound
<1>2. CASE phase # "reading"
  BY <1>2 DEF ReaderSound
<1>. QED
  BY <1>1, <1>2

-----------------------------------------------------------------------------
(* What is left of a handler once its first operation is done.             *)

(* The first operation of a handler, and the rest.                         *)
LEMMA OpProperty ==
  ASSUME Types, todo # <<>>
  PROVE  /\ Len(todo) \in Nat \ {0}
         /\ DOMAIN todo = 1 .. Len(todo)
         /\ Op = todo[1] /\ Op \in OpTypes
         /\ Tail(todo) \in Seq(OpTypes)
         /\ Len(Tail(todo)) = Len(todo) - 1
         /\ DOMAIN Tail(todo) = 1 .. Len(todo) - 1
         /\ \A i \in 1 .. Len(todo) - 1 : Tail(todo)[i] = todo[i + 1]
         /\ \A i \in 1 .. Len(todo) : todo[i] \in OpTypes
<1>1. todo \in Seq(OpTypes)
  BY DEF Types
<1>2. Len(todo) \in Nat \ {0} /\ DOMAIN todo = 1 .. Len(todo)
  BY <1>1, EmptySeq, LenProperties
<1>3. /\ Tail(todo) \in Seq(OpTypes) /\ Len(Tail(todo)) = Len(todo) - 1
      /\ \A i \in 1 .. Len(todo) - 1 : Tail(todo)[i] = todo[i + 1]
  BY <1>1, HeadTailProperties
<1>4. DOMAIN Tail(todo) = 1 .. Len(todo) - 1
  BY <1>3, LenProperties
<1>5. Op = todo[1]
  BY DEF Op
<1>6. \A i \in 1 .. Len(todo) : todo[i] \in OpTypes
  BY <1>1, ElementOfSeq
<1>. QED
  BY <1>2, <1>3, <1>4, <1>5, <1>6

(* A pair and one more make a triple.                                      *)
LEMMA ThreeInARow ==
  ASSUME NEW a, NEW b, NEW c
  PROVE  <<a, b>> \o <<c>> = <<a, b, c>>
<1>. DEFINE S == {a, b, c}
            t == <<a, b, c>>
<1>1. <<a, b>> \in Seq(S) /\ <<c>> \in Seq(S) /\ Len(<<a, b>>) = 2 /\ Len(<<c>>) = 1
  OBVIOUS
<1>2. t \in Seq(S) /\ Len(t) = 3
  OBVIOUS
<1>3. /\ <<a, b>> \o <<c>> \in Seq(S) /\ Len(<<a, b>> \o <<c>>) = 3
      /\ \A i \in 1 .. 3 : (<<a, b>> \o <<c>>)[i] = IF i <= 2 THEN <<a, b>>[i] ELSE <<c>>[i - 2]
  BY <1>1, ConcatProperties
<1>4. ASSUME NEW i \in 1 .. 3
      PROVE  (<<a, b>> \o <<c>>)[i] = t[i]
  <2>1. CASE i = 1
    BY <1>3, <2>1
  <2>2. CASE i = 2
    BY <1>3, <2>2
  <2>3. CASE i = 3
    BY <1>3, <2>3
  <2>. QED
    BY <2>1, <2>2, <2>3
<1>. HIDE DEF S, t
<1>. QED
  BY <1>2, <1>3, <1>4, SeqEqual DEF t

(* The handler of a new command has three operations.                      *)
LEMMA NewCommandProperty ==
  ASSUME NEW o \in Origin, NEW k \in 1 .. MaxIndex
  PROVE  LET create == [do |-> "create", origin |-> o, index |-> k]
             append == [do |-> "append", origin |-> o, index |-> k]
             apply == [do |-> "apply", command |-> Record(o, k)]
         IN  /\ create \in OpTypes /\ append \in OpTypes /\ apply \in OpTypes
             /\ NewCommand(o, k) = <<create, append, apply>>
             /\ Tail(NewCommand(o, k)) = <<append, apply>>
<1>. DEFINE create == [do |-> "create", origin |-> o, index |-> k]
            append == [do |-> "append", origin |-> o, index |-> k]
            apply == [do |-> "apply", command |-> Record(o, k)]
<1>1. create \in OpTypes /\ append \in OpTypes /\ apply \in OpTypes
  BY DEF OpTypes
<1>2. NewCommand(o, k) = <<create, append>> \o <<apply>>
  BY DEF NewCommand, WriteCommandToLog
<1>. HIDE DEF create, append, apply
<1>3. <<create, append>> \o <<apply>> = <<create, append, apply>>
  BY ThreeInARow
<1>4. Tail(<<create, append, apply>>) = <<append, apply>>
  OBVIOUS
<1>. QED
  BY <1>1, <1>2, <1>3, <1>4 DEF create, append, apply

(* Only the handler of a new command creates files and appends records.    *)
LEMMA NothingLogged ==
  ASSUME Types, HandlersSound, todo # <<>>, Op.do \notin {"create", "append"}
  PROVE  \A i \in DOMAIN todo : todo[i].do \notin {"create", "append"}
<1>. SUFFICES ASSUME NEW i \in DOMAIN todo, todo[i].do \in {"create", "append"}
              PROVE  FALSE
  OBVIOUS
<1>1. PICK o \in Origin :
        todo \in {NewCommand(o, logged[o] + 1), Tail(NewCommand(o, logged[o] + 1))}
  BY DEF HandlersSound, LogsNext
<1>. DEFINE k == logged[o] + 1
            create == [do |-> "create", origin |-> o, index |-> k]
            append == [do |-> "append", origin |-> o, index |-> k]
            apply == [do |-> "apply", command |-> Record(o, k)]
<1>2. NewCommand(o, k) = <<create, append>> \o <<apply>>
  BY DEF NewCommand, WriteCommandToLog
<1>3. create.do = "create" /\ append.do = "append"
  OBVIOUS
<1>. HIDE DEF k, create, append, apply
<1>4. <<create, append>> \o <<apply>> = <<create, append, apply>>
  BY ThreeInARow
<1>5. Tail(<<create, append, apply>>) = <<append, apply>>
  OBVIOUS
<1>6. Head(<<create, append, apply>>) = create /\ Head(<<append, apply>>) = append
  OBVIOUS
<1>7. Op \in {create, append}
  BY <1>1, <1>2, <1>4, <1>5, <1>6 DEF Op, k
<1>. QED
  BY <1>3, <1>7

(* What is left of a handler after its first operation can still be cut    *)
(* anywhere, if that operation did to the state files what it is for.      *)
LEMMA TailSound ==
  ASSUME Types, HandlersSound, todo # <<>>, todo' = Tail(todo),
         Op.do \notin {"create", "append"},
         mem'.safe = mem.safe, mem'.applied = mem.applied, mem'.inboxes = mem.inboxes,
         \A i \in 2 .. Len(todo) :
           todo[i].do = "pop" => mem'.queue[todo[i].origin] = mem.queue[todo[i].origin],
         \/ SavedOnDisk' \in {SavedOnDisk, <<Saved(mem)>>}
         \/ Len(todo) > 1 /\ todo[2] = [do |-> "write", file |-> "inbox_state"],
         Op = [do |-> "write", file |-> "inbox_state"] => SavedOnDisk' = <<Saved(mem)>>,
         \/ SafeOnDisk' \in {SafeOnDisk, <<mem.safe>>}
         \/ Len(todo) > 1 /\ todo[2] = [do |-> "write", file |-> "log_state"],
         Op = [do |-> "write", file |-> "log_state"] => SafeOnDisk' = <<mem.safe>>
  PROVE  HandlersSound'
<1>. DEFINE n == Len(todo)
<1>1. /\ n \in Nat \ {0} /\ DOMAIN todo = 1 .. n /\ Op = todo[1]
      /\ Len(todo') = n - 1 /\ DOMAIN todo' = 1 .. n - 1
      /\ \A i \in 1 .. n - 1 : todo'[i] = todo[i + 1]
      /\ todo' \in Seq(OpTypes)
  BY OpProperty
<1>2. \A i \in 1 .. n : todo[i].do \notin {"create", "append"}
  BY <1>1, NothingLogged
<1>3. Saved(mem)' = Saved(mem)
  BY DEF Saved
<1>. HIDE DEF n
<1>4. ASSUME NEW i \in 1 .. n - 1
      PROVE  (/\ LogsNext(i) /\ WritesWhole(i) /\ SavesBoth(i)
              /\ DeletesSafe(i) /\ PopsSafe(i) /\ CollectsApplied(i))'
  <2>1. /\ i + 1 \in 1 .. n /\ i + 1 \in 2 .. n /\ todo'[i] = todo[i + 1]
        /\ i \in Int /\ n \in Int
        /\ WritesWhole(i + 1) /\ SavesBoth(i + 1)
        /\ DeletesSafe(i + 1) /\ PopsSafe(i + 1) /\ CollectsApplied(i + 1)
    BY <1>1 DEF HandlersSound
  <2>2. i + 1 < n => i < n - 1 /\ i + 1 \in 1 .. n - 1 /\ todo'[i + 1] = todo[i + 1 + 1]
    BY <1>1, <2>1
  <2>3. LogsNext(i)'
    BY <1>2, <2>1 DEF LogsNext
  <2>4. WritesWhole(i)'
    BY <1>1, <2>1, <2>2 DEF WritesWhole, n
  <2>5. ASSUME NEW op, Before(i + 1, op), op # Op
        PROVE  Before(i, op)'
    <3>1. PICK j \in 1 .. i : todo[j] = op
      BY <2>1, <2>5 DEF Before
    <3>2. j # 1
      BY <1>1, <2>5, <3>1
    <3>3. j - 1 \in 1 .. i - 1 /\ j - 1 \in 1 .. n - 1 /\ j - 1 + 1 = j
      BY <2>1, <3>2
    <3>4. todo'[j - 1] = op
      BY <1>1, <3>1, <3>3
    <3>. QED
      BY <3>3, <3>4 DEF Before
  <2>6. ASSUME NEW op, n > 1, todo[2] = op, todo[i + 1] # op
        PROVE  Before(i, op)'
    <3>1. 1 \in 1 .. n - 1 /\ todo'[1] = op
      BY <1>1, <2>6
    <3>2. i # 1
      BY <2>1, <2>6, <3>1
    <3>3. 1 \in 1 .. i - 1
      BY <2>1, <3>2
    <3>. QED
      BY <3>1, <3>3 DEF Before
  <2>7. SavesBoth(i)'
    <3>. DEFINE w == [do |-> "write", file |-> "inbox_state"]
    <3>. SUFFICES ASSUME todo[i + 1].do \in {"truncate", "write"}, todo[i + 1].file = "log_state"
                  PROVE  SavedOnDisk' = <<Saved(mem)>> \/ Before(i, w)'
      BY <1>3, <2>1 DEF SavesBoth
    <3>1. SavedOnDisk = <<Saved(mem)>> \/ Before(i + 1, w)
      BY <2>1 DEF SavesBoth
    <3>2. todo[i + 1] # w
      OBVIOUS
    <3>. HIDE DEF w
    <3>3. CASE SavedOnDisk' = <<Saved(mem)>>
      BY <3>3
    <3>4. CASE n > 1 /\ todo[2] = w
      BY <2>6, <3>2, <3>4
    <3>5. CASE SavedOnDisk' = SavedOnDisk /\ Before(i + 1, w)
      BY <2>5, <3>5 DEF w
    <3>. QED
      BY <3>1, <3>3, <3>4, <3>5 DEF w, n
  <2>8. DeletesSafe(i)'
    <3>. DEFINE w == [do |-> "write", file |-> "log_state"]
    <3>. SUFFICES ASSUME todo[i + 1].do = "delete"
                  PROVE  /\ todo[i + 1].block < Block(mem.safe[todo[i + 1].origin])
                         /\ SafeOnDisk' = <<mem.safe>> \/ Before(i, w)'
      BY <2>1 DEF DeletesSafe
    <3>1. /\ todo[i + 1].block < Block(mem.safe[todo[i + 1].origin])
          /\ SafeOnDisk = <<mem.safe>> \/ Before(i + 1, w)
      BY <2>1 DEF DeletesSafe
    <3>2. todo[i + 1] # w
      OBVIOUS
    <3>. HIDE DEF w
    <3>3. CASE SafeOnDisk' = <<mem.safe>>
      BY <3>1, <3>3
    <3>4. CASE n > 1 /\ todo[2] = w
      BY <2>6, <3>1, <3>2, <3>4
    <3>5. CASE SafeOnDisk' = SafeOnDisk /\ Before(i + 1, w)
      BY <2>5, <3>1, <3>5 DEF w
    <3>. QED
      BY <3>1, <3>3, <3>4, <3>5 DEF w, n
  <2>9. PopsSafe(i)'
    BY <1>1, <2>1, <2>2 DEF PopsSafe, FrontIndex, n
  <2>10. CollectsApplied(i)'
    BY <2>1 DEF CollectsApplied
  <2>. QED
    BY <2>3, <2>4, <2>7, <2>8, <2>9, <2>10
<1>5. ASSUME NEW i \in 1 .. n - 1, NEW j \in 1 .. n - 1, i < j
      PROVE  InOrderOf(todo'[i], todo'[j])
  <2>1. i + 1 \in 1 .. n /\ j + 1 \in 1 .. n /\ i + 1 < j + 1
    BY <1>1, <1>5
  <2>2. InOrderOf(todo[i + 1], todo[j + 1])
    BY <1>1, <1>5, <2>1 DEF HandlersSound
  <2>. QED
    BY <1>1, <2>2
<1>6. ~ Doing("append")'
  <2>. SUFFICES ASSUME todo' # <<>>
                PROVE  Head(todo').do # "append"
    BY DEF Doing
  <2>1. Len(todo') # 0 /\ Head(todo') = todo'[1]
    BY <1>1
  <2>2. 1 \in 1 .. n - 1 /\ 1 + 1 \in 1 .. n
    BY <1>1, <2>1
  <2>. QED
    BY <1>1, <1>2, <2>1, <2>2
<1>. QED
  BY <1>1, <1>4, <1>5, <1>6 DEF HandlersSound, InOrderOf

(* Nothing but logging is followed by an append or by an apply.            *)
LEMMA TailStarts ==
  ASSUME Types, HandlersSound, todo # <<>>, todo' = Tail(todo),
         Op.do \notin {"create", "append"}
  PROVE  ~ Doing("apply")' /\ ~ Doing("append")'
<1>. SUFFICES ASSUME todo' # <<>>
              PROVE  Head(todo').do \notin {"apply", "append"}
  BY DEF Doing
<1>1. /\ Len(todo) \in Nat \ {0} /\ DOMAIN todo = 1 .. Len(todo) /\ Op = todo[1]
      /\ todo' \in Seq(OpTypes) /\ Len(todo') = Len(todo) - 1
      /\ \A i \in 1 .. Len(todo) - 1 : todo'[i] = todo[i + 1]
  BY OpProperty
<1>2. Len(todo') # 0 /\ Head(todo') = todo'[1]
  BY <1>1
<1>3. 1 \in 1 .. Len(todo) /\ 2 \in 1 .. Len(todo) /\ Head(todo') = todo[2]
  BY <1>1, <1>2
<1>4. InOrderOf(todo[1], todo[2])
  BY <1>1, <1>3 DEF HandlersSound
<1>. QED
  BY <1>1, <1>3, <1>4 DEF InOrderOf

(* The fields that each kind of operation has.                             *)
LEMMA OpKinds ==
  ASSUME NEW op \in OpTypes
  PROVE  /\ op.do \in {"truncate", "write"} =>
              /\ op.file \in {"inbox_state", "log_state"}
              /\ op = [do |-> op.do, file |-> op.file]
         /\ op.do \in {"create", "append"} => op.origin \in Origin /\ op.index \in 1 .. MaxIndex
         /\ op.do = "apply" =>
              \E o \in Origin, k \in 1 .. MaxIndex : op = [do |-> "apply", command |-> Record(o, k)]
         /\ op.do \in {"collect", "erase", "pop"} =>
              /\ op.origin \in Origin /\ op.index \in 0 .. MaxIndex
              /\ op = [do |-> op.do, origin |-> op.origin, index |-> op.index]
         /\ op.do = "delete" => op.origin \in Origin /\ op.block \in Blocks
BY DEF OpTypes

(* Only a process that is alive has something to do.                       *)
LEMMA Busy ==
  ASSUME Types, todo # <<>>
  PROVE  Alive
BY DEF Types

(* A step that does the first operation and changes only files.            *)
LEMMA FilesStepTyped ==
  ASSUME Types, todo # <<>>, todo' = Tail(todo),
         UNCHANGED <<phase, mem, reader, crashes>>,
         logged' \in [Origin -> 0 .. MaxIndex],
         DOMAIN files' = {"state", "log"}, DOMAIN files'.log = Origin,
         DOMAIN files'.state \subseteq {"inbox_state", "log_state"},
         \A o \in Origin : DOMAIN files'.log[o] \subseteq Blocks
  PROVE  Types'
<1>1. /\ todo' \in Seq(OpTypes) /\ DOMAIN todo' = 1 .. Len(todo) - 1
      /\ Len(todo) \in Nat /\ DOMAIN todo = 1 .. Len(todo)
      /\ \A i \in 1 .. Len(todo) - 1 : todo'[i] = todo[i + 1]
  BY OpProperty
<1>2. phase = "reading" =>
        \A i \in DOMAIN todo' : todo'[i].do \in {"apply", "truncate", "write"}
  <2>1. \A i \in 1 .. Len(todo) - 1 : i + 1 \in 1 .. Len(todo)
    BY <1>1
  <2>. QED
    BY <1>1, <2>1 DEF Types
<1>3. Alive
  BY Busy
<1>. QED
  BY <1>1, <1>2, <1>3 DEF Types, Alive

(* A state file gets a new content, the rest of the directory does not.    *)
LEMMA FileWritten ==
  ASSUME Types, NEW file \in {"inbox_state", "log_state"}, NEW content,
         files' = [files EXCEPT !.state = Holds(@, file, content)]
  PROVE  /\ files'.log = files.log /\ DOMAIN files' = {"state", "log"}
         /\ DOMAIN files'.state = DOMAIN files.state \cup {file}
         /\ files'.state[file] = content
         /\ \A f \in DOMAIN files.state : f # file => files'.state[f] = files.state[f]
         /\ SavedOnDisk' = IF file = "inbox_state" THEN content ELSE SavedOnDisk
         /\ SafeOnDisk' = IF file = "log_state" THEN content ELSE SafeOnDisk
<1>1. DOMAIN files = {"state", "log"}
  BY DEF Types
<1>2. /\ files'.log = files.log /\ DOMAIN files' = {"state", "log"}
      /\ files'.state = Holds(files.state, file, content)
  BY <1>1
<1>3. /\ DOMAIN files'.state = DOMAIN files.state \cup {file}
      /\ files'.state[file] = content
      /\ \A f \in DOMAIN files.state : f # file => files'.state[f] = files.state[f]
  <2>. DEFINE new == Holds(files.state, file, content)
  <2>1. /\ DOMAIN new = DOMAIN files.state \cup {file} /\ new[file] = content
        /\ \A f \in DOMAIN files.state : f # file => new[f] = files.state[f]
    BY DEF Holds
  <2>. HIDE DEF new
  <2>2. files'.state = new
    BY <1>2 DEF new
  <2>. QED
    BY <2>1, <2>2
<1>4. Saved(Empty)' = Saved(Empty) /\ Zero' = Zero
  BY DEF Saved, Empty, Zero
<1>5. SavedOnDisk' = IF file = "inbox_state" THEN content ELSE SavedOnDisk
  BY <1>3, <1>4 DEF SavedOnDisk, Exists
<1>6. SafeOnDisk' = IF file = "log_state" THEN content ELSE SafeOnDisk
  BY <1>3, <1>4 DEF SafeOnDisk, Exists
<1>. QED
  BY <1>2, <1>3, <1>5, <1>6

(* How far the commands of an origin have come is a number.                *)
LEMMA CursorTyped ==
  ASSUME Types, NEW o \in Origin
  PROVE  Sought(o) \in Int /\ Cursor(o) \in Int
<1>1. logged[o] \in Int /\ reader.index - 1 \in Int /\ mem.safe[o] \in Int
  BY MaxIndexNat DEF Types
<1>. QED
  BY <1>1 DEF Cursor, Sought

(* A collection that was not the first operation is still to be done.      *)
LEMMA CollectingStays ==
  ASSUME Types, todo # <<>>, todo' = Tail(todo), NEW o \in Origin,
         ~ (Op.do = "erase" /\ Op.origin = o), Collecting(o)
  PROVE  Collecting(o)'
<1>1. /\ Len(todo) \in Nat \ {0} /\ DOMAIN todo = 1 .. Len(todo) /\ Op = todo[1]
      /\ DOMAIN todo' = 1 .. Len(todo) - 1
      /\ \A i \in 1 .. Len(todo) - 1 : todo'[i] = todo[i + 1]
  BY OpProperty
<1>2. PICK i \in DOMAIN todo : todo[i].do = "erase" /\ todo[i].origin = o
  BY DEF Collecting
<1>3. i # 1
  BY <1>1, <1>2
<1>4. i - 1 \in 1 .. Len(todo) - 1 /\ i - 1 + 1 = i
  BY <1>1, <1>3
<1>5. todo'[i - 1] = todo[i]
  BY <1>1, <1>4
<1>. QED
  BY <1>1, <1>2, <1>4, <1>5 DEF Collecting

-----------------------------------------------------------------------------
(* The single operations.                                                  *)

(* write_json opens a state file: it is torn until the next operation.     *)
LEMMA TruncateSound ==
  ASSUME FilesInv, Truncate
  PROVE  FilesInv'
<1>1. /\ Types /\ LogsHold /\ DiskSound /\ MemorySound /\ ReaderSound /\ HandlersSound
      /\ todo # <<>> /\ Op.do = "truncate" /\ todo' = Tail(todo)
      /\ files' = [files EXCEPT !.state = Holds(@, Op.file, <<>>)]
      /\ UNCHANGED <<phase, mem, reader, logged, crashes>>
  BY DEF FilesInv, Truncate, Doing, Op
<1>2. /\ Op \in OpTypes /\ Op.file \in {"inbox_state", "log_state"}
      /\ Op = [do |-> "truncate", file |-> Op.file]
      /\ 1 \in DOMAIN todo /\ Op = todo[1] /\ Alive
  BY <1>1, OpProperty, OpKinds, Busy
<1>3. /\ files'.log = files.log /\ DOMAIN files' = {"state", "log"}
      /\ DOMAIN files'.state = DOMAIN files.state \cup {Op.file}
      /\ files'.state[Op.file] = <<>>
      /\ \A f \in DOMAIN files.state : f # Op.file => files'.state[f] = files.state[f]
      /\ SavedOnDisk' = IF Op.file = "inbox_state" THEN <<>> ELSE SavedOnDisk
      /\ SafeOnDisk' = IF Op.file = "log_state" THEN <<>> ELSE SafeOnDisk
  BY <1>1, <1>2, FileWritten
<1>4. Len(todo) > 1 /\ todo[2] = [do |-> "write", file |-> Op.file]
  <2>1. WritesWhole(1) /\ Len(todo) \in Nat
    BY <1>1, <1>2, OpProperty DEF HandlersSound
  <2>. QED
    BY <1>1, <1>2, <2>1 DEF WritesWhole
<1>5. Types'
  <2>1. /\ DOMAIN files'.log = Origin /\ DOMAIN files'.state \subseteq {"inbox_state", "log_state"}
        /\ \A o \in Origin : DOMAIN files'.log[o] \subseteq Blocks
        /\ logged' \in [Origin -> 0 .. MaxIndex]
    BY <1>1, <1>2, <1>3 DEF Types
  <2>. QED
    BY <1>1, <1>3, <2>1, FilesStepTyped
<1>6. LogsHold'
  BY <1>1, <1>3, LogsKept DEF Doing, Op
<1>7. Doing("write")' /\ Op'.file = Op.file
  <2>1. /\ todo' \in Seq(OpTypes) /\ Len(todo') = Len(todo) - 1 /\ Len(todo) \in Nat
        /\ \A i \in 1 .. Len(todo) - 1 : todo'[i] = todo[i + 1]
    BY <1>1, OpProperty
  <2>2. todo' # <<>> /\ Head(todo') = todo'[1] /\ todo'[1] = todo[2]
    BY <1>4, <2>1
  <2>. QED
    BY <1>4, <2>2 DEF Doing, Op
<1>8. DiskSound'
  <2>2. SavedSound'
    BY <1>1, <1>3 DEF DiskSound, SavedSound
  <2>3. SafeSound'
    <3>. SUFFICES ASSUME SafeOnDisk' # <<>>
                  PROVE  /\ SafeOnDisk' = SafeOnDisk
                         /\ Head(SafeOnDisk) \in [Origin -> 0 .. MaxIndex]
                         /\ SafeOnDisk = <<Head(SafeOnDisk)>>
                         /\ CompleteFrom(Head(SafeOnDisk))
                         /\ \A o \in Origin : Head(SafeOnDisk)[o] <= mem.safe[o]
      BY <1>1, <1>3 DEF CompleteFrom, SafeSound
    <3>. QED
      BY <1>1, <1>2, <1>3 DEF DiskSound, SafeSound
  <2>4. (Alive => CompleteFrom(mem.safe))'
    BY <1>1, <1>2, <1>3 DEF DiskSound, CompleteFrom
  <2>5. \A file \in DOMAIN files'.state : Len(files'.state[file]) <= 1
    BY <1>1, <1>3 DEF DiskSound
  <2>6. TornWhileWritten'
    BY <1>1, <1>3, <1>7 DEF DiskSound, TornWhileWritten, Doing, Op
  <2>. QED
    BY <2>2, <2>3, <2>4, <2>5, <2>6 DEF DiskSound
<1>9. MemorySound'
  <2>1. ~ Doing("apply") /\ ~ Doing("apply")'
    BY <1>1, <1>7 DEF Doing, Op
  <2>2. \A o \in Origin : Collecting(o) => Collecting(o)'
    BY <1>1, <1>2, CollectingStays
  <2>3. Alive' => Alive
    BY <1>1 DEF Alive
  <2>. QED
    BY <1>1, <2>1, <2>2, <2>3, MemoryKept
<1>10. ReaderSound'
  BY <1>1, <1>3, ReaderKept
<1>11. HandlersSound'
  <2>1. SavedOnDisk' = SavedOnDisk \/ Op.file = "inbox_state"
    BY <1>3
  <2>2. SafeOnDisk' = SafeOnDisk \/ Op.file = "log_state"
    BY <1>3
  <2>. QED
    BY <1>1, <1>2, <1>4, <2>1, <2>2, TailSound
<1>. QED
  BY <1>5, <1>6, <1>8, <1>9, <1>10, <1>11 DEF FilesInv

(* write_json writes a state file: inbox_state what memory has, which      *)
(* covers what log_state calls safe; log_state what is safe in memory.     *)
LEMMA WriteSound ==
  ASSUME FilesInv, Write
  PROVE  FilesInv'
<1>. DEFINE value == IF Op.file = "inbox_state" THEN Saved(mem) ELSE mem.safe
<1>1. /\ Types /\ LogsHold /\ DiskSound /\ MemorySound /\ ReaderSound /\ HandlersSound
      /\ todo # <<>> /\ Op.do = "write" /\ todo' = Tail(todo)
      /\ files' = [files EXCEPT !.state = Holds(@, Op.file, <<value>>)]
      /\ UNCHANGED <<phase, mem, reader, logged, crashes>>
  BY DEF FilesInv, Write, Doing, Op
<1>2. /\ Op \in OpTypes /\ Op.file \in {"inbox_state", "log_state"}
      /\ Op = [do |-> "write", file |-> Op.file]
      /\ 1 \in DOMAIN todo /\ Op = todo[1] /\ Alive
  BY <1>1, OpProperty, OpKinds, Busy
<1>. HIDE DEF value
<1>3. /\ files'.log = files.log /\ DOMAIN files' = {"state", "log"}
      /\ DOMAIN files'.state = DOMAIN files.state \cup {Op.file}
      /\ files'.state[Op.file] = <<value>>
      /\ \A f \in DOMAIN files.state : f # Op.file => files'.state[f] = files.state[f]
      /\ SavedOnDisk' = IF Op.file = "inbox_state" THEN <<value>> ELSE SavedOnDisk
      /\ SafeOnDisk' = IF Op.file = "log_state" THEN <<value>> ELSE SafeOnDisk
  BY <1>1, <1>2, FileWritten
<1>4. Op.file = "log_state" => SavedOnDisk = <<Saved(mem)>>
  <2>1. SavesBoth(1)
    BY <1>1, <1>2 DEF HandlersSound
  <2>. QED
    BY <1>1, <1>2, <2>1 DEF SavesBoth, Before
<1>5. Types'
  <2>1. /\ DOMAIN files'.log = Origin /\ DOMAIN files'.state \subseteq {"inbox_state", "log_state"}
        /\ \A o \in Origin : DOMAIN files'.log[o] \subseteq Blocks
        /\ logged' \in [Origin -> 0 .. MaxIndex]
    BY <1>1, <1>2, <1>3 DEF Types
  <2>. QED
    BY <1>1, <1>3, <2>1, FilesStepTyped
<1>6. LogsHold'
  BY <1>1, <1>3, LogsKept DEF Doing, Op
<1>7. ~ Doing("apply") /\ ~ Doing("apply")' /\ ~ Doing("append")'
  BY <1>1, TailStarts DEF Doing, Op
<1>8. DiskSound'
  <2>1. /\ mem.applied \in [Origin -> 0 .. MaxIndex] /\ mem.inboxes = Effect(mem.applied)
        /\ mem.safe \in [Origin -> 0 .. MaxIndex] /\ MaxIndex \in Nat
    BY <1>1, MaxIndexNat DEF Types
  <2>2. \A o \in Origin : mem.safe[o] <= mem.applied[o] /\ mem.applied[o] <= logged[o]
    <3>. SUFFICES ASSUME NEW o \in Origin
                  PROVE  mem.safe[o] <= mem.applied[o] /\ mem.applied[o] <= logged[o]
      OBVIOUS
    <3>1. mem.safe[o] <= Cursor(o) /\ Cursor(o) <= mem.applied[o] /\ mem.applied[o] <= logged[o]
      BY <1>1, <1>2 DEF MemorySound
    <3>2. Cursor(o) \in Int
      BY <1>1, <1>2, CursorTyped
    <3>. QED
      BY <2>1, <3>1, <3>2
  <2>3. Op.file = "inbox_state" => value = [applied |-> mem.applied, inboxes |-> Effect(mem.applied)]
    BY <2>1 DEF value, Saved
  <2>4. Op.file = "log_state" =>
          /\ value = mem.safe
          /\ SavedOnDisk = <<[applied |-> mem.applied, inboxes |-> Effect(mem.applied)]>>
    BY <1>4, <2>1 DEF value, Saved
  <2>5. CompleteFrom(mem.safe)
    BY <1>1, <1>2 DEF DiskSound
  <2>6. SavedSound'
    <3>1. CASE Op.file = "inbox_state"
      <4>1. /\ SavedOnDisk' = <<[applied |-> mem.applied, inboxes |-> Effect(mem.applied)]>>
            /\ SafeOnDisk' = SafeOnDisk
        BY <1>3, <2>3, <3>1
      <4>2. SafeOnDisk # <<>> => \A o \in Origin : Head(SafeOnDisk)[o] <= mem.applied[o]
        <5>. SUFFICES ASSUME SafeOnDisk # <<>>, NEW o \in Origin
                      PROVE  Head(SafeOnDisk)[o] <= mem.applied[o]
          OBVIOUS
        <5>1. Head(SafeOnDisk) \in [Origin -> 0 .. MaxIndex] /\ Head(SafeOnDisk)[o] <= mem.safe[o]
          BY <1>1, <1>2 DEF DiskSound, SafeSound
        <5>2. Head(SafeOnDisk)[o] \in Int /\ mem.safe[o] \in Int /\ mem.applied[o] \in Int
          BY <2>1, <5>1
        <5>. QED
          BY <2>2, <5>1, <5>2
      <4>. QED
        BY <1>1, <2>1, <2>2, <4>1, <4>2 DEF SavedSound
    <3>2. CASE Op.file = "log_state"
      <4>1. /\ SavedOnDisk' = <<[applied |-> mem.applied, inboxes |-> Effect(mem.applied)]>>
            /\ SafeOnDisk' = <<mem.safe>>
        BY <1>3, <2>4, <3>2
      <4>. QED
        BY <1>1, <2>1, <2>2, <4>1 DEF SavedSound
    <3>. QED
      BY <1>2, <3>1, <3>2
  <2>7. SafeSound'
    <3>1. CASE Op.file = "inbox_state"
      <4>1. SafeOnDisk' = SafeOnDisk
        BY <1>3, <3>1
      <4>. QED
        BY <1>1, <1>2, <1>3, <4>1 DEF DiskSound, SafeSound, CompleteFrom
    <3>2. CASE Op.file = "log_state"
      <4>1. SafeOnDisk' = <<mem.safe>>
        BY <1>3, <2>4, <3>2
      <4>2. \A o \in Origin : mem.safe[o] <= mem.safe[o]
        BY <2>1
      <4>. QED
        BY <1>1, <1>3, <2>1, <2>5, <4>1, <4>2 DEF SafeSound, CompleteFrom
    <3>. QED
      BY <1>2, <3>1, <3>2
  <2>8. (Alive => CompleteFrom(mem.safe))'
    BY <1>1, <1>3, <2>5 DEF CompleteFrom
  <2>9. \A file \in DOMAIN files'.state : Len(files'.state[file]) <= 1
    <3>1. Len(<<value>>) <= 1
      OBVIOUS
    <3>2. \A file \in DOMAIN files.state : Len(files.state[file]) <= 1
      BY <1>1 DEF DiskSound
    <3>. QED
      BY <1>3, <3>1, <3>2
  <2>10. TornWhileWritten'
    <3>. SUFFICES ASSUME Interrupts = {}, NEW file \in DOMAIN files'.state,
                         files'.state[file] = <<>>
                  PROVE  FALSE
      BY DEF TornWhileWritten
    <3>1. CASE file = Op.file
      <4>1. <<value>> # <<>>
        OBVIOUS
      <4>. QED
        BY <1>3, <3>1, <4>1
    <3>2. CASE file # Op.file
      <4>1. file \in DOMAIN files.state /\ files.state[file] = <<>>
        BY <1>3, <3>2
      <4>. QED
        BY <1>1, <3>2, <4>1 DEF DiskSound, TornWhileWritten
    <3>. QED
      BY <3>1, <3>2
  <2>. QED
    BY <2>6, <2>7, <2>8, <2>9, <2>10 DEF DiskSound
<1>9. MemorySound'
  <2>1. \A o \in Origin : Collecting(o) => Collecting(o)'
    BY <1>1, <1>2, CollectingStays
  <2>2. Alive' => Alive
    BY <1>1 DEF Alive
  <2>. QED
    BY <1>1, <1>7, <2>1, <2>2, MemoryKept
<1>10. ReaderSound'
  BY <1>1, <1>3, ReaderKept
<1>11. HandlersSound'
  <2>1. \/ Op.file = "inbox_state" /\ SavedOnDisk' = <<Saved(mem)>> /\ SafeOnDisk' = SafeOnDisk
        \/ Op.file = "log_state" /\ SafeOnDisk' = <<mem.safe>> /\ SavedOnDisk' = SavedOnDisk
    BY <1>2, <1>3 DEF value
  <2>. QED
    BY <1>1, <1>2, <2>1, TailSound
<1>. QED
  BY <1>5, <1>6, <1>8, <1>9, <1>10, <1>11 DEF FilesInv

(* A step that adds to the logs, and logs what it added.                   *)
LEMMA DiskGrows ==
  ASSUME Types, DiskSound, files'.state = files.state, UNCHANGED <<phase, mem>>,
         logged' \in [Origin -> 0 .. MaxIndex], ~ Doing("write"),
         \A o \in Origin :
           /\ DOMAIN files.log[o] \subseteq DOMAIN files'.log[o]
           /\ logged[o] <= logged'[o]
           /\ \A k \in logged[o] + 1 .. logged'[o] : Block(k) \in DOMAIN files'.log[o]
  PROVE  DiskSound'
<1>1. SavedOnDisk' = SavedOnDisk /\ SafeOnDisk' = SafeOnDisk
  BY DEF SavedOnDisk, SafeOnDisk, Exists
<1>2. /\ logged \in [Origin -> 0 .. MaxIndex] /\ mem.safe \in [Origin -> 0 .. MaxIndex]
      /\ MaxIndex \in Nat
  BY MaxIndexNat DEF Types
<1>3. ASSUME NEW safe \in [Origin -> 0 .. MaxIndex], CompleteFrom(safe)
      PROVE  \A o \in Origin : \A k \in 1 .. logged'[o] :
               safe[o] <= k => Block(k) \in DOMAIN files'.log[o]
  <2>1. SUFFICES ASSUME NEW o \in Origin, NEW k \in 1 .. logged'[o], safe[o] <= k
                 PROVE  Block(k) \in DOMAIN files'.log[o]
    OBVIOUS
  <2>2. logged[o] \in Int /\ logged'[o] \in Int
    BY <1>2
  <2>3. k \in 1 .. logged[o] \/ k \in logged[o] + 1 .. logged'[o]
    BY <2>2
  <2>. QED
    BY <1>3, <2>1, <2>3 DEF CompleteFrom
<1>4. SavedSound'
  <2>1. ASSUME NEW applied \in [Origin -> 0 .. MaxIndex],
               \A o \in Origin : applied[o] <= logged[o]
        PROVE  \A o \in Origin : applied[o] <= logged'[o]
    <3>1. SUFFICES ASSUME NEW o \in Origin
                   PROVE  applied[o] <= logged'[o]
      OBVIOUS
    <3>2. applied[o] \in Int /\ logged[o] \in Int /\ logged'[o] \in Int
      BY <1>2
    <3>. QED
      BY <2>1, <3>2
  <2>. QED
    BY <1>1, <2>1 DEF DiskSound, SavedSound
<1>5. SafeSound'
  <2>. SUFFICES ASSUME SafeOnDisk # <<>>
                PROVE  /\ Head(SafeOnDisk) \in [Origin -> 0 .. MaxIndex]
                       /\ SafeOnDisk = <<Head(SafeOnDisk)>>
                       /\ \A o \in Origin : \A k \in 1 .. logged'[o] :
                            Head(SafeOnDisk)[o] <= k => Block(k) \in DOMAIN files'.log[o]
                       /\ Alive => \A o \in Origin : Head(SafeOnDisk)[o] <= mem.safe[o]
    BY <1>1 DEF CompleteFrom, SafeSound, Alive
  <2>. QED
    BY <1>3 DEF DiskSound, SafeSound
<1>6. (Alive => CompleteFrom(mem.safe))'
  <2>1. Alive' <=> Alive
    BY DEF Alive
  <2>2. Alive => CompleteFrom(mem.safe)
    BY DEF DiskSound
  <2>3. mem'.safe = mem.safe
    OBVIOUS
  <2>. QED
    BY <1>2, <1>3, <2>1, <2>2, <2>3 DEF CompleteFrom
<1>7. \A file \in DOMAIN files'.state : Len(files'.state[file]) <= 1
  BY DEF DiskSound
<1>8. TornWhileWritten'
  BY DEF DiskSound, TornWhileWritten
<1>. QED
  BY <1>4, <1>5, <1>6, <1>7, <1>8 DEF DiskSound

(* A handler that logs logs the next command of its origin.                *)
LEMMA LoggingForm ==
  ASSUME Types, HandlersSound, todo # <<>>, Op.do \in {"create", "append"}
  PROVE  /\ phase = "running"
         /\ Op.origin \in Origin /\ Op.index \in 1 .. MaxIndex
         /\ Op.index = logged[Op.origin] + 1
         /\ LET append == [do |-> "append", origin |-> Op.origin, index |-> Op.index]
                apply == [do |-> "apply", command |-> Record(Op.origin, Op.index)]
            IN  IF Op.do = "create"
                THEN Tail(todo) = <<append, apply>>
                ELSE todo = <<append, apply>> /\ Tail(todo) = <<apply>>
<1>1. 1 \in DOMAIN todo /\ Op = todo[1] /\ Op \in OpTypes
  BY OpProperty
<1>2. PICK o \in Origin :
        todo \in {NewCommand(o, logged[o] + 1), Tail(NewCommand(o, logged[o] + 1))}
  BY <1>1 DEF HandlersSound, LogsNext
<1>. DEFINE k == logged[o] + 1
            create == [do |-> "create", origin |-> o, index |-> k]
            append == [do |-> "append", origin |-> o, index |-> k]
            apply == [do |-> "apply", command |-> Record(o, k)]
<1>3. NewCommand(o, k) = <<create, append>> \o <<apply>>
  BY DEF NewCommand, WriteCommandToLog
<1>4. /\ create.do = "create" /\ create.origin = o /\ create.index = k
      /\ append.do = "append" /\ append.origin = o /\ append.index = k
  OBVIOUS
<1>. HIDE DEF k, create, append, apply
<1>5. <<create, append>> \o <<apply>> = <<create, append, apply>>
  BY ThreeInARow
<1>6. /\ Tail(<<create, append, apply>>) = <<append, apply>>
      /\ Head(<<create, append, apply>>) = create /\ Head(<<append, apply>>) = append
      /\ Tail(<<append, apply>>) = <<apply>>
  OBVIOUS
<1>7. \/ Op = create /\ Tail(todo) = <<append, apply>>
      \/ Op = append /\ todo = <<append, apply>> /\ Tail(todo) = <<apply>>
  BY <1>2, <1>3, <1>5, <1>6 DEF Op, k
<1>8. Op.origin = o /\ Op.index = k
  BY <1>4, <1>7
<1>9. Op.index \in 1 .. MaxIndex
  BY <1>1, OpKinds
<1>10. phase = "running"
  BY <1>1, Busy DEF Types, Alive
<1>. QED
  BY <1>4, <1>7, <1>8, <1>9, <1>10 DEF k, append, apply

(* write_command_to_log creates the file of a block: it is empty only      *)
(* until the next operation.                                               *)
LEMMA CreateSound ==
  ASSUME FilesInv, Create
  PROVE  FilesInv'
<1>1. /\ Types /\ LogsHold /\ DiskSound /\ MemorySound /\ ReaderSound /\ HandlersSound
      /\ todo # <<>> /\ Op.do = "create" /\ todo' = Tail(todo)
      /\ files' = [files EXCEPT !.log[Op.origin] =
                     IF Exists(@, Block(Op.index)) THEN @ ELSE Holds(@, Block(Op.index), <<>>)]
      /\ UNCHANGED <<phase, mem, reader, logged, crashes>>
  BY DEF FilesInv, Create, Doing, Op
<1>1a. PICK o \in Origin, k \in 1 .. MaxIndex : o = Op.origin /\ k = Op.index
  BY <1>1, LoggingForm
<1>2. PICK b, append, apply :
        /\ o \in Origin /\ k \in 1 .. MaxIndex
        /\ phase = "running" /\ Alive
        /\ o = Op.origin /\ k = Op.index /\ k = logged[o] + 1 /\ b = Block(k)
        /\ append = [do |-> "append", origin |-> o, index |-> k]
        /\ apply = [do |-> "apply", command |-> Record(o, k)]
        /\ todo' = <<append, apply>>
  BY <1>1, <1>1a, LoggingForm DEF Alive
<1>3. MaxIndex \in Nat /\ logged \in [Origin -> 0 .. MaxIndex]
  BY <1>1, MaxIndexNat DEF Types
<1>4. /\ DOMAIN files' = {"state", "log"} /\ files'.state = files.state
      /\ DOMAIN files'.log = Origin
      /\ \A p \in Origin : p # o => files'.log[p] = files.log[p]
      /\ files'.log[o] = IF Exists(files.log[o], b) THEN files.log[o]
                         ELSE Holds(files.log[o], b, <<>>)
  BY <1>1, <1>2 DEF Types
<1>5. /\ DOMAIN files'.log[o] = DOMAIN files.log[o] \cup {b}
      /\ \A c \in DOMAIN files.log[o] : files'.log[o][c] = files.log[o][c]
      /\ b \notin DOMAIN files.log[o] => files'.log[o][b] = <<>>
  BY <1>4 DEF Holds, Exists
<1>6. b \in Blocks
  <2>1. Block(k) \in Nat /\ Block(MaxIndex + 1) \in Nat /\ Block(k) <= Block(MaxIndex + 1)
    BY <1>2, <1>3, BlockMonotone
  <2>. QED
    BY <1>2, <2>1 DEF Blocks
<1>7. Types'
  <2>1. \A p \in Origin : DOMAIN files'.log[p] \subseteq Blocks
    <3>1. \A p \in Origin : DOMAIN files.log[p] \subseteq Blocks
      BY <1>1 DEF Types
    <3>. QED
      BY <1>4, <1>5, <1>6, <3>1
  <2>2. DOMAIN files'.state \subseteq {"inbox_state", "log_state"}
    BY <1>1, <1>4 DEF Types
  <2>. QED
    BY <1>1, <1>3, <1>4, <2>1, <2>2, FilesStepTyped
<1>8. Head(todo').do = "append" /\ Head(todo').origin = o /\ Head(todo').index = k
  BY <1>2
<1>9. todo' # <<>>
  BY <1>2
<1>10. LogsHold'
  <2>1. ASSUME NEW p \in Origin, NEW c \in DOMAIN files.log[p]
        PROVE  \E first \in 1 .. MaxIndex, last \in 0 .. MaxIndex :
                 IsBlock(p, c, first, last)' /\ first <= last
    <3>1. PICK first \in 1 .. MaxIndex, last \in 0 .. MaxIndex :
            IsBlock(p, c, first, last) /\ first <= last
      BY <1>1 DEF LogsHold, Doing, Op
    <3>2. files'.log[p][c] = files.log[p][c]
      BY <1>4, <1>5
    <3>3. IsBlock(p, c, first, last)'
      BY <1>1, <3>1, <3>2 DEF IsBlock
    <3>. QED
      BY <3>1, <3>3
  <2>2. ASSUME b \notin DOMAIN files.log[o]
        PROVE  IsBlock(o, b, 1, 0)'
    <3>1. ASSUME NEW j \in 1 .. logged[o], Block(j) = b
          PROVE  FALSE
      <4>1. logged[o] \in Nat /\ j \in Nat /\ j <= logged[o] /\ logged[o] <= k /\ k \in Nat
        BY <1>2, <1>3
      <4>2. /\ Block(j) \in Nat /\ Block(logged[o]) \in Nat /\ Block(k) \in Nat
            /\ Block(j) <= Block(logged[o]) /\ Block(logged[o]) <= Block(k)
        BY <4>1, BlockMonotone
      <4>3. Block(logged[o]) = b
        BY <1>2, <3>1, <4>2
      <4>4. mem.safe[o] <= logged[o]
        <5>1. /\ mem.safe[o] <= Cursor(o) /\ Cursor(o) <= mem.applied[o]
              /\ mem.applied[o] <= logged[o]
          BY <1>1, <1>2 DEF MemorySound
        <5>2. Cursor(o) \in Int
          BY <1>1, <1>2, CursorTyped
        <5>3. mem.safe[o] \in Int /\ mem.applied[o] \in Int
          BY <1>1, <1>2, <1>3 DEF Types
        <5>. QED
          BY <4>1, <5>1, <5>2, <5>3
      <4>5. logged[o] \in 1 .. logged[o]
        BY <4>1
      <4>6. CompleteFrom(mem.safe)
        BY <1>1, <1>2 DEF DiskSound
      <4>. QED
        BY <1>2, <2>2, <4>3, <4>4, <4>5, <4>6 DEF CompleteFrom
    <3>2. RunOf(o, 1, 0) = <<>>
      BY DEF RunOf
    <3>3. 0 <= logged[o] /\ 1 .. 0 = {}
      BY <1>2, <1>3
    <3>. QED
      BY <1>1, <1>5, <2>2, <3>1, <3>2, <3>3 DEF IsBlock
  <2>3. ASSUME NEW p \in Origin, NEW c \in DOMAIN files'.log[p]
        PROVE  \E first \in 1 .. MaxIndex, last \in 0 .. MaxIndex :
                 /\ IsBlock(p, c, first, last)'
                 /\ \/ first <= last
                    \/ Doing("append")' /\ Op'.origin = p /\ Block(Op'.index) = c
    <3>1. CASE c \in DOMAIN files.log[p]
      BY <2>1, <3>1
    <3>2. CASE c \notin DOMAIN files.log[p]
      <4>1. p = o /\ c = b
        BY <1>4, <1>5, <2>3, <3>2
      <4>2. Doing("append")' /\ Op'.origin = p /\ Block(Op'.index) = c
        BY <1>2, <1>8, <1>9, <4>1 DEF Doing, Op
      <4>3. 1 \in 1 .. MaxIndex /\ 0 \in 0 .. MaxIndex
        BY <1>2, <1>3
      <4>. QED
        BY <2>2, <3>2, <4>1, <4>2, <4>3
    <3>. QED
      BY <3>1, <3>2
  <2>. QED
    BY <2>3 DEF LogsHold
<1>11. DiskSound'
  <2>1. ASSUME NEW p \in Origin
        PROVE  /\ DOMAIN files.log[p] \subseteq DOMAIN files'.log[p]
               /\ logged[p] <= logged'[p]
               /\ \A i \in logged[p] + 1 .. logged'[p] : Block(i) \in DOMAIN files'.log[p]
    <3>1. logged'[p] = logged[p] /\ logged[p] \in Int
      BY <1>1, <1>3
    <3>2. logged[p] + 1 .. logged'[p] = {}
      BY <3>1
    <3>. QED
      BY <1>4, <1>5, <3>1, <3>2
  <2>2. logged' \in [Origin -> 0 .. MaxIndex] /\ ~ Doing("write")
    BY <1>1, <1>3 DEF Doing, Op
  <2>. QED
    BY <1>1, <1>4, <2>1, <2>2, DiskGrows
<1>12. MemorySound'
  <2>1. ~ Doing("apply") /\ ~ Doing("apply")'
    BY <1>1, <1>8 DEF Doing, Op
  <2>2. \A p \in Origin : Collecting(p) => Collecting(p)'
    BY <1>1, CollectingStays
  <2>3. Alive' => Alive
    BY <1>1 DEF Alive
  <2>. QED
    BY <1>1, <2>1, <2>2, <2>3, MemoryKept
<1>13. ReaderSound'
  BY <1>1, <1>2, ReaderKept
<1>14. HandlersSound'
  <2>1. DOMAIN todo' = 1 .. 2 /\ todo'[1] = append /\ todo'[2] = apply
    BY <1>2
  <2>2. append.do = "append" /\ apply.do = "apply" /\ append.origin = o /\ append.index = k
    BY <1>2
  <2>3. todo' = Tail(NewCommand(o, logged'[o] + 1))
    BY <1>1, <1>2, NewCommandProperty
  <2>4. \A i \in DOMAIN todo' : LogsNext(i)'
    BY <1>2, <2>3 DEF LogsNext
  <2>5. \A i \in DOMAIN todo' : todo'[i].do \in {"append", "apply"}
    BY <2>1, <2>2
  <2>6. \A i \in DOMAIN todo' :
          (WritesWhole(i) /\ SavesBoth(i) /\ DeletesSafe(i) /\ PopsSafe(i) /\ CollectsApplied(i))'
    BY <2>5 DEF WritesWhole, SavesBoth, DeletesSafe, PopsSafe, CollectsApplied
  <2>7. \A i, j \in DOMAIN todo' : i < j => InOrderOf(todo'[i], todo'[j])
    <3>1. SUFFICES ASSUME NEW i \in 1 .. 2, NEW j \in 1 .. 2, i < j
                   PROVE  InOrderOf(todo'[i], todo'[j])
      BY <2>1
    <3>2. i = 1 /\ j = 2
      BY <3>1
    <3>. QED
      BY <2>1, <2>2, <3>2 DEF InOrderOf
  <2>8. Block(Op'.index) \in DOMAIN files'.log[Op'.origin]
    BY <1>2, <1>5, <1>8 DEF Op
  <2>. QED
    BY <2>4, <2>6, <2>7, <2>8 DEF HandlersSound, InOrderOf
<1>. QED
  BY <1>7, <1>10, <1>11, <1>12, <1>13, <1>14 DEF FilesInv

(* write_command_to_log appends a record: it is the next of its block.     *)
LEMMA AppendRecordSound ==
  ASSUME FilesInv, AppendRecord
  PROVE  FilesInv'
<1>1. /\ Types /\ LogsHold /\ DiskSound /\ MemorySound /\ ReaderSound /\ HandlersSound
      /\ todo # <<>> /\ Op.do = "append" /\ todo' = Tail(todo)
      /\ UNCHANGED <<phase, mem, reader, crashes>>
  BY DEF FilesInv, AppendRecord, Doing, Op
<1>1a. PICK o \in Origin, k \in 1 .. MaxIndex : o = Op.origin /\ k = Op.index
  BY <1>1, LoggingForm
<1>2. PICK b, append, apply :
        /\ o \in Origin /\ k \in 1 .. MaxIndex
        /\ phase = "running" /\ Alive
        /\ o = Op.origin /\ k = Op.index /\ k = logged[o] + 1 /\ b = Block(k)
        /\ append = [do |-> "append", origin |-> o, index |-> k]
        /\ apply = [do |-> "apply", command |-> Record(o, k)]
        /\ todo = <<append, apply>> /\ todo' = <<apply>>
  BY <1>1, <1>1a, LoggingForm DEF Alive
<1>3. /\ MaxIndex \in Nat /\ logged \in [Origin -> 0 .. MaxIndex]
      /\ logged[o] \in Nat /\ k \in Nat
  BY <1>1, <1>2, MaxIndexNat DEF Types
<1>4. b \in DOMAIN files.log[o]
  BY <1>1, <1>2 DEF HandlersSound, Doing
<1>4a. /\ files' = [files EXCEPT !.log[o][b] = @ \o Record(o, k)]
      /\ logged' = [logged EXCEPT ![o] = @ + 1]
  BY <1>2 DEF AppendRecord
<1>4b. DOMAIN files = {"state", "log"} /\ DOMAIN files.log = Origin
  BY <1>1 DEF Types
<1>5. /\ DOMAIN files' = {"state", "log"} /\ files'.state = files.state
      /\ DOMAIN files'.log = Origin
      /\ \A p \in Origin : p # o => files'.log[p] = files.log[p]
      /\ DOMAIN files'.log[o] = DOMAIN files.log[o]
      /\ \A c \in DOMAIN files.log[o] : c # b => files'.log[o][c] = files.log[o][c]
      /\ files'.log[o][b] = files.log[o][b] \o Record(o, k)
  <2>1. files'.state = files.state /\ DOMAIN files' = {"state", "log"}
    BY <1>4a, <1>4b
  <2>2. files'.log = [files.log EXCEPT ![o] =
                       [files.log[o] EXCEPT ![b] = files.log[o][b] \o Record(o, k)]]
    BY <1>4a, <1>4b
  <2>3. /\ DOMAIN files'.log = Origin
        /\ \A p \in Origin : p # o => files'.log[p] = files.log[p]
        /\ files'.log[o] = [files.log[o] EXCEPT ![b] = files.log[o][b] \o Record(o, k)]
    BY <1>2, <1>4b, <2>2
  <2>. DEFINE dir == files.log[o]
              more == Record(o, k)
  <2>4. files'.log[o] = [dir EXCEPT ![b] = @ \o more]
    BY <2>3
  <2>. HIDE DEF dir, more
  <2>5. /\ DOMAIN files'.log[o] = DOMAIN dir
        /\ \A c \in DOMAIN dir : c # b => files'.log[o][c] = dir[c]
        /\ b \in DOMAIN dir => files'.log[o][b] = dir[b] \o more
    BY <2>4
  <2>. QED
    BY <1>4, <2>1, <2>3, <2>5 DEF dir, more
<1>6. /\ logged' \in [Origin -> 0 .. MaxIndex] /\ logged'[o] = k
      /\ \A p \in Origin : p # o => logged'[p] = logged[p]
  BY <1>2, <1>3, <1>4a
<1>7. Types'
  <2>1. \A p \in Origin : DOMAIN files'.log[p] \subseteq Blocks
    <3>1. \A p \in Origin : DOMAIN files.log[p] \subseteq Blocks
      BY <1>1 DEF Types
    <3>. QED
      BY <1>5, <3>1
  <2>2. DOMAIN files'.state \subseteq {"inbox_state", "log_state"}
    BY <1>1, <1>5 DEF Types
  <2>. QED
    BY <1>1, <1>5, <1>6, <2>1, <2>2, FilesStepTyped
<1>8. LogsHold'
  <2>1. ASSUME NEW p \in Origin, NEW c \in DOMAIN files.log[p], p # o \/ c # b
        PROVE  \E first \in 1 .. MaxIndex, last \in 0 .. MaxIndex :
                 IsBlock(p, c, first, last)' /\ first <= last
    <3>1. PICK first \in 1 .. MaxIndex, last \in 0 .. MaxIndex :
            IsBlock(p, c, first, last) /\ first <= last
      BY <1>1, <1>2, <2>1 DEF LogsHold
    <3>2. files'.log[p][c] = files.log[p][c]
      BY <1>5, <2>1
    <3>3. IsBlock(p, c, first, last)'
      <4>1. CASE p # o
        BY <1>6, <3>1, <3>2, <4>1 DEF IsBlock
      <4>2. CASE p = o
        <5>1. last <= logged[o] /\ \A j \in 1 .. logged[o] : Block(j) = c <=> j \in first .. last
          BY <3>1, <4>2 DEF IsBlock
        <5>2. last <= k /\ k \notin first .. last /\ Block(k) # c
          BY <1>2, <1>3, <2>1, <4>2, <5>1
        <5>3. \A j \in 1 .. k : j = k \/ j \in 1 .. logged[o]
          BY <1>2, <1>3
        <5>4. \A j \in 1 .. k : Block(j) = c <=> j \in first .. last
          BY <5>1, <5>2, <5>3
        <5>. QED
          BY <1>6, <3>1, <3>2, <4>2, <5>2, <5>4 DEF IsBlock
      <4>. QED
        BY <4>1, <4>2
    <3>. QED
      BY <3>1, <3>3
  <2>2. \E first \in 1 .. MaxIndex : IsBlock(o, b, first, k)' /\ first <= k
    <3>1. PICK first \in 1 .. MaxIndex, last \in 0 .. MaxIndex : IsBlock(o, b, first, last)
      BY <1>1, <1>2, <1>4 DEF LogsHold
    <3>2. /\ last <= logged[o] /\ \A j \in 1 .. logged[o] : Block(j) = b <=> j \in first .. last
          /\ files.log[o][b] = RunOf(o, first, last)
      BY <3>1 DEF IsBlock
    <3>3. first \in Nat /\ last \in Nat /\ k - 1 \in Nat /\ k - 1 = logged[o] /\ k - 1 + 1 = k
      BY <1>2, <1>3
    <3>4. CASE first <= last
      <4>1. last \in 1 .. logged[o] /\ Block(last) = b
        BY <3>2, <3>3, <3>4
      <4>2. Block(k - 1) = b
        <5>1. last <= k - 1 /\ k - 1 <= k
          BY <3>2, <3>3
        <5>2. /\ Block(last) <= Block(k - 1) /\ Block(k - 1) <= Block(k)
              /\ Block(last) \in Nat /\ Block(k - 1) \in Nat /\ Block(k) \in Nat
          BY <1>3, <3>3, <5>1, BlockMonotone
        <5>. QED
          BY <1>2, <4>1, <5>2
      <4>3. last = k - 1
        BY <3>2, <3>3, <4>1, <4>2
      <4>4. \A j \in 1 .. k : Block(j) = b <=> j \in first .. k
        <5>1. ASSUME NEW j \in 1 .. k
              PROVE  Block(j) = b <=> j \in first .. k
          <6>1. CASE j = k
            BY <1>2, <3>3, <4>1, <4>3, <6>1, <3>4
          <6>2. CASE j # k
            <7>1. j \in 1 .. logged[o] /\ (j \in first .. last <=> j \in first .. k)
              BY <3>3, <4>3, <6>2
            <7>. QED
              BY <3>2, <7>1
          <6>. QED
            BY <6>1, <6>2
        <5>. QED
          BY <5>1
      <4>5. RunOf(o, first, k - 1) \o Record(o, k) = RunOf(o, first, k)
        <5>1. first <= k - 1 + 1
          BY <3>3, <3>4, <4>3
        <5>2. RunOf(o, first, k - 1) \o Record(o, k - 1 + 1) = RunOf(o, first, k - 1 + 1)
          BY <3>3, <5>1, RunProperty
        <5>. QED
          BY <3>3, <5>2
      <4>6. files'.log[o][b] = RunOf(o, first, k)
        BY <1>5, <3>2, <4>3, <4>5
      <4>7. k <= k /\ first <= k
        BY <3>3, <3>4, <4>3
      <4>. QED
        BY <1>6, <4>4, <4>6, <4>7 DEF IsBlock
    <3>5. CASE ~ (first <= last)
      <4>1. \A j \in 1 .. k : Block(j) = b <=> j \in k .. k
        <5>1. ASSUME NEW j \in 1 .. k
              PROVE  Block(j) = b <=> j \in k .. k
          <6>1. CASE j = k
            BY <1>2, <3>3, <6>1
          <6>2. CASE j # k
            <7>1. j \in 1 .. logged[o] /\ j \notin k .. k /\ j \notin first .. last
              BY <3>3, <3>5, <6>2
            <7>. QED
              BY <3>2, <7>1
          <6>. QED
            BY <6>1, <6>2
        <5>. QED
          BY <5>1
      <4>2. RunOf(o, first, last) = <<>> /\ RunOf(o, k, k - 1) = <<>>
        <5>1. 1 .. 2 * (last + 1 - first) = {} /\ 1 .. 2 * (k - 1 + 1 - k) = {}
          BY <3>3, <3>5
        <5>. QED
          BY <5>1 DEF RunOf
      <4>3. RunOf(o, k, k - 1) \o Record(o, k) = RunOf(o, k, k)
        <5>1. k <= k - 1 + 1
          BY <3>3
        <5>2. RunOf(o, k, k - 1) \o Record(o, k - 1 + 1) = RunOf(o, k, k - 1 + 1)
          BY <1>3, <3>3, <5>1, RunProperty
        <5>. QED
          BY <3>3, <5>2
      <4>4. files'.log[o][b] = RunOf(o, k, k)
        BY <1>5, <3>2, <4>2, <4>3
      <4>5. k <= k
        BY <1>3
      <4>. QED
        BY <1>6, <4>1, <4>4, <4>5 DEF IsBlock
    <3>. QED
      BY <3>4, <3>5
  <2>3. ASSUME NEW p \in Origin, NEW c \in DOMAIN files'.log[p]
        PROVE  \E first \in 1 .. MaxIndex, last \in 0 .. MaxIndex :
                 IsBlock(p, c, first, last)' /\ first <= last
    <3>1. CASE p # o \/ c # b
      BY <1>5, <2>1, <3>1
    <3>2. CASE p = o /\ c = b
      <4>1. k \in 0 .. MaxIndex
        BY <1>3
      <4>. QED
        BY <2>2, <3>2, <4>1
    <3>. QED
      BY <3>1, <3>2
  <2>. QED
    BY <2>3 DEF LogsHold
<1>9. DiskSound'
  <2>1. ASSUME NEW p \in Origin
        PROVE  /\ DOMAIN files.log[p] \subseteq DOMAIN files'.log[p]
               /\ logged[p] <= logged'[p]
               /\ \A i \in logged[p] + 1 .. logged'[p] : Block(i) \in DOMAIN files'.log[p]
    <3>1. CASE p = o
      <4>1. logged[p] + 1 .. logged'[p] = {k} /\ logged[p] <= logged'[p]
        BY <1>2, <1>3, <1>6, <3>1
      <4>. QED
        <5>1. \A i \in logged[p] + 1 .. logged'[p] : Block(i) = b
          BY <1>2, <4>1
        <5>. QED
          BY <1>4, <1>5, <3>1, <4>1, <5>1
    <3>2. CASE p # o
      <4>1. logged'[p] = logged[p] /\ logged[p] \in Int
        BY <1>3, <1>6, <3>2
      <4>2. logged[p] + 1 .. logged'[p] = {}
        BY <4>1
      <4>. QED
        BY <1>5, <3>2, <4>1, <4>2
    <3>. QED
      BY <3>1, <3>2
  <2>2. ~ Doing("write")
    BY <1>1 DEF Doing, Op
  <2>. QED
    BY <1>1, <1>5, <1>6, <2>1, <2>2, DiskGrows
<1>10. ~ Doing("apply") /\ Doing("apply")' /\ Op' = apply /\ apply.command = Record(o, k)
  <2>1. todo' # <<>> /\ Head(todo') = apply /\ apply.do = "apply" /\ apply.command = Record(o, k)
    BY <1>2
  <2>. QED
    BY <1>1, <2>1 DEF Doing, Op
<1>11. Record(o, k)[1].origin = o
  BY DEF Record, Half
<1>12. MemorySound'
  <2>. SUFFICES ASSUME NEW p \in Origin
                PROVE  (/\ mem.safe[p] <= Cursor(p) /\ Cursor(p) <= mem.applied[p]
                        /\ mem.applied[p] <= logged[p]
                        /\ Pending(p) => Op.command = Record(p, Cursor(p) + 1)
                                           /\ mem.applied[p] = Cursor(p)
                        /\ \E from \in 0 .. mem.safe[p] :
                             /\ mem.queue[p] = Window(from, Cursor(p))
                             /\ ~Collecting(p) => from = mem.safe[p])'
    BY DEF MemorySound
  <2>1. ~ Collecting(p)
    <3>1. DOMAIN todo = 1 .. 2 /\ todo[1].do = "append" /\ todo[2].do = "apply"
      BY <1>2
    <3>2. \A i \in DOMAIN todo : todo[i].do # "erase"
      BY <3>1
    <3>. QED
      BY <3>2 DEF Collecting
  <2>2. /\ mem.safe[p] <= Cursor(p) /\ Cursor(p) <= mem.applied[p] /\ mem.applied[p] <= logged[p]
        /\ \E from \in 0 .. mem.safe[p] : /\ mem.queue[p] = Window(from, Cursor(p))
                                         /\ from = mem.safe[p]
    BY <1>1, <1>2, <2>1 DEF MemorySound
  <2>3. Cursor(p) = logged[p] /\ Sought(p)' = logged'[p]
    <3>1. reader.origin = N_MACHINES /\ p < N_MACHINES
      BY <1>1, <1>2, MaxIndexNat DEF Types, NoReader, Origin
    <3>. QED
      BY <1>1, <1>10, <3>1 DEF Cursor, Pending, Sought
  <2>4. /\ mem.safe[p] \in Int /\ mem.applied[p] \in Int /\ logged[p] \in Int /\ logged'[p] \in Int
        /\ mem.applied[p] = logged[p]
    BY <1>1, <1>3, <1>6, <2>2, <2>3 DEF Types
  <2>5. Pending(p)' <=> p = o
    BY <1>10, <1>11 DEF Pending
  <2>6. Cursor(p)' = logged[p] /\ logged[p] <= logged'[p]
    <3>1. CASE p = o
      <4>1. logged'[p] - 1 = logged[p] /\ logged[p] <= logged'[p]
        BY <1>2, <1>3, <1>6, <3>1
      <4>. QED
        BY <2>3, <2>5, <3>1, <4>1 DEF Cursor
    <3>2. CASE p # o
      BY <1>6, <2>3, <2>4, <2>5, <3>2 DEF Cursor
    <3>. QED
      BY <3>1, <3>2
  <2>7. Pending(p)' => Op'.command = Record(p, logged[p] + 1)
    BY <1>2, <1>10, <2>5
  <2>8. mem.safe[p] <= logged[p] /\ logged[p] <= logged[p] /\ mem.applied[p] <= logged'[p]
    BY <2>2, <2>3, <2>4, <2>6
  <2>. QED
    BY <1>1, <2>2, <2>3, <2>4, <2>6, <2>7, <2>8
<1>13. ReaderSound'
  BY <1>1, <1>2, ReaderKept
<1>14. HandlersSound'
  <2>1. DOMAIN todo' = {1} /\ todo'[1] = apply /\ apply.do = "apply"
    BY <1>2
  <2>2. \A i \in DOMAIN todo' :
          (/\ LogsNext(i) /\ WritesWhole(i) /\ SavesBoth(i)
           /\ DeletesSafe(i) /\ PopsSafe(i) /\ CollectsApplied(i))'
    BY <2>1 DEF LogsNext, WritesWhole, SavesBoth, DeletesSafe, PopsSafe, CollectsApplied
  <2>3. \A i, j \in DOMAIN todo' : ~ (i < j)
    BY <2>1
  <2>4. ~ Doing("append")'
    BY <1>10, <2>1 DEF Doing, Op
  <2>. QED
    BY <2>2, <2>3, <2>4 DEF HandlersSound
<1>. QED
  BY <1>7, <1>8, <1>9, <1>12, <1>13, <1>14 DEF FilesInv

(* A command goes by the identifier in its first half.                     *)
LEMMA RecordProperty ==
  ASSUME NEW o, NEW k
  PROVE  Record(o, k)[1].origin = o /\ Record(o, k)[1].index = k /\ Record(o, k)[1].part = 1
BY DEF Record, Half

(* write_state is four operations, inbox_state first.                      *)
LEMMA WriteStateProperty ==
  /\ WriteState \in Seq(OpTypes) /\ Len(WriteState) = 4 /\ DOMAIN WriteState = 1 .. 4
  /\ WriteState[1] = [do |-> "truncate", file |-> "inbox_state"]
  /\ WriteState[2] = [do |-> "write", file |-> "inbox_state"]
  /\ WriteState[3] = [do |-> "truncate", file |-> "log_state"]
  /\ WriteState[4] = [do |-> "write", file |-> "log_state"]
  /\ \A i \in 1 .. 4 : WriteState[i].do \in {"truncate", "write"}
<1>1. \A file \in {"inbox_state", "log_state"} :
        [do |-> "truncate", file |-> file] \in OpTypes /\ [do |-> "write", file |-> file] \in OpTypes
  BY DEF OpTypes
<1>2. /\ Len(WriteState) = 4 /\ DOMAIN WriteState = 1 .. 4
      /\ WriteState[1] = [do |-> "truncate", file |-> "inbox_state"]
      /\ WriteState[2] = [do |-> "write", file |-> "inbox_state"]
      /\ WriteState[3] = [do |-> "truncate", file |-> "log_state"]
      /\ WriteState[4] = [do |-> "write", file |-> "log_state"]
  BY DEF WriteState
<1>3. \A i \in 1 .. 4 : i = 1 \/ i = 2 \/ i = 3 \/ i = 4
  OBVIOUS
<1>4. \A i \in 1 .. 4 : WriteState[i].do \in {"truncate", "write"}
  BY <1>2, <1>3
<1>5. WriteState \in Seq(OpTypes)
  BY <1>1 DEF WriteState
<1>. QED
  BY <1>2, <1>4, <1>5

(* The saving of the state may be cut anywhere.                            *)
LEMMA SavingSound ==
  ASSUME todo' = WriteState \/ todo' = <<>>
  PROVE  /\ todo' \in Seq(OpTypes) /\ HandlersSound'
         /\ \A i \in DOMAIN todo' : todo'[i].do \in {"truncate", "write"}
         /\ ~ Doing("apply")'
<1>1. CASE todo' = <<>>
  BY <1>1 DEF HandlersSound, Doing
<1>2. CASE todo' = WriteState
  <2>. DEFINE w == WriteState
  <2>1. /\ todo' \in Seq(OpTypes) /\ Len(todo') = 4 /\ DOMAIN todo' = 1 .. 4
        /\ todo'[1] = [do |-> "truncate", file |-> "inbox_state"]
        /\ todo'[2] = [do |-> "write", file |-> "inbox_state"]
        /\ todo'[3] = [do |-> "truncate", file |-> "log_state"]
        /\ todo'[4] = [do |-> "write", file |-> "log_state"]
        /\ \A i \in 1 .. 4 : todo'[i].do \in {"truncate", "write"}
    BY <1>2, WriteStateProperty
  <2>2. \A i \in 1 .. 4 : i = 1 \/ i = 2 \/ i = 3 \/ i = 4
    OBVIOUS
  <2>3. ASSUME NEW i \in DOMAIN todo'
        PROVE  (/\ LogsNext(i) /\ WritesWhole(i) /\ SavesBoth(i)
                /\ DeletesSafe(i) /\ PopsSafe(i) /\ CollectsApplied(i))'
    <3>1. (LogsNext(i) /\ DeletesSafe(i) /\ PopsSafe(i) /\ CollectsApplied(i))'
      BY <2>1 DEF LogsNext, DeletesSafe, PopsSafe, CollectsApplied
    <3>2. WritesWhole(i)'
      BY <2>1, <2>2 DEF WritesWhole
    <3>3. SavesBoth(i)'
      <4>1. CASE i = 1 \/ i = 2
        BY <2>1, <4>1 DEF SavesBoth
      <4>2. CASE i = 3 \/ i = 4
        <5>1. 2 \in 1 .. i - 1
          BY <4>2
        <5>2. Before(i, [do |-> "write", file |-> "inbox_state"])'
          BY <2>1, <5>1 DEF Before
        <5>. QED
          BY <5>2 DEF SavesBoth
      <4>. QED
        BY <2>1, <2>2, <4>1, <4>2
    <3>. QED
      BY <3>1, <3>2, <3>3
  <2>4. \A i, j \in DOMAIN todo' : InOrderOf(todo'[i], todo'[j])
    BY <2>1 DEF InOrderOf
  <2>5. 1 \in 1 .. 4 /\ Head(todo') = todo'[1]
    BY <2>1
  <2>6. ~ Doing("apply")' /\ ~ Doing("append")'
    BY <2>1, <2>5 DEF Doing
  <2>. QED
    BY <2>1, <2>3, <2>4, <2>6 DEF HandlersSound, InOrderOf
<1>. QED
  BY <1>1, <1>2

(* apply_command_to_state applies and queues the pending command, and may  *)
(* save the state.                                                         *)
LEMMA ApplySound ==
  ASSUME FilesInv, Apply
  PROVE  FilesInv'
<1>1. /\ Types /\ LogsHold /\ DiskSound /\ MemorySound /\ ReaderSound /\ HandlersSound
      /\ todo # <<>> /\ Op.do = "apply" /\ mem' = Applied(mem, Op.command)
      /\ UNCHANGED <<phase, files, reader, logged, crashes>>
  BY DEF FilesInv, Apply, Doing, Op
<1>2. Alive /\ Doing("apply") /\ ~ Doing("write") /\ ~ Doing("append")
  BY <1>1, Busy DEF Doing, Op
<1>3. PICK o \in Origin, k \in 1 .. MaxIndex : Op = [do |-> "apply", command |-> Record(o, k)]
  BY <1>1, OpProperty, OpKinds
<1>4. Op.command = Record(o, k)
  BY <1>3
<1>5. /\ Len(todo) = 1 /\ DOMAIN todo = 1 .. 1 /\ Tail(todo) = <<>>
      /\ \A i \in DOMAIN todo : todo[i] = Op
  <2>1. /\ Len(todo) \in Nat \ {0} /\ DOMAIN todo = 1 .. Len(todo) /\ Op = todo[1]
        /\ Tail(todo) \in Seq(OpTypes) /\ Len(Tail(todo)) = Len(todo) - 1
    BY <1>1, OpProperty
  <2>2. CASE Len(todo) > 1
    <3>1. 1 \in 1 .. Len(todo) /\ 2 \in 1 .. Len(todo) /\ 1 < 2
      BY <2>1, <2>2
    <3>2. InOrderOf(todo[1], todo[2])
      BY <1>1, <2>1, <3>1 DEF HandlersSound
    <3>. QED
      BY <1>1, <2>1, <3>2 DEF InOrderOf
  <2>3. CASE Len(todo) = 1
    <3>1. Len(Tail(todo)) = 0
      BY <2>1, <2>3
    <3>2. Tail(todo) = <<>>
      BY <2>1, <3>1, EmptySeq
    <3>. QED
      BY <2>1, <2>3, <3>2
  <2>. QED
    BY <2>1, <2>2, <2>3
<1>6. todo' = <<>> \/ todo' = WriteState
  <2>1. WriteState \o <<>> = WriteState
    BY WriteStateProperty, ConcatEmptySeq
  <2>. QED
    BY <1>5, <2>1 DEF Apply
<1>7. /\ todo' \in Seq(OpTypes) /\ HandlersSound' /\ ~ Doing("apply")'
      /\ \A i \in DOMAIN todo' : todo'[i].do \in {"truncate", "write"}
  BY <1>6, SavingSound
<1>7a. mem' = [[mem EXCEPT !.queue[o] = Append(@, k)]
                  EXCEPT !.applied[o] = @ + 1, !.inboxes = @ (+) SetToBag({Record(o, k)})]
  <2>1. Record(o, k)[1].origin = o /\ Record(o, k)[1].index = k
    BY RecordProperty
  <2>. QED
    BY <1>1, <1>4, <2>1 DEF Applied, Queued
<1>8. /\ mem'.safe = mem.safe /\ mem'.current_block = mem.current_block
      /\ mem'.applied = [mem.applied EXCEPT ![o] = @ + 1]
      /\ mem'.inboxes = mem.inboxes (+) SetToBag({Record(o, k)})
      /\ mem'.queue = [mem.queue EXCEPT ![o] = Append(@, k)]
      /\ DOMAIN mem' = {"applied", "inboxes", "safe", "current_block", "queue"}
  <2>1. DOMAIN mem = {"applied", "inboxes", "safe", "current_block", "queue"}
    BY <1>1 DEF Types
  <2>. QED
    BY <1>7a, <2>1
<1>9. /\ MaxIndex \in Nat /\ mem.applied \in [Origin -> 0 .. MaxIndex]
      /\ mem.inboxes = Effect(mem.applied) /\ mem.safe \in [Origin -> 0 .. MaxIndex]
      /\ mem.queue \in [Origin -> Seq(Int)] /\ mem.current_block \in [Origin -> Blocks]
      /\ logged \in [Origin -> 0 .. MaxIndex]
  BY <1>1, MaxIndexNat DEF Types
<1>10. /\ Pending(o) /\ \A p \in Origin : Pending(p) => p = o
  BY <1>2, <1>4, RecordProperty DEF Pending
<1>11. /\ Cursor(o) \in Int /\ mem.safe[o] <= Cursor(o)
       /\ Record(o, k) = Record(o, Cursor(o) + 1) /\ mem.applied[o] = Cursor(o)
  BY <1>1, <1>2, <1>4, <1>10, CursorTyped DEF MemorySound
<1>12. k = Cursor(o) + 1 /\ Sought(o) = k
  <2>1. Record(o, k)[1].index = k /\ Record(o, Cursor(o) + 1)[1].index = Cursor(o) + 1
    BY RecordProperty
  <2>2. Cursor(o) = Sought(o) - 1 /\ Sought(o) \in Int
    BY <1>1, <1>10, CursorTyped DEF Cursor
  <2>. QED
    BY <1>11, <2>1, <2>2
<1>13. k <= logged[o]
  <2>1. logged[o] \in Int /\ mem.safe[o] \in Int
    BY <1>9
  <2>2. CASE o < reader.origin
    BY <1>12, <2>1, <2>2 DEF Sought
  <2>3. CASE ~ (o < reader.origin) /\ o = reader.origin /\ reader.open
    <3>1. phase = "reading"
      <4>1. reader = NoReader => FALSE
        BY <2>3 DEF NoReader
      <4>. QED
        BY <1>1, <1>2, <4>1 DEF Alive, Types
    <3>2. reader.index \in mem.safe[o] + 1 .. logged[o] + 1
      BY <1>1, <2>3, <3>1 DEF ReaderSound
    <3>3. k = reader.index - 1
      BY <1>12, <2>3 DEF Sought
    <3>. QED
      BY <2>1, <3>2, <3>3
  <2>4. CASE ~ (o < reader.origin) /\ ~ (o = reader.origin /\ reader.open)
    <3>1. Sought(o) = mem.safe[o]
      BY <2>4 DEF Sought
    <3>. QED
      BY <1>11, <1>12, <2>1, <3>1
  <2>. QED
    BY <2>2, <2>3, <2>4
<1>14. Types'
  <2>1. mem'.applied \in [Origin -> 0 .. MaxIndex]
    <3>1. mem.applied[o] + 1 \in 0 .. MaxIndex
      BY <1>9, <1>11, <1>12
    <3>. QED
      BY <1>8, <1>9, <3>1
  <2>2. mem'.inboxes = Effect(mem'.applied)
    <3>1. mem.applied[o] + 1 = k
      BY <1>11, <1>12
    <3>2. Effect(mem.applied) (+) SetToBag({Record(o, mem.applied[o] + 1)})
            = Effect([mem.applied EXCEPT ![o] = mem.applied[o] + 1])
      BY <1>9, EffectGrows
    <3>. QED
      BY <1>8, <1>9, <3>1, <3>2
  <2>3. mem'.queue \in [Origin -> Seq(Int)]
    <3>1. Append(mem.queue[o], k) \in Seq(Int)
      BY <1>9
    <3>. QED
      BY <1>8, <1>9, <3>1
  <2>4. mem' \in [applied : [Origin -> 0 .. MaxIndex], inboxes : {Effect(mem'.applied)},
                  safe : [Origin -> 0 .. MaxIndex], current_block : [Origin -> Blocks],
                  queue : [Origin -> Seq(Int)]]
    <3>1. mem' = [mem EXCEPT !.applied = mem'.applied, !.inboxes = mem'.inboxes, !.queue = mem'.queue]
      <4>2. DOMAIN mem = {"applied", "inboxes", "safe", "current_block", "queue"}
        BY <1>1 DEF Types
      <4>. QED
        BY <1>7a, <1>8, <4>2
    <3>2. mem \in [applied : [Origin -> 0 .. MaxIndex], inboxes : {Effect(mem.applied)},
                   safe : [Origin -> 0 .. MaxIndex], current_block : [Origin -> Blocks],
                   queue : [Origin -> Seq(Int)]]
      BY <1>1 DEF Types
    <3>. QED
      BY <2>1, <2>2, <2>3, <3>1, <3>2
  <2>5. \A i \in DOMAIN todo' : todo'[i].do \in {"apply", "truncate", "write"}
    BY <1>7
  <2>. QED
    BY <1>1, <1>2, <1>7, <2>4, <2>5 DEF Types, Alive
<1>15. LogsHold'
  BY <1>1, <1>2, LogsKept
<1>16. DiskSound'
  <2>1. Alive' => Alive /\ mem'.safe \in [Origin -> 0 .. MaxIndex]
                   /\ \A p \in Origin : mem.safe[p] <= mem'.safe[p]
    BY <1>2, <1>8, <1>9
  <2>. QED
    BY <1>1, <1>2, <2>1, DiskKept
<1>17. MemorySound'
  <2>. SUFFICES ASSUME NEW p \in Origin
                PROVE  (/\ mem.safe[p] <= Cursor(p) /\ Cursor(p) <= mem.applied[p]
                        /\ mem.applied[p] <= logged[p]
                        /\ Pending(p) => Op.command = Record(p, Cursor(p) + 1)
                                           /\ mem.applied[p] = Cursor(p)
                        /\ \E from \in 0 .. mem.safe[p] :
                             /\ mem.queue[p] = Window(from, Cursor(p))
                             /\ ~Collecting(p) => from = mem.safe[p])'
    BY DEF MemorySound
  <2>1. ~ Pending(p)' /\ Cursor(p)' = Sought(p)
    BY <1>1, <1>7, <1>8 DEF Pending, Cursor, Sought
  <2>2. ~ Collecting(p)
    BY <1>1, <1>5 DEF Collecting
  <2>3. /\ mem.safe[p] <= Cursor(p) /\ Cursor(p) <= mem.applied[p] /\ mem.applied[p] <= logged[p]
        /\ \E from \in 0 .. mem.safe[p] : /\ mem.queue[p] = Window(from, Cursor(p))
                                         /\ from = mem.safe[p]
    BY <1>1, <1>2, <2>2 DEF MemorySound
  <2>4. mem.safe[p] \in Nat /\ mem.applied[p] \in Int /\ logged[p] \in Int /\ mem.safe[p] \in 0 .. mem.safe[p]
    BY <1>9
  <2>5. CASE p = o
    <3>1. mem'.applied[o] = k /\ mem'.queue[o] = Append(mem.queue[o], k)
      BY <1>8, <1>9, <1>11, <1>12
    <3>2. mem'.queue[o] = Window(mem.safe[o], k)
      <4>1. mem.queue[o] = Window(mem.safe[o], Cursor(o))
        BY <2>3, <2>5
      <4>2. mem.safe[o] \in Nat /\ Cursor(o) \in Int /\ mem.safe[o] <= Cursor(o)
        BY <1>11, <2>4, <2>5
      <4>3. Append(Window(mem.safe[o], Cursor(o)), Cursor(o) + 1) = Window(mem.safe[o], Cursor(o) + 1)
        BY <4>2, WindowProperty
      <4>. QED
        BY <1>12, <3>1, <4>1, <4>3
    <3>3. mem.safe[o] <= k /\ k <= k
      BY <1>11, <1>12, <2>4, <2>5
    <3>. QED
      BY <1>1, <1>8, <1>12, <1>13, <2>1, <2>4, <2>5, <3>1, <3>2, <3>3
  <2>6. CASE p # o
    <3>1. mem'.applied[p] = mem.applied[p] /\ mem'.queue[p] = mem.queue[p]
      BY <1>8, <1>9, <2>6
    <3>2. Cursor(p) = Sought(p)
      BY <1>10, <2>6 DEF Cursor
    <3>. QED
      BY <1>1, <1>8, <2>1, <2>3, <2>4, <3>1, <3>2
  <2>. QED
    BY <2>5, <2>6
<1>18. ReaderSound'
  BY <1>1, <1>8, ReaderKept
<1>. QED
  BY <1>7, <1>14, <1>15, <1>16, <1>17, <1>18 DEF FilesInv

(* The memory of a server that has replayed its logs, and logs nothing.    *)
LEMMA RunningMemory ==
  ASSUME Types, MemorySound, phase = "running", ~ Doing("apply"), NEW o \in Origin
  PROVE  /\ logged[o] \in 0 .. MaxIndex /\ mem.safe[o] \in 0 .. MaxIndex
         /\ mem.applied[o] = logged[o] /\ mem.safe[o] <= logged[o] /\ Cursor(o) = logged[o]
         /\ \E from \in 0 .. mem.safe[o] :
              /\ mem.queue[o] = Window(from, logged[o])
              /\ ~ Collecting(o) => from = mem.safe[o]
<1>1. /\ mem.applied[o] \in 0 .. MaxIndex /\ logged[o] \in 0 .. MaxIndex
      /\ mem.safe[o] \in 0 .. MaxIndex /\ MaxIndex \in Nat
  BY MaxIndexNat DEF Types
<1>2. Cursor(o) = logged[o]
  <2>1. reader.origin = N_MACHINES /\ o < N_MACHINES
    BY MaxIndexNat DEF Types, NoReader, Origin
  <2>. QED
    BY <2>1 DEF Cursor, Pending, Sought
<1>3. Alive
  BY DEF Alive
<1>4. mem.safe[o] <= logged[o] /\ logged[o] <= mem.applied[o] /\ mem.applied[o] <= logged[o]
  BY <1>2, <1>3 DEF MemorySound
<1>5. \E from \in 0 .. mem.safe[o] :
        /\ mem.queue[o] = Window(from, logged[o])
        /\ ~ Collecting(o) => from = mem.safe[o]
  BY <1>2, <1>3 DEF MemorySound
<1>. QED
  BY <1>1, <1>2, <1>4, <1>5

(* Memory stays sound in a step that moves only safe indices and queues.   *)
LEMMA RunningStep ==
  ASSUME Types, MemorySound, phase = "running", ~ Doing("apply"), ~ Doing("apply")',
         UNCHANGED <<phase, logged, reader>>, mem'.applied = mem.applied,
         \A o \in Origin :
           /\ mem'.safe[o] <= logged[o]
           /\ \E from \in 0 .. mem'.safe[o] :
                /\ mem'.queue[o] = Window(from, logged[o])
                /\ ~ Collecting(o)' => from = mem'.safe[o]
  PROVE  MemorySound'
<1>. SUFFICES ASSUME NEW o \in Origin
              PROVE  (/\ mem.safe[o] <= Cursor(o) /\ Cursor(o) <= mem.applied[o]
                      /\ mem.applied[o] <= logged[o]
                      /\ Pending(o) => Op.command = Record(o, Cursor(o) + 1)
                                         /\ mem.applied[o] = Cursor(o)
                      /\ \E from \in 0 .. mem.safe[o] :
                           /\ mem.queue[o] = Window(from, Cursor(o))
                           /\ ~Collecting(o) => from = mem.safe[o])'
  BY DEF MemorySound
<1>1. mem.applied[o] = logged[o] /\ logged[o] <= logged[o]
  <2>1. mem.applied[o] = logged[o] /\ logged[o] \in 0 .. MaxIndex /\ MaxIndex \in Nat
    BY RunningMemory, MaxIndexNat
  <2>. QED
    BY <2>1
<1>2. ~ Pending(o)' /\ Cursor(o)' = logged[o]
  <2>1. reader.origin = N_MACHINES /\ o < N_MACHINES
    BY MaxIndexNat DEF Types, NoReader, Origin
  <2>. QED
    BY <2>1 DEF Cursor, Pending, Sought
<1>. QED
  BY <1>1, <1>2

(* A handler that has come to collect garbage does nothing else any more.  *)
LEMMA CollectsOnly ==
  ASSUME Types, HandlersSound, todo # <<>>, Op.do \in {"collect", "erase", "pop"}
  PROVE  /\ phase = "running" /\ Op.origin \in Origin /\ Op.index \in 0 .. MaxIndex
         /\ Op = [do |-> Op.do, origin |-> Op.origin, index |-> Op.index]
         /\ \A i \in 2 .. Len(todo) :
              /\ Op.do # "pop" => todo[i].do = "collect"
              /\ Op.do = "pop" => todo[i].do \in {"collect", "erase"}
              /\ Op.do = "collect" => todo[i].origin # Op.origin
<1>1. /\ Len(todo) \in Nat \ {0} /\ DOMAIN todo = 1 .. Len(todo)
      /\ Op = todo[1] /\ Op \in OpTypes
  BY OpProperty
<1>2. phase = "running"
  <2>1. 1 \in DOMAIN todo
    BY <1>1
  <2>. QED
    BY <1>1, <2>1, Busy DEF Types, Alive
<1>3. \A i \in 2 .. Len(todo) : InOrderOf(Op, todo[i])
  <2>1. \A i \in 2 .. Len(todo) : i \in 1 .. Len(todo) /\ 1 \in 1 .. Len(todo) /\ 1 < i
    BY <1>1
  <2>. QED
    BY <1>1, <2>1 DEF HandlersSound
<1>. QED
  BY <1>1, <1>2, <1>3, OpKinds DEF InOrderOf

(* collect_garbage takes the next origin: its safe index grows, to no more *)
(* than what was applied.                                                  *)
LEMMA CollectSound ==
  ASSUME FilesInv, Collect
  PROVE  FilesInv'
<1>1. /\ Types /\ LogsHold /\ DiskSound /\ MemorySound /\ ReaderSound /\ HandlersSound
      /\ todo # <<>> /\ Op.do = "collect"
      /\ UNCHANGED <<phase, files, reader, logged, crashes>>
  BY DEF FilesInv, Collect, Doing, Op
<1>2. PICK o \in Origin, s \in 0 .. MaxIndex :
        /\ phase = "running" /\ Alive /\ o = Op.origin /\ s = Op.index
        /\ Op = [do |-> "collect", origin |-> o, index |-> s]
        /\ \A i \in 2 .. Len(todo) : todo[i].do = "collect" /\ todo[i].origin # o
  BY <1>1, CollectsOnly DEF Alive
<1>3. PICK erase : erase = [do |-> "erase", origin |-> o, index |-> s]
  OBVIOUS
<1>4. mem' = [mem EXCEPT !.safe[o] = s] /\ todo' = <<erase>> \o Tail(todo)
  <2>1. [Op EXCEPT !.do = "erase"] = erase
    BY <1>2, <1>3
  <2>. QED
    BY <1>2, <2>1 DEF Collect
<1>5. /\ Len(todo) \in Nat \ {0} /\ DOMAIN todo = 1 .. Len(todo) /\ Op = todo[1]
      /\ Tail(todo) \in Seq(OpTypes) /\ Len(Tail(todo)) = Len(todo) - 1
      /\ \A i \in 1 .. Len(todo) - 1 : Tail(todo)[i] = todo[i + 1]
  BY <1>1, OpProperty
<1>6. /\ todo' \in Seq(OpTypes) /\ Len(todo') = Len(todo) /\ DOMAIN todo' = 1 .. Len(todo)
      /\ todo'[1] = erase /\ \A i \in 2 .. Len(todo) : todo'[i] = todo[i]
  <2>1. <<erase>> \in Seq(OpTypes) /\ Len(<<erase>>) = 1 /\ <<erase>>[1] = erase
    <3>1. erase \in OpTypes
      BY <1>3 DEF OpTypes
    <3>. QED
      BY <3>1
  <2>2. /\ todo' \in Seq(OpTypes) /\ Len(todo') = 1 + (Len(todo) - 1)
        /\ \A i \in 1 .. 1 + (Len(todo) - 1) :
             todo'[i] = IF i <= 1 THEN <<erase>>[i] ELSE Tail(todo)[i - 1]
    BY <1>4, <1>5, <2>1, ConcatProperties
  <2>3. Len(todo') = Len(todo) /\ 1 \in 1 .. 1 + (Len(todo) - 1)
    BY <1>5, <2>2
  <2>4. ASSUME NEW i \in 2 .. Len(todo)
        PROVE  todo'[i] = todo[i]
    <3>1. i \in 1 .. 1 + (Len(todo) - 1) /\ ~ (i <= 1) /\ i - 1 \in 1 .. Len(todo) - 1 /\ i - 1 + 1 = i
      BY <1>5
    <3>. QED
      BY <1>5, <2>2, <3>1
  <2>. QED
    BY <2>1, <2>2, <2>3, <2>4, LenProperties
<1>7. /\ MaxIndex \in Nat /\ mem.safe \in [Origin -> 0 .. MaxIndex]
      /\ DOMAIN mem = {"applied", "inboxes", "safe", "current_block", "queue"}
  BY <1>1, MaxIndexNat DEF Types
<1>8. /\ mem'.applied = mem.applied /\ mem'.inboxes = mem.inboxes /\ mem'.queue = mem.queue
      /\ mem'.safe = [mem.safe EXCEPT ![o] = s]
      /\ mem'.safe \in [Origin -> 0 .. MaxIndex] /\ mem'.safe[o] = s
      /\ \A p \in Origin : p # o => mem'.safe[p] = mem.safe[p]
  BY <1>2, <1>4, <1>7
<1>9. 1 \in DOMAIN todo
  BY <1>5
<1>10. s \in mem.safe[o] .. mem.applied[o]
  <2>1. CollectsApplied(1)
    BY <1>1, <1>9 DEF HandlersSound
  <2>. QED
    BY <1>1, <1>2, <1>5, <2>1 DEF CollectsApplied
<1>11. /\ ~ Doing("apply") /\ ~ Doing("append") /\ ~ Doing("write")
       /\ ~ Doing("apply")' /\ ~ Doing("append")'
  <2>1. Head(todo') = erase
    BY <1>4, <1>5
  <2>. QED
    BY <1>1, <1>3, <2>1 DEF Doing, Op
<1>12. Types'
  <2>1. mem' \in [applied : [Origin -> 0 .. MaxIndex], inboxes : {Effect(mem'.applied)},
                  safe : [Origin -> 0 .. MaxIndex], current_block : [Origin -> Blocks],
                  queue : [Origin -> Seq(Int)]]
    <3>1. mem \in [applied : [Origin -> 0 .. MaxIndex], inboxes : {Effect(mem.applied)},
                   safe : [Origin -> 0 .. MaxIndex], current_block : [Origin -> Blocks],
                   queue : [Origin -> Seq(Int)]]
      BY <1>1 DEF Types
    <3>. QED
      BY <1>2, <1>4, <1>8, <3>1
  <2>. QED
    BY <1>1, <1>2, <1>6, <2>1 DEF Types, Alive
<1>13. LogsHold'
  BY <1>1, <1>11, LogsKept
<1>14. \A p \in Origin : mem.safe[p] <= mem'.safe[p]
  <2>1. \A p \in Origin : mem.safe[p] \in Int /\ mem.safe[p] <= mem.safe[p]
    BY <1>7
  <2>2. mem.safe[o] <= s
    BY <1>10
  <2>. QED
    BY <1>8, <2>1, <2>2
<1>15. DiskSound'
  BY <1>1, <1>2, <1>8, <1>11, <1>14, DiskKept
<1>16. MemorySound'
  <2>1. ASSUME NEW p \in Origin
        PROVE  /\ mem'.safe[p] <= logged[p]
               /\ \E from \in 0 .. mem'.safe[p] :
                    /\ mem'.queue[p] = Window(from, logged[p])
                    /\ ~ Collecting(p)' => from = mem'.safe[p]
    <3>1. /\ logged[p] \in 0 .. MaxIndex /\ mem.safe[p] \in 0 .. MaxIndex
          /\ mem.applied[p] = logged[p] /\ mem.safe[p] <= logged[p]
          /\ \E from \in 0 .. mem.safe[p] :
               /\ mem.queue[p] = Window(from, logged[p])
               /\ ~ Collecting(p) => from = mem.safe[p]
      BY <1>1, <1>2, <1>11, RunningMemory
    <3>2. CASE p = o
      <4>1. Collecting(p)'
        BY <1>3, <1>5, <1>6, <3>2 DEF Collecting
      <4>2. \A from \in 0 .. mem.safe[p] : from \in 0 .. mem'.safe[p]
        BY <1>7, <1>8, <1>10, <3>1, <3>2
      <4>3. mem'.safe[p] <= logged[p]
        BY <1>8, <1>10, <3>1, <3>2
      <4>. QED
        BY <1>8, <3>1, <4>1, <4>2, <4>3
    <3>3. CASE p # o
      <4>1. ~ Collecting(p)
        <5>1. \A i \in DOMAIN todo : todo[i].do # "erase"
          <6>1. \A i \in 1 .. Len(todo) : i = 1 \/ i \in 2 .. Len(todo)
            BY <1>5
          <6>. QED
            BY <1>1, <1>2, <1>5, <6>1
        <5>. QED
          BY <5>1 DEF Collecting
      <4>. QED
        BY <1>8, <3>1, <3>3, <4>1
    <3>. QED
      BY <3>2, <3>3
  <2>. QED
    BY <1>1, <1>2, <1>8, <1>11, <2>1, RunningStep
<1>17. ReaderSound'
  BY <1>1, <1>2, ReaderKept
<1>18. HandlersSound'
  <2>1. ASSUME NEW i \in 1 .. Len(todo)
        PROVE  \/ i = 1 /\ todo'[i] = erase
               \/ i \in 2 .. Len(todo) /\ todo'[i] = todo[i] /\ todo[i].do = "collect"
                    /\ todo[i].origin # o
    <3>1. i = 1 \/ i \in 2 .. Len(todo)
      OBVIOUS
    <3>. QED
      BY <1>2, <1>6, <3>1
  <2>2. ASSUME NEW i \in 1 .. Len(todo)
        PROVE  (/\ LogsNext(i) /\ WritesWhole(i) /\ SavesBoth(i)
                /\ DeletesSafe(i) /\ PopsSafe(i) /\ CollectsApplied(i))'
    <3>1. CASE todo'[i] = erase
      BY <1>3, <1>8, <3>1
      DEF LogsNext, WritesWhole, SavesBoth, DeletesSafe, PopsSafe, CollectsApplied
    <3>2. CASE i \in 2 .. Len(todo) /\ todo'[i] = todo[i] /\ todo[i].do = "collect"
                 /\ todo[i].origin # o
      <4>1. CollectsApplied(i) /\ todo[i] \in OpTypes
        BY <1>1, <1>5, OpProperty DEF HandlersSound
      <4>2. todo[i].origin \in Origin
        BY <3>2, <4>1, OpKinds
      <4>3. CollectsApplied(i)'
        BY <1>8, <3>2, <4>1, <4>2 DEF CollectsApplied
      <4>. QED
        BY <3>2, <4>3 DEF LogsNext, WritesWhole, SavesBoth, DeletesSafe, PopsSafe
    <3>. QED
      BY <2>1, <3>1, <3>2
  <2>3. ASSUME NEW i \in 1 .. Len(todo), NEW j \in 1 .. Len(todo), i < j
        PROVE  InOrderOf(todo'[i], todo'[j])
    <3>1. j # 1
      BY <2>3
    <3>2. InOrderOf(todo[i], todo[j])
      BY <1>1, <1>5, <2>3 DEF HandlersSound
    <3>. QED
      BY <1>3, <2>1, <3>1, <3>2 DEF InOrderOf
  <2>. QED
    BY <1>6, <1>11, <2>2, <2>3 DEF HandlersSound, InOrderOf
<1>. QED
  BY <1>12, <1>13, <1>15, <1>16, <1>17, <1>18 DEF FilesInv

(* erase_queue_up_to ends: the queue starts after the safe index.          *)
LEMMA EraseDoneSound ==
  ASSUME FilesInv, EraseDone
  PROVE  FilesInv'
<1>1. /\ Types /\ LogsHold /\ DiskSound /\ MemorySound /\ ReaderSound /\ HandlersSound
      /\ todo # <<>> /\ Op.do = "erase" /\ ~ MorePops /\ todo' = Tail(todo)
      /\ UNCHANGED <<phase, mem, files, reader, logged, crashes>>
  BY DEF FilesInv, EraseDone, Doing, Op
<1>2. PICK o \in Origin, s \in 0 .. MaxIndex :
        /\ phase = "running" /\ Alive /\ o = Op.origin /\ s = Op.index
        /\ \A i \in 2 .. Len(todo) : todo[i].do = "collect"
  BY <1>1, CollectsOnly DEF Alive
<1>3. 1 \in DOMAIN todo /\ Op = todo[1]
  BY <1>1, OpProperty
<1>4. s = mem.safe[o]
  <2>1. PopsSafe(1)
    BY <1>1, <1>3 DEF HandlersSound
  <2>. QED
    BY <1>1, <1>2, <1>3, <2>1 DEF PopsSafe
<1>5. /\ ~ Doing("apply") /\ ~ Doing("append") /\ ~ Doing("write")
      /\ ~ Doing("apply")' /\ ~ Doing("append")'
  BY <1>1, TailStarts DEF Doing, Op
<1>6. Types'
  <2>1. /\ DOMAIN files' = {"state", "log"} /\ DOMAIN files'.log = Origin
        /\ DOMAIN files'.state \subseteq {"inbox_state", "log_state"}
        /\ \A p \in Origin : DOMAIN files'.log[p] \subseteq Blocks
        /\ logged' \in [Origin -> 0 .. MaxIndex]
    BY <1>1 DEF Types
  <2>. QED
    BY <1>1, <2>1, FilesStepTyped
<1>7. LogsHold'
  BY <1>1, <1>5, LogsKept
<1>8. DiskSound'
  <2>1. mem.safe \in [Origin -> 0 .. MaxIndex] /\ \A p \in Origin : mem.safe[p] <= mem.safe[p]
    BY <1>1, MaxIndexNat DEF Types
  <2>. QED
    BY <1>1, <1>2, <1>5, <2>1, DiskKept
<1>9. MemorySound'
  <2>1. ASSUME NEW p \in Origin
        PROVE  /\ mem'.safe[p] <= logged[p]
               /\ \E from \in 0 .. mem'.safe[p] :
                    /\ mem'.queue[p] = Window(from, logged[p])
                    /\ ~ Collecting(p)' => from = mem'.safe[p]
    <3>1. /\ logged[p] \in 0 .. MaxIndex /\ mem.safe[p] \in 0 .. MaxIndex
          /\ mem.safe[p] <= logged[p] /\ MaxIndex \in Nat
      BY <1>1, <1>2, <1>5, RunningMemory, MaxIndexNat
    <3>2. PICK from \in 0 .. mem.safe[p] :
            /\ mem.queue[p] = Window(from, logged[p])
            /\ ~ Collecting(p) => from = mem.safe[p]
      BY <1>1, <1>2, <1>5, RunningMemory
    <3>3. CASE p = o
      <4>1. from \in Nat /\ logged[p] \in Int
        BY <3>1
      <4>2. /\ Window(from, logged[p]) = <<>> <=> logged[p] <= from
            /\ from < logged[p] => Head(Window(from, logged[p])) = from + 1
        BY <4>1, WindowProperty
      <4>3. mem.queue[o] = <<>> \/ ~ (Head(mem.queue[o]) <= s)
        BY <1>1, <1>2 DEF MorePops, FrontIndex
      <4>4. from = mem.safe[p]
        BY <1>4, <3>1, <3>2, <3>3, <4>1, <4>2, <4>3
      <4>. QED
        BY <1>1, <3>1, <3>2, <4>4
    <3>4. CASE p # o
      <4>1. Collecting(p) => Collecting(p)'
        BY <1>1, <1>2, <3>4, CollectingStays
      <4>. QED
        BY <1>1, <3>1, <3>2, <4>1
    <3>. QED
      BY <3>3, <3>4
  <2>. QED
    BY <1>1, <1>2, <1>5, <2>1, RunningStep
<1>10. ReaderSound'
  BY <1>1, <1>2, ReaderKept
<1>11. HandlersSound'
  <2>1. SavedOnDisk' = SavedOnDisk /\ SafeOnDisk' = SafeOnDisk
    BY <1>1 DEF SavedOnDisk, SafeOnDisk, Exists
  <2>. QED
    BY <1>1, <1>2, <2>1, TailSound
<1>. QED
  BY <1>6, <1>7, <1>8, <1>9, <1>10, <1>11 DEF FilesInv

(* The command at the front of a queue, while it is collected.             *)
LEMMA FrontProperty ==
  ASSUME Types, MemorySound, phase = "running", ~ Doing("apply"), NEW o \in Origin,
         mem.queue[o] # <<>>, FrontIndex(o) <= mem.safe[o]
  PROVE  /\ FrontIndex(o) \in 1 .. mem.safe[o] /\ mem.safe[o] <= logged[o]
         /\ \E from \in 0 .. mem.safe[o] :
              /\ Tail(mem.queue[o]) = Window(from, logged[o])
              /\ from = FrontIndex(o)
         /\ Tail(mem.queue[o]) \in Seq(Int)
<1>1. /\ logged[o] \in 0 .. MaxIndex /\ mem.safe[o] \in 0 .. MaxIndex
      /\ mem.safe[o] <= logged[o] /\ MaxIndex \in Nat
  BY RunningMemory, MaxIndexNat
<1>2. PICK from \in 0 .. mem.safe[o] : mem.queue[o] = Window(from, logged[o])
  BY RunningMemory
<1>3. from \in Nat /\ from + 1 \in Nat /\ logged[o] \in Int
  BY <1>1
<1>4. /\ Window(from, logged[o]) = <<>> <=> logged[o] <= from
      /\ from < logged[o] => Head(Window(from, logged[o])) = from + 1
      /\ from < logged[o] => Tail(Window(from, logged[o])) = Window(from + 1, logged[o])
  BY <1>3, WindowProperty
<1>5. Window(from + 1, logged[o]) \in Seq(Int)
  BY <1>3, WindowProperty
<1>6. from < logged[o]
  BY <1>1, <1>2, <1>3, <1>4
<1>7. FrontIndex(o) = from + 1 /\ Tail(mem.queue[o]) = Window(from + 1, logged[o])
  BY <1>2, <1>4, <1>6 DEF FrontIndex
<1>8. from + 1 \in 1 .. mem.safe[o] /\ from + 1 \in 0 .. mem.safe[o]
  BY <1>1, <1>3, <1>7
<1>. QED
  BY <1>1, <1>5, <1>7, <1>8

(* erase_queue_up_to pops a command of the current block.                  *)
LEMMA EraseFrontSound ==
  ASSUME FilesInv, EraseFront
  PROVE  FilesInv'
<1>1. /\ Types /\ LogsHold /\ DiskSound /\ MemorySound /\ ReaderSound /\ HandlersSound
      /\ todo # <<>> /\ Op.do = "erase" /\ MorePops
      /\ mem' = [mem EXCEPT !.queue[Op.origin] = Tail(@)]
      /\ UNCHANGED <<phase, files, todo, reader, logged, crashes>>
  BY DEF FilesInv, EraseFront, Doing, Op
<1>2. PICK o \in Origin, s \in 0 .. MaxIndex :
        /\ phase = "running" /\ Alive /\ o = Op.origin /\ s = Op.index
        /\ \A i \in 2 .. Len(todo) : todo[i].do = "collect"
  BY <1>1, CollectsOnly DEF Alive
<1>3. 1 \in DOMAIN todo /\ Op = todo[1] /\ DOMAIN todo = 1 .. Len(todo) /\ Len(todo) \in Nat
  BY <1>1, OpProperty
<1>4. s = mem.safe[o]
  <2>1. PopsSafe(1)
    BY <1>1, <1>3 DEF HandlersSound
  <2>. QED
    BY <1>1, <1>2, <1>3, <2>1 DEF PopsSafe
<1>5. ~ Doing("apply") /\ ~ Doing("append") /\ ~ Doing("write") /\ ~ Doing("apply")'
  BY <1>1 DEF Doing, Op
<1>6. /\ mem.queue[o] # <<>> /\ FrontIndex(o) <= mem.safe[o]
  BY <1>1, <1>2, <1>4 DEF MorePops
<1>7. PICK from \in 0 .. mem.safe[o] : /\ Tail(mem.queue[o]) = Window(from, logged[o])
  BY <1>1, <1>2, <1>5, <1>6, FrontProperty
<1>8. Tail(mem.queue[o]) \in Seq(Int)
  BY <1>1, <1>2, <1>5, <1>6, FrontProperty
<1>9. /\ DOMAIN mem = {"applied", "inboxes", "safe", "current_block", "queue"}
      /\ mem.queue \in [Origin -> Seq(Int)] /\ mem.safe \in [Origin -> 0 .. MaxIndex]
      /\ MaxIndex \in Nat
  BY <1>1, MaxIndexNat DEF Types
<1>10. /\ mem'.applied = mem.applied /\ mem'.inboxes = mem.inboxes /\ mem'.safe = mem.safe
       /\ mem'.current_block = mem.current_block
       /\ mem'.queue = [mem.queue EXCEPT ![o] = Tail(@)]
  BY <1>1, <1>2, <1>9
<1>11. /\ mem'.queue \in [Origin -> Seq(Int)] /\ mem'.queue[o] = Tail(mem.queue[o])
       /\ \A p \in Origin : p # o => mem'.queue[p] = mem.queue[p]
  BY <1>8, <1>9, <1>10
<1>12. Types'
  <2>1. mem' \in [applied : [Origin -> 0 .. MaxIndex], inboxes : {Effect(mem'.applied)},
                  safe : [Origin -> 0 .. MaxIndex], current_block : [Origin -> Blocks],
                  queue : [Origin -> Seq(Int)]]
    <3>1. mem \in [applied : [Origin -> 0 .. MaxIndex], inboxes : {Effect(mem.applied)},
                   safe : [Origin -> 0 .. MaxIndex], current_block : [Origin -> Blocks],
                   queue : [Origin -> Seq(Int)]]
      BY <1>1 DEF Types
    <3>. QED
      BY <1>1, <1>10, <1>11, <3>1
  <2>. QED
    BY <1>1, <1>2, <2>1 DEF Types, Alive
<1>13. LogsHold'
  BY <1>1, <1>5, LogsKept
<1>14. DiskSound'
  <2>1. mem'.safe \in [Origin -> 0 .. MaxIndex] /\ \A p \in Origin : mem.safe[p] <= mem'.safe[p]
    BY <1>9, <1>10
  <2>. QED
    BY <1>1, <1>2, <1>5, <2>1, DiskKept
<1>15. MemorySound'
  <2>1. ASSUME NEW p \in Origin
        PROVE  /\ mem'.safe[p] <= logged[p]
               /\ \E start \in 0 .. mem'.safe[p] :
                    /\ mem'.queue[p] = Window(start, logged[p])
                    /\ ~ Collecting(p)' => start = mem'.safe[p]
    <3>1. /\ mem.safe[p] <= logged[p]
          /\ \E start \in 0 .. mem.safe[p] :
               /\ mem.queue[p] = Window(start, logged[p])
               /\ ~ Collecting(p) => start = mem.safe[p]
      BY <1>1, <1>2, <1>5, RunningMemory
    <3>2. Collecting(p)' <=> Collecting(p)
      BY <1>1 DEF Collecting
    <3>3. Collecting(o)
      BY <1>1, <1>2, <1>3 DEF Collecting
    <3>4. CASE p = o
      BY <1>7, <1>10, <1>11, <3>1, <3>2, <3>3, <3>4
    <3>5. CASE p # o
      BY <1>10, <1>11, <3>1, <3>2, <3>5
    <3>. QED
      BY <3>4, <3>5
  <2>. QED
    BY <1>1, <1>2, <1>5, <1>10, <2>1, RunningStep
<1>16. ReaderSound'
  BY <1>1, <1>2, ReaderKept
<1>17. HandlersSound'
  <2>1. \A i \in DOMAIN todo : todo[i].do \in {"erase", "collect"}
    <3>1. \A i \in 1 .. Len(todo) : i = 1 \/ i \in 2 .. Len(todo)
      BY <1>3
    <3>. QED
      BY <1>1, <1>2, <1>3, <3>1
  <2>2. ASSUME NEW i \in DOMAIN todo
        PROVE  (/\ LogsNext(i) /\ WritesWhole(i) /\ SavesBoth(i)
                /\ DeletesSafe(i) /\ PopsSafe(i) /\ CollectsApplied(i))'
    <3>1. PopsSafe(i) /\ CollectsApplied(i)
      BY <1>1 DEF HandlersSound
    <3>. QED
      BY <1>1, <1>10, <2>1, <3>1
      DEF LogsNext, WritesWhole, SavesBoth, DeletesSafe, PopsSafe, CollectsApplied
  <2>3. \A i, j \in DOMAIN todo : i < j => InOrderOf(todo[i], todo[j])
    BY <1>1 DEF HandlersSound
  <2>4. ~ Doing("append")'
    BY <1>1, <1>5 DEF Doing
  <2>. QED
    BY <1>1, <2>2, <2>3, <2>4 DEF HandlersSound, InOrderOf
<1>. QED
  BY <1>12, <1>13, <1>14, <1>15, <1>16, <1>17 DEF FilesInv

(* erase_queue_up_to pops a command of another block, which becomes the    *)
(* current one.                                                            *)
LEMMA PopSound ==
  ASSUME FilesInv, Pop
  PROVE  FilesInv'
<1>1. /\ Types /\ LogsHold /\ DiskSound /\ MemorySound /\ ReaderSound /\ HandlersSound
      /\ todo # <<>> /\ Op.do = "pop" /\ todo' = Tail(todo)
      /\ mem' = [mem EXCEPT !.current_block[Op.origin] = Block(Op.index), !.queue[Op.origin] = Tail(@)]
      /\ UNCHANGED <<phase, files, reader, logged, crashes>>
  BY DEF FilesInv, Pop, Doing, Op
<1>2. PICK o \in Origin, s \in 0 .. MaxIndex :
        /\ phase = "running" /\ Alive /\ o = Op.origin /\ s = Op.index
        /\ \A i \in 2 .. Len(todo) : todo[i].do \in {"collect", "erase"}
  BY <1>1, CollectsOnly DEF Alive
<1>3. /\ 1 \in DOMAIN todo /\ Op = todo[1] /\ DOMAIN todo = 1 .. Len(todo) /\ Len(todo) \in Nat
      /\ todo' \in Seq(OpTypes) /\ DOMAIN todo' = 1 .. Len(todo) - 1
      /\ \A i \in 1 .. Len(todo) - 1 : todo'[i] = todo[i + 1]
  BY <1>1, OpProperty
<1>4. /\ s = mem.safe[o] /\ mem.queue[o] # <<>> /\ FrontIndex(o) <= s
      /\ 1 < Len(todo) /\ todo[2].do = "erase" /\ todo[2].origin = o
  <2>1. PopsSafe(1)
    BY <1>1, <1>3 DEF HandlersSound
  <2>. QED
    BY <1>1, <1>2, <1>3, <2>1 DEF PopsSafe
<1>5. /\ ~ Doing("apply") /\ ~ Doing("append") /\ ~ Doing("write")
      /\ ~ Doing("apply")' /\ ~ Doing("append")'
  BY <1>1, TailStarts DEF Doing, Op
<1>7. PICK from \in 0 .. mem.safe[o] : /\ Tail(mem.queue[o]) = Window(from, logged[o])
  BY <1>1, <1>2, <1>4, <1>5, FrontProperty
<1>8. Tail(mem.queue[o]) \in Seq(Int)
  BY <1>1, <1>2, <1>4, <1>5, FrontProperty
<1>9. /\ DOMAIN mem = {"applied", "inboxes", "safe", "current_block", "queue"}
      /\ mem.queue \in [Origin -> Seq(Int)] /\ mem.safe \in [Origin -> 0 .. MaxIndex]
      /\ mem.current_block \in [Origin -> Blocks]
      /\ MaxIndex \in Nat
  BY <1>1, MaxIndexNat DEF Types
<1>10. /\ mem'.applied = mem.applied /\ mem'.inboxes = mem.inboxes /\ mem'.safe = mem.safe
       /\ mem'.current_block = [mem.current_block EXCEPT ![o] = Block(s)]
       /\ mem'.queue = [mem.queue EXCEPT ![o] = Tail(@)]
  BY <1>1, <1>2, <1>9
<1>11. /\ mem'.queue \in [Origin -> Seq(Int)] /\ mem'.queue[o] = Tail(mem.queue[o])
       /\ \A p \in Origin : p # o => mem'.queue[p] = mem.queue[p]
  BY <1>8, <1>9, <1>10
<1>12. Types'
  <2>1. mem'.current_block \in [Origin -> Blocks]
    <3>1. s \in Nat /\ s <= MaxIndex + 1
      BY <1>9
    <3>2. Block(s) \in Blocks
      BY <3>1, BlockTyped
    <3>. QED
      BY <1>9, <1>10, <3>2
  <2>2. mem' \in [applied : [Origin -> 0 .. MaxIndex], inboxes : {Effect(mem'.applied)},
                  safe : [Origin -> 0 .. MaxIndex], current_block : [Origin -> Blocks],
                  queue : [Origin -> Seq(Int)]]
    <3>1. mem \in [applied : [Origin -> 0 .. MaxIndex], inboxes : {Effect(mem.applied)},
                   safe : [Origin -> 0 .. MaxIndex], current_block : [Origin -> Blocks],
                   queue : [Origin -> Seq(Int)]]
      BY <1>1 DEF Types
    <3>. QED
      BY <1>1, <1>10, <1>11, <2>1, <3>1
  <2>. QED
    BY <1>1, <1>2, <1>3, <2>2 DEF Types, Alive
<1>13. LogsHold'
  BY <1>1, <1>5, LogsKept
<1>14. DiskSound'
  <2>1. mem'.safe \in [Origin -> 0 .. MaxIndex] /\ \A p \in Origin : mem.safe[p] <= mem'.safe[p]
    BY <1>9, <1>10
  <2>. QED
    BY <1>1, <1>2, <1>5, <2>1, DiskKept
<1>15. MemorySound'
  <2>1. ASSUME NEW p \in Origin
        PROVE  /\ mem'.safe[p] <= logged[p]
               /\ \E start \in 0 .. mem'.safe[p] :
                    /\ mem'.queue[p] = Window(start, logged[p])
                    /\ ~ Collecting(p)' => start = mem'.safe[p]
    <3>1. /\ mem.safe[p] <= logged[p]
          /\ \E start \in 0 .. mem.safe[p] :
               /\ mem.queue[p] = Window(start, logged[p])
               /\ ~ Collecting(p) => start = mem.safe[p]
      BY <1>1, <1>2, <1>5, RunningMemory
    <3>2. Collecting(p) => Collecting(p)'
      BY <1>1, CollectingStays
    <3>3. Collecting(o)'
      <4>1. 1 \in 1 .. Len(todo) - 1 /\ todo'[1] = todo[2]
        BY <1>3, <1>4
      <4>. QED
        BY <1>3, <1>4, <4>1 DEF Collecting
    <3>4. CASE p = o
      BY <1>7, <1>10, <1>11, <3>1, <3>3, <3>4
    <3>5. CASE p # o
      BY <1>10, <1>11, <3>1, <3>2, <3>5
    <3>. QED
      BY <3>4, <3>5
  <2>. QED
    BY <1>1, <1>2, <1>5, <1>10, <2>1, RunningStep
<1>16. ReaderSound'
  BY <1>1, <1>2, ReaderKept
<1>17. HandlersSound'
  <2>1. SavedOnDisk' = SavedOnDisk /\ SafeOnDisk' = SafeOnDisk
    BY <1>1 DEF SavedOnDisk, SafeOnDisk, Exists
  <2>2. \A i \in 2 .. Len(todo) : todo[i].do # "pop"
    BY <1>2
  <2>. QED
    BY <1>1, <1>10, <2>1, <2>2, TailSound
<1>. QED
  BY <1>12, <1>13, <1>14, <1>15, <1>16, <1>17 DEF FilesInv

(* delete_file_block removes a block whose records are all safe, on disk   *)
(* too.                                                                    *)
LEMMA DeleteSound ==
  ASSUME FilesInv, Delete
  PROVE  FilesInv'
<1>1. /\ Types /\ LogsHold /\ DiskSound /\ MemorySound /\ ReaderSound /\ HandlersSound
      /\ todo # <<>> /\ Op.do = "delete" /\ todo' = Tail(todo)
      /\ files' = [files EXCEPT !.log[Op.origin] = Restrict(@, DOMAIN @ \ {Op.block})]
      /\ UNCHANGED <<phase, mem, reader, logged, crashes>>
  BY DEF FilesInv, Delete, Doing, Op
<1>2. 1 \in DOMAIN todo /\ Op = todo[1] /\ Op \in OpTypes
  BY <1>1, OpProperty
<1>3. phase = "running" /\ Alive
  BY <1>1, <1>2, Busy DEF Types, Alive
<1>4. PICK o \in Origin, b \in Blocks : o = Op.origin /\ b = Op.block
  BY <1>1, <1>2, OpKinds
<1>5. b < Block(mem.safe[o]) /\ SafeOnDisk = <<mem.safe>>
  <2>1. DeletesSafe(1)
    BY <1>1, <1>2 DEF HandlersSound
  <2>. QED
    BY <1>1, <1>2, <1>4, <2>1 DEF DeletesSafe, Before
<1>6. /\ DOMAIN files' = {"state", "log"} /\ files'.state = files.state
      /\ DOMAIN files'.log = Origin
      /\ \A p \in Origin : p # o => files'.log[p] = files.log[p]
      /\ DOMAIN files'.log[o] = DOMAIN files.log[o] \ {b}
      /\ \A c \in DOMAIN files'.log[o] : files'.log[o][c] = files.log[o][c]
  <2>1. DOMAIN files = {"state", "log"} /\ DOMAIN files.log = Origin
    BY <1>1 DEF Types
  <2>2. files'.log = [files.log EXCEPT ![o] = Restrict(@, DOMAIN @ \ {b})]
    BY <1>1, <1>4, <2>1
  <2>3. files'.log[o] = Restrict(files.log[o], DOMAIN files.log[o] \ {b})
    BY <1>4, <2>1, <2>2
  <2>4. /\ DOMAIN files' = {"state", "log"} /\ files'.state = files.state
        /\ DOMAIN files'.log = Origin
        /\ \A p \in Origin : p # o => files'.log[p] = files.log[p]
    BY <1>1, <2>1, <2>2
  <2>. QED
    BY <2>3, <2>4 DEF Restrict
<1>7. /\ ~ Doing("apply") /\ ~ Doing("append") /\ ~ Doing("write")
      /\ ~ Doing("apply")' /\ ~ Doing("append")'
  BY <1>1, TailStarts DEF Doing, Op
<1>8. /\ mem.safe \in [Origin -> 0 .. MaxIndex] /\ logged \in [Origin -> 0 .. MaxIndex]
      /\ MaxIndex \in Nat
  BY <1>1, MaxIndexNat DEF Types
<1>9. Types'
  <2>1. \A p \in Origin : DOMAIN files'.log[p] \subseteq Blocks
    <3>1. \A p \in Origin : DOMAIN files.log[p] \subseteq Blocks
      BY <1>1 DEF Types
    <3>. QED
      BY <1>6, <3>1
  <2>2. DOMAIN files'.state \subseteq {"inbox_state", "log_state"}
    BY <1>1, <1>6 DEF Types
  <2>. QED
    BY <1>1, <1>6, <1>8, <2>1, <2>2, FilesStepTyped
<1>10. LogsHold'
  <2>1. ASSUME NEW p \in Origin, NEW c \in DOMAIN files'.log[p]
        PROVE  \E first \in 1 .. MaxIndex, last \in 0 .. MaxIndex :
                 IsBlock(p, c, first, last)' /\ first <= last
    <3>1. c \in DOMAIN files.log[p] /\ files'.log[p][c] = files.log[p][c]
      BY <1>6
    <3>2. PICK first \in 1 .. MaxIndex, last \in 0 .. MaxIndex :
            IsBlock(p, c, first, last) /\ first <= last
      BY <1>1, <1>7, <3>1 DEF LogsHold
    <3>3. IsBlock(p, c, first, last)'
      BY <1>1, <3>1, <3>2 DEF IsBlock
    <3>. QED
      BY <3>2, <3>3
  <2>. QED
    BY <2>1 DEF LogsHold
<1>11. DiskSound'
  <2>1. SavedOnDisk' = SavedOnDisk /\ SafeOnDisk' = SafeOnDisk
    BY <1>6 DEF SavedOnDisk, SafeOnDisk, Exists
  <2>2. CompleteFrom(mem.safe)'
    <3>1. SUFFICES ASSUME NEW p \in Origin, NEW k \in 1 .. logged[p], mem.safe[p] <= k
                   PROVE  Block(k) \in DOMAIN files'.log[p]
      BY <1>1 DEF CompleteFrom
    <3>2. Block(k) \in DOMAIN files.log[p]
      BY <1>1, <1>3, <3>1 DEF DiskSound, CompleteFrom
    <3>3. mem.safe[p] \in Nat /\ k \in Nat
      BY <1>8
    <3>4. Block(mem.safe[p]) \in Nat /\ Block(k) \in Nat /\ Block(mem.safe[p]) <= Block(k)
      BY <3>1, <3>3, BlockMonotone
    <3>5. p = o => Block(k) # b
      <4>1. b \in Int
        <5>1. Block(MaxIndex + 1) \in Nat
          BY <1>8, BlockMonotone
        <5>. QED
          BY <5>1 DEF Blocks
      <4>. QED
        BY <1>5, <3>4, <4>1
    <3>. QED
      BY <1>6, <3>2, <3>5
  <2>3. SavedSound'
    BY <1>1, <2>1 DEF DiskSound, SavedSound
  <2>4. SafeSound'
    <3>1. \A p \in Origin : mem.safe[p] <= mem.safe[p]
      BY <1>8
    <3>2. SafeOnDisk' = <<mem.safe>>
      BY <1>5, <2>1
    <3>3. Head(SafeOnDisk') = mem.safe
      BY <3>2
    <3>4. CompleteFrom(Head(SafeOnDisk))'
      BY <1>1, <2>2, <3>3 DEF CompleteFrom
    <3>5. (Alive => \A p \in Origin : Head(SafeOnDisk)[p] <= mem.safe[p])'
      BY <1>1, <3>1, <3>3
    <3>. QED
      BY <1>8, <3>2, <3>3, <3>4, <3>5 DEF SafeSound
  <2>5. \A file \in DOMAIN files'.state : Len(files'.state[file]) <= 1
    BY <1>1, <1>6 DEF DiskSound
  <2>6. TornWhileWritten'
    BY <1>1, <1>6, <1>7 DEF DiskSound, TornWhileWritten
  <2>. QED
    BY <2>2, <2>3, <2>4, <2>5, <2>6 DEF DiskSound
<1>12. MemorySound'
  <2>1. \A p \in Origin : Collecting(p) => Collecting(p)'
    BY <1>1, CollectingStays
  <2>2. Alive' => Alive
    BY <1>3
  <2>. QED
    BY <1>1, <1>7, <2>1, <2>2, MemoryKept
<1>13. ReaderSound'
  BY <1>1, <1>3, ReaderKept
<1>14. HandlersSound'
  <2>1. SavedOnDisk' = SavedOnDisk /\ SafeOnDisk' = SafeOnDisk
    BY <1>6 DEF SavedOnDisk, SafeOnDisk, Exists
  <2>. QED
    BY <1>1, <2>1, TailSound
<1>. QED
  BY <1>9, <1>10, <1>11, <1>12, <1>13, <1>14 DEF FilesInv

(* s is the four items of w, the n of d, p, and t.                         *)
InARow(s, S, w, d, n, p, t) ==
  /\ s \in Seq(S) /\ Len(s) = 5 + n + Len(t)
  /\ \A i \in 1 .. 4 : s[i] = w[i]
  /\ \A i \in 5 .. 4 + n : s[i] = d[i - 4]
  /\ s[5 + n] = p
  /\ \A i \in 6 + n .. 5 + n + Len(t) : s[i] = t[i - (5 + n)]

(* The parts of the handler that goes over to another block.               *)
LEMMA FourInARow ==
  ASSUME NEW S, NEW w \in Seq(S), NEW d \in Seq(S), NEW p \in S, NEW t \in Seq(S),
         Len(w) = 4, NEW n \in Nat, n = Len(d)
  PROVE  InARow((w \o d) \o <<p>> \o t, S, w, d, n, p, t)
<1>0. PICK a \in Nat, b \in Nat, c \in Nat :
        a = 4 /\ b = 4 + n /\ c = 5 + n + Len(t)
  <2>1. 5 + n + Len(t) \in Nat /\ 4 + n \in Nat /\ 4 \in Nat
    BY LenProperties
  <2>. QED
    BY <2>1, Zenon
<1>. DEFINE u == w \o d
            v == u \o <<p>>
            s == v \o t
<1>1. Len(t) \in Nat /\ a = Len(w) /\ b = a + n /\ c = b + 1 + Len(t)
  BY <1>0, LenProperties
<1>2. /\ u \in Seq(S) /\ Len(u) = b
      /\ \A i \in 1 .. b : u[i] = IF i <= a THEN w[i] ELSE d[i - a]
  <2>1. /\ u \in Seq(S) /\ Len(u) = Len(w) + Len(d)
        /\ \A i \in 1 .. Len(w) + Len(d) : u[i] = IF i <= Len(w) THEN w[i] ELSE d[i - Len(w)]
    BY ConcatProperties
  <2>. QED
    BY <1>1, <2>1
<1>. HIDE DEF u
<1>3. <<p>> \in Seq(S) /\ Len(<<p>>) = 1 /\ <<p>>[1] = p
  OBVIOUS
<1>4. /\ v \in Seq(S) /\ Len(v) = b + 1
      /\ \A i \in 1 .. b + 1 : v[i] = IF i <= b THEN u[i] ELSE <<p>>[i - b]
  <2>0. u \in Seq(S) /\ <<p>> \in Seq(S)
    BY <1>2, <1>3
  <2>1. /\ v \in Seq(S) /\ Len(v) = Len(u) + Len(<<p>>)
        /\ \A i \in 1 .. Len(u) + Len(<<p>>) : v[i] = IF i <= Len(u) THEN u[i] ELSE <<p>>[i - Len(u)]
    BY <2>0, ConcatProperties
  <2>. QED
    BY <1>2, <1>3, <2>1
<1>. HIDE DEF v
<1>5. /\ s \in Seq(S) /\ Len(s) = c
      /\ \A i \in 1 .. c : s[i] = IF i <= b + 1 THEN v[i] ELSE t[i - (b + 1)]
  <2>0. v \in Seq(S)
    BY <1>4
  <2>1. /\ s \in Seq(S) /\ Len(s) = Len(v) + Len(t)
        /\ \A i \in 1 .. Len(v) + Len(t) : s[i] = IF i <= Len(v) THEN v[i] ELSE t[i - Len(v)]
    BY <2>0, ConcatProperties
  <2>. QED
    BY <1>1, <1>4, <2>1
<1>. HIDE DEF s
<1>6. ASSUME NEW i \in 1 .. a
      PROVE  s[i] = w[i]
  <2>1. i \in 1 .. b /\ i \in 1 .. b + 1 /\ i \in 1 .. c /\ i <= a /\ i <= b /\ i <= b + 1
    BY <1>1
  <2>. QED
    BY <1>2, <1>4, <1>5, <2>1
<1>7. ASSUME NEW i \in 5 .. 4 + n
      PROVE  s[i] = d[i - 4]
  <2>1. /\ i \in 1 .. b /\ i \in 1 .. b + 1 /\ i \in 1 .. c
        /\ ~ (i <= a) /\ i <= b /\ i <= b + 1
    BY <1>0, <1>1
  <2>. QED
    BY <1>0, <1>2, <1>4, <1>5, <2>1
<1>8. s[5 + n] = p
  <2>1. PICK i \in 1 .. c : i = 5 + n
    BY <1>0, <1>1
  <2>2. i \in 1 .. b + 1 /\ i <= b + 1 /\ ~ (i <= b) /\ i - b = 1
    BY <1>0, <2>1
  <2>3. s[i] = <<p>>[i - b]
    BY <1>4, <1>5, <2>2
  <2>. QED
    BY <1>3, <2>1, <2>2, <2>3
<1>9. ASSUME NEW i \in 6 + n .. 5 + n + Len(t)
      PROVE  s[i] = t[i - (5 + n)]
  <2>1. i \in 1 .. c /\ ~ (i <= b + 1) /\ i - (b + 1) = i - (5 + n)
    BY <1>0, <1>1
  <2>2. s[i] = t[i - (b + 1)]
    BY <1>5, <2>1
  <2>. QED
    BY <2>1, <2>2
<1>. QED
  BY <1>0, <1>5, <1>6, <1>7, <1>8, <1>9 DEF s, v, u, InARow

(* erase_queue_up_to meets another block: it will save the state, delete   *)
(* the blocks before that one and pop.                                     *)
LEMMA EraseBlockSound ==
  ASSUME FilesInv, EraseBlock
  PROVE  FilesInv'
<1>1. /\ Types /\ LogsHold /\ DiskSound /\ MemorySound /\ ReaderSound /\ HandlersSound
      /\ todo # <<>> /\ Op.do = "erase" /\ MorePops
      /\ todo' = SavesThenDeletes(Op.origin) \o <<[Op EXCEPT !.do = "pop"]>> \o todo
      /\ UNCHANGED <<phase, mem, files, reader, logged, crashes>>
  BY DEF FilesInv, EraseBlock, Doing, Op
<1>2. PICK o \in Origin, s \in 0 .. MaxIndex :
        /\ phase = "running" /\ Alive /\ o = Op.origin /\ s = Op.index
        /\ Op = [do |-> "erase", origin |-> o, index |-> s]
        /\ \A i \in 2 .. Len(todo) : todo[i].do = "collect"
  BY <1>1, CollectsOnly DEF Alive
<1>3. /\ 1 \in DOMAIN todo /\ Op = todo[1] /\ DOMAIN todo = 1 .. Len(todo)
      /\ Len(todo) \in Nat \ {0} /\ \A i \in 1 .. Len(todo) : todo[i] \in OpTypes
  BY <1>1, OpProperty
<1>3a. todo \in Seq(OpTypes)
  BY <1>1 DEF Types
<1>4. s = mem.safe[o]
  <2>1. PopsSafe(1)
    BY <1>1, <1>3 DEF HandlersSound
  <2>. QED
    BY <1>1, <1>2, <1>3, <2>1 DEF PopsSafe
<1>5. ~ Doing("apply") /\ ~ Doing("append") /\ ~ Doing("write")
  BY <1>1 DEF Doing, Op
<1>6. /\ mem.queue[o] # <<>> /\ FrontIndex(o) <= mem.safe[o]
  BY <1>1, <1>2, <1>4 DEF MorePops
<1>7. /\ mem.current_block[o] \in Blocks /\ mem.safe[o] \in 0 .. MaxIndex
      /\ mem.safe \in [Origin -> 0 .. MaxIndex] /\ MaxIndex \in Nat
  BY <1>1, MaxIndexNat DEF Types
<1>8. PICK f \in 1 .. MaxIndex : f = FrontIndex(o) /\ f <= mem.safe[o]
  <2>1. FrontIndex(o) \in 1 .. mem.safe[o]
    BY <1>1, <1>2, <1>5, <1>6, FrontProperty
  <2>. QED
    BY <1>7, <2>1
<1>8a. mem.current_block[o] \in Nat
  <2>1. MaxIndex + 1 \in Nat
    BY <1>7
  <2>2. Block(MaxIndex + 1) \in Nat
    BY <2>1, BlockMonotone
  <2>. QED
    BY <1>7, <2>2 DEF Blocks
<1>9. PICK c, d, pop :
        /\ c \in Nat /\ c = mem.current_block[o] /\ d = Deletions(o, f)
        /\ pop = [do |-> "pop", origin |-> o, index |-> s]
  BY <1>8a
<1>10. /\ f \in Nat /\ Block(f) \in Nat /\ Block(mem.safe[o]) \in Nat
       /\ Block(f) <= Block(mem.safe[o]) /\ Block(f) \in Blocks
  <2>1. f \in Nat /\ mem.safe[o] \in Nat /\ f <= MaxIndex + 1
    BY <1>7
  <2>. QED
    BY <1>8, <2>1, BlockMonotone, BlockTyped
<1>11. /\ d \in Seq(OpTypes)
       /\ \A i \in 1 .. Len(d) : d[i].do = "delete" /\ d[i].origin = o /\ d[i].block < Block(mem.safe[o])
  <2>1. d = [i \in 1 .. Block(f) - c |-> [do |-> "delete", origin |-> o, block |-> c + i - 1]]
    BY <1>9 DEF Deletions
  <2>2. ASSUME NEW i \in 1 .. Block(f) - c
        PROVE  /\ [do |-> "delete", origin |-> o, block |-> c + i - 1] \in OpTypes
               /\ c + i - 1 < Block(mem.safe[o])
    <3>1. c + i - 1 \in 0 .. Block(f) /\ c + i - 1 < Block(f)
      BY <1>9, <1>10
    <3>2. c + i - 1 \in Blocks
      <4>1. MaxIndex + 1 \in Nat /\ f <= MaxIndex + 1
        BY <1>7
      <4>2. Block(MaxIndex + 1) \in Nat /\ Block(f) <= Block(MaxIndex + 1)
        BY <1>10, <4>1, BlockMonotone
      <4>. QED
        BY <1>10, <3>1, <4>2 DEF Blocks
    <3>3. c + i - 1 < Block(mem.safe[o])
      BY <1>10, <3>1
    <3>. QED
      BY <3>2, <3>3 DEF OpTypes
  <2>3. CASE Block(f) - c \in Nat
    <3>1. Len(d) = Block(f) - c /\ d \in Seq(OpTypes)
      BY <2>1, <2>2, <2>3
    <3>. QED
      BY <2>1, <2>2, <3>1
  <2>4. CASE Block(f) - c \notin Nat
    <3>1. 1 .. Block(f) - c = {}
      BY <1>9, <1>10, <2>4
    <3>2. d = <<>>
      BY <2>1, <3>1
    <3>. QED
      BY <3>2
  <2>. QED
    BY <2>3, <2>4
<1>12. pop \in OpTypes
  BY <1>9 DEF OpTypes
<1>13. todo' = (WriteState \o d) \o <<pop>> \o todo
  <2>1. [Op EXCEPT !.do = "pop"] = pop
    BY <1>2, <1>9
  <2>. QED
    BY <1>1, <1>2, <1>8, <1>9, <2>1 DEF SavesThenDeletes
<1>13a. PICK n \in Nat : n = Len(d)
  BY <1>11, LenProperties
<1>14. /\ todo' \in Seq(OpTypes) /\ Len(todo') = 5 + n + Len(todo)
       /\ \A i \in 1 .. 4 : todo'[i] = WriteState[i]
       /\ \A i \in 5 .. 4 + n : todo'[i] = d[i - 4]
       /\ todo'[5 + n] = pop
       /\ \A i \in 6 + n .. 5 + n + Len(todo) : todo'[i] = todo[i - (5 + n)]
  <2>. DEFINE w == WriteState
  <2>1. w \in Seq(OpTypes) /\ Len(w) = 4
    BY WriteStateProperty
  <2>. HIDE DEF w
  <2>2. d \in Seq(OpTypes)
    BY <1>11
  <2>3. InARow((w \o d) \o <<pop>> \o todo, OpTypes, w, d, n, pop, todo)
    BY <1>3a, <1>12, <1>13a, <2>1, <2>2, FourInARow
  <2>4. InARow(todo', OpTypes, w, d, n, pop, todo)
    BY <1>13, <2>3 DEF w
  <2>. QED
    BY <2>4 DEF w, InARow
<1>15. /\ WriteState[1] = [do |-> "truncate", file |-> "inbox_state"]
       /\ WriteState[2] = [do |-> "write", file |-> "inbox_state"]
       /\ WriteState[3] = [do |-> "truncate", file |-> "log_state"]
       /\ WriteState[4] = [do |-> "write", file |-> "log_state"]
  BY WriteStateProperty
<1>16. DOMAIN todo' = 1 .. 5 + n + Len(todo) /\ Len(todo) \in Nat
  BY <1>3, <1>14, LenProperties
<1>17. ASSUME NEW i \in 1 .. Len(todo)
       PROVE  \E j \in DOMAIN todo' : j = 5 + n + i /\ todo'[j] = todo[i]
  <2>1. PICK j \in 6 + n .. 5 + n + Len(todo) : j = 5 + n + i
    BY <1>16
  <2>2. j - (5 + n) = i /\ j \in DOMAIN todo'
    BY <1>16, <2>1
  <2>. QED
    BY <1>14, <2>1, <2>2
<1>18. ~ Doing("apply")' /\ ~ Doing("append")'
  <2>1. 1 \in 1 .. 4 /\ Len(todo') # 0
    BY <1>3, <1>14
  <2>2. Head(todo') = [do |-> "truncate", file |-> "inbox_state"]
    BY <1>14, <1>15, <2>1
  <2>. QED
    BY <2>2 DEF Doing
<1>19. Types'
  BY <1>1, <1>2, <1>14 DEF Types, Alive
<1>20. LogsHold'
  BY <1>1, <1>5, LogsKept
<1>21. DiskSound'
  <2>1. \A p \in Origin : mem.safe[p] <= mem'.safe[p]
    BY <1>1, <1>7
  <2>. QED
    BY <1>1, <1>2, <1>5, <1>7, <2>1, DiskKept
<1>22. MemorySound'
  <2>1. ASSUME NEW p \in Origin, Collecting(p)
        PROVE  Collecting(p)'
    <3>1. PICK i \in 1 .. Len(todo) : todo[i].do = "erase" /\ todo[i].origin = p
      BY <1>3, <2>1 DEF Collecting
    <3>2. \E j \in DOMAIN todo' : todo'[j] = todo[i]
      BY <1>17
    <3>. QED
      BY <3>1, <3>2 DEF Collecting
  <2>2. Alive' => Alive
    BY <1>2
  <2>. QED
    BY <1>1, <1>5, <1>18, <2>1, <2>2, MemoryKept
<1>23. ReaderSound'
  BY <1>1, <1>2, ReaderKept
<1>24. HandlersSound'
  <2>1. ASSUME NEW i \in 1 .. 5 + n + Len(todo)
        PROVE  \/ i \in 1 .. 4
               \/ i \in 5 .. 4 + n
               \/ i = 5 + n
               \/ i - (5 + n) \in 1 .. Len(todo)
    BY <1>16
  <2>2. ASSUME NEW i \in 1 .. 4
        PROVE  i = 1 \/ i = 2 \/ i = 3 \/ i = 4
    OBVIOUS
  <2>3. \A i \in 1 .. 4 : todo'[i] = WriteState[i] /\ todo'[i].do \in {"truncate", "write"}
    BY <1>14, WriteStateProperty
  <2>4. ASSUME NEW i \in 5 .. 4 + n
        PROVE  todo'[i].do = "delete" /\ todo'[i].origin = o /\ todo'[i].block < Block(mem.safe[o])
    <3>1. i - 4 \in 1 .. n
      OBVIOUS
    <3>. QED
      BY <1>11, <1>13a, <1>14, <3>1
  <2>5. ASSUME NEW i \in Int, i - (5 + n) \in 1 .. Len(todo)
        PROVE  /\ todo'[i] = todo[i - (5 + n)] /\ todo'[i].do \in {"erase", "collect"}
               /\ todo[i - (5 + n)] \in OpTypes
               /\ PopsSafe(i - (5 + n)) /\ CollectsApplied(i - (5 + n))
    <3>1. /\ i \in 6 + n .. 5 + n + Len(todo)
          /\ i - (5 + n) = 1 \/ i - (5 + n) \in 2 .. Len(todo)
      BY <1>16, <2>5
    <3>2. todo'[i] = todo[i - (5 + n)]
      BY <1>14, <2>5, <3>1
    <3>3. PopsSafe(i - (5 + n)) /\ CollectsApplied(i - (5 + n))
      BY <1>1, <1>3, <2>5 DEF HandlersSound
    <3>. QED
      BY <1>1, <1>2, <1>3, <2>5, <3>1, <3>2, <3>3
  <2>6. ASSUME NEW i \in 1 .. 5 + n + Len(todo)
        PROVE  (/\ LogsNext(i) /\ WritesWhole(i) /\ SavesBoth(i)
                /\ DeletesSafe(i) /\ PopsSafe(i) /\ CollectsApplied(i))'
    <3>1. CASE i \in 1 .. 4
      <4>1. (LogsNext(i) /\ DeletesSafe(i) /\ PopsSafe(i) /\ CollectsApplied(i))'
        BY <2>3, <3>1 DEF LogsNext, DeletesSafe, PopsSafe, CollectsApplied
      <4>2. WritesWhole(i)'
        <5>1. 1 < Len(todo') /\ 3 < Len(todo') /\ 1 + 1 = 2 /\ 3 + 1 = 4
          BY <1>3, <1>14
        <5>. QED
          BY <1>14, <1>15, <2>2, <3>1, <5>1 DEF WritesWhole
      <4>3. SavesBoth(i)'
        <5>1. CASE i = 1 \/ i = 2
          BY <1>14, <1>15, <3>1, <5>1 DEF SavesBoth
        <5>2. CASE i = 3 \/ i = 4
          <6>1. 2 \in 1 .. i - 1 /\ 2 \in 1 .. 4
            BY <5>2
          <6>2. Before(i, [do |-> "write", file |-> "inbox_state"])'
            BY <1>14, <1>15, <6>1 DEF Before
          <6>. QED
            BY <6>2 DEF SavesBoth
        <5>. QED
          BY <2>2, <3>1, <5>1, <5>2
      <4>. QED
        BY <4>1, <4>2, <4>3
    <3>2. CASE i \in 5 .. 4 + n
      <4>1. 4 \in 1 .. i - 1 /\ 4 \in 1 .. 4
        BY <3>2
      <4>2. Before(i, [do |-> "write", file |-> "log_state"])'
        BY <1>14, <1>15, <4>1 DEF Before
      <4>3. DeletesSafe(i)'
        BY <1>1, <2>4, <3>2, <4>2 DEF DeletesSafe
      <4>. QED
        BY <2>4, <3>2, <4>3 DEF LogsNext, WritesWhole, SavesBoth, PopsSafe, CollectsApplied
    <3>3. CASE i = 5 + n
      <4>1. todo'[i] = pop /\ pop.do = "pop" /\ pop.origin = o /\ pop.index = s
        BY <1>9, <1>14, <3>3
      <4>2. i < Len(todo') /\ 1 \in 1 .. Len(todo) /\ i + 1 = 5 + n + 1
        BY <1>3, <1>14, <3>3
      <4>3. todo'[i + 1] = [do |-> "erase", origin |-> o, index |-> s]
        <5>1. PICK j \in DOMAIN todo' : j = 5 + n + 1 /\ todo'[j] = todo[1]
          BY <1>17, <4>2
        <5>2. i + 1 = j
          BY <4>2, <5>1
        <5>. QED
          BY <1>2, <1>3, <5>1, <5>2
      <4>4. mem'.queue[o] # <<>> /\ FrontIndex(o)' <= s
        BY <1>1, <1>4, <1>6 DEF FrontIndex
      <4>5. PopsSafe(i)'
        BY <1>1, <1>4, <4>1, <4>2, <4>3, <4>4 DEF PopsSafe, FrontIndex
      <4>. QED
        BY <4>1, <4>5 DEF LogsNext, WritesWhole, SavesBoth, DeletesSafe, CollectsApplied
    <3>4. CASE i - (5 + n) \in 1 .. Len(todo)
      <4>1. /\ todo'[i] = todo[i - (5 + n)] /\ todo'[i].do \in {"erase", "collect"}
            /\ PopsSafe(i - (5 + n)) /\ CollectsApplied(i - (5 + n))
        BY <2>5, <3>4
      <4>. QED
        BY <1>1, <4>1
        DEF LogsNext, WritesWhole, SavesBoth, DeletesSafe, PopsSafe, CollectsApplied
    <3>. QED
      BY <2>1, <3>1, <3>2, <3>3, <3>4
  <2>7. ASSUME NEW i \in 1 .. 5 + n + Len(todo), NEW j \in 1 .. 5 + n + Len(todo), i < j
        PROVE  InOrderOf(todo'[i], todo'[j])
    <3>1. ASSUME NEW k \in 1 .. 5 + n + Len(todo)
          PROVE  todo'[k].do \in {"truncate", "write", "delete", "pop", "erase", "collect"}
      <4>1. CASE k \in 1 .. 4
        BY <2>3, <4>1
      <4>2. CASE k \in 5 .. 4 + n
        BY <2>4, <4>2
      <4>3. CASE k = 5 + n
        BY <1>9, <1>14, <4>3
      <4>4. CASE k - (5 + n) \in 1 .. Len(todo)
        BY <2>5, <4>4
      <4>. QED
        BY <2>1, <4>1, <4>2, <4>3, <4>4
    <3>2. CASE i \in 1 .. 4 \/ i \in 5 .. 4 + n
      BY <2>3, <2>4, <3>1, <3>2 DEF InOrderOf
    <3>3. CASE i = 5 + n
      <4>1. j - (5 + n) \in 1 .. Len(todo)
        BY <1>16, <2>7, <3>3
      <4>2. todo'[i] = pop /\ pop.do = "pop" /\ todo'[j].do \in {"erase", "collect"}
        BY <1>9, <1>14, <2>5, <3>3, <4>1
      <4>. QED
        BY <4>2 DEF InOrderOf
    <3>4. CASE i - (5 + n) \in 1 .. Len(todo)
      <4>1. j - (5 + n) \in 1 .. Len(todo) /\ i - (5 + n) < j - (5 + n)
        BY <1>16, <2>7, <3>4
      <4>2. InOrderOf(todo[i - (5 + n)], todo[j - (5 + n)])
        BY <1>1, <1>3, <3>4, <4>1 DEF HandlersSound
      <4>. QED
        BY <2>5, <3>4, <4>1, <4>2
    <3>. QED
      BY <2>1, <3>2, <3>3, <3>4
  <2>. QED
    BY <1>16, <1>18, <2>6, <2>7 DEF HandlersSound, InOrderOf
<1>. QED
  BY <1>19, <1>20, <1>21, <1>22, <1>23, <1>24 DEF FilesInv

-----------------------------------------------------------------------------
(* The start of handlers.                                                  *)

(* A handler starts, and has done nothing yet.                             *)
LEMMA HandlerStarts ==
  ASSUME FilesInv, phase = "running", todo = <<>>,
         UNCHANGED <<phase, mem, files, reader, logged, crashes>>,
         todo' \in Seq(OpTypes), ~ Doing("apply")', HandlersSound'
  PROVE  FilesInv'
<1>1. /\ Types /\ LogsHold /\ DiskSound /\ MemorySound /\ ReaderSound
      /\ ~ Doing("apply") /\ ~ Doing("append") /\ ~ Doing("write") /\ Alive /\ Alive'
      /\ \A o \in Origin : ~ Collecting(o)
  BY DEF FilesInv, Doing, Alive, Collecting
<1>2. mem.safe \in [Origin -> 0 .. MaxIndex] /\ \A o \in Origin : mem.safe[o] <= mem.safe[o]
  BY <1>1, MaxIndexNat DEF Types
<1>3. Types'
  BY <1>1 DEF Types, Alive
<1>4. LogsHold'
  BY <1>1, LogsKept
<1>5. DiskSound'
  BY <1>1, <1>2, DiskKept
<1>6. MemorySound'
  BY <1>1, MemoryKept
<1>7. ReaderSound'
  BY <1>1, ReaderKept
<1>. QED
  BY <1>3, <1>4, <1>5, <1>6, <1>7 DEF FilesInv

(* apply_new_command starts with the next command of an origin.            *)
LEMMA ApplyNewCommandSound ==
  ASSUME FilesInv, NEW o \in Origin, ApplyNewCommand(o)
  PROVE  FilesInv'
<1>1. /\ Types /\ MemorySound /\ phase = "running" /\ todo = <<>>
      /\ UNCHANGED <<phase, mem, files, reader, logged, crashes>>
      /\ ~ Doing("apply")
  BY DEF FilesInv, ApplyNewCommand, Doing
<1>2. /\ mem.applied[o] = logged[o] /\ logged[o] \in 0 .. MaxIndex /\ MaxIndex \in Nat
  BY <1>1, RunningMemory, MaxIndexNat
<1>3. PICK k \in 1 .. MaxIndex : k = logged[o] + 1
  <2>1. mem.applied[o] + 1 <= MaxIndex
    BY DEF ApplyNewCommand
  <2>. QED
    BY <1>2, <2>1
<1>4. todo' = NewCommand(o, k)
  BY <1>2, <1>3 DEF ApplyNewCommand, NewCommand
<1>5. PICK create, append, apply :
        /\ create = [do |-> "create", origin |-> o, index |-> k]
        /\ append = [do |-> "append", origin |-> o, index |-> k]
        /\ apply = [do |-> "apply", command |-> Record(o, k)]
  OBVIOUS
<1>6. /\ create \in OpTypes /\ append \in OpTypes /\ apply \in OpTypes
      /\ todo' = <<create, append, apply>>
  BY <1>4, <1>5, NewCommandProperty
<1>7. /\ todo' \in Seq(OpTypes) /\ DOMAIN todo' = 1 .. 3 /\ Head(todo') = create
      /\ todo'[1] = create /\ todo'[2] = append /\ todo'[3] = apply
  BY <1>6
<1>8. create.do = "create" /\ append.do = "append" /\ apply.do = "apply"
  BY <1>5
<1>9. \A i \in 1 .. 3 : i = 1 \/ i = 2 \/ i = 3
  OBVIOUS
<1>10. ~ Doing("apply")' /\ ~ Doing("append")'
  BY <1>7, <1>8 DEF Doing
<1>11. HandlersSound'
  <2>1. \A i \in DOMAIN todo' : LogsNext(i)'
    BY <1>1, <1>3, <1>4 DEF LogsNext
  <2>2. \A i \in DOMAIN todo' : todo'[i].do \in {"create", "append", "apply"}
    BY <1>7, <1>8, <1>9
  <2>3. \A i \in DOMAIN todo' :
          (WritesWhole(i) /\ SavesBoth(i) /\ DeletesSafe(i) /\ PopsSafe(i) /\ CollectsApplied(i))'
    BY <2>2 DEF WritesWhole, SavesBoth, DeletesSafe, PopsSafe, CollectsApplied
  <2>4. ASSUME NEW i \in 1 .. 3, NEW j \in 1 .. 3, i < j
        PROVE  InOrderOf(todo'[i], todo'[j])
    <3>1. i = 1 \/ i = 2
      BY <2>4
    <3>2. todo'[i].do \in {"create", "append"}
      BY <1>7, <1>8, <3>1
    <3>. QED
      BY <3>2 DEF InOrderOf
  <2>. QED
    BY <1>7, <1>10, <2>1, <2>3, <2>4 DEF HandlersSound, InOrderOf
<1>. QED
  BY <1>1, <1>7, <1>10, <1>11, HandlerStarts

(* collect_garbage starts, with every origin still to collect.             *)
LEMMA CollectGarbageSound ==
  ASSUME FilesInv, NEW safe \in [Origin -> 0 .. MaxIndex], CollectGarbage(safe)
  PROVE  FilesInv'
<1>1. /\ Types /\ phase = "running" /\ todo = <<>>
      /\ UNCHANGED <<phase, mem, files, reader, logged, crashes>>
      /\ \A o \in Origin : safe[o] \in mem.safe[o] .. mem.applied[o]
      /\ todo' = [i \in 1 .. N_MACHINES |->
                   [do |-> "collect", origin |-> i - 1, index |-> safe[i - 1]]]
  BY DEF FilesInv, CollectGarbage
<1>2. N_MACHINES \in Nat \ {0}
  BY MaxIndexNat
<1>3. \A i \in 1 .. N_MACHINES : i - 1 \in Origin
  BY <1>2 DEF Origin
<1>4. \A i \in 1 .. N_MACHINES :
        [do |-> "collect", origin |-> i - 1, index |-> safe[i - 1]] \in OpTypes
  BY <1>3 DEF OpTypes
<1>5. /\ DOMAIN todo' = 1 .. N_MACHINES /\ Len(todo') = N_MACHINES
      /\ \A i \in 1 .. N_MACHINES :
           /\ todo'[i].do = "collect" /\ todo'[i].origin = i - 1
           /\ todo'[i].index = safe[i - 1]
  BY <1>1, <1>2
<1>6. todo' \in Seq(OpTypes)
  BY <1>1, <1>2, <1>4
<1>7. ~ Doing("apply")' /\ ~ Doing("append")'
  <2>1. 1 \in 1 .. N_MACHINES /\ Head(todo') = todo'[1]
    BY <1>2, <1>5, <1>6
  <2>. QED
    BY <1>5, <2>1 DEF Doing
<1>8. HandlersSound'
  <2>1. ASSUME NEW i \in 1 .. N_MACHINES
        PROVE  (/\ LogsNext(i) /\ WritesWhole(i) /\ SavesBoth(i)
                /\ DeletesSafe(i) /\ PopsSafe(i) /\ CollectsApplied(i))'
    <3>1. CollectsApplied(i)'
      BY <1>1, <1>3, <1>5 DEF CollectsApplied
    <3>. QED
      BY <1>5, <3>1 DEF LogsNext, WritesWhole, SavesBoth, DeletesSafe, PopsSafe
  <2>2. ASSUME NEW i \in 1 .. N_MACHINES, NEW j \in 1 .. N_MACHINES, i < j
        PROVE  InOrderOf(todo'[i], todo'[j])
    <3>1. j - 1 # i - 1
      BY <2>2
    <3>. QED
      BY <1>5, <3>1 DEF InOrderOf
  <2>. QED
    BY <1>5, <1>7, <2>1, <2>2 DEF HandlersSound, InOrderOf
<1>. QED
  BY <1>1, <1>6, <1>7, <1>8, HandlerStarts

-----------------------------------------------------------------------------
(* The replay of the logs.                                                 *)

(* A step that moves the reader, but not how far any log has been replayed. *)
LEMMA ReaderStep ==
  ASSUME FilesInv, phase = "reading", todo = <<>>,
         phase' \in {"reading", "running"}, phase' = "running" => reader' = NoReader,
         UNCHANGED <<mem, files, todo, logged, crashes>>,
         reader' \in [origin : 0 .. N_MACHINES, index : Nat, block : Nat, pos : Nat,
                      open : BOOLEAN, eof : BOOLEAN, buf : {reader'.buf}],
         \A o \in Origin : Sought(o)' = Sought(o),
         ReaderSound'
  PROVE  FilesInv'
<1>1. /\ Types /\ LogsHold /\ DiskSound /\ MemorySound /\ Alive /\ Alive'
      /\ ~ Doing("apply") /\ ~ Doing("append") /\ ~ Doing("write")
      /\ ~ Doing("apply")' /\ ~ Doing("append")'
  BY DEF FilesInv, Doing, Alive
<1>2. mem.safe \in [Origin -> 0 .. MaxIndex] /\ \A o \in Origin : mem.safe[o] <= mem.safe[o]
  BY <1>1, MaxIndexNat DEF Types
<1>3. Types'
  BY <1>1 DEF Types, Alive
<1>4. LogsHold'
  BY <1>1, LogsKept
<1>5. DiskSound'
  BY <1>1, <1>2, DiskKept
<1>6. MemorySound'
  <2>. SUFFICES ASSUME NEW o \in Origin
                PROVE  (/\ mem.safe[o] <= Cursor(o) /\ Cursor(o) <= mem.applied[o]
                        /\ mem.applied[o] <= logged[o]
                        /\ Pending(o) => Op.command = Record(o, Cursor(o) + 1)
                                           /\ mem.applied[o] = Cursor(o)
                        /\ \E from \in 0 .. mem.safe[o] :
                             /\ mem.queue[o] = Window(from, Cursor(o))
                             /\ ~Collecting(o) => from = mem.safe[o])'
    BY DEF MemorySound
  <2>1. ~ Pending(o) /\ ~ Pending(o)'
    BY <1>1 DEF Pending
  <2>2. Cursor(o)' = Cursor(o) /\ (Collecting(o)' <=> Collecting(o))
    BY <2>1 DEF Cursor, Collecting
  <2>3. /\ mem.safe[o] <= Cursor(o) /\ Cursor(o) <= mem.applied[o] /\ mem.applied[o] <= logged[o]
        /\ \E from \in 0 .. mem.safe[o] :
             /\ mem.queue[o] = Window(from, Cursor(o))
             /\ ~Collecting(o) => from = mem.safe[o]
    BY <1>1 DEF MemorySound
  <2>. QED
    BY <2>1, <2>2, <2>3
<1>7. HandlersSound'
  BY <1>1 DEF HandlersSound
<1>. QED
  BY <1>3, <1>4, <1>5, <1>6, <1>7 DEF FilesInv

(* The buffer is of any kind, every other local variable has its type.     *)
LEMMA ReaderTyped ==
  ASSUME Types
  PROVE  /\ reader.origin \in 0 .. N_MACHINES /\ reader.index \in Nat /\ reader.block \in Nat
         /\ reader.pos \in Nat /\ reader.open \in BOOLEAN /\ reader.eof \in BOOLEAN
         /\ DOMAIN reader = {"origin", "index", "block", "pos", "open", "eof", "buf"}
         /\ reader = [origin |-> reader.origin, index |-> reader.index, block |-> reader.block,
                      pos |-> reader.pos, open |-> reader.open, eof |-> reader.eof,
                      buf |-> reader.buf]
BY DEF Types

(* read_log_files ends after the last origin: every log was replayed.      *)
LEMMA LoadedSound ==
  ASSUME FilesInv, Loaded
  PROVE  FilesInv'
<1>1. /\ Types /\ phase = "reading" /\ todo = <<>> /\ phase' = "running" /\ reader' = NoReader
      /\ reader.origin = N_MACHINES /\ UNCHANGED <<mem, files, todo, logged, crashes>>
  BY DEF FilesInv, Loaded, Reading
<1>2. \A o \in Origin : Sought(o)' = Sought(o)
  <2>1. \A o \in Origin : o < N_MACHINES
    BY MaxIndexNat DEF Origin
  <2>2. reader'.origin = N_MACHINES
    BY <1>1 DEF NoReader
  <2>. QED
    BY <1>1, <2>1, <2>2 DEF Sought
<1>3. ReaderSound'
  BY <1>1 DEF ReaderSound
<1>. QED
  BY <1>1, <1>2, <1>3, NoReaderIsTyped, ReaderStep

(* Going to the next origin, when all that this one logged was replayed.   *)
LEMMA NextOriginSound ==
  ASSUME FilesInv, Reading, UNCHANGED <<phase, mem, files, todo, logged, crashes>>,
         reader.origin \in Origin, Sought(reader.origin) = logged[reader.origin],
         NEW r, r.origin = reader.origin + 1, ~ r.open,
         reader' = r,
         r \in [origin : 0 .. N_MACHINES, index : Nat, block : Nat, pos : Nat,
                open : BOOLEAN, eof : BOOLEAN, buf : {r.buf}]
  PROVE  FilesInv'
<1>1. Types /\ phase = "reading" /\ todo = <<>>
  BY DEF FilesInv, Reading
<1>2. ASSUME NEW o \in Origin
      PROVE  Sought(o)' = Sought(o)
  <2>1. o \in Nat /\ reader.origin \in Nat
    BY MaxIndexNat DEF Origin
  <2>2. CASE o < reader.origin
    <3>1. o < reader'.origin
      BY <2>1, <2>2
    <3>. QED
      BY <2>2, <3>1 DEF Sought
  <2>3. CASE o = reader.origin
    <3>1. o < reader'.origin
      BY <2>1, <2>3
    <3>. QED
      BY <2>3, <3>1 DEF Sought
  <2>4. CASE o > reader.origin
    <3>1. ~ (o < reader.origin) /\ o # reader.origin /\ ~ (o < reader'.origin)
      BY <2>1, <2>4
    <3>. QED
      BY <3>1 DEF Sought
  <2>. QED
    BY <2>1, <2>2, <2>3, <2>4
<1>3. ReaderSound'
  BY DEF ReaderSound
<1>. QED
  BY <1>1, <1>2, <1>3, ReaderStep

(* The reader that goes to the next origin is a reader.                    *)
LEMMA NextOriginTyped ==
  ASSUME Types, NEW r, r \in {NextOrigin, [reader EXCEPT !.origin = @ + 1, !.open = FALSE]},
         reader.origin \in Origin
  PROVE  /\ r.origin = reader.origin + 1 /\ ~ r.open
         /\ r \in [origin : 0 .. N_MACHINES, index : Nat, block : Nat, pos : Nat,
                   open : BOOLEAN, eof : BOOLEAN, buf : {r.buf}]
<1>1. reader.origin + 1 \in 0 .. N_MACHINES
  BY MaxIndexNat DEF Origin
<1>2. r = [origin |-> reader.origin + 1, index |-> reader.index, block |-> reader.block,
           pos |-> reader.pos, open |-> FALSE, eof |-> reader.eof, buf |-> reader.buf]
  BY DEF Types, NextOrigin
<1>. QED
  BY <1>1, <1>2, ReaderTyped

(* The counters of an origin while the logs are read and nothing is to do. *)
LEMMA ReplayMemory ==
  ASSUME Types, MemorySound, Reading, NEW o \in Origin
  PROVE  /\ mem.safe[o] \in 0 .. MaxIndex /\ mem.applied[o] \in 0 .. MaxIndex
         /\ logged[o] \in 0 .. MaxIndex /\ MaxIndex \in Nat
         /\ Sought(o) \in Int /\ Cursor(o) = Sought(o)
         /\ mem.safe[o] <= Sought(o) /\ Sought(o) <= mem.applied[o]
         /\ mem.applied[o] <= logged[o]
         /\ mem.queue[o] = Window(mem.safe[o], Sought(o))
<1>1. ~ Pending(o) /\ ~ Collecting(o) /\ Alive
  BY DEF Reading, Pending, Doing, Collecting, Alive
<1>2. Cursor(o) = Sought(o)
  BY <1>1 DEF Cursor
<1>. QED
  BY <1>1, <1>2, CursorTyped, MaxIndexNat DEF MemorySound, Types

(* read_log_files opens the block of the first index that is not safe, or  *)
(* finds none; then nothing was logged from there on.                      *)
LEMMA OpenLogSound ==
  ASSUME FilesInv, OpenLog
  PROVE  FilesInv'
<1>1. /\ Types /\ LogsHold /\ DiskSound /\ MemorySound /\ Reading
      /\ phase = "reading" /\ todo = <<>> /\ ~ reader.open /\ reader.origin \in Origin
      /\ UNCHANGED <<phase, mem, files, todo, logged, crashes>>
  BY DEF FilesInv, OpenLog, Reading
<1>2. PICK o \in Origin, s \in 0 .. MaxIndex, i \in Nat, b \in Nat :
        /\ o = reader.origin /\ s = mem.safe[o] /\ i = s + 1 /\ b = Block(i)
  <2>1. mem.safe[reader.origin] \in 0 .. MaxIndex /\ MaxIndex \in Nat
    BY <1>1, ReplayMemory
  <2>2. mem.safe[reader.origin] + 1 \in Nat
    BY <2>1
  <2>3. Block(mem.safe[reader.origin] + 1) \in Nat
    BY <2>1, <2>2, BlockTyped
  <2>. QED
    BY <1>1, <2>1, <2>2, <2>3
<1>3. reader' = IF b \in DOMAIN files.log[o]
                THEN [reader EXCEPT !.index = i, !.block = b, !.pos = 0,
                                    !.open = TRUE, !.eof = FALSE]
                ELSE NextOrigin
  BY <1>2 DEF OpenLog, Exists
<1>4. /\ Sought(o) = s /\ s <= logged[o] /\ logged[o] \in 0 .. MaxIndex /\ MaxIndex \in Nat
  <2>1. Sought(o) = s
    BY <1>1, <1>2 DEF Sought, Origin
  <2>. QED
    BY <1>1, <1>2, <2>1, ReplayMemory
<1>5. CASE b \in DOMAIN files.log[o]
  <2>1. PICK first \in 1 .. MaxIndex, last \in 0 .. MaxIndex :
          IsBlock(o, b, first, last) /\ first <= last
    <3>1. ~ Doing("append")
      BY <1>1 DEF Doing
    <3>. QED
      BY <1>1, <1>5, <3>1 DEF LogsHold
  <2>2. first <= i
    <3>. SUFFICES ASSUME i < first
                  PROVE  FALSE
      BY <1>4
    <3>1. last <= logged[o] /\ \A k \in 1 .. logged[o] : Block(k) = b <=> k \in first .. last
      BY <2>1 DEF IsBlock
    <3>2. i \in 1 .. logged[o] /\ i \notin first .. last
      BY <1>2, <1>4, <2>1, <3>1
    <3>. QED
      BY <1>2, <3>1, <3>2
  <2>3. reader' = [origin |-> o, index |-> i, block |-> b, pos |-> 0,
                   open |-> TRUE, eof |-> FALSE, buf |-> reader.buf]
    BY <1>1, <1>2, <1>3, <1>5 DEF Types
  <2>4. /\ reader'.origin = o /\ reader'.index = i /\ reader'.block = b /\ reader'.pos = 0
        /\ reader'.open /\ ~ reader'.eof /\ reader'.buf = reader.buf
    BY <2>3
  <2>5. reader' \in [origin : 0 .. N_MACHINES, index : Nat, block : Nat, pos : Nat,
                     open : BOOLEAN, eof : BOOLEAN, buf : {reader'.buf}]
    <3>1. o \in 0 .. N_MACHINES
      BY MaxIndexNat DEF Origin
    <3>. QED
      BY <2>3, <2>4, <3>1
  <2>6. ASSUME NEW p \in Origin
        PROVE  Sought(p)' = Sought(p)
    <3>1. CASE p < o
      BY <1>1, <1>2, <2>4, <3>1 DEF Sought
    <3>2. CASE ~ (p < o) /\ p = o
      <4>1. Sought(p)' = i - 1 /\ i - 1 = s
        BY <1>2, <2>4, <3>2 DEF Sought
      <4>. QED
        BY <1>4, <3>2, <4>1
    <3>3. CASE ~ (p < o) /\ p # o
      BY <1>1, <1>2, <2>4, <3>3 DEF Sought
    <3>. QED
      BY <3>1, <3>2, <3>3
  <2>7. ReaderSound'
    <3>1. IsBlock(o, b, first, last)'
      BY <1>1, <2>1 DEF IsBlock
    <3>2. i \in mem.safe[o] + 1 .. logged[o] + 1
      BY <1>2, <1>4
    <3>3. first \in 1 .. MaxIndex /\ last \in 1 .. MaxIndex /\ first \in first .. last + 1
          /\ 0 = 2 * (first - first) /\ first <= i /\ (first < i => i = mem.safe[o] + 1)
          /\ ~ (first < first)
      BY <1>2, <1>4, <2>1, <2>2
    <3>. QED
      BY <1>1, <1>2, <1>5, <2>4, <3>1, <3>2, <3>3 DEF ReaderSound
  <2>. QED
    BY <1>1, <2>5, <2>6, <2>7, ReaderStep
<1>6. CASE b \notin DOMAIN files.log[o]
  <2>1. s = logged[o]
    <3>. SUFFICES ASSUME s < logged[o]
                  PROVE  FALSE
      BY <1>4
    <3>1. CompleteFrom(mem.safe)
      BY <1>1 DEF DiskSound, Alive
    <3>2. i \in 1 .. logged[o] /\ mem.safe[o] <= i
      BY <1>2, <1>4
    <3>. QED
      BY <1>2, <1>6, <3>1, <3>2 DEF CompleteFrom
  <2>2. reader' = NextOrigin
    BY <1>3, <1>6
  <2>. QED
    BY <1>1, <1>2, <1>4, <2>1, <2>2, NextOriginTyped, NextOriginSound
<1>. QED
  BY <1>5, <1>6

(* read_log_files meets the end of the last block: all of it was read.     *)
LEMMA CloseLogSound ==
  ASSUME FilesInv, CloseLog
  PROVE  FilesInv'
<1>1. /\ Types /\ MemorySound /\ ReaderSound /\ Reading /\ phase = "reading"
      /\ reader.open /\ reader.eof /\ reader' = NextOrigin
      /\ UNCHANGED <<phase, mem, files, todo, logged, crashes>>
  BY DEF FilesInv, CloseLog, Reading
<1>1a. PICK o \in Origin : o = reader.origin
  BY <1>1 DEF ReaderSound
<1>2. PICK i, b : o \in Origin /\ o = reader.origin /\ i = reader.index /\ b = reader.block
  BY <1>1a
<1>3. /\ b = Block(i) /\ i \in mem.safe[o] + 1 .. logged[o] + 1
  BY <1>1, <1>2 DEF ReaderSound
<1>4. PICK first \in 1 .. MaxIndex, last \in 1 .. MaxIndex :
        IsBlock(o, b, first, last) /\ last + 1 <= i
  BY <1>1, <1>2 DEF ReaderSound
<1>5. /\ mem.safe[o] \in 0 .. MaxIndex /\ logged[o] \in 0 .. MaxIndex /\ MaxIndex \in Nat
      /\ Sought(o) = i - 1
  <2>1. Sought(o) = i - 1
    BY <1>1, <1>2 DEF Sought, Origin
  <2>. QED
    BY <1>1, <2>1, ReplayMemory
<1>6. i = logged[o] + 1
  <2>. SUFFICES ASSUME i # logged[o] + 1
                PROVE  FALSE
    OBVIOUS
  <2>1. \A k \in 1 .. logged[o] : Block(k) = b <=> k \in first .. last
    BY <1>4 DEF IsBlock
  <2>2. i \in 1 .. logged[o] /\ i \notin first .. last
    BY <1>3, <1>4, <1>5
  <2>. QED
    BY <1>3, <2>1, <2>2
<1>7. Sought(o) = logged[o]
  BY <1>5, <1>6
<1>. QED
  BY <1>1, <1>2, <1>7, NextOriginTyped, NextOriginSound

(* What infile.read leaves in the buffer: the next record of the block, or, *)
(* at its end, the last one once more.                                     *)
LEMMA ReadProperty ==
  ASSUME NEW o \in Origin, NEW b, NEW first \in 1 .. MaxIndex, NEW last \in 1 .. MaxIndex,
         NEW next \in first .. last + 1, first <= last,
         reader.origin = o, reader.block = b, files.log[o][b] = RunOf(o, first, last),
         reader.pos = 2 * (next - first),
         first < next => reader.buf = Record(o, next - 1)
  PROVE  /\ next <= last =>
              Buffer = Record(o, next) /\ ~ AtEnd /\ Reach = 2 * (next + 1 - first)
         /\ next = last + 1 =>
              Buffer = Record(o, last) /\ AtEnd /\ Reach = 2 * (next - first)
<1>1. MaxIndex \in Nat /\ first \in Nat /\ last \in Nat /\ next \in Nat /\ first <= last + 1
  BY MaxIndexNat
<1>2. PICK n \in Nat, p \in Nat : n = 2 * (last + 1 - first) /\ p = 2 * (next - first)
  BY <1>1
<1>3. Content = RunOf(o, first, last)
  BY DEF Content
<1>4. Len(Content) = n /\ reader.pos = p
  BY <1>1, <1>2, <1>3, RunProperty
<1>6. \A k : Record(o, k) = [i \in 1 .. 2 |-> IF i = 1 THEN Half(o, k, 1) ELSE Half(o, k, 2)]
  BY DEF Record
<1>7. Buffer = [i \in 1 .. 2 |-> IF p + i <= n THEN Content[p + i] ELSE reader.buf[i]]
  BY <1>4 DEF Buffer
<1>8. CASE next <= last
  <2>1. p + 1 <= n /\ p + 2 <= n /\ 2 * (next + 1 - first) = p + 2
    BY <1>1, <1>2, <1>8
  <2>2. Content[p + 1] = Half(o, next, 1) /\ Content[p + 2] = Half(o, next, 2)
    <3>1. next \in first .. last
      BY <1>1, <1>8
    <3>2. RecordAt(RunOf(o, first, last), p, o, next)
      BY <1>1, <1>2, <3>1, RunHalves
    <3>. QED
      BY <1>3, <3>2 DEF RecordAt
  <2>3. \A i \in 1 .. 2 : (IF p + i <= n THEN Content[p + i] ELSE reader.buf[i])
                            = IF i = 1 THEN Half(o, next, 1) ELSE Half(o, next, 2)
    <3>1. \A i \in 1 .. 2 : i = 1 \/ i = 2
      OBVIOUS
    <3>. QED
      BY <2>1, <2>2, <3>1
  <2>4. Buffer = Record(o, next)
    BY <1>6, <1>7, <2>3
  <2>5. ~ AtEnd /\ Reach = p + 2
    BY <1>1, <1>2, <1>4, <2>1 DEF AtEnd, Reach
  <2>. QED
    BY <1>1, <1>8, <2>1, <2>4, <2>5
<1>9. CASE next = last + 1
  <2>1. p = n /\ first < next /\ next - 1 = last
    BY <1>1, <1>2, <1>9
  <2>2. reader.buf = Record(o, last)
    BY <2>1
  <2>3. \A i \in 1 .. 2 : ~ (p + i <= n)
    BY <1>2, <2>1
  <2>4. Buffer = [i \in 1 .. 2 |-> reader.buf[i]]
    BY <1>7, <2>3
  <2>5. Buffer = Record(o, last)
    <3>1. \A i \in 1 .. 2 : reader.buf[i] = IF i = 1 THEN Half(o, last, 1) ELSE Half(o, last, 2)
      BY <1>6, <2>2
    <3>. QED
      BY <1>6, <2>4, <3>1
  <2>6. AtEnd /\ Reach = n
    BY <1>2, <1>4, <2>1 DEF AtEnd, Reach
  <2>. QED
    BY <1>1, <1>2, <1>9, <2>1, <2>5, <2>6
<1>. QED
  BY <1>8, <1>9

(* The record looked for is queued, and applied when the state does not    *)
(* have it.                                                                *)
LEMMA FoundSound ==
  ASSUME FilesInv, Reading, NEW o \in Origin, NEW i \in Nat, reader.origin = o,
         Sought(o) = i - 1, i <= logged[o],
         UNCHANGED <<phase, files, logged, crashes>>,
         \/ i <= mem.applied[o] /\ mem' = Queued(mem, Record(o, i)) /\ todo' = todo
         \/ /\ i > mem.applied[o] /\ mem' = mem
            /\ todo' = <<[do |-> "apply", command |-> Record(o, i)]>>,
         reader' \in [origin : 0 .. N_MACHINES, index : Nat, block : Nat, pos : Nat,
                      open : BOOLEAN, eof : BOOLEAN, buf : {reader'.buf}],
         Sought(o)' = i, \A p \in Origin : p # o => Sought(p)' = Sought(p),
         ReaderSound'
  PROVE  FilesInv'
<1>1. /\ Types /\ LogsHold /\ DiskSound /\ MemorySound /\ phase = "reading" /\ todo = <<>>
      /\ Alive /\ Alive' /\ ~ Doing("apply") /\ ~ Doing("append") /\ ~ Doing("write")
  BY DEF FilesInv, Reading, Doing, Alive
<1>2. /\ mem.safe[o] \in 0 .. MaxIndex /\ mem.applied[o] \in 0 .. MaxIndex
      /\ logged[o] \in 0 .. MaxIndex /\ MaxIndex \in Nat
      /\ mem.safe[o] <= i - 1 /\ i - 1 <= mem.applied[o] /\ mem.applied[o] <= logged[o]
      /\ mem.queue[o] = Window(mem.safe[o], i - 1)
  BY <1>1, ReplayMemory
<1>3. i \in 1 .. MaxIndex
  BY <1>2
<1>4. PICK apply : apply = [do |-> "apply", command |-> Record(o, i)]
  OBVIOUS
<1>5. /\ apply \in OpTypes /\ apply.do = "apply" /\ apply.command = Record(o, i)
      /\ apply.command[1].origin = o
  BY <1>3, <1>4, RecordProperty DEF OpTypes
<1>6. /\ mem.safe \in [Origin -> 0 .. MaxIndex] /\ mem.queue \in [Origin -> Seq(Int)]
      /\ mem.applied \in [Origin -> 0 .. MaxIndex] /\ logged \in [Origin -> 0 .. MaxIndex]
      /\ mem.current_block \in [Origin -> Blocks]
      /\ DOMAIN mem = {"applied", "inboxes", "safe", "current_block", "queue"}
  BY <1>1 DEF Types
<1>7. /\ mem'.safe = mem.safe /\ mem'.applied = mem.applied /\ mem'.inboxes = mem.inboxes
      /\ mem'.current_block = mem.current_block
      /\ \/ mem' = mem
         \/ mem' = [mem EXCEPT !.queue = mem'.queue] /\ mem'.queue = [mem.queue EXCEPT ![o] = Append(@, i)]
  <2>1. Record(o, i)[1].origin = o /\ Record(o, i)[1].index = i
    BY RecordProperty
  <2>2. Queued(mem, Record(o, i)) = [mem EXCEPT !.queue = [mem.queue EXCEPT ![o] = Append(@, i)]]
    BY <1>6, <2>1 DEF Queued
  <2>. QED
    BY <1>6, <2>2
<1>8. /\ todo' \in Seq(OpTypes) /\ todo' \in {<<>>, <<apply>>}
  <2>1. <<>> \in Seq(OpTypes) /\ <<apply>> \in Seq(OpTypes)
    BY <1>5
  <2>2. todo' = <<>> \/ todo' = <<apply>>
    BY <1>1, <1>4
  <2>. QED
    BY <2>1, <2>2
<1>9. /\ todo' = <<apply>> => Len(todo') = 1 /\ DOMAIN todo' = 1 .. 1 /\ Head(todo') = apply
                              /\ todo'[1] = apply
      /\ todo' = <<>> => DOMAIN todo' = {}
  OBVIOUS
<1>10. \A n \in DOMAIN todo' : todo'[n].do = "apply"
  <2>1. \A n \in 1 .. 1 : n = 1
    OBVIOUS
  <2>. QED
    BY <1>5, <1>8, <1>9, <2>1
<1>11. Types'
  <2>1. mem' \in [applied : [Origin -> 0 .. MaxIndex], inboxes : {Effect(mem'.applied)},
                  safe : [Origin -> 0 .. MaxIndex], current_block : [Origin -> Blocks],
                  queue : [Origin -> Seq(Int)]]
    <3>1. mem \in [applied : [Origin -> 0 .. MaxIndex], inboxes : {Effect(mem.applied)},
                   safe : [Origin -> 0 .. MaxIndex], current_block : [Origin -> Blocks],
                   queue : [Origin -> Seq(Int)]]
      BY <1>1 DEF Types
    <3>2. [mem.queue EXCEPT ![o] = Append(@, i)] \in [Origin -> Seq(Int)]
      <4>1. Append(mem.queue[o], i) \in Seq(Int)
        BY <1>3, <1>6
      <4>. QED
        BY <1>6, <4>1
    <3>. QED
      BY <1>7, <3>1, <3>2
  <2>. QED
    BY <1>1, <1>8, <1>10, <2>1 DEF Types, Alive
<1>12. LogsHold'
  BY <1>1, LogsKept
<1>13. DiskSound'
  <2>1. /\ mem'.safe \in [Origin -> 0 .. MaxIndex]
        /\ \A p \in Origin : mem.safe[p] <= mem'.safe[p]
    BY <1>2, <1>6, <1>7
  <2>. QED
    BY <1>1, <2>1, DiskKept
<1>14. MemorySound'
  <2>. SUFFICES ASSUME NEW p \in Origin
                PROVE  (/\ mem.safe[p] <= Cursor(p) /\ Cursor(p) <= mem.applied[p]
                        /\ mem.applied[p] <= logged[p]
                        /\ Pending(p) => Op.command = Record(p, Cursor(p) + 1)
                                           /\ mem.applied[p] = Cursor(p)
                        /\ \E from \in 0 .. mem.safe[p] :
                             /\ mem.queue[p] = Window(from, Cursor(p))
                             /\ ~Collecting(p) => from = mem.safe[p])'
    BY DEF MemorySound
  <2>1. Pending(p)' <=> todo' = <<apply>> /\ p = o
    BY <1>5, <1>8, <1>9 DEF Pending, Doing, Op
  <2>2. mem.safe[p] \in 0 .. mem.safe[p] /\ mem'.safe[p] = mem.safe[p]
    BY <1>2, <1>6, <1>7
  <2>3. CASE p # o
    <3>1. Cursor(p)' = Sought(p)
      BY <2>1, <2>3 DEF Cursor
    <3>2. mem'.queue[p] = mem.queue[p]
      BY <1>6, <1>7, <2>3
    <3>3. /\ mem.safe[p] <= Sought(p) /\ Sought(p) <= mem.applied[p]
          /\ mem.applied[p] <= logged[p] /\ mem.queue[p] = Window(mem.safe[p], Sought(p))
      BY <1>1, ReplayMemory
    <3>. QED
      BY <1>7, <2>1, <2>2, <2>3, <3>1, <3>2, <3>3
  <2>4. CASE p = o /\ todo' # <<apply>>
    <3>1. Cursor(o)' = i /\ ~ Pending(o)'
      BY <2>1, <2>4 DEF Cursor
    <3>2. i <= mem.applied[o] /\ mem'.queue = [mem.queue EXCEPT ![o] = Append(@, i)]
      <4>1. i <= mem.applied[o] /\ mem' = Queued(mem, Record(o, i))
        BY <1>4, <2>4
      <4>2. Record(o, i)[1].origin = o /\ Record(o, i)[1].index = i
        BY RecordProperty
      <4>. QED
        BY <1>6, <4>1, <4>2 DEF Queued
    <3>3. mem'.queue[o] = Window(mem.safe[o], i)
      <4>1. PICK k \in Int : k = i - 1 /\ k + 1 = i
        OBVIOUS
      <4>2. mem.safe[o] \in Nat /\ mem.safe[o] <= k
        BY <1>2, <4>1
      <4>3. Append(Window(mem.safe[o], k), k + 1) = Window(mem.safe[o], k + 1)
        BY <4>1, <4>2, WindowProperty
      <4>4. mem'.queue[o] = Append(mem.queue[o], i)
        BY <1>6, <3>2
      <4>. QED
        BY <1>2, <4>1, <4>3, <4>4
    <3>4. mem.safe[o] <= i
      BY <1>2
    <3>. QED
      BY <1>2, <1>7, <2>2, <2>4, <3>1, <3>2, <3>3, <3>4
  <2>5. CASE p = o /\ todo' = <<apply>>
    <3>1. Cursor(o)' = i - 1 /\ Pending(o)'
      BY <2>1, <2>5 DEF Cursor
    <3>2. mem' = mem /\ mem.applied[o] = i - 1
      <4>1. mem' = mem /\ i > mem.applied[o]
        <5>1. <<apply>> # <<>>
          OBVIOUS
        <5>. QED
          BY <1>1, <2>5, <5>1
      <4>. QED
        BY <1>2, <4>1
    <3>3. Op' = apply /\ i - 1 + 1 = i
      BY <1>9, <2>5 DEF Op
    <3>. QED
      BY <1>2, <1>5, <2>2, <2>5, <3>1, <3>2, <3>3
  <2>. QED
    BY <2>3, <2>4, <2>5
<1>15. HandlersSound'
  <2>1. \A n \in DOMAIN todo' :
          (/\ LogsNext(n) /\ WritesWhole(n) /\ SavesBoth(n)
           /\ DeletesSafe(n) /\ PopsSafe(n) /\ CollectsApplied(n))'
    BY <1>10 DEF LogsNext, WritesWhole, SavesBoth, DeletesSafe, PopsSafe, CollectsApplied
  <2>2. \A m, n \in DOMAIN todo' : ~ (m < n)
    <3>1. \A m, n \in 1 .. 1 : ~ (m < n)
      OBVIOUS
    <3>. QED
      BY <1>8, <1>9, <3>1
  <2>3. ~ Doing("append")'
    BY <1>5, <1>8, <1>9 DEF Doing
  <2>. QED
    BY <2>1, <2>2, <2>3 DEF HandlersSound, InOrderOf
<1>. QED
  BY <1>11, <1>12, <1>13, <1>14, <1>15 DEF FilesInv

(* The local variables after a record was read.                            *)
LEMMA IndexField ==
  ASSUME NEW r, NEW read, NEW o, NEW i, NEW b, NEW pos, NEW buf, NEW eof \in BOOLEAN, NEW j,
         read = [origin |-> o, index |-> i, block |-> b, pos |-> pos,
                 open |-> TRUE, eof |-> eof, buf |-> buf],
         r = [read EXCEPT !.index = j]
  PROVE  r = [origin |-> o, index |-> j, block |-> b, pos |-> pos,
              open |-> TRUE, eof |-> eof, buf |-> buf]
OBVIOUS

(* read_log_files reads a record: an old one, the one it looks for, or     *)
(* none at the end of the file.                                            *)
LEMMA ReadRecordSound ==
  ASSUME FilesInv, ReadRecord
  PROVE  FilesInv'
<1>1. /\ Types /\ LogsHold /\ DiskSound /\ MemorySound /\ ReaderSound /\ Reading
      /\ phase = "reading" /\ todo = <<>> /\ reader.open /\ ~ reader.eof
      /\ UNCHANGED <<phase, files, logged, crashes>> /\ Alive
  BY DEF FilesInv, ReadRecord, Reading, Alive
<1>2. PICK o \in Origin, i \in Nat, b \in Nat :
        o = reader.origin /\ i = reader.index /\ b = reader.block
  BY <1>1, ReaderTyped DEF ReaderSound
<1>3. /\ b \in DOMAIN files.log[o] /\ b = Block(i)
      /\ i \in mem.safe[o] + 1 .. logged[o] + 1
  BY <1>1, <1>2 DEF ReaderSound
<1>4. PICK first \in 1 .. MaxIndex, last \in 1 .. MaxIndex : \E next \in first .. last + 1 :
        /\ IsBlock(o, b, first, last)
        /\ reader.pos = 2 * (next - first)
        /\ next <= i
        /\ next < i => i = mem.safe[o] + 1
        /\ first < next => reader.buf = Record(o, next - 1)
  BY <1>1, <1>2 DEF ReaderSound
<1>5. PICK next \in first .. last + 1 :
        /\ IsBlock(o, b, first, last)
        /\ reader.pos = 2 * (next - first)
        /\ next <= i
        /\ next < i => i = mem.safe[o] + 1
        /\ first < next => reader.buf = Record(o, next - 1)
  BY <1>4
<1>6. /\ mem.safe[o] \in 0 .. MaxIndex /\ logged[o] \in 0 .. MaxIndex /\ MaxIndex \in Nat
      /\ mem.applied[o] \in 0 .. MaxIndex /\ next \in Nat /\ Sought(o) = i - 1
      /\ first \in Nat /\ last \in Nat
  <2>1. Sought(o) = i - 1
    BY <1>1, <1>2 DEF Sought, Origin
  <2>. QED
    BY <1>1, <2>1, ReplayMemory
<1>7. /\ last <= logged[o] /\ files.log[o][b] = RunOf(o, first, last)
      /\ \A k \in 1 .. logged[o] : Block(k) = b <=> k \in first .. last
  BY <1>5 DEF IsBlock
<1>8. first <= last
  <2>1. PICK f \in 1 .. MaxIndex, l \in 0 .. MaxIndex : IsBlock(o, b, f, l) /\ f <= l
    <3>1. ~ Doing("append")
      BY <1>1 DEF Doing
    <3>. QED
      BY <1>1, <1>3, <3>1 DEF LogsHold
  <2>2. l \in Nat /\ f \in Nat /\ f <= l + 1 /\ first <= last + 1
    BY <1>6, <2>1
  <2>3. Len(RunOf(o, f, l)) = 2 * (l + 1 - f)
    BY <2>2, RunProperty
  <2>4. Len(RunOf(o, first, last)) = 2 * (last + 1 - first)
    BY <1>6, <2>2, RunProperty
  <2>5. RunOf(o, f, l) = RunOf(o, first, last)
    BY <1>7, <2>1 DEF IsBlock
  <2>6. 2 * (l + 1 - f) = 2 * (last + 1 - first)
    BY <2>3, <2>4, <2>5
  <2>. QED
    BY <1>6, <2>1, <2>2, <2>6
<1>9. /\ next <= last =>
           Buffer = Record(o, next) /\ ~ AtEnd /\ Reach = 2 * (next + 1 - first)
      /\ next = last + 1 =>
           Buffer = Record(o, last) /\ AtEnd /\ Reach = 2 * (next - first)
  BY <1>2, <1>5, <1>7, <1>8, ReadProperty
<1>10. \A p \in Origin : p \in Nat
  BY MaxIndexNat DEF Origin
<1>11. ASSUME Matches(i), Buffer = Record(o, i), next = i, i <= last
       PROVE  FilesInv'
  <2>1. PICK j \in Nat, n \in Nat : j = i + 1 /\ n = 2 * (j - first)
    <3>1. i + 1 \in Nat /\ 2 * (i + 1 - first) \in Nat
      BY <1>6, <1>11
    <3>. QED
      BY <3>1
  <2>2. ~ AtEnd /\ Reach = n /\ i <= logged[o] /\ j <= logged[o] + 1
    BY <1>6, <1>7, <1>9, <1>11, <2>1
  <2>3. PICK read, r :
          /\ read = [reader EXCEPT !.buf = Buffer, !.pos = Reach, !.eof = AtEnd]
          /\ r = [read EXCEPT !.index = IF Matches(reader.index) THEN @ + 1 ELSE @]
    OBVIOUS
  <2>4. /\ reader' = Advanced(r)
        /\ r = [origin |-> o, index |-> j, block |-> b, pos |-> n,
                open |-> TRUE, eof |-> FALSE, buf |-> Record(o, i)]
    <3>1. reader = [origin |-> o, index |-> i, block |-> b, pos |-> reader.pos,
                    open |-> TRUE, eof |-> FALSE, buf |-> reader.buf]
      BY <1>1, <1>2, ReaderTyped
    <3>2. AtEnd = FALSE
      BY <2>2 DEF AtEnd
    <3>3. r = [origin |-> o, index |-> j, block |-> b, pos |-> n,
               open |-> TRUE, eof |-> FALSE, buf |-> Record(o, i)]
      <4>1. read = [reader EXCEPT !.buf = Record(o, i), !.pos = n, !.eof = FALSE]
        BY <1>11, <2>2, <2>3, <3>2
      <4>2. read = [origin |-> o, index |-> i, block |-> b, pos |-> n,
                    open |-> TRUE, eof |-> FALSE, buf |-> Record(o, i)]
        BY <1>1, <1>2, <4>1 DEF Types
      <4>3. r = [read EXCEPT !.index = j]
        <5>1. read.index + 1 = j
          BY <2>1, <4>2
        <5>. QED
          BY <1>2, <1>11, <2>3, <5>1
      <4>. QED
        BY <4>2, <4>3, IndexField
    <3>4. reader' = Advanced(r)
      BY <2>3 DEF ReadRecord
    <3>. QED
      BY <3>3, <3>4
  <2>5. /\ \/ i <= mem.applied[o] /\ mem' = Queued(mem, Record(o, i)) /\ todo' = todo
           \/ /\ i > mem.applied[o] /\ mem' = mem
              /\ todo' = <<[do |-> "apply", command |-> Record(o, i)]>>
        /\ mem'.safe = mem.safe
    <3>1. \/ i <= mem.applied[o] /\ mem' = Queued(mem, Record(o, i)) /\ todo' = todo
          \/ /\ i > mem.applied[o] /\ mem' = mem
             /\ todo' = <<[do |-> "apply", command |-> Record(o, i)]>>
      BY <1>2, <1>6, <1>11 DEF ReadRecord, Applies
    <3>2. Queued(mem, Record(o, i)).safe = mem.safe
      BY <1>1 DEF Types, Queued
    <3>. QED
      BY <3>1, <3>2
  <2>6. /\ r.origin = o /\ r.index = j /\ r.block = b /\ r.pos = n /\ r.open /\ ~ r.eof
        /\ r.buf = Record(o, i)
    BY <2>4
  <2>7. o \in 0 .. N_MACHINES /\ o + 1 \in 0 .. N_MACHINES
    BY MaxIndexNat DEF Origin
  <2>8. Block(j) \in Nat
    BY <1>6, <2>1, <2>2, BlockTyped
  <2>9. CASE Block(j) = b
    <3>1. reader' = r
      BY <2>4, <2>6, <2>9 DEF Advanced
    <3>2. Sought(o)' = i /\ \A p \in Origin : p # o => Sought(p)' = Sought(p)
      <4>1. Sought(o)' = i
        BY <1>10, <2>1, <2>6, <3>1 DEF Sought
      <4>2. ASSUME NEW p \in Origin, p # o
            PROVE  Sought(p)' = Sought(p)
        BY <1>1, <1>2, <2>5, <2>6, <3>1, <4>2 DEF Sought
      <4>. QED
        BY <4>1, <4>2
    <3>3. ReaderSound'
      <4>1. IsBlock(o, b, first, last)'
        BY <1>1, <1>5 DEF IsBlock
      <4>2. /\ j \in first .. last + 1 /\ j \in mem.safe[o] + 1 .. logged[o] + 1
            /\ n = 2 * (j - first) /\ j <= j /\ ~ (j < j) /\ j - 1 = i
        BY <1>3, <1>6, <1>7, <1>11, <2>1, <2>2
      <4>. QED
        BY <1>1, <1>3, <2>5, <2>6, <2>9, <3>1, <4>1, <4>2 DEF ReaderSound
    <3>4. reader' \in [origin : 0 .. N_MACHINES, index : Nat, block : Nat, pos : Nat,
                       open : BOOLEAN, eof : BOOLEAN, buf : {reader'.buf}]
      <4>1. reader' = [origin |-> o, index |-> j, block |-> b, pos |-> n,
                       open |-> TRUE, eof |-> FALSE, buf |-> Record(o, i)]
        BY <2>4, <3>1
      <4>. QED
        BY <2>7, <4>1
    <3>. QED
      BY <1>1, <1>2, <1>6, <2>2, <2>5, <3>2, <3>3, <3>4, FoundSound
  <2>10. CASE Block(j) # b /\ Block(j) \in DOMAIN files.log[o]
    <3>1. PICK c \in Nat : c = Block(j)
      BY <2>8
    <3>2. reader' = [origin |-> o, index |-> j, block |-> c, pos |-> 0,
                     open |-> TRUE, eof |-> FALSE, buf |-> Record(o, i)]
      <4>1. Advanced(r) = [r EXCEPT !.block = c, !.pos = 0, !.eof = FALSE]
        BY <2>6, <2>10, <3>1 DEF Advanced, Exists
      <4>. QED
        BY <2>4, <4>1
    <3>3. /\ reader'.origin = o /\ reader'.index = j /\ reader'.block = c /\ reader'.pos = 0
          /\ reader'.open /\ ~ reader'.eof
      BY <3>2
    <3>4. Sought(o)' = i /\ \A p \in Origin : p # o => Sought(p)' = Sought(p)
      <4>1. Sought(o)' = i
        BY <1>10, <2>1, <3>3 DEF Sought
      <4>2. ASSUME NEW p \in Origin, p # o
            PROVE  Sought(p)' = Sought(p)
        BY <1>1, <1>2, <2>5, <3>3, <4>2 DEF Sought
      <4>. QED
        BY <4>1, <4>2
    <3>5. PICK f \in 1 .. MaxIndex, l \in 0 .. MaxIndex : IsBlock(o, c, f, l) /\ f <= l
      <4>1. ~ Doing("append")
        BY <1>1 DEF Doing
      <4>. QED
        BY <1>1, <2>10, <3>1, <4>1 DEF LogsHold
    <3>6. /\ l <= logged[o] /\ \A k \in 1 .. logged[o] : Block(k) = c <=> k \in f .. l
          /\ l \in Nat /\ f \in Nat
      BY <1>6, <3>5 DEF IsBlock
    <3>7. f <= j
      <4>. SUFFICES ASSUME j < f
                    PROVE  FALSE
        BY <2>1, <3>6
      <4>1. j \in 1 .. logged[o] /\ j \notin f .. l
        BY <1>6, <2>1, <3>5, <3>6
      <4>. QED
        BY <3>1, <3>6, <4>1
    <3>8. j <= f
      <4>. SUFFICES ASSUME f <= i
                    PROVE  FALSE
        BY <2>1, <3>6
      <4>1. Block(f) = c
        BY <1>6, <3>5, <3>6
      <4>2. Block(f) <= Block(i) /\ Block(i) <= Block(j)
        BY <2>1, <3>6, BlockMonotone
      <4>. QED
        BY <1>3, <2>10, <3>1, <4>1, <4>2
    <3>9. ReaderSound'
      <4>1. IsBlock(o, c, f, l)'
        BY <1>1, <3>5 DEF IsBlock
      <4>2. f = j
        BY <2>1, <3>6, <3>7, <3>8
      <4>3. /\ f \in 1 .. MaxIndex /\ l \in 1 .. MaxIndex /\ f \in f .. l + 1
            /\ j \in mem.safe[o] + 1 .. logged[o] + 1
            /\ 0 = 2 * (f - f) /\ f <= j /\ ~ (f < j) /\ ~ (f < f)
        BY <1>3, <1>6, <2>1, <2>2, <3>5, <3>6, <4>2
      <4>4. (\E f2, l2 \in 1 .. MaxIndex : \E next2 \in f2 .. l2 + 1 :
               /\ IsBlock(o, c, f2, l2)
               /\ reader.pos = 2 * (next2 - f2)
               /\ next2 <= j
               /\ next2 < j => j = mem.safe[o] + 1
               /\ f2 < next2 => reader.buf = Record(o, next2 - 1)
               /\ reader.eof => next2 = l2 + 1)'
        BY <3>3, <4>1, <4>3
      <4>5. c \in DOMAIN files'.log[o]
        BY <1>1, <2>10, <3>1
      <4>6. j \in (mem.safe[o] + 1 .. logged[o] + 1)'
        BY <1>1, <2>5, <4>3
      <4>. QED
        BY <3>1, <3>3, <4>4, <4>5, <4>6 DEF ReaderSound
    <3>10. reader' \in [origin : 0 .. N_MACHINES, index : Nat, block : Nat, pos : Nat,
                        open : BOOLEAN, eof : BOOLEAN, buf : {reader'.buf}]
      BY <2>7, <3>2
    <3>. QED
      BY <1>1, <1>2, <1>6, <2>2, <2>5, <3>4, <3>9, <3>10, FoundSound
  <2>11. CASE Block(j) # b /\ Block(j) \notin DOMAIN files.log[o]
    <3>1. reader' = [origin |-> o + 1, index |-> j, block |-> b, pos |-> n,
                     open |-> FALSE, eof |-> FALSE, buf |-> Record(o, i)]
      <4>1. Advanced(r) = [r EXCEPT !.origin = @ + 1, !.open = FALSE]
        BY <2>6, <2>11 DEF Advanced, Exists
      <4>. QED
        BY <2>4, <4>1
    <3>2. reader'.origin = o + 1 /\ ~ reader'.open
      BY <3>1
    <3>3. i = logged[o]
      <4>. SUFFICES ASSUME i < logged[o]
                    PROVE  FALSE
        BY <1>6, <2>2
      <4>1. CompleteFrom(mem.safe)
        BY <1>1 DEF DiskSound
      <4>2. j \in 1 .. logged[o] /\ mem.safe[o] <= j
        BY <1>3, <1>6, <2>1
      <4>. QED
        BY <2>11, <4>1, <4>2 DEF CompleteFrom
    <3>4. Sought(o)' = i /\ \A p \in Origin : p # o => Sought(p)' = Sought(p)
      <4>1. Sought(o)' = i
        <5>1. o < o + 1
          BY <1>10
        <5>. QED
          BY <1>1, <3>2, <3>3, <5>1 DEF Sought
      <4>2. ASSUME NEW p \in Origin, p # o
            PROVE  Sought(p)' = Sought(p)
        <5>1. p < o + 1 <=> p < o
          BY <1>10, <4>2
        <5>. QED
          BY <1>1, <1>2, <2>5, <3>2, <4>2, <5>1 DEF Sought
      <4>. QED
        BY <4>1, <4>2
    <3>5. ReaderSound'
      BY <3>2 DEF ReaderSound
    <3>6. reader' \in [origin : 0 .. N_MACHINES, index : Nat, block : Nat, pos : Nat,
                       open : BOOLEAN, eof : BOOLEAN, buf : {reader'.buf}]
      BY <2>7, <3>1
    <3>. QED
      BY <1>1, <1>2, <1>6, <2>2, <2>5, <3>4, <3>5, <3>6, FoundSound
  <2>. QED
    BY <2>9, <2>10, <2>11
<1>12. ASSUME ~ Matches(i), NEW n \in first + 1 .. last + 1, n <= i, next <= n,
              Buffer = Record(o, n - 1), Reach = 2 * (n - first), AtEnd => n = last + 1
       PROVE  FilesInv'
  <2>1. reader' = [origin |-> o, index |-> i, block |-> b, pos |-> 2 * (n - first),
                   open |-> TRUE, eof |-> AtEnd, buf |-> Record(o, n - 1)]
    <3>1. reader = [origin |-> o, index |-> i, block |-> b, pos |-> reader.pos,
                    open |-> TRUE, eof |-> FALSE, buf |-> reader.buf]
      BY <1>1, <1>2, ReaderTyped
    <3>2. PICK read, r :
            /\ read = [reader EXCEPT !.buf = Buffer, !.pos = Reach, !.eof = AtEnd]
            /\ r = [read EXCEPT !.index = IF Matches(reader.index) THEN @ + 1 ELSE @]
      OBVIOUS
    <3>3. r = [origin |-> o, index |-> i, block |-> b, pos |-> 2 * (n - first),
               open |-> TRUE, eof |-> AtEnd, buf |-> Record(o, n - 1)]
      <4>1. read = [reader EXCEPT !.buf = Record(o, n - 1), !.pos = 2 * (n - first), !.eof = AtEnd]
        BY <1>12, <3>2
      <4>2. AtEnd \in BOOLEAN
        BY DEF AtEnd
      <4>3. read = [origin |-> o, index |-> i, block |-> b, pos |-> 2 * (n - first),
                    open |-> TRUE, eof |-> AtEnd, buf |-> Record(o, n - 1)]
        BY <1>1, <1>2, <4>1, <4>2 DEF Types
      <4>4. r = [read EXCEPT !.index = i]
        <5>1. read.index = i
          BY <4>3
        <5>. QED
          BY <1>2, <1>12, <3>2, <5>1
      <4>. QED
        BY <4>2, <4>3, <4>4, IndexField
    <3>4. reader' = Advanced(r)
      BY <3>2 DEF ReadRecord
    <3>5. Advanced(r) = r
      BY <1>3, <3>3 DEF Advanced
    <3>. QED
      BY <3>3, <3>4, <3>5
  <2>2. /\ reader'.origin = o /\ reader'.index = i /\ reader'.block = b
        /\ reader'.pos = 2 * (n - first) /\ reader'.open /\ reader'.eof = AtEnd
        /\ reader'.buf = Record(o, n - 1)
    BY <2>1
  <2>3. UNCHANGED <<mem, todo>>
    BY <1>2, <1>12 DEF ReadRecord
  <2>4. \A p \in Origin : Sought(p)' = Sought(p)
    BY <1>1, <1>2, <2>2, <2>3 DEF Sought
  <2>5. ReaderSound'
    <3>1. IsBlock(o, b, first, last)'
      BY <1>1, <1>5 DEF IsBlock
    <3>2. n \in first .. last + 1 /\ (n < i => i = mem.safe[o] + 1)
      BY <1>5, <1>6, <1>12
    <3>. QED
      BY <1>1, <1>3, <1>12, <2>2, <2>3, <3>1, <3>2 DEF ReaderSound
  <2>6. reader' \in [origin : 0 .. N_MACHINES, index : Nat, block : Nat, pos : Nat,
                     open : BOOLEAN, eof : BOOLEAN, buf : {reader'.buf}]
    <3>1. 2 * (n - first) \in Nat /\ o \in 0 .. N_MACHINES
      BY <1>6, <1>12, MaxIndexNat DEF Origin
    <3>2. AtEnd \in BOOLEAN
      BY DEF AtEnd
    <3>. QED
      BY <2>1, <2>2, <3>1, <3>2
  <2>. QED
    BY <1>1, <2>3, <2>4, <2>5, <2>6, ReaderStep
<1>13. CASE next <= last
  <2>1. Buffer = Record(o, next) /\ ~ AtEnd /\ Reach = 2 * (next + 1 - first)
    BY <1>9, <1>13
  <2>2. Matches(i) <=> next = i
    BY <2>1, RecordProperty DEF Matches
  <2>3. CASE next = i
    BY <1>11, <1>13, <2>1, <2>2, <2>3
  <2>4. CASE next # i
    <3>1. PICK n \in first + 1 .. last + 1 : n = next + 1
      BY <1>6, <1>13
    <3>2. n <= i /\ next <= n /\ n - 1 = next
      BY <1>5, <1>6, <2>4, <3>1
    <3>. QED
      BY <1>12, <2>1, <2>2, <2>4, <3>1, <3>2
  <2>. QED
    BY <2>3, <2>4
<1>14. CASE next = last + 1
  <2>1. Buffer = Record(o, last) /\ Reach = 2 * (next - first) /\ last # i /\ next - 1 = last
    BY <1>5, <1>6, <1>9, <1>14
  <2>2. ~ Matches(i)
    BY <2>1, RecordProperty DEF Matches
  <2>3. next \in first + 1 .. last + 1 /\ next <= i /\ next <= next
    BY <1>5, <1>6, <1>8, <1>14
  <2>. QED
    BY <1>12, <1>14, <2>1, <2>2, <2>3
<1>. QED
  BY <1>6, <1>13, <1>14

-----------------------------------------------------------------------------
(* A start, a death, and the beginning.                                    *)

(* A start fails on a torn state file and otherwise loads both.            *)
LEMMA StartForm ==
  ASSUME Start
  PROVE  LET Read(file, default) == IF Exists(files.state, file) THEN Head(files.state[file])
                                    ELSE default
             state == Read("inbox_state", Saved(Empty))
             safe == Read("log_state", Zero)
         IN  \/ phase' = "failed" /\ UNCHANGED <<mem, reader>>
             \/ /\ \A file \in DOMAIN files.state : files.state[file] # <<>>
                /\ phase' = "reading"
                /\ mem' = [Empty EXCEPT !.applied = state.applied, !.inboxes = state.inboxes,
                                        !.safe = safe,
                                        !.current_block = [o \in Origin |-> Block(safe[o] + 1)]]
                /\ \E n \in StackIndices :
                     reader' = [NoReader EXCEPT !.origin = 0, !.buf = Record(0, n)]
BY Zenon DEF Start

(* read_state_file: what is loaded is sound, because the files are.        *)
LEMMA StartSound ==
  ASSUME FilesInv, Start
  PROVE  FilesInv'
<1>1. /\ Types /\ LogsHold /\ DiskSound /\ HandlersSound /\ phase = "down" /\ ~ Alive
      /\ mem = Empty /\ todo = <<>> /\ reader = NoReader
      /\ UNCHANGED <<files, todo, logged, crashes>>
      /\ ~ Doing("apply") /\ ~ Doing("append") /\ ~ Doing("write")
  <2>1. Types /\ LogsHold /\ DiskSound /\ HandlersSound
    BY DEF FilesInv
  <2>2. phase = "down" /\ UNCHANGED <<files, todo, logged, crashes>>
    BY Zenon DEF Start
  <2>3. mem = Empty /\ todo = <<>> /\ reader = NoReader /\ ~ Alive
    BY <2>1, <2>2 DEF Types, Alive
  <2>. QED
    BY <2>1, <2>2, <2>3 DEF Doing
<1>2. LogsHold'
  BY <1>1, LogsKept
<1>3. HandlersSound'
  BY <1>1 DEF HandlersSound, Doing
<1>4. CASE phase' = "failed" /\ UNCHANGED <<mem, reader>>
  <2>1. ~ Alive'
    BY <1>4 DEF Alive
  <2>2. DiskSound'
    BY <1>1, <2>1, DiskKept
  <2>3. Types'
    BY <1>1, <1>4, <2>1 DEF Types, Alive
  <2>4. MemorySound' /\ ReaderSound'
    BY <1>4, <2>1 DEF MemorySound, ReaderSound
  <2>. QED
    BY <1>2, <1>3, <2>2, <2>3, <2>4 DEF FilesInv
<1>. DEFINE Read(file, default) == IF Exists(files.state, file) THEN Head(files.state[file])
                                   ELSE default
            saved == Read("inbox_state", Saved(Empty))
            safe == Read("log_state", Zero)
<1>5. CASE /\ \A file \in DOMAIN files.state : files.state[file] # <<>>
           /\ phase' = "reading"
           /\ mem' = [Empty EXCEPT !.applied = saved.applied, !.inboxes = saved.inboxes,
                                   !.safe = safe,
                                   !.current_block = [o \in Origin |-> Block(safe[o] + 1)]]
           /\ \E n \in StackIndices :
                reader' = [NoReader EXCEPT !.origin = 0, !.buf = Record(0, n)]
  <2>1. /\ phase' = "reading" /\ Alive'
        /\ \A file \in DOMAIN files.state : files.state[file] # <<>>
    BY <1>5 DEF Alive
  <2>2. SavedOnDisk # <<>> /\ SafeOnDisk # <<>>
    BY <2>1 DEF SavedOnDisk, SafeOnDisk, Exists
  <2>3. PICK a \in [Origin -> 0 .. MaxIndex] :
          /\ SavedOnDisk = <<[applied |-> a, inboxes |-> Effect(a)]>>
          /\ \A o \in Origin : a[o] <= logged[o] /\ Head(SafeOnDisk)[o] <= a[o]
    BY <1>1, <2>2 DEF DiskSound, SavedSound
  <2>4. PICK s \in [Origin -> 0 .. MaxIndex] : SafeOnDisk = <<s>> /\ CompleteFrom(s)
    BY <1>1, <2>2 DEF DiskSound, SafeSound
  <2>5. PICK state : state = [applied |-> a, inboxes |-> Effect(a)]
    OBVIOUS
  <2>6. Head(SavedOnDisk) = state /\ Head(SafeOnDisk) = s
    BY <2>3, <2>4, <2>5
  <2>7. \A o \in Origin : s[o] <= a[o]
    BY <2>3, <2>6
  <2>8. saved = state /\ safe = s
    <3>1. Head(<<Saved(Empty)>>) = Saved(Empty) /\ Head(<<Zero>>) = Zero
      OBVIOUS
    <3>. QED
      BY <2>6, <3>1 DEF SavedOnDisk, SafeOnDisk
  <2>. HIDE DEF saved, safe
  <2>9. PICK block : block = [o \in Origin |-> Block(s[o] + 1)]
    OBVIOUS
  <2>10. mem' = [applied |-> a, inboxes |-> Effect(a), safe |-> s, current_block |-> block,
                 queue |-> [o \in Origin |-> <<>>]]
    <3>1. state.applied = a /\ state.inboxes = Effect(a)
      BY <2>5
    <3>2. mem' = [Empty EXCEPT !.applied = a, !.inboxes = Effect(a), !.safe = s,
                               !.current_block = block]
      BY <1>5, <2>8, <2>9, <3>1
    <3>. QED
      BY <3>2 DEF Empty
  <2>11. \E n : reader' = [origin |-> 0, index |-> 0, block |-> 0, pos |-> 0,
                           open |-> FALSE, eof |-> FALSE, buf |-> Record(0, n)]
    <3>1. PICK n \in StackIndices : reader' = [NoReader EXCEPT !.origin = 0, !.buf = Record(0, n)]
      BY <1>5, Zenon
    <3>2. reader' = [origin |-> 0, index |-> 0, block |-> 0, pos |-> 0,
                     open |-> FALSE, eof |-> FALSE, buf |-> Record(0, n)]
      BY <3>1 DEF NoReader
    <3>. QED
      BY <3>2, Zenon
  <2>12. /\ mem'.applied = a /\ mem'.safe = s /\ mem'.queue = [o \in Origin |-> <<>>]
         /\ reader'.origin = 0 /\ ~ reader'.open
    BY <2>10, <2>11
  <2>13. MaxIndex \in Nat /\ \A o \in Origin : o \in Nat /\ s[o] \in 0 .. MaxIndex /\ s[o] \in Nat
    BY MaxIndexNat DEF Origin
  <2>14. block \in [Origin -> Blocks]
    <3>1. \A o \in Origin : Block(s[o] + 1) \in Blocks
      <4>. SUFFICES ASSUME NEW o \in Origin
                    PROVE  Block(s[o] + 1) \in Blocks
        OBVIOUS
      <4>1. s[o] + 1 \in Nat /\ s[o] + 1 <= MaxIndex + 1
        BY <2>13
      <4>. QED
        BY <4>1, BlockTyped
    <3>. QED
      BY <2>9, <3>1
  <2>15. Types'
    <3>1. [o \in Origin |-> <<>>] \in [Origin -> Seq(Int)]
      OBVIOUS
    <3>2. mem' \in [applied : [Origin -> 0 .. MaxIndex], inboxes : {Effect(mem'.applied)},
                    safe : [Origin -> 0 .. MaxIndex], current_block : [Origin -> Blocks],
                    queue : [Origin -> Seq(Int)]]
      BY <2>10, <2>14, <3>1
    <3>3. reader' \in [origin : 0 .. N_MACHINES, index : Nat, block : Nat, pos : Nat,
                       open : BOOLEAN, eof : BOOLEAN, buf : {reader'.buf}]
      BY <2>11, MaxIndexNat
    <3>. QED
      BY <1>1, <2>1, <3>2, <3>3 DEF Types
  <2>16. DiskSound'
    <3>1. SavedOnDisk' = SavedOnDisk /\ SafeOnDisk' = SafeOnDisk
      BY <1>1 DEF SavedOnDisk, SafeOnDisk, Exists
    <3>2. CompleteFrom(s)'
      BY <1>1, <2>4 DEF CompleteFrom
    <3>3. CompleteFrom(mem.safe)'
      BY <2>12, <3>2 DEF CompleteFrom
    <3>4. SavedSound'
      BY <1>1, <3>1 DEF DiskSound, SavedSound
    <3>5. SafeSound'
      <4>1. CompleteFrom(Head(SafeOnDisk))'
        BY <2>6, <3>1, <3>2 DEF CompleteFrom
      <4>2. \A o \in Origin : s[o] <= s[o]
        BY <2>13
      <4>. QED
        BY <2>4, <2>6, <2>12, <3>1, <4>1, <4>2 DEF SafeSound
    <3>6. TornWhileWritten'
      BY <1>1, <2>1 DEF TornWhileWritten
    <3>. QED
      BY <1>1, <3>3, <3>4, <3>5, <3>6 DEF DiskSound
  <2>17. MemorySound'
    <3>. SUFFICES ASSUME NEW o \in Origin
                  PROVE  (/\ mem.safe[o] <= Cursor(o) /\ Cursor(o) <= mem.applied[o]
                          /\ mem.applied[o] <= logged[o]
                          /\ Pending(o) => Op.command = Record(o, Cursor(o) + 1)
                                             /\ mem.applied[o] = Cursor(o)
                          /\ \E from \in 0 .. mem.safe[o] :
                               /\ mem.queue[o] = Window(from, Cursor(o))
                               /\ ~Collecting(o) => from = mem.safe[o])'
      BY DEF MemorySound
    <3>1. ~ Pending(o)'
      BY <1>1 DEF Pending, Doing
    <3>2. ~ (o < reader'.origin) /\ ~ reader'.open
      BY <2>12, <2>13
    <3>3. Cursor(o)' = s[o]
      BY <2>12, <3>1, <3>2 DEF Cursor, Sought
    <3>4. Window(s[o], s[o]) = <<>> /\ mem'.queue[o] = <<>>
      <4>1. s[o] \in Nat /\ s[o] \in Int /\ s[o] <= s[o]
        BY <2>13
      <4>. QED
        BY <2>12, <4>1, WindowProperty
    <3>5. s[o] \in 0 .. s[o] /\ s[o] <= s[o]
      BY <2>13
    <3>. QED
      BY <1>1, <2>3, <2>7, <2>12, <3>1, <3>3, <3>4, <3>5
  <2>18. ReaderSound'
    BY <2>12 DEF ReaderSound
  <2>. QED
    BY <1>2, <1>3, <2>15, <2>16, <2>17, <2>18 DEF FilesInv
<1>. QED
  BY <1>4, <1>5, StartForm, Zenon

(* A death that leaves no record and no new file of a log half done.       *)
LEMMA CrashSound ==
  ASSUME Interrupts \subseteq {"json"}, FilesInv, Crash
  PROVE  FilesInv'
<1>1. /\ Types /\ LogsHold /\ DiskSound
  BY DEF FilesInv
<1>2. /\ Dies(files)
      /\ BetweenOperations \/ ("json" \in Interrupts /\ Doing("write"))
  BY DEF Crash
<1>3. /\ phase' = "down" /\ mem' = Empty /\ todo' = <<>> /\ reader' = NoReader /\ files' = files
      /\ logged' = logged /\ crashes' = crashes + 1 /\ crashes < MaxCrashes
      /\ ~ Alive' /\ ~ Doing("append")'
  BY <1>2 DEF Dies, Alive, Doing
<1>4. Types'
  <2>1. crashes' \in 0 .. MaxCrashes
    BY <1>1, <1>3, FilesAssumption DEF Types
  <2>. QED
    BY <1>1, <1>3, <2>1, EmptyIsTyped, NoReaderIsTyped DEF Types
<1>5. LogsHold'
  <2>. SUFFICES ASSUME NEW o \in Origin, NEW b \in DOMAIN files.log[o]
                PROVE  \E first \in 1 .. MaxIndex, last \in 0 .. MaxIndex :
                         IsBlock(o, b, first, last)' /\ first <= last
    BY <1>3 DEF LogsHold
  <2>1. PICK first \in 1 .. MaxIndex, last \in 0 .. MaxIndex :
          /\ IsBlock(o, b, first, last)
          /\ \/ first <= last
             \/ Doing("append") /\ Op.origin = o /\ Block(Op.index) = b
    BY <1>1 DEF LogsHold
  <2>2. IsBlock(o, b, first, last)'
    BY <1>3, <2>1 DEF IsBlock
  <2>3. first <= last
    <3>. SUFFICES ASSUME ~ (first <= last)
                  PROVE  FALSE
      OBVIOUS
    <3>1. files.log[o][b] = <<>>
      <4>1. RunOf(o, first, last) = <<>>
        BY MaxIndexNat DEF RunOf
      <4>. QED
        BY <2>1, <4>1 DEF IsBlock
    <3>2. todo # <<>> /\ Doing("append") /\ ~ Doing("write")
      BY <2>1 DEF Doing
    <3>. QED
      BY <1>2, <2>1, <3>1, <3>2 DEF BetweenOperations
  <2>. QED
    BY <2>2, <2>3
<1>6. DiskSound'
  <2>1. SavedOnDisk' = SavedOnDisk /\ SafeOnDisk' = SafeOnDisk
    BY <1>3 DEF SavedOnDisk, SafeOnDisk, Exists
  <2>2. SavedSound'
    BY <1>1, <1>3, <2>1 DEF DiskSound, SavedSound
  <2>3. SafeSound'
    <3>1. SafeOnDisk # <<>> => CompleteFrom(Head(SafeOnDisk))'
      BY <1>1, <1>3, <2>1 DEF DiskSound, SafeSound, CompleteFrom
    <3>. QED
      BY <1>1, <1>3, <2>1, <3>1 DEF DiskSound, SafeSound
  <2>4. TornWhileWritten'
    <3>. SUFFICES ASSUME Interrupts = {}, NEW file \in DOMAIN files.state,
                         files.state[file] = <<>>
                  PROVE  FALSE
      BY <1>3 DEF TornWhileWritten
    <3>1. Doing("write") /\ todo # <<>>
      BY <1>1 DEF DiskSound, TornWhileWritten, Doing
    <3>. QED
      BY <1>2, <3>1 DEF BetweenOperations
  <2>. QED
    BY <1>1, <1>3, <2>2, <2>3, <2>4 DEF DiskSound
<1>7. MemorySound' /\ ReaderSound' /\ HandlersSound'
  BY <1>3 DEF MemorySound, ReaderSound, HandlersSound
<1>. QED
  BY <1>4, <1>5, <1>6, <1>7 DEF FilesInv

(* The first start finds nothing, and nothing was logged.                  *)
LEMMA InitSound ==
  ASSUME Init
  PROVE  FilesInv
<1>. DEFINE first == [o \in Origin |-> Block(1)]
<1>1. /\ phase = "running" /\ Alive /\ todo = <<>> /\ reader = NoReader
      /\ mem = [Empty EXCEPT !.current_block = first]
      /\ logged = Zero /\ crashes = 0
      /\ files.state = NoFiles /\ DOMAIN files = {"state", "log"}
      /\ files.log = [o \in Origin |-> NoFiles]
      /\ ~ Doing("append") /\ ~ Doing("apply")
  BY DEF Init, Alive, Doing
<1>2. /\ DOMAIN NoFiles = {} /\ \A o \in Origin : files.log[o] = NoFiles
  BY <1>1 DEF NoFiles
<1>3. /\ Empty.applied = Zero /\ Empty.safe = Zero /\ Empty.inboxes = EmptyBag
      /\ Empty.queue = [o \in Origin |-> <<>>]
      /\ Zero \in [Origin -> 0 .. MaxIndex] /\ \A o \in Origin : Zero[o] = 0
      /\ MaxIndex \in Nat
  BY EmptyIsTyped, MaxIndexNat DEF Empty, Zero
<1>3a. /\ mem \in [applied : [Origin -> 0 .. MaxIndex], inboxes : {Effect(mem.applied)},
                    safe : [Origin -> 0 .. MaxIndex], current_block : [Origin -> Blocks],
                    queue : [Origin -> Seq(Int)]]
       /\ mem.applied = Zero /\ mem.safe = Zero /\ mem.queue = [o \in Origin |-> <<>>]
  <2>1. first \in [Origin -> Blocks]
    BY <1>3, BlockTyped
  <2>. HIDE DEF first
  <2>2. mem = [applied |-> Zero, inboxes |-> EmptyBag, safe |-> Zero, current_block |-> first,
               queue |-> [o \in Origin |-> <<>>]]
    BY <1>1 DEF Empty
  <2>3. EmptyBag = Effect(Zero) /\ [o \in Origin |-> <<>>] \in [Origin -> Seq(Int)]
    BY EffectOfNothing
  <2>. QED
    BY <1>3, <2>1, <2>2, <2>3
<1>. HIDE DEF first
<1>4. Types
  <2>1. 0 \in 0 .. MaxCrashes
    BY FilesAssumption
  <2>2. DOMAIN files.log = Origin /\ \A o \in Origin : DOMAIN files.log[o] \subseteq Blocks
    BY <1>1, <1>2
  <2>3. todo \in Seq(OpTypes)
    BY <1>1
  <2>. QED
    BY <1>1, <1>2, <1>3, <1>3a, <2>1, <2>2, <2>3, NoReaderIsTyped DEF Types
<1>5. LogsHold
  BY <1>2 DEF LogsHold
<1>6. DiskSound
  <2>1. /\ SavedOnDisk = <<Saved(Empty)>> /\ SafeOnDisk = <<Zero>>
    BY <1>1, <1>2 DEF SavedOnDisk, SafeOnDisk, Exists
  <2>2. Saved(Empty) = [applied |-> Zero, inboxes |-> Effect(Zero)]
    BY <1>3, EffectOfNothing DEF Saved
  <2>3. Head(SavedOnDisk) = [applied |-> Zero, inboxes |-> Effect(Zero)] /\ Head(SafeOnDisk) = Zero
    BY <2>1, <2>2
  <2>4. Head(SavedOnDisk).applied = Zero
    BY <2>3
  <2>5. \A o \in Origin : Zero[o] <= Zero[o]
    BY <1>3
  <2>6. CompleteFrom(Zero)
    BY <1>1, <1>3 DEF CompleteFrom
  <2>7. SavedSound
    BY <1>1, <1>3, <2>1, <2>2, <2>3, <2>4, <2>5 DEF SavedSound
  <2>8. SafeSound
    BY <1>1, <1>3, <2>1, <2>3, <2>5, <2>6 DEF SafeSound
  <2>. QED
    BY <1>1, <1>2, <1>3, <2>6, <2>7, <2>8 DEF DiskSound, TornWhileWritten
<1>7. MemorySound
  <2>. SUFFICES ASSUME NEW o \in Origin
                PROVE  /\ mem.safe[o] <= Cursor(o) /\ Cursor(o) <= mem.applied[o]
                       /\ mem.applied[o] <= logged[o]
                       /\ Pending(o) => Op.command = Record(o, Cursor(o) + 1)
                                          /\ mem.applied[o] = Cursor(o)
                       /\ \E from \in 0 .. mem.safe[o] :
                            /\ mem.queue[o] = Window(from, Cursor(o))
                            /\ ~Collecting(o) => from = mem.safe[o]
    BY DEF MemorySound
  <2>1. ~ Pending(o)
    BY <1>1 DEF Pending
  <2>2. o < reader.origin
    BY <1>1, MaxIndexNat DEF NoReader, Origin
  <2>3. Cursor(o) = 0
    BY <1>1, <1>3, <1>3a, <2>1, <2>2 DEF Cursor, Sought
  <2>4. Window(0, 0) = <<>> /\ mem.queue[o] = <<>>
    BY <1>3a DEF Window
  <2>. QED
    BY <1>1, <1>3, <1>3a, <2>1, <2>3, <2>4
<1>8. ReaderSound /\ HandlersSound
  BY <1>1 DEF ReaderSound, HandlersSound
<1>. QED
  BY <1>4, <1>5, <1>6, <1>7, <1>8 DEF FilesInv

-----------------------------------------------------------------------------
(* Every step, and the theorems.                                           *)

(* A step that changes nothing.                                            *)
LEMMA StutterSound ==
  ASSUME FilesInv, UNCHANGED vars
  PROVE  FilesInv'
<1>1. /\ phase' = phase /\ mem' = mem /\ files' = files /\ todo' = todo
      /\ reader' = reader /\ logged' = logged /\ crashes' = crashes
  BY DEF vars
<1>2. Types' /\ LogsHold'
  BY <1>1 DEF FilesInv, Types, Alive, LogsHold, IsBlock, Doing, Op
<1>3. DiskSound'
  BY <1>1
  DEF FilesInv, DiskSound, SavedSound, SafeSound, TornWhileWritten, Alive, CompleteFrom,
      SavedOnDisk, SafeOnDisk, Exists, Doing, Op
<1>4. MemorySound'
  BY <1>1 DEF FilesInv, MemorySound, Alive, Cursor, Sought, Pending, Collecting, Doing, Op
<1>5. ReaderSound'
  BY <1>1 DEF FilesInv, ReaderSound, IsBlock
<1>6. HandlersSound'
  BY <1>1
  DEF FilesInv, HandlersSound, LogsNext, WritesWhole, SavesBoth, DeletesSafe, PopsSafe,
      CollectsApplied, Before, SavedOnDisk, SafeOnDisk, Exists, Saved, FrontIndex, Doing, Op
<1>. QED
  BY <1>2, <1>3, <1>4, <1>5, <1>6 DEF FilesInv

(* The invariant is inductive.                                             *)
LEMMA NextSound ==
  ASSUME Interrupts \subseteq {"json"}, FilesInv, [Next]_vars
  PROVE  FilesInv'
<1>1. CASE \E o \in Origin : ApplyNewCommand(o)
  BY <1>1, ApplyNewCommandSound
<1>2. CASE \E safe \in [Origin -> 0 .. MaxIndex] : CollectGarbage(safe)
  BY <1>2, CollectGarbageSound
<1>3. CASE Operation
  <2>1. CASE Truncate
    BY <2>1, TruncateSound
  <2>2. CASE Write
    BY <2>2, WriteSound
  <2>3. CASE Create
    BY <2>3, CreateSound
  <2>4. CASE AppendRecord
    BY <2>4, AppendRecordSound
  <2>5. CASE Apply
    BY <2>5, ApplySound
  <2>6. CASE Collect
    BY <2>6, CollectSound
  <2>7. CASE EraseDone
    BY <2>7, EraseDoneSound
  <2>8. CASE EraseFront
    BY <2>8, EraseFrontSound
  <2>9. CASE EraseBlock
    BY <2>9, EraseBlockSound
  <2>10. CASE Pop
    BY <2>10, PopSound
  <2>11. CASE Delete
    BY <2>11, DeleteSound
  <2>. QED
    BY <1>3, <2>1, <2>2, <2>3, <2>4, <2>5, <2>6, <2>7, <2>8, <2>9, <2>10, <2>11 DEF Operation
<1>4. CASE Load
  <2>1. CASE OpenLog
    BY <2>1, OpenLogSound
  <2>2. CASE CloseLog
    BY <2>2, CloseLogSound
  <2>3. CASE ReadRecord
    BY <2>3, ReadRecordSound
  <2>4. CASE Loaded
    BY <2>4, LoadedSound
  <2>. QED
    BY <1>4, <2>1, <2>2, <2>3, <2>4 DEF Load
<1>5. CASE Crash
  BY <1>5, CrashSound
<1>6. CASE Start
  BY <1>6, StartSound
<1>7. CASE UNCHANGED vars
  BY <1>7, StutterSound
<1>. QED
  BY <1>1, <1>2, <1>3, <1>4, <1>5, <1>6, <1>7 DEF Next

(* Whichever handler is cut, at whichever of its operations, memory, the   *)
(* state files and the logs fit together, if a death leaves no record and  *)
(* no new file of a log half done (write_state, write_command_to_log,      *)
(* erase_queue_up_to, load_state); a torn JSON file it may leave.          *)
THEOREM FilesInvariant ==
  ASSUME Interrupts \subseteq {"json"}
  PROVE  Spec => []FilesInv
<1>1. Init => FilesInv
  BY InitSound
<1>2. FilesInv /\ [Next]_vars => FilesInv'
  BY NextSound
<1>. QED
  BY <1>1, <1>2, PTL DEF Spec

(* Every variable keeps its type; no block is created beyond the ones of   *)
(* the indices there are.                                                  *)
THEOREM FilesTypes ==
  ASSUME Interrupts \subseteq {"json"}
  PROVE  Spec => []TypeOK
<1>1. FilesInv => TypeOK
  BY InvGivesTypes
<1>2. Spec => []FilesInv
  BY FilesInvariant
<1>. QED
  BY <1>1, <1>2, PTL

(* A server at rest, after any number of deaths and starts, has the effect *)
(* of every command it logged, once (load_state, apply_command_to_state).  *)
THEOREM NothingIsLostOrTwice ==
  ASSUME Interrupts \subseteq {"json"}
  PROVE  Spec => []NothingLostNothingTwice
<1>1. FilesInv => NothingLostNothingTwice
  BY InvGivesRest
<1>2. Spec => []FilesInv
  BY FilesInvariant
<1>. QED
  BY <1>1, <1>2, PTL

(* And its queues are what it logged and is not safe yet, in order and     *)
(* without gaps (read_log_files, erase_queue_up_to).                       *)
THEOREM QueuesAreWhole ==
  ASSUME Interrupts \subseteq {"json"}
  PROVE  Spec => []QueuesComeBack
<1>1. FilesInv => QueuesComeBack
  BY InvGivesRest
<1>2. Spec => []FilesInv
  BY FilesInvariant
<1>. QED
  BY <1>1, <1>2, PTL

-----------------------------------------------------------------------------
(* StateJson: what is written is what is read.                             *)

(* A child is found by its key, if no other has it.                        *)
LEMMA KidFound ==
  ASSUME NEW kids, NEW i \in DOMAIN kids,
         \A j \in DOMAIN kids : kids[j][1] = kids[i][1] => kids[j][2] = kids[i][2]
  PROVE  GetChild(Node(kids), kids[i][1]) = kids[i][2]
<1>. DEFINE key == kids[i][1]
            found == CHOOSE kid \in Range(kids) : kid[1] = key
<1>1. kids[i] \in Range(kids)
  BY DEF Range
<1>2. found \in Range(kids) /\ found[1] = key
  BY <1>1
<1>3. PICK j \in DOMAIN kids : found = kids[j]
  BY <1>2 DEF Range
<1>4. found[2] = kids[i][2]
  BY <1>2, <1>3
<1>5. Node(kids).kids = kids
  BY DEF Node
<1>. QED
  BY <1>4, <1>5 DEF GetChild

LEMMA TwoKids ==
  ASSUME NEW a, NEW b, a # b, NEW x, NEW y,
         NEW tree, tree = Node(<< <<a, x>>, <<b, y>> >>)
  PROVE  GetChild(tree, a) = x /\ GetChild(tree, b) = y
<1>. DEFINE kids == << <<a, x>>, <<b, y>> >>
<1>1. /\ DOMAIN kids = 1 .. 2
      /\ kids[1][1] = a /\ kids[1][2] = x
      /\ kids[2][1] = b /\ kids[2][2] = y
  OBVIOUS
<1>. HIDE DEF kids
<1>2. GetChild(Node(kids), kids[1][1]) = kids[1][2]
  BY <1>1, KidFound
<1>3. GetChild(Node(kids), kids[2][1]) = kids[2][2]
  BY <1>1, KidFound
<1>. QED
  BY <1>1, <1>2, <1>3 DEF kids

LEMMA FourKids ==
  ASSUME NEW a, NEW b, NEW c, NEW d, a \notin {b, c, d}, b \notin {c, d}, c # d,
         NEW x, NEW y, NEW z, NEW w,
         NEW tree, tree = Node(<< <<a, x>>, <<b, y>>, <<c, z>>, <<d, w>> >>)
  PROVE  /\ GetChild(tree, a) = x /\ GetChild(tree, b) = y
         /\ GetChild(tree, c) = z /\ GetChild(tree, d) = w
<1>. DEFINE kids == << <<a, x>>, <<b, y>>, <<c, z>>, <<d, w>> >>
<1>1. /\ DOMAIN kids = 1 .. 4
      /\ kids[1][1] = a /\ kids[1][2] = x
      /\ kids[2][1] = b /\ kids[2][2] = y
      /\ kids[3][1] = c /\ kids[3][2] = z
      /\ kids[4][1] = d /\ kids[4][2] = w
  OBVIOUS
<1>. HIDE DEF kids
<1>2. \A i \in DOMAIN kids : GetChild(Node(kids), kids[i][1]) = kids[i][2]
  <2>. TAKE i \in DOMAIN kids
  <2>1. \A j \in DOMAIN kids : kids[j][1] = kids[i][1] => kids[j][2] = kids[i][2]
    BY <1>1
  <2>. QED
    BY <2>1, KidFound
<1>3. {1, 2, 3, 4} \subseteq DOMAIN kids
  BY <1>1
<1>. QED
  BY <1>1, <1>2, <1>3, Zenon DEF kids

LEMMA FiveKids ==
  ASSUME NEW a, NEW b, NEW c, NEW d, NEW e,
         a \notin {b, c, d, e}, b \notin {c, d, e}, c \notin {d, e}, d # e,
         NEW x, NEW y, NEW z, NEW w, NEW v,
         NEW tree, tree = Node(<< <<a, x>>, <<b, y>>, <<c, z>>, <<d, w>>, <<e, v>> >>)
  PROVE  /\ GetChild(tree, a) = x /\ GetChild(tree, b) = y
         /\ GetChild(tree, c) = z /\ GetChild(tree, d) = w
         /\ GetChild(tree, e) = v
<1>. DEFINE kids == << <<a, x>>, <<b, y>>, <<c, z>>, <<d, w>>, <<e, v>> >>
<1>1. /\ DOMAIN kids = 1 .. 5
      /\ kids[1][1] = a /\ kids[1][2] = x
      /\ kids[2][1] = b /\ kids[2][2] = y
      /\ kids[3][1] = c /\ kids[3][2] = z
      /\ kids[4][1] = d /\ kids[4][2] = w
      /\ kids[5][1] = e /\ kids[5][2] = v
  OBVIOUS
<1>. HIDE DEF kids
<1>2. \A i \in DOMAIN kids : GetChild(Node(kids), kids[i][1]) = kids[i][2]
  <2>. TAKE i \in DOMAIN kids
  <2>1. \A j \in DOMAIN kids : kids[j][1] = kids[i][1] => kids[j][2] = kids[i][2]
    BY <1>1
  <2>. QED
    BY <2>1, KidFound
<1>3. {1, 2, 3, 4, 5} \subseteq DOMAIN kids
  BY <1>1
<1>. QED
  BY <1>1, <1>2, <1>3, Zenon DEF kids

(* The kids of an array, which have no keys.                               *)
LEMMA ElementsOfNode ==
  ASSUME NEW kids
  PROVE  Elements(Node(kids)) = [i \in DOMAIN kids |-> kids[i][2]]
BY DEF Elements, Node

-----------------------------------------------------------------------------
(* Values come back from their texts.                                      *)
LEMMA NumberComesBack ==
  ASSUME NEW n \in Numbers
  PROVE  GetNumber(Put(n)) = n
<1>. DEFINE found == CHOOSE value \in Numbers : ToString(value) = ToString(n)
<1>1. found \in Numbers /\ ToString(found) = ToString(n)
  OBVIOUS
<1>2. found = n
  BY <1>1, TextAssumption
<1>. QED
  BY <1>2 DEF GetNumber, GetValue, Put, Leaf

LEMMA FlagComesBack ==
  ASSUME NEW b \in BOOLEAN
  PROVE  GetValue(BOOLEAN, Put(b)) = b
<1>. DEFINE found == CHOOSE value \in BOOLEAN : ToString(value) = ToString(b)
<1>1. found \in BOOLEAN /\ ToString(found) = ToString(b)
  OBVIOUS
<1>2. found = b
  <2>1. found \in {TRUE, FALSE} /\ b \in {TRUE, FALSE}
    BY <1>1, Zenon
  <2>. HIDE DEF found
  <2>. QED
    BY <1>1, <2>1, TextAssumption, Zenon
<1>. QED
  BY <1>2, Zenon DEF GetValue, Put, Leaf

(* Arrays come back: C++ counts from 0, the kids from 1.                   *)
LEMMA Array1dComesBack ==
  ASSUME NEW array \in [Server -> Numbers]
  PROVE  Read1d(Generate1d(array)) = array
<1>. DEFINE kids == [i \in 1 .. N_MACHINES |-> <<"", Put(array[i - 1])>>]
<1>1. Generate1d(array) = Node(kids)
  BY DEF Generate1d, Array
<1>2. /\ DOMAIN kids = 1 .. N_MACHINES
      /\ \A i \in 1 .. N_MACHINES : kids[i][2] = Put(array[i - 1])
  OBVIOUS
<1>. HIDE DEF kids
<1>3. ASSUME NEW s \in Server
      PROVE  GetNumber(Elements(Node(kids))[s + 1]) = array[s]
  <2>. DEFINE n == s + 1
  <2>1. n \in 1 .. N_MACHINES /\ n - 1 = s
    BY JsonAssumption DEF Server
  <2>. HIDE DEF n
  <2>2. kids[n][2] = Put(array[s])
    BY <1>2, <2>1
  <2>3. Elements(Node(kids)) = [i \in DOMAIN kids |-> kids[i][2]]
    BY ElementsOfNode, Zenon
  <2>4. Elements(Node(kids))[n] = kids[n][2]
    BY <1>2, <2>1, <2>3, Zenon
  <2>. QED
    BY <2>2, <2>4, NumberComesBack DEF n
<1>. QED
  BY <1>1, <1>3 DEF Read1d

LEMMA Array2dComesBack ==
  ASSUME NEW array \in [Server -> [Server -> Numbers]]
  PROVE  Read2d(Generate2d(array)) = array
<1>. DEFINE kids == [i \in 1 .. N_MACHINES |-> <<"", Generate1d(array[i - 1])>>]
<1>1. Generate2d(array) = Node(kids)
  BY DEF Generate2d, Array
<1>2. /\ DOMAIN kids = 1 .. N_MACHINES
      /\ \A i \in 1 .. N_MACHINES : kids[i][2] = Generate1d(array[i - 1])
  OBVIOUS
<1>. HIDE DEF kids
<1>3. ASSUME NEW s \in Server
      PROVE  Read1d(Elements(Node(kids))[s + 1]) = array[s]
  <2>. DEFINE n == s + 1
  <2>1. n \in 1 .. N_MACHINES /\ n - 1 = s
    BY JsonAssumption DEF Server
  <2>. HIDE DEF n
  <2>2. kids[n][2] = Generate1d(array[s])
    BY <1>2, <2>1
  <2>3. Elements(Node(kids)) = [i \in DOMAIN kids |-> kids[i][2]]
    BY ElementsOfNode, Zenon
  <2>4. Elements(Node(kids))[n] = kids[n][2]
    BY <1>2, <2>1, <2>3, Zenon
  <2>. QED
    BY <2>2, <2>4, Array1dComesBack DEF n
<1>. QED
  BY <1>1, <1>3 DEF Read2d

-----------------------------------------------------------------------------
(* Identifiers and mails.                                                  *)
LEMMA MailNumbers ==
  ASSUME NEW mail \in Mails
  PROVE  /\ mail \in [id : Identifiers, date_sent : Nat, message : STRING, read : BOOLEAN]
         /\ mail.id.origin \in Numbers
         /\ mail.id.index \in Numbers
         /\ mail.date_sent \in Numbers
BY JsonAssumption DEF Numbers, Identifiers

LEMMA IdentifierComesBack ==
  ASSUME NEW mail \in Mails
  PROVE  IdentifierFromPtree(PtreeFromIdentifier(mail.id)) = mail.id
<1>. DEFINE id == mail.id
            tree == PtreeFromIdentifier(id)
<1>1. id \in [origin : Server, index : Nat] /\ id.origin \in Numbers /\ id.index \in Numbers
  BY MailNumbers DEF Identifiers
<1>2. "origin" # "index"
  OBVIOUS
<1>3. GetChild(tree, "origin") = Put(id.origin) /\ GetChild(tree, "index") = Put(id.index)
  <2>1. tree = Node(<< <<"origin", Put(id.origin)>>, <<"index", Put(id.index)>> >>)
    BY Zenon DEF PtreeFromIdentifier
  <2>. HIDE DEF tree
  <2>. QED
    BY <1>2, <2>1, TwoKids
<1>4. IdentifierFromPtree(tree) = [origin |-> id.origin, index |-> id.index]
  BY <1>1, <1>3, NumberComesBack, Zenon DEF IdentifierFromPtree
<1>. QED
  BY <1>1, <1>4

LEMMA MailComesBack ==
  ASSUME NEW mail \in Mails
  PROVE  InboxMessageFromPtree(PtreeFromInboxMessage(mail)) = mail
<1>. DEFINE tree == PtreeFromInboxMessage(mail)
<1>1. /\ "read" \notin {"id", "date_sent", "message"}
      /\ "id" \notin {"date_sent", "message"}
      /\ "date_sent" # "message"
  OBVIOUS
<1>2. /\ GetChild(tree, "read") = Put(mail.read)
      /\ GetChild(tree, "id") = PtreeFromIdentifier(mail.id)
      /\ GetChild(tree, "date_sent") = Put(mail.date_sent)
      /\ GetChild(tree, "message") = Leaf(mail.message)
  <2>1. tree = Node(<< <<"read", Put(mail.read)>>, <<"id", PtreeFromIdentifier(mail.id)>>,
                       <<"date_sent", Put(mail.date_sent)>>, <<"message", Leaf(mail.message)>> >>)
    BY Zenon DEF PtreeFromInboxMessage
  <2>. HIDE DEF tree
  <2>. QED
    BY <1>1, <2>1, FourKids
<1>3. mail.date_sent \in Numbers /\ mail.read \in BOOLEAN
  BY MailNumbers
<1>4. Leaf(mail.message).text = mail.message
  BY DEF Leaf
<1>5. InboxMessageFromPtree(tree) =
        [id |-> mail.id, date_sent |-> mail.date_sent, message |-> mail.message, read |-> mail.read]
  BY <1>2, <1>3, <1>4, IdentifierComesBack, NumberComesBack, FlagComesBack, Zenon
    DEF InboxMessageFromPtree
<1>. QED
  BY <1>5, MailNumbers

-----------------------------------------------------------------------------
(* Sets and inboxes.                                                       *)

(* SetToSeq names each element of a finite set once.                       *)
LEMMA SetInSequence ==
  ASSUME NEW S, IsFiniteSet(S)
  PROVE  /\ Cardinality(S) \in Nat
         /\ SetToSeq(S) \in [1 .. Cardinality(S) -> S]
         /\ \A i, j \in 1 .. Cardinality(S) : SetToSeq(S)[i] = SetToSeq(S)[j] => i = j
         /\ \A x \in S : \E i \in 1 .. Cardinality(S) : SetToSeq(S)[i] = x
<1>. DEFINE n == Cardinality(S)
            f == SetToSeq(S)
<1>1. n \in Nat /\ ExistsBijection(1 .. n, S)
  BY FS_CardinalityType
<1>2. \E g \in [1 .. n -> S] : IsInjective(g)
  BY <1>1 DEF ExistsBijection, Bijection, Injection
<1>3. f \in [1 .. n -> S] /\ IsInjective(f)
  BY <1>2 DEF SetToSeq
<1>4. f \in Injection(1 .. n, S)
  BY <1>3 DEF Injection
<1>5. IsFiniteSet(1 .. n) /\ Cardinality(1 .. n) = n
  BY <1>1, FS_Interval
<1>. HIDE DEF f
<1>6. f \in Surjection(1 .. n, S)
  BY <1>4, <1>5, FS_Injection
<1>7. \A x \in S : \E i \in 1 .. n : f[i] = x
  BY <1>6 DEF Surjection
<1>8. \A i, j \in 1 .. n : f[i] = f[j] => i = j
  BY <1>3 DEF IsInjective
<1>. QED
  BY <1>1, <1>3, <1>7, <1>8 DEF f

(* Pending identifiers come back (rehydrate_set_from_ptree).               *)
LEMMA PendingComesBack ==
  ASSUME NEW ids \in SUBSET {m.id : m \in Mails}
  PROVE  RehydrateSet(WritePending(ids)) = ids
<1>. DEFINE order == SetToSeq(ids)
            n == Cardinality(ids)
            kids == [i \in 1 .. n |-> <<"", PtreeFromIdentifier(order[i])>>]
<1>1. IsFiniteSet(ids)
  <2>1. IsFiniteSet({m.id : m \in Mails})
    <3>. DEFINE f == [m \in Mails |-> m.id]
                all == {m.id : m \in Mails}
    <3>1. f \in Surjection(Mails, all)
      BY DEF Surjection
    <3>. QED
      BY <3>1, JsonAssumption, FS_Surjection
  <2>. QED
    BY <2>1, FS_Subset
<1>2. /\ n \in Nat /\ order \in [1 .. n -> ids]
      /\ \A x \in ids : \E i \in 1 .. n : order[i] = x
  BY <1>1, SetInSequence, Zenon
<1>3. Len(order) = n
  BY <1>2
<1>4. WritePending(ids) = Node(kids)
  BY <1>3 DEF WritePending, Array
<1>5. \A i \in 1 .. n : IdentifierFromPtree(PtreeFromIdentifier(order[i])) = order[i]
  <2>1. \A x \in ids : \E m \in Mails : x = m.id
    OBVIOUS
  <2>2. \A x \in ids : IdentifierFromPtree(PtreeFromIdentifier(x)) = x
    BY <2>1, IdentifierComesBack, Zenon
  <2>. QED
    BY <1>2, <2>2
<1>6. DOMAIN kids = 1 .. n /\ \A i \in 1 .. n : kids[i][2] = PtreeFromIdentifier(order[i])
  OBVIOUS
<1>. HIDE DEF kids, order, n
<1>7. Elements(Node(kids)) = [i \in 1 .. n |-> PtreeFromIdentifier(order[i])]
  <2>1. Elements(Node(kids)) = [i \in DOMAIN kids |-> kids[i][2]]
    BY ElementsOfNode, Zenon
  <2>. QED
    BY <1>6, <2>1, Zenon
<1>8. Range(Elements(Node(kids))) = {PtreeFromIdentifier(order[i]) : i \in 1 .. n}
  BY <1>7, Zenon DEF Range
<1>9. RehydrateSet(Node(kids)) = {order[i] : i \in 1 .. n}
  <2>. DEFINE tree == Node(kids)
              read == {IdentifierFromPtree(elem) : elem \in Range(Elements(tree))}
  <2>1. ASSUME NEW x \in read
        PROVE  \E i \in 1 .. n : x = order[i]
    <3>1. PICK elem \in Range(Elements(tree)) : x = IdentifierFromPtree(elem)
      BY <2>1
    <3>2. PICK i \in 1 .. n : elem = PtreeFromIdentifier(order[i])
      BY <1>8
    <3>. QED
      BY <1>5, <3>1, <3>2
  <2>2. ASSUME NEW i \in 1 .. n
        PROVE  order[i] \in read
    <3>1. PtreeFromIdentifier(order[i]) \in Range(Elements(tree))
      BY <1>8
    <3>2. IdentifierFromPtree(PtreeFromIdentifier(order[i])) \in read
      BY <3>1
    <3>. QED
      BY <1>5, <3>2
  <2>3. RehydrateSet(tree) = read
    BY Zenon DEF RehydrateSet
  <2>. HIDE DEF read, tree
  <2>4. read = {order[i] : i \in 1 .. n}
    BY <2>1, <2>2
  <2>. QED
    BY <2>3, <2>4 DEF tree
<1>10. {order[i] : i \in 1 .. n} = ids
  BY <1>2, Zenon
<1>. QED
  BY <1>4, <1>9, <1>10

(* In an inbox in its order each mail goes behind those before it.         *)
LEMMA NextGoesLast ==
  ASSUME NEW inbox \in Seq(Mails), InOrder(inbox), NEW k \in 1 .. Len(inbox)
  PROVE  Insert(SubSeq(inbox, 1, k - 1), inbox[k]) = SubSeq(inbox, 1, k)
<1>. DEFINE box == SubSeq(inbox, 1, k - 1)
            mail == inbox[k]
            date == mail.date_sent
<1>1. Len(inbox) \in Nat /\ k \in Nat /\ k - 1 \in Nat /\ DOMAIN inbox = 1 .. Len(inbox)
  OBVIOUS
<1>2. /\ box \in Seq(Mails) /\ Len(box) = k - 1
      /\ \A i \in 1 .. k - 1 : box[i] = inbox[i]
  BY <1>1
<1>3. mail \in Mails
  BY <1>1
<1>. HIDE DEF box
<1>4. DOMAIN box = 1 .. k - 1
  BY <1>2
<1>5. \A i \in DOMAIN box : box[i].date_sent <= date
  BY <1>1, <1>2, <1>4 DEF InOrder
<1>6. NotLater(box, date) = k - 1
  <2>1. {i \in DOMAIN box : box[i].date_sent <= date} = 1 .. k - 1
    BY <1>4, <1>5
  <2>2. Cardinality(1 .. k - 1) = k - 1
    BY <1>1, FS_Interval
  <2>. QED
    BY <2>1, <2>2, Zenon DEF NotLater
<1>7. Insert(box, mail) = SubSeq(box, 1, k - 1) \o <<mail>> \o SubSeq(box, k, k - 1)
  <2>1. NotLater(box, date) + 1 = k /\ k - 1 + 1 = k
    BY <1>1, <1>6
  <2>. QED
    BY <1>2, <2>1 DEF Insert, InsertAt
<1>8. SubSeq(box, 1, k - 1) = box /\ SubSeq(box, k, k - 1) = <<>>
  BY <1>1, <1>2
<1>9. Insert(box, mail) = Append(box, mail)
  BY <1>2, <1>3, <1>7, <1>8
<1>. DEFINE now == Append(box, mail)
            first == SubSeq(inbox, 1, k)
<1>10. /\ now \in Seq(Mails) /\ Len(now) = k
       /\ \A i \in 1 .. k - 1 : now[i] = inbox[i]
       /\ now[k] = inbox[k]
  BY <1>1, <1>2, <1>3
<1>11. /\ first \in Seq(Mails) /\ Len(first) = k
       /\ \A i \in 1 .. k : first[i] = inbox[i]
  BY <1>1
<1>. HIDE DEF now, first
<1>12. \A i \in 1 .. k : now[i] = first[i]
  BY <1>1, <1>10, <1>11
<1>13. now = first
  BY <1>10, <1>11, <1>12, SeqEqual
<1>. QED
  BY <1>9, <1>13 DEF now, first, box

(* An inbox comes back, mail by mail (get_inbox_list_from_ptree).          *)
LEMMA InboxComesBack ==
  ASSUME NEW inbox \in Inboxes
  PROVE  GetInboxListFromPtree(PtreeFromInbox(inbox)) = inbox
<1>. DEFINE n == Len(inbox)
            kids == [i \in 1 .. n |-> <<"", PtreeFromInboxMessage(inbox[i])>>]
            tree == Node(kids)
            Elem(i) == InboxMessageFromPtree(Elements(tree)[i])
            IsInserted(f) == f = [i \in 0 .. n |-> IF i = 0 THEN <<>> ELSE Insert(f[i - 1], Elem(i))]
            first == [i \in 0 .. n |-> SubSeq(inbox, 1, i)]
            inserted == CHOOSE f : IsInserted(f)
<1>1. inbox \in Seq(Mails) /\ InOrder(inbox)
  BY DEF Inboxes, BoundedSeq, SeqOf
<1>2. n \in Nat /\ \A i \in 1 .. n : inbox[i] \in Mails
  BY <1>1
<1>3. PtreeFromInbox(inbox) = tree
  BY Zenon DEF PtreeFromInbox, Array
<1>4. Len(tree.kids) = n
  <2>1. tree.kids = kids
    BY DEF Node
  <2>2. Len(kids) = n
    BY <1>2
  <2>. QED
    BY <2>1, <2>2
<1>5. ASSUME NEW i \in 1 .. n
      PROVE  Elem(i) = inbox[i]
  <2>1. DOMAIN kids = 1 .. n /\ kids[i][2] = PtreeFromInboxMessage(inbox[i])
    OBVIOUS
  <2>. HIDE DEF kids
  <2>2. Elements(Node(kids)) = [j \in DOMAIN kids |-> kids[j][2]]
    BY ElementsOfNode, Zenon
  <2>3. Elements(tree)[i] = PtreeFromInboxMessage(inbox[i])
    BY <2>1, <2>2
  <2>4. inbox[i] \in Mails
    BY <1>2
  <2>. QED
    BY <2>3, <2>4, MailComesBack, Zenon
<1>6. GetInboxListFromPtree(tree) = inserted[n]
  BY <1>4, Zenon DEF GetInboxListFromPtree
<1>. HIDE DEF tree, kids, Elem
<1>7. first[0] = <<>> /\ first[n] = inbox
  BY <1>1, <1>2
<1>8. \A i \in 1 .. n : Insert(first[i - 1], Elem(i)) = first[i]
  <2>. TAKE i \in 1 .. n
  <2>1. i - 1 \in 0 .. n /\ i \in 0 .. n
    BY <1>2
  <2>2. first[i - 1] = SubSeq(inbox, 1, i - 1) /\ first[i] = SubSeq(inbox, 1, i)
    BY <2>1
  <2>. HIDE DEF first
  <2>3. Insert(SubSeq(inbox, 1, i - 1), inbox[i]) = SubSeq(inbox, 1, i)
    BY <1>1, NextGoesLast, Zenon
  <2>. QED
    BY <1>5, <2>2, <2>3, Zenon
<1>9. IsInserted(first)
  <2>1. first = [i \in 0 .. n |-> first[i]]
    OBVIOUS
  <2>2. \A i \in 0 .. n : first[i] = IF i = 0 THEN <<>> ELSE Insert(first[i - 1], Elem(i))
    <3>. TAKE i \in 0 .. n
    <3>1. CASE i = 0
      BY <1>7, <3>1, Zenon
    <3>2. CASE i # 0
      <4>1. i \in 1 .. n
        BY <1>2, <3>2
      <4>. QED
        BY <1>8, <3>2, <4>1, Zenon
    <3>. QED
      BY <3>1, <3>2
  <2>. HIDE DEF first
  <2>. QED
    BY <2>1, <2>2, Zenon
<1>10. IsInserted(inserted)
  BY <1>9, Zenon
<1>. HIDE DEF inserted, first
<1>11. /\ inserted[0] = <<>>
       /\ \A i \in 1 .. n : inserted[i] = Insert(inserted[i - 1], Elem(i))
  <2>1. \A i \in 0 .. n : inserted[i] = IF i = 0 THEN <<>> ELSE Insert(inserted[i - 1], Elem(i))
    BY <1>10
  <2>2. 0 \in 0 .. n /\ \A i \in 1 .. n : i \in 0 .. n /\ i # 0
    BY <1>2
  <2>. QED
    BY <2>1, <2>2, Zenon
<1>12. inserted[n] = first[n]
  <2>. DEFINE bad == {i \in 0 .. n : inserted[i] # first[i]}
  <2>1. ASSUME bad # {}
        PROVE  FALSE
    <3>. DEFINE k == Min(bad)
    <3>1. bad \in SUBSET Nat
      BY <1>2
    <3>2. k \in bad /\ \A i \in bad : k <= i
      BY <2>1, <3>1, MinProperty
    <3>. HIDE DEF k
    <3>3. k \in 1 .. n
      BY <1>2, <1>7, <1>11, <3>2
    <3>4. k - 1 \notin bad /\ k - 1 \in 0 .. n
      BY <1>2, <3>2, <3>3
    <3>5. inserted[k - 1] = first[k - 1]
      BY <3>4
    <3>6. inserted[k] = first[k]
      BY <1>8, <1>11, <3>3, <3>5, Zenon
    <3>. QED
      BY <3>2, <3>6
  <2>2. n \in 0 .. n
    BY <1>2
  <2>. QED
    BY <2>1, <2>2
<1>. QED
  BY <1>3, <1>6, <1>7, <1>12

(* The map of inboxes comes back, in whatever order it was written.        *)
LEMMA InboxesComeBack ==
  ASSUME NEW owners \in SUBSET Users, NEW inboxes \in [owners -> Inboxes]
  PROVE  ExtractInboxes(WriteInboxesToPtree(inboxes)) = inboxes
<1>. DEFINE order == SetToSeq(owners)
            n == Cardinality(owners)
            kids == [i \in 1 .. n |-> <<order[i], PtreeFromInbox(inboxes[order[i]])>>]
            tree == Node(kids)
<1>1. IsFiniteSet(owners)
  BY JsonAssumption, FS_Subset
<1>2. /\ order \in [1 .. n -> owners]
      /\ \A i, j \in 1 .. n : order[i] = order[j] => i = j
      /\ \A x \in owners : \E i \in 1 .. n : order[i] = x
  BY <1>1, SetInSequence, Zenon
<1>3. DOMAIN inboxes = owners /\ DOMAIN order = 1 .. n
  BY <1>2
<1>4. WriteInboxesToPtree(inboxes) = tree
  BY <1>3, Zenon DEF WriteInboxesToPtree
<1>5. /\ DOMAIN kids = 1 .. n
      /\ \A i \in 1 .. n : kids[i][1] = order[i] /\ kids[i][2] = PtreeFromInbox(inboxes[order[i]])
  OBVIOUS
<1>. HIDE DEF kids, order, n
<1>6. tree.kids = kids
  BY DEF Node
<1>7. {kid[1] : kid \in Range(tree.kids)} = owners
  <2>1. Range(kids) = {kids[i] : i \in 1 .. n}
    BY <1>5, Zenon DEF Range
  <2>2. \A kid \in Range(kids) : kid[1] \in owners
    BY <1>2, <1>5, <2>1
  <2>3. \A x \in owners : \E kid \in Range(kids) : kid[1] = x
    BY <1>2, <1>5, <2>1
  <2>. QED
    BY <1>6, <2>2, <2>3
<1>8. ASSUME NEW user \in owners
      PROVE  GetInboxListFromPtree(GetChild(tree, user)) = inboxes[user]
  <2>1. PICK i \in 1 .. n : order[i] = user
    BY <1>2
  <2>2. \A j \in DOMAIN kids : kids[j][1] = kids[i][1] => kids[j][2] = kids[i][2]
    BY <1>2, <1>5
  <2>3. i \in DOMAIN kids
    BY <1>5
  <2>4. GetChild(Node(kids), kids[i][1]) = kids[i][2]
    BY <2>2, <2>3, KidFound, Zenon
  <2>5. GetChild(tree, user) = PtreeFromInbox(inboxes[user])
    BY <1>5, <2>1, <2>4
  <2>6. inboxes[user] \in Inboxes
    OBVIOUS
  <2>. QED
    BY <2>5, <2>6, InboxComesBack, Zenon
<1>9. ExtractInboxes(tree) =
        [user \in {kid[1] : kid \in Range(tree.kids)} |-> GetInboxListFromPtree(GetChild(tree, user))]
  BY Zenon DEF ExtractInboxes
<1>. HIDE DEF tree
<1>10. ExtractInboxes(tree) = [user \in owners |-> inboxes[user]]
  BY <1>7, <1>8, <1>9
<1>. QED
  BY <1>4, <1>10

(* What a server writes into its state files is what the next start reads  *)
(* from them (write_inbox_state, write_log_state, read_inbox_state,        *)
(* read_log_state).                                                        *)
THEOREM TreesHoldStates == TreesKeepStates
<1>. SUFFICES ASSUME NEW st \in ServerStates
              PROVE  StateOf(InboxStateTree(st), LogStateTree(st)) = st
  BY DEF TreesKeepStates
<1>. DEFINE tree == InboxStateTree(st)
            log == LogStateTree(st)
<1>1. Counters \subseteq [Server -> Numbers]
  BY DEF Counters, Numbers
<1>2. st = [knowledge |-> st.knowledge, applied_to_state |-> st.applied_to_state,
            pending_delete |-> st.pending_delete, pending_read |-> st.pending_read,
            inboxes |-> st.inboxes, safe_delivered |-> st.safe_delivered]
  BY DEF ServerStates
<1>3. /\ st.knowledge \in [Server -> [Server -> Numbers]]
      /\ st.applied_to_state \in [Server -> Numbers]
      /\ st.safe_delivered \in [Server -> Numbers]
      /\ st.pending_delete \in SUBSET {m.id : m \in Mails}
      /\ st.pending_read \in SUBSET {m.id : m \in Mails}
  BY <1>1 DEF ServerStates
<1>4. PICK owners \in SUBSET Users : st.inboxes \in [owners -> Inboxes]
  BY DEF ServerStates
<1>5. /\ GetChild(tree, "knowledge") = Generate2d(st.knowledge)
      /\ GetChild(tree, "applied_to_state") = Generate1d(st.applied_to_state)
      /\ GetChild(tree, "pending_delete") = WritePending(st.pending_delete)
      /\ GetChild(tree, "pending_read") = WritePending(st.pending_read)
      /\ GetChild(tree, "inboxes") = WriteInboxesToPtree(st.inboxes)
  <2>1. /\ "knowledge" \notin {"applied_to_state", "pending_delete", "pending_read", "inboxes"}
        /\ "applied_to_state" \notin {"pending_delete", "pending_read", "inboxes"}
        /\ "pending_delete" \notin {"pending_read", "inboxes"}
        /\ "pending_read" # "inboxes"
    OBVIOUS
  <2>2. tree = Node(<< <<"knowledge", Generate2d(st.knowledge)>>,
                       <<"applied_to_state", Generate1d(st.applied_to_state)>>,
                       <<"pending_delete", WritePending(st.pending_delete)>>,
                       <<"pending_read", WritePending(st.pending_read)>>,
                       <<"inboxes", WriteInboxesToPtree(st.inboxes)>> >>)
    BY Zenon DEF InboxStateTree
  <2>. HIDE DEF tree
  <2>. QED
    BY <2>1, <2>2, FiveKids
<1>6. GetChild(log, "safe_delivered") = Generate1d(st.safe_delivered)
  <2>. DEFINE kids == << <<"safe_delivered", Generate1d(st.safe_delivered)>> >>
  <2>1. /\ DOMAIN kids = {1}
        /\ kids[1][1] = "safe_delivered" /\ kids[1][2] = Generate1d(st.safe_delivered)
    OBVIOUS
  <2>2. log = Node(kids)
    BY Zenon DEF LogStateTree
  <2>. HIDE DEF kids, log
  <2>3. GetChild(Node(kids), kids[1][1]) = kids[1][2]
    BY <2>1, KidFound
  <2>. QED
    BY <2>1, <2>2, <2>3
<1>. HIDE DEF tree, log
<1>7. /\ Read2d(GetChild(tree, "knowledge")) = st.knowledge
      /\ Read1d(GetChild(tree, "applied_to_state")) = st.applied_to_state
      /\ Read1d(GetChild(log, "safe_delivered")) = st.safe_delivered
  BY <1>3, <1>5, <1>6, Array1dComesBack, Array2dComesBack, Zenon
<1>8. /\ RehydrateSet(GetChild(tree, "pending_delete")) = st.pending_delete
      /\ RehydrateSet(GetChild(tree, "pending_read")) = st.pending_read
  BY <1>3, <1>5, PendingComesBack, Zenon
<1>9. ExtractInboxes(GetChild(tree, "inboxes")) = st.inboxes
  BY <1>4, <1>5, InboxesComeBack, Zenon
<1>10. StateOf(tree, log) = st
  BY <1>2, <1>7, <1>8, <1>9, Zenon DEF StateOf
<1>. QED
  BY <1>10 DEF tree, log

(* At a start every state that may have been saved comes back.             *)
THEOREM SavedStatesReturn == Spec => []SavedStateComesBack
<1>1. SavedStateComesBack
  BY TreesHoldStates DEF SavedStateComesBack
<1>. QED
  BY <1>1, PTL
=============================================================================
