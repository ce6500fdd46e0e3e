----------------------------- MODULE ListingProofs -----------------------------
(***************************************************************************)
(* Theorems about InboxListing, for every number of mails, requests and    *)
(* headers in a message: its inductive invariant ListingInv, and from it   *)
(* what is printed and what a read or delete names.                        *)
(***************************************************************************)
EXTENDS InboxListing, Minimum, TLAPS, FiniteSetTheorems, SequenceTheorems

-----------------------------------------------------------------------------
(* Boxes: sorted sequences of mails.                                       *)

(* The positions of some first elements are counted by their number.       *)
LEMMA FirstOnes ==
  ASSUME NEW n \in Nat, NEW S \in SUBSET (1 .. n),
         \A i, j \in 1 .. n : i <= j /\ j \in S => i \in S
  PROVE  /\ Cardinality(S) \in 0 .. n
         /\ S = 1 .. Cardinality(S)
<1>. DEFINE T == (1 .. n + 1) \ S
            k == Min(T)
<1>1. n + 1 \in T /\ T \in SUBSET Nat
  OBVIOUS
<1>2. k \in T /\ k \in Nat /\ \A x \in T : k <= x
  BY <1>1, MinProperty
<1>. HIDE DEF k
<1>3. \A i \in 1 .. k - 1 : i \in S
  BY <1>2
<1>4. \A i \in S : i \in 1 .. k - 1
  BY <1>2
<1>5. S = 1 .. k - 1
  BY <1>3, <1>4, Zenon
<1>6. Cardinality(1 .. k - 1) = k - 1
  BY <1>2, FS_Interval
<1>. QED
  BY <1>2, <1>5, <1>6

(* What lies between two positions of a sequence.                          *)
LEMMA PartBetween ==
  ASSUME NEW S, NEW seq \in Seq(S), NEW a \in 0 .. Len(seq), NEW b \in a .. Len(seq)
  PROVE  /\ SubSeq(seq, a + 1, b) \in Seq(S)
         /\ Len(SubSeq(seq, a + 1, b)) = b - a
         /\ \A i \in 1 .. b - a : SubSeq(seq, a + 1, b)[i] = seq[a + i]
<1>. DEFINE part == SubSeq(seq, a + 1, b)
<1>1. Len(seq) \in Nat /\ \A i \in 1 .. Len(seq) : seq[i] \in S
  BY ElementOfSeq
<1>2. \A i \in a + 1 .. b : seq[i] \in S
  BY <1>1
<1>3. a + 1 \in Int /\ b \in Int
  BY <1>1
<1>4. /\ part \in Seq(S)
      /\ Len(part) = IF a + 1 <= b THEN b - (a + 1) + 1 ELSE 0
      /\ \A i \in 1 .. b - (a + 1) + 1 : part[i] = seq[a + 1 + i - 1]
  BY <1>2, <1>3, SubSeqProperties
<1>. HIDE DEF part
<1>5. Len(part) = b - a
  BY <1>1, <1>4
<1>6. \A i \in 1 .. b - a : i \in 1 .. b - (a + 1) + 1 /\ a + 1 + i - 1 = a + i
  BY <1>1
<1>7. \A i \in 1 .. b - a : part[i] = seq[a + i]
  BY <1>4, <1>6
<1>. QED
  BY <1>4, <1>5, <1>7 DEF part

(* Mails have dates that are numbers, and so have headers.                 *)
LEMMA MailFields ==
  ASSUME NEW box \in Seq(Mail)
  PROVE  /\ Len(box) \in Nat /\ DOMAIN box = 1 .. Len(box)
         /\ \A i \in 1 .. Len(box) : box[i] \in Mail /\ box[i].date \in Nat
<1>1. /\ Len(box) \in Nat /\ DOMAIN box = 1 .. Len(box)
      /\ \A i \in 1 .. Len(box) : box[i] \in Mail
  BY LenProperties, ElementOfSeq
<1>2. \A m \in Mail : m.date \in Dates
  BY DEF Mail
<1>. QED
  BY <1>1, <1>2, ListingAssumption

(* In a sorted box, the elements not later than a date come first.         *)
LEMMA NotLaterFirst ==
  ASSUME NEW box \in Seq(Mail), Sorted(box), NEW date \in Nat
  PROVE  /\ NotLater(box, date) \in 0 .. Len(box)
         /\ \A i \in 1 .. Len(box) : box[i].date <= date <=> i <= NotLater(box, date)
<1>. DEFINE S == {i \in DOMAIN box : box[i].date <= date}
<1>1. /\ Len(box) \in Nat /\ DOMAIN box = 1 .. Len(box)
      /\ \A i \in 1 .. Len(box) : box[i].date \in Nat
  BY MailFields
<1>2. S \in SUBSET (1 .. Len(box))
  BY <1>1
<1>3. ASSUME NEW i \in 1 .. Len(box), NEW j \in 1 .. Len(box), i <= j, j \in S
      PROVE  i \in S
  <2>1. box[i].date <= box[j].date /\ box[j].date <= date
    BY <1>1, <1>3 DEF Sorted
  <2>2. box[i].date <= date
    BY <1>1, <2>1
  <2>. QED
    BY <1>1, <2>2
<1>4. Cardinality(S) \in 0 .. Len(box) /\ S = 1 .. Cardinality(S)
  BY <1>1, <1>2, <1>3, FirstOnes
<1>5. NotLater(box, date) = Cardinality(S)
  BY DEF NotLater
<1>6. \A i \in 1 .. Len(box) : box[i].date <= date <=> i \in S
  BY <1>1
<1>. HIDE DEF S
<1>. QED
  BY <1>1, <1>4, <1>5, <1>6

(* So do those earlier than it.                                            *)
LEMMA EarlierFirst ==
  ASSUME NEW box \in Seq(Mail), Sorted(box), NEW date \in Nat
  PROVE  /\ Earlier(box, date) \in 0 .. Len(box)
         /\ \A i \in 1 .. Len(box) : box[i].date < date <=> i <= Earlier(box, date)
<1>. DEFINE S == {i \in DOMAIN box : box[i].date < date}
<1>1. /\ Len(box) \in Nat /\ DOMAIN box = 1 .. Len(box)
      /\ \A i \in 1 .. Len(box) : box[i].date \in Nat
  BY MailFields
<1>2. S \in SUBSET (1 .. Len(box))
  BY <1>1
<1>3. ASSUME NEW i \in 1 .. Len(box), NEW j \in 1 .. Len(box), i <= j, j \in S
      PROVE  i \in S
  <2>1. box[i].date <= box[j].date /\ box[j].date < date
    BY <1>1, <1>3 DEF Sorted
  <2>2. box[i].date < date
    BY <1>1, <2>1
  <2>. QED
    BY <1>1, <2>2
<1>4. Cardinality(S) \in 0 .. Len(box) /\ S = 1 .. Cardinality(S)
  BY <1>1, <1>2, <1>3, FirstOnes
<1>5. Earlier(box, date) = Cardinality(S)
  BY DEF Earlier
<1>6. \A i \in 1 .. Len(box) : box[i].date < date <=> i \in S
  BY <1>1
<1>. HIDE DEF S
<1>. QED
  BY <1>1, <1>4, <1>5, <1>6

(* What Insert makes, element by element.                                  *)
LEMMA InsertElements ==
  ASSUME NEW box \in Seq(Mail), Sorted(box), NEW mail \in Mail
  PROVE  LET n == NotLater(box, mail.date)
             now == Insert(box, mail)
         IN  /\ n \in 0 .. Len(box)
             /\ now \in Seq(Mail) /\ Len(now) = Len(box) + 1
             /\ \A i \in 1 .. n : now[i] = box[i]
             /\ now[n + 1] = mail
             /\ \A i \in n + 2 .. Len(box) + 1 : now[i] = box[i - 1]
<1>. DEFINE n == NotLater(box, mail.date)
            first == SubSeq(box, 1, n)
            rest == SubSeq(box, n + 1, Len(box))
<1>1. /\ Len(box) \in Nat /\ \A i \in 1 .. Len(box) : box[i] \in Mail
      /\ <<mail>> \in Seq(Mail) /\ Len(<<mail>>) = 1 /\ <<mail>>[1] = mail
  BY MailFields
<1>2. n \in 0 .. Len(box)
  <2>1. mail.date \in Nat
    BY ListingAssumption DEF Mail
  <2>. QED
    BY <2>1, NotLaterFirst
<1>3. Insert(box, mail) = first \o <<mail>> \o rest
  <2>. DEFINE p == n + 1
  <2>1. p - 1 = n
    BY <1>2
  <2>2. rest = SubSeq(box, p, Len(box)) /\ Insert(box, mail) = InsertAt(box, p, mail)
    BY Zenon DEF Insert
  <2>. HIDE DEF n, p
  <2>3. InsertAt(box, p, mail) = SubSeq(box, 1, p - 1) \o <<mail>> \o SubSeq(box, p, Len(box))
    BY DEF InsertAt
  <2>. QED
    BY <2>1, <2>2, <2>3, Zenon
<1>. HIDE DEF n
<1>4. /\ first \in Seq(Mail) /\ Len(first) = n
      /\ \A i \in 1 .. n : first[i] = box[i]
  <2>1. \A i \in 1 .. n : box[i] \in Mail
    BY <1>1, <1>2
  <2>. QED
    BY <1>1, <1>2, <2>1, SubSeqProperties
<1>5. /\ rest \in Seq(Mail) /\ Len(rest) = Len(box) - n
      /\ \A i \in 1 .. Len(box) - n : rest[i] = box[n + i]
  BY <1>1, <1>2, PartBetween
<1>. HIDE DEF first, rest
<1>. DEFINE front == first \o <<mail>>
            now == front \o rest
<1>6. /\ front \in Seq(Mail) /\ Len(front) = n + 1
      /\ \A i \in 1 .. n + 1 : front[i] = IF i <= n THEN box[i] ELSE mail
  BY <1>1, <1>2, <1>4, ConcatProperties
<1>. HIDE DEF front
<1>7. /\ now \in Seq(Mail) /\ Len(now) = n + 1 + (Len(box) - n)
      /\ \A i \in 1 .. n + 1 + (Len(box) - n) :
           now[i] = IF i <= n + 1 THEN front[i] ELSE rest[i - (n + 1)]
  <2>1. /\ now \in Seq(Mail) /\ Len(now) = Len(front) + Len(rest)
        /\ \A i \in 1 .. Len(front) + Len(rest) :
             now[i] = IF i <= Len(front) THEN front[i] ELSE rest[i - Len(front)]
    BY <1>5, <1>6, ConcatProperties
  <2>. QED
    BY <1>5, <1>6, <2>1
<1>. HIDE DEF now
<1>8. \A i \in 1 .. n : now[i] = box[i]
  BY <1>1, <1>2, <1>6, <1>7
<1>9. now[n + 1] = mail
  BY <1>1, <1>2, <1>6, <1>7
<1>10. ASSUME NEW i \in n + 2 .. Len(box) + 1
       PROVE  now[i] = box[i - 1]
  <2>1. now[i] = rest[i - (n + 1)] /\ i - (n + 1) \in 1 .. Len(box) - n /\ n + (i - (n + 1)) = i - 1
    BY <1>1, <1>2, <1>7
  <2>. QED
    BY <1>5, <2>1
<1>11. Len(now) = Len(box) + 1
  BY <1>1, <1>2, <1>7
<1>12. Insert(box, mail) = now
  BY <1>3, Zenon DEF now, front
<1>. QED
  BY <1>2, <1>7, <1>8, <1>9, <1>10, <1>11, <1>12, Zenon DEF n

(* Insert keeps a box in order.                                            *)
LEMMA InsertKeepsOrder ==
  ASSUME NEW box \in Seq(Mail), Sorted(box), NEW mail \in Mail
  PROVE  Insert(box, mail) \in Seq(Mail) /\ Sorted(Insert(box, mail))
<1>. DEFINE n == NotLater(box, mail.date)
            now == Insert(box, mail)
<1>1. /\ n \in 0 .. Len(box)
      /\ now \in Seq(Mail) /\ Len(now) = Len(box) + 1
      /\ \A i \in 1 .. n : now[i] = box[i]
      /\ now[n + 1] = mail
      /\ \A i \in n + 2 .. Len(box) + 1 : now[i] = box[i - 1]
  BY InsertElements, Zenon
<1>2. /\ Len(box) \in Nat /\ DOMAIN box = 1 .. Len(box)
      /\ \A i \in 1 .. Len(box) : box[i].date \in Nat
  BY MailFields
<1>3. mail.date \in Nat
  BY ListingAssumption DEF Mail
<1>4. \A i \in 1 .. Len(box) : box[i].date <= mail.date <=> i <= n
  BY <1>3, NotLaterFirst, Zenon
<1>5. DOMAIN now = 1 .. Len(box) + 1
  BY <1>1, LenProperties
<1>. HIDE DEF n, now
<1>6. ASSUME NEW i \in 1 .. Len(box) + 1, NEW j \in 1 .. Len(box) + 1, i <= j
      PROVE  now[i].date <= now[j].date
  <2>1. CASE j <= n
    <3>1. now[i] = box[i] /\ now[j] = box[j] /\ i \in 1 .. Len(box) /\ j \in 1 .. Len(box)
      BY <1>1, <1>2, <1>6, <2>1
    <3>. QED
      BY <1>2, <1>6, <3>1 DEF Sorted
  <2>2. CASE j = n + 1
    <3>1. CASE i = j
      BY <1>1, <1>3, <2>2, <3>1
    <3>2. CASE i < j
      <4>1. now[i] = box[i] /\ i \in 1 .. Len(box) /\ i <= n
        BY <1>1, <1>2, <2>2, <3>2
      <4>. QED
        BY <1>1, <1>4, <2>2, <4>1
    <3>. QED
      BY <1>6, <3>1, <3>2
  <2>3. CASE j >= n + 2
    <3>1. now[j] = box[j - 1] /\ j - 1 \in 1 .. Len(box) /\ ~(j - 1 <= n)
      BY <1>1, <1>2, <2>3
    <3>2. box[j - 1].date > mail.date /\ box[j - 1].date \in Nat
      BY <1>2, <1>3, <1>4, <3>1
    <3>3. CASE i <= n
      <4>1. now[i] = box[i] /\ i \in 1 .. Len(box)
        BY <1>1, <1>2, <3>3
      <4>2. box[i].date <= mail.date /\ box[i].date \in Nat
        BY <1>2, <1>4, <3>3, <4>1
      <4>. QED
        BY <1>3, <3>1, <3>2, <4>1, <4>2
    <3>4. CASE i = n + 1
      BY <1>1, <1>3, <3>1, <3>2, <3>4
    <3>5. CASE i >= n + 2
      <4>1. now[i] = box[i - 1] /\ i - 1 \in 1 .. Len(box) /\ i - 1 <= j - 1
        BY <1>1, <1>2, <1>6, <3>5
      <4>. QED
        BY <1>2, <3>1, <4>1 DEF Sorted
    <3>. QED
      BY <1>1, <1>2, <3>3, <3>4, <3>5
  <2>. QED
    BY <1>1, <1>2, <2>1, <2>2, <2>3
<1>7. Sorted(now)
  BY <1>5, <1>6, Zenon DEF Sorted
<1>. QED
  BY <1>1, <1>7 DEF now

(* A mail that is not earlier than those there are goes to the end.        *)
LEMMA InsertAtEnd ==
  ASSUME NEW box \in Seq(Mail), Sorted(box), NEW mail \in Mail,
         \A i \in 1 .. Len(box) : box[i].date <= mail.date
  PROVE  Insert(box, mail) = Append(box, mail)
<1>. DEFINE n == NotLater(box, mail.date)
            now == Insert(box, mail)
<1>1. /\ n \in 0 .. Len(box)
      /\ now \in Seq(Mail) /\ Len(now) = Len(box) + 1
      /\ \A i \in 1 .. n : now[i] = box[i]
      /\ now[n + 1] = mail
  BY InsertElements, Zenon
<1>2. Len(box) \in Nat
  OBVIOUS
<1>3. mail.date \in Nat
  BY ListingAssumption DEF Mail
<1>4. \A i \in 1 .. Len(box) : i <= n
  BY <1>3, NotLaterFirst
<1>. HIDE DEF n, now
<1>5. n = Len(box)
  <2>1. CASE Len(box) = 0
    BY <1>1, <2>1
  <2>2. CASE Len(box) # 0
    <3>1. Len(box) \in 1 .. Len(box)
      BY <1>2, <2>2
    <3>. QED
      BY <1>1, <1>2, <1>4, <3>1
  <2>. QED
    BY <2>1, <2>2
<1>6. /\ Append(box, mail) \in Seq(Mail) /\ Len(Append(box, mail)) = Len(box) + 1
      /\ \A i \in 1 .. Len(box) : Append(box, mail)[i] = box[i]
      /\ Append(box, mail)[Len(box) + 1] = mail
  BY AppendProperties
<1>7. \A i \in 1 .. Len(now) : now[i] = Append(box, mail)[i]
  BY <1>1, <1>2, <1>5, <1>6
<1>8. now = Append(box, mail)
  BY <1>1, <1>6, <1>7, SeqEqual
<1>. QED
  BY <1>8 DEF now

(* A box without some of its elements is in order.                         *)
LEMMA EraseKeepsOrder ==
  ASSUME NEW box \in Seq(Mail), Sorted(box), NEW mail \in Mail
  PROVE  Erase(box, mail) \in Seq(Mail) /\ Sorted(Erase(box, mail))
<1>. DEFINE e == Earlier(box, mail.date)
            n == NotLater(box, mail.date)
            first == SubSeq(box, 1, e)
            rest == SubSeq(box, n + 1, Len(box))
            now == first \o rest
<1>1. /\ Len(box) \in Nat /\ DOMAIN box = 1 .. Len(box)
      /\ \A i \in 1 .. Len(box) : box[i] \in Mail /\ box[i].date \in Nat
  BY MailFields
<1>2. mail.date \in Nat
  BY ListingAssumption DEF Mail
<1>3. n \in 0 .. Len(box) /\ \A i \in 1 .. Len(box) : box[i].date <= mail.date <=> i <= n
  BY <1>2, NotLaterFirst
<1>4. e \in 0 .. Len(box) /\ \A i \in 1 .. Len(box) : box[i].date < mail.date <=> i <= e
  BY <1>2, EarlierFirst
<1>. HIDE DEF n, e
<1>5. e <= n
  <2>1. CASE e = 0
    BY <1>3, <2>1
  <2>2. CASE e # 0
    <3>1. e \in 1 .. Len(box) /\ e <= e
      BY <1>1, <1>4, <2>2
    <3>2. box[e].date < mail.date /\ box[e].date \in Nat
      BY <1>1, <1>4, <3>1
    <3>3. box[e].date <= mail.date
      BY <1>2, <3>2
    <3>. QED
      BY <1>3, <3>1, <3>3
  <2>. QED
    BY <2>1, <2>2
<1>6. /\ first \in Seq(Mail) /\ Len(first) = e
      /\ \A i \in 1 .. e : first[i] = box[i]
  <2>1. \A i \in 1 .. e : box[i] \in Mail
    BY <1>1, <1>4
  <2>. QED
    BY <1>1, <1>4, <2>1, SubSeqProperties
<1>7. /\ rest \in Seq(Mail) /\ Len(rest) = Len(box) - n
      /\ \A i \in 1 .. Len(box) - n : rest[i] = box[n + i]
  <2>1. Len(box) \in n .. Len(box)
    BY <1>1, <1>3
  <2>. QED
    BY <1>3, <2>1, PartBetween, Zenon
<1>. HIDE DEF first, rest
<1>8. /\ now \in Seq(Mail) /\ Len(now) = Len(first) + Len(rest)
      /\ \A i \in 1 .. Len(first) + Len(rest) :
           now[i] = IF i <= Len(first) THEN first[i] ELSE rest[i - Len(first)]
  BY <1>6, <1>7, ConcatProperties
<1>. HIDE DEF now
<1>9. /\ Len(now) = e + (Len(box) - n) /\ DOMAIN now = 1 .. e + (Len(box) - n)
      /\ \A i \in 1 .. e + (Len(box) - n) : now[i] = IF i <= e THEN box[i] ELSE box[n + (i - e)]
  <2>1. Len(now) = e + (Len(box) - n)
    BY <1>6, <1>7, <1>8
  <2>2. DOMAIN now = 1 .. Len(now)
    BY <1>8, LenProperties
  <2>3. ASSUME NEW i \in 1 .. e + (Len(box) - n)
        PROVE  now[i] = IF i <= e THEN box[i] ELSE box[n + (i - e)]
    <3>1. CASE i <= e
      BY <1>4, <1>6, <1>7, <1>8, <3>1
    <3>2. CASE ~(i <= e)
      <4>1. i - e \in 1 .. Len(box) - n
        BY <1>1, <1>3, <1>4, <3>2
      <4>2. now[i] = rest[i - e]
        BY <1>6, <1>7, <1>8, <3>2
      <4>. QED
        BY <1>7, <3>2, <4>1, <4>2
    <3>. QED
      BY <3>1, <3>2
  <2>. QED
    BY <2>1, <2>2, <2>3
<1>10. ASSUME NEW i \in 1 .. e + (Len(box) - n), NEW j \in 1 .. e + (Len(box) - n), i <= j
       PROVE  now[i].date <= now[j].date
  <2>. DEFINE at(k) == IF k <= e THEN k ELSE n + (k - e)
  <2>1. at(i) \in 1 .. Len(box) /\ at(j) \in 1 .. Len(box) /\ at(i) <= at(j)
    BY <1>1, <1>3, <1>4, <1>5, <1>10
  <2>2. now[i] = box[at(i)] /\ now[j] = box[at(j)]
    BY <1>9
  <2>. HIDE DEF at
  <2>. QED
    BY <1>1, <2>1, <2>2 DEF Sorted
<1>11. Sorted(now)
  BY <1>9, <1>10, Zenon DEF Sorted
<1>12. Erase(box, mail) = now
  BY Zenon DEF Erase, now, first, rest, n, e
<1>. QED
  BY <1>8, <1>11, <1>12

-----------------------------------------------------------------------------
(* Headers put into a box one by one.                                      *)

(* f[i] is the box after i of them.                                        *)
Inserts(f, box, headers, n) ==
  /\ f[0] = box
  /\ \A i \in 1 .. n : f[i] = Insert(f[i - 1], headers[i])

(* There are such boxes, for any number of headers.                        *)
LEMMA InsertsExist ==
  ASSUME NEW box, NEW headers, NEW n \in Nat
  PROVE  \E f : Inserts(f, box, headers, n)
<1>. DEFINE P(k) == \E f : Inserts(f, box, headers, k)
            bad == {k \in Nat : ~P(k)}
<1>1. P(0)
  <2>. DEFINE f == [i \in {0} |-> box]
  <2>1. Inserts(f, box, headers, 0)
    BY DEF Inserts
  <2>. QED
    BY <2>1
<1>2. ASSUME bad # {}
      PROVE  FALSE
  <2>. DEFINE k == Min(bad)
  <2>1. k \in bad /\ k \in Nat /\ \A j \in bad : k <= j
    BY <1>2, MinProperty
  <2>. HIDE DEF k
  <2>2. ~P(k)
    BY <2>1
  <2>3. k # 0
    BY <1>1, <2>2
  <2>4. k - 1 \in Nat /\ k - 1 \notin bad
    BY <2>1, <2>3
  <2>5. P(k - 1)
    BY <2>4
  <2>6. PICK f : Inserts(f, box, headers, k - 1)
    BY <2>5
  <2>. DEFINE h == [i \in 0 .. k |-> IF i < k THEN f[i] ELSE Insert(f[k - 1], headers[k])]
  <2>7. /\ h[k] = Insert(f[k - 1], headers[k])
        /\ \A i \in 0 .. k - 1 : h[i] = f[i]
    BY <2>1, <2>3
  <2>. HIDE DEF h
  <2>8. \A i \in 1 .. k : i - 1 \in 0 .. k - 1
    BY <2>1
  <2>9. ASSUME NEW i \in 1 .. k
        PROVE  h[i] = Insert(h[i - 1], headers[i])
    <3>0. h[i - 1] = f[i - 1]
      BY <2>7, <2>8
    <3>1. CASE i = k
      BY <2>7, <3>0, <3>1, Zenon
    <3>2. CASE i # k
      <4>1. i \in 1 .. k - 1 /\ i \in 0 .. k - 1
        BY <2>1, <3>2
      <4>2. f[i] = Insert(f[i - 1], headers[i])
        BY <2>6, <4>1, Zenon DEF Inserts
      <4>. QED
        BY <2>7, <3>0, <4>1, <4>2, Zenon
    <3>. QED
      BY <3>1, <3>2
  <2>10. h[0] = box
    <3>1. 0 \in 0 .. k - 1
      BY <2>1, <2>3
    <3>. QED
      BY <2>6, <2>7, <3>1 DEF Inserts
  <2>11. Inserts(h, box, headers, k)
    BY <2>9, <2>10, Zenon DEF Inserts
  <2>. QED
    BY <2>2, <2>11
<1>. QED
  BY <1>2

(* InsertAll goes through them to the last.                                *)
LEMMA InsertAllInserts ==
  ASSUME NEW box, NEW S, NEW headers \in Seq(S)
  PROVE  \E f : /\ Inserts(f, box, headers, Len(headers))
                /\ InsertAll(box, headers) = f[Len(headers)]
<1>. DEFINE N == Len(headers)
            step(f, i) == IF i = 0 THEN box ELSE Insert(f[i - 1], headers[i])
            a == CHOOSE f : f = [i \in 0 .. N |-> step(f, i)]
<1>0. N \in Nat
  OBVIOUS
<1>. HIDE DEF N
<1>1. PICK f : Inserts(f, box, headers, N)
  BY <1>0, InsertsExist
<1>2. \E h : h = [i \in 0 .. N |-> step(h, i)]
  <2>. DEFINE h == [i \in 0 .. N |-> f[i]]
  <2>1. \A i \in 0 .. N : i # 0 => h[i - 1] = f[i - 1]
    BY <1>0
  <2>2. \A i \in 0 .. N : i # 0 => i \in 1 .. N
    BY <1>0
  <2>3. \A i \in 0 .. N : f[i] = step(h, i)
    <3>. HIDE DEF h
    <3>. QED
      BY <1>1, <2>1, <2>2, Zenon DEF Inserts
  <2>4. h = [i \in 0 .. N |-> step(h, i)]
    BY <2>3, Zenon
  <2>. HIDE DEF h
  <2>. QED
    BY <2>4
<1>3. a = [i \in 0 .. N |-> step(a, i)]
  BY <1>2, Zenon
<1>4. InsertAll(box, headers) = a[N]
  BY Zenon DEF InsertAll, N
<1>. HIDE DEF a
<1>5. \A i \in 0 .. N : a[i] = step(a, i)
  BY <1>3, Zenon
<1>6. \A i \in 1 .. N : i \in 0 .. N /\ i # 0
  BY <1>0
<1>7. Inserts(a, box, headers, N)
  <2>1. 0 \in 0 .. N
    BY <1>0
  <2>. QED
    BY <1>5, <1>6, <2>1, Zenon DEF Inserts
<1>. QED
  BY <1>4, <1>7 DEF N

(* A box that was in order is in order with all of them.                   *)
LEMMA InsertAllKeepsOrder ==
  ASSUME NEW box \in Seq(Mail), Sorted(box), NEW headers \in Seq(Mail)
  PROVE  InsertAll(box, headers) \in Seq(Mail) /\ Sorted(InsertAll(box, headers))
<1>1. PICK f : /\ Inserts(f, box, headers, Len(headers))
               /\ InsertAll(box, headers) = f[Len(headers)]
  BY InsertAllInserts
<1>. DEFINE Good(b) == b \in Seq(Mail) /\ Sorted(b)
            bad == {k \in 0 .. Len(headers) : ~Good(f[k])}
<1>2. Len(headers) \in Nat /\ bad \in SUBSET Nat
  OBVIOUS
<1>3. ASSUME bad # {}
      PROVE  FALSE
  <2>. DEFINE k == Min(bad)
  <2>1. k \in bad /\ k \in Nat /\ \A j \in bad : k <= j
    BY <1>2, <1>3, MinProperty
  <2>. HIDE DEF k
  <2>2. k \in 0 .. Len(headers) /\ ~Good(f[k])
    BY <2>1
  <2>3. k # 0
    BY <1>1, <2>2 DEF Inserts
  <2>4. k - 1 \in 0 .. Len(headers) /\ k - 1 \notin bad /\ k \in 1 .. Len(headers)
    BY <1>2, <2>1, <2>2, <2>3
  <2>5. Good(f[k - 1])
    BY <2>4
  <2>6. headers[k] \in Mail
    BY <2>4, ElementOfSeq
  <2>7. f[k] = Insert(f[k - 1], headers[k])
    BY <1>1, <2>4 DEF Inserts
  <2>. QED
    BY <2>2, <2>5, <2>6, <2>7, InsertKeepsOrder
<1>4. Len(headers) \in 0 .. Len(headers) /\ Len(headers) \notin bad
  BY <1>2, <1>3
<1>. QED
  BY <1>1, <1>4

(* A sequence up to one element further.                                   *)
LEMMA AppendNext ==
  ASSUME NEW S, NEW seq \in Seq(S), NEW m \in 1 .. Len(seq)
  PROVE  Append(SubSeq(seq, 1, m - 1), seq[m]) = SubSeq(seq, 1, m)
<1>. DEFINE before == SubSeq(seq, 1, m - 1)
            upto == SubSeq(seq, 1, m)
<1>1. Len(seq) \in Nat /\ \A i \in 1 .. Len(seq) : seq[i] \in S
  BY ElementOfSeq
<1>2. before \in Seq(S) /\ Len(before) = m - 1 /\ \A i \in 1 .. m - 1 : before[i] = seq[i]
  <2>1. m - 1 \in 0 .. Len(seq) /\ \A i \in 1 .. m - 1 : seq[i] \in S
    BY <1>1
  <2>. QED
    BY <1>1, <2>1, SubSeqProperties
<1>3. upto \in Seq(S) /\ Len(upto) = m /\ \A i \in 1 .. m : upto[i] = seq[i]
  <2>1. \A i \in 1 .. m : seq[i] \in S
    BY <1>1
  <2>. QED
    BY <1>1, <2>1, SubSeqProperties
<1>. HIDE DEF before, upto
<1>4. /\ Append(before, seq[m]) \in Seq(S) /\ Len(Append(before, seq[m])) = Len(before) + 1
      /\ \A i \in 1 .. Len(before) : Append(before, seq[m])[i] = before[i]
      /\ Append(before, seq[m])[Len(before) + 1] = seq[m]
  BY <1>1, <1>2, AppendProperties
<1>5. Len(Append(before, seq[m])) = m
  BY <1>2, <1>4
<1>6. ASSUME NEW i \in 1 .. m
      PROVE  Append(before, seq[m])[i] = upto[i]
  <2>1. CASE i = m
    <3>1. Len(before) + 1 = m
      BY <1>1, <1>2
    <3>. QED
      BY <1>3, <1>4, <2>1, <3>1, Zenon
  <2>2. CASE i # m
    <3>1. i \in 1 .. m - 1 /\ i \in 1 .. Len(before)
      BY <1>1, <1>2, <2>2
    <3>. QED
      BY <1>2, <1>3, <1>4, <3>1, Zenon
  <2>. QED
    BY <2>1, <2>2
<1>7. Append(before, seq[m]) = upto
  BY <1>3, <1>4, <1>5, <1>6, SeqEqual
<1>. QED
  BY <1>7 DEF before, upto

(* The first elements of a sequence.                                       *)
LEMMA FirstPart ==
  ASSUME NEW S, NEW seq \in Seq(S), NEW m \in 0 .. Len(seq)
  PROVE  /\ SubSeq(seq, 1, m) \in Seq(S) /\ Len(SubSeq(seq, 1, m)) = m
         /\ \A i \in 1 .. m : SubSeq(seq, 1, m)[i] = seq[i]
<1>1. Len(seq) \in Nat /\ \A i \in 1 .. m : seq[i] \in S
  BY ElementOfSeq
<1>. QED
  BY <1>1, SubSeqProperties

(* All of them.                                                            *)
LEMMA WholePart ==
  ASSUME NEW S, NEW seq \in Seq(S)
  PROVE  SubSeq(seq, 1, Len(seq)) = seq
<1>1. Len(seq) \in 0 .. Len(seq)
  OBVIOUS
<1>. QED
  BY <1>1, FirstPart, SeqEqual

(* None before the first.                                                  *)
LEMMA NoPart ==
  ASSUME NEW S, NEW seq \in Seq(S)
  PROVE  SubSeq(seq, 1, 0) = <<>>
<1>1. 0 \in 0 .. Len(seq)
  OBVIOUS
<1>. QED
  BY <1>1, FirstPart, EmptySeq

(* Headers in order, none before what the box holds, go to its end.        *)
LEMMA InsertAllAppends ==
  ASSUME NEW box \in Seq(Mail), NEW headers \in Seq(Mail), Sorted(box \o headers)
  PROVE  InsertAll(box, headers) = box \o headers
<1>. DEFINE whole == box \o headers
            n == Len(box)
            N == Len(headers)
<1>1. PICK f : Inserts(f, box, headers, N) /\ InsertAll(box, headers) = f[N]
  BY InsertAllInserts
<1>2. /\ n \in Nat /\ N \in Nat
      /\ whole \in Seq(Mail) /\ Len(whole) = n + N
      /\ \A i \in 1 .. n : whole[i] = box[i]
      /\ \A i \in 1 .. N : whole[n + i] = headers[i]
  BY ConcatProperties
<1>3. /\ DOMAIN whole = 1 .. n + N
      /\ \A i \in 1 .. n + N : whole[i] \in Mail /\ whole[i].date \in Nat
  BY <1>2, MailFields
<1>4. Sorted(whole)
  OBVIOUS
<1>. HIDE DEF whole, n, N
<1>5. SubSeq(whole, 1, n) = box
  <2>1. n \in 0 .. Len(whole)
    BY <1>2
  <2>2. /\ SubSeq(whole, 1, n) \in Seq(Mail) /\ Len(SubSeq(whole, 1, n)) = n
        /\ \A i \in 1 .. n : SubSeq(whole, 1, n)[i] = whole[i]
    BY <1>2, <2>1, FirstPart
  <2>. QED
    BY <1>2, <2>2, SeqEqual DEF n
<1>. DEFINE Good(k) == f[k] = SubSeq(whole, 1, n + k)
            bad == {k \in 0 .. N : ~Good(k)}
<1>6. bad \in SUBSET Nat
  BY <1>2
<1>7. ASSUME bad # {}
      PROVE  FALSE
  <2>. DEFINE k == Min(bad)
  <2>1. k \in bad /\ k \in Nat /\ \A j \in bad : k <= j
    BY <1>6, <1>7, MinProperty
  <2>. HIDE DEF k
  <2>2. k \in 0 .. N /\ ~Good(k)
    BY <2>1
  <2>3. k # 0
    <3>1. ASSUME k = 0
          PROVE  FALSE
      <4>1. f[0] = box
        BY <1>1 DEF Inserts
      <4>2. n + 0 = n
        BY <1>2
      <4>. QED
        BY <1>5, <2>2, <3>1, <4>1, <4>2
    <3>. QED
      BY <3>1
  <2>4. k - 1 \in 0 .. N /\ k - 1 \notin bad /\ k \in 1 .. N
    BY <1>2, <2>1, <2>2, <2>3
  <2>. DEFINE m == n + k
              part == SubSeq(whole, 1, m - 1)
  <2>5. m \in 1 .. Len(whole) /\ n + (k - 1) = m - 1 /\ m - 1 \in 0 .. Len(whole)
    BY <1>2, <2>2, <2>4
  <2>6. f[k - 1] = part
    BY <2>4, <2>5
  <2>7. whole[m] = headers[k] /\ headers[k] \in Mail
    BY <1>2, <2>4, ElementOfSeq DEF N
  <2>. HIDE DEF m
  <2>8. /\ part \in Seq(Mail) /\ Len(part) = m - 1
        /\ \A i \in 1 .. m - 1 : part[i] = whole[i]
    BY <1>2, <2>5, FirstPart
  <2>. HIDE DEF part
  <2>9. DOMAIN part = 1 .. m - 1
    BY <2>8, LenProperties
  <2>10. \A i \in 1 .. m - 1 : i \in DOMAIN whole /\ m \in DOMAIN whole /\ i <= m
    BY <1>2, <1>3, <2>5
  <2>11. Sorted(part)
    <3>1. \A i, j \in 1 .. m - 1 : i <= j => part[i].date <= part[j].date
      BY <1>4, <2>8, <2>10 DEF Sorted
    <3>. QED
      BY <2>9, <3>1, Zenon DEF Sorted
  <2>12. \A i \in 1 .. Len(part) : part[i].date <= whole[m].date
    BY <1>4, <2>8, <2>10 DEF Sorted
  <2>13. Insert(part, whole[m]) = Append(part, whole[m])
    BY <2>7, <2>8, <2>11, <2>12, InsertAtEnd
  <2>14. Append(part, whole[m]) = SubSeq(whole, 1, m)
    BY <1>2, <2>5, AppendNext DEF part
  <2>15. f[k] = Insert(f[k - 1], headers[k])
    BY <1>1, <2>4 DEF Inserts
  <2>. QED
    BY <2>2, <2>6, <2>7, <2>13, <2>14, <2>15 DEF m
<1>8. N \in 0 .. N /\ bad = {}
  BY <1>2, <1>7
<1>9. f[N] = SubSeq(whole, 1, n + N)
  BY <1>8
<1>10. SubSeq(whole, 1, Len(whole)) = whole
  BY <1>2, WholePart
<1>11. f[N] = whole
  BY <1>2, <1>9, <1>10, Zenon
<1>. QED
  BY <1>1, <1>11, Zenon DEF whole

(* A part of a sorted box is sorted.                                       *)
LEMMA PartKeepsOrder ==
  ASSUME NEW box \in Seq(Mail), NEW whole \in Seq(Mail), IsPartOf(box, whole), Sorted(whole)
  PROVE  Sorted(box)
<1>1. PICK rows \in [DOMAIN box -> DOMAIN whole] :
        /\ \A i, j \in DOMAIN box : i < j => rows[i] < rows[j]
        /\ \A i \in DOMAIN box : box[i] = whole[rows[i]]
  BY DEF IsPartOf
<1>2. /\ DOMAIN box = 1 .. Len(box) /\ Len(box) \in Nat
      /\ DOMAIN whole = 1 .. Len(whole) /\ Len(whole) \in Nat
      /\ \A i \in 1 .. Len(whole) : whole[i].date \in Nat
  BY MailFields
<1>3. ASSUME NEW i \in DOMAIN box, NEW j \in DOMAIN box, i <= j
      PROVE  box[i].date <= box[j].date
  <2>1. /\ rows[i] \in DOMAIN whole /\ rows[j] \in DOMAIN whole
        /\ box[i] = whole[rows[i]] /\ box[j] = whole[rows[j]]
    BY <1>1
  <2>2. rows[i] <= rows[j]
    <3>1. CASE i = j
      BY <1>2, <2>1, <3>1
    <3>2. CASE i < j
      BY <1>1, <1>2, <2>1, <3>2
    <3>. QED
      BY <1>2, <1>3, <3>1, <3>2
  <2>. QED
    BY <2>1, <2>2 DEF Sorted
<1>. QED
  BY <1>3, Zenon DEF Sorted

(* A part of what comes first in a box, with some of what comes next, is   *)
(* a part of the box up to there.                                          *)
LEMMA PartGrows ==
  ASSUME NEW box \in Seq(Mail), NEW list \in Seq(Mail),
         NEW a \in 0 .. Len(box), NEW b \in a .. Len(box), NEW c \in b .. Len(box),
         IsPartOf(list, SubSeq(box, 1, a))
  PROVE  IsPartOf(list \o SubSeq(box, a + 1, b), SubSeq(box, 1, c))
<1>. DEFINE first == SubSeq(box, 1, a)
            next == SubSeq(box, a + 1, b)
            upto == SubSeq(box, 1, c)
            now == list \o next
<1>1. Len(box) \in Nat /\ Len(list) \in Nat /\ DOMAIN list = 1 .. Len(list)
  BY MailFields
<1>2. /\ first \in Seq(Mail) /\ Len(first) = a
      /\ \A i \in 1 .. a : first[i] = box[i]
  BY FirstPart
<1>3. /\ next \in Seq(Mail) /\ Len(next) = b - a
      /\ \A i \in 1 .. b - a : next[i] = box[a + i]
  BY PartBetween
<1>4. /\ upto \in Seq(Mail) /\ Len(upto) = c
      /\ \A i \in 1 .. c : upto[i] = box[i]
  <2>1. c \in 0 .. Len(box)
    BY <1>1
  <2>. QED
    BY <2>1, FirstPart
<1>. HIDE DEF first, next, upto
<1>5. /\ now \in Seq(Mail) /\ Len(now) = Len(list) + (b - a)
      /\ \A i \in 1 .. Len(list) : now[i] = list[i]
      /\ \A i \in 1 .. b - a : now[Len(list) + i] = next[i]
  <2>1. /\ now \in Seq(Mail) /\ Len(now) = Len(list) + Len(next)
        /\ \A i \in 1 .. Len(list) + Len(next) :
             now[i] = IF i <= Len(list) THEN list[i] ELSE next[i - Len(list)]
    BY <1>3, ConcatProperties
  <2>. HIDE DEF now
  <2>2. \A i \in 1 .. b - a : /\ Len(list) + i \in 1 .. Len(list) + Len(next)
                             /\ ~(Len(list) + i <= Len(list))
                             /\ Len(list) + i - Len(list) = i
    BY <1>1, <1>3
  <2>3. \A i \in 1 .. b - a : now[Len(list) + i] = next[i]
    BY <2>1, <2>2
  <2>4. \A i \in 1 .. Len(list) : i \in 1 .. Len(list) + Len(next) /\ i <= Len(list)
    BY <1>1, <1>3
  <2>5. \A i \in 1 .. Len(list) : now[i] = list[i]
    BY <2>1, <2>4
  <2>. QED
    BY <1>3, <2>1, <2>3, <2>5, Zenon
<1>. HIDE DEF now
<1>6. /\ DOMAIN now = 1 .. Len(list) + (b - a)
      /\ DOMAIN first = 1 .. a
      /\ DOMAIN upto = 1 .. c
  BY <1>2, <1>4, <1>5, LenProperties
<1>7. PICK rows \in [DOMAIN list -> DOMAIN first] :
        /\ \A i, j \in DOMAIN list : i < j => rows[i] < rows[j]
        /\ \A i \in DOMAIN list : list[i] = first[rows[i]]
  BY DEF IsPartOf, first
<1>8. \A i \in 1 .. Len(list) : rows[i] \in 1 .. a
  BY <1>1, <1>6, <1>7
<1>. DEFINE at == [i \in DOMAIN now |-> IF i <= Len(list) THEN rows[i] ELSE a + (i - Len(list))]
<1>9. \A i \in DOMAIN now : at[i] \in DOMAIN upto
  BY <1>1, <1>6, <1>8
<1>10. \A i, j \in DOMAIN now : i < j => at[i] < at[j]
  BY <1>1, <1>6, <1>7, <1>8
<1>11. ASSUME NEW i \in DOMAIN now
       PROVE  now[i] = upto[at[i]]
  <2>1. CASE i <= Len(list)
    <3>1. i \in 1 .. Len(list) /\ at[i] = rows[i] /\ rows[i] \in 1 .. a /\ rows[i] \in 1 .. c
      BY <1>1, <1>6, <1>8, <1>11, <2>1
    <3>2. now[i] = list[i] /\ list[i] = first[rows[i]]
      BY <1>1, <1>5, <1>7, <3>1
    <3>. QED
      BY <1>2, <1>4, <3>1, <3>2, Zenon
  <2>2. CASE ~(i <= Len(list))
    <3>. DEFINE k == i - Len(list)
    <3>1. /\ k \in 1 .. b - a /\ at[i] = a + k /\ a + k \in 1 .. c /\ i = Len(list) + k
      BY <1>1, <1>6, <1>11, <2>2
    <3>. HIDE DEF k
    <3>2. now[i] = next[k] /\ next[k] = box[a + k]
      BY <1>3, <1>5, <3>1
    <3>. QED
      BY <1>4, <3>1, <3>2, Zenon
  <2>. QED
    BY <2>1, <2>2
<1>12. at \in [DOMAIN now -> DOMAIN upto]
  BY <1>9
<1>. HIDE DEF at
<1>13. IsPartOf(now, upto)
  BY <1>10, <1>11, <1>12, Zenon DEF IsPartOf
<1>. QED
  BY <1>13, Zenon DEF now, next, upto

(* Nothing is a part of anything.                                          *)
LEMMA NothingIsPart ==
  ASSUME NEW box
  PROVE  IsPartOf(<<>>, box)
<1>. DEFINE rows == [i \in {} |-> 0]
<1>1. DOMAIN <<>> = {}
  BY EmptySeq
<1>2. rows \in [DOMAIN <<>> -> DOMAIN box]
  BY <1>1
<1>3. \A i, j \in DOMAIN <<>> : i < j => rows[i] < rows[j]
  BY <1>1
<1>4. \A i \in DOMAIN <<>> : <<>>[i] = box[rows[i]]
  BY <1>1
<1>. HIDE DEF rows
<1>. QED
  BY <1>2, <1>3, <1>4, Zenon DEF IsPartOf

-----------------------------------------------------------------------------
(* The messages of a listing.                                              *)

Past(box, i) == IF Copied(i) < Len(box) THEN Copied(i) ELSE Len(box)

(* The headers of message i, and where it ends.                            *)
Until(box, i) == IF Copied(i) - 1 < Len(box) THEN Copied(i) - 1 ELSE Len(box)

(* Messages follow each other, with one header between two of them that    *)
(* none has.                                                               *)
LEMMA CopiedCounts ==
  ASSUME NEW box \in Seq(Mail)
  PROVE  LET n == Len(box) \div (INBOX_LIMIT + 1) + 1
         IN  /\ n \in Nat \ {0}
             /\ Len(box) < Copied(n)
             /\ Copied(0) = 0
             /\ \A i \in 0 .. n : Copied(i) \in Nat
             /\ \A i \in 1 .. n : /\ Copied(i - 1) \in 0 .. Len(box)
                                  /\ Copied(i) = Copied(i - 1) + (INBOX_LIMIT + 1)
<1>. DEFINE K == INBOX_LIMIT + 1
            q == Len(box) \div K
            n == q + 1
<1>1. Len(box) \in Nat /\ K \in Nat /\ K > 0
  BY ListingAssumption
<1>. HIDE DEF K
<1>2. q \in Nat /\ K * q <= Len(box) /\ Len(box) < K * (q + 1)
  BY <1>1, Z3
<1>. HIDE DEF q
<1>3. \A i \in Nat : Copied(i) = i * K
  BY DEF Copied, K
<1>4. \A i \in Nat : i * K \in Nat /\ i * K = K * i
  BY <1>1
<1>5. \A i \in 1 .. q + 1 : i - 1 \in Nat /\ i - 1 <= q /\ i = (i - 1) + 1
  BY <1>2
<1>6. \A j \in Nat : (j + 1) * K = j * K + K
  BY <1>1
<1>7. \A j \in Nat : j <= q => j * K <= q * K
  BY <1>1, <1>2
<1>8. n \in Nat \ {0} /\ Len(box) < Copied(n) /\ Copied(0) = 0
  <2>1. Copied(n) = K * (q + 1)
    BY <1>2, <1>3, <1>4
  <2>2. Copied(0) = 0
    BY <1>1, <1>3
  <2>. QED
    BY <1>2, <2>1, <2>2
<1>9. \A i \in 0 .. n : Copied(i) \in Nat
  <2>1. \A i \in 0 .. n : i \in Nat
    BY <1>2
  <2>. QED
    BY <1>3, <1>4, <2>1, Zenon
<1>10. ASSUME NEW i \in 1 .. n
       PROVE  /\ Copied(i - 1) \in 0 .. Len(box)
              /\ Copied(i) = Copied(i - 1) + K
  <2>. DEFINE j == i - 1
  <2>1. j \in Nat /\ j <= q /\ i = j + 1 /\ i \in Nat
    BY <1>2
  <2>. HIDE DEF j
  <2>2. Copied(i) = i * K /\ Copied(j) = j * K /\ j * K \in Nat
    BY <1>3, <1>4, <2>1
  <2>3. j * K <= q * K /\ q * K <= Len(box) /\ i * K = j * K + K
    BY <1>2, <1>4, <1>6, <1>7, <2>1
  <2>4. q * K \in Nat
    BY <1>2, <1>4
  <2>5. Copied(j) \in 0 .. Len(box) /\ Copied(i) = Copied(j) + K
    BY <1>1, <2>2, <2>3, <2>4
  <2>. QED
    BY <2>5 DEF j
<1>. QED
  BY <1>8, <1>9, <1>10, Zenon DEF q, K

(* What a listing consists of.                                             *)
LEMMA ListingElements ==
  ASSUME NEW box \in Seq(Mail)
  PROVE  LET n == Len(Chunks(box))
         IN  /\ n \in Nat \ {0}
             /\ Listing(box) \in Seq(Answer) /\ Len(Listing(box)) = n + 1
             /\ \A i \in 1 .. n :
                  Listing(box)[i] = Chunk(SubSeq(box, Copied(i - 1) + 1, Until(box, i)))
             /\ Listing(box)[n + 1] = Ack
             /\ \A i \in 1 .. n : /\ Past(box, i - 1) = Copied(i - 1)
                                  /\ Copied(i - 1) \in 0 .. Len(box)
                                  /\ Until(box, i) \in Copied(i - 1) .. Len(box)
                                  /\ Past(box, i) \in Until(box, i) .. Len(box)
             /\ Past(box, 0) = 0 /\ Past(box, n) = Len(box)
             /\ Len(box) <= INBOX_LIMIT => n = 1 /\ Until(box, 1) = Len(box)
<1>. DEFINE n == Len(box) \div (INBOX_LIMIT + 1) + 1
            message(i) == Chunk(SubSeq(box, Copied(i - 1) + 1, Until(box, i)))
<1>1. /\ n \in Nat \ {0}
      /\ Len(box) < Copied(n)
      /\ Copied(0) = 0
      /\ \A i \in 0 .. n : Copied(i) \in Nat
      /\ \A i \in 1 .. n : /\ Copied(i - 1) \in 0 .. Len(box)
                           /\ Copied(i) = Copied(i - 1) + (INBOX_LIMIT + 1)
  BY CopiedCounts, Zenon
<1>2. Chunks(box) = [i \in 1 .. n |-> message(i)]
  BY Zenon DEF Chunks, Until
<1>. HIDE DEF n
<1>3. Len(box) \in Nat /\ INBOX_LIMIT \in Nat
  BY ListingAssumption
<1>4. ASSUME NEW i \in 1 .. n
      PROVE  /\ Past(box, i - 1) = Copied(i - 1)
             /\ Copied(i - 1) \in 0 .. Len(box)
             /\ Until(box, i) \in Copied(i - 1) .. Len(box)
             /\ Past(box, i) \in Until(box, i) .. Len(box)
  <2>. DEFINE a == Copied(i - 1)
              b == Copied(i)
  <2>1. a \in 0 .. Len(box) /\ b = a + (INBOX_LIMIT + 1)
    BY <1>1
  <2>2. /\ Past(box, i - 1) = IF a < Len(box) THEN a ELSE Len(box)
        /\ Until(box, i) = IF b - 1 < Len(box) THEN b - 1 ELSE Len(box)
        /\ Past(box, i) = IF b < Len(box) THEN b ELSE Len(box)
    BY Zenon DEF Past, Until
  <2>. HIDE DEF a, b
  <2>3. /\ Past(box, i - 1) = a
        /\ Until(box, i) \in a .. Len(box)
        /\ Past(box, i) \in Until(box, i) .. Len(box)
    BY <1>3, <2>1, <2>2
  <2>. QED
    BY <2>1, <2>3 DEF a
<1>5. ASSUME NEW i \in 1 .. n
      PROVE  message(i) \in Answer
  <2>1. SubSeq(box, Copied(i - 1) + 1, Until(box, i)) \in Seq(Mail)
    BY <1>4, PartBetween
  <2>. QED
    BY <2>1 DEF Chunk, Answer
<1>. HIDE DEF message
<1>6. Chunks(box) \in Seq(Answer) /\ Len(Chunks(box)) = n
  <2>1. Chunks(box) \in [1 .. n -> Answer]
    BY <1>2, <1>5
  <2>2. n \in Nat
    BY <1>1
  <2>. QED
    BY <2>1, <2>2
<1>7. \A i \in 1 .. n : Chunks(box)[i] = message(i)
  BY <1>2
<1>8. <<Ack>> \in Seq(Answer) /\ Len(<<Ack>>) = 1 /\ <<Ack>>[1] = Ack
  BY DEF Ack, Answer
<1>9. /\ Listing(box) \in Seq(Answer) /\ Len(Listing(box)) = n + 1
      /\ \A i \in 1 .. n + 1 :
           Listing(box)[i] = IF i <= n THEN Chunks(box)[i] ELSE <<Ack>>[i - n]
  <2>1. Listing(box) = Chunks(box) \o <<Ack>>
    BY DEF Listing
  <2>. QED
    BY <1>6, <1>8, <2>1, ConcatProperties
<1>10. \A i \in 1 .. n : Listing(box)[i] = message(i)
  <2>1. \A i \in 1 .. n : i \in 1 .. n + 1 /\ i <= n
    BY <1>1
  <2>. QED
    BY <1>7, <1>9, <2>1
<1>11. Listing(box)[n + 1] = Ack
  BY <1>1, <1>8, <1>9
<1>12. Past(box, 0) = 0 /\ Past(box, n) = Len(box)
  <2>1. Copied(0) = 0 /\ Copied(n) \in Nat /\ Len(box) < Copied(n)
    BY <1>1
  <2>. QED
    BY <1>3, <2>1 DEF Past
<1>13. ASSUME Len(box) <= INBOX_LIMIT
       PROVE  n = 1 /\ Until(box, 1) = Len(box)
  <2>1. Copied(1) = INBOX_LIMIT + 1
    BY <1>3 DEF Copied
  <2>2. n = 1
    <3>1. ASSUME n # 1
          PROVE  FALSE
      <4>1. 2 \in 1 .. n /\ 2 - 1 = 1
        BY <1>1, <3>1
      <4>2. Copied(1) \in 0 .. Len(box)
        BY <1>1, <4>1
      <4>. QED
        BY <1>3, <1>13, <2>1, <4>2
    <3>. QED
      BY <3>1
  <2>3. Until(box, 1) = Len(box)
    BY <1>3, <1>13, <2>1 DEF Until
  <2>. QED
    BY <2>2, <2>3
<1>14. \A i \in 1 .. n :
         Listing(box)[i] = Chunk(SubSeq(box, Copied(i - 1) + 1, Until(box, i)))
  BY <1>10 DEF message
<1>. QED
  BY <1>1, <1>4, <1>6, <1>9, <1>11, <1>12, <1>13, <1>14

(* What follows the first messages.                                        *)
LEMMA RestOf ==
  ASSUME NEW S, NEW seq \in Seq(S), NEW i \in Nat, i < Len(seq)
  PROVE  LET rest == SubSeq(seq, i + 1, Len(seq))
         IN  rest # <<>> /\ Head(rest) = seq[i + 1] /\ Tail(rest) = SubSeq(seq, i + 2, Len(seq))
<1>. DEFINE rest == SubSeq(seq, i + 1, Len(seq))
            next == SubSeq(seq, i + 1 + 1, Len(seq))
<1>1. Len(seq) \in Nat /\ i \in 0 .. Len(seq) /\ i + 1 \in 0 .. Len(seq)
  OBVIOUS
<1>2. /\ rest \in Seq(S) /\ Len(rest) = Len(seq) - i
      /\ \A j \in 1 .. Len(seq) - i : rest[j] = seq[i + j]
  <2>1. Len(seq) \in i .. Len(seq)
    BY <1>1
  <2>. QED
    BY <1>1, <2>1, PartBetween, Zenon
<1>3. /\ next \in Seq(S) /\ Len(next) = Len(seq) - (i + 1)
      /\ \A j \in 1 .. Len(seq) - (i + 1) : next[j] = seq[i + 1 + j]
  <2>1. Len(seq) \in i + 1 .. Len(seq)
    BY <1>1
  <2>. QED
    BY <1>1, <2>1, PartBetween, Zenon
<1>. HIDE DEF rest, next
<1>4. rest # <<>>
  BY <1>1, <1>2, EmptySeq
<1>5. /\ Head(rest) = rest[1]
      /\ Tail(rest) \in Seq(S) /\ Len(Tail(rest)) = Len(rest) - 1
      /\ \A j \in 1 .. Len(rest) - 1 : Tail(rest)[j] = rest[j + 1]
  BY <1>2, <1>4, HeadTailProperties
<1>6. Head(rest) = seq[i + 1]
  BY <1>1, <1>2, <1>5
<1>7. Len(Tail(rest)) = Len(next) /\ \A j \in 1 .. Len(next) : Tail(rest)[j] = next[j]
  <2>1. Len(Tail(rest)) = Len(next)
    BY <1>1, <1>2, <1>3, <1>5
  <2>2. ASSUME NEW j \in 1 .. Len(next)
        PROVE  Tail(rest)[j] = next[j]
    <3>1. /\ j \in 1 .. Len(rest) - 1 /\ j + 1 \in 1 .. Len(seq) - i
          /\ j \in 1 .. Len(seq) - (i + 1) /\ i + (j + 1) = i + 1 + j
      BY <1>1, <1>2, <1>3
    <3>2. Tail(rest)[j] = rest[j + 1] /\ rest[j + 1] = seq[i + (j + 1)]
      BY <1>2, <1>5, <3>1
    <3>3. next[j] = seq[i + 1 + j]
      BY <1>3, <3>1
    <3>. QED
      BY <3>1, <3>2, <3>3
  <2>. QED
    BY <2>1, <2>2
<1>8. Tail(rest) = next
  BY <1>3, <1>5, <1>7, SeqEqual
<1>9. i + 1 + 1 = i + 2
  OBVIOUS
<1>. QED
  BY <1>4, <1>6, <1>8, <1>9, Zenon DEF rest, next

-----------------------------------------------------------------------------
(* The invariant without what is on its way, variable by variable.         *)

Client ==
  [inbox : Seq(Mail), listed : BOOLEAN, blocking : BOOLEAN, printInbox : BOOLEAN,
   screen : Seq(Mail)]

InOrder(box) == box \in Seq(Mail) /\ Sorted(box)

ClientShows(k) ==
  /\ k \in Client /\ Sorted(k.inbox)
  /\ k.printInbox => k.blocking
  /\ k.printInbox \/ k.inbox \in {<<>>, k.screen}

AnswersInOrder(answers) ==
  /\ answers \in Seq(Answer)
  /\ \A i \in DOMAIN answers : answers[i].type = "INBOX" => Sorted(answers[i].inbox)

Boxes ==
  /\ up \in BOOLEAN /\ outOfStep \in BOOLEAN
  /\ sent \in 0 .. MaxMails /\ requests \in 0 .. MaxRequests
  /\ InOrder(mails) /\ \A box \in reported : InOrder(box)
  /\ to_server \in Seq(Request)
  /\ ClientShows(client)
  /\ AnswersInOrder(to_client)

(* It is the same.                                                         *)
LEMMA BoxesAreParts ==
  Boxes <=> TypeOK /\ BoxesSorted /\ ScreenShown
<1>1. \A box : InOrder(box) <=> box \in Seq(Mail) /\ Sorted(box)
  BY Zenon DEF InOrder
<1>2. (\A box \in reported : InOrder(box)) <=>
        reported \in SUBSET Seq(Mail) /\ \A box \in reported : Sorted(box)
  BY <1>1
<1>. QED
  BY <1>1, <1>2, Zenon
     DEF Boxes, TypeOK, BoxesSorted, ScreenShown, Client, ClientShows, AnswersInOrder

(* What is found is mail.                                                  *)
LEMMA FoundIsMail ==
  ASSUME Boxes, NEW id, NEW mail \in Find(id)
  PROVE  mail \in Mail /\ mail.id = id
<1>1. mails \in Seq(Mail)
  BY DEF Boxes, InOrder
<1>2. PICK i \in DOMAIN mails : mail = mails[i]
  BY DEF Find, Range
<1>3. i \in 1 .. Len(mails)
  BY <1>1, <1>2, LenProperties
<1>4. mail \in Mail
  BY <1>1, <1>2, <1>3, ElementOfSeq
<1>. QED
  BY <1>4 DEF Find

(* A read and a delete keep the inbox in order.                            *)
LEMMA AfterKeepsOrder ==
  ASSUME Boxes, NEW mail \in Mail
  PROVE  InOrder(AfterRead(mail)) /\ InOrder(AfterDelete(mail))
<1>1. mails \in Seq(Mail) /\ Sorted(mails)
  BY DEF Boxes, InOrder
<1>2. [mail EXCEPT !.read = TRUE] \in Mail
  BY DEF Mail
<1>3. Erase(mails, mail) \in Seq(Mail) /\ Sorted(Erase(mails, mail))
  BY <1>1, EraseKeepsOrder
<1>4. /\ Insert(Erase(mails, mail), [mail EXCEPT !.read = TRUE]) \in Seq(Mail)
      /\ Sorted(Insert(Erase(mails, mail), [mail EXCEPT !.read = TRUE]))
  BY <1>2, <1>3, InsertKeepsOrder, Zenon
<1>. QED
  BY <1>3, <1>4, Zenon DEF InOrder, AfterRead, AfterDelete

LEMMA MailArrivesInOrder ==
  ASSUME Boxes, NEW date \in Dates, MailArrives(date)
  PROVE  Boxes'
<1>. DEFINE mail == [id |-> sent + 1, date |-> date, read |-> FALSE]
<1>1. sent + 1 \in 0 .. MaxMails /\ sent + 1 \in Ids
  BY ListingAssumption DEF Boxes, MailArrives, Ids
<1>2. mail \in Mail
  BY <1>1 DEF Mail
<1>3. mails \in Seq(Mail) /\ Sorted(mails)
  BY DEF Boxes, InOrder
<1>4. mails' = Insert(mails, mail)
  BY DEF MailArrives
<1>. HIDE DEF mail
<1>5. InOrder(mails')
  BY <1>2, <1>3, <1>4, InsertKeepsOrder DEF InOrder
<1>. QED
  BY <1>1, <1>5, Zenon DEF Boxes, MailArrives

LEMMA OtherClientInOrder ==
  ASSUME Boxes, NEW id \in Ids, OtherClient(id)
  PROVE  Boxes'
<1>1. PICK mail \in Find(id) : mails' \in {AfterRead(mail), AfterDelete(mail)}
  BY DEF OtherClient
<1>2. InOrder(mails')
  BY <1>1, FoundIsMail, AfterKeepsOrder
<1>. QED
  BY <1>2, Zenon DEF Boxes, OtherClient

(* A request is counted and on its way.                                    *)
LEMMA AskIsCounted ==
  ASSUME Boxes, NEW request \in Request, Ask(request)
  PROVE  /\ requests' \in 0 .. MaxRequests /\ to_server' \in Seq(Request)
         /\ outOfStep' \in BOOLEAN
<1>1. requests' \in 0 .. MaxRequests
  BY ListingAssumption DEF Boxes, Ask
<1>2. to_server \in Seq(Request) /\ to_server' = Append(to_server, request)
  BY DEF Boxes, Ask
<1>3. to_server' \in Seq(Request)
  BY <1>2, AppendProperties
<1>4. outOfStep' \in BOOLEAN
  BY Zenon DEF Ask
<1>. QED
  BY <1>1, <1>3, <1>4

LEMMA GetInboxInOrder ==
  ASSUME Boxes, GetInbox
  PROVE  Boxes'
<1>1. [type |-> "SHOW_INBOX"] \in Request
  BY DEF Request
<1>2. Ask([type |-> "SHOW_INBOX"])
  BY DEF GetInbox
<1>3. /\ requests' \in 0 .. MaxRequests /\ to_server' \in Seq(Request)
      /\ outOfStep' \in BOOLEAN
  BY <1>1, <1>2, AskIsCounted
<1>5. client \in Client /\ (client.printInbox => client.blocking)
  BY DEF Boxes, ClientShows
<1>6. client' = [client EXCEPT !.inbox = <<>>, !.blocking = TRUE, !.listed = TRUE]
  BY <1>5 DEF GetInbox, InboxCleared, Client
<1>7. /\ client' \in Client /\ client'.inbox = <<>>
      /\ client'.blocking
  <2>1. <<>> \in Seq(Mail)
    BY EmptySeq
  <2>. QED
    BY <1>5, <1>6, <2>1 DEF Client
<1>8. Sorted(<<>>)
  <2>1. DOMAIN <<>> = {}
    BY EmptySeq
  <2>. QED
    BY <2>1 DEF Sorted
<1>9. ClientShows(client')
  BY <1>7, <1>8 DEF ClientShows
<1>. QED
  BY <1>2, <1>3, <1>9, Zenon DEF Boxes, Ask

(* A read or a delete.                                                     *)
LEMMA PickInOrder ==
  ASSUME Boxes, NEW row, row \in DOMAIN client.inbox,
         NEW type \in {"READ", "DELETE"},
         Ask([type |-> type, id |-> FindIdUsingIndex(client.inbox, row)]),
         client' = [client EXCEPT !.blocking = TRUE]
  PROVE  Boxes'
<1>. DEFINE request == [type |-> type, id |-> FindIdUsingIndex(client.inbox, row)]
<1>1. client \in Client /\ Sorted(client.inbox)
  BY DEF Boxes, ClientShows
<1>2. client.inbox \in Seq(Mail)
  BY <1>1 DEF Client
<1>3. row \in 1 .. Len(client.inbox)
  BY <1>2, LenProperties
<1>4. client.inbox[row] \in Mail
  BY <1>2, <1>3, ElementOfSeq
<1>5. request \in Request
  BY <1>4 DEF Request, FindIdUsingIndex, Mail
<1>. HIDE DEF request
<1>6. Ask(request)
  BY DEF request
<1>7. /\ requests' \in 0 .. MaxRequests /\ to_server' \in Seq(Request)
      /\ outOfStep' \in BOOLEAN
  BY <1>5, <1>6, AskIsCounted
<1>8. /\ client' \in Client /\ client'.inbox = client.inbox /\ client'.screen = client.screen
      /\ client'.blocking /\ client'.printInbox = client.printInbox
  BY <1>1 DEF Client
<1>9. ClientShows(client')
  BY <1>1, <1>8 DEF Boxes, ClientShows
<1>. QED
  BY <1>6, <1>7, <1>9, Zenon DEF Boxes, Ask

(* The next message and those behind it.                                   *)
LEMMA NextAnswer ==
  ASSUME AnswersInOrder(to_client), to_client # <<>>
  PROVE  /\ Head(to_client) \in Answer
         /\ Head(to_client).type = "INBOX" => InOrder(Head(to_client).inbox)
         /\ AnswersInOrder(Tail(to_client))
<1>1. /\ to_client \in Seq(Answer)
      /\ \A i \in DOMAIN to_client : to_client[i].type = "INBOX" => Sorted(to_client[i].inbox)
  BY DEF AnswersInOrder
<1>2. Len(to_client) \in Nat \ {0} /\ DOMAIN to_client = 1 .. Len(to_client)
  BY <1>1, EmptySeq, LenProperties
<1>3. /\ Head(to_client) = to_client[1]
      /\ Tail(to_client) \in Seq(Answer) /\ Len(Tail(to_client)) = Len(to_client) - 1
      /\ \A i \in 1 .. Len(to_client) - 1 : Tail(to_client)[i] = to_client[i + 1]
  BY <1>1, HeadTailProperties
<1>4. DOMAIN Tail(to_client) = 1 .. Len(to_client) - 1
  BY <1>3, LenProperties
<1>5. 1 \in DOMAIN to_client /\ 1 \in 1 .. Len(to_client)
  BY <1>2
<1>6. to_client[1] \in Answer
  BY <1>1, <1>5, ElementOfSeq
<1>7. to_client[1].type = "INBOX" => to_client[1].inbox \in Seq(Mail)
  BY <1>6 DEF Answer
<1>8. \A i \in 1 .. Len(to_client) - 1 : i + 1 \in DOMAIN to_client
  BY <1>2
<1>9. \A i \in DOMAIN Tail(to_client) :
        Tail(to_client)[i].type = "INBOX" => Sorted(Tail(to_client)[i].inbox)
  BY <1>1, <1>3, <1>4, <1>8, Zenon
<1>. QED
  BY <1>1, <1>3, <1>5, <1>6, <1>7, <1>9, Zenon DEF AnswersInOrder, InOrder

(* Answers behind answers.                                                 *)
LEMMA MoreAnswers ==
  ASSUME NEW s, AnswersInOrder(s), NEW t, AnswersInOrder(t)
  PROVE  AnswersInOrder(s \o t)
<1>1. /\ s \in Seq(Answer) /\ t \in Seq(Answer)
      /\ Len(s) \in Nat /\ DOMAIN s = 1 .. Len(s)
      /\ Len(t) \in Nat /\ DOMAIN t = 1 .. Len(t)
  BY LenProperties DEF AnswersInOrder
<1>2. /\ s \o t \in Seq(Answer) /\ Len(s \o t) = Len(s) + Len(t)
      /\ \A i \in 1 .. Len(s) + Len(t) :
           (s \o t)[i] = IF i <= Len(s) THEN s[i] ELSE t[i - Len(s)]
  BY <1>1, ConcatProperties
<1>3. DOMAIN (s \o t) = 1 .. Len(s) + Len(t)
  BY <1>2, LenProperties
<1>4. ASSUME NEW i \in 1 .. Len(s) + Len(t), (s \o t)[i].type = "INBOX"
      PROVE  Sorted((s \o t)[i].inbox)
  <2>1. CASE i <= Len(s)
    <3>1. i \in DOMAIN s /\ (s \o t)[i] = s[i]
      BY <1>1, <1>2, <2>1
    <3>. QED
      BY <1>4, <3>1, Zenon DEF AnswersInOrder
  <2>2. CASE ~(i <= Len(s))
    <3>1. i - Len(s) \in DOMAIN t /\ (s \o t)[i] = t[i - Len(s)]
      BY <1>1, <1>2, <2>2
    <3>. QED
      BY <1>4, <3>1, Zenon DEF AnswersInOrder
  <2>. QED
    BY <2>1, <2>2
<1>. QED
  BY <1>2, <1>3, <1>4, Zenon DEF AnswersInOrder

(* Answers without a listing.                                              *)
LEMMA ShortAnswers ==
  /\ AnswersInOrder(<<Ack>>) /\ AnswersInOrder(<<Ack, Ack>>)
  /\ \A id \in Ids : AnswersInOrder(<<[type |-> "RESPONSE", id |-> id], Ack>>)
<1>1. Ack \in Answer /\ Ack.type # "INBOX"
  BY DEF Ack, Answer
<1>2. \A id \in Ids : /\ [type |-> "RESPONSE", id |-> id] \in Answer
                      /\ [type |-> "RESPONSE", id |-> id].type # "INBOX"
  BY DEF Answer
<1>. HIDE DEF Ack
<1>3. AnswersInOrder(<<Ack>>)
  BY <1>1 DEF AnswersInOrder
<1>4. AnswersInOrder(<<Ack, Ack>>)
  BY <1>1 DEF AnswersInOrder
<1>5. ASSUME NEW id \in Ids
      PROVE  AnswersInOrder(<<[type |-> "RESPONSE", id |-> id], Ack>>)
  <2>. DEFINE r == [type |-> "RESPONSE", id |-> id]
  <2>1. r \in Answer /\ r.type # "INBOX"
    BY <1>2
  <2>. HIDE DEF r
  <2>2. AnswersInOrder(<<r, Ack>>)
    BY <1>1, <2>1 DEF AnswersInOrder
  <2>. QED
    BY <2>2 DEF r
<1>. QED
  BY <1>3, <1>4, <1>5

(* A listing of a box in order.                                            *)
LEMMA ListingInOrder ==
  ASSUME NEW box, InOrder(box)
  PROVE  AnswersInOrder(Listing(box))
<1>1. box \in Seq(Mail) /\ Sorted(box)
  BY DEF InOrder
<1>. DEFINE n == Len(Chunks(box))
            headers(i) == SubSeq(box, Copied(i - 1) + 1, Until(box, i))
<1>2. /\ n \in Nat \ {0}
      /\ Listing(box) \in Seq(Answer) /\ Len(Listing(box)) = n + 1
      /\ \A i \in 1 .. n : Listing(box)[i] = Chunk(headers(i))
      /\ Listing(box)[n + 1] = Ack
      /\ \A i \in 1 .. n : /\ Copied(i - 1) \in 0 .. Len(box)
                           /\ Until(box, i) \in Copied(i - 1) .. Len(box)
  BY <1>1, ListingElements, Zenon
<1>3. DOMAIN Listing(box) = 1 .. n + 1
  BY <1>2, LenProperties
<1>. HIDE DEF n
<1>4. ASSUME NEW i \in 1 .. n
      PROVE  Sorted(headers(i))
  <2>. DEFINE a == Copied(i - 1)
              b == Until(box, i)
  <2>1. a \in 0 .. Len(box) /\ b \in a .. Len(box)
    BY <1>2
  <2>2. headers(i) = SubSeq(box, a + 1, b)
    OBVIOUS
  <2>. HIDE DEF a, b, headers
  <2>3. /\ headers(i) \in Seq(Mail) /\ Len(headers(i)) = b - a
        /\ \A j \in 1 .. b - a : headers(i)[j] = box[a + j]
    BY <1>1, <2>1, <2>2, PartBetween
  <2>4. DOMAIN headers(i) = 1 .. b - a /\ DOMAIN box = 1 .. Len(box) /\ Len(box) \in Nat
    BY <1>1, <2>3, LenProperties
  <2>5. \A j, k \in 1 .. b - a :
          j <= k => a + j \in DOMAIN box /\ a + k \in DOMAIN box /\ a + j <= a + k
    BY <2>1, <2>4
  <2>6. \A j, k \in 1 .. b - a : j <= k => headers(i)[j].date <= headers(i)[k].date
    BY <1>1, <2>3, <2>5, Zenon DEF Sorted
  <2>. QED
    BY <2>4, <2>6, Zenon DEF Sorted
<1>. HIDE DEF headers
<1>5. ASSUME NEW i \in DOMAIN Listing(box), Listing(box)[i].type = "INBOX"
      PROVE  Sorted(Listing(box)[i].inbox)
  <2>1. CASE i = n + 1
    <3>1. Listing(box)[i].type = "ACK"
      BY <1>2, <2>1 DEF Ack
    <3>. QED
      BY <1>5, <3>1
  <2>2. CASE i # n + 1
    <3>1. i \in 1 .. n
      BY <1>2, <1>3, <2>2
    <3>2. Listing(box)[i].inbox = headers(i)
      <4>1. \A h : Chunk(h).inbox = h
        BY DEF Chunk
      <4>. QED
        BY <1>2, <3>1, <4>1, Zenon
    <3>. QED
      BY <1>4, <3>1, <3>2, Zenon
  <2>. QED
    BY <2>1, <2>2
<1>. QED
  BY <1>2, <1>5, Zenon DEF AnswersInOrder

LEMMA ReceiveAckInOrder ==
  ASSUME Boxes, ReceiveAck
  PROVE  Boxes'
<1>1. AnswersInOrder(to_client) /\ to_client # <<>> /\ to_client' = Tail(to_client)
  BY DEF Boxes, ReceiveAck, NextIs
<1>2. AnswersInOrder(to_client')
  BY <1>1, NextAnswer
<1>3. ClientShows(client)
  BY DEF Boxes
<1>4. ClientShows(client')
  <2>1. CASE ~client.blocking
    BY <1>3, <2>1, Zenon DEF ReceiveAck
  <2>2. CASE client.blocking
    <3>1. client \in Client
      BY <1>3 DEF ClientShows
    <3>2. client' = [client EXCEPT !.blocking = FALSE, !.printInbox = FALSE,
                                   !.screen = IF client.printInbox THEN client.inbox ELSE @]
      BY <2>2, Zenon DEF ReceiveAck
    <3>3. /\ client' \in Client /\ ~client'.printInbox /\ client'.inbox = client.inbox
          /\ client'.screen = IF client.printInbox THEN client.inbox ELSE client.screen
      BY <3>1, <3>2 DEF Client
    <3>. QED
      BY <1>3, <3>3 DEF ClientShows
  <2>. QED
    BY <2>1, <2>2
<1>. QED
  BY <1>2, <1>4, Zenon DEF Boxes, ReceiveAck

LEMMA ReceiveInboxInOrder ==
  ASSUME Boxes, ReceiveInbox
  PROVE  Boxes'
<1>1. AnswersInOrder(to_client) /\ NextIs("INBOX") /\ to_client' = Tail(to_client)
  BY DEF Boxes, ReceiveInbox
<1>2. AnswersInOrder(to_client') /\ InOrder(Head(to_client).inbox)
  BY <1>1, NextAnswer DEF NextIs
<1>3. ClientShows(client)
  BY DEF Boxes
<1>4. ClientShows(client')
  <2>1. CASE ~client.blocking
    BY <1>3, <2>1, Zenon DEF ReceiveInbox
  <2>2. CASE client.blocking
    <3>. DEFINE all == InsertAll(client.inbox, Head(to_client).inbox)
    <3>1. client \in Client /\ Sorted(client.inbox)
      BY <1>3 DEF ClientShows
    <3>2. client.inbox \in Seq(Mail)
      BY <3>1 DEF Client
    <3>3. all \in Seq(Mail) /\ Sorted(all)
      BY <1>2, <3>1, <3>2, InsertAllKeepsOrder DEF InOrder
    <3>4. client' = [client EXCEPT !.inbox = all, !.printInbox = TRUE, !.listed = TRUE]
      BY <2>2, Zenon DEF ReceiveInbox
    <3>. HIDE DEF all
    <3>5. /\ client' \in Client /\ client'.printInbox /\ client'.inbox = all
          /\ client'.blocking
      BY <2>2, <3>1, <3>3, <3>4 DEF Client
    <3>. QED
      BY <3>3, <3>5 DEF ClientShows
  <2>. QED
    BY <2>1, <2>2
<1>. QED
  BY <1>2, <1>4, Zenon DEF Boxes, ReceiveInbox

LEMMA ReceiveResponseInOrder ==
  ASSUME Boxes, ReceiveResponse
  PROVE  Boxes'
<1>1. AnswersInOrder(to_client) /\ to_client # <<>> /\ to_client' = Tail(to_client)
  BY DEF Boxes, ReceiveResponse, NextIs
<1>2. AnswersInOrder(to_client')
  BY <1>1, NextAnswer
<1>. QED
  BY <1>2, Zenon DEF Boxes, ReceiveResponse

(* The request at the server and those behind it.                          *)
LEMMA NextRequest ==
  ASSUME Boxes, NEW type, Requested(type)
  PROVE  /\ to_server # <<>> /\ to_server \in Seq(Request)
         /\ Tail(to_server) \in Seq(Request)
         /\ Head(to_server) \in Request
         /\ type \in {"READ", "DELETE"} => Head(to_server).id \in Ids
<1>1. to_server \in Seq(Request) /\ to_server # <<>> /\ Head(to_server).type = type
  BY DEF Boxes, Requested
<1>2. Head(to_server) \in Request /\ Tail(to_server) \in Seq(Request)
  BY <1>1, HeadTailProperties
<1>3. type \in {"READ", "DELETE"} => Head(to_server).id \in Ids
  BY <1>1, <1>2 DEF Request
<1>. QED
  BY <1>1, <1>2, <1>3

LEMMA DiesInOrder ==
  ASSUME Boxes, Dies
  PROVE  Boxes'
BY Zenon DEF Boxes, Dies

LEMMA SendInboxToClientInOrder ==
  ASSUME Boxes, SendInboxToClient
  PROVE  Boxes'
<1>1. Tail(to_server) \in Seq(Request)
  BY NextRequest DEF SendInboxToClient
<1>2. CASE Dies
  BY <1>2, DiesInOrder
<1>3. CASE /\ to_server' = Tail(to_server)
           /\ to_client' = to_client \o Listing(mails)
           /\ reported' = reported \cup {mails}
           /\ UNCHANGED <<up, mails, sent, client, requests, outOfStep>>
  <2>1. AnswersInOrder(to_client) /\ InOrder(mails)
    BY DEF Boxes
  <2>2. AnswersInOrder(to_client')
    BY <1>3, <2>1, ListingInOrder, MoreAnswers
  <2>3. \A box \in reported' : InOrder(box)
    BY <1>3, <2>1 DEF Boxes
  <2>. QED
    BY <1>1, <1>3, <2>2, <2>3, Zenon DEF Boxes
<1>. QED
  BY <1>2, <1>3, Zenon DEF SendInboxToClient

LEMMA ProcessReadCommandInOrder ==
  ASSUME Boxes, ProcessReadCommand
  PROVE  Boxes'
<1>. DEFINE id == Head(to_server).id
            found == Find(id)
<1>1. Tail(to_server) \in Seq(Request) /\ id \in Ids
  BY NextRequest DEF ProcessReadCommand
<1>2. AnswersInOrder(to_client)
  BY DEF Boxes
<1>3. CASE Dies
  BY <1>3, DiesInOrder
<1>4. CASE /\ \E mail \in found : mails' = AfterRead(mail)
           /\ to_client' = to_client \o <<[type |-> "RESPONSE", id |-> id], Ack>>
           /\ to_server' = Tail(to_server)
           /\ UNCHANGED <<up, sent, client, requests, reported, outOfStep>>
  <2>1. InOrder(mails')
    BY <1>4, FoundIsMail, AfterKeepsOrder, Zenon
  <2>2. AnswersInOrder(to_client')
    BY <1>1, <1>2, <1>4, ShortAnswers, MoreAnswers
  <2>. QED
    BY <1>1, <1>4, <2>1, <2>2, Zenon DEF Boxes
<1>5. CASE /\ to_client' = to_client \o <<Ack, Ack>>
           /\ to_server' = Tail(to_server)
           /\ outOfStep' = TRUE
           /\ UNCHANGED <<up, mails, sent, client, requests, reported>>
  <2>1. AnswersInOrder(to_client')
    BY <1>2, <1>5, ShortAnswers, MoreAnswers
  <2>2. outOfStep' \in BOOLEAN
    BY <1>5
  <2>. QED
    BY <1>1, <1>5, <2>1, <2>2, Zenon DEF Boxes
<1>. QED
  BY <1>3, <1>4, <1>5, Zenon DEF ProcessReadCommand

LEMMA ProcessDeleteCommandInOrder ==
  ASSUME Boxes, ProcessDeleteCommand
  PROVE  Boxes'
<1>1. Tail(to_server) \in Seq(Request) /\ to_server' = Tail(to_server)
  BY NextRequest DEF ProcessDeleteCommand
<1>2. InOrder(mails')
  <2>1. CASE UNCHANGED mails
    BY <2>1, Zenon DEF Boxes
  <2>2. CASE \E mail \in Find(Head(to_server).id) : mails' = AfterDelete(mail)
    BY <2>2, FoundIsMail, AfterKeepsOrder, Zenon
  <2>. QED
    BY <2>1, <2>2, Zenon DEF ProcessDeleteCommand
<1>3. AnswersInOrder(to_client')
  <2>1. AnswersInOrder(to_client) /\ to_client \in Seq(Answer) /\ Ack \in Answer
    BY DEF Boxes, AnswersInOrder, Ack, Answer
  <2>2. to_client' = to_client \o <<Ack>>
    BY <2>1, AppendIsConcat DEF ProcessDeleteCommand
  <2>. QED
    BY <2>1, <2>2, ShortAnswers, MoreAnswers
<1>. QED
  BY <1>1, <1>2, <1>3, Zenon DEF Boxes, ProcessDeleteCommand

(* Every step keeps boxes in order.                                        *)
LEMMA BoxesKept ==
  ASSUME Boxes, [Next]_vars
  PROVE  Boxes'
<1>1. CASE UNCHANGED vars
  BY <1>1, Zenon DEF vars, Boxes
<1>2. CASE \E date \in Dates : MailArrives(date)
  BY <1>2, MailArrivesInOrder
<1>3. CASE \E id \in Ids : OtherClient(id)
  BY <1>3, OtherClientInOrder
<1>4. CASE GetInbox
  BY <1>4, GetInboxInOrder
<1>5. CASE \E row \in 1 .. MaxMails : ReadEmail(row) \/ DeleteEmail(row)
  <2>1. PICK row \in 1 .. MaxMails : ReadEmail(row) \/ DeleteEmail(row)
    BY <1>5
  <2>2. CASE ReadEmail(row)
    BY <2>2, PickInOrder DEF ReadEmail
  <2>3. CASE DeleteEmail(row)
    BY <2>3, PickInOrder DEF DeleteEmail
  <2>. QED
    BY <2>1, <2>2, <2>3
<1>6. CASE ClientHandles
  BY <1>6, ReceiveAckInOrder, ReceiveInboxInOrder, ReceiveResponseInOrder DEF ClientHandles
<1>7. CASE ServerHandles
  BY <1>7, SendInboxToClientInOrder, ProcessReadCommandInOrder, ProcessDeleteCommandInOrder
     DEF ServerHandles
<1>. QED
  BY <1>1, <1>2, <1>3, <1>4, <1>5, <1>6, <1>7 DEF Next

-----------------------------------------------------------------------------
(* One exchange at a time.                                                 *)

(* What only adds to the reported boxes does not end an exchange.          *)
LEMMA ExchangeGoesOn ==
  ASSUME OneExchange, UNCHANGED <<client, to_server, to_client>>, reported \subseteq reported'
  PROVE  OneExchange'
<1>1. CASE Idle
  BY <1>1, Zenon DEF OneExchange, Idle
<1>2. CASE Asked
  BY <1>2, Zenon DEF OneExchange, Asked
<1>3. CASE Answered
  BY <1>3, Zenon DEF OneExchange, Answered
<1>4. CASE Listed
  <2>1. PICK box \in reported : \E i \in 0 .. Len(Chunks(box)) : ListingUnderWay(box, i)
    BY <1>4 DEF Listed
  <2>2. PICK i \in 0 .. Len(Chunks(box)) : ListingUnderWay(box, i)
    BY <2>1
  <2>3. ListingUnderWay(box, i)'
    BY <2>2, Zenon DEF ListingUnderWay
  <2>4. client'.blocking /\ box \in reported'
    BY <1>4, <2>1 DEF Listed
  <2>. QED
    BY <2>3, <2>4, Zenon DEF OneExchange, Listed
<1>. QED
  BY <1>1, <1>2, <1>3, <1>4, Zenon DEF OneExchange

(* Who does not wait has nothing on its way.                               *)
LEMMA IdleWhenNotBlocking ==
  ASSUME OneExchange, ~client.blocking
  PROVE  Idle
BY DEF OneExchange, Asked, Answered, Listed

(* A request at the server is the one asked.                               *)
LEMMA AskedWhenRequested ==
  ASSUME OneExchange, NEW type, Requested(type)
  PROVE  Asked
BY DEF OneExchange, Idle, Answered, Listed, ListingUnderWay, Requested

LEMMA GetInboxExchange ==
  ASSUME Boxes, OneExchange, GetInbox, ~outOfStep'
  PROVE  OneExchange'
<1>1. Ask([type |-> "SHOW_INBOX"]) /\ ~client.blocking
  BY DEF GetInbox, Ask
<1>2. to_server = <<>> /\ to_client = <<>>
  BY <1>1, IdleWhenNotBlocking DEF Idle
<1>3. client \in Client /\ ~client.printInbox
  BY <1>1 DEF Boxes, ClientShows
<1>4. client' = [client EXCEPT !.inbox = <<>>, !.blocking = TRUE, !.listed = TRUE]
  BY <1>3 DEF GetInbox, InboxCleared, Client
<1>5. client'.inbox = <<>> /\ client'.blocking /\ ~client'.printInbox
  BY <1>3, <1>4 DEF Client
<1>6. to_server' = Append(to_server, [type |-> "SHOW_INBOX"]) /\ to_client' = to_client
  BY <1>1 DEF Ask
<1>7. Len(to_server') = 1
  BY <1>2, <1>6
<1>. QED
  BY <1>2, <1>5, <1>6, <1>7 DEF OneExchange, Asked

LEMMA PickExchange ==
  ASSUME Boxes, OneExchange, NEW row, NEW type \in {"READ", "DELETE"},
         Ask([type |-> type, id |-> FindIdUsingIndex(client.inbox, row)]),
         client' = [client EXCEPT !.blocking = TRUE], ~outOfStep'
  PROVE  OneExchange'
<1>. DEFINE request == [type |-> type, id |-> FindIdUsingIndex(client.inbox, row)]
<1>1. ~client.blocking
  BY DEF Ask
<1>2. to_server = <<>> /\ to_client = <<>>
  BY <1>1, IdleWhenNotBlocking DEF Idle
<1>3. client \in Client /\ ~client.printInbox
  BY <1>1 DEF Boxes, ClientShows
<1>4. client'.blocking /\ ~client'.printInbox
  BY <1>3 DEF Client
<1>5. request.type # "SHOW_INBOX"
  OBVIOUS
<1>6. to_server' = Append(to_server, request) /\ to_client' = to_client
  BY DEF Ask
<1>. HIDE DEF request
<1>7. Len(to_server') = 1 /\ to_server'[1] = request
  BY <1>2, <1>6
<1>. QED
  BY <1>2, <1>4, <1>5, <1>6, <1>7 DEF OneExchange, Asked

(* The request that was asked is the only one.                             *)
LEMMA OneRequest ==
  ASSUME Boxes, Asked
  PROVE  Tail(to_server) = <<>> /\ Head(to_server) = to_server[1]
<1>1. to_server \in Seq(Request) /\ Len(to_server) = 1
  BY DEF Boxes, Asked
<1>2. to_server # <<>>
  BY <1>1
<1>3. /\ Head(to_server) = to_server[1]
      /\ Tail(to_server) \in Seq(Request) /\ Len(Tail(to_server)) = Len(to_server) - 1
  BY <1>1, <1>2, HeadTailProperties
<1>4. Tail(to_server) = <<>>
  <2>. DEFINE rest == Tail(to_server)
  <2>1. rest \in Seq(Request) /\ Len(rest) = 0
    BY <1>1, <1>3
  <2>. HIDE DEF rest
  <2>2. rest = <<>>
    BY <2>1, EmptySeq
  <2>. QED
    BY <2>2 DEF rest
<1>. QED
  BY <1>3, <1>4

LEMMA SendInboxToClientExchange ==
  ASSUME Boxes, OneExchange, SendInboxToClient
  PROVE  OneExchange'
<1>1. CASE Dies
  BY <1>1, ExchangeGoesOn DEF Dies
<1>2. CASE /\ to_server' = Tail(to_server)
           /\ to_client' = to_client \o Listing(mails)
           /\ reported' = reported \cup {mails}
           /\ UNCHANGED <<up, mails, sent, client, requests, outOfStep>>
  <2>1. Asked /\ Head(to_server).type = "SHOW_INBOX"
    BY AskedWhenRequested DEF SendInboxToClient, Requested
  <2>2. to_server' = <<>> /\ client.inbox = <<>>
    BY <1>2, <2>1, OneRequest DEF Asked
  <2>3. mails \in Seq(Mail)
    BY DEF Boxes, InOrder
  <2>. DEFINE n == Len(Chunks(mails))
  <2>4. /\ n \in Nat \ {0}
        /\ Listing(mails) \in Seq(Answer) /\ Len(Listing(mails)) = n + 1
        /\ Past(mails, 0) = 0
    BY <2>3, ListingElements, Zenon
  <2>. HIDE DEF n
  <2>5. to_client' = Listing(mails)
    BY <1>2, <2>1, <2>4, ConcatEmptySeq DEF Asked
  <2>6. SubSeq(Listing(mails), 0 + 1, Len(Listing(mails))) = Listing(mails)
    <3>1. SubSeq(Listing(mails), 1, Len(Listing(mails))) = Listing(mails)
      BY <2>4, WholePart
    <3>. QED
      BY <3>1
  <2>7. SubSeq(mails, 1, Past(mails, 0)) = <<>>
    BY <2>3, <2>4, NoPart
  <2>8. client.blocking /\ ~client.printInbox /\ client' = client
    BY <1>2, <2>1 DEF Asked
  <2>9. client'.printInbox <=> 0 > 0
    BY <2>8
  <2>10. /\ IsPartOf(client'.inbox, SubSeq(mails, 1, Past(mails, 0)))
         /\ client'.inbox = SubSeq(mails, 1, Past(mails, 0))
    BY <2>2, <2>7, <2>8, NothingIsPart
  <2>11. ListingUnderWay(mails, 0)'
    <3>1. mails' = mails
      BY <1>2
    <3>2. ListingUnderWay(mails, 0)' <=>
            /\ to_server' = <<>>
            /\ to_client' = SubSeq(Listing(mails'), 0 + 1, Len(Listing(mails')))
            /\ client'.printInbox <=> 0 > 0
            /\ IsPartOf(client'.inbox, SubSeq(mails', 1, Past(mails', 0)))
            /\ Len(mails') <= INBOX_LIMIT => client'.inbox = SubSeq(mails', 1, Past(mails', 0))
      BY Zenon DEF ListingUnderWay, Past
    <3>. QED
      BY <2>2, <2>5, <2>6, <2>9, <2>10, <3>1, <3>2, Zenon
  <2>12. mails' \in reported' /\ 0 \in 0 .. Len(Chunks(mails'))
    BY <1>2, <2>4 DEF n
  <2>. QED
    BY <2>8, <2>11, <2>12, Zenon DEF OneExchange, Listed
<1>. QED
  BY <1>1, <1>2, Zenon DEF SendInboxToClient

LEMMA ProcessReadCommandExchange ==
  ASSUME Boxes, OneExchange, ProcessReadCommand
  PROVE  outOfStep' \/ OneExchange'
<1>. DEFINE id == Head(to_server).id
<1>1. CASE Dies
  BY <1>1, ExchangeGoesOn DEF Dies
<1>2. CASE outOfStep'
  BY <1>2
<1>3. CASE /\ to_client' = to_client \o <<[type |-> "RESPONSE", id |-> id], Ack>>
           /\ to_server' = Tail(to_server)
           /\ UNCHANGED <<up, sent, client, requests, reported, outOfStep>>
  <2>1. Asked /\ id \in Ids
    BY AskedWhenRequested, NextRequest DEF ProcessReadCommand
  <2>2. to_server' = <<>> /\ client' = client
    BY <1>3, <2>1, OneRequest
  <2>3. to_client' = <<[type |-> "RESPONSE", id |-> id], Ack>>
    BY <1>3, <2>1 DEF Asked
  <2>. HIDE DEF id
  <2>. QED
    BY <2>1, <2>2, <2>3, Zenon DEF OneExchange, Asked, Answered
<1>. QED
  BY <1>1, <1>2, <1>3, Zenon DEF ProcessReadCommand

LEMMA ProcessDeleteCommandExchange ==
  ASSUME Boxes, OneExchange, ProcessDeleteCommand
  PROVE  OneExchange'
<1>1. Asked
  BY AskedWhenRequested DEF ProcessDeleteCommand
<1>2. to_server' = <<>> /\ client' = client
  BY <1>1, OneRequest DEF ProcessDeleteCommand
<1>3. to_client' = <<Ack>>
  BY <1>1 DEF Asked, ProcessDeleteCommand
<1>. QED
  BY <1>1, <1>2, <1>3, Zenon DEF OneExchange, Asked, Answered

(* The listing's next message, when i of them are there.                   *)
LEMMA NextOfListing ==
  ASSUME NEW box \in Seq(Mail), NEW i \in 0 .. Len(Chunks(box)), ListingUnderWay(box, i)
  PROVE  LET n == Len(Chunks(box))
         IN  /\ n \in Nat \ {0}
             /\ to_client # <<>>
             /\ Tail(to_client) = SubSeq(Listing(box), i + 2, Len(Listing(box)))
             /\ i = n => Head(to_client) = Ack /\ Tail(to_client) = <<>>
             /\ i < n => Head(to_client) =
                           Chunk(SubSeq(box, Copied(i) + 1, Until(box, i + 1)))
<1>. DEFINE n == Len(Chunks(box))
            list == Listing(box)
<1>1. /\ n \in Nat \ {0}
      /\ list \in Seq(Answer) /\ Len(list) = n + 1
      /\ \A j \in 1 .. n : list[j] = Chunk(SubSeq(box, Copied(j - 1) + 1, Until(box, j)))
      /\ list[n + 1] = Ack
  BY ListingElements, Zenon
<1>2. to_client = SubSeq(list, i + 1, Len(list)) /\ i \in 0 .. n
  BY Zenon DEF ListingUnderWay
<1>. HIDE DEF n, list
<1>3. i \in Nat /\ i < Len(list)
  BY <1>1, <1>2
<1>4. /\ to_client # <<>> /\ Head(to_client) = list[i + 1]
      /\ Tail(to_client) = SubSeq(list, i + 2, Len(list))
  BY <1>1, <1>2, <1>3, RestOf, Zenon
<1>5. ASSUME i = n
      PROVE  Head(to_client) = Ack /\ Tail(to_client) = <<>>
  <2>1. Head(to_client) = Ack
    BY <1>1, <1>4, <1>5
  <2>. DEFINE rest == SubSeq(list, i + 1, Len(list))
  <2>2. rest \in Seq(Answer) /\ Len(rest) = Len(list) - i
    <3>1. i \in 0 .. Len(list) /\ Len(list) \in i .. Len(list)
      BY <1>1, <1>3
    <3>. QED
      BY <1>1, <3>1, PartBetween, Zenon
  <2>. HIDE DEF rest
  <2>3. rest # <<>> /\ to_client = rest
    BY <1>2, <1>4 DEF rest
  <2>4. Tail(rest) \in Seq(Answer) /\ Len(Tail(rest)) = Len(rest) - 1
    BY <2>2, <2>3, HeadTailProperties
  <2>5. Len(Tail(rest)) = 0
    BY <1>1, <1>5, <2>2, <2>4
  <2>. QED
    BY <2>1, <2>3, <2>4, <2>5, EmptySeq
<1>6. ASSUME i < n
      PROVE  Head(to_client) = Chunk(SubSeq(box, Copied(i) + 1, Until(box, i + 1)))
  <2>1. i + 1 \in 1 .. n /\ i + 1 - 1 = i
    BY <1>1, <1>3, <1>6
  <2>. QED
    BY <1>1, <1>4, <2>1
<1>. QED
  BY <1>1, <1>4, <1>5, <1>6 DEF n, list

(* The box whose listing is on its way.                                    *)
LEMMA ListedBox ==
  ASSUME Boxes, Listed
  PROVE  \E box \in reported : \E i \in 0 .. Len(Chunks(box)) :
           box \in Seq(Mail) /\ Sorted(box) /\ ListingUnderWay(box, i)
BY DEF Listed, Boxes, InOrder

LEMMA ReceiveAckExchange ==
  ASSUME Boxes, OneExchange, ReceiveAck
  PROVE  OneExchange'
<1>1. to_client # <<>> /\ Head(to_client).type = "ACK" /\ to_client' = Tail(to_client)
  BY DEF ReceiveAck, NextIs
<1>2. client.blocking /\ to_server = <<>> /\ to_client' = <<>>
  <2>1. CASE Answered
    <3>1. to_client = <<Ack>>
      BY <1>1, <2>1 DEF Answered
    <3>. QED
      BY <1>1, <2>1, <3>1 DEF Answered
  <2>2. CASE Listed
    <3>. PICK box \in reported : \E i \in 0 .. Len(Chunks(box)) :
            box \in Seq(Mail) /\ Sorted(box) /\ ListingUnderWay(box, i)
      BY <2>2, ListedBox
    <3>1. PICK i \in 0 .. Len(Chunks(box)) : box \in Seq(Mail) /\ ListingUnderWay(box, i)
      OBVIOUS
    <3>2. i = Len(Chunks(box))
      <4>1. ASSUME i < Len(Chunks(box))
            PROVE  FALSE
        <5>1. Head(to_client).type = "INBOX"
          BY <3>1, <4>1, NextOfListing DEF Chunk
        <5>. QED
          BY <1>1, <5>1
      <4>2. Len(Chunks(box)) \in Nat
        BY <3>1, NextOfListing
      <4>. QED
        BY <4>1, <4>2
    <3>. QED
      BY <1>1, <2>2, <3>1, <3>2, NextOfListing DEF ListingUnderWay, Listed
  <2>. QED
    BY <1>1, <2>1, <2>2 DEF OneExchange, Idle, Asked
<1>3. client \in Client
  BY DEF Boxes, ClientShows
<1>4. ~client'.blocking /\ to_server' = <<>>
  BY <1>2, <1>3 DEF ReceiveAck, Client
<1>. QED
  BY <1>2, <1>4 DEF OneExchange, Idle

LEMMA ReceiveResponseExchange ==
  ASSUME Boxes, OneExchange, ReceiveResponse
  PROVE  OneExchange'
<1>1. to_client # <<>> /\ Head(to_client).type = "RESPONSE" /\ to_client' = Tail(to_client)
  BY DEF ReceiveResponse, NextIs
<1>2. client' = client /\ to_server' = to_server
  BY DEF ReceiveResponse
<1>3. CASE Answered
  <2>1. PICK id \in Ids : to_client = <<[type |-> "RESPONSE", id |-> id], Ack>>
    BY <1>1, <1>3 DEF Answered, Ack
  <2>2. to_client' = <<Ack>>
    BY <1>1, <2>1
  <2>. QED
    BY <1>2, <1>3, <2>2, Zenon DEF OneExchange, Answered
<1>4. CASE Listed
  <2>. PICK box \in reported : \E i \in 0 .. Len(Chunks(box)) :
          box \in Seq(Mail) /\ Sorted(box) /\ ListingUnderWay(box, i)
    BY <1>4, ListedBox
  <2>1. PICK i \in 0 .. Len(Chunks(box)) : box \in Seq(Mail) /\ ListingUnderWay(box, i)
    OBVIOUS
  <2>2. Head(to_client).type \in {"INBOX", "ACK"}
    <3>1. Len(Chunks(box)) \in Nat /\ (i < Len(Chunks(box)) \/ i = Len(Chunks(box)))
      BY <2>1, NextOfListing
    <3>. QED
      BY <2>1, <3>1, NextOfListing DEF Chunk, Ack
  <2>. QED
    BY <1>1, <2>2
<1>. QED
  BY <1>1, <1>3, <1>4 DEF OneExchange, Idle, Asked

(* A message more of the listing: what the client holds is a part of the   *)
(* box up to there.                                                        *)
LEMMA ListingGoesOn ==
  ASSUME Boxes, NEW box \in reported, box \in Seq(Mail), Sorted(box), NEW i \in Nat,
         i < Len(Chunks(box)), ListingUnderWay(box, i), client.blocking,
         to_client' = Tail(to_client), UNCHANGED <<to_server, reported>>,
         client' = [client EXCEPT !.inbox = InsertAll(@, Head(to_client).inbox),
                                  !.printInbox = TRUE, !.listed = TRUE]
  PROVE  ListingUnderWay(box, i + 1)'
<1>. DEFINE n == Len(Chunks(box))
            a == Copied(i)
            b == Until(box, i + 1)
            c == Past(box, i + 1)
            headers == SubSeq(box, a + 1, b)
            list == client.inbox
<1>1. /\ to_server = <<>>
      /\ IsPartOf(list, SubSeq(box, 1, Past(box, i)))
      /\ Len(box) <= INBOX_LIMIT => list = SubSeq(box, 1, Past(box, i))
  BY Zenon DEF ListingUnderWay, Past
<1>2. /\ n \in Nat \ {0}
      /\ \A j \in 1 .. n : /\ Past(box, j - 1) = Copied(j - 1)
                           /\ Copied(j - 1) \in 0 .. Len(box)
                           /\ Until(box, j) \in Copied(j - 1) .. Len(box)
                           /\ Past(box, j) \in Until(box, j) .. Len(box)
      /\ Past(box, 0) = 0 /\ Past(box, n) = Len(box)
      /\ Len(box) <= INBOX_LIMIT => n = 1 /\ Until(box, 1) = Len(box)
  BY ListingElements, Zenon
<1>3. /\ Tail(to_client) = SubSeq(Listing(box), i + 2, Len(Listing(box)))
      /\ Head(to_client) = Chunk(headers)
  <2>1. i \in 0 .. n
    BY <1>2
  <2>. QED
    BY <2>1, NextOfListing, Zenon
<1>4. i + 1 \in 1 .. n /\ i + 1 - 1 = i
  BY <1>2
<1>5. Past(box, i) = a /\ a \in 0 .. Len(box) /\ b \in a .. Len(box) /\ c \in b .. Len(box)
  BY <1>2, <1>4
<1>. HIDE DEF n, a, b, c
<1>6. client \in Client
  BY DEF Boxes, ClientShows
<1>7. list \in Seq(Mail)
  BY <1>6 DEF Client
<1>. HIDE DEF list
<1>8. headers \in Seq(Mail)
  BY <1>5, PartBetween
<1>9. Len(box) \in Nat
  OBVIOUS
<1>10. IsPartOf(list \o headers, SubSeq(box, 1, c))
  BY <1>1, <1>5, <1>7, PartGrows
<1>11. InOrder(SubSeq(box, 1, c))
  <2>1. c \in 0 .. Len(box) /\ 0 \in 0 .. Len(box)
    BY <1>5, <1>9
  <2>2. /\ SubSeq(box, 1, c) \in Seq(Mail) /\ Len(SubSeq(box, 1, c)) = c
        /\ \A j \in 1 .. c : SubSeq(box, 1, c)[j] = box[j]
    BY <2>1, FirstPart
  <2>3. DOMAIN SubSeq(box, 1, c) = 1 .. c /\ \A j \in 1 .. c : j \in DOMAIN box
    BY <2>1, <2>2, LenProperties
  <2>4. \A j, k \in 1 .. c : j <= k => SubSeq(box, 1, c)[j].date <= SubSeq(box, 1, c)[k].date
    BY <2>2, <2>3 DEF Sorted
  <2>. QED
    BY <2>2, <2>3, <2>4, Zenon DEF Sorted, InOrder
<1>. HIDE DEF headers
<1>12. list \o headers \in Seq(Mail)
  BY <1>7, <1>8, ConcatProperties
<1>13. Sorted(list \o headers)
  BY <1>10, <1>11, <1>12, PartKeepsOrder DEF InOrder
<1>14. InsertAll(list, headers) = list \o headers
  BY <1>7, <1>8, <1>13, InsertAllAppends
<1>15. Chunk(headers).inbox = headers
  BY DEF Chunk
<1>16. client'.inbox = list \o headers /\ client'.printInbox
  <2>1. client' = [client EXCEPT !.inbox = InsertAll(list, headers),
                                 !.printInbox = TRUE, !.listed = TRUE]
    BY <1>3, <1>15, Zenon DEF list
  <2>. QED
    BY <1>6, <1>14, <2>1 DEF Client
<1>17. IsPartOf(client'.inbox, SubSeq(box, 1, c))
  BY <1>10, <1>16, Zenon
<1>18. ASSUME Len(box) <= INBOX_LIMIT
       PROVE  client'.inbox = SubSeq(box, 1, c)
  <2>1. n = 1 /\ Until(box, 1) = Len(box)
    BY <1>2, <1>18
  <2>2. i = 0
    BY <1>4, <2>1
  <2>3. b = Len(box) /\ a = 0 /\ c = Len(box)
    <3>1. b = Len(box)
      BY <2>1, <2>2 DEF b
    <3>2. a = 0
      BY <1>2, <1>5, <2>2
    <3>3. c = Len(box)
      BY <1>2, <2>1, <2>2 DEF c
    <3>. QED
      BY <3>1, <3>2, <3>3
  <2>4. list = <<>>
    <3>1. list = SubSeq(box, 1, 0)
      BY <1>1, <1>5, <1>18, <2>3
    <3>. QED
      BY <3>1, NoPart
  <2>5. headers = SubSeq(box, 1, c)
    <3>1. a + 1 = 1
      BY <2>3
    <3>. QED
      BY <2>3, <3>1, Zenon DEF headers
  <2>6. list \o headers = headers
    BY <1>8, <2>4, ConcatEmptySeq
  <2>. QED
    BY <1>16, <2>5, <2>6, Zenon
<1>19. i + 1 + 1 = i + 2 /\ i + 1 > 0
  OBVIOUS
<1>. DEFINE k == i + 1
<1>20. /\ to_client' = SubSeq(Listing(box), k + 1, Len(Listing(box)))
       /\ to_server' = <<>>
       /\ client'.printInbox <=> k > 0
       /\ IsPartOf(client'.inbox, SubSeq(box, 1, Past(box, k)))
       /\ Len(box) <= INBOX_LIMIT => client'.inbox = SubSeq(box, 1, Past(box, k))
  BY <1>1, <1>3, <1>16, <1>17, <1>18, <1>19, Zenon DEF c
<1>. HIDE DEF k
<1>21. ListingUnderWay(box, k)'
  BY <1>20, Zenon DEF ListingUnderWay, Past
<1>. QED
  BY <1>21 DEF k

LEMMA ReceiveInboxExchange ==
  ASSUME Boxes, OneExchange, ReceiveInbox
  PROVE  OneExchange'
<1>1. to_client # <<>> /\ Head(to_client).type = "INBOX" /\ to_client' = Tail(to_client)
  BY DEF ReceiveInbox, NextIs
<1>2. Listed
  <2>1. CASE Answered
    <3>1. Head(to_client).type \in {"RESPONSE", "ACK"}
      BY <2>1 DEF Answered, Ack
    <3>. QED
      BY <1>1, <3>1
  <2>. QED
    BY <1>1, <2>1 DEF OneExchange, Idle, Asked
<1>3. PICK box \in reported : \E i \in 0 .. Len(Chunks(box)) :
        box \in Seq(Mail) /\ Sorted(box) /\ ListingUnderWay(box, i)
  BY <1>2, ListedBox
<1>4. PICK i \in 0 .. Len(Chunks(box)) :
        box \in Seq(Mail) /\ Sorted(box) /\ ListingUnderWay(box, i)
  BY <1>3
<1>5. Len(Chunks(box)) \in Nat \ {0}
  BY <1>4, NextOfListing, Zenon
<1>6. i \in Nat /\ i < Len(Chunks(box))
  <2>1. ASSUME i = Len(Chunks(box))
        PROVE  FALSE
    <3>1. Head(to_client) = Ack
      BY <1>4, <2>1, NextOfListing, Zenon
    <3>. QED
      BY <1>1, <3>1 DEF Ack
  <2>. QED
    BY <1>5, <2>1
<1>7. client.blocking
  BY <1>2 DEF Listed
<1>8. /\ UNCHANGED <<to_server, reported>>
      /\ client' = [client EXCEPT !.inbox = InsertAll(@, Head(to_client).inbox),
                                  !.printInbox = TRUE, !.listed = TRUE]
  BY <1>7, Zenon DEF ReceiveInbox
<1>9. ListingUnderWay(box, i + 1)'
  BY <1>1, <1>4, <1>6, <1>7, <1>8, ListingGoesOn
<1>10. i + 1 \in 0 .. Len(Chunks(box)) /\ box \in reported'
  BY <1>5, <1>6, <1>8
<1>11. client'.blocking
  <2>1. client \in Client
    BY DEF Boxes, ClientShows
  <2>. QED
    BY <1>7, <1>8, <2>1 DEF Client
<1>. QED
  BY <1>9, <1>10, <1>11, Zenon DEF OneExchange, Listed

(* Every step goes on with the exchange, or misses a mail.                 *)
LEMMA ExchangeKept ==
  ASSUME Boxes, OneExchange, [Next]_vars
  PROVE  outOfStep' \/ OneExchange'
<1>1. CASE UNCHANGED vars
  BY <1>1, ExchangeGoesOn DEF vars
<1>2. CASE \E date \in Dates : MailArrives(date)
  BY <1>2, ExchangeGoesOn DEF MailArrives
<1>3. CASE \E id \in Ids : OtherClient(id)
  BY <1>3, ExchangeGoesOn DEF OtherClient
<1>4. CASE GetInbox
  BY <1>4, GetInboxExchange
<1>5. CASE \E row \in 1 .. MaxMails : ReadEmail(row) \/ DeleteEmail(row)
  <2>1. PICK row \in 1 .. MaxMails : ReadEmail(row) \/ DeleteEmail(row)
    BY <1>5
  <2>2. CASE ReadEmail(row)
    BY <2>2, PickExchange DEF ReadEmail
  <2>3. CASE DeleteEmail(row)
    BY <2>3, PickExchange DEF DeleteEmail
  <2>. QED
    BY <2>1, <2>2, <2>3
<1>6. CASE ClientHandles
  BY <1>6, ReceiveAckExchange, ReceiveInboxExchange, ReceiveResponseExchange DEF ClientHandles
<1>7. CASE ServerHandles
  BY <1>7, SendInboxToClientExchange, ProcessReadCommandExchange, ProcessDeleteCommandExchange
     DEF ServerHandles
<1>. QED
  BY <1>1, <1>2, <1>3, <1>4, <1>5, <1>6, <1>7 DEF Next

(* outOfStep stays once it is so.                                          *)
LEMMA MissedStays ==
  ASSUME [Next]_vars, outOfStep
  PROVE  outOfStep'
BY DEF Next, vars, MailArrives, OtherClient, GetInbox, ReadEmail, DeleteEmail, Ask, ClientHandles,
       ReceiveAck, ReceiveInbox, ReceiveResponse, ServerHandles, SendInboxToClient,
       ProcessReadCommand, ProcessDeleteCommand, Dies

LEMMA ListingInvStep ==
  ASSUME ListingInv, [Next]_vars
  PROVE  ListingInv'
<1>1. Boxes /\ (~outOfStep => OneExchange)
  BY BoxesAreParts DEF ListingInv
<1>2. Boxes'
  BY <1>1, BoxesKept
<1>3. TypeOK' /\ BoxesSorted' /\ ScreenShown'
  BY <1>2, BoxesAreParts, PTL
<1>4. outOfStep' \/ OneExchange'
  BY <1>1, ExchangeKept, MissedStays
<1>. QED
  BY <1>3, <1>4, Zenon DEF ListingInv

LEMMA ListingInvInit ==
  ASSUME Init
  PROVE  ListingInv
<1>1. <<>> \in Seq(Mail) /\ <<>> \in Seq(Request) /\ <<>> \in Seq(Answer) /\ DOMAIN <<>> = {}
  BY EmptySeq
<1>2. Sorted(<<>>)
  BY <1>1 DEF Sorted
<1>3. TypeOK
  <2>1. sent \in 0 .. MaxMails /\ requests \in 0 .. MaxRequests
    BY ListingAssumption DEF Init
  <2>2. client \in Client
    BY <1>1 DEF Init, Client
  <2>. QED
    BY <1>1, <2>1, <2>2 DEF Init, TypeOK, Client
<1>4. BoxesSorted /\ ScreenShown
  BY <1>1, <1>2 DEF Init, BoxesSorted, ScreenShown
<1>5. OneExchange
  BY DEF Init, OneExchange, Idle
<1>. QED
  BY <1>3, <1>4, <1>5 DEF ListingInv

-----------------------------------------------------------------------------
(* In every reachable state boxes are in order, the client prints what it  *)
(* holds, and what is on its way is what it waits for                      *)
(* (process_server_response, send_inbox_to_client).                        *)
THEOREM ListingInvariant == Spec => []ListingInv
BY ListingInvInit, ListingInvStep, PTL DEF Spec

(* The variables keep their types.                                         *)
THEOREM ListingTypes == Spec => []TypeOK
<1>1. ListingInv => TypeOK
  BY DEF ListingInv
<1>. QED
  BY <1>1, ListingInvariant, PTL

(* A listing that is printed is all of an inbox that the server was asked  *)
(* for when it fits into a message, and otherwise rows of one in their     *)
(* order, as long as no command came during a wait and no mail to be read  *)
(* was gone (send_inbox_to_client, process_server_response).               *)
THEOREM PrintedFromOneInbox == Spec => PrintedListingIsComplete
<1>. DEFINE Complete == Prints /\ ~outOfStep =>
                          \E box \in reported :
                            \/ client'.screen = box
                            \/ Len(box) > INBOX_LIMIT /\ IsPartOf(client'.screen, box)
<1>1. ASSUME ListingInv, [Next]_vars, Prints, ~outOfStep
      PROVE  Complete
  <2>1. Boxes /\ OneExchange
    BY <1>1, BoxesAreParts DEF ListingInv
  <2>2. client \in Client /\ (client.printInbox => client.blocking)
    BY <2>1 DEF Boxes, ClientShows
  <2>3. client.printInbox /\ ~client'.printInbox /\ client.blocking
    BY <1>1, <2>2 DEF Prints
  <2>4. ReceiveAck
    <3>1. client' # client
      BY <2>3
    <3>2. ~ReceiveInbox
      <4>1. ASSUME ReceiveInbox
            PROVE  FALSE
        <5>1. client'.printInbox
          BY <2>2, <2>3, <4>1 DEF ReceiveInbox, Client
        <5>. QED
          BY <2>3, <5>1
      <4>. QED
        BY <4>1
    <3>3. ~GetInbox
      BY <2>2, <2>3 DEF GetInbox, InboxCleared, Client
    <3>4. \A row : ~ReadEmail(row) /\ ~DeleteEmail(row)
      BY <2>2, <2>3 DEF ReadEmail, DeleteEmail, Client
    <3>. QED
      BY <1>1, <3>1, <3>2, <3>3, <3>4
         DEF Next, vars, MailArrives, OtherClient, ClientHandles, ReceiveResponse,
             ServerHandles, SendInboxToClient, ProcessReadCommand, ProcessDeleteCommand, Dies
  <2>5. Head(to_client).type = "ACK" /\ client'.screen = client.inbox
    BY <2>2, <2>3, <2>4 DEF ReceiveAck, NextIs, Client
  <2>6. Listed
    BY <2>1, <2>3 DEF OneExchange, Idle, Asked, Answered
  <2>7. PICK box \in reported : \E i \in 0 .. Len(Chunks(box)) :
          box \in Seq(Mail) /\ Sorted(box) /\ ListingUnderWay(box, i)
    BY <2>1, <2>6, ListedBox
  <2>8. PICK i \in 0 .. Len(Chunks(box)) : box \in Seq(Mail) /\ ListingUnderWay(box, i)
    BY <2>7
  <2>9. i = Len(Chunks(box))
    <3>1. ASSUME i < Len(Chunks(box))
          PROVE  FALSE
      <4>1. Head(to_client).type = "INBOX"
        BY <2>8, <3>1, NextOfListing DEF Chunk
      <4>. QED
        BY <2>5, <4>1
    <3>2. Len(Chunks(box)) \in Nat
      BY <2>8, NextOfListing
    <3>. QED
      BY <3>1, <3>2
  <2>10. Past(box, i) = Len(box)
    BY <2>8, <2>9, ListingElements, Zenon
  <2>11. SubSeq(box, 1, Past(box, i)) = box
    BY <2>8, <2>10, WholePart
  <2>12. /\ IsPartOf(client.inbox, box)
         /\ Len(box) <= INBOX_LIMIT => client.inbox = box
    <3>1. /\ IsPartOf(client.inbox, SubSeq(box, 1, Past(box, i)))
          /\ Len(box) <= INBOX_LIMIT => client.inbox = SubSeq(box, 1, Past(box, i))
      BY <2>8, Zenon DEF ListingUnderWay, Past
    <3>. QED
      BY <2>11, <3>1, Zenon
  <2>13. Len(box) <= INBOX_LIMIT \/ Len(box) > INBOX_LIMIT
    BY <2>8, ListingAssumption
  <2>. QED
    BY <2>5, <2>12, <2>13, Zenon
<1>2. ListingInv /\ [Next]_vars => [Complete]_vars
  BY <1>1
<1>. QED
  BY <1>2, ListingInvariant, PTL DEF Spec, PrintedListingIsComplete

(* A read or delete names the mail in the row picked on the screen, also   *)
(* when it comes during a wait, unless a listing came in that is not       *)
(* printed yet (find_id_using_index).                                      *)
THEOREM PicksAreOnTheScreen == Spec => RequestsNamePickedMail
<1>. DEFINE Named == \A row \in Ids :
                       (ReadEmail(row) \/ DeleteEmail(row)) /\ ~client.printInbox =>
                         row \in DOMAIN client.screen /\ Last(to_server').id = client.screen[row].id
<1>1. ASSUME ListingInv, NEW row \in Ids, ReadEmail(row) \/ DeleteEmail(row),
             ~client.printInbox
      PROVE  row \in DOMAIN client.screen /\ Last(to_server').id = client.screen[row].id
  <2>. DEFINE id == FindIdUsingIndex(client.inbox, row)
  <2>1. Boxes
    BY <1>1, BoxesAreParts DEF ListingInv
  <2>2. /\ row \in DOMAIN client.inbox
        /\ \E type \in {"READ", "DELETE"} :
             to_server' = Append(to_server, [type |-> type, id |-> id])
    BY <1>1 DEF ReadEmail, DeleteEmail, Ask
  <2>3. client.inbox = client.screen
    <3>1. DOMAIN <<>> = {}
      BY EmptySeq
    <3>2. client.inbox # <<>>
      BY <2>2, <3>1
    <3>. QED
      BY <1>1, <2>1, <3>2 DEF Boxes, ClientShows
  <2>4. id = client.screen[row].id
    BY <2>3 DEF FindIdUsingIndex
  <2>5. to_server \in Seq(Request)
    BY <2>1 DEF Boxes
  <2>6. PICK type \in {"READ", "DELETE"} :
          to_server' = Append(to_server, [type |-> type, id |-> id])
    BY <2>2
  <2>. DEFINE request == [type |-> type, id |-> id]
  <2>7. request.id = id
    OBVIOUS
  <2>. HIDE DEF id, request
  <2>8. Last(to_server') = request
    <3>1. to_server' = Append(to_server, request)
      BY <2>6 DEF request
    <3>2. Len(to_server) \in Nat /\ Len(to_server') = Len(to_server) + 1
      BY <2>5, <3>1
    <3>3. to_server'[Len(to_server) + 1] = request
      BY <2>5, <3>1
    <3>. QED
      BY <3>2, <3>3 DEF Last
  <2>. QED
    BY <2>2, <2>3, <2>4, <2>7, <2>8
<1>2. ListingInv /\ [Next]_vars => [Named]_vars
  BY <1>1
<1>. QED
  BY <1>2, ListingInvariant, PTL DEF Spec, RequestsNamePickedMail
=============================================================================
