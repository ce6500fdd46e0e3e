----------------------------- MODULE SessionProofs -----------------------------
(***************************************************************************)
(* Theorems about ClientSession, for every number of clients and servers   *)
(* and every bound: its inductive invariant SessionInv, and from it what   *)
(* the two ends of a session may believe of each other.                    *)
(***************************************************************************)
EXTENDS ClientSession, Minimum, TLAPS, FiniteSetTheorems, SequenceTheorems

-----------------------------------------------------------------------------
(* Sequences that grow at their end.                                       *)

(* "now" is "old" with the elements of "new" behind it.                    *)
Grown(old, now, new) ==
  /\ Len(old) <= Len(now)
  /\ \A i \in 1 .. Len(old) : now[i] = old[i]
  /\ \A i \in Len(old) + 1 .. Len(now) : now[i] \in new
  /\ \A x \in new : \E i \in Len(old) + 1 .. Len(now) : now[i] = x

(* Appending one element.                                                  *)
LEMMA GrownByOne ==
  ASSUME NEW S, NEW T, NEW old \in Seq(S), S \subseteq T, NEW x \in T
  PROVE  /\ Append(old, x) \in Seq(T)
         /\ Grown(old, Append(old, x), {x})
         /\ Len(Append(old, x)) = Len(old) + 1
<1>1. old \in Seq(T)
  BY SeqMonotonic
<1>2. /\ Append(old, x) \in Seq(T)
      /\ Len(Append(old, x)) = Len(old) + 1
      /\ \A i \in 1 .. Len(old) : Append(old, x)[i] = old[i]
      /\ Append(old, x)[Len(old) + 1] = x
      /\ Len(old) \in Nat
  BY <1>1, AppendProperties
<1>. QED
  BY <1>2, Zenon, SMT DEF Grown

(* Appending a sequence.                                                   *)
LEMMA GrownByMany ==
  ASSUME NEW T, NEW old \in Seq(T), NEW more \in Seq(T)
  PROVE  /\ old \o more \in Seq(T)
         /\ Grown(old, old \o more, Range(more))
         /\ Len(old \o more) = Len(old) + Len(more)
<1>. DEFINE now == old \o more
<1>1. /\ now \in Seq(T)
      /\ Len(now) = Len(old) + Len(more)
      /\ \A i \in 1 .. Len(old) + Len(more) :
           now[i] = IF i <= Len(old) THEN old[i] ELSE more[i - Len(old)]
      /\ Len(old) \in Nat /\ Len(more) \in Nat /\ DOMAIN more = 1 .. Len(more)
  BY ConcatProperties, LenProperties
<1>. HIDE DEF now
<1>2. \A i \in 1 .. Len(old) : now[i] = old[i]
  BY <1>1
<1>3. \A i \in Len(old) + 1 .. Len(now) : now[i] = more[i - Len(old)] /\ i - Len(old) \in DOMAIN more
  BY <1>1
<1>4. \A i \in DOMAIN more : now[i + Len(old)] = more[i] /\ i + Len(old) \in Len(old) + 1 .. Len(now)
  BY <1>1
<1>5. \A x \in Range(more) : \E i \in Len(old) + 1 .. Len(now) : now[i] = x
  BY <1>4 DEF Range
<1>6. \A i \in Len(old) + 1 .. Len(now) : now[i] \in Range(more)
  BY <1>3 DEF Range
<1>. QED
  BY <1>1, <1>2, <1>5, <1>6 DEF Grown, now

(* A sequence grows by nothing when it stays, and only then.               *)
LEMMA GrownByNone ==
  ASSUME NEW S, NEW old \in Seq(S), NEW now \in Seq(S)
  PROVE  Grown(old, now, {}) <=> now = old
<1>1. Len(old) \in Nat /\ Len(now) \in Nat
  OBVIOUS
<1>2. ASSUME Grown(old, now, {})
      PROVE  now = old
  <2>1. Len(now) = Len(old)
    BY <1>1, <1>2 DEF Grown
  <2>. QED
    BY <1>2, <2>1, SeqEqual DEF Grown
<1>. QED
  BY <1>1, <1>2 DEF Grown

(* What a grown sequence contains, and its type.                           *)
LEMMA GrownRange ==
  ASSUME NEW S, NEW T, NEW old \in Seq(S), NEW now \in Seq(T), NEW new, Grown(old, now, new)
  PROVE  /\ Range(now) = Range(old) \cup new
         /\ Range(old) \subseteq S /\ Range(now) \subseteq T
<1>1. /\ Len(old) \in Nat /\ DOMAIN old = 1 .. Len(old) /\ old \in [1 .. Len(old) -> S]
      /\ Len(now) \in Nat /\ DOMAIN now = 1 .. Len(now) /\ now \in [1 .. Len(now) -> T]
  BY LenProperties
<1>2. \A i \in 1 .. Len(now) : i \in 1 .. Len(old) \/ i \in Len(old) + 1 .. Len(now)
  BY <1>1
<1>3. \A i \in 1 .. Len(old) : i \in 1 .. Len(now)
  BY <1>1 DEF Grown
<1>4. \A i \in Len(old) + 1 .. Len(now) : i \in 1 .. Len(now)
  BY <1>1
<1>5. Range(now) \subseteq Range(old) \cup new
  BY <1>1, <1>2, Zenon DEF Range, Grown
<1>6. Range(old) \subseteq Range(now)
  BY <1>1, <1>3, Zenon DEF Range, Grown
<1>7. new \subseteq Range(now)
  BY <1>1, <1>4, Zenon DEF Range, Grown
<1>8. Range(old) \subseteq S /\ Range(now) \subseteq T
  BY <1>1, Zenon DEF Range
<1>. QED
  BY <1>5, <1>6, <1>7, <1>8

-----------------------------------------------------------------------------
(* Constants, networks and news of them.                                   *)

(* The bounds are naturals.                                                *)
LEMMA Bounds ==
  /\ MaxConnects \in Nat /\ MaxRequests \in Nat /\ MaxCrashes \in Nat
  /\ MaxNetChanges \in Nat /\ MaxSynchs \in Nat
BY SessionBoundAssumption

(* A draw fits where it may also be 0.                                     *)
LEMMA DrawsFit == \A d \in 1 .. MaxConnects + 1 : d \in 0 .. MaxConnects + 1
BY Bounds

(* A client's draws name sessions, others than no session.                 *)
LEMMA SessionNames ==
  /\ \A c \in Clients, k \in 1 .. MaxConnects + 1 : <<Seed[c], k>> \in SessionId
  /\ None \notin SessionId
BY DEF SessionId, None

(* There are finitely many processes and sessions.                         *)
LEMMA FiniteWorld == IsFiniteSet(Proc) /\ IsFiniteSet(SessionId)
<1>1. IsFiniteSet(Proc)
  BY ProcAssumption
<1>2. IsFiniteSet(Clients)
  BY <1>1, FS_Subset DEF Proc
<1>3. IsFiniteSet(1 .. MaxConnects + 1)
  BY Bounds, FS_Interval
<1>. DEFINE D == Clients \X (1 .. MaxConnects + 1)
            f == [x \in D |-> <<Seed[x[1]], x[2]>>]
<1>4. IsFiniteSet(D)
  BY <1>2, <1>3, FS_Product
<1>5. f \in [D -> SessionId]
  <2>1. \A x \in D : x[1] \in Clients /\ x[2] \in 1 .. MaxConnects + 1
    OBVIOUS
  <2>2. \A x \in D : <<Seed[x[1]], x[2]>> \in SessionId
    BY <2>1, SessionNames, Zenon
  <2>. QED
    BY <2>2
<1>6. ASSUME NEW g \in SessionId
      PROVE  \E x \in D : f[x] = g
  <2>1. PICK c \in Clients, k \in 1 .. MaxConnects + 1 : g = <<Seed[c], k>>
    BY DEF SessionId
  <2>2. <<c, k>> \in D /\ f[<<c, k>>] = g
    BY <2>1
  <2>. QED
    BY <2>2
<1>7. f \in Surjection(D, SessionId)
  BY <1>5, <1>6 DEF Surjection
<1>. HIDE DEF D, f
<1>8. IsFiniteSet(SessionId)
  BY <1>4, <1>7, FS_Surjection
<1>. QED
  BY <1>1, <1>8

(* The sequence of the elements of a finite set.                           *)
LEMMA Enumerated ==
  ASSUME NEW gs, IsFiniteSet(gs)
  PROVE  /\ Cardinality(gs) \in Nat
         /\ SetToSeq(gs) \in [1 .. Cardinality(gs) -> gs]
         /\ \A g \in gs : \E i \in 1 .. Cardinality(gs) : SetToSeq(gs)[i] = g
<1>. DEFINE k == Cardinality(gs)
<1>1. k \in Nat /\ ExistsBijection(1 .. k, gs)
  BY FS_CardinalityType
<1>2. PICK f : f \in Bijection(1 .. k, gs)
  BY <1>1 DEF ExistsBijection
<1>3. f \in [1 .. k -> gs] /\ IsInjective(f)
  BY <1>2 DEF Bijection, Injection
<1>. DEFINE s == SetToSeq(gs)
<1>4. s \in [1 .. k -> gs] /\ IsInjective(s)
  BY <1>3, Zenon DEF SetToSeq
<1>5. s \in Injection(1 .. k, gs)
  BY <1>4 DEF Injection
<1>6. IsFiniteSet(1 .. k) /\ Cardinality(1 .. k) = k
  BY <1>1, FS_Interval
<1>. HIDE DEF s, k
<1>7. k = Cardinality(gs)
  BY DEF k
<1>8. s \in Surjection(1 .. k, gs)
  BY <1>5, <1>6, <1>7, FS_Injection
<1>9. \A g \in gs : \E i \in 1 .. k : s[i] = g
  BY <1>8 DEF Surjection
<1>. QED
  BY <1>1, <1>4, <1>9 DEF s, k

(* The fields of a network.                                                *)
LEMMA NetworkFields ==
  ASSUME NEW R, NEW n \in NetworkOf(R)
  PROVE  /\ n = [up |-> n.up, side |-> n.side, members |-> n.members, incoming |-> n.incoming]
         /\ n.up \subseteq Proc
         /\ n.side \in [Proc -> {0, 1}]
         /\ n.members \in [SessionId -> SUBSET Proc]
         /\ n.incoming \in [Proc -> Seq(MembershipMessage \cup ClientMessage(R) \cup ServerMessage(R))]
         /\ \A p \in Proc : n.incoming[p] \in Seq(Receives(R, p))
BY DEF NetworkOf, Network

(* Such fields make a network.                                             *)
LEMMA NetworkMade ==
  ASSUME NEW R, NEW up \in SUBSET Proc, NEW side \in [Proc -> {0, 1}],
         NEW members \in [SessionId -> SUBSET Proc], NEW incoming,
         incoming = [p \in Proc |-> incoming[p]],
         \A p \in Proc : incoming[p] \in Seq(Receives(R, p))
  PROVE  [up |-> up, side |-> side, members |-> members, incoming |-> incoming] \in NetworkOf(R)
<1>. DEFINE M == MembershipMessage \cup ClientMessage(R) \cup ServerMessage(R)
<1>1. \A p \in Proc : Receives(R, p) \subseteq M
  BY DEF Receives
<1>2. \A p \in Proc : incoming[p] \in Seq(M)
  BY <1>1, SeqMonotonic
<1>. HIDE DEF M
<1>3. incoming \in [Proc -> Seq(M)]
  BY <1>2
<1>4. [up |-> up, side |-> side, members |-> members, incoming |-> incoming] \in Network(M)
  BY <1>3 DEF Network
<1>. QED
  BY <1>4 DEF NetworkOf, M

(* The fields of a client,                                                 *)
LEMMA ClientFields ==
  ASSUME NEW R, NEW k \in ClientVariables(R)
  PROVE  /\ k.connected \in BOOLEAN /\ k.draw \in 1 .. MaxConnects + 1
         /\ k.connection_group \in SessionId \cup {None}
         /\ k.connected_server \in Servers \cup {None}
         /\ k.listed \in BOOLEAN /\ k.blocking \in BOOLEAN /\ k.timer \in 0 .. MaxConnects + 1
         /\ k.inbox \subseteq R /\ k.printInbox \in BOOLEAN
         /\ k.awaits \in R /\ k.displayed \in BOOLEAN /\ k.screen \subseteq R
BY DEF ClientVariables

(* and one of them with another value.                                     *)
LEMMA ClientUpdated ==
  ASSUME NEW R, NEW k \in ClientVariables(R)
  PROVE  /\ \A b \in BOOLEAN : /\ [k EXCEPT !.connected = b] \in ClientVariables(R)
                               /\ [k EXCEPT !.listed = b] \in ClientVariables(R)
                               /\ [k EXCEPT !.blocking = b] \in ClientVariables(R)
                               /\ [k EXCEPT !.printInbox = b] \in ClientVariables(R)
                               /\ [k EXCEPT !.displayed = b] \in ClientVariables(R)
         /\ \A d \in 1 .. MaxConnects + 1 : [k EXCEPT !.draw = d] \in ClientVariables(R)
         /\ \A g \in SessionId : [k EXCEPT !.connection_group = g] \in ClientVariables(R)
         /\ \A s \in Servers : [k EXCEPT !.connected_server = s] \in ClientVariables(R)
         /\ \A d \in 0 .. MaxConnects + 1 : [k EXCEPT !.timer = d] \in ClientVariables(R)
         /\ \A q \in SUBSET R : /\ [k EXCEPT !.inbox = q] \in ClientVariables(R)
                                /\ [k EXCEPT !.screen = q] \in ClientVariables(R)
         /\ \A r \in R : [k EXCEPT !.awaits = r] \in ClientVariables(R)
BY DEF ClientVariables

(* The members that are there are counted.                                 *)
LEMMA PresentCount ==
  ASSUME NEW n, n.members \in [SessionId -> SUBSET Proc], NEW p, NEW g \in SessionId
  PROVE  /\ Present(n, p, g) \subseteq Proc
         /\ IsFiniteSet(Present(n, p, g))
         /\ Cardinality(Present(n, p, g)) \in 0 .. Cardinality(Proc)
<1>1. Present(n, p, g) \subseteq Proc
  BY DEF Present
<1>2. /\ IsFiniteSet(Present(n, p, g))
      /\ Cardinality(Present(n, p, g)) <= Cardinality(Proc)
  BY <1>1, FiniteWorld, FS_Subset
<1>3. Cardinality(Present(n, p, g)) \in Nat /\ Cardinality(Proc) \in Nat
  BY <1>2, FiniteWorld, FS_CardinalityType
<1>. QED
  BY <1>1, <1>2, <1>3

(* What is told is a membership message.                                   *)
LEMMA ToldTyped ==
  ASSUME NEW n, n.members \in [SessionId -> SUBSET Proc], NEW p, NEW g \in SessionId,
         NEW cause \in {"join", "leave", "network"}
  PROVE  /\ Told(n, p, g, cause) \in MembershipMessage
         /\ Told(n, p, g, cause).type = "MEMBERSHIP"
         /\ Told(n, p, g, cause).group = g
         /\ Told(n, p, g, cause).cause = cause
         /\ Told(n, p, g, cause).n_connected = Cardinality(Present(n, p, g))
<1>1. Cardinality(Present(n, p, g)) \in 0 .. Cardinality(Proc)
  BY PresentCount
<1>. QED
  BY <1>1 DEF Told, MembershipMessage

(* What process p is told of the groups gs.                                *)
Telling(n, p, gs, cause) == {Told(n, p, g, cause) : g \in gs}

(* The news of some groups: one message for each.                          *)
LEMMA NewsOf ==
  ASSUME NEW n, n.members \in [SessionId -> SUBSET Proc], NEW p, NEW gs \in SUBSET SessionId,
         NEW cause \in {"join", "leave", "network"}
  PROVE  /\ News(n, p, gs, cause) \in Seq(MembershipMessage)
         /\ Len(News(n, p, gs, cause)) = Cardinality(gs)
         /\ Range(News(n, p, gs, cause)) = Telling(n, p, gs, cause)
<1>. DEFINE k == Cardinality(gs)
            s == SetToSeq(gs)
            news == [i \in 1 .. k |-> Told(n, p, s[i], cause)]
<1>1. IsFiniteSet(gs)
  BY FiniteWorld, FS_Subset
<1>2. k \in Nat /\ s \in [1 .. k -> gs] /\ \A g \in gs : \E i \in 1 .. k : s[i] = g
  BY <1>1, Enumerated
<1>. HIDE DEF k, s
<1>3. \A i \in 1 .. k : s[i] \in gs /\ s[i] \in SessionId
  BY <1>2
<1>4. \A i \in 1 .. k : Told(n, p, s[i], cause) \in MembershipMessage
  BY <1>3, ToldTyped
<1>5. news \in Seq(MembershipMessage)
  BY <1>2, <1>4, IsASeq
<1>6. Len(news) = k
  BY <1>2
<1>7. Range(news) = Telling(n, p, gs, cause)
  <2>1. Range(news) = {Told(n, p, s[i], cause) : i \in 1 .. k}
    BY Zenon DEF Range
  <2>2. \A g \in gs : \E i \in 1 .. k : Told(n, p, s[i], cause) = Told(n, p, g, cause)
    BY <1>2, Zenon
  <2>. QED
    BY <2>1, <2>2, <1>3, Zenon DEF Telling
<1>8. news = News(n, p, gs, cause)
  BY DEF News, k, s
<1>. QED
  BY <1>5, <1>6, <1>7, <1>8 DEF k

-----------------------------------------------------------------------------
(* What the operators on networks do.                                      *)

SameGroups(n, m) == m.up = n.up /\ m.side = n.side /\ m.members = n.members

(* The receivers find x behind their other messages.                       *)
SentTo(n, m, receivers, x) ==
  /\ SameGroups(n, m)
  /\ \A q \in Proc \cap receivers :
       /\ Grown(n.incoming[q], m.incoming[q], {x})
       /\ Len(m.incoming[q]) = Len(n.incoming[q]) + 1
  /\ \A q \in Proc \ receivers : m.incoming[q] = n.incoming[q]

(* Each process finds the news of its groups behind its other messages.    *)
Announced(n, m, changed, cause) ==
  /\ SameGroups(n, m)
  /\ \A q \in Proc :
       /\ Grown(n.incoming[q], m.incoming[q], Telling(m, q, changed[q], cause))
       /\ Len(m.incoming[q]) = Len(n.incoming[q]) + Cardinality(changed[q])

(* SendAll.                                                                *)
LEMMA SendAllEffect ==
  ASSUME NEW R, NEW n \in NetworkOf(R), NEW receivers, NEW x,
         \A q \in Proc \cap receivers : x \in Receives(R, q),
         NEW m, m = SendAll(n, receivers, x)
  PROVE  m \in NetworkOf(R) /\ SentTo(n, m, receivers, x)
<1>. DEFINE inc == [q \in Proc |-> IF q \in receivers THEN Append(n.incoming[q], x) ELSE n.incoming[q]]
<1>1. /\ n.up \subseteq Proc /\ n.side \in [Proc -> {0, 1}]
      /\ n.members \in [SessionId -> SUBSET Proc]
      /\ \A p \in Proc : n.incoming[p] \in Seq(Receives(R, p))
  BY NetworkFields
<1>2. m = [up |-> n.up, side |-> n.side, members |-> n.members, incoming |-> inc]
  <2>1. m = [n EXCEPT !.incoming = inc]
    BY SMT DEF SendAll
  <2>. HIDE DEF inc
  <2>2. [n EXCEPT !.incoming = inc]
           = [up |-> n.up, side |-> n.side, members |-> n.members, incoming |-> inc]
    BY DEF NetworkOf, Network
  <2>. QED
    BY <2>1, <2>2, Zenon
<1>3. \A q \in Proc : inc[q] = IF q \in receivers THEN Append(n.incoming[q], x) ELSE n.incoming[q]
  OBVIOUS
<1>4. ASSUME NEW q \in Proc \cap receivers
      PROVE  /\ inc[q] \in Seq(Receives(R, q))
             /\ Grown(n.incoming[q], inc[q], {x})
             /\ Len(inc[q]) = Len(n.incoming[q]) + 1
  BY <1>1, <1>3, GrownByOne
<1>5. inc = [q \in Proc |-> inc[q]]
  OBVIOUS
<1>. HIDE DEF inc
<1>6. \A q \in Proc : inc[q] \in Seq(Receives(R, q))
  BY <1>1, <1>3, <1>4
<1>7. m \in NetworkOf(R)
  <2>1. [up |-> n.up, side |-> n.side, members |-> n.members, incoming |-> inc] \in NetworkOf(R)
    BY <1>1, <1>5, <1>6, NetworkMade, Zenon
  <2>. QED
    BY <1>2, <2>1, Zenon
<1>8. SameGroups(n, m) /\ m.incoming = inc
  BY <1>2 DEF SameGroups
<1>. QED
  BY <1>3, <1>4, <1>7, <1>8 DEF SentTo

(* Announce.                                                               *)
LEMMA AnnounceEffect ==
  ASSUME NEW R, NEW n \in NetworkOf(R), NEW changed \in [Proc -> SUBSET SessionId],
         NEW cause \in {"join", "leave", "network"}, NEW m, m = Announce(n, changed, cause)
  PROVE  m \in NetworkOf(R) /\ Announced(n, m, changed, cause)
<1>. DEFINE news(q) == News(n, q, changed[q], cause)
            inc == [q \in Proc |-> n.incoming[q] \o news(q)]
<1>1. /\ n.up \subseteq Proc /\ n.side \in [Proc -> {0, 1}]
      /\ n.members \in [SessionId -> SUBSET Proc]
      /\ \A p \in Proc : n.incoming[p] \in Seq(Receives(R, p))
  BY NetworkFields
<1>2. m = [up |-> n.up, side |-> n.side, members |-> n.members, incoming |-> inc]
  <2>1. m = [n EXCEPT !.incoming = inc]
    BY SMT DEF Announce
  <2>. HIDE DEF inc
  <2>2. [n EXCEPT !.incoming = inc]
           = [up |-> n.up, side |-> n.side, members |-> n.members, incoming |-> inc]
    BY DEF NetworkOf, Network
  <2>. QED
    BY <2>1, <2>2, Zenon
<1>3. m.up = n.up /\ m.side = n.side /\ m.members = n.members /\ m.incoming = inc
  BY <1>2
<1>4. \A q \in Proc : inc[q] = n.incoming[q] \o news(q)
  OBVIOUS
<1>5. inc = [q \in Proc |-> inc[q]]
  OBVIOUS
<1>. HIDE DEF inc
<1>6. \A q \in Proc : \A g : Told(m, q, g, cause) = Told(n, q, g, cause)
  BY <1>3 DEF Told, Present
<1>7. ASSUME NEW q \in Proc
      PROVE  /\ inc[q] \in Seq(Receives(R, q))
             /\ Grown(n.incoming[q], inc[q], Telling(m, q, changed[q], cause))
             /\ Len(inc[q]) = Len(n.incoming[q]) + Cardinality(changed[q])
  <2>1. /\ news(q) \in Seq(MembershipMessage)
        /\ Len(news(q)) = Cardinality(changed[q])
        /\ Range(news(q)) = Telling(n, q, changed[q], cause)
    BY <1>1, NewsOf
  <2>2. MembershipMessage \subseteq Receives(R, q)
    BY DEF Receives
  <2>3. news(q) \in Seq(Receives(R, q))
    BY <2>1, <2>2, SeqMonotonic
  <2>4. Telling(m, q, changed[q], cause) = Telling(n, q, changed[q], cause)
    BY <1>6 DEF Telling
  <2>. HIDE DEF news
  <2>5. /\ inc[q] \in Seq(Receives(R, q))
        /\ Grown(n.incoming[q], inc[q], Range(news(q)))
        /\ Len(inc[q]) = Len(n.incoming[q]) + Len(news(q))
    BY <1>1, <1>4, <2>3, GrownByMany
  <2>. QED
    BY <2>1, <2>4, <2>5
<1>8. m \in NetworkOf(R)
  <2>1. [up |-> n.up, side |-> n.side, members |-> n.members, incoming |-> inc] \in NetworkOf(R)
    BY <1>1, <1>5, <1>7, NetworkMade, Zenon
  <2>. QED
    BY <1>2, <2>1, Zenon
<1>. QED
  BY <1>3, <1>7, <1>8 DEF Announced, SameGroups

(* Those who are told when p joins g.                                      *)
Greeted(n, p, g, q) ==
  p \notin n.members[g] /\ (q = p \/ (q \in n.members[g] /\ n.side[q] = n.side[p]))

(* One member more, of whom those that are there are told.                 *)
JoinedBy(n, m, p, g) ==
  /\ m.up = n.up /\ m.side = n.side
  /\ \A h \in SessionId : m.members[h] = IF h = g THEN n.members[g] \cup {p} ELSE n.members[h]
  /\ \A q \in Proc :
       /\ Greeted(n, p, g, q) =>
            /\ Grown(n.incoming[q], m.incoming[q], {Told(m, q, g, "join")})
            /\ Len(m.incoming[q]) = Len(n.incoming[q]) + 1
       /\ ~Greeted(n, p, g, q) => m.incoming[q] = n.incoming[q]

(* Join.                                                                   *)
LEMMA JoinEffect ==
  ASSUME NEW R, NEW n \in NetworkOf(R), NEW p \in Proc, NEW g \in SessionId,
         NEW m, m = Join(n, p, g)
  PROVE  m \in NetworkOf(R) /\ JoinedBy(n, m, p, g)
<1>0. n.members \in [SessionId -> SUBSET Proc] /\ \A q \in Proc : n.incoming[q] \in Seq(Receives(R, q))
  BY NetworkFields
<1>1. CASE p \in n.members[g]
  <2>1. m = n
    BY <1>1 DEF Join
  <2>2. \A q \in Proc : ~Greeted(n, p, g, q)
    BY <1>1 DEF Greeted
  <2>. QED
    BY <1>0, <1>1, <2>1, <2>2 DEF JoinedBy
<1>2. CASE p \notin n.members[g]
  <2>. DEFINE members == [n.members EXCEPT ![g] = n.members[g] \cup {p}]
              joined == [n EXCEPT !.members = members]
              changed == [q \in Proc |-> IF q = p THEN {g}
                                         ELSE IF n.side[q] # n.side[p] THEN {}
                                         ELSE {h \in {g} : q \in members[h]}]
  <2>1. members \in [SessionId -> SUBSET Proc]
    BY <1>0
  <2>2. /\ joined \in NetworkOf(R) /\ joined.up = n.up /\ joined.side = n.side
        /\ joined.members = members /\ joined.incoming = n.incoming
    <3>. HIDE DEF members
    <3>. QED
      BY <2>1 DEF NetworkOf, Network
  <2>3. m = Announce(joined, changed, "join")
    <3>1. joined = [n EXCEPT !.members[g] = @ \cup {p}]
      OBVIOUS
    <3>. HIDE DEF joined
    <3>2. changed = [Peers(joined, p, {g}) EXCEPT ![p] = {g}]
      BY <2>2 DEF Peers
    <3>. HIDE DEF changed, members
    <3>. QED
      BY <1>2, <3>1, <3>2, Zenon DEF Join
  <2>4. changed \in [Proc -> SUBSET SessionId]
    OBVIOUS
  <2>5. \A q \in Proc : changed[q] = IF Greeted(n, p, g, q) THEN {g} ELSE {}
    BY <1>0, <1>2 DEF Greeted
  <2>6. \A h \in SessionId : members[h] = IF h = g THEN n.members[g] \cup {p} ELSE n.members[h]
    BY <1>0
  <2>. HIDE DEF changed, joined, members
  <2>7. m \in NetworkOf(R) /\ Announced(joined, m, changed, "join")
    BY <2>2, <2>3, <2>4, AnnounceEffect, Zenon
  <2>8. ASSUME NEW q \in Proc, Greeted(n, p, g, q)
        PROVE  /\ Grown(n.incoming[q], m.incoming[q], {Told(m, q, g, "join")})
               /\ Len(m.incoming[q]) = Len(n.incoming[q]) + 1
    <3>1. changed[q] = {g}
      BY <2>5, <2>8
    <3>2. Cardinality({g}) = 1
      BY FS_Singleton
    <3>3. Telling(m, q, {g}, "join") = {Told(m, q, g, "join")}
      BY DEF Telling
    <3>. QED
      BY <2>2, <2>7, <3>1, <3>2, <3>3 DEF Announced
  <2>9. ASSUME NEW q \in Proc, ~Greeted(n, p, g, q)
        PROVE  m.incoming[q] = n.incoming[q]
    <3>1. changed[q] = {} /\ Telling(m, q, {}, "join") = {}
      BY <2>5, <2>9 DEF Telling
    <3>2. Grown(n.incoming[q], m.incoming[q], {})
      BY <2>2, <2>7, <3>1 DEF Announced
    <3>3. m.incoming[q] \in Seq(Receives(R, q))
      BY <2>7, NetworkFields
    <3>. QED
      BY <1>0, <3>2, <3>3, GrownByNone
  <2>. QED
    BY <2>2, <2>6, <2>7, <2>8, <2>9 DEF Announced, SameGroups, JoinedBy
<1>. QED
  BY <1>1, <1>2

(* The groups of gs that q sees p leave.                                   *)
Missed(n, p, gs, q) ==
  {g \in gs : q # p /\ n.side[q] = n.side[p] /\ p \in n.members[g] /\ q \in n.members[g]}

(* One member less, of which the others are told.                          *)
LeftBy(n, m, p, gs) ==
  /\ m.up = n.up /\ m.side = n.side
  /\ \A h \in SessionId : m.members[h] = IF h \in gs THEN n.members[h] \ {p} ELSE n.members[h]
  /\ \A q \in Proc : Grown(n.incoming[q], m.incoming[q], Telling(m, q, Missed(n, p, gs, q), "leave"))

(* LeaveAll.                                                               *)
LEMMA LeaveAllEffect ==
  ASSUME NEW R, NEW n \in NetworkOf(R), NEW p \in Proc, NEW gs \in SUBSET SessionId,
         NEW m, m = LeaveAll(n, p, gs)
  PROVE  m \in NetworkOf(R) /\ LeftBy(n, m, p, gs)
<1>0. n.members \in [SessionId -> SUBSET Proc] /\ n.side \in [Proc -> {0, 1}]
  BY NetworkFields
<1>. DEFINE members == [h \in SessionId |-> IF h \in gs THEN n.members[h] \ {p} ELSE n.members[h]]
            left == [n EXCEPT !.members = members]
            changed == [q \in Proc |-> IF q = p \/ n.side[q] # n.side[p] THEN {}
                                       ELSE {g \in {h \in gs : p \in n.members[h]} : q \in members[g]}]
<1>1. members \in [SessionId -> SUBSET Proc]
  BY <1>0
<1>2. /\ left \in NetworkOf(R) /\ left.up = n.up /\ left.side = n.side
      /\ left.members = members /\ left.incoming = n.incoming
  <2>. HIDE DEF members
  <2>. QED
    BY <1>1 DEF NetworkOf, Network
<1>3. m = Announce(left, changed, "leave")
  <2>1. left = [n EXCEPT !.members = [g \in SessionId |-> IF g \in gs THEN @[g] \ {p} ELSE @[g]]]
    OBVIOUS
  <2>. HIDE DEF left
  <2>2. changed = Peers(left, p, {g \in gs : p \in n.members[g]})
    BY <1>2 DEF Peers
  <2>. HIDE DEF changed, members
  <2>. QED
    BY <2>1, <2>2, Zenon DEF LeaveAll
<1>4. changed \in [Proc -> SUBSET SessionId]
  OBVIOUS
<1>5. \A q \in Proc : changed[q] = Missed(n, p, gs, q)
  BY <1>0 DEF Missed
<1>6. \A h \in SessionId : members[h] = IF h \in gs THEN n.members[h] \ {p} ELSE n.members[h]
  OBVIOUS
<1>. HIDE DEF changed, left, members
<1>7. m \in NetworkOf(R) /\ Announced(left, m, changed, "leave")
  BY <1>2, <1>3, <1>4, AnnounceEffect, Zenon
<1>. QED
  BY <1>2, <1>5, <1>6, <1>7 DEF Announced, SameGroups, LeftBy

(* Leave: of one group, or of none.                                        *)
LEMMA LeaveEffect ==
  ASSUME NEW R, NEW n \in NetworkOf(R), NEW p \in Proc, NEW g, NEW m, m = Leave(n, p, g)
  PROVE  m \in NetworkOf(R) /\ LeftBy(n, m, p, {g} \cap SessionId)
<1>1. {g} \cap SessionId \in SUBSET SessionId
  OBVIOUS
<1>2. m = LeaveAll(n, p, {g} \cap SessionId)
  BY DEF Leave
<1>. QED
  BY <1>1, <1>2, LeaveAllEffect, Zenon

(* The process is down, and the others are told.                           *)
GoneFrom(n, m, p) ==
  /\ m.up = n.up \ {p} /\ m.side = n.side
  /\ \A h \in SessionId : m.members[h] = n.members[h] \ {p}
  /\ m.incoming[p] = <<>>
  /\ \A q \in Proc \ {p} :
       Grown(n.incoming[q], m.incoming[q], Telling(m, q, Missed(n, p, SessionId, q), "leave"))

(* Exit.                                                                   *)
LEMMA ExitEffect ==
  ASSUME NEW R, NEW n \in NetworkOf(R), NEW p \in Proc, NEW m, m = Exit(n, p)
  PROVE  m \in NetworkOf(R) /\ GoneFrom(n, m, p)
<1>. DEFINE left == LeaveAll(n, p, SessionId)
            up == n.up \ {p}
            inc == [left.incoming EXCEPT ![p] = <<>>]
<1>1. left \in NetworkOf(R) /\ LeftBy(n, left, p, SessionId)
  BY LeaveAllEffect
<1>. HIDE DEF left
<1>2. left.up = n.up /\ left.side = n.side
  BY <1>1 DEF LeftBy
<1>3. /\ up \in SUBSET Proc /\ left.side \in [Proc -> {0, 1}]
      /\ left.members \in [SessionId -> SUBSET Proc]
      /\ \A q \in Proc : left.incoming[q] \in Seq(Receives(R, q))
  BY <1>1, <1>2, NetworkFields
<1>4. m = [up |-> up, side |-> left.side, members |-> left.members, incoming |-> inc]
  <2>1. left = [up |-> left.up, side |-> left.side, members |-> left.members, incoming |-> left.incoming]
    BY <1>1, NetworkFields
  <2>2. m = [left EXCEPT !.up = @ \ {p}, !.incoming[p] = <<>>]
    BY DEF Exit, left
  <2>. QED
    BY <1>2, <2>1, <2>2
<1>5. \A q \in Proc : inc[q] = IF q = p THEN <<>> ELSE left.incoming[q]
  BY <1>1, NetworkFields
<1>10. inc = [q \in Proc |-> inc[q]]
  BY <1>1, NetworkFields
<1>. HIDE DEF inc, up
<1>6. ASSUME NEW q \in Proc
      PROVE  inc[q] \in Seq(Receives(R, q))
  <2>1. CASE q = p
    <3>1. inc[q] = <<>>
      BY <1>5, <2>1
    <3>. QED
      BY <3>1, EmptySeq
  <2>2. CASE q # p
    BY <1>3, <1>5, <2>2
  <2>. QED
    BY <2>1, <2>2
<1>7. m \in NetworkOf(R)
  <2>1. [up |-> up, side |-> left.side, members |-> left.members, incoming |-> inc] \in NetworkOf(R)
    BY <1>3, <1>10, <1>6, NetworkMade, Zenon
  <2>. QED
    BY <1>4, <2>1, Zenon
<1>8. m.up = up /\ m.side = n.side /\ m.members = left.members /\ m.incoming = inc
  BY <1>2, <1>4
<1>9. ASSUME NEW q \in Proc \ {p}
      PROVE  Grown(n.incoming[q], m.incoming[q], Telling(m, q, Missed(n, p, SessionId, q), "leave"))
  <2>1. Grown(n.incoming[q], left.incoming[q], Telling(left, q, Missed(n, p, SessionId, q), "leave"))
    BY <1>1 DEF LeftBy
  <2>2. \A g : Told(m, q, g, "leave") = Told(left, q, g, "leave")
    BY <1>2, <1>8 DEF Told, Present
  <2>3. Telling(m, q, Missed(n, p, SessionId, q), "leave")
           = Telling(left, q, Missed(n, p, SessionId, q), "leave")
    BY <2>2 DEF Telling
  <2>. QED
    BY <1>5, <1>8, <2>1, <2>3
<1>. QED
  BY <1>1, <1>5, <1>7, <1>8, <1>9 DEF GoneFrom, LeftBy, up

(* The groups in which q sees others than before.                          *)
Regrouped(n, m, q) == {g \in SessionId : q \in n.members[g] /\ Present(n, q, g) # Present(m, q, g)}

(* Processes change sides, and those whose groups change are told.         *)
MovedTo(n, m, side) ==
  /\ m.up = n.up /\ m.side = side /\ m.members = n.members
  /\ \A q \in Proc : Grown(n.incoming[q], m.incoming[q], Telling(m, q, Regrouped(n, m, q), "network"))

(* Rearranged.                                                             *)
LEMMA RearrangedEffect ==
  ASSUME NEW R, NEW n \in NetworkOf(R), NEW side \in [Proc -> {0, 1}],
         NEW m, m = Rearranged(n, side)
  PROVE  m \in NetworkOf(R) /\ MovedTo(n, m, side)
<1>. DEFINE new == [n EXCEPT !.side = side]
            changed == [q \in Proc |-> Regrouped(n, new, q)]
<1>1. /\ new \in NetworkOf(R) /\ new.up = n.up /\ new.side = side
      /\ new.members = n.members /\ new.incoming = n.incoming
  BY DEF NetworkOf, Network
<1>2. m = Announce(new, changed, "network")
  BY DEF Rearranged, Regrouped
<1>3. changed \in [Proc -> SUBSET SessionId]
  BY DEF Regrouped
<1>4. \A q \in Proc : changed[q] = Regrouped(n, new, q)
  OBVIOUS
<1>. HIDE DEF changed, new
<1>5. m \in NetworkOf(R) /\ Announced(new, m, changed, "network")
  BY <1>1, <1>2, <1>3, AnnounceEffect, Zenon
<1>6. SameGroups(new, m)
  BY <1>5 DEF Announced
<1>7. \A q \in Proc : \A g : Present(new, q, g) = Present(m, q, g)
  BY <1>6 DEF SameGroups, Present
<1>8. \A q \in Proc : changed[q] = Regrouped(n, m, q)
  BY <1>4, <1>7 DEF Regrouped
<1>. QED
  BY <1>1, <1>5, <1>6, <1>8 DEF Announced, SameGroups, MovedTo

(* The first message of p is gone.                                         *)
Taken(n, m, p) ==
  /\ SameGroups(n, m)
  /\ \A q \in Proc \ {p} : m.incoming[q] = n.incoming[q]
  /\ Len(n.incoming[p]) = Len(m.incoming[p]) + 1
  /\ \A i \in 1 .. Len(m.incoming[p]) : m.incoming[p][i] = n.incoming[p][i + 1]

(* Received.                                                               *)
LEMMA ReceivedEffect ==
  ASSUME NEW R, net \in NetworkOf(R), NEW p \in Proc, net.incoming[p] # <<>>
  PROVE  /\ Received(p) \in NetworkOf(R) /\ Taken(net, Received(p), p)
         /\ Next1(p) = net.incoming[p][1] /\ Next1(p) \in Receives(R, p)
<1>. DEFINE m == Received(p)
            inc == [net.incoming EXCEPT ![p] = Tail(@)]
<1>1. /\ net.up \in SUBSET Proc /\ net.side \in [Proc -> {0, 1}]
      /\ net.members \in [SessionId -> SUBSET Proc]
      /\ DOMAIN net.incoming = Proc
      /\ net.incoming = [q \in Proc |-> net.incoming[q]]
      /\ \A q \in Proc : net.incoming[q] \in Seq(Receives(R, q))
  BY NetworkFields
<1>2. m = [up |-> net.up, side |-> net.side, members |-> net.members, incoming |-> inc]
  <2>1. m = [net EXCEPT !.incoming = inc]
    BY DEF Received
  <2>. HIDE DEF m, inc
  <2>2. [net EXCEPT !.incoming = inc]
           = [up |-> net.up, side |-> net.side, members |-> net.members, incoming |-> inc]
    BY DEF NetworkOf, Network
  <2>. QED
    BY <2>1, <2>2, Zenon
<1>3. /\ inc = [q \in Proc |-> inc[q]]
      /\ \A q \in Proc : inc[q] = IF q = p THEN Tail(net.incoming[p]) ELSE net.incoming[q]
  BY <1>1
<1>. HIDE DEF inc, m
<1>4. /\ Head(net.incoming[p]) \in Receives(R, p)
      /\ Tail(net.incoming[p]) \in Seq(Receives(R, p))
      /\ Len(Tail(net.incoming[p])) = Len(net.incoming[p]) - 1
      /\ \A i \in 1 .. Len(Tail(net.incoming[p])) : Tail(net.incoming[p])[i] = net.incoming[p][i + 1]
      /\ Len(net.incoming[p]) \in Nat
  BY <1>1, HeadTailProperties
<1>5. \A q \in Proc : inc[q] \in Seq(Receives(R, q))
  BY <1>1, <1>3, <1>4
<1>6. m \in NetworkOf(R)
  <2>1. [up |-> net.up, side |-> net.side, members |-> net.members, incoming |-> inc] \in NetworkOf(R)
    BY <1>1, <1>3, <1>5, NetworkMade, Zenon
  <2>. QED
    BY <1>2, <2>1, Zenon
<1>7. SameGroups(net, m) /\ m.incoming = inc
  BY <1>2 DEF SameGroups
<1>8. Head(net.incoming[p]) = net.incoming[p][1]
  OBVIOUS
<1>. QED
  BY <1>3, <1>4, <1>6, <1>7, <1>8 DEF Taken, Next1, m

-----------------------------------------------------------------------------
(* Handlers that send nothing but answers, acknowledgements and commands.  *)

(* Growing twice.                                                          *)
LEMMA GrownTwice ==
  ASSUME NEW S, NEW a \in Seq(S), NEW b \in Seq(S), NEW c \in Seq(S), NEW x, NEW y,
         Grown(a, b, x), Grown(b, c, y)
  PROVE  Grown(a, c, x \cup y)
<1>1. Len(a) \in Nat /\ Len(b) \in Nat /\ Len(c) \in Nat
  OBVIOUS
<1>2. Len(a) <= Len(b) /\ Len(b) <= Len(c)
  BY DEF Grown
<1>3. \A i \in 1 .. Len(a) : i \in 1 .. Len(b) /\ b[i] = a[i]
  BY <1>1, <1>2 DEF Grown
<1>4. \A i \in 1 .. Len(b) : c[i] = b[i]
  BY DEF Grown
<1>5. \A i \in Len(a) + 1 .. Len(c) : c[i] \in x \cup y
  <2>1. \A i \in Len(a) + 1 .. Len(c) : (i \in Len(a) + 1 .. Len(b) /\ i \in 1 .. Len(b))
                                        \/ i \in Len(b) + 1 .. Len(c)
    BY <1>1
  <2>. QED
    BY <2>1, <1>4, Zenon DEF Grown
<1>6. \A z \in x \cup y : \E i \in Len(a) + 1 .. Len(c) : c[i] = z
  <2>1. \A i \in Len(a) + 1 .. Len(b) : i \in 1 .. Len(b) /\ i \in Len(a) + 1 .. Len(c)
    BY <1>1, <1>2
  <2>2. \A i \in Len(b) + 1 .. Len(c) : i \in Len(a) + 1 .. Len(c)
    BY <1>1, <1>2
  <2>3. \A z \in x : \E i \in Len(a) + 1 .. Len(b) : b[i] = z
    BY DEF Grown
  <2>4. \A z \in y : \E i \in Len(b) + 1 .. Len(c) : c[i] = z
    BY DEF Grown
  <2>. QED
    BY <1>4, <2>1, <2>2, <2>3, <2>4, Zenon
<1>. QED
  BY <1>1, <1>2, <1>3, <1>4, <1>5, <1>6 DEF Grown

(* Whatever speaks of some requests speaks of more.                        *)
LEMMA TypesGrow ==
  ASSUME NEW R, NEW T, R \subseteq T
  PROVE  /\ ClientVariables(R) \subseteq ClientVariables(T)
         /\ ServerVariables(R) \subseteq ServerVariables(T)
         /\ \A p \in Proc : Receives(R, p) \subseteq Receives(T, p)
         /\ NetworkOf(R) \subseteq NetworkOf(T)
<1>1. ClientVariables(R) \subseteq ClientVariables(T)
  BY DEF ClientVariables
<1>2. Stashed(R) \subseteq Stashed(T)
  BY DEF Stashed
<1>3. ServerVariables(R) \subseteq ServerVariables(T)
  <2>1. Seq(Stashed(R)) \subseteq Seq(Stashed(T))
    BY <1>2, SeqMonotonic
  <2>. QED
    BY <2>1 DEF ServerVariables
<1>4. ClientMessage(R) \subseteq ClientMessage(T)
  BY DEF ClientMessage
<1>5. ServerMessage(R) \subseteq ServerMessage(T)
  BY <1>2 DEF ServerMessage
<1>6. \A p \in Proc : Receives(R, p) \subseteq Receives(T, p)
  BY <1>4, <1>5 DEF Receives
<1>7. ASSUME NEW n \in NetworkOf(R)
      PROVE  n \in NetworkOf(T)
  <2>. DEFINE M == MembershipMessage \cup ClientMessage(R) \cup ServerMessage(R)
              N == MembershipMessage \cup ClientMessage(T) \cup ServerMessage(T)
  <2>1. M \subseteq N
    BY <1>4, <1>5
  <2>2. Seq(M) \subseteq Seq(N)
    BY <2>1, SeqMonotonic
  <2>3. n \in Network(M) /\ \A p \in Proc : n.incoming[p] \in Seq(Receives(R, p))
    BY DEF NetworkOf
  <2>. HIDE DEF M, N
  <2>4. n \in Network(N)
    BY <2>2, <2>3 DEF Network
  <2>5. \A p \in Proc : n.incoming[p] \in Seq(Receives(T, p))
    BY <1>6, <2>3, SeqMonotonic
  <2>. QED
    BY <2>4, <2>5 DEF NetworkOf, N
<1>. QED
  BY <1>1, <1>3, <1>6, <1>7

(* Only processes that are up belong to a group.                           *)
MembersUp(n) == \A g \in SessionId : n.members[g] \subseteq n.up

(* A message that is neither of a group's members nor a CONNECT, and when  *)
(* it is an ACK has one of the given bodies.                               *)
Plain(x, bodies) == x.type \notin {"MEMBERSHIP", "CONNECT"} /\ (x.type = "ACK" => x.body \in bodies)

(* From n to m only plain messages were sent, to processes that are up.    *)
Sends(n, m, bodies) ==
  /\ SameGroups(n, m)
  /\ \A q \in Proc :
       /\ Len(n.incoming[q]) <= Len(m.incoming[q])
       /\ \A i \in 1 .. Len(n.incoming[q]) : m.incoming[q][i] = n.incoming[q][i]
       /\ \A i \in Len(n.incoming[q]) + 1 .. Len(m.incoming[q]) : Plain(m.incoming[q][i], bodies)
       /\ q \notin n.up => m.incoming[q] = n.incoming[q]

(* Sending nothing, and sending more.                                      *)
LEMMA SendsTwice ==
  ASSUME NEW R, NEW n \in NetworkOf(R), NEW B
  PROVE  /\ Sends(n, n, B)
         /\ \A m, r \in NetworkOf(R) : Sends(n, m, B) /\ Sends(m, r, B) => Sends(n, r, B)
<1>1. \A m \in NetworkOf(R), q \in Proc : Len(m.incoming[q]) \in Nat
  BY NetworkFields, LenProperties
<1>2. Sends(n, n, B)
  BY <1>1 DEF Sends, SameGroups
<1>3. ASSUME NEW m \in NetworkOf(R), NEW r \in NetworkOf(R), Sends(n, m, B), Sends(m, r, B)
      PROVE  Sends(n, r, B)
  <2>1. SameGroups(n, r) /\ m.up = n.up
    BY <1>3 DEF Sends, SameGroups
  <2>2. ASSUME NEW q \in Proc
        PROVE  /\ Len(n.incoming[q]) <= Len(r.incoming[q])
               /\ \A i \in 1 .. Len(n.incoming[q]) : r.incoming[q][i] = n.incoming[q][i]
               /\ \A i \in Len(n.incoming[q]) + 1 .. Len(r.incoming[q]) : Plain(r.incoming[q][i], B)
               /\ q \notin n.up => r.incoming[q] = n.incoming[q]
    <3>. DEFINE a == n.incoming[q]  b == m.incoming[q]  c == r.incoming[q]
    <3>1. Len(a) \in Nat /\ Len(b) \in Nat /\ Len(c) \in Nat
      BY <1>1, <1>3
    <3>2. /\ Len(a) <= Len(b) /\ Len(b) <= Len(c)
          /\ \A i \in 1 .. Len(a) : b[i] = a[i]
          /\ \A i \in 1 .. Len(b) : c[i] = b[i]
          /\ \A i \in Len(a) + 1 .. Len(b) : Plain(b[i], B)
          /\ \A i \in Len(b) + 1 .. Len(c) : Plain(c[i], B)
          /\ q \notin n.up => b = a /\ c = b
      BY <1>3, <2>1 DEF Sends
    <3>. HIDE DEF a, b, c
    <3>3. \A i \in 1 .. Len(a) : c[i] = a[i]
      BY <3>1, <3>2
    <3>4. ASSUME NEW i \in Len(a) + 1 .. Len(c)
          PROVE  Plain(c[i], B)
      <4>1. CASE i <= Len(b)
        <5>1. i \in 1 .. Len(b) /\ i \in Len(a) + 1 .. Len(b)
          BY <3>1, <4>1
        <5>2. c[i] = b[i] /\ Plain(b[i], B)
          BY <3>2, <5>1
        <5>. QED
          BY <5>2
      <4>2. CASE ~ (i <= Len(b))
        <5>1. i \in Len(b) + 1 .. Len(c)
          BY <3>1, <4>2
        <5>. QED
          BY <3>2, <5>1
      <4>. QED
        BY <4>1, <4>2
    <3>. QED
      BY <3>1, <3>2, <3>3, <3>4 DEF a, b, c
  <2>. QED
    BY <2>1, <2>2 DEF Sends
<1>. QED
  BY <1>2, <1>3

(* More bodies are allowed.                                                *)
LEMMA SendsWeaker ==
  ASSUME NEW n, NEW m, NEW B, NEW C, B \subseteq C, Sends(n, m, B)
  PROVE  Sends(n, m, C)
BY DEF Sends, Plain

(* A plain message to receivers that are up.                               *)
LEMMA SentToSends ==
  ASSUME NEW R, NEW n \in NetworkOf(R), NEW m \in NetworkOf(R), NEW receivers, NEW x, NEW B,
         receivers \cap Proc \subseteq n.up, Plain(x, B), SentTo(n, m, receivers, x)
  PROVE  Sends(n, m, B)
<1>1. \A q \in Proc : Len(n.incoming[q]) \in Nat
  BY NetworkFields, LenProperties
<1>2. ASSUME NEW q \in Proc \cap receivers
      PROVE  /\ Len(n.incoming[q]) <= Len(m.incoming[q])
             /\ \A i \in 1 .. Len(n.incoming[q]) : m.incoming[q][i] = n.incoming[q][i]
             /\ \A i \in Len(n.incoming[q]) + 1 .. Len(m.incoming[q]) : Plain(m.incoming[q][i], B)
             /\ q \in n.up
  <2>1. Grown(n.incoming[q], m.incoming[q], {x}) /\ q \in n.up
    BY DEF SentTo
  <2>. QED
    BY <2>1, Zenon DEF Grown
<1>3. ASSUME NEW q \in Proc \ receivers
      PROVE  /\ Len(n.incoming[q]) <= Len(m.incoming[q])
             /\ \A i \in 1 .. Len(n.incoming[q]) : m.incoming[q][i] = n.incoming[q][i]
             /\ \A i \in Len(n.incoming[q]) + 1 .. Len(m.incoming[q]) : Plain(m.incoming[q][i], B)
             /\ m.incoming[q] = n.incoming[q]
  <2>1. m.incoming[q] = n.incoming[q]
    BY DEF SentTo
  <2>. QED
    BY <1>1, <2>1
<1>. QED
  BY <1>2, <1>3 DEF Sends, SentTo

(* The members that p sees in a group are up.                              *)
LEMMA PresentUp ==
  ASSUME NEW R, NEW n \in NetworkOf(R), MembersUp(n), NEW p, NEW g \in SessionId
  PROVE  Present(n, p, g) \subseteq n.up
BY DEF Present, MembersUp

(* What a client may be sent.                                              *)
LEMMA ClientsReceive ==
  ASSUME NEW R, NEW q \in Proc \cap Clients
  PROVE  /\ Receives(R, q) = MembershipMessage \cup ClientMessage(R)
         /\ ClientMessage(R) \subseteq Receives(R, q)
BY DEF Receives

(* What a server may be sent.                                              *)
LEMMA ServersReceive ==
  ASSUME NEW R, NEW q \in Proc \cap Servers
  PROVE  /\ Receives(R, q) = MembershipMessage \cup ServerMessage(R)
         /\ ServerMessage(R) \subseteq Receives(R, q)
BY ProcAssumption DEF Receives

(* SendToClient.                                                           *)
LEMMA SendToClientEffect ==
  ASSUME NEW R, NEW n \in NetworkOf(R), NEW p, NEW g \in SessionId,
         NEW x \in ClientMessage(R), NEW m, m = SendToClient(n, p, g, x)
  PROVE  m \in NetworkOf(R) /\ SentTo(n, m, Present(n, p, g) \cap Clients, x)
<1>1. \A q \in Proc \cap (Present(n, p, g) \cap Clients) : x \in Receives(R, q)
  BY ClientsReceive
<1>2. m = SendAll(n, Present(n, p, g) \cap Clients, x)
  BY DEF SendToClient
<1>. QED
  BY <1>1, <1>2, SendAllEffect, Zenon

(* Those of the processes ps that p can reach.                             *)
Within(n, p, ps) == {q \in n.up \cap ps : n.side[q] = n.side[p]}

(* SendToServer.                                                           *)
LEMMA SendToServerEffect ==
  ASSUME NEW R, NEW n \in NetworkOf(R), NEW p, NEW s, s \in Servers \/ s \notin n.up,
         NEW x \in ServerMessage(R), NEW m, m = SendToServer(n, p, s, x)
  PROVE  /\ m \in NetworkOf(R)
         /\ SentTo(n, m, Within(n, p, {s}), x)
<1>. DEFINE receivers == Within(n, p, {s})
<1>1. \A q \in Proc \cap receivers : x \in Receives(R, q)
  BY ServersReceive DEF Within
<1>2. m = SendAll(n, receivers, x)
  BY DEF SendToServer, Within
<1>. HIDE DEF receivers
<1>3. m \in NetworkOf(R) /\ SentTo(n, m, receivers, x)
  BY <1>1, <1>2, SendAllEffect, Zenon
<1>. QED
  BY <1>3 DEF receivers

(* SendToServers.                                                          *)
LEMMA SendToServersEffect ==
  ASSUME NEW R, NEW n \in NetworkOf(R), NEW p,
         NEW x \in ServerMessage(R), NEW m, m = SendToServers(n, p, x)
  PROVE  /\ m \in NetworkOf(R)
         /\ SentTo(n, m, Within(n, p, Servers), x)
<1>. DEFINE receivers == Within(n, p, Servers)
<1>1. \A q \in Proc \cap receivers : x \in Receives(R, q)
  BY ServersReceive DEF Within
<1>2. m = SendAll(n, receivers, x)
  BY DEF SendToServers, Within
<1>. HIDE DEF receivers
<1>3. m \in NetworkOf(R) /\ SentTo(n, m, receivers, x)
  BY <1>1, <1>2, SendAllEffect, Zenon
<1>. QED
  BY <1>3 DEF receivers

(* An acknowledgement or an answer.                                        *)
Replies(R, body, x) ==
  x \in ClientMessage(R) /\ x.type \in Answers \cup {"ACK"} /\ (x.type = "ACK" => x.body = body)

(* Replying sends a plain message.                                         *)
LEMMA ReplySends ==
  ASSUME NEW R, NEW n \in NetworkOf(R), MembersUp(n), NEW p, NEW g \in SessionId,
         NEW x, NEW body, Replies(R, body, x), NEW m, m = SendToClient(n, p, g, x)
  PROVE  m \in NetworkOf(R) /\ Sends(n, m, {body}) /\ MembersUp(m)
<1>1. m \in NetworkOf(R) /\ SentTo(n, m, Present(n, p, g) \cap Clients, x)
  BY SendToClientEffect DEF Replies
<1>2. Present(n, p, g) \cap Clients \cap Proc \subseteq n.up
  BY PresentUp
<1>3. Plain(x, {body})
  BY DEF Plain, Replies, Answers
<1>4. Sends(n, m, {body})
  BY <1>1, <1>2, <1>3, SentToSends
<1>. QED
  BY <1>1, <1>4 DEF Sends, SameGroups, MembersUp

(* Ack and Answer, for a message about a session and a request.            *)
LEMMA AckSends ==
  ASSUME NEW R, NEW n \in NetworkOf(R), MembersUp(n), NEW s, NEW x, x.id \in SessionId, x.req \in R
  PROVE  /\ \A body \in Kinds \cup {"refused", "missing"} :
              LET m == Ack(n, s, x, body) IN m \in NetworkOf(R) /\ Sends(n, m, {body}) /\ MembersUp(m)
         /\ \A type \in Answers : \A body :
              LET m == Answer(n, s, x, type) IN m \in NetworkOf(R) /\ Sends(n, m, {body}) /\ MembersUp(m)
<1>1. ASSUME NEW body \in Kinds \cup {"refused", "missing"}
      PROVE  LET m == Ack(n, s, x, body) IN m \in NetworkOf(R) /\ Sends(n, m, {body}) /\ MembersUp(m)
  <2>. DEFINE y == [type |-> "ACK", req |-> x.req, body |-> body]
  <2>1. Replies(R, body, y)
    BY DEF Replies, ClientMessage
  <2>2. Ack(n, s, x, body) = SendToClient(n, s, x.id, y)
    BY DEF Ack
  <2>. HIDE DEF y
  <2>. QED
    BY <2>1, <2>2, ReplySends
<1>2. ASSUME NEW type \in Answers, NEW body
      PROVE  LET m == Answer(n, s, x, type) IN m \in NetworkOf(R) /\ Sends(n, m, {body}) /\ MembersUp(m)
  <2>. DEFINE y == [type |-> type, req |-> x.req]
  <2>1. Replies(R, body, y)
    BY DEF Replies, ClientMessage, Answers
  <2>2. Answer(n, s, x, type) = SendToClient(n, s, x.id, y)
    BY DEF Answer
  <2>. HIDE DEF y
  <2>. QED
    BY <2>1, <2>2, ReplySends
<1>. QED
  BY <1>1, <1>2

(* A request that changes something, as it is stashed.                     *)
LEMMA StashedFields ==
  ASSUME NEW R, NEW x \in Stashed(R)
  PROVE  /\ x.id \in SessionId /\ x.req \in R
         /\ \/ x.type = "COMMAND" /\ x.kind \in Kinds \cap Changes /\ x.origin \in Servers
            \/ x.type \in Kinds \cap Changes
BY DEF Stashed

(* Applied.                                                                *)
LEMMA AppliedSends ==
  ASSUME NEW R, NEW n \in NetworkOf(R), MembersUp(n), NEW s \in Servers, NEW x \in Stashed(R),
         NEW m, m = Applied(n, s, x)
  PROVE  m \in NetworkOf(R) /\ Sends(n, m, Changes) /\ MembersUp(m)
<1>1. x.id \in SessionId /\ x.req \in R
  BY StashedFields
<1>2. CASE x.type = "COMMAND"
  <2>1. x.kind \in Kinds /\ x.kind \in Changes
    BY <1>2, StashedFields DEF Changes
  <2>2. m = Ack(n, s, x, x.kind)
    BY <1>2 DEF Applied
  <2>3. m \in NetworkOf(R) /\ Sends(n, m, {x.kind}) /\ MembersUp(m)
    BY <1>1, <2>1, <2>2, AckSends
  <2>. QED
    BY <2>1, <2>3, SendsWeaker
<1>3. CASE x.type # "COMMAND"
  <2>. DEFINE r == Ack(n, s, x, x.type)
              y == [type |-> "COMMAND", kind |-> x.type, origin |-> s, id |-> x.id, req |-> x.req]
  <2>1. x.type \in Kinds /\ x.type \in Changes
    BY <1>3, StashedFields
  <2>2. r \in NetworkOf(R) /\ Sends(n, r, {x.type}) /\ MembersUp(r)
    BY <1>1, <2>1, AckSends
  <2>3. Sends(n, r, Changes)
    BY <2>1, <2>2, SendsWeaker
  <2>4. y \in ServerMessage(R) /\ Plain(y, Changes)
    BY <1>1, <2>1 DEF ServerMessage, Stashed, Plain
  <2>5. m = SendToServers(r, s, y)
    BY <1>3 DEF Applied
  <2>. HIDE DEF r, y
  <2>6. m \in NetworkOf(R) /\ SentTo(r, m, Within(r, s, Servers), y)
    BY <2>2, <2>4, <2>5, SendToServersEffect, Zenon
  <2>7. Sends(r, m, Changes)
    <3>1. Within(r, s, Servers) \cap Proc \subseteq r.up
      BY DEF Within
    <3>. QED
      BY <2>2, <2>4, <2>6, <3>1, SentToSends
  <2>8. Sends(n, m, Changes)
    BY <2>2, <2>3, <2>6, <2>7, SendsTwice
  <2>. QED
    BY <2>6, <2>8 DEF Sends, SameGroups, MembersUp
<1>. QED
  BY <1>2, <1>3

(* The networks apply_queued_updates() goes through.                       *)
Onward(s, queue, silent, f, i) ==
  IF i \in silent \/ ~IsApplied(s, queue, i) THEN f[i - 1] ELSE Applied(f[i - 1], s, queue[i])

Passes(n, s, queue, silent, f, k) ==
  f[0] = n /\ \A i \in 1 .. k : f[i] = Onward(s, queue, silent, f, i)

(* They exist for any length of the queue.                                 *)
LEMMA PassesExist ==
  ASSUME NEW n, NEW s, NEW S, NEW queue \in Seq(S), NEW silent
  PROVE  \E f : Passes(n, s, queue, silent, f, Len(queue))
<1>. DEFINE P(k) == \E f : Passes(n, s, queue, silent, f, k)
            bad == {k \in 0 .. Len(queue) : ~P(k)}
<1>1. Len(queue) \in Nat /\ bad \in SUBSET Nat
  OBVIOUS
<1>2. ASSUME bad # {}
      PROVE  FALSE
  <2>. DEFINE k == Min(bad)
  <2>1. k \in bad /\ k \in Nat /\ \A j \in bad : k <= j
    BY <1>1, <1>2, MinProperty
  <2>. HIDE DEF k
  <2>2. k \in 0 .. Len(queue) /\ ~P(k)
    BY <2>1
  <2>3. k # 0
    <3>. DEFINE f == [i \in 0 .. 0 |-> n]
    <3>1. Passes(n, s, queue, silent, f, 0)
      BY DEF Passes
    <3>. QED
      BY <2>2, <3>1
  <2>4. k - 1 \in 0 .. Len(queue) /\ k - 1 \notin bad
    BY <1>1, <2>1, <2>2, <2>3
  <2>5. P(k - 1)
    BY <2>4
  <2>6. PICK f : Passes(n, s, queue, silent, f, k - 1)
    BY <2>5
  <2>. DEFINE h == [i \in 0 .. k |-> IF i < k THEN f[i] ELSE Onward(s, queue, silent, f, k)]
  <2>7. /\ h[0] = f[0] /\ h[k] = Onward(s, queue, silent, f, k)
        /\ \A i \in 0 .. k - 1 : h[i] = f[i]
    BY <2>1, <2>3
  <2>. HIDE DEF h
  <2>8. \A i \in 1 .. k : h[i - 1] = f[i - 1]
    BY <2>1, <2>7
  <2>9. \A i \in 1 .. k : Onward(s, queue, silent, h, i) = Onward(s, queue, silent, f, i)
    BY <2>8, Zenon DEF Onward
  <2>10. ASSUME NEW i \in 1 .. k
         PROVE  h[i] = Onward(s, queue, silent, h, i)
    <3>1. CASE i = k
      BY <2>7, <2>9, <3>1
    <3>2. CASE i # k
      <4>1. i \in 1 .. k - 1 /\ i \in 0 .. k - 1
        BY <2>1, <3>2
      <4>2. f[i] = Onward(s, queue, silent, f, i)
        BY <2>6, <4>1 DEF Passes
      <4>. QED
        BY <2>7, <2>9, <4>1, <4>2
    <3>. QED
      BY <3>1, <3>2
  <2>11. Passes(n, s, queue, silent, h, k)
    BY <2>6, <2>7, <2>10 DEF Passes
  <2>. QED
    BY <2>2, <2>11
<1>3. Len(queue) \in 0 .. Len(queue) /\ Len(queue) \notin bad
  BY <1>1, <1>2
<1>. QED
  BY <1>3

(* Answered goes through them to the last.                                 *)
LEMMA AnsweredPasses ==
  ASSUME NEW n, NEW s, NEW S, NEW queue \in Seq(S), NEW silent
  PROVE  \E f : /\ Passes(n, s, queue, silent, f, Len(queue))
                /\ Answered(n, s, queue, silent) = f[Len(queue)]
<1>. DEFINE N == Len(queue)
            step(f, i) == IF i = 0 THEN n
                          ELSE IF i \in silent \/ ~IsApplied(s, queue, i) THEN f[i - 1]
                          ELSE Applied(f[i - 1], s, queue[i])
            a == CHOOSE f : f = [i \in 0 .. N |-> step(f, i)]
<1>0. N \in Nat
  OBVIOUS
<1>1. PICK f : Passes(n, s, queue, silent, f, N)
  BY PassesExist
<1>. HIDE DEF N
<1>2. \E h : h = [i \in 0 .. N |-> step(h, i)]
  <2>. DEFINE h == [i \in 0 .. N |-> f[i]]
  <2>1. \A i \in 0 .. N : i # 0 => h[i - 1] = f[i - 1]
    BY <1>0
  <2>2. \A i \in 0 .. N : i # 0 => i \in 1 .. N
    BY <1>0
  <2>3. \A i \in 0 .. N : f[i] = step(h, i)
    <3>. HIDE DEF h
    <3>. QED
      BY <1>1, <2>1, <2>2, Zenon DEF Passes, Onward
  <2>4. h = [i \in 0 .. N |-> step(h, i)]
    BY <2>3, Zenon
  <2>. HIDE DEF h
  <2>. QED
    BY <2>4
<1>3. a = [i \in 0 .. N |-> step(a, i)]
  BY <1>2, Zenon
<1>4. Answered(n, s, queue, silent) = a[N]
  BY Zenon DEF Answered, N
<1>. HIDE DEF a
<1>5. \A i \in 0 .. N : a[i] = step(a, i)
  BY <1>3, Zenon
<1>6. \A i \in 1 .. N : i \in 0 .. N /\ i # 0
  BY <1>0
<1>7. Passes(n, s, queue, silent, a, N)
  <2>1. 0 \in 0 .. N
    BY <1>0
  <2>. QED
    BY <1>5, <1>6, <2>1, Zenon DEF Passes, Onward
<1>. QED
  BY <1>4, <1>7 DEF N

(* Answered.                                                               *)
LEMMA AnsweredSends ==
  ASSUME NEW R, NEW n \in NetworkOf(R), MembersUp(n), NEW s \in Servers,
         NEW queue \in Seq(Stashed(R)), NEW silent, NEW m, m = Answered(n, s, queue, silent)
  PROVE  m \in NetworkOf(R) /\ Sends(n, m, Changes) /\ MembersUp(m)
<1>1. PICK f : Passes(n, s, queue, silent, f, Len(queue)) /\ m = f[Len(queue)]
  BY AnsweredPasses
<1>. DEFINE Good(r) == r \in NetworkOf(R) /\ Sends(n, r, Changes) /\ MembersUp(r)
            bad == {k \in 0 .. Len(queue) : ~Good(f[k])}
<1>2. Len(queue) \in Nat /\ bad \in SUBSET Nat
  OBVIOUS
<1>3. ASSUME bad # {}
      PROVE  FALSE
  <2>. DEFINE k == Min(bad)
  <2>1. k \in bad /\ k \in Nat /\ \A j \in bad : k <= j
    BY <1>2, <1>3, MinProperty
  <2>. HIDE DEF k
  <2>2. k \in 0 .. Len(queue) /\ ~Good(f[k])
    BY <2>1
  <2>3. k # 0
    <3>1. Good(n)
      BY SendsTwice
    <3>. QED
      BY <1>1, <2>2, <3>1 DEF Passes
  <2>4. k - 1 \in 0 .. Len(queue) /\ k - 1 \notin bad /\ k \in 1 .. Len(queue)
    BY <1>2, <2>1, <2>2, <2>3
  <2>5. Good(f[k - 1])
    BY <2>4
  <2>6. queue[k] \in Stashed(R)
    BY <2>4, ElementOfSeq
  <2>7. f[k] = Onward(s, queue, silent, f, k)
    BY <1>1, <2>4 DEF Passes
  <2>8. CASE f[k] = f[k - 1]
    BY <2>2, <2>5, <2>8
  <2>9. CASE f[k] = Applied(f[k - 1], s, queue[k])
    <3>1. f[k] \in NetworkOf(R) /\ Sends(f[k - 1], f[k], Changes) /\ MembersUp(f[k])
      BY <2>5, <2>6, <2>9, AppliedSends
    <3>2. Sends(n, f[k], Changes)
      BY <2>5, <3>1, SendsTwice
    <3>. QED
      BY <2>2, <3>1, <3>2
  <2>. QED
    BY <2>7, <2>8, <2>9 DEF Onward
<1>4. Len(queue) \in 0 .. Len(queue) /\ Len(queue) \notin bad
  BY <1>2, <1>3
<1>. QED
  BY <1>1, <1>4

-----------------------------------------------------------------------------
(* Member counts under the operators on networks.                          *)

(* A count on its way stays on its way, and a wrong count that is told is. *)
LEMMA DoomedGrown ==
  ASSUME NEW R, NEW n \in NetworkOf(R), NEW m \in NetworkOf(R), NEW s \in Proc, NEW g \in SessionId,
         NEW new, Grown(n.incoming[s], m.incoming[s], new)
  PROVE  /\ Doomed(n, s, g) => Doomed(m, s, g)
         /\ \A cause \in {"join", "leave", "network"} :
              Told(m, s, g, cause) \in new => Counted(m, s, g)
<1>1. Range(m.incoming[s]) = Range(n.incoming[s]) \cup new
  <2>1. n.incoming[s] \in Seq(Receives(R, s)) /\ m.incoming[s] \in Seq(Receives(R, s))
    BY NetworkFields
  <2>. QED
    BY <2>1, GrownRange
<1>2. ASSUME NEW cause \in {"join", "leave", "network"}, Told(m, s, g, cause) \in new
      PROVE  Counted(m, s, g)
  <2>. DEFINE x == Told(m, s, g, cause)
  <2>1. x \in Range(m.incoming[s])
    BY <1>1, <1>2
  <2>2. m.members \in [SessionId -> SUBSET Proc]
    BY NetworkFields
  <2>3. x.type = "MEMBERSHIP" /\ x.group = g /\ x.n_connected = Cardinality(Present(m, s, g))
    BY <2>2, ToldTyped
  <2>. HIDE DEF x
  <2>. QED
    BY <2>1, <2>3, Zenon DEF Counted, Doomed
<1>. QED
  BY <1>1, <1>2 DEF Doomed

(* Nothing that concerns the members of g happened.                        *)
LEMMA CountedKept ==
  ASSUME NEW n, NEW m, NEW s, NEW g,
         Counted(n, s, g), Doomed(n, s, g) => Doomed(m, s, g),
         s \in m.members[g] => s \in n.members[g] /\ Present(m, s, g) = Present(n, s, g)
  PROVE  Counted(m, s, g)
BY DEF Counted

(* Telling tells of each group.                                            *)
LEMMA TellingEach ==
  ASSUME NEW m, NEW q, NEW gs, NEW cause, NEW g \in gs
  PROVE  Told(m, q, g, cause) \in Telling(m, q, gs, cause)
BY DEF Telling

(* A leave leaves the counts right.                                        *)
LEMMA LeaveCounted ==
  ASSUME NEW R, NEW n \in NetworkOf(R), NEW m \in NetworkOf(R), NEW p \in Proc,
         NEW gs \in SUBSET SessionId, LeftBy(n, m, p, gs),
         NEW s \in Proc, NEW g \in SessionId, Counted(n, s, g) \/ (s = p /\ g \in gs)
  PROVE  Counted(m, s, g)
<1>1. Grown(n.incoming[s], m.incoming[s], Telling(m, s, Missed(n, p, gs, s), "leave"))
  BY DEF LeftBy
<1>2. m.members[g] = (IF g \in gs THEN n.members[g] \ {p} ELSE n.members[g]) /\ m.side = n.side
  BY DEF LeftBy
<1>3. CASE g \in Missed(n, p, gs, s)
  <2>1. Told(m, s, g, "leave") \in Telling(m, s, Missed(n, p, gs, s), "leave")
    BY <1>3, TellingEach
  <2>. QED
    BY <1>1, <2>1, DoomedGrown
<1>4. CASE g \notin Missed(n, p, gs, s)
  <2>1. CASE s \in m.members[g]
    <3>1. s \in n.members[g] /\ Present(m, s, g) = Present(n, s, g)
      BY <1>2, <1>4, <2>1 DEF Missed, Present
    <3>2. Counted(n, s, g)
      BY <1>2, <2>1
    <3>3. Doomed(n, s, g) => Doomed(m, s, g)
      BY <1>1, DoomedGrown
    <3>. QED
      BY <3>1, <3>2, <3>3, CountedKept
  <2>2. CASE s \notin m.members[g]
    BY <2>2 DEF Counted
  <2>. QED
    BY <2>1, <2>2
<1>. QED
  BY <1>3, <1>4

(* So does a join.                                                         *)
LEMMA JoinCounted ==
  ASSUME NEW R, NEW n \in NetworkOf(R), NEW m \in NetworkOf(R), NEW p \in Proc,
         NEW h \in SessionId, JoinedBy(n, m, p, h),
         NEW s \in Proc, NEW g \in SessionId, Counted(n, s, g)
  PROVE  Counted(m, s, g)
<1>1. /\ m.members[g] = (IF g = h THEN n.members[h] \cup {p} ELSE n.members[g]) /\ m.side = n.side
      /\ Greeted(n, p, h, s) => Grown(n.incoming[s], m.incoming[s], {Told(m, s, h, "join")})
      /\ ~Greeted(n, p, h, s) => m.incoming[s] = n.incoming[s]
  BY DEF JoinedBy
<1>2. Doomed(n, s, g) => Doomed(m, s, g)
  <2>1. CASE Greeted(n, p, h, s)
    BY <1>1, <2>1, DoomedGrown
  <2>2. CASE ~Greeted(n, p, h, s)
    BY <1>1, <2>2 DEF Doomed
  <2>. QED
    BY <2>1, <2>2
<1>3. CASE g = h /\ Greeted(n, p, h, s)
  BY <1>1, <1>3, DoomedGrown
<1>4. CASE ~ (g = h /\ Greeted(n, p, h, s))
  <2>1. s \in m.members[g] => s \in n.members[g] /\ Present(m, s, g) = Present(n, s, g)
    BY <1>1, <1>4 DEF Greeted, Present
  <2>. QED
    BY <1>2, <2>1, CountedKept
<1>. QED
  BY <1>3, <1>4

(* And an exit.                                                            *)
LEMMA GoneCounted ==
  ASSUME NEW R, NEW n \in NetworkOf(R), NEW m \in NetworkOf(R), NEW p \in Proc, GoneFrom(n, m, p),
         NEW s \in Proc, NEW g \in SessionId, Counted(n, s, g)
  PROVE  Counted(m, s, g)
<1>1. m.members[g] = n.members[g] \ {p} /\ m.side = n.side
  BY DEF GoneFrom
<1>2. CASE s = p
  BY <1>1, <1>2 DEF Counted
<1>3. CASE s # p
  <2>1. Grown(n.incoming[s], m.incoming[s], Telling(m, s, Missed(n, p, SessionId, s), "leave"))
    BY <1>3 DEF GoneFrom
  <2>2. CASE g \in Missed(n, p, SessionId, s)
    <3>1. Told(m, s, g, "leave") \in Telling(m, s, Missed(n, p, SessionId, s), "leave")
      BY <2>2, TellingEach
    <3>. QED
      BY <2>1, <3>1, DoomedGrown
  <2>3. CASE g \notin Missed(n, p, SessionId, s)
    <3>1. s \in m.members[g] => s \in n.members[g] /\ Present(m, s, g) = Present(n, s, g)
      BY <1>1, <2>3 DEF Missed, Present
    <3>2. Doomed(n, s, g) => Doomed(m, s, g)
      BY <2>1, DoomedGrown
    <3>. QED
      BY <3>1, <3>2, CountedKept
  <2>. QED
    BY <2>2, <2>3
<1>. QED
  BY <1>2, <1>3

(* And a change of the network.                                            *)
LEMMA MovedToCounted ==
  ASSUME NEW R, NEW n \in NetworkOf(R), NEW m \in NetworkOf(R), NEW side, MovedTo(n, m, side),
         NEW s \in Proc, NEW g \in SessionId, Counted(n, s, g)
  PROVE  Counted(m, s, g)
<1>1. /\ m.members = n.members
      /\ Grown(n.incoming[s], m.incoming[s], Telling(m, s, Regrouped(n, m, s), "network"))
  BY DEF MovedTo
<1>2. CASE g \in Regrouped(n, m, s)
  <2>1. Told(m, s, g, "network") \in Telling(m, s, Regrouped(n, m, s), "network")
    BY <1>2, TellingEach
  <2>. QED
    BY <1>1, <2>1, DoomedGrown
<1>3. CASE g \notin Regrouped(n, m, s)
  <2>1. s \in m.members[g] => s \in n.members[g] /\ Present(m, s, g) = Present(n, s, g)
    BY <1>1, <1>3 DEF Regrouped
  <2>2. Doomed(n, s, g) => Doomed(m, s, g)
    BY <1>1, DoomedGrown
  <2>. QED
    BY <2>1, <2>2, CountedKept
<1>. QED
  BY <1>2, <1>3

(* And a message, or none.                                                 *)
LEMMA SendsCounted ==
  ASSUME NEW R, NEW n \in NetworkOf(R), NEW m \in NetworkOf(R), SameGroups(n, m),
         NEW s \in Proc, NEW new, Grown(n.incoming[s], m.incoming[s], new), NEW g \in SessionId,
         Counted(n, s, g)
  PROVE  Counted(m, s, g)
<1>1. Doomed(n, s, g) => Doomed(m, s, g)
  BY DoomedGrown
<1>2. m.members = n.members /\ Present(m, s, g) = Present(n, s, g)
  BY DEF SameGroups, Present
<1>. QED
  BY <1>1, <1>2, CountedKept

-----------------------------------------------------------------------------
(* Two servers in a group under the operators on networks.                 *)

(* A leave does not bring two servers together.                            *)
LEMMA LeaveParting ==
  ASSUME NEW R, NEW n \in NetworkOf(R), NEW m \in NetworkOf(R), NEW p \in Proc,
         NEW gs \in SUBSET SessionId, LeftBy(n, m, p, gs),
         NEW s \in Proc, NEW t \in Proc, NEW g \in SessionId,
         Parting(n, s, t, g) \/ (p \in {s, t} /\ g \in gs)
  PROVE  Parting(m, s, t, g)
<1>1. \A q \in Proc : Doomed(n, q, g) => Doomed(m, q, g)
  BY DoomedGrown DEF LeftBy
<1>2. m.members[g] = (IF g \in gs THEN n.members[g] \ {p} ELSE n.members[g]) /\ m.side = n.side
  BY DEF LeftBy
<1>. QED
  BY <1>1, <1>2 DEF Parting

(* Nor does an exit.                                                       *)
LEMMA GoneParting ==
  ASSUME NEW R, NEW n \in NetworkOf(R), NEW m \in NetworkOf(R), NEW p \in Proc, GoneFrom(n, m, p),
         NEW s \in Proc, NEW t \in Proc, NEW g \in SessionId, Parting(n, s, t, g)
  PROVE  Parting(m, s, t, g)
<1>1. \A q \in Proc \ {p} : Doomed(n, q, g) => Doomed(m, q, g)
  BY DoomedGrown DEF GoneFrom
<1>2. m.members[g] = n.members[g] \ {p} /\ m.side = n.side
  BY DEF GoneFrom
<1>. QED
  BY <1>1, <1>2 DEF Parting

(* Nor does a message.                                                     *)
LEMMA SendsParting ==
  ASSUME NEW R, NEW n \in NetworkOf(R), NEW m \in NetworkOf(R), SameGroups(n, m),
         NEW s \in Proc, NEW t \in Proc, NEW g \in SessionId,
         \A q \in {s, t} : \E new : Grown(n.incoming[q], m.incoming[q], new),
         Parting(n, s, t, g)
  PROVE  Parting(m, s, t, g)
<1>1. \A q \in {s, t} : Doomed(n, q, g) => Doomed(m, q, g)
  BY DoomedGrown
<1>. QED
  BY <1>1 DEF Parting, SameGroups

(* Two members, and no third, are two.                                     *)
LEMMA PairCount ==
  ASSUME NEW S, IsFiniteSet(S), NEW a \in S, NEW b \in S, a # b, Cardinality(S) = 2
  PROVE  S = {a, b}
<1>1. IsFiniteSet(S \ {a}) /\ Cardinality(S \ {a}) = 1
  BY FS_RemoveElement
<1>2. PICK x : S \ {a} = {x}
  BY <1>1, FS_Singleton
<1>. QED
  BY <1>2

(* A server that joins another finds it leaving, or makes it leave: there  *)
(* is a third member, unless the other hears of a wrong count already.     *)
LEMMA JoinPartingOf ==
  ASSUME NEW R, NEW n \in NetworkOf(R), NEW m \in NetworkOf(R),
         NEW s \in Proc, NEW t \in Proc, s # t, NEW g \in SessionId, JoinedBy(n, m, s, g),
         s \notin n.members[g], {s, t} \subseteq m.members[g], m.side[s] = m.side[t],
         Counted(n, t, g)
  PROVE  Doomed(m, t, g)
<1>1. /\ m.members[g] = n.members[g] \cup {s} /\ m.side = n.side
      /\ t \in n.members[g] /\ Greeted(n, s, g, t)
      /\ Grown(n.incoming[t], m.incoming[t], {Told(m, t, g, "join")})
  BY DEF JoinedBy, Greeted
<1>2. CASE Doomed(n, t, g)
  BY <1>1, <1>2, DoomedGrown
<1>3. CASE Cardinality(Present(n, t, g)) = 2
  <2>1. n.members \in [SessionId -> SUBSET Proc]
    BY NetworkFields
  <2>2. IsFiniteSet(Present(n, t, g)) /\ s \notin Present(n, t, g)
    BY <2>1, PresentCount DEF Present
  <2>3. Present(m, t, g) = Present(n, t, g) \cup {s}
    BY <1>1 DEF Present
  <2>4. Cardinality(Present(m, t, g)) = 3
    <3>. DEFINE P == Present(n, t, g)
    <3>. HIDE DEF P
    <3>1. IsFiniteSet(P) /\ s \notin P /\ Cardinality(P) = 2
      BY <1>3, <2>2 DEF P
    <3>2. Cardinality(P \cup {s}) = Cardinality(P) + 1
      BY <3>1, FS_AddElement
    <3>. QED
      BY <2>3, <3>1, <3>2 DEF P
  <2>5. Counted(m, t, g)
    BY <1>1, DoomedGrown
  <2>. QED
    BY <2>4, <2>5 DEF Counted
<1>. QED
  BY <1>1, <1>2, <1>3 DEF Counted

(* A join brings no two servers together that will both stay.              *)
LEMMA JoinParting ==
  ASSUME NEW R, NEW n \in NetworkOf(R), NEW m \in NetworkOf(R), NEW p \in Proc,
         NEW h \in SessionId, JoinedBy(n, m, p, h),
         NEW s \in Proc, NEW t \in Proc, NEW g \in SessionId,
         Parting(n, s, t, g), Counted(n, s, g), Counted(n, t, g)
  PROVE  Parting(m, s, t, g)
<1>1. m.members[g] = (IF g = h THEN n.members[h] \cup {p} ELSE n.members[g]) /\ m.side = n.side
  BY DEF JoinedBy
<1>2. SUFFICES ASSUME s # t, {s, t} \subseteq m.members[g], m.side[s] = m.side[t]
               PROVE  Doomed(m, s, g) \/ Doomed(m, t, g)
  BY DEF Parting
<1>3. CASE {s, t} \subseteq n.members[g]
  <2>1. Doomed(n, s, g) \/ Doomed(n, t, g)
    BY <1>1, <1>2, <1>3 DEF Parting
  <2>2. \A q \in Proc : Doomed(n, q, g) => Doomed(m, q, g)
    <3>1. ASSUME NEW q \in Proc, Doomed(n, q, g)
          PROVE  Doomed(m, q, g)
      <4>1. CASE Greeted(n, p, h, q)
        BY <3>1, <4>1, DoomedGrown DEF JoinedBy
      <4>2. CASE ~Greeted(n, p, h, q)
        BY <3>1, <4>2 DEF JoinedBy, Doomed
      <4>. QED
        BY <4>1, <4>2
    <3>. QED
      BY <3>1
  <2>. QED
    BY <2>1, <2>2
<1>4. CASE ~ ({s, t} \subseteq n.members[g])
  <2>1. g = h /\ (p = s \/ p = t)
    BY <1>1, <1>2, <1>4
  <2>2. CASE p = s /\ s \notin n.members[g]
    BY <1>2, <2>1, <2>2, JoinPartingOf
  <2>3. CASE p = t /\ t \notin n.members[g]
    BY <1>2, <2>1, <2>3, JoinPartingOf
  <2>. QED
    BY <1>1, <1>2, <1>4, <2>1, <2>2, <2>3
<1>. QED
  BY <1>3, <1>4

-----------------------------------------------------------------------------
(* Messages that are taken from the front and put behind.                  *)

(* "now" is "old" without the first d elements, with those of "new" behind.*)
Moved(old, now, d, new) ==
  /\ d \in {0, 1} /\ d <= Len(old) /\ Len(old) <= Len(now) + d
  /\ \A i \in 1 .. Len(old) - d : now[i] = old[i + d]
  /\ \A i \in Len(old) - d + 1 .. Len(now) : now[i] \in new
  /\ new \subseteq Range(now)

(* Growing is such a move, and growing after the first element was taken.  *)
LEMMA GrownMoved ==
  ASSUME NEW S, NEW T, NEW old \in Seq(S), NEW now \in Seq(T), NEW new
  PROVE  /\ Grown(old, now, new) => Moved(old, now, 0, new)
         /\ \A U : \A rest \in Seq(U) :
              /\ Len(old) = Len(rest) + 1 /\ \A i \in 1 .. Len(rest) : rest[i] = old[i + 1]
              /\ Grown(rest, now, new)
              => Moved(old, now, 1, new)
<1>1. Len(old) \in Nat /\ Len(now) \in Nat /\ DOMAIN now = 1 .. Len(now)
  OBVIOUS
<1>2. ASSUME NEW U, NEW rest \in Seq(U), Grown(rest, now, new)
      PROVE  new \subseteq Range(now)
  BY <1>2, GrownRange
<1>3. ASSUME Grown(old, now, new)
      PROVE  Moved(old, now, 0, new)
  BY <1>1, <1>2, <1>3 DEF Grown, Moved
<1>4. ASSUME NEW U, NEW rest \in Seq(U), Len(old) = Len(rest) + 1,
             \A i \in 1 .. Len(rest) : rest[i] = old[i + 1], Grown(rest, now, new)
      PROVE  Moved(old, now, 1, new)
  <2>1. Len(rest) \in Nat
    OBVIOUS
  <2>2. \A i \in 1 .. Len(rest) : now[i] = old[i + 1]
    BY <1>4 DEF Grown
  <2>. QED
    BY <1>1, <1>2, <1>4, <2>1, <2>2 DEF Grown, Moved
<1>. QED
  BY <1>3, <1>4

(* What a sequence contains after a move.                                  *)
LEMMA MovedRange ==
  ASSUME NEW S, NEW T, NEW old \in Seq(S), NEW now \in Seq(T), NEW d, NEW new, Moved(old, now, d, new)
  PROVE  /\ Range(now) \subseteq Range(old) \cup new
         /\ Range(old) \subseteq Range(now) \cup (IF d = 1 THEN {old[1]} ELSE {})
         /\ new \subseteq Range(now)
         /\ d = 1 => old[1] \in Range(old)
<1>1. /\ Len(old) \in Nat /\ DOMAIN old = 1 .. Len(old)
      /\ Len(now) \in Nat /\ DOMAIN now = 1 .. Len(now)
      /\ d \in {0, 1} /\ d <= Len(old) /\ Len(old) <= Len(now) + d
  BY DEF Moved
<1>2. ASSUME NEW i \in DOMAIN now
      PROVE  now[i] \in Range(old) \cup new
  <2>1. CASE i <= Len(old) - d
    <3>1. i \in 1 .. Len(old) - d /\ i + d \in DOMAIN old
      BY <1>1, <2>1
    <3>. QED
      BY <3>1 DEF Moved, Range
  <2>2. CASE ~ (i <= Len(old) - d)
    <3>1. i \in Len(old) - d + 1 .. Len(now)
      BY <1>1, <2>2
    <3>. QED
      BY <3>1 DEF Moved
  <2>. QED
    BY <2>1, <2>2
<1>3. ASSUME NEW i \in DOMAIN old
      PROVE  old[i] \in Range(now) \cup (IF d = 1 THEN {old[1]} ELSE {})
  <2>1. CASE d < i
    <3>1. i - d \in 1 .. Len(old) - d /\ i - d \in DOMAIN now /\ (i - d) + d = i
      BY <1>1, <2>1
    <3>2. now[i - d] = old[i]
      BY <3>1 DEF Moved
    <3>. QED
      BY <3>1, <3>2 DEF Range
  <2>2. CASE ~ (d < i)
    <3>1. d = 1 /\ i = 1
      BY <1>1, <2>2
    <3>. QED
      BY <3>1
  <2>. QED
    BY <2>1, <2>2
<1>4. d = 1 => 1 \in DOMAIN old
  BY <1>1
<1>. QED
  BY <1>2, <1>3, <1>4 DEF Range, Moved

(* Where an element that is not new came from, and where one went that was *)
(* not taken.                                                              *)
LEMMA MovedPlaces ==
  ASSUME NEW S, NEW T, NEW old \in Seq(S), NEW now \in Seq(T), NEW d, NEW new, Moved(old, now, d, new)
  PROVE  /\ \A i \in DOMAIN now : now[i] \notin new => i + d \in DOMAIN old /\ now[i] = old[i + d]
         /\ \A i \in DOMAIN old : d < i => i - d \in DOMAIN now /\ now[i - d] = old[i]
<1>1. /\ Len(old) \in Nat /\ DOMAIN old = 1 .. Len(old)
      /\ Len(now) \in Nat /\ DOMAIN now = 1 .. Len(now)
      /\ d \in {0, 1} /\ d <= Len(old) /\ Len(old) <= Len(now) + d
  BY DEF Moved
<1>2. ASSUME NEW i \in DOMAIN now, now[i] \notin new
      PROVE  i + d \in DOMAIN old /\ now[i] = old[i + d]
  <2>1. ~ (i \in Len(old) - d + 1 .. Len(now))
    BY <1>2 DEF Moved
  <2>2. i \in 1 .. Len(old) - d /\ i + d \in DOMAIN old
    BY <1>1, <2>1
  <2>. QED
    BY <2>2 DEF Moved
<1>3. ASSUME NEW i \in DOMAIN old, d < i
      PROVE  i - d \in DOMAIN now /\ now[i - d] = old[i]
  <2>1. i - d \in 1 .. Len(old) - d /\ i - d \in DOMAIN now /\ (i - d) + d = i
    BY <1>1, <1>3
  <2>. QED
    BY <2>1 DEF Moved
<1>. QED
  BY <1>2, <1>3

-----------------------------------------------------------------------------
(* Answers come before their acknowledgements.                             *)

(* The ACK of a listing or of the names.                                   *)
Listing(x) == x.type = "ACK" /\ x.body \in {"SHOW_INBOX", "SHOW_COMPONENT"}

(* A client with variables k does not wait for the answer to req.          *)
Settled(req, k) == req = k.awaits /\ k.blocking => k.displayed

(* AcksBehind, for the messages and the variables of one client.           *)
AcksFine(q, k) ==
  \A i \in DOMAIN q : Listing(q[i]) => Behind(q, i) \/ Settled(q[i].req, k)

(* The invariant says this of each client.                                 *)
LEMMA AcksAreFine == AcksBehind <=> \A c \in Clients : AcksFine(net.incoming[c], client[c])
BY DEF AcksBehind, AcksFine, Listing, Settled

(* It survives the messages that come and go, when no ACK of a listing     *)
(* comes and what goes is no answer that is still waited for.              *)
LEMMA AcksMoved ==
  ASSUME NEW S, NEW T, NEW old \in Seq(S), NEW now \in Seq(T), NEW d, NEW new, Moved(old, now, d, new),
         NEW k, NEW kk, AcksFine(old, k),
         \A x \in new : ~Listing(x),
         \A req : Settled(req, k) => Settled(req, kk),
         d = 1 => old[1].type \notin Answers \/ Settled(old[1].req, kk)
  PROVE  AcksFine(now, kk)
<1>. SUFFICES ASSUME NEW i \in DOMAIN now, Listing(now[i])
              PROVE  Behind(now, i) \/ Settled(now[i].req, kk)
  BY DEF AcksFine
<1>1. i + d \in DOMAIN old /\ now[i] = old[i + d]
  BY MovedPlaces
<1>2. /\ Len(old) \in Nat /\ DOMAIN old = 1 .. Len(old)
      /\ Len(now) \in Nat /\ DOMAIN now = 1 .. Len(now) /\ d \in {0, 1}
  BY DEF Moved
<1>3. CASE Settled(old[i + d].req, k)
  BY <1>1, <1>3
<1>4. CASE Behind(old, i + d)
  <2>1. PICK j \in 1 .. (i + d) - 1 : old[j].type \in Answers /\ old[j].req = old[i + d].req
    BY <1>4, Zenon DEF Behind
  <2>2. CASE d < j
    <3>1. j \in DOMAIN old /\ j - d \in 1 .. i - 1
      BY <1>1, <1>2, <2>2
    <3>2. now[j - d] = old[j]
      BY <2>2, <3>1, MovedPlaces
    <3>. QED
      BY <1>1, <2>1, <3>1, <3>2 DEF Behind
  <2>3. CASE ~ (d < j)
    <3>1. d = 1 /\ j = 1
      BY <1>2, <2>3
    <3>. QED
      BY <1>1, <2>1, <3>1
  <2>. QED
    BY <2>2, <2>3
<1>. QED
  BY <1>1, <1>3, <1>4 DEF AcksFine

(* It holds when the client waits for what nobody knows of yet.            *)
LEMMA AcksNone ==
  ASSUME NEW q, NEW k, \A i \in DOMAIN q : Listing(q[i]) => Settled(q[i].req, k)
  PROVE  AcksFine(q, k)
BY DEF AcksFine

(* And when an answer and its ACK are put behind.                          *)
LEMMA AcksShown ==
  ASSUME NEW S, NEW T, NEW U, NEW old \in Seq(S), NEW mid \in Seq(T), NEW now \in Seq(U),
         NEW x, NEW y, x.type \in Answers, y.req = x.req,
         Grown(old, mid, {x}), Len(mid) = Len(old) + 1,
         Grown(mid, now, {y}), Len(now) = Len(mid) + 1,
         NEW k, AcksFine(old, k)
  PROVE  AcksFine(now, k)
<1>1. Len(old) \in Nat /\ DOMAIN old = 1 .. Len(old) /\ Len(mid) \in Nat /\ DOMAIN now = 1 .. Len(now)
  OBVIOUS
<1>2. /\ \A i \in 1 .. Len(old) : i \in 1 .. Len(mid) /\ now[i] = old[i]
      /\ now[Len(old) + 1] = x /\ now[Len(old) + 2] = y
  BY <1>1 DEF Grown
<1>. SUFFICES ASSUME NEW i \in DOMAIN now, Listing(now[i])
              PROVE  Behind(now, i) \/ Settled(now[i].req, k)
  BY DEF AcksFine
<1>3. CASE i \in 1 .. Len(old)
  <2>1. Behind(old, i) \/ Settled(old[i].req, k)
    BY <1>1, <1>2, <1>3 DEF AcksFine
  <2>2. Behind(old, i) => Behind(now, i)
    <3>1. \A j \in 1 .. i - 1 : j \in 1 .. Len(old) /\ now[j] = old[j]
      BY <1>1, <1>2, <1>3
    <3>. QED
      BY <1>2, <1>3, <3>1 DEF Behind
  <2>. QED
    BY <1>2, <1>3, <2>1, <2>2
<1>4. CASE i = Len(old) + 1
  BY <1>2, <1>4 DEF Listing, Answers
<1>5. CASE i = Len(old) + 2
  <2>1. Len(old) + 1 \in 1 .. i - 1
    BY <1>1, <1>5
  <2>. QED
    BY <1>2, <1>5, <2>1 DEF Behind
<1>. QED
  BY <1>1, <1>3, <1>4, <1>5

-----------------------------------------------------------------------------
(* States.                                                                 *)

(* The kinds of processes.                                                 *)
LEMMA Processes ==
  /\ Clients \subseteq Proc /\ Servers \subseteq Proc
  /\ \A p \in Proc : p \in Clients \/ p \in Servers
  /\ \A c \in Clients, s \in Servers : c # s
BY ProcAssumption DEF Proc

(* What the type invariant says of the budget and of the network.          *)
LEMMA NetTypes ==
  ASSUME TypeOK
  PROVE  /\ net \in NetworkOf(Made)
         /\ net.up \subseteq Proc
         /\ net.side \in [Proc -> {0, 1}]
         /\ net.members \in [SessionId -> SUBSET Proc]
         /\ \A p \in Proc : net.incoming[p] \in Seq(Receives(Made, p))
         /\ accepted \subseteq Servers \X SessionId
BY NetworkFields DEF TypeOK

(* Of the budget.                                                          *)
LEMMA BudgetTypes ==
  ASSUME TypeOK
  PROVE  /\ budget \in [connects : 0 .. MaxConnects, requests : Request, crashes : 0 .. MaxCrashes,
                        changes : 0 .. MaxNetChanges, synchs : 0 .. MaxSynchs]
         /\ budget.connects \in 0 .. MaxConnects /\ budget.requests \in 0 .. MaxRequests
         /\ budget.changes \in 0 .. MaxNetChanges
         /\ Made = 0 .. budget.requests /\ budget.requests \in Nat
BY Bounds DEF TypeOK, Made, Request

(* Of a client.                                                            *)
LEMMA ClientTypes ==
  ASSUME TypeOK, NEW c \in Clients
  PROVE  /\ client[c] \in ClientVariables(Made)
         /\ client[c].connected \in BOOLEAN /\ client[c].blocking \in BOOLEAN
         /\ client[c].draw \in 1 .. MaxConnects + 1 /\ client[c].timer \in 0 .. MaxConnects + 1
         /\ client[c].connection_group \in SessionId \cup {None}
         /\ client[c].connected_server \in Servers \cup {None}
BY DEF TypeOK, ClientVariables

(* Of a server.                                                            *)
LEMMA ServerTypes ==
  ASSUME TypeOK, NEW s \in Servers
  PROVE  /\ node[s] \in ServerVariables(Made)
         /\ node[s].client_connections \subseteq SessionId
         /\ node[s].synchronizing \in BOOLEAN
         /\ node[s].synch_queue \in Seq(Stashed(Made))
BY DEF TypeOK, ServerVariables

(* Members are up.                                                         *)
LEMMA MembersAreUp ==
  ASSUME TypeOK, MembersAgree
  PROVE  MembersUp(net)
<1>1. net.members \in [SessionId -> SUBSET Proc]
  BY NetTypes
<1>2. ASSUME NEW g \in SessionId, NEW p \in net.members[g]
      PROVE  p \in net.up
  <2>1. p \in Clients \/ p \in Servers
    BY <1>1, Processes
  <2>2. CASE p \in Clients
    BY <1>2, <2>2 DEF MembersAgree
  <2>3. CASE p \in Servers
    BY <1>2, <2>3 DEF MembersAgree, Fresh
  <2>. QED
    BY <2>1, <2>2, <2>3
<1>. QED
  BY <1>2 DEF MembersUp

-----------------------------------------------------------------------------
(* Steps that leave the sessions alone.                                    *)

(* The messages that sessions are made of.                                 *)
Notable(x) == x.type \in {"MEMBERSHIP", "CONNECT"}

(* None of them comes or goes.                                             *)
QuietNet(n, m) ==
  /\ SameGroups(n, m)
  /\ \A p \in Proc :
       /\ \E d, new : /\ Moved(n.incoming[p], m.incoming[p], d, new)
                      /\ \A x \in new : ~Notable(x)
                      /\ d = 1 => ~Notable(n.incoming[p][1])
       /\ p \notin n.up => m.incoming[p] = n.incoming[p]

(* As when plain messages are sent,                                        *)
LEMMA SendsQuietly ==
  ASSUME NEW R, NEW n \in NetworkOf(R), NEW m \in NetworkOf(R), NEW B, Sends(n, m, B)
  PROVE  /\ QuietNet(n, m)
         /\ \A p \in Proc : \E new : Grown(n.incoming[p], m.incoming[p], new) /\ \A x \in new : Plain(x, B)
<1>1. ASSUME NEW p \in Proc
      PROVE  \E new : Grown(n.incoming[p], m.incoming[p], new) /\ \A x \in new : Plain(x, B)
  <2>. DEFINE new == {m.incoming[p][i] : i \in Len(n.incoming[p]) + 1 .. Len(m.incoming[p])}
  <2>1. Grown(n.incoming[p], m.incoming[p], new)
    BY DEF Grown, Sends
  <2>2. \A x \in new : Plain(x, B)
    BY DEF Sends
  <2>. HIDE DEF new
  <2>. QED
    BY <2>1, <2>2
<1>2. ASSUME NEW p \in Proc
      PROVE  \E d, new : /\ Moved(n.incoming[p], m.incoming[p], d, new)
                         /\ \A x \in new : ~Notable(x)
                         /\ d = 1 => ~Notable(n.incoming[p][1])
  <2>1. PICK new : Grown(n.incoming[p], m.incoming[p], new) /\ \A x \in new : Plain(x, B)
    BY <1>1
  <2>2. n.incoming[p] \in Seq(Receives(R, p)) /\ m.incoming[p] \in Seq(Receives(R, p))
    BY NetworkFields
  <2>3. Moved(n.incoming[p], m.incoming[p], 0, new)
    BY <2>1, <2>2, GrownMoved
  <2>4. \A x \in new : ~Notable(x)
    BY <2>1 DEF Plain, Notable
  <2>. QED
    BY <2>3, <2>4
<1>. QED
  BY <1>1, <1>2 DEF Sends, QuietNet

(* when a message was received before others came,                         *)
LEMMA TakenMoved ==
  ASSUME NEW R, NEW n \in NetworkOf(R), NEW r \in NetworkOf(R), NEW m \in NetworkOf(R),
         NEW p \in Proc, Taken(n, r, p), NEW q \in Proc, NEW new, Grown(r.incoming[q], m.incoming[q], new)
  PROVE  Moved(n.incoming[q], m.incoming[q], IF q = p THEN 1 ELSE 0, new)
<1>1. /\ n.incoming[q] \in Seq(Receives(R, q)) /\ m.incoming[q] \in Seq(Receives(R, q))
      /\ r.incoming[q] \in Seq(Receives(R, q))
  BY NetworkFields
<1>2. CASE q = p
  <2>1. /\ Len(n.incoming[p]) = Len(r.incoming[p]) + 1
        /\ \A i \in 1 .. Len(r.incoming[p]) : r.incoming[p][i] = n.incoming[p][i + 1]
    BY DEF Taken
  <2>. QED
    BY <1>1, <1>2, <2>1, GrownMoved
<1>3. CASE q # p
  <2>1. r.incoming[q] = n.incoming[q]
    BY <1>3 DEF Taken
  <2>. QED
    BY <1>1, <1>3, <2>1, GrownMoved
<1>. QED
  BY <1>2, <1>3

(* and when it was one that sessions are not made of.                      *)
LEMMA TakenQuietly ==
  ASSUME NEW R, NEW n \in NetworkOf(R), NEW r \in NetworkOf(R), NEW m \in NetworkOf(R),
         NEW p \in Proc, Taken(n, r, p), p \in n.up, ~Notable(n.incoming[p][1]),
         NEW B, Sends(r, m, B)
  PROVE  QuietNet(n, m)
<1>1. SameGroups(n, m) /\ r.up = n.up
  BY DEF Taken, Sends, SameGroups
<1>2. ASSUME NEW q \in Proc
      PROVE  /\ \E d, new : /\ Moved(n.incoming[q], m.incoming[q], d, new)
                            /\ \A x \in new : ~Notable(x)
                            /\ d = 1 => ~Notable(n.incoming[q][1])
             /\ q \notin n.up => m.incoming[q] = n.incoming[q]
  <2>1. PICK new : Grown(r.incoming[q], m.incoming[q], new) /\ \A x \in new : Plain(x, B)
    BY SendsQuietly
  <2>2. Moved(n.incoming[q], m.incoming[q], IF q = p THEN 1 ELSE 0, new)
    BY <2>1, TakenMoved
  <2>3. \A x \in new : ~Notable(x)
    BY <2>1 DEF Plain, Notable
  <2>4. q \notin n.up => q # p /\ m.incoming[q] = r.incoming[q] /\ r.incoming[q] = n.incoming[q]
    BY <1>1 DEF Sends, Taken
  <2>. QED
    BY <2>2, <2>3, <2>4
<1>. QED
  BY <1>1, <1>2 DEF QuietNet

(* The notable messages stay, and stay in order.                           *)
LEMMA NotablesStay ==
  ASSUME NEW R, NEW T, NEW n \in NetworkOf(R), NEW m \in NetworkOf(T), QuietNet(n, m), NEW p \in Proc
  PROVE  /\ \A x : Notable(x) => (x \in Range(m.incoming[p]) <=> x \in Range(n.incoming[p]))
         /\ \E d \in {0, 1} : \A i \in DOMAIN m.incoming[p] : Notable(m.incoming[p][i]) =>
              i + d \in DOMAIN n.incoming[p] /\ n.incoming[p][i + d] = m.incoming[p][i]
<1>1. PICK d, new : /\ Moved(n.incoming[p], m.incoming[p], d, new)
                    /\ \A x \in new : ~Notable(x)
                    /\ d = 1 => ~Notable(n.incoming[p][1])
  BY DEF QuietNet
<1>2. n.incoming[p] \in Seq(Receives(R, p)) /\ m.incoming[p] \in Seq(Receives(T, p))
  BY NetworkFields
<1>3. /\ Range(m.incoming[p]) \subseteq Range(n.incoming[p]) \cup new
      /\ Range(n.incoming[p]) \subseteq Range(m.incoming[p]) \cup (IF d = 1 THEN {n.incoming[p][1]} ELSE {})
  BY <1>1, <1>2, MovedRange
<1>4. \A x : Notable(x) => (x \in Range(m.incoming[p]) <=> x \in Range(n.incoming[p]))
  BY <1>1, <1>3
<1>5. \A i \in DOMAIN m.incoming[p] : m.incoming[p][i] \notin new =>
        i + d \in DOMAIN n.incoming[p] /\ m.incoming[p][i] = n.incoming[p][i + d]
  BY <1>1, <1>2, MovedPlaces
<1>6. d \in {0, 1}
  BY <1>1 DEF Moved
<1>. QED
  BY <1>1, <1>4, <1>5, <1>6

(* The invariant of all clients, without what orderly users add.           *)
Ground ==
  /\ TypeOK /\ SessionsDrawn /\ MembersAgree /\ CountsReported /\ ServersPart /\ AcksBehind
  /\ TimerOnlyWhileWaiting

SameSession(k, kk) ==
  /\ kk.connected = k.connected /\ kk.draw = k.draw
  /\ kk.connection_group = k.connection_group /\ kk.connected_server = k.connected_server

(* What a step leaves alone that is no matter of sessions.                 *)
QuietStep ==
  /\ QuietNet(net, net')
  /\ \A c \in Clients : SameSession(client[c], client'[c]) /\ (c \notin net.up => client'[c] = client[c])
  /\ \A s \in Servers : /\ node'[s].client_connections = node[s].client_connections
                        /\ s \notin net.up => node'[s] = node[s]
  /\ \A c \in Clients : client'[c].timer \in {client[c].timer, 0} \/ MayType(c)
  /\ accepted' = accepted /\ budget'.connects = budget.connects /\ budget'.changes = budget.changes

(* What is on its way after such a step.                                   *)
LEMMA QuietComing ==
  ASSUME TypeOK, TypeOK', QuietNet(net, net')
  PROVE  /\ \A p \in Proc : \A x : Notable(x) => (x \in Coming(p)' <=> x \in Coming(p))
         /\ \A p \in Proc : \A g : Doomed(net', p, g) <=> Doomed(net, p, g)
         /\ \A p, g : Present(net', p, g) = Present(net, p, g)
<1>1. net \in NetworkOf(Made) /\ net' \in NetworkOf(Made')
  BY DEF TypeOK
<1>2. \A p \in Proc : \A x : Notable(x) => (x \in Range(net'.incoming[p]) <=> x \in Range(net.incoming[p]))
  <2>. DEFINE M == Made
              MM == Made'
              nn == net'
  <2>1. net \in NetworkOf(M) /\ nn \in NetworkOf(MM) /\ QuietNet(net, nn)
    BY <1>1
  <2>. HIDE DEF M, MM, nn
  <2>2. \A p \in Proc : \A x : Notable(x) => (x \in Range(nn.incoming[p]) <=> x \in Range(net.incoming[p]))
    BY <2>1, NotablesStay, Zenon
  <2>. QED
    BY <2>2 DEF nn
<1>3. \A p \in Proc : \A x : Notable(x) => (x \in Coming(p)' <=> x \in Coming(p))
  BY <1>2 DEF Coming
<1>4. \A p \in Proc : \A g : Doomed(net', p, g) <=> Doomed(net, p, g)
  BY <1>2 DEF Doomed, Notable
<1>5. \A p, g : Present(net', p, g) = Present(net, p, g)
  BY DEF QuietNet, SameGroups, Present
<1>. QED
  BY <1>3, <1>4, <1>5

(* The sessions stay as they are.                                          *)
LEMMA QuietGround ==
  ASSUME Ground, TypeOK', QuietStep
  PROVE  SessionsDrawn' /\ MembersAgree' /\ CountsReported' /\ ServersPart'
<1>1. TypeOK /\ QuietNet(net, net') /\ SameGroups(net, net')
  BY DEF Ground, QuietStep, QuietNet
<1>2. /\ \A p \in Proc : \A g : Doomed(net', p, g) <=> Doomed(net, p, g)
      /\ \A p, g : Present(net', p, g) = Present(net, p, g)
  BY <1>1, QuietComing, Zenon
<1>3. \A c \in Clients : /\ SameSession(client[c], client'[c])
                         /\ InSession(c)' <=> InSession(c)
                         /\ c \notin net.up => client'[c] = client[c]
  BY DEF QuietStep, SameSession, InSession, SessionIdOf
<1>4. SessionsDrawn'
  <2>1. SessionsDrawn /\ budget'.connects = budget.connects
    BY DEF Ground, QuietStep
  <2>. QED
    BY <1>3, <2>1 DEF SessionsDrawn, SameSession
<1>5. MembersAgree'
  <2>1. /\ MembersAgree /\ \A p \in Proc : p \notin net.up => net'.incoming[p] = net.incoming[p]
        /\ \A s \in Servers : /\ node'[s].client_connections = node[s].client_connections
                              /\ s \notin net.up => node'[s] = node[s]
    BY DEF Ground, QuietStep, QuietNet
  <2>2. /\ net'.up = net.up /\ net'.members = net.members
    BY <1>1 DEF SameGroups
  <2>. QED
    BY <1>3, <2>1, <2>2, Processes DEF MembersAgree, SameSession
<1>6. CountsReported'
  BY <1>1, <1>2, Processes DEF Ground, CountsReported, Counted, SameGroups
<1>7. ServersPart'
  BY <1>1, <1>2, Processes DEF Ground, QuietStep, ServersPart, Parting, SameGroups
<1>. QED
  BY <1>4, <1>5, <1>6, <1>7

(* What an answer or an acknowledgement says it is about was made.         *)
LEMMA ListingTyped ==
  ASSUME NEW R, NEW c \in Clients, NEW x \in Receives(R, c), Listing(x) \/ x.type \in Answers
  PROVE  x.req \in R
<1>1. x \in MembershipMessage \cup ClientMessage(R)
  BY ClientsReceive, Processes
<1>. QED
  BY <1>1 DEF Listing, MembershipMessage, ClientMessage, Answers

(* AcksBehind after a step.                                                *)
LEMMA AcksAreFineNext ==
  ASSUME \A c \in Clients : AcksFine(net'.incoming[c], client'[c])
  PROVE  AcksBehind'
BY DEF AcksBehind, AcksFine, Listing, Settled

(* A client's messages come and go, none of them an ACK of a listing that  *)
(* comes, none of them an answer waited for that goes.                     *)
LEMMA AcksKept ==
  ASSUME TypeOK, AcksBehind, TypeOK', NEW c \in Clients, NEW d, NEW new,
         Moved(net.incoming[c], net'.incoming[c], d, new),
         \A x \in new : ~Listing(x),
         \A req : Settled(req, client[c]) => Settled(req, client'[c]),
         d = 1 => \/ net.incoming[c][1].type \notin Answers
                  \/ Settled(net.incoming[c][1].req, client'[c])
  PROVE  AcksFine(net'.incoming[c], client'[c])
<1>. DEFINE old == net.incoming[c]
            now == net'.incoming[c]
            k == client[c]
            kk == client'[c]
            S == Receives(Made, c)
            T == Receives(Made', c)
<1>1. old \in Seq(S)
  BY NetTypes, Processes
<1>2. now \in Seq(T)
  <2>1. net' \in NetworkOf(Made')
    BY DEF TypeOK
  <2>. DEFINE M == Made'
              m == net'
  <2>2. m \in NetworkOf(M) /\ c \in Proc
    BY <2>1, Processes
  <2>. HIDE DEF M, m
  <2>3. m.incoming[c] \in Seq(Receives(M, c))
    BY <2>2, NetworkFields
  <2>. QED
    BY <2>3 DEF M, m
<1>3. AcksFine(old, k)
  BY AcksAreFine
<1>4. /\ Moved(old, now, d, new) /\ \A req : Settled(req, k) => Settled(req, kk)
      /\ d = 1 => old[1].type \notin Answers \/ Settled(old[1].req, kk)
  OBVIOUS
<1>. HIDE DEF old, now, k, kk, S, T
<1>5. AcksFine(now, kk)
  BY <1>1, <1>2, <1>3, <1>4, AcksMoved, Zenon
<1>. QED
  BY <1>5 DEF now, kk

(* A client whose messages stay and who waits as before.                   *)
LEMMA AcksStay ==
  ASSUME AcksBehind, NEW c \in Clients,
         net'.incoming[c] = net.incoming[c] \/ net'.incoming[c] = <<>>,
         \A req : Settled(req, client[c]) => Settled(req, client'[c])
  PROVE  AcksFine(net'.incoming[c], client'[c])
<1>1. AcksFine(net.incoming[c], client[c])
  BY AcksAreFine
<1>2. AcksFine(net.incoming[c], client'[c])
  BY <1>1 DEF AcksFine
<1>3. AcksFine(<<>>, client'[c])
  BY DEF AcksFine
<1>. QED
  BY <1>2, <1>3

(* More requests are made.                                                 *)
LEMMA MadeGrows ==
  ASSUME TypeOK, budget'.requests \in {budget.requests, budget.requests + 1}
  PROVE  /\ Made \subseteq Made' /\ budget'.requests \in Made'
         /\ ClientVariables(Made) \subseteq ClientVariables(Made')
         /\ ServerVariables(Made) \subseteq ServerVariables(Made')
         /\ NetworkOf(Made) \subseteq NetworkOf(Made')
         /\ \A p \in Proc : Receives(Made, p) \subseteq Receives(Made', p)
<1>. DEFINE M == Made
            N == Made'
<1>1. M \subseteq N /\ budget'.requests \in N
  BY BudgetTypes DEF Made
<1>. HIDE DEF M, N
<1>2. /\ ClientVariables(M) \subseteq ClientVariables(N)
      /\ ServerVariables(M) \subseteq ServerVariables(N)
      /\ \A p \in Proc : Receives(M, p) \subseteq Receives(N, p)
      /\ NetworkOf(M) \subseteq NetworkOf(N)
  BY <1>1, TypesGrow, Zenon
<1>. QED
  BY <1>1, <1>2 DEF M, N

(* Spending.                                                               *)
LEMMA Spent ==
  ASSUME TypeOK, NEW what \in {"connects", "requests", "crashes", "changes", "synchs"}, NEW limit,
         Spend(what, limit)
  PROVE  /\ budget[what] < limit /\ budget'[what] = budget[what] + 1
         /\ \A w \in {"connects", "requests", "crashes", "changes", "synchs"} \ {what} :
              budget'[w] = budget[w]
         /\ \/ what = "connects" /\ limit = MaxConnects
            \/ what = "requests" /\ limit = MaxRequests
            \/ what = "crashes" /\ limit = MaxCrashes
            \/ what = "changes" /\ limit = MaxNetChanges
            \/ what = "synchs" /\ limit = MaxSynchs
            => budget' \in [connects : 0 .. MaxConnects, requests : Request, crashes : 0 .. MaxCrashes,
                            changes : 0 .. MaxNetChanges, synchs : 0 .. MaxSynchs]
BY BudgetTypes, Bounds DEF Spend, Request

(* The number of a session, and its place among the sessions.              *)
LEMMA SessionIdTyped ==
  ASSUME NEW c \in Clients, NEW k, k.draw \in 1 .. MaxConnects + 1
  PROVE  /\ SessionIdOf(c, k) = <<Seed[c], k.draw>> /\ SessionIdOf(c, k) \in SessionId
         /\ SessionIdOf(c, k) # None
BY SessionNames DEF SessionIdOf

(* A request is sent to one process, and is new.                           *)
LEMMA SendEffect ==
  ASSUME Ground, NEW c \in Clients, NEW kind, Send(c, kind)
  PROVE  /\ c \in net.up /\ MayType(c)
         /\ budget'.requests = budget.requests + 1
         /\ budget'.connects = budget.connects /\ budget'.changes = budget.changes
         /\ budget' \in [connects : 0 .. MaxConnects, requests : Request, crashes : 0 .. MaxCrashes,
                         changes : 0 .. MaxNetChanges, synchs : 0 .. MaxSynchs]
         /\ node' = node /\ accepted' = accepted
         /\ net' \in NetworkOf(Made') /\ Sends(net, net', {})
<1>. DEFINE N == Made'
            m == net'
            x == [type |-> kind, id |-> SessionIdOf(c, client[c]), req |-> budget.requests + 1]
            s == client[c].connected_server
            there == Within(net, c, {s})
<1>0. TypeOK
  BY DEF Ground
<1>1. /\ MayType(c) /\ kind \in Kinds /\ Spend("requests", MaxRequests)
      /\ m = SendToServer(net, c, s, x) /\ node' = node /\ accepted' = accepted
  BY DEF Send
<1>2. c \in net.up
  BY <1>1 DEF MayType
<1>3. budget'.requests = budget.requests + 1
  BY <1>0, <1>1, Spent
<1>4. net \in NetworkOf(N) /\ budget.requests + 1 \in N
  BY <1>0, <1>3, MadeGrows, NetTypes
<1>5. x \in ServerMessage(N) /\ x.type \notin {"MEMBERSHIP", "CONNECT", "ACK"}
  <2>1. SessionIdOf(c, client[c]) \in SessionId
    BY <1>0, ClientTypes, SessionIdTyped
  <2>. QED
    BY <1>1, <1>4, <2>1, KindsAssumption DEF ServerMessage
<1>6. s \in Servers \/ s \notin net.up
  BY <1>0, ClientTypes, NetTypes, NoneAssumption DEF Proc
<1>. HIDE DEF N, m, x, s
<1>7. m \in NetworkOf(N) /\ SentTo(net, m, there, x)
  BY <1>1, <1>4, <1>5, <1>6, SendToServerEffect, Zenon
<1>8. there \cap Proc \subseteq net.up
  BY DEF Within
<1>9. Plain(x, {})
  BY <1>5 DEF Plain
<1>. HIDE DEF there
<1>10. Sends(net, m, {})
  BY <1>4, <1>7, <1>8, <1>9, SentToSends
<1>11. /\ budget'.connects = budget.connects /\ budget'.changes = budget.changes
       /\ budget' \in [connects : 0 .. MaxConnects, requests : Request, crashes : 0 .. MaxCrashes,
                       changes : 0 .. MaxNetChanges, synchs : 0 .. MaxSynchs]
  BY <1>0, <1>1, Spent
<1>. QED
  BY <1>1, <1>2, <1>3, <1>7, <1>10, <1>11 DEF N, m

(* The messages of a process after a step.                                 *)
LEMMA NetTypesNext ==
  ASSUME TypeOK', NEW p \in Proc
  PROVE  /\ net'.incoming[p] \in Seq(Receives(Made', p))
         /\ net'.members \in [SessionId -> SUBSET Proc]
<1>. DEFINE M == Made'
            m == net'
<1>1. m \in NetworkOf(M)
  BY DEF TypeOK
<1>. HIDE DEF M, m
<1>2. m.incoming[p] \in Seq(Receives(M, p)) /\ m.members \in [SessionId -> SUBSET Proc]
  BY <1>1, NetworkFields
<1>. QED
  BY <1>2 DEF M, m

(* Messages that came are a move of none.                                  *)
LEMMA GrownMovedNext ==
  ASSUME TypeOK, TypeOK', NEW p \in Proc, NEW new, Grown(net.incoming[p], net'.incoming[p], new)
  PROVE  Moved(net.incoming[p], net'.incoming[p], 0, new)
<1>. DEFINE old == net.incoming[p]
            now == net'.incoming[p]
            S == Receives(Made, p)
            T == Receives(Made', p)
<1>1. old \in Seq(S) /\ now \in Seq(T) /\ Grown(old, now, new)
  BY NetTypes, NetTypesNext
<1>. HIDE DEF old, now, S, T
<1>2. Moved(old, now, 0, new)
  BY <1>1, GrownMoved
<1>. QED
  BY <1>2 DEF old, now

(* When messages only came,                                                *)
LEMMA AcksGrown ==
  ASSUME TypeOK, AcksBehind, TypeOK', NEW c \in Clients, NEW new,
         Grown(net.incoming[c], net'.incoming[c], new),
         \A x \in new : ~Listing(x),
         \A req : Settled(req, client[c]) => Settled(req, client'[c])
  PROVE  AcksFine(net'.incoming[c], client'[c])
<1>1. Moved(net.incoming[c], net'.incoming[c], 0, new)
  BY GrownMovedNext, Processes
<1>2. 0 # 1
  OBVIOUS
<1>. QED
  BY <1>1, <1>2, AcksKept, Zenon

(* and when the client begins to wait for what nobody knows of yet.        *)
LEMMA AcksOfNew ==
  ASSUME TypeOK, TypeOK', NEW c \in Clients,
         client'[c].blocking, client'[c].awaits = budget.requests + 1,
         NEW new, Grown(net.incoming[c], net'.incoming[c], new), \A x \in new : ~Listing(x)
  PROVE  AcksFine(net'.incoming[c], client'[c])
<1>. DEFINE old == net.incoming[c]
            now == net'.incoming[c]
            kk == client'[c]
            S == Receives(Made, c)
            T == Receives(Made', c)
<1>1. old \in Seq(S) /\ now \in Seq(T) /\ Grown(old, now, new)
  BY NetTypes, NetTypesNext, Processes
<1>2. \A x \in S : Listing(x) => x.req \in Made
  BY ListingTyped, Zenon
<1>3. \A req \in Made : req # budget.requests + 1
  BY BudgetTypes DEF Made
<1>4. kk.awaits = budget.requests + 1
  OBVIOUS
<1>. HIDE DEF old, now, kk, S, T
<1>5. Range(now) = Range(old) \cup new /\ Range(old) \subseteq S
  BY <1>1, GrownRange
<1>6. \A i \in DOMAIN now : Listing(now[i]) => now[i] \in S
  BY <1>5 DEF Range
<1>7. \A i \in DOMAIN now : Listing(now[i]) => Settled(now[i].req, kk)
  BY <1>2, <1>3, <1>4, <1>6 DEF Settled
<1>8. AcksFine(now, kk)
  BY <1>7, AcksNone
<1>. QED
  BY <1>8 DEF now, kk

-----------------------------------------------------------------------------
(* Actions that leave the sessions alone.                                  *)

Harmless == TypeOK' /\ QuietStep /\ AcksBehind' /\ TimerOnlyWhileWaiting'

(* What is said of client c after a request of it.                         *)
LEMMA WaitingTyped ==
  ASSUME TypeOK, NEW c \in Clients, budget'.requests = budget.requests + 1,
         NEW k, \/ k = client[c]
                \/ \E inbox \in SUBSET Made, listed \in BOOLEAN :
                     k = [Waiting(client[c]) EXCEPT !.inbox = inbox, !.listed = listed]
  PROVE  /\ k \in ClientVariables(Made') /\ SameSession(client[c], k)
         /\ k = client[c] \/ (k.blocking /\ k.awaits = budget.requests + 1)
<1>1. client[c] \in ClientVariables(Made) /\ client[c] \in ClientVariables(Made')
  BY ClientTypes, MadeGrows
<1>2. Made \subseteq Made' /\ budget.requests + 1 \in Made'
  BY MadeGrows
<1>3. CASE k = client[c]
  BY <1>1, <1>3 DEF SameSession
<1>4. ASSUME NEW inbox \in SUBSET Made, NEW listed \in BOOLEAN,
             k = [Waiting(client[c]) EXCEPT !.inbox = inbox, !.listed = listed]
      PROVE  /\ k \in ClientVariables(Made') /\ SameSession(client[c], k)
             /\ k.blocking /\ k.awaits = budget.requests + 1
  <2>. DEFINE N == Made'
              M == Made
              r == budget.requests + 1
  <2>1. /\ client[c] \in ClientVariables(N) /\ r \in N /\ inbox \in SUBSET N
        /\ MaxConnects \in Nat
    BY <1>1, <1>2, Bounds
  <2>2. k = [client[c] EXCEPT !.blocking = TRUE, !.timer = client[c].draw,
                              !.awaits = r, !.displayed = FALSE, !.inbox = inbox, !.listed = listed]
    BY <1>1, <1>4 DEF Waiting, ClientVariables
  <2>. HIDE DEF N, M, r
  <2>3. client[c].draw \in 0 .. MaxConnects + 1
    <3>1. client[c].draw \in 1 .. MaxConnects + 1
      BY ClientTypes
    <3>. QED
      BY <3>1, Bounds, DrawsFit, Zenon
  <2>. DEFINE k1 == [client[c] EXCEPT !.blocking = TRUE]
              k2 == [k1 EXCEPT !.timer = client[c].draw]
              k3 == [k2 EXCEPT !.awaits = r]
              k4 == [k3 EXCEPT !.displayed = FALSE]
              k5 == [k4 EXCEPT !.inbox = inbox]
  <2>4. k = [k5 EXCEPT !.listed = listed]
    BY <2>2
  <2>5. k \in ClientVariables(N)
    <3>1. k1 \in ClientVariables(N)
      BY <2>1, ClientUpdated, Zenon
    <3>. HIDE DEF k1
    <3>2. k2 \in ClientVariables(N)
      BY <2>3, <3>1, ClientUpdated, Zenon
    <3>. HIDE DEF k2
    <3>3. k3 \in ClientVariables(N)
      BY <2>1, <3>2, ClientUpdated, Zenon
    <3>. HIDE DEF k3
    <3>4. k4 \in ClientVariables(N)
      BY <3>3, ClientUpdated, Zenon
    <3>. HIDE DEF k4
    <3>5. k5 \in ClientVariables(N)
      BY <2>1, <3>4, ClientUpdated, Zenon
    <3>. HIDE DEF k5
    <3>. QED
      BY <2>4, <3>5, ClientUpdated, Zenon
  <2>6. SameSession(client[c], k) /\ k.blocking /\ k.awaits = r
    <3>1. client[c] \in ClientVariables(Made)
      BY ClientTypes
    <3>. QED
      BY <2>2, <3>1 DEF SameSession, ClientVariables
  <2>. QED
    BY <2>5, <2>6 DEF N, r
<1>. QED
  BY <1>3, <1>4

(* A request.                                                              *)
LEMMA RequestHarmless ==
  ASSUME Ground, NEW c \in Clients, NEW kind, Send(c, kind), NEW k,
         client' = [client EXCEPT ![c] = k],
         \/ k = client[c]
         \/ \E inbox \in SUBSET Made, listed \in BOOLEAN :
              k = [Waiting(client[c]) EXCEPT !.inbox = inbox, !.listed = listed]
  PROVE  Harmless
<1>0. TypeOK /\ AcksBehind /\ TimerOnlyWhileWaiting /\ MembersAgree
  BY DEF Ground
<1>1. /\ c \in net.up /\ MayType(c)
      /\ budget'.requests = budget.requests + 1
      /\ budget'.connects = budget.connects /\ budget'.changes = budget.changes
      /\ budget' \in [connects : 0 .. MaxConnects, requests : Request, crashes : 0 .. MaxCrashes,
                      changes : 0 .. MaxNetChanges, synchs : 0 .. MaxSynchs]
      /\ node' = node /\ accepted' = accepted
      /\ net' \in NetworkOf(Made') /\ Sends(net, net', {})
  BY SendEffect
<1>2. /\ k \in ClientVariables(Made') /\ SameSession(client[c], k)
      /\ k = client[c] \/ (k.blocking /\ k.awaits = budget.requests + 1)
  BY <1>0, <1>1, WaitingTyped
<1>3. client \in [Clients -> ClientVariables(Made)] /\ node \in [Servers -> ServerVariables(Made)]
  BY <1>0 DEF TypeOK
<1>4. /\ client'[c] = k /\ \A d \in Clients \ {c} : client'[d] = client[d]
      /\ client' \in [Clients -> ClientVariables(Made')]
  BY <1>0, <1>1, <1>2, <1>3, MadeGrows
<1>5. TypeOK'
  <2>1. node' \in [Servers -> ServerVariables(Made')]
    BY <1>0, <1>1, <1>3, MadeGrows
  <2>2. accepted' \subseteq Servers \X SessionId
    BY <1>0, <1>1 DEF TypeOK
  <2>. QED
    BY <1>1, <1>4, <2>1, <2>2 DEF TypeOK
<1>6. QuietStep
  <2>1. QuietNet(net, net')
    <3>. DEFINE M == Made'
                m == net'
    <3>1. net \in NetworkOf(M) /\ m \in NetworkOf(M) /\ Sends(net, m, {})
      BY <1>0, <1>1, MadeGrows, NetTypes
    <3>. HIDE DEF M, m
    <3>2. QuietNet(net, m)
      BY <3>1, SendsQuietly, Zenon
    <3>. QED
      BY <3>2 DEF m
  <2>2. \A d \in Clients : SameSession(client[d], client'[d]) /\ (d \notin net.up => client'[d] = client[d])
    BY <1>1, <1>2, <1>4 DEF SameSession
  <2>3. \A d \in Clients : client'[d].timer \in {client[d].timer, 0} \/ MayType(d)
    BY <1>1, <1>4
  <2>. QED
    BY <1>1, <2>1, <2>2, <2>3 DEF QuietStep
<1>7. AcksBehind'
  <2>. SUFFICES ASSUME NEW d \in Clients
                PROVE  AcksFine(net'.incoming[d], client'[d])
    BY AcksAreFineNext
  <2>1. PICK new : Grown(net.incoming[d], net'.incoming[d], new) /\ \A x \in new : Plain(x, {})
    <3>. DEFINE M == Made'
                m == net'
    <3>1. net \in NetworkOf(M) /\ m \in NetworkOf(M) /\ Sends(net, m, {}) /\ d \in Proc
      BY <1>0, <1>1, MadeGrows, NetTypes, Processes
    <3>. HIDE DEF M, m
    <3>2. \E new : Grown(net.incoming[d], m.incoming[d], new) /\ \A x \in new : Plain(x, {})
      BY <3>1, SendsQuietly, Zenon
    <3>. QED
      BY <3>2 DEF m
  <2>2. \A x \in new : ~Listing(x)
    BY <2>1 DEF Plain, Listing
  <2>3. CASE client'[d] = client[d]
    <3>1. \A req : Settled(req, client[d]) => Settled(req, client'[d])
      BY <2>3
    <3>. QED
      BY <1>0, <1>5, <2>1, <2>2, <3>1, AcksGrown, Zenon
  <2>4. CASE client'[d] # client[d]
    <3>1. client'[d].blocking /\ client'[d].awaits = budget.requests + 1
      BY <1>2, <1>4, <2>4
    <3>. QED
      BY <1>0, <1>5, <2>1, <2>2, <3>1, AcksOfNew, Zenon
  <2>. QED
    BY <2>3, <2>4
<1>8. TimerOnlyWhileWaiting'
  BY <1>0, <1>2, <1>4 DEF TimerOnlyWhileWaiting
<1>. QED
  BY <1>5, <1>6, <1>7, <1>8 DEF Harmless

(* SendEmail, GetInbox, ReadEmail, DeleteEmail and GetComponent.           *)
LEMMA RequestsHarmless ==
  ASSUME Ground, NEW c \in Clients,
         SendEmail(c) \/ GetInbox(c) \/ ReadEmail(c) \/ DeleteEmail(c) \/ GetComponent(c)
  PROVE  Harmless
<1>0. TypeOK
  BY DEF Ground
<1>1. /\ client \in [Clients -> ClientVariables(Made)] /\ client[c] \in ClientVariables(Made)
      /\ client[c].inbox \in SUBSET Made /\ client[c].listed \in BOOLEAN
  BY <1>0, ClientTypes, ClientFields DEF TypeOK
<1>2. Waiting(client[c]) = [Waiting(client[c]) EXCEPT !.inbox = client[c].inbox,
                                                      !.listed = client[c].listed]
  BY <1>1 DEF Waiting, ClientVariables
<1>3. CASE SendEmail(c)
  <2>1. client' = [client EXCEPT ![c] = client[c]] /\ Send(c, "MAIL")
    BY <1>1, <1>3 DEF SendEmail
  <2>. QED
    BY <2>1, RequestHarmless
<1>4. CASE GetInbox(c)
  <2>. DEFINE k == [Waiting(client[c]) EXCEPT !.inbox = {}, !.listed = TRUE]
  <2>1. client' = [client EXCEPT ![c] = k] /\ Send(c, "SHOW_INBOX")
    BY <1>4 DEF GetInbox
  <2>2. \E inbox \in SUBSET Made, listed \in BOOLEAN :
          k = [Waiting(client[c]) EXCEPT !.inbox = inbox, !.listed = listed]
    <3>1. {} \in SUBSET Made /\ TRUE \in BOOLEAN
      OBVIOUS
    <3>. QED
      BY <3>1, Zenon
  <2>. HIDE DEF k
  <2>. QED
    BY <2>1, <2>2, RequestHarmless, Zenon
<1>5. CASE DeleteEmail(c)
  <2>. DEFINE k == [Waiting(client[c]) EXCEPT !.listed = TRUE]
  <2>1. client' = [client EXCEPT ![c] = k] /\ Send(c, "DELETE")
    BY <1>5 DEF DeleteEmail
  <2>2. k = [Waiting(client[c]) EXCEPT !.inbox = client[c].inbox, !.listed = TRUE]
    BY <1>1 DEF Waiting, ClientVariables
  <2>3. \E inbox \in SUBSET Made, listed \in BOOLEAN :
          k = [Waiting(client[c]) EXCEPT !.inbox = inbox, !.listed = listed]
    <3>1. TRUE \in BOOLEAN
      OBVIOUS
    <3>. QED
      BY <1>1, <2>2, <3>1, Zenon
  <2>. HIDE DEF k
  <2>. QED
    BY <2>1, <2>3, RequestHarmless, Zenon
<1>6. ASSUME NEW kind, Send(c, kind), client' = [client EXCEPT ![c] = Waiting(@)]
      PROVE  Harmless
  <2>1. client' = [client EXCEPT ![c] = Waiting(client[c])]
    BY <1>6
  <2>2. \E inbox \in SUBSET Made, listed \in BOOLEAN :
          Waiting(client[c]) = [Waiting(client[c]) EXCEPT !.inbox = inbox, !.listed = listed]
    BY <1>1, <1>2, Zenon
  <2>. QED
    BY <1>6, <2>1, <2>2, RequestHarmless, Zenon
<1>. QED
  BY <1>3, <1>4, <1>5, <1>6 DEF ReadEmail, GetComponent

(* A process that receives a message that is not notable and then sends    *)
(* plain ones.                                                             *)
LEMMA HandledQuietly ==
  ASSUME Ground, NEW p \in Proc, NEW types, NextIs(p, types), types \cap {"MEMBERSHIP", "CONNECT"} = {},
         NEW m \in NetworkOf(Made), NEW B, Sends(Received(p), m, B)
  PROVE  /\ QuietNet(net, m)
         /\ \A q \in Proc :
              \E new : /\ Moved(net.incoming[q], m.incoming[q], IF q = p THEN 1 ELSE 0, new)
                       /\ \A x \in new : Plain(x, B)
<1>. DEFINE r == Received(p)
<1>1. TypeOK /\ net \in NetworkOf(Made)
  BY NetTypes DEF Ground
<1>2. p \in net.up /\ net.incoming[p] # <<>> /\ Next1(p).type \in types
  BY DEF NextIs, Next1
<1>3. r \in NetworkOf(Made) /\ Taken(net, r, p) /\ Next1(p) = net.incoming[p][1] /\ Sends(r, m, B)
  BY <1>1, <1>2, ReceivedEffect
<1>4. ~Notable(net.incoming[p][1])
  BY <1>2, <1>3 DEF Notable
<1>. HIDE DEF r
<1>5. QuietNet(net, m)
  BY <1>1, <1>2, <1>3, <1>4, TakenQuietly, Zenon
<1>6. ASSUME NEW q \in Proc
      PROVE  \E new : /\ Moved(net.incoming[q], m.incoming[q], IF q = p THEN 1 ELSE 0, new)
                      /\ \A x \in new : Plain(x, B)
  <2>1. PICK new : Grown(r.incoming[q], m.incoming[q], new) /\ \A x \in new : Plain(x, B)
    BY <1>3, SendsQuietly, Zenon
  <2>2. Moved(net.incoming[q], m.incoming[q], IF q = p THEN 1 ELSE 0, new)
    BY <1>1, <1>3, <2>1, TakenMoved, Zenon
  <2>. QED
    BY <2>1, <2>2
<1>. QED
  BY <1>5, <1>6

(* As when it sends nothing.                                               *)
LEMMA ReceivedQuietly ==
  ASSUME Ground, NEW p \in Proc, NEW types, NextIs(p, types)
  PROVE  Received(p) \in NetworkOf(Made) /\ \A B : Sends(Received(p), Received(p), B)
<1>1. net \in NetworkOf(Made) /\ net.incoming[p] # <<>>
  BY NetTypes DEF Ground, NextIs
<1>2. Received(p) \in NetworkOf(Made)
  BY <1>1, ReceivedEffect
<1>. QED
  BY <1>2, SendsTwice, Zenon

(* A client takes an answer or an acknowledgement.                         *)
LEMMA ClientHarmless ==
  ASSUME Ground, NEW c \in Clients, NEW types, NextIs(c, types),
         types \cap {"MEMBERSHIP", "CONNECT"} = {},
         net' = Received(c), UNCHANGED <<node, budget, accepted>>,
         NEW k \in ClientVariables(Made), client' = [client EXCEPT ![c] = k],
         SameSession(client[c], k), k.timer \in {client[c].timer, 0},
         k.timer # 0 => k.blocking,
         \A req : Settled(req, client[c]) => Settled(req, k),
         net.incoming[c][1].type \notin Answers \/ Settled(net.incoming[c][1].req, k)
  PROVE  Harmless
<1>0. TypeOK /\ AcksBehind /\ TimerOnlyWhileWaiting
  BY DEF Ground
<1>1. c \in Proc /\ c \in net.up
  BY Processes DEF NextIs
<1>2. net' \in NetworkOf(Made) /\ Sends(Received(c), net', {})
  BY <1>1, ReceivedQuietly
<1>3. /\ QuietNet(net, net')
      /\ \A q \in Proc :
           \E new : /\ Moved(net.incoming[q], net'.incoming[q], IF q = c THEN 1 ELSE 0, new)
                    /\ \A x \in new : Plain(x, {})
  <2>. DEFINE m == net'
  <2>1. m \in NetworkOf(Made) /\ Sends(Received(c), m, {})
    BY <1>2
  <2>. HIDE DEF m
  <2>2. /\ QuietNet(net, m)
        /\ \A q \in Proc :
             \E new : /\ Moved(net.incoming[q], m.incoming[q], IF q = c THEN 1 ELSE 0, new)
                      /\ \A x \in new : Plain(x, {})
    BY <1>1, <2>1, HandledQuietly, Zenon
  <2>. QED
    BY <2>2 DEF m
<1>4. /\ client \in [Clients -> ClientVariables(Made)] /\ client' \in [Clients -> ClientVariables(Made)]
      /\ client'[c] = k /\ \A d \in Clients \ {c} : client'[d] = client[d]
  BY <1>0 DEF TypeOK
<1>5. TypeOK'
  BY <1>0, <1>2, <1>4 DEF TypeOK, Made
<1>6. QuietStep
  <2>1. \A d \in Clients : SameSession(client[d], client'[d]) /\ (d \notin net.up => client'[d] = client[d])
    BY <1>1, <1>4 DEF SameSession
  <2>2. \A d \in Clients : client'[d].timer \in {client[d].timer, 0}
    BY <1>4
  <2>. QED
    BY <1>3, <2>1, <2>2 DEF QuietStep
<1>7. AcksBehind'
  <2>. SUFFICES ASSUME NEW d \in Clients
                PROVE  AcksFine(net'.incoming[d], client'[d])
    BY AcksAreFineNext
  <2>. DEFINE one == IF d = c THEN 1 ELSE 0
  <2>1. PICK new : /\ Moved(net.incoming[d], net'.incoming[d], one, new)
                   /\ \A x \in new : Plain(x, {})
    BY <1>3, Processes, Zenon
  <2>2. \A x \in new : ~Listing(x)
    BY <2>1 DEF Plain, Listing
  <2>3. \A req : Settled(req, client[d]) => Settled(req, client'[d])
    BY <1>4
  <2>4. one = 1 => \/ net.incoming[d][1].type \notin Answers
                   \/ Settled(net.incoming[d][1].req, client'[d])
    BY <1>4
  <2>. HIDE DEF one
  <2>. QED
    BY <1>0, <1>5, <2>1, <2>2, <2>3, <2>4, AcksKept, Zenon
<1>8. TimerOnlyWhileWaiting'
  BY <1>0, <1>4 DEF TimerOnlyWhileWaiting
<1>. QED
  BY <1>5, <1>6, <1>7, <1>8 DEF Harmless

(* ClientAck.                                                              *)
LEMMA ClientAckHarmless ==
  ASSUME Ground, NEW c \in Clients, ClientAck(c)
  PROVE  Harmless
<1>. DEFINE k0 == client[c]
            k == IF k0.blocking THEN Released(k0) ELSE k0
<1>1. /\ TypeOK /\ TimerOnlyWhileWaiting
      /\ NextIs(c, {"ACK"}) /\ net' = Received(c) /\ UNCHANGED <<node, budget, accepted>>
      /\ client' = [client EXCEPT ![c] = k]
  BY DEF Ground, ClientAck
<1>2. k0 \in ClientVariables(Made)
  BY <1>1, ClientTypes
<1>3. k \in ClientVariables(Made)
  <2>. DEFINE k1 == [k0 EXCEPT !.timer = 0]
              k2 == [k1 EXCEPT !.blocking = FALSE]
              k3 == [k2 EXCEPT !.printInbox = FALSE]
              screen == IF k0.printInbox THEN k0.inbox ELSE k0.screen
  <2>0. 0 \in 0 .. MaxConnects + 1
    BY Bounds
  <2>1. k1 \in ClientVariables(Made)
    BY <1>2, <2>0, ClientUpdated, Zenon
  <2>2. k2 \in ClientVariables(Made)
    <3>. HIDE DEF k1
    <3>. QED
      BY <2>1, ClientUpdated, Zenon
  <2>3. k3 \in ClientVariables(Made)
    <3>. HIDE DEF k2
    <3>. QED
      BY <2>2, ClientUpdated, Zenon
  <2>4. screen \in SUBSET Made
    BY <1>2, ClientFields
  <2>5. [k3 EXCEPT !.screen = screen] \in ClientVariables(Made)
    <3>. HIDE DEF k3, screen
    <3>. QED
      BY <2>3, <2>4, ClientUpdated, Zenon
  <2>6. Released(k0) = [k3 EXCEPT !.screen = screen]
    BY <1>2 DEF Released, ClientVariables
  <2>. QED
    BY <1>2, <2>5, <2>6
<1>4. /\ SameSession(k0, k) /\ k.timer \in {k0.timer, 0} /\ (k.timer # 0 => k.blocking)
      /\ ~k.blocking
  BY <1>1, <1>2 DEF Released, SameSession, ClientVariables, TimerOnlyWhileWaiting
<1>5. \A req : Settled(req, k)
  BY <1>4 DEF Settled
<1>6. {"ACK"} \cap {"MEMBERSHIP", "CONNECT"} = {}
  OBVIOUS
<1>. HIDE DEF k
<1>. QED
  BY <1>1, <1>3, <1>4, <1>5, <1>6, ClientHarmless

(* ClientAnswer.                                                           *)
LEMMA ClientAnswerHarmless ==
  ASSUME Ground, NEW c \in Clients, ClientAnswer(c)
  PROVE  Harmless
<1>. DEFINE k0 == client[c]
            m == Next1(c)
            k == IF k0.blocking THEN Displays(k0, m) ELSE k0
<1>1. /\ TypeOK /\ TimerOnlyWhileWaiting
      /\ NextIs(c, Answers) /\ net' = Received(c) /\ UNCHANGED <<node, budget, accepted>>
      /\ client' = [client EXCEPT ![c] = k]
  BY DEF Ground, ClientAnswer
<1>2. k0 \in ClientVariables(Made)
  BY <1>1, ClientTypes
<1>3. m = net.incoming[c][1] /\ m \in Receives(Made, c) /\ m.type \in Answers
  <2>1. c \in Proc /\ net.incoming[c] # <<>> /\ net \in NetworkOf(Made) /\ m.type \in Answers
    BY <1>1, Processes, NetTypes DEF NextIs, Next1
  <2>. QED
    BY <2>1, ReceivedEffect
<1>4. m.req \in Made
  BY <1>3, ListingTyped
<1>. HIDE DEF m
<1>5. k \in ClientVariables(Made)
  <2>. DEFINE inbox == IF m.type = "INBOX" THEN k0.inbox \cup {m.req} ELSE k0.inbox
              print == k0.printInbox \/ m.type = "INBOX"
              listed == k0.listed \/ m.type = "INBOX"
              shown == k0.displayed \/ m.req = k0.awaits
              k1 == [k0 EXCEPT !.inbox = inbox]
              k2 == [k1 EXCEPT !.printInbox = print]
              k3 == [k2 EXCEPT !.listed = listed]
  <2>0. inbox \in SUBSET Made /\ print \in BOOLEAN /\ listed \in BOOLEAN /\ shown \in BOOLEAN
    BY <1>2, <1>4, ClientFields
  <2>1. k1 \in ClientVariables(Made)
    <3>. HIDE DEF inbox
    <3>. QED
      BY <1>2, <2>0, ClientUpdated, Zenon
  <2>2. k2 \in ClientVariables(Made)
    <3>. HIDE DEF k1, print
    <3>. QED
      BY <2>0, <2>1, ClientUpdated, Zenon
  <2>3. k3 \in ClientVariables(Made)
    <3>. HIDE DEF k2, listed
    <3>. QED
      BY <2>0, <2>2, ClientUpdated, Zenon
  <2>4. [k3 EXCEPT !.displayed = shown] \in ClientVariables(Made)
    <3>. HIDE DEF k3, shown
    <3>. QED
      BY <2>0, <2>3, ClientUpdated, Zenon
  <2>5. Displays(k0, m) = [k3 EXCEPT !.displayed = shown]
    BY <1>2 DEF Displays, ClientVariables
  <2>. QED
    BY <1>2, <2>4, <2>5
<1>6. /\ SameSession(k0, k) /\ k.timer = k0.timer /\ k.blocking = k0.blocking
      /\ k.awaits = k0.awaits /\ (k0.displayed => k.displayed)
      /\ k0.blocking /\ m.req = k0.awaits => k.displayed
  BY <1>2 DEF Displays, SameSession, ClientVariables
<1>7. /\ k.timer # 0 => k.blocking
      /\ \A req : Settled(req, k0) => Settled(req, k)
      /\ Settled(m.req, k)
  BY <1>1, <1>6 DEF Settled, TimerOnlyWhileWaiting
<1>8. Answers \cap {"MEMBERSHIP", "CONNECT"} = {}
  BY DEF Answers
<1>. HIDE DEF k
<1>. QED
  BY <1>1, <1>3, <1>5, <1>6, <1>7, <1>8, ClientHarmless

(* What a server receives that is not a membership message.                *)
LEMMA RequestTyped ==
  ASSUME NEW R, NEW s \in Servers, NEW x \in Receives(R, s)
  PROVE  /\ x.type \in Kinds => x.id \in SessionId /\ x.req \in R
         /\ x.type \in Changes \cup {"COMMAND"} => x \in Stashed(R)
         /\ x.type = "CONNECT" => x.id \in SessionId /\ x = Connect(x.id)
<1>1. x \in MembershipMessage \cup ServerMessage(R)
  BY ServersReceive, Processes
<1>2. CASE x \in MembershipMessage
  BY <1>2, KindsAssumption DEF MembershipMessage, Changes
<1>3. CASE x \in [type : {"CONNECT"}, id : SessionId]
  BY <1>3, KindsAssumption DEF Changes, Connect
<1>4. CASE x \in [type : Kinds, id : SessionId, req : R]
  BY <1>4, KindsAssumption DEF Changes, Stashed
<1>5. CASE x \in Stashed(R)
  <2>1. x.type # "CONNECT"
    BY <1>5, KindsAssumption DEF Stashed
  <2>. QED
    BY <1>5, <2>1, StashedFields
<1>. QED
  BY <1>1, <1>2, <1>3, <1>4, <1>5 DEF ServerMessage

(* The message a server receives, and the network without it.              *)
LEMMA ServerReceives ==
  ASSUME Ground, NEW s \in Servers, NEW types, NextIs(s, types)
  PROVE  /\ s \in Proc /\ s \in net.up
         /\ Next1(s) \in Receives(Made, s) /\ Next1(s).type \in types
         /\ Next1(s) = net.incoming[s][1]
         /\ Received(s) \in NetworkOf(Made) /\ MembersUp(Received(s))
         /\ Taken(net, Received(s), s)
<1>1. /\ s \in Proc /\ s \in net.up /\ net.incoming[s] # <<>> /\ Next1(s).type \in types
      /\ net \in NetworkOf(Made) /\ MembersUp(net)
  BY Processes, NetTypes, MembersAreUp DEF Ground, NextIs, Next1
<1>2. /\ Received(s) \in NetworkOf(Made) /\ Taken(net, Received(s), s)
      /\ Next1(s) = net.incoming[s][1] /\ Next1(s) \in Receives(Made, s)
  BY <1>1, ReceivedEffect
<1>3. MembersUp(Received(s))
  BY <1>1, <1>2 DEF MembersUp, Taken, SameGroups
<1>. QED
  BY <1>1, <1>2, <1>3

Listings == {"SHOW_INBOX", "SHOW_COMPONENT"}

(* A server takes a message and answers.                                   *)
LEMMA ServerQuietly ==
  ASSUME Ground, NEW s \in Servers, NEW types, NextIs(s, types),
         types \cap {"MEMBERSHIP", "CONNECT"} = {},
         UNCHANGED <<client, budget, accepted>>,
         NEW v \in ServerVariables(Made), node' = [node EXCEPT ![s] = v],
         v.client_connections = node[s].client_connections,
         NEW B, net' \in NetworkOf(Made), Sends(Received(s), net', B)
  PROVE  /\ TypeOK' /\ QuietStep /\ TimerOnlyWhileWaiting'
         /\ B \cap Listings = {} => AcksBehind'
<1>0. TypeOK /\ AcksBehind /\ TimerOnlyWhileWaiting
  BY DEF Ground
<1>1. s \in Proc /\ s \in net.up
  BY ServerReceives
<1>3. /\ QuietNet(net, net')
      /\ \A q \in Proc :
           \E new : /\ Moved(net.incoming[q], net'.incoming[q], IF q = s THEN 1 ELSE 0, new)
                    /\ \A x \in new : Plain(x, B)
  <2>. DEFINE m == net'
  <2>1. m \in NetworkOf(Made) /\ Sends(Received(s), m, B)
    OBVIOUS
  <2>. HIDE DEF m
  <2>2. /\ QuietNet(net, m)
        /\ \A q \in Proc :
             \E new : /\ Moved(net.incoming[q], m.incoming[q], IF q = s THEN 1 ELSE 0, new)
                      /\ \A x \in new : Plain(x, B)
    BY <1>1, <2>1, HandledQuietly, Zenon
  <2>. QED
    BY <2>2 DEF m
<1>4. /\ node \in [Servers -> ServerVariables(Made)] /\ node' \in [Servers -> ServerVariables(Made)]
      /\ node'[s] = v /\ \A t \in Servers \ {s} : node'[t] = node[t]
  BY <1>0 DEF TypeOK
<1>5. TypeOK'
  BY <1>0, <1>4 DEF TypeOK, Made
<1>6. QuietStep
  BY <1>1, <1>3, <1>4 DEF QuietStep, SameSession
<1>7. ASSUME B \cap Listings = {}
      PROVE  AcksBehind'
  <2>. SUFFICES ASSUME NEW d \in Clients
                PROVE  AcksFine(net'.incoming[d], client'[d])
    BY AcksAreFineNext
  <2>1. PICK new : /\ Moved(net.incoming[d], net'.incoming[d], 0, new)
                   /\ \A x \in new : Plain(x, B)
    <3>1. d \in Proc /\ d # s
      BY Processes
    <3>2. (IF d = s THEN 1 ELSE 0) = 0
      BY <3>1
    <3>. QED
      BY <1>3, <3>1, <3>2
  <2>2. \A x \in new : ~Listing(x)
    BY <1>7, <2>1 DEF Plain, Listing, Listings
  <2>3. \A req : Settled(req, client[d]) => Settled(req, client'[d])
    OBVIOUS
  <2>4. 0 # 1
    OBVIOUS
  <2>. QED
    BY <1>0, <1>5, <2>1, <2>2, <2>3, <2>4, AcksKept, Zenon
<1>8. TimerOnlyWhileWaiting'
  BY <1>0 DEF TimerOnlyWhileWaiting
<1>. QED
  BY <1>5, <1>6, <1>7, <1>8

(* As it is when the server's variables stay.                              *)
LEMMA ServerAnswers ==
  ASSUME Ground, NEW s \in Servers, NEW types, NextIs(s, types),
         types \cap {"MEMBERSHIP", "CONNECT"} = {},
         UNCHANGED <<client, node, budget, accepted>>,
         NEW B, net' \in NetworkOf(Made), Sends(Received(s), net', B)
  PROVE  /\ TypeOK' /\ QuietStep /\ TimerOnlyWhileWaiting'
         /\ B \cap Listings = {} => AcksBehind'
<1>1. TypeOK /\ node[s] \in ServerVariables(Made)
  BY ServerTypes DEF Ground
<1>2. node' = [node EXCEPT ![s] = node[s]]
  BY <1>1 DEF TypeOK
<1>. QED
  BY <1>1, <1>2, ServerQuietly

(* ServerRefuses.                                                          *)
LEMMA ServerRefusesHarmless ==
  ASSUME Ground, NEW s \in Servers, ServerRefuses(s)
  PROVE  Harmless
<1>. DEFINE x == Next1(s)
            r == Received(s)
            m == net'
<1>1. /\ NextIs(s, Kinds) /\ m = Ack(r, s, x, "refused")
      /\ UNCHANGED <<client, node, budget, accepted>>
  BY DEF ServerRefuses
<1>2. Kinds \cap {"MEMBERSHIP", "CONNECT"} = {}
  BY KindsAssumption
<1>3. r \in NetworkOf(Made) /\ MembersUp(r) /\ x.id \in SessionId /\ x.req \in Made
  BY <1>1, ServerReceives, RequestTyped
<1>. HIDE DEF x, r, m
<1>4. m \in NetworkOf(Made) /\ Sends(r, m, {"refused"})
  BY <1>1, <1>3, AckSends
<1>5. {"refused"} \cap Listings = {}
  BY DEF Listings
<1>. QED
  BY <1>1, <1>2, <1>4, <1>5, ServerAnswers DEF Harmless, m, r

(* ServerApplies.                                                          *)
LEMMA ServerAppliesHarmless ==
  ASSUME Ground, NEW s \in Servers, ServerApplies(s)
  PROVE  Harmless
<1>. DEFINE x == Next1(s)
            r == Received(s)
            m == net'
            B == Changes \cup {"missing"}
<1>1. /\ NextIs(s, Changes) /\ UNCHANGED <<client, node, budget, accepted>>
      /\ \/ m = Applied(r, s, x)
         \/ m = Applied(Answer(r, s, x, "RESPONSE"), s, x)
         \/ m = Applied(Ack(r, s, x, "missing"), s, x)
  BY DEF ServerApplies
<1>2. Changes \cap {"MEMBERSHIP", "CONNECT"} = {} /\ B \cap Listings = {}
  BY DEF Changes, Listings
<1>3. r \in NetworkOf(Made) /\ MembersUp(r) /\ x \in Stashed(Made)
  BY <1>1, ServerReceives, RequestTyped
<1>4. x.id \in SessionId /\ x.req \in Made
  BY <1>3, StashedFields
<1>. HIDE DEF x, r, m
<1>5. ASSUME NEW n \in NetworkOf(Made), MembersUp(n), Sends(r, n, B), m = Applied(n, s, x)
      PROVE  m \in NetworkOf(Made) /\ Sends(r, m, B)
  <2>1. m \in NetworkOf(Made) /\ Sends(n, m, Changes)
    BY <1>3, <1>5, AppliedSends
  <2>2. Sends(n, m, B)
    BY <2>1, SendsWeaker
  <2>. QED
    BY <1>3, <1>5, <2>1, <2>2, SendsTwice
<1>6. Sends(r, r, B)
  BY <1>3, SendsTwice
<1>7. LET n == Answer(r, s, x, "RESPONSE") IN n \in NetworkOf(Made) /\ MembersUp(n) /\ Sends(r, n, B)
  <2>1. LET n == Answer(r, s, x, "RESPONSE")
        IN  n \in NetworkOf(Made) /\ MembersUp(n) /\ Sends(r, n, {"missing"})
    BY <1>3, <1>4, AckSends DEF Answers
  <2>. QED
    BY <2>1, SendsWeaker
<1>8. LET n == Ack(r, s, x, "missing") IN n \in NetworkOf(Made) /\ MembersUp(n) /\ Sends(r, n, B)
  <2>1. LET n == Ack(r, s, x, "missing")
        IN  n \in NetworkOf(Made) /\ MembersUp(n) /\ Sends(r, n, {"missing"})
    BY <1>3, <1>4, AckSends
  <2>. QED
    BY <2>1, SendsWeaker
<1>9. m \in NetworkOf(Made) /\ Sends(r, m, B)
  <2>. HIDE DEF B
  <2>. QED
    BY <1>1, <1>3, <1>5, <1>6, <1>7, <1>8
<1>. HIDE DEF B
<1>. QED
  BY <1>1, <1>2, <1>9, ServerAnswers DEF Harmless, m, r

(* ServerCommand.                                                          *)
LEMMA ServerCommandHarmless ==
  ASSUME Ground, NEW s \in Servers, ServerCommand(s)
  PROVE  Harmless
<1>. DEFINE x == Next1(s)
            r == Received(s)
            m == net'
<1>1. /\ NextIs(s, {"COMMAND"}) /\ UNCHANGED <<client, node, budget, accepted>>
      /\ m = Applied(r, s, x) \/ m = r
  BY DEF ServerCommand
<1>2. {"COMMAND"} \cap {"MEMBERSHIP", "CONNECT"} = {} /\ Changes \cap Listings = {}
  BY DEF Changes, Listings
<1>3. r \in NetworkOf(Made) /\ MembersUp(r) /\ x \in Stashed(Made)
  BY <1>1, ServerReceives, RequestTyped
<1>. HIDE DEF x, r, m
<1>4. m \in NetworkOf(Made) /\ Sends(r, m, Changes)
  BY <1>1, <1>3, AppliedSends, SendsTwice
<1>. QED
  BY <1>1, <1>2, <1>4, ServerAnswers DEF Harmless, m, r

(* ServerStashes.                                                          *)
LEMMA ServerStashesHarmless ==
  ASSUME Ground, NEW s \in Servers, ServerStashes(s)
  PROVE  Harmless
<1>. DEFINE x == Next1(s)
            r == Received(s)
            m == net'
            types == Changes \cup {"COMMAND"}
            v == [node[s] EXCEPT !.synch_queue = Append(@, x)]
<1>1. /\ NextIs(s, types) /\ UNCHANGED <<client, budget, accepted>>
      /\ m = r /\ node' = [node EXCEPT ![s] = v]
  BY DEF ServerStashes
<1>2. types \cap {"MEMBERSHIP", "CONNECT"} = {}
  BY DEF Changes
<1>3. r \in NetworkOf(Made) /\ x \in Stashed(Made)
  BY <1>1, ServerReceives, RequestTyped
<1>4. v \in ServerVariables(Made) /\ v.client_connections = node[s].client_connections
  <2>1. node[s] \in ServerVariables(Made)
    BY ServerTypes DEF Ground
  <2>. HIDE DEF x
  <2>2. Append(node[s].synch_queue, x) \in Seq(Stashed(Made))
    BY <1>3, ServerTypes DEF Ground
  <2>. QED
    BY <2>1, <2>2 DEF ServerVariables
<1>5. Sends(r, m, {})
  BY <1>1, <1>3, SendsTwice
<1>6. {} \cap Listings = {}
  OBVIOUS
<1>. HIDE DEF v, types, x
<1>. QED
  BY <1>1, <1>2, <1>3, <1>4, <1>5, <1>6, ServerQuietly DEF Harmless

(* A server that synchronizes.                                             *)
LEMMA SynchHarmless ==
  ASSUME Ground, NEW s \in Servers, s \in net.up, client' = client, accepted' = accepted,
         budget'.connects = budget.connects, budget'.changes = budget.changes,
         budget'.requests = budget.requests,
         budget' \in [connects : 0 .. MaxConnects, requests : Request, crashes : 0 .. MaxCrashes,
                      changes : 0 .. MaxNetChanges, synchs : 0 .. MaxSynchs],
         NEW v \in ServerVariables(Made), node' = [node EXCEPT ![s] = v],
         v.client_connections = node[s].client_connections,
         NEW B, B \cap Listings = {}, net' \in NetworkOf(Made), Sends(net, net', B)
  PROVE  Harmless
<1>0. TypeOK /\ AcksBehind /\ TimerOnlyWhileWaiting /\ net \in NetworkOf(Made)
  BY NetTypes DEF Ground
<1>1. /\ QuietNet(net, net')
      /\ \A q \in Proc :
           \E new : Grown(net.incoming[q], net'.incoming[q], new) /\ \A x \in new : Plain(x, B)
  <2>. DEFINE m == net'
  <2>1. m \in NetworkOf(Made) /\ Sends(net, m, B)
    OBVIOUS
  <2>. HIDE DEF m
  <2>2. /\ QuietNet(net, m)
        /\ \A q \in Proc :
             \E new : Grown(net.incoming[q], m.incoming[q], new) /\ \A x \in new : Plain(x, B)
    BY <1>0, <2>1, SendsQuietly, Zenon
  <2>. QED
    BY <2>2 DEF m
<1>2. /\ node \in [Servers -> ServerVariables(Made)] /\ node' \in [Servers -> ServerVariables(Made)]
      /\ node'[s] = v /\ \A t \in Servers \ {s} : node'[t] = node[t]
  BY <1>0 DEF TypeOK
<1>3. TypeOK'
  BY <1>0, <1>2 DEF TypeOK, Made
<1>4. QuietStep
  BY <1>1, <1>2 DEF QuietStep, SameSession
<1>5. AcksBehind'
  <2>. SUFFICES ASSUME NEW d \in Clients
                PROVE  AcksFine(net'.incoming[d], client'[d])
    BY AcksAreFineNext
  <2>1. PICK new : Grown(net.incoming[d], net'.incoming[d], new) /\ \A x \in new : Plain(x, B)
    BY <1>1, Processes
  <2>2. \A x \in new : ~Listing(x)
    BY <2>1 DEF Plain, Listing, Listings
  <2>3. \A req : Settled(req, client[d]) => Settled(req, client'[d])
    OBVIOUS
  <2>. QED
    BY <1>0, <1>3, <2>1, <2>2, <2>3, AcksGrown, Zenon
<1>6. TimerOnlyWhileWaiting'
  BY <1>0 DEF TimerOnlyWhileWaiting
<1>. QED
  BY <1>3, <1>4, <1>5, <1>6 DEF Harmless

(* BeginSynch.                                                             *)
LEMMA BeginSynchHarmless ==
  ASSUME Ground, NEW s \in Servers, BeginSynch(s)
  PROVE  Harmless
<1>. DEFINE v == [node[s] EXCEPT !.synchronizing = TRUE]
<1>1. /\ s \in net.up /\ Spend("synchs", MaxSynchs) /\ node' = [node EXCEPT ![s] = v]
      /\ net' = net /\ client' = client /\ accepted' = accepted
  BY DEF BeginSynch
<1>2. TypeOK /\ net \in NetworkOf(Made) /\ node[s] \in ServerVariables(Made)
  BY NetTypes, ServerTypes DEF Ground
<1>3. /\ budget'.connects = budget.connects /\ budget'.changes = budget.changes
      /\ budget'.requests = budget.requests
      /\ budget' \in [connects : 0 .. MaxConnects, requests : Request, crashes : 0 .. MaxCrashes,
                      changes : 0 .. MaxNetChanges, synchs : 0 .. MaxSynchs]
  BY <1>1, <1>2, Spent
<1>4. v \in ServerVariables(Made) /\ v.client_connections = node[s].client_connections
  BY <1>2 DEF ServerVariables
<1>5. Sends(net, net', {})
  BY <1>1, <1>2, SendsTwice
<1>6. {} \cap Listings = {}
  OBVIOUS
<1>. HIDE DEF v
<1>. QED
  BY <1>1, <1>2, <1>3, <1>4, <1>5, <1>6, SynchHarmless

(* EndSynch.                                                               *)
LEMMA EndSynchHarmless ==
  ASSUME Ground, NEW s \in Servers, EndSynch(s)
  PROVE  Harmless
<1>. DEFINE v == [[node[s] EXCEPT !.synchronizing = FALSE] EXCEPT !.synch_queue = <<>>]
            m == net'
<1>0. TypeOK
  BY DEF Ground
<1>1. /\ net \in NetworkOf(Made) /\ node[s] \in ServerVariables(Made) /\ MembersUp(net)
      /\ node[s].synch_queue \in Seq(Stashed(Made)) /\ node \in [Servers -> ServerVariables(Made)]
  BY NetTypes, ServerTypes, MembersAreUp DEF Ground, TypeOK
<1>2. /\ s \in net.up /\ client' = client /\ budget' = budget /\ accepted' = accepted
      /\ node' = [node EXCEPT ![s] = v]
  BY <1>1 DEF EndSynch
<1>3. PICK silent : m = Answered(net, s, node[s].synch_queue, silent)
  BY DEF EndSynch
<1>4. v \in ServerVariables(Made) /\ v.client_connections = node[s].client_connections
  <2>1. <<>> \in Seq(Stashed(Made))
    BY EmptySeq
  <2>. QED
    BY <1>1, <2>1 DEF ServerVariables
<1>. HIDE DEF v, m
<1>5. m \in NetworkOf(Made) /\ Sends(net, m, Changes)
  BY <1>1, <1>3, AnsweredSends
<1>6. Changes \cap Listings = {}
  BY DEF Changes, Listings
<1>7. budget \in [connects : 0 .. MaxConnects, requests : Request, crashes : 0 .. MaxCrashes,
                  changes : 0 .. MaxNetChanges, synchs : 0 .. MaxSynchs]
  BY <1>0, BudgetTypes
<1>. QED
  BY <1>2, <1>4, <1>5, <1>6, <1>7, SynchHarmless DEF m

(* ServerShows: the answer is put in front of its ACK.                     *)
LEMMA ServerShowsHarmless ==
  ASSUME Ground, NEW s \in Servers, ServerShows(s)
  PROVE  Harmless
<1>. DEFINE x == Next1(s)
            type == IF x.type = "SHOW_INBOX" THEN "INBOX" ELSE "COMPONENT"
            r == Received(s)
            a == Answer(r, s, x, type)
            m == net'
            y == [type |-> type, req |-> x.req]
            z == [type |-> "ACK", req |-> x.req, body |-> x.type]
            there == Present(r, s, x.id) \cap Clients
<1>0. TypeOK /\ AcksBehind
  BY DEF Ground
<1>1. /\ NextIs(s, Listings) /\ UNCHANGED <<client, node, budget, accepted>>
      /\ m = Ack(a, s, x, x.type)
  BY DEF ServerShows, Shows, Listings
<1>2. Listings \cap {"MEMBERSHIP", "CONNECT"} = {}
  BY DEF Listings
<1>3. /\ r \in NetworkOf(Made) /\ MembersUp(r) /\ Taken(net, r, s)
      /\ x \in Receives(Made, s) /\ x.type \in Listings
  BY <1>1, ServerReceives
<1>4. x.id \in SessionId /\ x.req \in Made /\ x.type \in Kinds
  <2>1. x \in MembershipMessage \cup ServerMessage(Made)
    BY <1>3, ServersReceive, Processes
  <2>2. x.type \in Kinds
    BY <1>3, <2>1 DEF MembershipMessage, ServerMessage, Stashed, Listings, Changes
  <2>. QED
    BY <1>3, <2>2, RequestTyped
<1>5. type \in Answers /\ y.type \in Answers /\ z.req = y.req
  BY DEF Answers
<1>6. y \in ClientMessage(Made) /\ z \in ClientMessage(Made)
  BY <1>4, <1>5 DEF ClientMessage
<1>7. a = SendToClient(r, s, x.id, y) /\ m = SendToClient(a, s, x.id, z)
  BY <1>1 DEF Answer, Ack
<1>8. a \in NetworkOf(Made) /\ MembersUp(a) /\ Sends(r, a, {x.type})
  <2>. HIDE DEF x, r, type
  <2>. QED
    BY <1>3, <1>4, <1>5, AckSends
<1>9. m \in NetworkOf(Made) /\ Sends(a, m, {x.type})
  <2>. HIDE DEF x, a
  <2>. QED
    BY <1>1, <1>4, <1>8, AckSends
<1>10. Sends(r, m, {x.type})
  <2>. HIDE DEF x, r, a, m
  <2>. QED
    BY <1>3, <1>8, <1>9, SendsTwice, Zenon
<1>11. TypeOK' /\ QuietStep /\ TimerOnlyWhileWaiting'
  <2>. HIDE DEF x
  <2>. QED
    BY <1>1, <1>2, <1>9, <1>10, ServerAnswers
<1>. HIDE DEF x, r, a, m, y, z, type
<1>12. SentTo(r, a, there, y)
  BY <1>3, <1>4, <1>6, <1>7, SendToClientEffect, Zenon
<1>13. SentTo(a, m, Present(a, s, x.id) \cap Clients, z)
  BY <1>4, <1>6, <1>7, <1>8, SendToClientEffect, Zenon
<1>14. SentTo(a, m, there, z)
  <2>1. Present(a, s, x.id) = Present(r, s, x.id)
    BY <1>12 DEF SentTo, SameGroups, Present
  <2>. QED
    BY <1>13, <2>1
<1>. HIDE DEF there
<1>15. AcksBehind'
  <2>. SUFFICES ASSUME NEW d \in Clients
                PROVE  AcksFine(m.incoming[d], client[d])
    BY <1>1, AcksAreFineNext DEF m
  <2>1. d \in Proc /\ d # s /\ AcksFine(net.incoming[d], client[d])
    BY <1>0, Processes, AcksAreFine
  <2>2. r.incoming[d] = net.incoming[d]
    BY <1>3, <2>1 DEF Taken
  <2>3. CASE d \in there
    <3>1. /\ Grown(r.incoming[d], a.incoming[d], {y}) /\ Len(a.incoming[d]) = Len(r.incoming[d]) + 1
          /\ Grown(a.incoming[d], m.incoming[d], {z}) /\ Len(m.incoming[d]) = Len(a.incoming[d]) + 1
      BY <1>12, <1>14, <2>1, <2>3 DEF SentTo
    <3>2. \A n \in NetworkOf(Made) : n.incoming[d] \in Seq(Receives(Made, d))
      BY <2>1, NetworkFields
    <3>3. /\ r.incoming[d] \in Seq(Receives(Made, d)) /\ a.incoming[d] \in Seq(Receives(Made, d))
          /\ m.incoming[d] \in Seq(Receives(Made, d))
      BY <1>3, <1>8, <1>9, <3>2
    <3>4. AcksFine(r.incoming[d], client[d])
      BY <2>1, <2>2
    <3>. DEFINE old == r.incoming[d]
                mid == a.incoming[d]
                now == m.incoming[d]
                k == client[d]
                S == Receives(Made, d)
    <3>5. /\ old \in Seq(S) /\ mid \in Seq(S) /\ now \in Seq(S) /\ AcksFine(old, k)
          /\ Grown(old, mid, {y}) /\ Len(mid) = Len(old) + 1
          /\ Grown(mid, now, {z}) /\ Len(now) = Len(mid) + 1
      BY <3>1, <3>3, <3>4
    <3>. HIDE DEF old, mid, now, k, S
    <3>6. AcksFine(now, k)
      BY <1>5, <3>5, AcksShown
    <3>. QED
      BY <3>6 DEF now, k
  <2>4. CASE d \notin there
    <3>1. a.incoming[d] = r.incoming[d] /\ m.incoming[d] = a.incoming[d]
      BY <1>12, <1>14, <2>1, <2>4 DEF SentTo
    <3>. QED
      BY <2>1, <2>2, <3>1
  <2>. QED
    BY <2>3, <2>4
<1>. QED
  BY <1>11, <1>15 DEF Harmless

-----------------------------------------------------------------------------
(* Messages taken, and processes that are down.                            *)

(* The message taken makes no difference to the counts, unless it was one. *)
LEMMA TakenDoomed ==
  ASSUME NEW R, NEW n \in NetworkOf(R), NEW m \in NetworkOf(R), NEW p \in Proc, Taken(n, m, p),
         NEW s \in Proc, NEW g,
         \/ s # p
         \/ n.incoming[p][1].type # "MEMBERSHIP"
         \/ n.incoming[p][1].group # g
         \/ n.incoming[p][1].n_connected = 2
  PROVE  /\ Doomed(n, s, g) <=> Doomed(m, s, g)
         /\ Present(m, s, g) = Present(n, s, g)
         /\ m.members = n.members /\ m.side = n.side
<1>1. /\ m.members = n.members /\ m.side = n.side
      /\ \A q \in Proc \ {p} : m.incoming[q] = n.incoming[q]
  BY DEF Taken, SameGroups
<1>2. CASE s # p
  BY <1>1, <1>2 DEF Doomed, Present
<1>3. CASE s = p
  <2>. DEFINE old == n.incoming[p]
              now == m.incoming[p]
              S == Receives(R, p)
  <2>1. old \in Seq(S) /\ now \in Seq(S)
    BY NetworkFields
  <2>2. Len(old) = Len(now) + 1 /\ \A i \in 1 .. Len(now) : now[i] = old[i + 1]
    BY DEF Taken
  <2>. HIDE DEF old, now, S
  <2>3. Moved(old, now, 1, {})
    BY <2>1, <2>2 DEF Moved
  <2>4. Range(now) \subseteq Range(old) /\ Range(old) \subseteq Range(now) \cup {old[1]}
    BY <2>1, <2>3, MovedRange
  <2>5. ~(old[1].type = "MEMBERSHIP" /\ old[1].group = g /\ old[1].n_connected # 2)
    BY <1>3 DEF old
  <2>6. (\E x \in Range(old) : x.type = "MEMBERSHIP" /\ x.group = g /\ x.n_connected # 2)
          <=> (\E x \in Range(now) : x.type = "MEMBERSHIP" /\ x.group = g /\ x.n_connected # 2)
    BY <2>4, <2>5
  <2>. QED
    BY <1>1, <1>3, <2>6 DEF Doomed, Present, old, now
<1>. QED
  BY <1>2, <1>3

(* What is told is about one of the groups.                                *)
LEMMA TellingFields ==
  ASSUME NEW m, m.members \in [SessionId -> SUBSET Proc], NEW q, NEW gs \in SUBSET SessionId,
         NEW cause \in {"join", "leave", "network"}, NEW x \in Telling(m, q, gs, cause)
  PROVE  /\ x.type = "MEMBERSHIP" /\ x.cause = cause /\ x.group \in gs
         /\ x = Told(m, q, x.group, cause) /\ ~Listing(x)
<1>1. PICK g \in gs : x = Told(m, q, g, cause)
  BY DEF Telling
<1>. QED
  BY <1>1, ToldTyped DEF Listing

(* Those that are down are told nothing of a leave,                        *)
LEMMA LeftDown ==
  ASSUME NEW R, NEW n \in NetworkOf(R), NEW m \in NetworkOf(R), MembersUp(n), NEW p, NEW gs \in SUBSET SessionId,
         LeftBy(n, m, p, gs), NEW q \in Proc, q \notin n.up
  PROVE  m.incoming[q] = n.incoming[q]
<1>1. Missed(n, p, gs, q) = {}
  BY DEF Missed, MembersUp
<1>2. Telling(m, q, {}, "leave") = {}
  BY DEF Telling
<1>3. Grown(n.incoming[q], m.incoming[q], {})
  BY <1>1, <1>2 DEF LeftBy
<1>4. n.incoming[q] \in Seq(Receives(R, q)) /\ m.incoming[q] \in Seq(Receives(R, q))
  BY NetworkFields
<1>. QED
  BY <1>3, <1>4, GrownByNone

(* of an exit,                                                             *)
LEMMA GoneDown ==
  ASSUME NEW R, NEW n \in NetworkOf(R), NEW m \in NetworkOf(R), MembersUp(n), NEW p,
         GoneFrom(n, m, p), NEW q \in Proc \ {p}, q \notin n.up
  PROVE  m.incoming[q] = n.incoming[q]
<1>1. Missed(n, p, SessionId, q) = {}
  BY DEF Missed, MembersUp
<1>2. Telling(m, q, {}, "leave") = {}
  BY DEF Telling
<1>3. Grown(n.incoming[q], m.incoming[q], {})
  BY <1>1, <1>2 DEF GoneFrom
<1>4. n.incoming[q] \in Seq(Receives(R, q)) /\ m.incoming[q] \in Seq(Receives(R, q))
  BY NetworkFields
<1>. QED
  BY <1>3, <1>4, GrownByNone

(* of a change of the network,                                             *)
LEMMA MovedToDown ==
  ASSUME NEW R, NEW n \in NetworkOf(R), NEW m \in NetworkOf(R), MembersUp(n), NEW side,
         MovedTo(n, m, side), NEW q \in Proc, q \notin n.up
  PROVE  m.incoming[q] = n.incoming[q]
<1>1. Regrouped(n, m, q) = {}
  BY DEF Regrouped, MembersUp
<1>2. Telling(m, q, {}, "network") = {}
  BY DEF Telling
<1>3. Grown(n.incoming[q], m.incoming[q], {})
  BY <1>1, <1>2 DEF MovedTo
<1>4. n.incoming[q] \in Seq(Receives(R, q)) /\ m.incoming[q] \in Seq(Receives(R, q))
  BY NetworkFields
<1>. QED
  BY <1>3, <1>4, GrownByNone

(* and of a join of one that is up.                                        *)
LEMMA JoinedDown ==
  ASSUME NEW n, NEW m, MembersUp(n), NEW p \in n.up, NEW g \in SessionId,
         JoinedBy(n, m, p, g), NEW q \in Proc, q \notin n.up
  PROVE  m.incoming[q] = n.incoming[q]
<1>1. ~Greeted(n, p, g, q)
  BY DEF Greeted, MembersUp
<1>. QED
  BY <1>1 DEF JoinedBy

(* Whoever sees somebody leave finds nothing but the news of it.           *)
LEMMA LeftGrown ==
  ASSUME NEW R, NEW n \in NetworkOf(R), NEW m \in NetworkOf(R), NEW p, NEW gs \in SUBSET SessionId,
         LeftBy(n, m, p, gs), NEW q \in Proc
  PROVE  \E new : /\ Grown(n.incoming[q], m.incoming[q], new)
                  /\ \A x \in new : /\ x.type = "MEMBERSHIP" /\ x.cause = "leave" /\ ~Listing(x)
                                    /\ x.group \in Missed(n, p, gs, q)
<1>1. m.members \in [SessionId -> SUBSET Proc] /\ Missed(n, p, gs, q) \in SUBSET SessionId
  BY NetworkFields DEF Missed
<1>2. Grown(n.incoming[q], m.incoming[q], Telling(m, q, Missed(n, p, gs, q), "leave"))
  BY DEF LeftBy
<1>3. \A x \in Telling(m, q, Missed(n, p, gs, q), "leave") :
        /\ x.type = "MEMBERSHIP" /\ x.cause = "leave" /\ ~Listing(x)
        /\ x.group \in Missed(n, p, gs, q)
  BY <1>1, TellingFields
<1>. QED
  BY <1>2, <1>3

-----------------------------------------------------------------------------
(* A client leaves its session.                                            *)

(* The connect group of a client with variables k is one it had drawn.     *)
Numbered(c, k) == k.connection_group \in {None} \cup {<<Seed[c], j>> : j \in 1 .. k.draw}

(* The connect group of a client, if it has one.                           *)
GroupOf(c) == {client[c].connection_group} \cap SessionId

(* disconnect() ends the session and keeps the rest.                       *)
LEMMA DisconnectedFields ==
  ASSUME Ground, NEW c \in Clients, NEW k, k = Disconnected(c)
  PROVE  /\ k \in ClientVariables(Made)
         /\ k.connected = FALSE /\ k.draw = client[c].draw + (IF InSession(c) THEN 1 ELSE 0)
         /\ k.connection_group = client[c].connection_group
         /\ k.connected_server = client[c].connected_server
         /\ k.timer = client[c].timer /\ k.blocking = client[c].blocking
         /\ k.awaits = client[c].awaits /\ k.displayed = client[c].displayed
         /\ k.draw <= budget.connects + 1 /\ k.connection_group # SessionIdOf(c, k)
         /\ Numbered(c, k)
<1>. DEFINE k0 == client[c]
            d == k0.draw + (IF InSession(c) THEN 1 ELSE 0)
            k1 == [k0 EXCEPT !.connected = FALSE]
<1>1. TypeOK /\ SessionsDrawn /\ k0 \in ClientVariables(Made) /\ k0.draw \in 1 .. MaxConnects + 1
  BY ClientTypes DEF Ground
<1>2. d <= budget.connects + 1 /\ budget.connects \in 0 .. MaxConnects
  BY <1>1, BudgetTypes DEF SessionsDrawn
<1>3. d \in 1 .. MaxConnects + 1 /\ d \in {k0.draw, k0.draw + 1} /\ k0.draw \in Nat
  BY <1>1, <1>2, Bounds
<1>4. k = [k1 EXCEPT !.draw = d]
  BY DEF Disconnected
<1>5. k \in ClientVariables(Made)
  <2>1. k1 \in ClientVariables(Made)
    BY <1>1, ClientUpdated, Zenon
  <2>2. d \in 1 .. MaxConnects + 1
    BY <1>3
  <2>. HIDE DEF k1, d
  <2>3. [k1 EXCEPT !.draw = d] \in ClientVariables(Made)
    BY <2>1, <2>2, ClientUpdated, Zenon
  <2>. QED
    BY <1>4, <2>3
<1>6. /\ k.connected = FALSE /\ k.draw = d
      /\ k.connection_group = k0.connection_group /\ k.connected_server = k0.connected_server
      /\ k.timer = k0.timer /\ k.blocking = k0.blocking
      /\ k.awaits = k0.awaits /\ k.displayed = k0.displayed
  <2>. HIDE DEF d
  <2>. QED
    BY <1>1, <1>4 DEF ClientVariables
<1>7. k.connection_group # SessionIdOf(c, k)
  <2>1. CASE InSession(c)
    <3>1. k.connection_group = <<Seed[c], k0.draw>> /\ k.draw = k0.draw + 1
      BY <1>6, <2>1 DEF InSession, SessionIdOf
    <3>. QED
      BY <1>3, <3>1 DEF SessionIdOf
  <2>2. CASE ~InSession(c)
    <3>1. k.draw = k0.draw
      BY <1>3, <1>6, <2>2
    <3>. QED
      BY <1>6, <2>2, <3>1 DEF InSession, SessionIdOf
  <2>. QED
    BY <2>1, <2>2
<1>8. Numbered(c, k)
  <2>1. k.connection_group \in {None} \cup {<<Seed[c], j>> : j \in 1 .. k0.draw}
    BY <1>1, <1>6 DEF SessionsDrawn
  <2>2. 1 .. k0.draw \subseteq 1 .. k.draw
    BY <1>3, <1>6
  <2>. QED
    BY <2>1, <2>2 DEF Numbered
<1>. QED
  BY <1>2, <1>5, <1>6, <1>7, <1>8

(* The network before c does something: as it is, or without the message   *)
(* that c received.                                                        *)
Before(n, c) == n = net \/ (n = Received(c) /\ NextIs(c, {"MEMBERSHIP"}))

(* What is the same in it.                                                 *)
LEMMA BeforeKept ==
  ASSUME Ground, NEW c \in Clients, NEW n, Before(n, c)
  PROVE  /\ n \in NetworkOf(Made) /\ SameGroups(net, n) /\ MembersUp(n)
         /\ \A q \in Proc \ {c} : n.incoming[q] = net.incoming[q]
         /\ \A s \in Servers : \A g : /\ Doomed(n, s, g) <=> Doomed(net, s, g)
                                      /\ Present(n, s, g) = Present(net, s, g)
         /\ \A now : \A new : \A S :
              /\ now \in Seq(S) /\ Grown(n.incoming[c], now, new)
              => \E d : /\ Moved(net.incoming[c], now, d, new)
                        /\ d = 1 => net.incoming[c][1].type = "MEMBERSHIP"
<1>1. net \in NetworkOf(Made) /\ MembersUp(net) /\ c \in Proc
  BY NetTypes, MembersAreUp, Processes DEF Ground
<1>2. net.incoming[c] \in Seq(Receives(Made, c))
  BY <1>1, NetworkFields
<1>3. CASE n = net
  <2>1. \A now : \A new : \A S :
          now \in Seq(S) /\ Grown(net.incoming[c], now, new) => Moved(net.incoming[c], now, 0, new)
    BY <1>2, GrownMoved, Zenon
  <2>. QED
    BY <1>1, <1>3, <2>1 DEF SameGroups
<1>4. CASE n = Received(c) /\ NextIs(c, {"MEMBERSHIP"})
  <2>1. net.incoming[c] # <<>> /\ Next1(c).type = "MEMBERSHIP"
    BY <1>4 DEF NextIs, Next1
  <2>2. n \in NetworkOf(Made) /\ Taken(net, n, c) /\ Next1(c) = net.incoming[c][1]
    BY <1>1, <1>4, <2>1, ReceivedEffect
  <2>3. SameGroups(net, n) /\ \A q \in Proc \ {c} : n.incoming[q] = net.incoming[q]
    BY <2>2 DEF Taken
  <2>4. ASSUME NEW s \in Servers, NEW g
        PROVE  /\ Doomed(n, s, g) <=> Doomed(net, s, g)
               /\ Present(n, s, g) = Present(net, s, g)
    <3>1. s \in Proc /\ s # c
      BY Processes
    <3>. QED
      BY <1>1, <2>2, <3>1, TakenDoomed
  <2>5. ASSUME NEW now, NEW new, NEW S, now \in Seq(S), Grown(n.incoming[c], now, new)
        PROVE  Moved(net.incoming[c], now, 1, new)
    <3>1. n.incoming[c] \in Seq(Receives(Made, c))
      BY <1>1, <2>2, NetworkFields
    <3>2. /\ Len(net.incoming[c]) = Len(n.incoming[c]) + 1
          /\ \A i \in 1 .. Len(n.incoming[c]) : n.incoming[c][i] = net.incoming[c][i + 1]
      BY <2>2 DEF Taken
    <3>. QED
      BY <1>2, <2>5, <3>1, <3>2, GrownMoved, Zenon
  <2>. QED
    BY <1>1, <2>1, <2>2, <2>3, <2>4, <2>5 DEF MembersUp, SameGroups
<1>. QED
  BY <1>3, <1>4 DEF Before

(* Departed: from the only group the client is in.                         *)
LEMMA DepartedEffect ==
  ASSUME Ground, NEW c \in Clients, NEW n, Before(n, c), NEW m, m = Departed(n, c)
  PROVE  /\ m \in NetworkOf(Made) /\ LeftBy(n, m, c, GroupOf(c))
         /\ \A g \in SessionId : m.members[g] = net.members[g] \ {c}
         /\ m.up = net.up /\ m.side = net.side
<1>. DEFINE cg == client[c].connection_group
            gs == GroupOf(c)
<1>1. n \in NetworkOf(Made) /\ c \in Proc /\ SameGroups(net, n)
  BY BeforeKept, Processes
<1>2. m = Leave(n, c, cg)
  BY DEF Departed
<1>. HIDE DEF cg
<1>3. m \in NetworkOf(Made) /\ LeftBy(n, m, c, gs)
  <2>1. m \in NetworkOf(Made) /\ LeftBy(n, m, c, {cg} \cap SessionId)
    BY <1>1, <1>2, LeaveEffect, Zenon
  <2>. QED
    BY <2>1 DEF GroupOf, cg
<1>4. \A g \in SessionId : c \in net.members[g] => g = cg
  BY DEF Ground, MembersAgree, cg
<1>5. \A g \in SessionId : m.members[g] = net.members[g] \ {c}
  BY <1>1, <1>3, <1>4 DEF LeftBy, SameGroups, GroupOf, cg
<1>6. m.up = net.up /\ m.side = net.side
  BY <1>1, <1>3 DEF LeftBy, SameGroups
<1>. QED
  BY <1>3, <1>5, <1>6 DEF cg

(* HandleTimeout, and ClientMembership of a departure.                     *)
LEMMA ClientLeavesGround ==
  ASSUME Ground, NEW c \in Clients, c \in net.up, NEW n, Before(n, c), net' = Departed(n, c),
         UNCHANGED <<node, budget, accepted>>,
         NEW k \in ClientVariables(Made), client' = [client EXCEPT ![c] = k],
         SameSession(Disconnected(c), k), k.timer \in {client[c].timer, 0},
         k.blocking = client[c].blocking, k.awaits = client[c].awaits,
         k.displayed = client[c].displayed
  PROVE  Ground'
<1>. DEFINE gs == GroupOf(c)
            m == net'
<1>0. /\ TypeOK /\ SessionsDrawn /\ MembersAgree /\ CountsReported /\ ServersPart /\ AcksBehind
      /\ TimerOnlyWhileWaiting
  BY DEF Ground
<1>1. /\ n \in NetworkOf(Made) /\ SameGroups(net, n) /\ MembersUp(n)
      /\ \A q \in Proc \ {c} : n.incoming[q] = net.incoming[q]
      /\ \A s \in Servers : \A g : /\ Doomed(n, s, g) <=> Doomed(net, s, g)
                                   /\ Present(n, s, g) = Present(net, s, g)
  BY BeforeKept, Zenon
<1>2. /\ m \in NetworkOf(Made) /\ LeftBy(n, m, c, gs)
      /\ \A g \in SessionId : m.members[g] = net.members[g] \ {c}
      /\ m.up = net.up /\ m.side = net.side
  <2>1. m = Departed(n, c)
    OBVIOUS
  <2>. HIDE DEF m
  <2>. QED
    BY <2>1, DepartedEffect
<1>3. /\ k.connected = FALSE /\ k.draw = client[c].draw + (IF InSession(c) THEN 1 ELSE 0)
      /\ k.connection_group = client[c].connection_group
      /\ k.draw <= budget.connects + 1 /\ k.connection_group # SessionIdOf(c, k)
      /\ Numbered(c, k)
  <2>. DEFINE kk == Disconnected(c)
  <2>1. /\ kk.connected = FALSE /\ kk.draw = client[c].draw + (IF InSession(c) THEN 1 ELSE 0)
        /\ kk.connection_group = client[c].connection_group
        /\ kk.draw <= budget.connects + 1 /\ kk.connection_group # SessionIdOf(c, kk)
        /\ Numbered(c, kk)
    BY DisconnectedFields
  <2>. HIDE DEF kk
  <2>2. SameSession(kk, k)
    BY DEF kk
  <2>. QED
    BY <2>1, <2>2 DEF SameSession, SessionIdOf, Numbered
<1>4. /\ client \in [Clients -> ClientVariables(Made)] /\ client' \in [Clients -> ClientVariables(Made)]
      /\ client'[c] = k /\ \A d \in Clients \ {c} : client'[d] = client[d]
  BY <1>0 DEF TypeOK
<1>5. /\ ~InSession(c)'
      /\ \A d \in Clients \ {c} : InSession(d)' <=> InSession(d)
  BY <1>3, <1>4 DEF InSession, SessionIdOf
<1>6. TypeOK'
  BY <1>0, <1>2, <1>4 DEF TypeOK, Made
<1>7. SessionsDrawn'
  <2>. SUFFICES ASSUME NEW d \in Clients
                PROVE  /\ client'[d].draw + (IF InSession(d)' THEN 1 ELSE 0) <= budget.connects + 1
                       /\ client'[d].connection_group
                            \in {None} \cup {<<Seed[d], j>> : j \in 1 .. client'[d].draw}
    BY DEF SessionsDrawn
  <2>1. CASE d = c
    <3>1. k.draw \in Nat
      BY <1>4 DEF ClientVariables
    <3>2. client'[d].draw + (IF InSession(d)' THEN 1 ELSE 0) <= budget.connects + 1
      BY <1>3, <1>4, <1>5, <2>1, <3>1
    <3>. QED
      BY <1>3, <1>4, <2>1, <3>2 DEF Numbered
  <2>2. CASE d # c
    BY <1>0, <1>4, <1>5, <2>2 DEF SessionsDrawn
  <2>. QED
    BY <2>1, <2>2
<1>8. MembersAgree'
  <2>1. \A q \in Proc : q \notin net.up => m.incoming[q] = <<>>
    <3>. SUFFICES ASSUME NEW q \in Proc, q \notin net.up
                  PROVE  m.incoming[q] = <<>>
      OBVIOUS
    <3>1. q # c /\ q \notin n.up /\ gs \in SUBSET SessionId
      BY <1>1 DEF SameGroups, GroupOf
    <3>2. m.incoming[q] = n.incoming[q]
      <4>. HIDE DEF m, gs
      <4>. QED
        BY <1>1, <1>2, <3>1, LeftDown
    <3>3. net.incoming[q] = <<>>
      BY <1>0, Processes DEF MembersAgree
    <3>. QED
      BY <1>1, <3>1, <3>2, <3>3
  <2>2. \A s \in Servers, g \in SessionId : s \in m.members[g] <=> g \in node[s].client_connections
    BY <1>0, <1>2, Processes DEF MembersAgree
  <2>3. \A d \in Clients, g \in SessionId :
          d \in m.members[g] <=> d \in m.up /\ InSession(d)' /\ g = client'[d].connection_group
    BY <1>0, <1>2, <1>4, <1>5 DEF MembersAgree
  <2>. QED
    BY <1>0, <1>2, <1>4, <2>1, <2>2, <2>3, Processes DEF MembersAgree
<1>9. ASSUME NEW s \in Servers, NEW g \in SessionId
      PROVE  Counted(n, s, g)
  BY <1>0, <1>1 DEF CountsReported, Counted, SameGroups
<1>10. CountsReported'
  <2>. SUFFICES ASSUME NEW s \in Servers, NEW g \in SessionId
                PROVE  Counted(m, s, g)
    BY DEF CountsReported
  <2>1. gs \in SUBSET SessionId /\ c \in Proc /\ s \in Proc
    BY Processes DEF GroupOf
  <2>. HIDE DEF m, gs
  <2>. QED
    BY <1>1, <1>2, <1>9, <2>1, LeaveCounted, Zenon
<1>11. ServersPart'
  <2>. SUFFICES ASSUME MaxNetChanges <= 1
                PROVE  /\ \A s, t \in Servers, g \in SessionId : Parting(m, s, t, g)
                       /\ budget.changes = 0 => \A p, q \in Proc : m.side[p] = m.side[q]
    BY DEF ServersPart
  <2>1. ASSUME NEW s \in Servers, NEW t \in Servers, NEW g \in SessionId
        PROVE  Parting(m, s, t, g)
    <3>1. Parting(n, s, t, g)
      BY <1>0, <1>1 DEF ServersPart, Parting, SameGroups
    <3>2. gs \in SUBSET SessionId /\ c \in Proc /\ s \in Proc /\ t \in Proc
      BY Processes DEF GroupOf
    <3>. HIDE DEF m, gs
    <3>. QED
      BY <1>1, <1>2, <3>1, <3>2, LeaveParting, Zenon
  <2>. QED
    BY <1>0, <1>2, <2>1 DEF ServersPart
<1>12. AcksBehind'
  <2>. SUFFICES ASSUME NEW d \in Clients
                PROVE  AcksFine(net'.incoming[d], client'[d])
    BY AcksAreFineNext
  <2>1. PICK new : Grown(n.incoming[d], m.incoming[d], new) /\ \A x \in new : ~Listing(x)
    <3>1. d \in Proc /\ gs \in SUBSET SessionId
      BY Processes DEF GroupOf
    <3>. HIDE DEF m, gs
    <3>2. \E new : Grown(n.incoming[d], m.incoming[d], new) /\ \A x \in new : ~Listing(x)
      BY <1>1, <1>2, <3>1, LeftGrown
    <3>. QED
      BY <3>2 DEF m
  <2>2. \A req : Settled(req, client[d]) => Settled(req, client'[d])
    BY <1>4 DEF Settled
  <2>3. CASE d # c
    <3>1. Grown(net.incoming[d], net'.incoming[d], new)
      BY <1>1, <2>1, <2>3, Processes
    <3>. QED
      BY <1>0, <1>6, <2>1, <2>2, <3>1, AcksGrown, Zenon
  <2>4. CASE d = c
    <3>1. m.incoming[c] \in Seq(Receives(Made', c))
      BY <1>6, NetTypesNext, Processes
    <3>2. Grown(n.incoming[c], m.incoming[c], new)
      BY <2>1, <2>4
    <3>. HIDE DEF m
    <3>3. PICK e : /\ Moved(net.incoming[c], m.incoming[c], e, new)
                   /\ e = 1 => net.incoming[c][1].type = "MEMBERSHIP"
      BY <3>1, <3>2, BeforeKept, Zenon
    <3>4. e = 1 => net.incoming[c][1].type \notin Answers
      BY <3>3 DEF Answers
    <3>. QED
      BY <1>0, <1>6, <2>1, <2>2, <2>4, <3>3, <3>4, AcksKept, Zenon DEF m
  <2>. QED
    BY <2>3, <2>4
<1>13. TimerOnlyWhileWaiting'
  BY <1>0, <1>4 DEF TimerOnlyWhileWaiting
<1>. QED
  BY <1>6, <1>7, <1>8, <1>10, <1>11, <1>12, <1>13 DEF Ground

(* HandleTimeout.                                                          *)
LEMMA HandleTimeoutGround ==
  ASSUME Ground, NEW c \in Clients, HandleTimeout(c)
  PROVE  Ground'
<1>. DEFINE kk == Disconnected(c)
            k == [kk EXCEPT !.timer = 0]
<1>1. /\ c \in net.up /\ net' = Departed(net, c) /\ UNCHANGED <<node, budget, accepted>>
      /\ client' = [client EXCEPT ![c] = k]
  BY DEF HandleTimeout
<1>2. kk \in ClientVariables(Made)
  BY DisconnectedFields
<1>3. k \in ClientVariables(Made)
  <2>1. 0 \in 0 .. MaxConnects + 1
    BY Bounds
  <2>. HIDE DEF kk
  <2>. QED
    BY <1>2, <2>1, ClientUpdated, Zenon
<1>4. /\ SameSession(kk, k) /\ k.timer = 0 /\ k.blocking = kk.blocking
      /\ k.awaits = kk.awaits /\ k.displayed = kk.displayed
  <2>. HIDE DEF kk
  <2>. QED
    BY <1>2 DEF ClientVariables, SameSession
<1>5. /\ kk.blocking = client[c].blocking /\ kk.awaits = client[c].awaits
      /\ kk.displayed = client[c].displayed
  BY DisconnectedFields
<1>6. Before(net, c)
  BY DEF Before
<1>7. SameSession(Disconnected(c), k)
  BY <1>4
<1>. HIDE DEF k, kk
<1>. QED
  BY <1>1, <1>3, <1>4, <1>5, <1>6, <1>7, ClientLeavesGround

(* A client that hears of its group, and may believe to be connected.      *)
LEMMA ClientHearsGround ==
  ASSUME Ground, NEW c \in Clients, NextIs(c, {"MEMBERSHIP"}), net' = Received(c),
         UNCHANGED <<node, budget, accepted>>,
         NEW connected \in BOOLEAN, client' = [client EXCEPT ![c].connected = connected]
  PROVE  Ground'
<1>. DEFINE k == [client[c] EXCEPT !.connected = connected]
            m == net'
<1>0. /\ TypeOK /\ SessionsDrawn /\ MembersAgree /\ CountsReported /\ ServersPart /\ AcksBehind
      /\ TimerOnlyWhileWaiting
  BY DEF Ground
<1>1. /\ m \in NetworkOf(Made) /\ SameGroups(net, m)
      /\ \A q \in Proc \ {c} : m.incoming[q] = net.incoming[q]
      /\ \A s \in Servers : \A g : /\ Doomed(m, s, g) <=> Doomed(net, s, g)
                                   /\ Present(m, s, g) = Present(net, s, g)
      /\ \A now : \A new : \A S :
           /\ now \in Seq(S) /\ Grown(m.incoming[c], now, new)
           => \E d : /\ Moved(net.incoming[c], now, d, new)
                     /\ d = 1 => net.incoming[c][1].type = "MEMBERSHIP"
  <2>1. Before(m, c)
    BY DEF Before
  <2>. HIDE DEF m
  <2>. QED
    BY <2>1, BeforeKept, Zenon
<1>2. client[c] \in ClientVariables(Made) /\ client \in [Clients -> ClientVariables(Made)]
  BY <1>0, ClientTypes DEF TypeOK
<1>3. /\ k \in ClientVariables(Made) /\ k.draw = client[c].draw
      /\ k.connection_group = client[c].connection_group
      /\ k.timer = client[c].timer /\ k.blocking = client[c].blocking
      /\ k.awaits = client[c].awaits /\ k.displayed = client[c].displayed
  BY <1>2 DEF ClientVariables
<1>4. /\ client' \in [Clients -> ClientVariables(Made)] /\ c \in net.up
      /\ client'[c] = k /\ \A d \in Clients \ {c} : client'[d] = client[d]
  BY <1>2, <1>3 DEF NextIs
<1>5. \A d \in Clients : /\ InSession(d)' <=> InSession(d)
                         /\ client'[d].draw = client[d].draw
                         /\ client'[d].connection_group = client[d].connection_group
  BY <1>3, <1>4 DEF InSession, SessionIdOf
<1>6. TypeOK'
  BY <1>0, <1>1, <1>4 DEF TypeOK, Made
<1>7. SessionsDrawn'
  BY <1>0, <1>5 DEF SessionsDrawn
<1>8. MembersAgree'
  BY <1>0, <1>1, <1>4, <1>5, Processes DEF MembersAgree, SameGroups
<1>9. CountsReported' /\ ServersPart'
  BY <1>0, <1>1 DEF CountsReported, ServersPart, Counted, Parting, SameGroups
<1>10. AcksBehind'
  <2>. SUFFICES ASSUME NEW d \in Clients
                PROVE  AcksFine(net'.incoming[d], client'[d])
    BY AcksAreFineNext
  <2>1. \A req : Settled(req, client[d]) => Settled(req, client'[d])
    BY <1>3, <1>4 DEF Settled
  <2>2. CASE d # c
    <3>1. net'.incoming[d] = net.incoming[d]
      BY <1>1, <2>2, Processes
    <3>. QED
      BY <1>0, <2>1, <3>1, AcksStay, Zenon
  <2>3. CASE d = c
    <3>1. m.incoming[c] \in Seq(Receives(Made', c))
      BY <1>6, NetTypesNext, Processes
    <3>. HIDE DEF m
    <3>2. PICK new : Grown(m.incoming[c], m.incoming[c], new) /\ \A x \in new : ~Listing(x)
      <4>1. Grown(m.incoming[c], m.incoming[c], {})
        BY <3>1, GrownByNone
      <4>. QED
        BY <4>1
    <3>3. PICK e : /\ Moved(net.incoming[c], m.incoming[c], e, new)
                   /\ e = 1 => net.incoming[c][1].type = "MEMBERSHIP"
      BY <1>1, <3>1, <3>2, Zenon
    <3>4. e = 1 => net.incoming[c][1].type \notin Answers
      BY <3>3 DEF Answers
    <3>. QED
      BY <1>0, <1>6, <2>1, <2>3, <3>2, <3>3, <3>4, AcksKept, Zenon DEF m
  <2>. QED
    BY <2>2, <2>3
<1>11. TimerOnlyWhileWaiting'
  BY <1>0, <1>3, <1>4 DEF TimerOnlyWhileWaiting
<1>. QED
  BY <1>6, <1>7, <1>8, <1>9, <1>10, <1>11 DEF Ground

(* ClientMembership: what the three branches do.                           *)
LEMMA ClientMembershipGround ==
  ASSUME Ground, NEW c \in Clients, ClientMembership(c)
  PROVE  Ground'
<1>0. NextIs(c, {"MEMBERSHIP"}) /\ UNCHANGED <<node, budget, accepted>> /\ c \in net.up
  BY DEF ClientMembership, NextIs
<1>1. ASSUME net' = Received(c), client' = [client EXCEPT ![c].connected = TRUE]
      PROVE  Ground'
  BY <1>0, <1>1, ClientHearsGround
<1>2. ASSUME client' = [client EXCEPT ![c] = Disconnected(c)], net' = Departed(Received(c), c)
      PROVE  Ground'
  <2>. DEFINE k == Disconnected(c)
              n == Received(c)
  <2>1. /\ k \in ClientVariables(Made) /\ k.timer = client[c].timer
        /\ k.blocking = client[c].blocking
        /\ k.awaits = client[c].awaits /\ k.displayed = client[c].displayed
        /\ SameSession(Disconnected(c), k)
    BY DisconnectedFields DEF SameSession
  <2>2. Before(n, c)
    BY <1>0 DEF Before
  <2>3. client' = [client EXCEPT ![c] = k] /\ net' = Departed(n, c)
    BY <1>2
  <2>. HIDE DEF k, n
  <2>. QED
    BY <1>0, <2>1, <2>2, <2>3, ClientLeavesGround
<1>3. ASSUME net' = Received(c), client' = client
      PROVE  Ground'
  <2>1. client[c].connected \in BOOLEAN /\ client' = [client EXCEPT ![c].connected = client[c].connected]
    <3>1. client[c] \in ClientVariables(Made) /\ client \in [Clients -> ClientVariables(Made)]
      BY ClientTypes DEF Ground, TypeOK
    <3>2. [client[c] EXCEPT !.connected = client[c].connected] = client[c]
      BY <3>1 DEF ClientVariables
    <3>. QED
      BY <1>3, <3>1, <3>2, ClientFields
  <2>. QED
    BY <1>0, <1>3, <2>1, ClientHearsGround
<1>. QED
  BY <1>1, <1>2, <1>3 DEF ClientMembership

(* A process that exits.                                                   *)
LEMMA ExitKept ==
  ASSUME Ground, NEW p \in Proc, p \in net.up, net' = Exit(net, p), budget'.changes = budget.changes
  PROVE  /\ net' \in NetworkOf(Made) /\ GoneFrom(net, net', p)
         /\ CountsReported' /\ ServersPart'
         /\ \A q \in Proc : q \notin net'.up => net'.incoming[q] = <<>>
         /\ \A d \in Clients : \/ net'.incoming[d] = <<>>
                               \/ \E new : /\ Grown(net.incoming[d], net'.incoming[d], new)
                                           /\ \A x \in new : ~Listing(x)
<1>. DEFINE m == net'
<1>0. /\ CountsReported /\ ServersPart /\ MembersAgree /\ net \in NetworkOf(Made) /\ MembersUp(net)
  BY NetTypes, MembersAreUp DEF Ground
<1>1. m \in NetworkOf(Made) /\ GoneFrom(net, m, p)
  <2>1. m = Exit(net, p)
    OBVIOUS
  <2>. HIDE DEF m
  <2>. QED
    BY <1>0, <2>1, ExitEffect
<1>2. CountsReported'
  <2>. SUFFICES ASSUME NEW s \in Servers, NEW g \in SessionId
                PROVE  Counted(m, s, g)
    BY DEF CountsReported
  <2>1. s \in Proc /\ Counted(net, s, g)
    BY <1>0, Processes DEF CountsReported
  <2>. HIDE DEF m
  <2>. QED
    BY <1>0, <1>1, <2>1, GoneCounted
<1>3. ServersPart'
  <2>. SUFFICES ASSUME MaxNetChanges <= 1
                PROVE  /\ \A s, t \in Servers, g \in SessionId : Parting(m, s, t, g)
                       /\ budget.changes = 0 => \A q, r \in Proc : m.side[q] = m.side[r]
    BY DEF ServersPart
  <2>1. ASSUME NEW s \in Servers, NEW t \in Servers, NEW g \in SessionId
        PROVE  Parting(m, s, t, g)
    <3>1. Parting(net, s, t, g) /\ s \in Proc /\ t \in Proc
      BY <1>0, Processes DEF ServersPart
    <3>. HIDE DEF m
    <3>. QED
      BY <1>0, <1>1, <3>1, GoneParting
  <2>. QED
    BY <1>0, <1>1, <2>1 DEF ServersPart, GoneFrom
<1>4. ASSUME NEW q \in Proc, q \notin m.up
      PROVE  m.incoming[q] = <<>>
  <2>1. CASE q = p
    BY <1>1, <2>1 DEF GoneFrom
  <2>2. CASE q # p
    <3>1. q \in Proc \ {p} /\ q \notin net.up
      BY <1>1, <1>4, <2>2 DEF GoneFrom
    <3>2. net.incoming[q] = <<>>
      BY <1>0, <3>1, Processes DEF MembersAgree
    <3>. HIDE DEF m
    <3>. QED
      BY <1>0, <1>1, <3>1, <3>2, GoneDown
  <2>. QED
    BY <2>1, <2>2
<1>5. ASSUME NEW d \in Clients
      PROVE  \/ m.incoming[d] = <<>>
             \/ \E new : /\ Grown(net.incoming[d], m.incoming[d], new)
                         /\ \A x \in new : ~Listing(x)
  <2>1. CASE d = p
    BY <1>1, <2>1 DEF GoneFrom
  <2>2. CASE d # p
    <3>. DEFINE gs == Missed(net, p, SessionId, d)
    <3>1. m.members \in [SessionId -> SUBSET Proc] /\ gs \in SUBSET SessionId
      BY <1>1, NetworkFields DEF Missed
    <3>. HIDE DEF m, gs
    <3>2. Grown(net.incoming[d], m.incoming[d], Telling(m, d, gs, "leave"))
      BY <1>1, <2>2, Processes DEF GoneFrom, gs
    <3>3. \A x \in Telling(m, d, gs, "leave") : ~Listing(x)
      BY <3>1, TellingFields
    <3>. QED
      BY <3>2, <3>3
  <2>. QED
    BY <2>1, <2>2
<1>. QED
  BY <1>1, <1>2, <1>3, <1>4, <1>5

(* Where a program starts is well typed.                                   *)
LEMMA StartsTyped ==
  ASSUME TypeOK
  PROVE  /\ Start \in ClientVariables(Made) /\ Fresh \in ServerVariables(Made)
         /\ Start.draw = 1 /\ Start.connection_group = None /\ ~Start.connected /\ Start.timer = 0
         /\ ~Start.blocking /\ Fresh.client_connections = {}
<1>1. 0 \in Made /\ MaxConnects \in Nat
  BY BudgetTypes, Bounds
<1>2. 1 \in 1 .. MaxConnects + 1 /\ 0 \in 0 .. MaxConnects + 1
  BY <1>1
<1>3. None \in SessionId \cup {None} /\ None \in Servers \cup {None} /\ {} \in SUBSET Made
  OBVIOUS
<1>4. Start \in ClientVariables(Made)
  BY <1>1, <1>2, <1>3, Zenon DEF Start, ClientVariables
<1>5. Fresh \in ServerVariables(Made)
  BY EmptySeq DEF Fresh, ServerVariables
<1>. QED
  BY <1>4, <1>5 DEF Start, Fresh

(* Goodbye.                                                                *)
LEMMA GoodbyeGround ==
  ASSUME Ground, NEW c \in Clients, Goodbye(c)
  PROVE  Ground'
<1>0. /\ TypeOK /\ SessionsDrawn /\ MembersAgree /\ AcksBehind /\ TimerOnlyWhileWaiting
  BY DEF Ground
<1>1. /\ c \in net.up /\ net' = Exit(net, c) /\ client' = [client EXCEPT ![c] = Start]
      /\ UNCHANGED <<node, budget, accepted>> /\ c \in Proc
  BY Processes DEF Goodbye
<1>2. /\ net' \in NetworkOf(Made) /\ GoneFrom(net, net', c)
      /\ CountsReported' /\ ServersPart'
      /\ \A q \in Proc : q \notin net'.up => net'.incoming[q] = <<>>
      /\ \A d \in Clients : \/ net'.incoming[d] = <<>>
                            \/ \E new : /\ Grown(net.incoming[d], net'.incoming[d], new)
                                        /\ \A x \in new : ~Listing(x)
  BY <1>1, ExitKept
<1>3. /\ client' \in [Clients -> ClientVariables(Made)]
      /\ client'[c] = Start /\ \A d \in Clients \ {c} : client'[d] = client[d]
  BY <1>0, <1>1, StartsTyped DEF TypeOK
<1>4. /\ ~InSession(c)' /\ \A d \in Clients \ {c} : InSession(d)' <=> InSession(d)
  BY <1>0, <1>3, StartsTyped DEF InSession, SessionIdOf, None
<1>5. TypeOK'
  BY <1>0, <1>1, <1>2, <1>3 DEF TypeOK, Made
<1>6. SessionsDrawn'
  <2>. SUFFICES ASSUME NEW d \in Clients
                PROVE  /\ client'[d].draw + (IF InSession(d)' THEN 1 ELSE 0) <= budget.connects + 1
                       /\ client'[d].connection_group
                            \in {None} \cup {<<Seed[d], j>> : j \in 1 .. client'[d].draw}
    BY <1>1 DEF SessionsDrawn
  <2>1. CASE d = c
    <3>1. budget.connects \in Nat
      BY <1>0, BudgetTypes
    <3>. QED
      BY <1>0, <1>3, <1>4, <2>1, <3>1, StartsTyped
  <2>2. CASE d # c
    BY <1>0, <1>3, <1>4, <2>2 DEF SessionsDrawn
  <2>. QED
    BY <2>1, <2>2
<1>7. MembersAgree'
  BY <1>0, <1>1, <1>2, <1>3, <1>4, Processes DEF MembersAgree, GoneFrom
<1>8. AcksBehind'
  <2>. SUFFICES ASSUME NEW d \in Clients
                PROVE  AcksFine(net'.incoming[d], client'[d])
    BY AcksAreFineNext
  <2>1. \A req : Settled(req, client[d]) => Settled(req, client'[d])
    BY <1>0, <1>3, StartsTyped DEF Settled
  <2>2. CASE net'.incoming[d] = <<>>
    BY <1>0, <2>1, <2>2, AcksStay
  <2>3. CASE net'.incoming[d] # <<>>
    <3>1. PICK new : /\ Grown(net.incoming[d], net'.incoming[d], new)
                     /\ \A x \in new : ~Listing(x)
      BY <1>2, <2>3
    <3>. QED
      BY <1>0, <1>5, <2>1, <3>1, AcksGrown, Zenon
  <2>. QED
    BY <2>2, <2>3
<1>9. TimerOnlyWhileWaiting'
  BY <1>0, <1>3, StartsTyped DEF TimerOnlyWhileWaiting
<1>. QED
  BY <1>2, <1>5, <1>6, <1>7, <1>8, <1>9 DEF Ground

-----------------------------------------------------------------------------
(* Crashes, restarts and the network.                                      *)

(* Crash.                                                                  *)
LEMMA CrashGround ==
  ASSUME Ground, NEW s \in Servers, Crash(s)
  PROVE  Ground'
<1>0. /\ TypeOK /\ SessionsDrawn /\ MembersAgree /\ AcksBehind /\ TimerOnlyWhileWaiting
  BY DEF Ground
<1>1. /\ s \in net.up /\ net' = Exit(net, s) /\ node' = [node EXCEPT ![s] = Fresh]
      /\ client' = client /\ accepted' = accepted /\ Spend("crashes", MaxCrashes) /\ s \in Proc
  BY Processes DEF Crash
<1>2. /\ budget'.changes = budget.changes /\ budget'.connects = budget.connects
      /\ budget'.requests = budget.requests
      /\ budget' \in [connects : 0 .. MaxConnects, requests : Request, crashes : 0 .. MaxCrashes,
                      changes : 0 .. MaxNetChanges, synchs : 0 .. MaxSynchs]
  BY <1>0, <1>1, Spent
<1>3. /\ net' \in NetworkOf(Made) /\ GoneFrom(net, net', s)
      /\ CountsReported' /\ ServersPart'
      /\ \A q \in Proc : q \notin net'.up => net'.incoming[q] = <<>>
      /\ \A d \in Clients : \/ net'.incoming[d] = <<>>
                            \/ \E new : /\ Grown(net.incoming[d], net'.incoming[d], new)
                                        /\ \A x \in new : ~Listing(x)
  BY <1>1, <1>2, ExitKept
<1>4. /\ node' \in [Servers -> ServerVariables(Made)]
      /\ node'[s] = Fresh /\ \A t \in Servers \ {s} : node'[t] = node[t]
  BY <1>0, <1>1, StartsTyped DEF TypeOK
<1>5. TypeOK'
  BY <1>0, <1>1, <1>2, <1>3, <1>4 DEF TypeOK, Made
<1>6. SessionsDrawn'
  BY <1>0, <1>1, <1>2 DEF SessionsDrawn, InSession, SessionIdOf
<1>7. MembersAgree'
  <2>1. \A d \in Clients, g \in SessionId :
          d \in net'.members[g] <=> d \in net'.up /\ InSession(d)' /\ g = client'[d].connection_group
    BY <1>0, <1>1, <1>3, Processes DEF MembersAgree, GoneFrom, InSession, SessionIdOf
  <2>2. \A t \in Servers, g \in SessionId : t \in net'.members[g] <=> g \in node'[t].client_connections
    BY <1>0, <1>1, <1>3, <1>4, StartsTyped, Processes DEF MembersAgree, GoneFrom
  <2>3. \A d \in Clients \ net'.up : net'.incoming[d] = <<>> /\ client'[d] = Start
    BY <1>0, <1>1, <1>3, Processes DEF MembersAgree, GoneFrom
  <2>4. \A t \in Servers \ net'.up : net'.incoming[t] = <<>> /\ node'[t] = Fresh
    BY <1>0, <1>3, <1>4, Processes DEF MembersAgree, GoneFrom
  <2>. QED
    BY <2>1, <2>2, <2>3, <2>4 DEF MembersAgree
<1>8. AcksBehind'
  <2>. SUFFICES ASSUME NEW d \in Clients
                PROVE  AcksFine(net'.incoming[d], client'[d])
    BY AcksAreFineNext
  <2>1. \A req : Settled(req, client[d]) => Settled(req, client'[d])
    BY <1>1
  <2>2. CASE net'.incoming[d] = <<>>
    BY <1>0, <2>1, <2>2, AcksStay
  <2>3. CASE net'.incoming[d] # <<>>
    <3>1. PICK new : /\ Grown(net.incoming[d], net'.incoming[d], new)
                     /\ \A x \in new : ~Listing(x)
      BY <1>3, <2>3
    <3>. QED
      BY <1>0, <1>5, <2>1, <3>1, AcksGrown, Zenon
  <2>. QED
    BY <2>2, <2>3
<1>9. TimerOnlyWhileWaiting'
  BY <1>0, <1>1 DEF TimerOnlyWhileWaiting
<1>. QED
  BY <1>3, <1>5, <1>6, <1>7, <1>8, <1>9 DEF Ground

(* Restart.                                                                *)
LEMMA RestartGround ==
  ASSUME Ground, NEW s \in Servers, Restart(s)
  PROVE  Ground'
<1>0. /\ TypeOK /\ SessionsDrawn /\ MembersAgree /\ CountsReported /\ ServersPart /\ AcksBehind
      /\ TimerOnlyWhileWaiting
  BY DEF Ground
<1>1. /\ s \notin net.up /\ net' = [net EXCEPT !.up = net.up \cup {s}]
      /\ UNCHANGED <<client, node, budget, accepted>> /\ s \in Proc
  BY Processes DEF Restart
<1>2. /\ net'.up = net.up \cup {s} /\ net'.side = net.side /\ net'.members = net.members
      /\ net'.incoming = net.incoming /\ net' \in NetworkOf(Made)
  <2>1. net \in NetworkOf(Made)
    BY <1>0, NetTypes
  <2>. QED
    BY <1>1, <2>1 DEF NetworkOf, Network
<1>3. TypeOK'
  BY <1>0, <1>1, <1>2 DEF TypeOK, Made
<1>4. SessionsDrawn' /\ TimerOnlyWhileWaiting' /\ AcksBehind'
  BY <1>0, <1>1, <1>2 DEF SessionsDrawn, InSession, SessionIdOf, TimerOnlyWhileWaiting, AcksBehind
<1>5. MembersAgree'
  BY <1>0, <1>1, <1>2, Processes DEF MembersAgree, InSession, SessionIdOf
<1>6. CountsReported' /\ ServersPart'
  BY <1>0, <1>1, <1>2 DEF CountsReported, ServersPart, Counted, Parting, Doomed, Present
<1>. QED
  BY <1>3, <1>4, <1>5, <1>6 DEF Ground

(* NetworkChange: when it is the only one, everybody was on one side, and  *)
(* two servers that are still on one side were before.                     *)
LEMMA NetworkChangeGround ==
  ASSUME Ground, NetworkChange
  PROVE  Ground'
<1>. DEFINE m == net'
<1>0. /\ TypeOK /\ SessionsDrawn /\ MembersAgree /\ CountsReported /\ ServersPart /\ AcksBehind
      /\ TimerOnlyWhileWaiting /\ net \in NetworkOf(Made) /\ MembersUp(net)
  BY NetTypes, MembersAreUp DEF Ground
<1>1. PICK side \in [Proc -> {0, 1}] :
        Spend("changes", MaxNetChanges) /\ m = Rearranged(net, side) /\ UNCHANGED <<client, node, accepted>>
  BY DEF NetworkChange
<1>2. /\ budget'.changes = budget.changes + 1 /\ budget.changes < MaxNetChanges
      /\ budget'.connects = budget.connects /\ budget'.requests = budget.requests
      /\ budget' \in [connects : 0 .. MaxConnects, requests : Request, crashes : 0 .. MaxCrashes,
                      changes : 0 .. MaxNetChanges, synchs : 0 .. MaxSynchs]
  BY <1>0, <1>1, Spent
<1>3. m \in NetworkOf(Made) /\ MovedTo(net, m, side)
  <2>. HIDE DEF m
  <2>. QED
    BY <1>0, <1>1, RearrangedEffect
<1>4. m.up = net.up /\ m.side = side /\ m.members = net.members
  BY <1>3 DEF MovedTo
<1>5. TypeOK'
  BY <1>0, <1>1, <1>2, <1>3 DEF TypeOK, Made
<1>6. SessionsDrawn' /\ TimerOnlyWhileWaiting'
  BY <1>0, <1>1, <1>2 DEF SessionsDrawn, InSession, SessionIdOf, TimerOnlyWhileWaiting
<1>7. MembersAgree'
  <2>1. \A q \in Proc : q \notin net.up => m.incoming[q] = net.incoming[q]
    <3>. HIDE DEF m
    <3>. QED
      BY <1>0, <1>3, MovedToDown
  <2>. QED
    BY <1>0, <1>1, <1>4, <2>1, Processes DEF MembersAgree, InSession, SessionIdOf
<1>8. CountsReported'
  <2>. SUFFICES ASSUME NEW s \in Servers, NEW g \in SessionId
                PROVE  Counted(m, s, g)
    BY DEF CountsReported
  <2>1. s \in Proc /\ Counted(net, s, g)
    BY <1>0, Processes DEF CountsReported
  <2>. HIDE DEF m
  <2>. QED
    BY <1>0, <1>3, <2>1, MovedToCounted, Zenon
<1>9. ServersPart'
  <2>. SUFFICES ASSUME MaxNetChanges <= 1
                PROVE  /\ \A s, t \in Servers, g \in SessionId : Parting(m, s, t, g)
                       /\ budget'.changes # 0
    BY DEF ServersPart
  <2>1. budget.changes = 0 /\ budget'.changes # 0
    BY <1>0, <1>2, Bounds, BudgetTypes
  <2>2. ASSUME NEW s \in Servers, NEW t \in Servers, NEW g \in SessionId
        PROVE  Parting(m, s, t, g)
    <3>1. Parting(net, s, t, g) /\ net.side[s] = net.side[t] /\ s \in Proc /\ t \in Proc
      BY <1>0, <2>1, Processes DEF ServersPart
    <3>2. \A q \in {s, t} : Doomed(net, q, g) => Doomed(m, q, g)
      <4>. SUFFICES ASSUME NEW q \in {s, t}
                    PROVE  Doomed(net, q, g) => Doomed(m, q, g)
        OBVIOUS
      <4>. HIDE DEF m
      <4>1. Grown(net.incoming[q], m.incoming[q], Telling(m, q, Regrouped(net, m, q), "network"))
        BY <1>3, <3>1 DEF MovedTo
      <4>. QED
        BY <1>0, <1>3, <3>1, <4>1, DoomedGrown
    <3>. QED
      BY <1>4, <3>1, <3>2 DEF Parting
  <2>. QED
    BY <2>1, <2>2
<1>10. AcksBehind'
  <2>. SUFFICES ASSUME NEW d \in Clients
                PROVE  AcksFine(net'.incoming[d], client'[d])
    BY AcksAreFineNext
  <2>. DEFINE gs == Regrouped(net, m, d)
              new == Telling(m, d, gs, "network")
  <2>1. m.members \in [SessionId -> SUBSET Proc] /\ gs \in SUBSET SessionId /\ d \in Proc
    BY <1>3, NetworkFields, Processes DEF Regrouped
  <2>2. Grown(net.incoming[d], m.incoming[d], new)
    BY <1>3, <2>1 DEF MovedTo
  <2>3. \A x \in new : ~Listing(x)
    <3>. HIDE DEF m, gs
    <3>. QED
      BY <2>1, TellingFields
  <2>4. \A req : Settled(req, client[d]) => Settled(req, client'[d])
    BY <1>1
  <2>. HIDE DEF new
  <2>. QED
    BY <1>0, <1>5, <2>2, <2>3, <2>4, AcksGrown, Zenon
<1>. QED
  BY <1>5, <1>6, <1>7, <1>8, <1>9, <1>10 DEF Ground

-----------------------------------------------------------------------------
(* A server joins a connect group, or leaves it.                           *)

(* Whoever sees somebody join finds nothing but the news of it.            *)
LEMMA JoinedGrown ==
  ASSUME NEW R, NEW n \in NetworkOf(R), NEW m \in NetworkOf(R), NEW p, NEW g \in SessionId,
         JoinedBy(n, m, p, g), NEW q \in Proc
  PROVE  \E new : /\ Grown(n.incoming[q], m.incoming[q], new)
                  /\ \A x \in new : /\ x.type = "MEMBERSHIP" /\ x.cause = "join" /\ ~Listing(x)
                                    /\ x.group = g /\ Greeted(n, p, g, q) /\ x = Told(m, q, g, "join")
<1>1. CASE Greeted(n, p, g, q)
  <2>1. m.members \in [SessionId -> SUBSET Proc]
    BY NetworkFields
  <2>. DEFINE x == Told(m, q, g, "join")
  <2>2. x.type = "MEMBERSHIP" /\ x.cause = "join" /\ x.group = g /\ ~Listing(x)
    BY <2>1, ToldTyped DEF Listing
  <2>3. Grown(n.incoming[q], m.incoming[q], {x})
    BY <1>1 DEF JoinedBy
  <2>. HIDE DEF x
  <2>4. \A y \in {x} : y.type = "MEMBERSHIP" /\ y.cause = "join" /\ ~Listing(y)
                       /\ y.group = g /\ Greeted(n, p, g, q) /\ y = x
    BY <1>1, <2>2
  <2>. QED
    BY <2>3, <2>4 DEF x
<1>2. CASE ~Greeted(n, p, g, q)
  <2>1. n.incoming[q] \in Seq(Receives(R, q)) /\ m.incoming[q] = n.incoming[q]
    BY <1>2, NetworkFields DEF JoinedBy
  <2>2. Grown(n.incoming[q], m.incoming[q], {})
    BY <2>1, GrownByNone
  <2>. QED
    BY <2>2
<1>. QED
  BY <1>1, <1>2

(* ServerConnect joins the group of the request, if it is not in it.       *)
LEMMA ServerConnectEffect ==
  ASSUME Ground, NEW s \in Servers, ServerConnect(s)
  PROVE  \E g \in SessionId :
           /\ NextIs(s, {"CONNECT"}) /\ net.incoming[s][1] = Connect(g) /\ s \in net.up
           /\ Received(s) \in NetworkOf(Made) /\ MembersUp(Received(s)) /\ Taken(net, Received(s), s)
           /\ net' \in NetworkOf(Made) /\ JoinedBy(Received(s), net', s, g)
           /\ node' = [node EXCEPT ![s].client_connections = node[s].client_connections \cup {g}]
           /\ accepted' = accepted \cup {<<s, g>>} /\ client' = client /\ budget' = budget
<1>. DEFINE x == Next1(s)
            g == Next1(s).id
            r == Received(s)
            m == net'
<1>1. /\ NextIs(s, {"CONNECT"}) /\ client' = client /\ budget' = budget
      /\ m = (IF g \in node[s].client_connections THEN r ELSE Join(r, s, g))
      /\ node' = [node EXCEPT ![s].client_connections = node[s].client_connections \cup {g}]
      /\ accepted' = accepted \cup {<<s, g>>}
  BY DEF ServerConnect
<1>2. /\ s \in Proc /\ s \in net.up /\ x \in Receives(Made, s) /\ x.type = "CONNECT"
      /\ x = net.incoming[s][1] /\ r \in NetworkOf(Made) /\ MembersUp(r) /\ Taken(net, r, s)
  BY <1>1, ServerReceives
<1>3. g \in SessionId /\ x = Connect(g)
  BY <1>2, RequestTyped
<1>4. m = Join(r, s, g)
  <2>1. g \in node[s].client_connections => s \in r.members[g]
    BY <1>2, <1>3 DEF Ground, MembersAgree, Taken, SameGroups
  <2>. HIDE DEF r, m, g
  <2>. QED
    BY <1>1, <2>1 DEF Join
<1>. HIDE DEF r, m, g
<1>5. m \in NetworkOf(Made) /\ JoinedBy(r, m, s, g)
  BY <1>2, <1>3, <1>4, JoinEffect, Zenon
<1>. QED
  BY <1>1, <1>2, <1>3, <1>5 DEF r, m

(* ServerConnect.                                                          *)
LEMMA ServerConnectGround ==
  ASSUME Ground, NEW s \in Servers, ServerConnect(s)
  PROVE  Ground'
<1>. DEFINE r == Received(s)
            m == net'
<1>0. /\ TypeOK /\ SessionsDrawn /\ MembersAgree /\ CountsReported /\ ServersPart /\ AcksBehind
      /\ TimerOnlyWhileWaiting /\ net \in NetworkOf(Made) /\ s \in Proc
  BY NetTypes, Processes DEF Ground
<1>1. PICK g \in SessionId :
        /\ net.incoming[s][1] = Connect(g) /\ s \in net.up
        /\ r \in NetworkOf(Made) /\ MembersUp(r) /\ Taken(net, r, s)
        /\ m \in NetworkOf(Made) /\ JoinedBy(r, m, s, g)
        /\ node' = [node EXCEPT ![s].client_connections = node[s].client_connections \cup {g}]
        /\ accepted' = accepted \cup {<<s, g>>} /\ client' = client /\ budget' = budget
  BY ServerConnectEffect
<1>2. /\ SameGroups(net, r) /\ \A q \in Proc \ {s} : r.incoming[q] = net.incoming[q]
  BY <1>1 DEF Taken
<1>3. /\ m.up = net.up /\ m.side = net.side
      /\ \A h \in SessionId : m.members[h] = IF h = g THEN net.members[g] \cup {s} ELSE net.members[h]
  BY <1>1, <1>2 DEF JoinedBy, SameGroups
<1>4. /\ node' \in [Servers -> ServerVariables(Made)]
      /\ node'[s].client_connections = node[s].client_connections \cup {g}
      /\ \A t \in Servers \ {s} : node'[t] = node[t]
  BY <1>0, <1>1 DEF TypeOK, ServerVariables
<1>5. TypeOK'
  BY <1>0, <1>1, <1>4 DEF TypeOK, Made
<1>6. SessionsDrawn' /\ TimerOnlyWhileWaiting'
  BY <1>0, <1>1 DEF SessionsDrawn, InSession, SessionIdOf, TimerOnlyWhileWaiting
<1>7. MembersAgree'
  <2>1. \A q \in Proc : q \notin net.up => m.incoming[q] = net.incoming[q]
    <3>. HIDE DEF m, r
    <3>1. ASSUME NEW q \in Proc, q \notin net.up
          PROVE  m.incoming[q] = net.incoming[q]
      <4>1. q # s /\ q \notin r.up /\ s \in r.up
        BY <1>1, <1>2, <3>1 DEF SameGroups
      <4>2. m.incoming[q] = r.incoming[q]
        BY <1>1, <4>1, JoinedDown
      <4>. QED
        BY <1>2, <4>1, <4>2
    <3>. QED
      BY <3>1
  <2>2. \A d \in Clients, h \in SessionId :
          d \in m.members[h] <=> d \in m.up /\ InSession(d)' /\ h = client'[d].connection_group
    BY <1>0, <1>1, <1>3, Processes DEF MembersAgree, InSession, SessionIdOf
  <2>3. \A t \in Servers, h \in SessionId : t \in m.members[h] <=> h \in node'[t].client_connections
    BY <1>0, <1>1, <1>3, <1>4 DEF MembersAgree
  <2>. QED
    BY <1>0, <1>1, <1>3, <1>4, <2>1, <2>2, <2>3, Processes DEF MembersAgree
<1>8. \A t \in Servers : \A h : /\ Doomed(net, t, h) <=> Doomed(r, t, h)
                                /\ Present(r, t, h) = Present(net, t, h)
  <2>1. net.incoming[s][1].type # "MEMBERSHIP"
    BY <1>1 DEF Connect
  <2>. HIDE DEF r
  <2>. QED
    BY <1>0, <1>1, <2>1, TakenDoomed, Processes
<1>9. \A t \in Servers, h \in SessionId : Counted(r, t, h)
  BY <1>0, <1>2, <1>8 DEF CountsReported, Counted, SameGroups
<1>10. CountsReported'
  <2>. SUFFICES ASSUME NEW t \in Servers, NEW h \in SessionId
                PROVE  Counted(m, t, h)
    BY DEF CountsReported
  <2>1. t \in Proc /\ Counted(r, t, h)
    BY <1>9, Processes
  <2>. HIDE DEF m, r
  <2>. QED
    BY <1>0, <1>1, <2>1, JoinCounted, Zenon
<1>11. ServersPart'
  <2>. SUFFICES ASSUME MaxNetChanges <= 1
                PROVE  /\ \A t, u \in Servers, h \in SessionId : Parting(m, t, u, h)
                       /\ budget.changes = 0 => \A p, q \in Proc : m.side[p] = m.side[q]
    BY <1>1 DEF ServersPart
  <2>1. ASSUME NEW t \in Servers, NEW u \in Servers, NEW h \in SessionId
        PROVE  Parting(m, t, u, h)
    <3>1. Parting(r, t, u, h)
      BY <1>0, <1>2, <1>8 DEF ServersPart, Parting, SameGroups
    <3>2. t \in Proc /\ u \in Proc /\ Counted(r, t, h) /\ Counted(r, u, h)
      BY <1>9, Processes
    <3>. HIDE DEF m, r
    <3>. QED
      BY <1>0, <1>1, <3>1, <3>2, JoinParting, Zenon
  <2>. QED
    BY <1>0, <1>3, <2>1 DEF ServersPart
<1>12. AcksBehind'
  <2>. SUFFICES ASSUME NEW d \in Clients
                PROVE  AcksFine(net'.incoming[d], client'[d])
    BY AcksAreFineNext
  <2>1. d \in Proc /\ d # s
    BY Processes
  <2>2. PICK new : Grown(net.incoming[d], m.incoming[d], new) /\ \A x \in new : ~Listing(x)
    <3>. HIDE DEF m, r
    <3>. QED
      BY <1>1, <1>2, <2>1, JoinedGrown
  <2>3. \A req : Settled(req, client[d]) => Settled(req, client'[d])
    BY <1>1
  <2>. QED
    BY <1>0, <1>5, <2>2, <2>3, AcksGrown, Zenon
<1>. QED
  BY <1>5, <1>6, <1>7, <1>10, <1>11, <1>12 DEF Ground

(* ServerMembership, when the session ends: the server leaves the group.   *)
LEMMA ServerEndsEffect ==
  ASSUME Ground, NEW s \in Servers, ServerMembership(s), Ends(s, Next1(s))
  PROVE  \E g \in SessionId :
           /\ NextIs(s, {"MEMBERSHIP"}) /\ s \in net.up
           /\ Received(s) \in NetworkOf(Made) /\ MembersUp(Received(s)) /\ Taken(net, Received(s), s)
           /\ net.incoming[s][1].type = "MEMBERSHIP" /\ net.incoming[s][1].group = g
           /\ net' \in NetworkOf(Made) /\ LeftBy(Received(s), net', s, {g})
           /\ node' = [node EXCEPT ![s].client_connections = node[s].client_connections \ {g}]
           /\ client' = client /\ budget' = budget /\ accepted' = accepted
<1>. DEFINE x == Next1(s)
            g == x.group
            r == Received(s)
            m == net'
<1>1. /\ NextIs(s, {"MEMBERSHIP"}) /\ client' = client /\ budget' = budget /\ accepted' = accepted
      /\ m = Leave(r, s, g)
      /\ node' = [node EXCEPT ![s].client_connections = node[s].client_connections \ {g}]
      /\ g \in node[s].client_connections
  BY DEF ServerMembership, Ends, Serves
<1>2. /\ s \in Proc /\ s \in net.up /\ x \in Receives(Made, s) /\ x.type = "MEMBERSHIP"
      /\ x = net.incoming[s][1] /\ r \in NetworkOf(Made) /\ MembersUp(r) /\ Taken(net, r, s)
  BY <1>1, ServerReceives
<1>3. g \in SessionId
  <2>1. TypeOK
    BY DEF Ground
  <2>. QED
    BY <1>1, <2>1, ServerTypes
<1>. HIDE DEF r, m
<1>4. m \in NetworkOf(Made) /\ LeftBy(r, m, s, {g})
  <2>. HIDE DEF g
  <2>1. m \in NetworkOf(Made) /\ LeftBy(r, m, s, {g} \cap SessionId)
    BY <1>1, <1>2, LeaveEffect, Zenon
  <2>2. {g} \cap SessionId = {g}
    BY <1>3
  <2>. QED
    BY <2>1, <2>2
<1>. QED
  BY <1>1, <1>2, <1>3, <1>4 DEF r, m

(* ServerMembership, when the session ends.                                *)
LEMMA ServerEndsGround ==
  ASSUME Ground, NEW s \in Servers, ServerMembership(s), Ends(s, Next1(s))
  PROVE  Ground'
<1>. DEFINE r == Received(s)
            m == net'
<1>0. /\ TypeOK /\ SessionsDrawn /\ MembersAgree /\ CountsReported /\ ServersPart /\ AcksBehind
      /\ TimerOnlyWhileWaiting /\ net \in NetworkOf(Made) /\ s \in Proc
  BY NetTypes, Processes DEF Ground
<1>1. PICK g \in SessionId :
        /\ s \in net.up /\ r \in NetworkOf(Made) /\ MembersUp(r) /\ Taken(net, r, s)
        /\ net.incoming[s][1].type = "MEMBERSHIP" /\ net.incoming[s][1].group = g
        /\ m \in NetworkOf(Made) /\ LeftBy(r, m, s, {g})
        /\ node' = [node EXCEPT ![s].client_connections = node[s].client_connections \ {g}]
        /\ client' = client /\ budget' = budget /\ accepted' = accepted
  BY ServerEndsEffect
<1>2. PICK gs \in SUBSET SessionId : gs = {g} /\ LeftBy(r, m, s, gs)
  BY <1>1
<1>3. SameGroups(net, r) /\ \A q \in Proc \ {s} : r.incoming[q] = net.incoming[q]
  BY <1>1 DEF Taken
<1>4. /\ m.up = net.up /\ m.side = net.side
      /\ \A h \in SessionId : m.members[h] = IF h = g THEN net.members[h] \ {s} ELSE net.members[h]
  BY <1>1, <1>3 DEF LeftBy, SameGroups
<1>5. /\ node' \in [Servers -> ServerVariables(Made)]
      /\ node'[s].client_connections = node[s].client_connections \ {g}
      /\ \A t \in Servers \ {s} : node'[t] = node[t]
  BY <1>0, <1>1 DEF TypeOK, ServerVariables
<1>6. TypeOK'
  BY <1>0, <1>1, <1>5 DEF TypeOK, Made
<1>7. SessionsDrawn' /\ TimerOnlyWhileWaiting'
  BY <1>0, <1>1 DEF SessionsDrawn, InSession, SessionIdOf, TimerOnlyWhileWaiting
<1>8. MembersAgree'
  <2>1. \A q \in Proc : q \notin net.up => m.incoming[q] = net.incoming[q]
    <3>. HIDE DEF m, r
    <3>1. ASSUME NEW q \in Proc, q \notin net.up
          PROVE  m.incoming[q] = net.incoming[q]
      <4>1. q # s /\ q \notin r.up
        BY <1>1, <1>3, <3>1 DEF SameGroups
      <4>2. m.incoming[q] = r.incoming[q]
        BY <1>1, <1>2, <4>1, LeftDown
      <4>. QED
        BY <1>3, <4>1, <4>2
    <3>. QED
      BY <3>1
  <2>2. \A d \in Clients, h \in SessionId :
          d \in m.members[h] <=> d \in m.up /\ InSession(d)' /\ h = client'[d].connection_group
    <3>. SUFFICES ASSUME NEW d \in Clients, NEW h \in SessionId
                  PROVE  d \in m.members[h] <=> d \in m.up /\ InSession(d)' /\ h = client'[d].connection_group
      OBVIOUS
    <3>1. d \in m.members[h] <=> d \in net.members[h]
      BY <1>4, Processes
    <3>. QED
      BY <1>0, <1>1, <1>4, <3>1 DEF MembersAgree, InSession, SessionIdOf
  <2>3. \A t \in Servers, h \in SessionId : t \in m.members[h] <=> h \in node'[t].client_connections
    <3>. SUFFICES ASSUME NEW t \in Servers, NEW h \in SessionId
                  PROVE  t \in m.members[h] <=> h \in node'[t].client_connections
      OBVIOUS
    <3>1. t \in net.members[h] <=> h \in node[t].client_connections
      BY <1>0 DEF MembersAgree
    <3>2. t \in m.members[h] <=> t \in net.members[h] /\ ~(h = g /\ t = s)
      <4>. HIDE DEF m
      <4>. QED
        BY <1>4
    <3>3. h \in node'[t].client_connections <=> h \in node[t].client_connections /\ ~(h = g /\ t = s)
      BY <1>5
    <3>. QED
      BY <3>1, <3>2, <3>3
  <2>. QED
    BY <1>0, <1>1, <1>4, <1>5, <2>1, <2>2, <2>3, Processes DEF MembersAgree
<1>9. ASSUME NEW t \in Servers, NEW h \in SessionId, t # s \/ h # g
      PROVE  /\ Doomed(net, t, h) <=> Doomed(r, t, h)
             /\ Present(r, t, h) = Present(net, t, h)
  <2>1. t # s \/ net.incoming[s][1].group # h
    BY <1>1, <1>9
  <2>. HIDE DEF r
  <2>. QED
    BY <1>0, <1>1, <2>1, TakenDoomed, Processes
<1>10. ASSUME NEW t \in Servers, NEW h \in SessionId
       PROVE  Counted(r, t, h) \/ (t = s /\ h \in gs)
  BY <1>0, <1>2, <1>3, <1>9 DEF CountsReported, Counted, SameGroups
<1>11. CountsReported'
  <2>. SUFFICES ASSUME NEW t \in Servers, NEW h \in SessionId
                PROVE  Counted(m, t, h)
    BY DEF CountsReported
  <2>1. t \in Proc /\ (Counted(r, t, h) \/ (t = s /\ h \in gs))
    BY <1>10, Processes
  <2>. HIDE DEF m, r
  <2>. QED
    BY <1>0, <1>1, <1>2, <2>1, LeaveCounted, Zenon
<1>12. ServersPart'
  <2>. SUFFICES ASSUME MaxNetChanges <= 1
                PROVE  /\ \A t, u \in Servers, h \in SessionId : Parting(m, t, u, h)
                       /\ budget.changes = 0 => \A p, q \in Proc : m.side[p] = m.side[q]
    BY <1>1 DEF ServersPart
  <2>1. ASSUME NEW t \in Servers, NEW u \in Servers, NEW h \in SessionId
        PROVE  Parting(m, t, u, h)
    <3>1. Parting(r, t, u, h) \/ (s \in {t, u} /\ h \in gs)
      <4>1. CASE s \in {t, u} /\ h = g
        BY <1>2, <4>1
      <4>2. CASE ~(s \in {t, u} /\ h = g)
        <5>1. /\ Doomed(net, t, h) <=> Doomed(r, t, h)
              /\ Doomed(net, u, h) <=> Doomed(r, u, h)
          BY <1>9, <4>2
        <5>2. Parting(net, t, u, h)
          BY <1>0 DEF ServersPart
        <5>. QED
          BY <1>3, <5>1, <5>2 DEF Parting, SameGroups
      <4>. QED
        BY <4>1, <4>2
    <3>2. t \in Proc /\ u \in Proc
      BY Processes
    <3>. HIDE DEF m, r
    <3>. QED
      BY <1>0, <1>1, <1>2, <3>1, <3>2, LeaveParting, Zenon
  <2>. QED
    BY <1>0, <1>4, <2>1 DEF ServersPart
<1>13. AcksBehind'
  <2>. SUFFICES ASSUME NEW d \in Clients
                PROVE  AcksFine(net'.incoming[d], client'[d])
    BY AcksAreFineNext
  <2>1. d \in Proc /\ d # s
    BY Processes
  <2>2. PICK new : Grown(net.incoming[d], m.incoming[d], new) /\ \A x \in new : ~Listing(x)
    <3>. HIDE DEF m, r
    <3>. QED
      BY <1>1, <1>2, <1>3, <2>1, LeftGrown
  <2>3. \A req : Settled(req, client[d]) => Settled(req, client'[d])
    BY <1>1
  <2>. QED
    BY <1>0, <1>6, <2>2, <2>3, AcksGrown, Zenon
<1>. QED
  BY <1>6, <1>7, <1>8, <1>11, <1>12, <1>13 DEF Ground

(* ServerMembership, when the session goes on: the count was two, or the   *)
(* server does not serve the session.                                      *)
LEMMA ServerStaysEffect ==
  ASSUME Ground, NEW s \in Servers, ServerMembership(s), ~Ends(s, Next1(s))
  PROVE  /\ NextIs(s, {"MEMBERSHIP"}) /\ s \in net.up
         /\ net' = Received(s) /\ net' \in NetworkOf(Made) /\ Taken(net, net', s)
         /\ net.incoming[s][1].type = "MEMBERSHIP"
         /\ net.incoming[s][1].n_connected = 2 \/ s \notin net.members[net.incoming[s][1].group]
         /\ node' = node /\ client' = client /\ budget' = budget /\ accepted' = accepted
<1>. DEFINE x == Next1(s)
            g == x.group
            r == Received(s)
<1>1. /\ NextIs(s, {"MEMBERSHIP"}) /\ client' = client /\ budget' = budget /\ accepted' = accepted
      /\ net' = r /\ node' = node
      /\ g \notin node[s].client_connections \/ x.n_connected = 2
  BY DEF ServerMembership, Ends, Serves
<1>2. /\ s \in Proc /\ s \in net.up /\ x \in Receives(Made, s) /\ x.type = "MEMBERSHIP"
      /\ x = net.incoming[s][1] /\ r \in NetworkOf(Made) /\ Taken(net, r, s)
  BY <1>1, ServerReceives
<1>3. g \in SessionId
  <2>1. x \in MembershipMessage
    BY <1>2, ServersReceive, KindsAssumption DEF ServerMessage, Stashed
  <2>. QED
    BY <2>1 DEF MembershipMessage
<1>4. x.n_connected = 2 \/ s \notin net.members[g]
  BY <1>1, <1>3 DEF Ground, MembersAgree
<1>. QED
  BY <1>1, <1>2, <1>4

(* ServerMembership, when the session goes on.                             *)
LEMMA ServerStaysGround ==
  ASSUME Ground, NEW s \in Servers, ServerMembership(s), ~Ends(s, Next1(s))
  PROVE  Ground'
<1>. DEFINE m == net'
<1>0. /\ TypeOK /\ SessionsDrawn /\ MembersAgree /\ CountsReported /\ ServersPart /\ AcksBehind
      /\ TimerOnlyWhileWaiting /\ net \in NetworkOf(Made) /\ s \in Proc
  BY NetTypes, Processes DEF Ground
<1>1. /\ s \in net.up
      /\ m \in NetworkOf(Made) /\ Taken(net, m, s)
      /\ net.incoming[s][1].type = "MEMBERSHIP"
      /\ net.incoming[s][1].n_connected = 2 \/ s \notin net.members[net.incoming[s][1].group]
      /\ node' = node /\ client' = client /\ budget' = budget /\ accepted' = accepted
  BY ServerStaysEffect
<1>2. SameGroups(net, m) /\ \A q \in Proc \ {s} : m.incoming[q] = net.incoming[q]
  BY <1>1 DEF Taken
<1>3. TypeOK' /\ SessionsDrawn' /\ TimerOnlyWhileWaiting'
  BY <1>0, <1>1 DEF TypeOK, Made, SessionsDrawn, InSession, SessionIdOf, TimerOnlyWhileWaiting
<1>4. MembersAgree'
  BY <1>0, <1>1, <1>2, Processes DEF MembersAgree, SameGroups, InSession, SessionIdOf
<1>5. ASSUME NEW t \in Servers, NEW h \in SessionId, t \in net.members[h]
      PROVE  /\ Doomed(net, t, h) <=> Doomed(m, t, h)
             /\ Present(m, t, h) = Present(net, t, h)
  <2>1. t # s \/ net.incoming[s][1].group # h \/ net.incoming[s][1].n_connected = 2
    BY <1>1, <1>5
  <2>. HIDE DEF m
  <2>. QED
    BY <1>0, <1>1, <2>1, TakenDoomed, Processes
<1>6. CountsReported'
  BY <1>0, <1>2, <1>5 DEF CountsReported, Counted, SameGroups
<1>7. ServersPart'
  BY <1>0, <1>1, <1>2, <1>5 DEF ServersPart, Parting, SameGroups
<1>8. AcksBehind'
  <2>. SUFFICES ASSUME NEW d \in Clients
                PROVE  AcksFine(net'.incoming[d], client'[d])
    BY AcksAreFineNext
  <2>1. net'.incoming[d] = net.incoming[d]
    BY <1>2, Processes
  <2>2. \A req : Settled(req, client[d]) => Settled(req, client'[d])
    BY <1>1
  <2>. QED
    BY <1>0, <2>1, <2>2, AcksStay, Zenon
<1>. QED
  BY <1>3, <1>4, <1>6, <1>7, <1>8 DEF Ground

(* ServerMembership.                                                       *)
LEMMA ServerMembershipGround ==
  ASSUME Ground, NEW s \in Servers, ServerMembership(s)
  PROVE  Ground'
BY ServerEndsGround, ServerStaysGround

-----------------------------------------------------------------------------
(* A client asks for a connection.                                         *)

(* connect_to_server() by client c: with the variables k and the network n *)
(* that a disconnect() leaves, the group g is joined (network j), and the  *)
(* server is sent a CONNECT.                                               *)
Opens(c, s, k, g, n, j) ==
  /\ c \in net.up /\ MayType(c)
  /\ k.connected = FALSE /\ k.draw = client[c].draw + (IF client[c].connected /\ InSession(c) THEN 1 ELSE 0)
  /\ k.draw <= budget.connects + 1 /\ g = SessionIdOf(c, k)
  /\ client' \in [Clients -> ClientVariables(Made)] /\ \A d \in Clients \ {c} : client'[d] = client[d]
  /\ client'[c].connected = FALSE /\ client'[c].draw = k.draw
  /\ client'[c].connection_group = g /\ client'[c].connected_server = s
  /\ client'[c].timer = client[c].timer /\ client'[c].blocking = client[c].blocking
  /\ client'[c].awaits = client[c].awaits /\ client'[c].displayed = client[c].displayed
  /\ n \in NetworkOf(Made) /\ LeftBy(net, n, c, IF client[c].connected THEN GroupOf(c) ELSE {})
  /\ MembersUp(n) /\ n.up = net.up /\ n.side = net.side
  /\ \A h \in SessionId : c \in n.members[h] => h = g
  /\ j \in NetworkOf(Made) /\ JoinedBy(n, j, c, g)
  /\ net' \in NetworkOf(Made) /\ SentTo(j, net', Within(j, c, {s}), Connect(g))
  /\ node' = node /\ accepted' = accepted
  /\ budget'.connects = budget.connects + 1 /\ budget'.changes = budget.changes
  /\ budget'.requests = budget.requests
  /\ budget' \in [connects : 0 .. MaxConnects, requests : Request, crashes : 0 .. MaxCrashes,
                  changes : 0 .. MaxNetChanges, synchs : 0 .. MaxSynchs]

(* Nobody has left.                                                        *)
LEMMA NobodyLeft ==
  ASSUME NEW R, NEW n \in NetworkOf(R), NEW p
  PROVE  LeftBy(n, n, p, {})
<1>1. \A q \in Proc : Missed(n, p, {}, q) = {}
  BY DEF Missed
<1>2. \A q \in Proc : Telling(n, q, {}, "leave") = {}
  BY DEF Telling
<1>3. \A q \in Proc : Grown(n.incoming[q], n.incoming[q], {})
  <2>1. \A q \in Proc : n.incoming[q] \in Seq(Receives(R, q))
    BY NetworkFields
  <2>. QED
    BY <2>1, GrownByNone
<1>. QED
  BY <1>1, <1>2, <1>3 DEF LeftBy

(* The client and the network that a disconnect() leaves, when there is    *)
(* one.                                                                    *)
Disconnects(c, k, n) ==
  /\ k \in ClientVariables(Made) /\ k.connected = FALSE
  /\ k.draw = client[c].draw + (IF client[c].connected /\ InSession(c) THEN 1 ELSE 0)
  /\ k.draw <= budget.connects + 1
  /\ k.timer = client[c].timer /\ k.blocking = client[c].blocking
  /\ k.awaits = client[c].awaits /\ k.displayed = client[c].displayed
  /\ n \in NetworkOf(Made) /\ LeftBy(net, n, c, IF client[c].connected THEN GroupOf(c) ELSE {})
  /\ MembersUp(n) /\ n.up = net.up /\ n.side = net.side
  /\ \A h \in SessionId : c \in n.members[h] => h = SessionIdOf(c, k)

(* It leaves them.                                                         *)
LEMMA DisconnectsFirst ==
  ASSUME Ground, NEW c \in Clients, c \in net.up,
         NEW k, k = (IF client[c].connected THEN Disconnected(c) ELSE client[c]),
         NEW n, n = (IF client[c].connected THEN Departed(net, c) ELSE net)
  PROVE  Disconnects(c, k, n)
<1>0. /\ TypeOK /\ SessionsDrawn /\ MembersAgree /\ net \in NetworkOf(Made) /\ MembersUp(net)
  BY NetTypes, MembersAreUp DEF Ground
<1>1. CASE client[c].connected
  <2>1. k = Disconnected(c) /\ n = Departed(net, c)
    BY <1>1
  <2>2. Before(net, c)
    BY DEF Before
  <2>3. /\ n \in NetworkOf(Made) /\ LeftBy(net, n, c, GroupOf(c))
        /\ \A g \in SessionId : n.members[g] = net.members[g] \ {c}
        /\ n.up = net.up /\ n.side = net.side
    BY <2>1, <2>2, DepartedEffect
  <2>4. MembersUp(n)
    BY <1>0, <2>3 DEF MembersUp
  <2>5. /\ k \in ClientVariables(Made)
        /\ k.connected = FALSE /\ k.draw = client[c].draw + (IF InSession(c) THEN 1 ELSE 0)
        /\ k.timer = client[c].timer /\ k.blocking = client[c].blocking
        /\ k.awaits = client[c].awaits /\ k.displayed = client[c].displayed
        /\ k.draw <= budget.connects + 1
    BY <2>1, DisconnectedFields
  <2>. QED
    BY <1>0, <1>1, <2>3, <2>4, <2>5 DEF MembersAgree, Disconnects, GroupOf
<1>2. CASE ~client[c].connected
  <2>1. k = client[c] /\ n = net
    BY <1>2
  <2>2. LeftBy(net, n, c, {})
    BY <1>0, <2>1, NobodyLeft
  <2>3. k \in ClientVariables(Made) /\ k.connected = FALSE /\ k.draw \in 1 .. MaxConnects + 1
    BY <1>0, <1>2, <2>1, ClientTypes
  <2>4. k.draw = client[c].draw + 0 /\ k.draw <= budget.connects + 1
    BY <1>0, <2>1, <2>3, BudgetTypes DEF SessionsDrawn
  <2>5. \A h \in SessionId : c \in n.members[h] => h = SessionIdOf(c, k)
    BY <1>0, <2>1 DEF MembersAgree, InSession
  <2>. QED
    BY <1>0, <1>2, <2>1, <2>2, <2>3, <2>4, <2>5 DEF Disconnects
<1>. QED
  BY <1>1, <1>2, <1>0, ClientTypes

(* What ConnectToServer does.                                              *)
LEMMA ConnectEffect ==
  ASSUME Ground, NEW c \in Clients, NEW s \in Servers, ConnectToServer(c, s)
  PROVE  \E k, g, n, j : g \in SessionId /\ Opens(c, s, k, g, n, j)
<1>. DEFINE k == IF client[c].connected THEN Disconnected(c) ELSE client[c]
            n == IF client[c].connected THEN Departed(net, c) ELSE net
            g == SessionIdOf(c, k)
            j == Join(n, c, g)
            k1 == [k EXCEPT !.connection_group = g]
            k2 == [k1 EXCEPT !.connected_server = s]
            k3 == [k2 EXCEPT !.listed = FALSE]
<1>1. /\ MayType(c) /\ c \in net.up /\ Spend("connects", MaxConnects)
      /\ client' = [client EXCEPT ![c] =
                      [k EXCEPT !.connection_group = g, !.connected_server = s, !.listed = FALSE]]
      /\ net' = SendToServer(j, c, s, Connect(g))
      /\ node' = node /\ accepted' = accepted
  BY DEF ConnectToServer, MayType, Connect
<1>2. TypeOK /\ c \in Proc
  BY Processes DEF Ground
<1>3. /\ k \in ClientVariables(Made) /\ k.connected = FALSE
      /\ k.draw = client[c].draw + (IF client[c].connected /\ InSession(c) THEN 1 ELSE 0)
      /\ k.draw <= budget.connects + 1
      /\ k.timer = client[c].timer /\ k.blocking = client[c].blocking
      /\ k.awaits = client[c].awaits /\ k.displayed = client[c].displayed
      /\ n \in NetworkOf(Made) /\ LeftBy(net, n, c, IF client[c].connected THEN GroupOf(c) ELSE {})
      /\ MembersUp(n) /\ n.up = net.up /\ n.side = net.side
      /\ \A h \in SessionId : c \in n.members[h] => h = g
  <2>. HIDE DEF g, k, n
  <2>1. /\ k = (IF client[c].connected THEN Disconnected(c) ELSE client[c])
        /\ n = (IF client[c].connected THEN Departed(net, c) ELSE net)
    BY DEF k, n
  <2>2. Disconnects(c, k, n)
    BY <1>1, <2>1, DisconnectsFirst, Zenon
  <2>. QED
    BY <2>2 DEF Disconnects, g
<1>4. /\ client' = [client EXCEPT ![c] = k3]
      /\ client \in [Clients -> ClientVariables(Made)]
  <2>. HIDE DEF k, g
  <2>1. k3 = [k EXCEPT !.connection_group = g, !.connected_server = s, !.listed = FALSE]
    BY <1>3 DEF ClientVariables
  <2>. QED
    BY <1>1, <1>2, <2>1 DEF TypeOK
<1>. HIDE DEF k, n
<1>5. g \in SessionId /\ g = SessionIdOf(c, k)
  BY <1>3, ClientFields, SessionIdTyped
<1>. HIDE DEF g
<1>6. /\ k3 \in ClientVariables(Made)
      /\ k3.connected = k.connected /\ k3.draw = k.draw /\ k3.connection_group = g
      /\ k3.connected_server = s /\ k3.timer = k.timer /\ k3.blocking = k.blocking
      /\ k3.awaits = k.awaits /\ k3.displayed = k.displayed
  BY <1>3, <1>5 DEF ClientVariables
<1>. HIDE DEF k3
<1>7. /\ client' \in [Clients -> ClientVariables(Made)] /\ client'[c] = k3
      /\ \A d \in Clients \ {c} : client'[d] = client[d]
  BY <1>4, <1>6
<1>8. j \in NetworkOf(Made) /\ JoinedBy(n, j, c, g)
  BY <1>2, <1>3, <1>5, JoinEffect, Zenon
<1>9. Connect(g) \in ServerMessage(Made)
  BY <1>5 DEF Connect, ServerMessage
<1>. HIDE DEF j
<1>10. net' \in NetworkOf(Made) /\ SentTo(j, net', Within(j, c, {s}), Connect(g))
  BY <1>1, <1>8, <1>9, SendToServerEffect
<1>11. /\ budget'.connects = budget.connects + 1 /\ budget'.changes = budget.changes
       /\ budget'.requests = budget.requests
       /\ budget' \in [connects : 0 .. MaxConnects, requests : Request, crashes : 0 .. MaxCrashes,
                       changes : 0 .. MaxNetChanges, synchs : 0 .. MaxSynchs]
  BY <1>1, <1>2, Spent
<1>12. Opens(c, s, k, g, n, j)
  BY <1>1, <1>3, <1>5, <1>6, <1>7, <1>8, <1>10, <1>11 DEF Opens
<1>. QED
  BY <1>5, <1>12

(* What a send leaves everybody with.                                      *)
LEMMA SentGrown ==
  ASSUME NEW R, NEW n \in NetworkOf(R), NEW m \in NetworkOf(R), NEW receivers, NEW x,
         SentTo(n, m, receivers, x), NEW q \in Proc
  PROVE  /\ q \in receivers => Grown(n.incoming[q], m.incoming[q], {x})
         /\ q \notin receivers => Grown(n.incoming[q], m.incoming[q], {})
<1>1. CASE q \in receivers
  BY <1>1 DEF SentTo
<1>2. CASE q \notin receivers
  <2>1. n.incoming[q] \in Seq(Receives(R, q)) /\ m.incoming[q] = n.incoming[q]
    BY <1>2, NetworkFields DEF SentTo
  <2>. QED
    BY <1>2, <2>1, GrownByNone
<1>. QED
  BY <1>1, <1>2

(* The groups and the messages after ConnectToServer.                      *)
LEMMA OpensGroups ==
  ASSUME Ground, NEW c \in Clients, NEW s \in Servers, NEW k, NEW g \in SessionId, NEW n, NEW j,
         Opens(c, s, k, g, n, j)
  PROVE  /\ net'.up = net.up /\ net'.side = net.side
         /\ n.up = net.up /\ j.up = net.up /\ MembersUp(n) /\ MembersUp(j)
         /\ \A h \in SessionId : c \in net'.members[h] <=> h = g
         /\ \A h \in SessionId : \A q : q # c => (q \in net'.members[h] <=> q \in net.members[h])
         /\ SameGroups(j, net')
<1>. DEFINE m == net'
            gs == IF client[c].connected THEN GroupOf(c) ELSE {}
<1>1. /\ c \in net.up
      /\ n \in NetworkOf(Made) /\ LeftBy(net, n, c, gs)
      /\ MembersUp(n) /\ n.up = net.up /\ n.side = net.side
      /\ \A h \in SessionId : c \in n.members[h] => h = g
      /\ j \in NetworkOf(Made) /\ JoinedBy(n, j, c, g)
      /\ m \in NetworkOf(Made) /\ SentTo(j, m, Within(j, c, {s}), Connect(g))
  BY DEF Opens
<1>. HIDE DEF m, gs
<1>2. SameGroups(j, m)
  BY <1>1 DEF SentTo
<1>3. /\ j.up = net.up /\ j.side = net.side
      /\ \A h \in SessionId : j.members[h] = IF h = g THEN n.members[g] \cup {c} ELSE n.members[h]
  BY <1>1 DEF JoinedBy
<1>4. \A h \in SessionId : n.members[h] = IF h \in gs THEN net.members[h] \ {c} ELSE net.members[h]
  BY <1>1 DEF LeftBy
<1>5. MembersUp(j)
  BY <1>1, <1>3 DEF MembersUp
<1>6. ASSUME NEW h \in SessionId
      PROVE  /\ c \in j.members[h] <=> h = g
             /\ \A q : q # c => (q \in j.members[h] <=> q \in net.members[h])
  <2>1. \A q : q # c => (q \in n.members[h] <=> q \in net.members[h])
    BY <1>4
  <2>2. CASE h = g
    BY <1>3, <2>1, <2>2
  <2>3. CASE h # g
    BY <1>1, <1>3, <2>1, <2>3
  <2>. QED
    BY <2>2, <2>3
<1>. QED
  BY <1>1, <1>2, <1>3, <1>5, <1>6 DEF SameGroups, m

(* What process q gets when c opens g: news that c left its group, that c  *)
(* joined g, the CONNECT.                                                  *)
OpensHeard(c, s, g, n, j, q) ==
  \E left, joined, sent :
    /\ Grown(net.incoming[q], n.incoming[q], left)
    /\ Grown(n.incoming[q], j.incoming[q], joined)
    /\ Grown(j.incoming[q], net'.incoming[q], sent)
    /\ Grown(net.incoming[q], net'.incoming[q], left \cup joined \cup sent)
    /\ \A x \in left : x.type = "MEMBERSHIP" /\ x.cause = "leave" /\ ~Listing(x)
                       /\ x.group = client[c].connection_group /\ client[c].connected /\ q # c
    /\ \A x \in joined : x.type = "MEMBERSHIP" /\ x.cause = "join" /\ ~Listing(x)
                         /\ x.group = g /\ Greeted(n, c, g, q) /\ x = Told(j, q, g, "join")
    /\ sent = IF q \in Within(j, c, {s}) THEN {Connect(g)} ELSE {}

(* Clients are told of a departure and of a join.                          *)
LEMMA OpensGrown ==
  ASSUME Ground, NEW c \in Clients, NEW s \in Servers, NEW k, NEW g \in SessionId, NEW n, NEW j,
         Opens(c, s, k, g, n, j), NEW q \in Proc
  PROVE  OpensHeard(c, s, g, n, j, q)
<1>. DEFINE m == net'
            gs == IF client[c].connected THEN GroupOf(c) ELSE {}
<1>1. /\ n \in NetworkOf(Made) /\ LeftBy(net, n, c, gs)
      /\ j \in NetworkOf(Made) /\ JoinedBy(n, j, c, g)
      /\ m \in NetworkOf(Made) /\ SentTo(j, m, Within(j, c, {s}), Connect(g))
      /\ gs \in SUBSET SessionId /\ net \in NetworkOf(Made)
  BY NetTypes DEF Opens, GroupOf, Ground
<1>2. gs = IF client[c].connected THEN GroupOf(c) ELSE {}
  OBVIOUS
<1>. HIDE DEF m, gs
<1>3. PICK left : /\ Grown(net.incoming[q], n.incoming[q], left)
                  /\ \A x \in left : x.type = "MEMBERSHIP" /\ x.cause = "leave" /\ ~Listing(x)
                                     /\ x.group \in Missed(net, c, gs, q)
  BY <1>1, LeftGrown
<1>4. PICK joined : /\ Grown(n.incoming[q], j.incoming[q], joined)
                    /\ \A x \in joined : x.type = "MEMBERSHIP" /\ x.cause = "join" /\ ~Listing(x)
                                /\ x.group = g /\ Greeted(n, c, g, q) /\ x = Told(j, q, g, "join")
  BY <1>1, JoinedGrown
<1>5. PICK sent : /\ Grown(j.incoming[q], m.incoming[q], sent)
                  /\ sent = IF q \in Within(j, c, {s}) THEN {Connect(g)} ELSE {}
  <2>. DEFINE ws == Within(j, c, {s})
              x == Connect(g)
  <2>. HIDE DEF ws, x
  <2>1. SentTo(j, m, ws, x)
    BY <1>1 DEF ws, x
  <2>2. /\ q \in ws => Grown(j.incoming[q], m.incoming[q], {x})
        /\ q \notin ws => Grown(j.incoming[q], m.incoming[q], {})
    BY <1>1, <2>1, SentGrown, Zenon
  <2>. QED
    BY <2>2 DEF ws, x
<1>6. /\ net.incoming[q] \in Seq(Receives(Made, q)) /\ n.incoming[q] \in Seq(Receives(Made, q))
      /\ j.incoming[q] \in Seq(Receives(Made, q)) /\ m.incoming[q] \in Seq(Receives(Made, q))
  BY <1>1, NetworkFields
<1>7. Grown(net.incoming[q], j.incoming[q], left \cup joined)
  BY <1>3, <1>4, <1>6, GrownTwice, Zenon
<1>8. Grown(net.incoming[q], m.incoming[q], left \cup joined \cup sent)
  <2>. DEFINE lj == left \cup joined
  <2>. HIDE DEF lj
  <2>1. Grown(net.incoming[q], j.incoming[q], lj)
    BY <1>7 DEF lj
  <2>2. Grown(net.incoming[q], m.incoming[q], lj \cup sent)
    BY <1>5, <1>6, <2>1, GrownTwice, Zenon
  <2>. QED
    BY <2>2 DEF lj
<1>9. \A h \in Missed(net, c, gs, q) : h = client[c].connection_group /\ client[c].connected /\ q # c
  BY <1>2 DEF Missed, GroupOf
<1>. QED
  BY <1>3, <1>4, <1>5, <1>8, <1>9 DEF m, OpensHeard

(* ConnectToServer.                                                        *)
LEMMA ConnectToServerGround ==
  ASSUME Ground, NEW c \in Clients, NEW s \in Servers, ConnectToServer(c, s)
  PROVE  Ground'
<1>. DEFINE m == net'
<1>0. /\ TypeOK /\ SessionsDrawn /\ MembersAgree /\ CountsReported /\ ServersPart /\ AcksBehind
      /\ TimerOnlyWhileWaiting /\ net \in NetworkOf(Made) /\ c \in Proc /\ s \in Proc
  BY NetTypes, Processes DEF Ground
<1>1. PICK k, g, n, j : g \in SessionId /\ Opens(c, s, k, g, n, j)
  BY ConnectEffect
<1>2. /\ c \in net.up /\ g = SessionIdOf(c, k)
      /\ k.draw <= budget.connects + 1
      /\ client' \in [Clients -> ClientVariables(Made)] /\ \A d \in Clients \ {c} : client'[d] = client[d]
      /\ client'[c].connected = FALSE /\ client'[c].draw = k.draw
      /\ client'[c].connection_group = g /\ client'[c].connected_server = s
      /\ client'[c].timer = client[c].timer /\ client'[c].blocking = client[c].blocking
      /\ client'[c].awaits = client[c].awaits /\ client'[c].displayed = client[c].displayed
      /\ n \in NetworkOf(Made) /\ n.up = net.up /\ MembersUp(n)
      /\ j \in NetworkOf(Made) /\ JoinedBy(n, j, c, g)
      /\ m \in NetworkOf(Made) /\ SentTo(j, m, Within(j, c, {s}), Connect(g))
      /\ node' = node /\ accepted' = accepted
      /\ budget'.connects = budget.connects + 1 /\ budget'.changes = budget.changes
      /\ budget'.requests = budget.requests
      /\ budget' \in [connects : 0 .. MaxConnects, requests : Request, crashes : 0 .. MaxCrashes,
                      changes : 0 .. MaxNetChanges, synchs : 0 .. MaxSynchs]
  BY <1>1 DEF Opens
<1>3. /\ m.up = net.up /\ m.side = net.side /\ j.up = net.up /\ MembersUp(j)
      /\ \A h \in SessionId : c \in m.members[h] <=> h = g
      /\ \A h \in SessionId : \A q : q # c => (q \in m.members[h] <=> q \in net.members[h])
      /\ SameGroups(j, m)
  BY <1>1, OpensGroups
<1>4. PICK gs \in SUBSET SessionId : LeftBy(net, n, c, gs)
  BY <1>1 DEF Opens, GroupOf
<1>5. Made' = Made
  BY <1>2 DEF Made
<1>6. TypeOK'
  BY <1>0, <1>2, <1>5 DEF TypeOK
<1>7. /\ InSession(c)'
      /\ \A d \in Clients \ {c} : InSession(d)' <=> InSession(d)
  BY <1>2 DEF InSession, SessionIdOf
<1>8. SessionsDrawn'
  <2>. SUFFICES ASSUME NEW d \in Clients
                PROVE  /\ client'[d].draw + (IF InSession(d)' THEN 1 ELSE 0) <= budget'.connects + 1
                       /\ client'[d].connection_group
                            \in {None} \cup {<<Seed[d], i>> : i \in 1 .. client'[d].draw}
    BY DEF SessionsDrawn
  <2>1. client'[d].draw \in 1 .. MaxConnects + 1 /\ budget.connects \in Nat
    BY <1>0, <1>2, BudgetTypes DEF ClientVariables
  <2>2. CASE d = c
    <3>1. client'[d].draw + 1 <= budget'.connects + 1
      BY <1>2, <2>1, <2>2
    <3>2. client'[d].connection_group = <<Seed[d], client'[d].draw>>
      BY <1>2, <2>2 DEF SessionIdOf
    <3>. QED
      BY <1>7, <2>1, <2>2, <3>1, <3>2, Bounds
  <2>3. CASE d # c
    <3>1. /\ client[d].draw + (IF InSession(d) THEN 1 ELSE 0) <= budget.connects + 1
          /\ client[d].connection_group \in {None} \cup {<<Seed[d], i>> : i \in 1 .. client[d].draw}
      BY <1>0 DEF SessionsDrawn
    <3>. QED
      BY <1>2, <1>7, <2>1, <2>3, <3>1
  <2>. QED
    BY <2>2, <2>3
<1>9. MembersAgree'
  <2>1. \A q \in Proc : q \notin net.up => m.incoming[q] = net.incoming[q]
    <3>1. ASSUME NEW q \in Proc, q \notin net.up
          PROVE  m.incoming[q] = net.incoming[q]
      <4>1. q \notin n.up /\ q \notin j.up /\ c \in n.up
        BY <1>2, <1>3, <3>1
      <4>2. n.incoming[q] = net.incoming[q]
        BY <1>0, <1>2, <1>4, <3>1, LeftDown, MembersAreUp
      <4>3. j.incoming[q] = n.incoming[q]
        BY <1>2, <1>1, <4>1, JoinedDown
      <4>4. q \notin Within(j, c, {s})
        BY <4>1 DEF Within
      <4>5. m.incoming[q] = j.incoming[q]
        <5>. HIDE DEF m
        <5>. QED
          BY <1>2, <4>4 DEF SentTo
      <4>. QED
        BY <4>2, <4>3, <4>5
    <3>. QED
      BY <3>1
  <2>2. \A d \in Clients, h \in SessionId :
          d \in m.members[h] <=> d \in m.up /\ InSession(d)' /\ h = client'[d].connection_group
    <3>. SUFFICES ASSUME NEW d \in Clients, NEW h \in SessionId
                  PROVE  d \in m.members[h] <=> d \in m.up /\ InSession(d)' /\ h = client'[d].connection_group
      OBVIOUS
    <3>1. CASE d = c
      BY <1>2, <1>3, <1>7, <3>1
    <3>2. CASE d # c
      <4>1. d \in m.members[h] <=> d \in net.members[h]
        BY <1>3, <3>2
      <4>2. d \in net.members[h] <=> d \in net.up /\ InSession(d) /\ h = client[d].connection_group
        BY <1>0 DEF MembersAgree
      <4>. QED
        BY <1>2, <1>3, <1>7, <3>2, <4>1, <4>2
    <3>. QED
      BY <3>1, <3>2
  <2>3. \A t \in Servers, h \in SessionId : t \in m.members[h] <=> h \in node'[t].client_connections
    <3>. SUFFICES ASSUME NEW t \in Servers, NEW h \in SessionId
                  PROVE  t \in m.members[h] <=> h \in node'[t].client_connections
      OBVIOUS
    <3>1. t \in net.members[h] <=> h \in node[t].client_connections
      BY <1>0 DEF MembersAgree
    <3>2. t # c
      BY Processes
    <3>. QED
      BY <1>2, <1>3, <3>1, <3>2
  <2>4. \A d \in Clients \ m.up : m.incoming[d] = <<>> /\ client'[d] = Start
    BY <1>0, <1>2, <1>3, <2>1, Processes DEF MembersAgree
  <2>5. \A t \in Servers \ m.up : m.incoming[t] = <<>> /\ node'[t] = Fresh
    BY <1>0, <1>2, <1>3, <2>1, Processes DEF MembersAgree
  <2>. QED
    BY <2>2, <2>3, <2>4, <2>5 DEF MembersAgree
<1>10. ASSUME NEW q \in Proc
       PROVE  \E new : Grown(j.incoming[q], m.incoming[q], new)
  <2>1. OpensHeard(c, s, g, n, j, q)
    BY <1>1, OpensGrown
  <2>. QED
    BY <2>1 DEF OpensHeard
<1>11. ASSUME NEW t \in Servers, NEW h \in SessionId
       PROVE  Counted(n, t, h) /\ Counted(j, t, h) /\ Counted(m, t, h)
  <2>1. t \in Proc /\ Counted(net, t, h)
    BY <1>0, Processes DEF CountsReported
  <2>. HIDE DEF m
  <2>2. Counted(n, t, h)
    BY <1>0, <1>2, <1>4, <2>1, LeaveCounted, Zenon
  <2>3. Counted(j, t, h)
    BY <1>0, <1>1, <1>2, <2>1, <2>2, JoinCounted, Zenon
  <2>4. Counted(m, t, h)
    BY <1>2, <1>3, <1>10, <2>1, <2>3, SendsCounted, Zenon
  <2>. QED
    BY <2>2, <2>3, <2>4
<1>12. CountsReported'
  BY <1>11 DEF CountsReported
<1>13. ServersPart'
  <2>. SUFFICES ASSUME MaxNetChanges <= 1
                PROVE  /\ \A t, u \in Servers, h \in SessionId : Parting(m, t, u, h)
                       /\ budget'.changes = 0 => \A p, q \in Proc : m.side[p] = m.side[q]
    BY DEF ServersPart
  <2>1. ASSUME NEW t \in Servers, NEW u \in Servers, NEW h \in SessionId
        PROVE  Parting(m, t, u, h)
    <3>1. t \in Proc /\ u \in Proc /\ Parting(net, t, u, h)
      BY <1>0, Processes DEF ServersPart
    <3>2. /\ Counted(n, t, h) /\ Counted(n, u, h)
      BY <1>11
    <3>. HIDE DEF m
    <3>3. Parting(n, t, u, h)
      BY <1>0, <1>2, <1>4, <3>1, LeaveParting, Zenon
    <3>4. Parting(j, t, u, h)
      BY <1>0, <1>1, <1>2, <3>1, <3>2, <3>3, JoinParting, Zenon
    <3>5. \A q \in {t, u} : \E new : Grown(j.incoming[q], m.incoming[q], new)
      BY <1>10, <3>1
    <3>. QED
      BY <1>1, <1>2, <1>3, <3>1, <3>4, <3>5, SendsParting, Zenon
  <2>. QED
    BY <1>0, <1>2, <1>3, <2>1 DEF ServersPart
<1>14. AcksBehind'
  <2>. SUFFICES ASSUME NEW d \in Clients
                PROVE  AcksFine(net'.incoming[d], client'[d])
    BY AcksAreFineNext
  <2>1. d \in Proc /\ d # s
    BY Processes
  <2>2. PICK left, joined, sent :
           /\ Grown(net.incoming[d], net'.incoming[d], left \cup joined \cup sent)
           /\ \A x \in left \cup joined : ~Listing(x)
           /\ sent = IF d \in Within(j, c, {s}) THEN {Connect(g)} ELSE {}
    <3>1. OpensHeard(c, s, g, n, j, d)
      BY <1>1, <2>1, OpensGrown
    <3>. QED
      BY <3>1 DEF OpensHeard
  <2>3. \A x \in left \cup joined \cup sent : ~Listing(x)
    BY <2>2 DEF Listing, Connect
  <2>4. \A req : Settled(req, client[d]) => Settled(req, client'[d])
    BY <1>2 DEF Settled
  <2>. QED
    BY <1>0, <1>6, <2>2, <2>3, <2>4, AcksGrown, Zenon
<1>15. TimerOnlyWhileWaiting'
  BY <1>0, <1>2 DEF TimerOnlyWhileWaiting
<1>. QED
  BY <1>6, <1>8, <1>9, <1>12, <1>13, <1>14, <1>15 DEF Ground

-----------------------------------------------------------------------------
(* The first part of the invariant, and what follows from it.              *)

(* Steps that open, keep and close no session.                             *)
Aside ==
  \/ \E c \in Clients : \/ SendEmail(c) \/ GetInbox(c) \/ ReadEmail(c) \/ DeleteEmail(c)
                        \/ GetComponent(c) \/ ClientAck(c) \/ ClientAnswer(c)
  \/ \E s \in Servers : \/ ServerRefuses(s) \/ ServerShows(s) \/ ServerApplies(s) \/ ServerStashes(s)
                        \/ ServerCommand(s) \/ BeginSynch(s) \/ EndSynch(s)

(* The other steps.                                                        *)
Telltale ==
  \/ \E c \in Clients, s \in Servers : ConnectToServer(c, s)
  \/ \E c \in Clients : Goodbye(c) \/ ClientMembership(c) \/ HandleTimeout(c)
  \/ \E s \in Servers : ServerConnect(s) \/ ServerMembership(s) \/ Crash(s) \/ Restart(s)
  \/ NetworkChange

(* There are no more.                                                      *)
LEMMA StepKinds == Next => Aside \/ Telltale
BY DEF Next, UserTypes, ClientHandles, ServerHandles, Aside, Telltale

(* Requests, answers and synchronizations are harmless.                    *)
LEMMA AsideHarmless ==
  ASSUME Ground, Aside
  PROVE  Harmless
BY RequestsHarmless, ClientAckHarmless, ClientAnswerHarmless, ServerRefusesHarmless,
   ServerShowsHarmless, ServerAppliesHarmless, ServerStashesHarmless, ServerCommandHarmless,
   BeginSynchHarmless, EndSynchHarmless, Zenon DEF Aside

(* Every step keeps the ground.                                            *)
LEMMA GroundStep ==
  ASSUME Ground, [Next]_vars
  PROVE  Ground'
<1>1. CASE Aside
  <2>1. Harmless
    BY <1>1, AsideHarmless
  <2>2. TypeOK' /\ QuietStep
    BY <2>1 DEF Harmless
  <2>3. SessionsDrawn' /\ MembersAgree' /\ CountsReported' /\ ServersPart'
    BY <2>2, QuietGround
  <2>. QED
    BY <2>1, <2>3 DEF Harmless, Ground
<1>2. CASE Telltale
  BY <1>2, ConnectToServerGround, GoodbyeGround, ClientMembershipGround, HandleTimeoutGround,
     ServerConnectGround, ServerMembershipGround, CrashGround, RestartGround, NetworkChangeGround,
     Zenon DEF Telltale
<1>3. CASE UNCHANGED vars
  BY <1>3 DEF vars, Ground, TypeOK, Made, SessionsDrawn, InSession, SessionIdOf, MembersAgree,
              CountsReported, Counted, Doomed, Present, ServersPart, Parting, AcksBehind, Behind,
              TimerOnlyWhileWaiting
<1>. QED
  BY <1>1, <1>2, <1>3, StepKinds

(* The ground is there from the start.                                     *)
LEMMA GroundInit ==
  ASSUME Init
  PROVE  Ground
<1>1. /\ net = Quiescent /\ client = [c \in Clients |-> Start] /\ node = [s \in Servers |-> Fresh]
      /\ budget = [connects |-> 0, requests |-> 0, crashes |-> 0, changes |-> 0, synchs |-> 0]
      /\ accepted = {}
  BY DEF Init
<1>2. Made = {0}
  BY <1>1 DEF Made
<1>3. /\ net.up = Proc /\ \A p \in Proc : net.side[p] = 0 /\ net.incoming[p] = <<>>
      /\ \A g \in SessionId : net.members[g] = {}
      /\ \A c \in Clients : client[c] = Start
      /\ \A s \in Servers : node[s] = Fresh
  BY <1>1 DEF Quiescent
<1>4. /\ Start.draw = 1 /\ Start.connection_group = None /\ ~Start.connected /\ Start.timer = 0
      /\ ~Start.blocking /\ Fresh.client_connections = {}
  BY DEF Start, Fresh
<1>5. TypeOK
  <2>1. Start \in ClientVariables(Made)
    BY <1>2, Bounds DEF Start, ClientVariables
  <2>2. Fresh \in ServerVariables(Made)
    <3>1. <<>> \in Seq(Stashed(Made))
      OBVIOUS
    <3>. QED
      BY <3>1 DEF Fresh, ServerVariables
  <2>3. net \in NetworkOf(Made)
    <3>1. \A p \in Proc : <<>> \in Seq(Receives(Made, p))
      OBVIOUS
    <3>2. /\ Proc \in SUBSET Proc /\ [p \in Proc |-> 0] \in [Proc -> {0, 1}]
          /\ [g \in SessionId |-> {}] \in [SessionId -> SUBSET Proc]
      OBVIOUS
    <3>3. PICK incoming : incoming = [p \in Proc |-> <<>>]
      OBVIOUS
    <3>4. incoming = [p \in Proc |-> incoming[p]] /\ \A p \in Proc : incoming[p] \in Seq(Receives(Made, p))
      BY <3>1, <3>3
    <3>5. net = [up |-> Proc, side |-> [p \in Proc |-> 0], members |-> [g \in SessionId |-> {}],
                 incoming |-> incoming]
      BY <1>1, <3>3 DEF Quiescent
    <3>. QED
      BY <3>2, <3>4, <3>5, NetworkMade
  <2>4. budget \in [connects : 0 .. MaxConnects, requests : Request, crashes : 0 .. MaxCrashes,
                    changes : 0 .. MaxNetChanges, synchs : 0 .. MaxSynchs]
    BY <1>1, Bounds DEF Request
  <2>. QED
    BY <1>1, <2>1, <2>2, <2>3, <2>4 DEF TypeOK
<1>6. \A c \in Clients : ~InSession(c)
  <2>1. 1 \in 1 .. MaxConnects + 1
    BY Bounds
  <2>2. \A c \in Clients : SessionIdOf(c, client[c]) # None
    BY <1>3, <1>4, <2>1, SessionIdTyped
  <2>. QED
    BY <1>3, <1>4, <2>2 DEF InSession
<1>7. SessionsDrawn
  BY <1>1, <1>3, <1>4, <1>6 DEF SessionsDrawn
<1>8. MembersAgree
  BY <1>3, <1>4, <1>6, Processes DEF MembersAgree
<1>9. CountsReported /\ ServersPart
  BY <1>3 DEF CountsReported, Counted, ServersPart, Parting
<1>10. AcksBehind
  BY <1>3, Processes DEF AcksBehind
<1>11. TimerOnlyWhileWaiting
  BY <1>3, <1>4 DEF TimerOnlyWhileWaiting
<1>. QED
  BY <1>5, <1>7, <1>8, <1>9, <1>10, <1>11 DEF Ground

(* The ground is never lost.                                               *)
THEOREM GroundKept == Spec => []Ground
<1>1. Init => Ground
  BY GroundInit
<1>2. Ground /\ [Next]_vars => Ground'
  BY GroundStep
<1>. QED
  BY <1>1, <1>2, PTL DEF Spec

(* Type correctness: the variables of clients, of servers and of the       *)
(* network hold values of their types, whatever users, servers and the     *)
(* network do.                                                             *)
THEOREM SessionTypes == Spec => []TypeOK
<1>1. Ground => TypeOK
  BY DEF Ground
<1>. QED
  BY <1>1, GroundKept, PTL

(* What ends a wait takes the timer with it (process_server_response,      *)
(* handle_timeout): no answered request times out.                         *)
THEOREM TimersAreAwaited == Spec => []TimerOnlyWhileWaiting
<1>1. Ground => TimerOnlyWhileWaiting
  BY DEF Ground
<1>. QED
  BY <1>1, GroundKept, PTL

(* The ACK of a listing or of the names does not reach a client that still *)
(* waits for it before their answer was displayed (send_inbox_to_client,   *)
(* send_component_to_client).                                              *)
THEOREM AnswersComeFirst == Spec => []AcksFollowAnswers
<1>1. Ground => AcksFollowAnswers
  <2>. SUFFICES ASSUME Ground, NEW c \in Clients, NextIs(c, {"ACK"}),
                       Next1(c).req = client[c].awaits, client[c].blocking,
                       Next1(c).body \in {"SHOW_INBOX", "SHOW_COMPONENT"}
                PROVE  client[c].displayed
    BY DEF AcksFollowAnswers
  <2>1. net.incoming[c] \in Seq(Receives(Made, c)) /\ net.incoming[c] # <<>>
    BY NetTypes, Processes DEF Ground, NextIs
  <2>2. 1 \in DOMAIN net.incoming[c] /\ Next1(c) = net.incoming[c][1]
    BY <2>1 DEF Next1
  <2>3. ~Behind(net.incoming[c], 1)
    BY DEF Behind
  <2>4. net.incoming[c][1].type = "ACK"
    BY <2>2 DEF NextIs, Next1
  <2>. QED
    BY <2>2, <2>3, <2>4 DEF Ground, AcksBehind
<1>. QED
  BY <1>1, GroundKept, PTL

(* Without a server that must leave, two servers never share a quiet       *)
(* session, and QuietRelease holds.                                        *)
LEMMA ReleasedWhenQuiet ==
  ASSUME Ground,
         \A s, t \in Servers, g \in SessionId : Parting(net, s, t, g)
  PROVE  QuietRelease
<1>. SUFFICES ASSUME Quiet, NEW s \in net.up \cap Servers, NEW g \in SessionId
              PROVE  /\ s \in net.members[g] <=> g \in node[s].client_connections
                     /\ s \in net.members[g] => \E c \in Clients : Present(net, s, g) = {s, c}
  BY DEF QuietRelease
<1>0. net \in NetworkOf(Made) /\ net.members \in [SessionId -> SUBSET Proc]
  BY NetTypes DEF Ground
<1>1. s \in net.members[g] <=> g \in node[s].client_connections
  BY DEF Ground, MembersAgree
<1>2. \A t \in Servers : ~Doomed(net, t, g)
  <2>1. \A t \in Servers : net.incoming[t] = <<>>
    BY Processes DEF Quiet
  <2>2. \A t \in Servers : Range(net.incoming[t]) = {}
    BY <2>1 DEF Range
  <2>. QED
    BY <2>2 DEF Doomed
<1>3. ASSUME s \in net.members[g]
      PROVE  \E c \in Clients : Present(net, s, g) = {s, c}
  <2>. DEFINE P == Present(net, s, g)
  <2>1. /\ s \in P /\ P \subseteq Proc /\ IsFiniteSet(P) /\ Cardinality(P) = 2
    BY <1>0, <1>2, <1>3, PresentCount DEF Ground, CountsReported, Counted, Present
  <2>2. PICK q \in P : q # s
    <3>1. P # {s}
      BY <2>1, FS_Singleton
    <3>. QED
      BY <2>1, <3>1
  <2>3. P = {s, q}
    <3>. HIDE DEF P
    <3>. QED
      BY <2>1, <2>2, PairCount, Zenon
  <2>4. q \in Proc /\ q \in net.members[g] /\ net.side[q] = net.side[s]
    BY <2>1, <2>2 DEF Present
  <2>5. q \notin Servers
    BY <1>2, <1>3, <2>2, <2>4 DEF Parting
  <2>. QED
    BY <2>3, <2>4, <2>5, Processes
<1>. QED
  BY <1>1, <1>3

-----------------------------------------------------------------------------
(* The second part: clients with different seeds whose users wait for the  *)
(* connection they asked for.                                              *)
OrderlyInv == OneHolder /\ FreshSessions /\ RightServer

(* Somebody is in the group, or is asked to join it.                       *)
InUse(g) == net.members[g] # {} \/ \E s \in Servers : Holds(s, g)

(* What a step may tell: of groups in use, and of joins only when it is    *)
(* the server the client asked.                                            *)
Rumour(x) ==
  /\ x.type = "MEMBERSHIP" /\ x.group \in SessionId /\ InUse(x.group)
  /\ x.cause = "join" =>
       \A c \in Clients \cap net.up :
         x.group = client[c].connection_group => <<client[c].connected_server, x.group>> \in accepted'

(* A client keeps its group and its server.                                *)
KeepsCourse(c) ==
  /\ c \in net.up /\ client'[c].draw >= client[c].draw
  /\ client'[c].connection_group = client[c].connection_group
  /\ client'[c].connected_server = client[c].connected_server
  /\ client'[c].connected => client[c].connected \/ Met(c)

(* A step that opens no session.                                           *)
Gentle ==
  /\ \A q \in Proc : \A x \in Coming(q)' : x \in Coming(q) \/ ~Notable(x) \/ Rumour(x)
  /\ \A g \in SessionId : /\ \A s \in Servers : s \in net'.members[g] => Holds(s, g)
                          /\ net'.members[g] # {} => InUse(g)
  /\ \A c \in Clients \cap net'.up : KeepsCourse(c)
  /\ accepted \subseteq accepted'

(* Such a step keeps the second part.                                      *)
LEMMA OrderlyStep ==
  ASSUME TypeOK, OrderlyInv, TypeOK', Gentle
  PROVE  OrderlyInv'
<1>0. /\ \A c \in Clients : client[c].draw \in 1 .. MaxConnects + 1 /\ client'[c].draw \in 1 .. MaxConnects + 1
      /\ \A c \in Clients : client[c].connection_group \in SessionId \cup {None}
      /\ MaxConnects \in Nat
  BY Bounds, ClientTypes DEF TypeOK, ClientVariables
<1>1. ASSUME NEW s \in Servers, NEW g \in SessionId, Holds(s, g)'
      PROVE  Holds(s, g)
  <2>1. CASE s \in net'.members[g]
    BY <2>1 DEF Gentle
  <2>2. CASE Connect(g) \in Coming(s)'
    <3>1. Connect(g) \in Coming(s) \/ Rumour(Connect(g))
      BY <2>2, Processes DEF Gentle, Notable, Connect
    <3>2. ~Rumour(Connect(g))
      BY DEF Rumour, Connect
    <3>. QED
      BY <3>1, <3>2 DEF Holds
  <2>. QED
    BY <1>1, <2>1, <2>2 DEF Holds
<1>2. OneHolder'
  BY <1>1 DEF OneHolder, OrderlyInv
<1>3. FreshSessions'
  <2>. SUFFICES ASSUME NEW c \in Clients \cap net'.up, NEW k \in client'[c].draw .. MaxConnects + 1,
                       NEW g, g = <<Seed[c], k>>, g # client'[c].connection_group
                PROVE  /\ net'.members[g] = {}
                       /\ \A s \in Servers : ~Holds(s, g)'
                       /\ \A x \in Coming(c)' : ~About(x, g)
    BY DEF FreshSessions, Holds, About, Coming
  <2>1. c \in net.up /\ k \in client[c].draw .. MaxConnects + 1 /\ g # client[c].connection_group
    BY <1>0 DEF Gentle, KeepsCourse
  <2>2. g \in SessionId
    BY <1>0, <2>1, SessionNames
  <2>3. /\ net.members[g] = {} /\ \A s \in Servers : ~Holds(s, g)
        /\ \A x \in Coming(c) : ~About(x, g)
    BY <2>1 DEF FreshSessions, OrderlyInv
  <2>4. ~InUse(g)
    BY <2>3 DEF InUse
  <2>5. \A x \in Coming(c)' : ~About(x, g)
    BY <2>3, <2>4, Processes DEF Gentle, Rumour, About, Notable
  <2>6. net'.members[g] = {}
    BY <2>2, <2>4 DEF Gentle
  <2>7. \A s \in Servers : ~Holds(s, g)'
    BY <1>1, <2>2, <2>3
  <2>. QED
    BY <2>5, <2>6, <2>7
<1>4. RightServer'
  <2>. SUFFICES ASSUME NEW c \in Clients \cap net'.up, NEW g, g = client[c].connection_group
                PROVE  /\ \A s \in Servers : g # None /\ Holds(s, g)' => s = client'[c].connected_server
                       /\ client'[c].connected \/ Met(c)' => <<client'[c].connected_server, g>> \in accepted'
    <3>1. \A c \in Clients \cap net'.up : client'[c].connection_group = client[c].connection_group
      BY DEF Gentle, KeepsCourse
    <3>. QED
      BY <3>1 DEF RightServer, Holds, Coming
  <2>1. /\ c \in net.up /\ client'[c].connected_server = client[c].connected_server
        /\ client'[c].connection_group = g
        /\ client'[c].connected => client[c].connected \/ Met(c)
    BY DEF Gentle, KeepsCourse
  <2>2. /\ \A s \in Servers : g # None /\ Holds(s, g) => s = client[c].connected_server
        /\ client[c].connected \/ Met(c) => <<client[c].connected_server, g>> \in accepted
    BY <2>1 DEF RightServer, OrderlyInv
  <2>3. \A s \in Servers : g # None /\ Holds(s, g)' => s = client'[c].connected_server
    BY <1>0, <1>1, <2>1, <2>2
  <2>4. ASSUME Met(c)'
        PROVE  Met(c) \/ <<client[c].connected_server, g>> \in accepted'
    <3>1. PICK x \in Coming(c)' : JoinOf(x, g)
      BY <2>1, <2>4 DEF Met, JoinOf, About, TwoAreHere
    <3>2. x \in Coming(c) \/ Rumour(x)
      BY <3>1, Processes DEF Gentle, Notable, JoinOf, About
    <3>. QED
      BY <2>1, <3>1, <3>2 DEF Met, Rumour, JoinOf, About, TwoAreHere
  <2>. QED
    BY <2>1, <2>2, <2>3, <2>4 DEF Gentle
<1>. QED
  BY <1>2, <1>3, <1>4 DEF OrderlyInv

(* Requests, answers and synchronizations are gentle.                      *)
LEMMA AsideGentle ==
  ASSUME TypeOK, TypeOK', QuietStep
  PROVE  Gentle
<1>1. QuietNet(net, net') /\ SameGroups(net, net')
  BY DEF QuietStep, QuietNet
<1>2. ASSUME NEW q \in Proc, NEW x \in Coming(q)'
      PROVE  x \in Coming(q) \/ ~Notable(x) \/ Rumour(x)
  BY <1>1, <1>2, QuietComing
<1>3. \A g \in SessionId : /\ \A s \in Servers : s \in net'.members[g] => Holds(s, g)
                           /\ net'.members[g] # {} => InUse(g)
  BY <1>1 DEF SameGroups, Holds, InUse
<1>4. ASSUME NEW c \in Clients \cap net'.up
      PROVE  KeepsCourse(c)
  <2>1. c \in net.up /\ SameSession(client[c], client'[c])
    BY <1>1 DEF SameGroups, QuietStep
  <2>2. client[c].draw \in Int
    BY ClientTypes
  <2>. QED
    BY <2>1, <2>2 DEF SameSession, KeepsCourse
<1>. QED
  BY <1>2, <1>3, <1>4 DEF Gentle, QuietStep

(* What is left of a queue, and what is behind it.                         *)
LEMMA TakenComing ==
  ASSUME NEW R, NEW n \in NetworkOf(R), NEW r \in NetworkOf(R), NEW p \in Proc, Taken(n, r, p),
         NEW q \in Proc
  PROVE  Range(r.incoming[q]) \subseteq Range(n.incoming[q])
<1>1. n.incoming[q] \in Seq(Receives(R, q)) /\ r.incoming[q] \in Seq(Receives(R, q))
  BY NetworkFields
<1>2. CASE q = p
  <2>. SUFFICES ASSUME NEW x \in Range(r.incoming[p])
                PROVE  x \in Range(n.incoming[p])
    BY <1>2
  <2>1. PICK i \in 1 .. Len(r.incoming[p]) : r.incoming[p][i] = x
    BY <1>1, <1>2 DEF Range
  <2>2. i + 1 \in 1 .. Len(n.incoming[p]) /\ n.incoming[p][i + 1] = x
    BY <1>1, <1>2, <2>1 DEF Taken
  <2>. QED
    BY <1>1, <1>2, <2>2 DEF Range
<1>3. CASE q # p
  BY <1>3 DEF Taken
<1>. QED
  BY <1>2, <1>3

(* A network that somebody left is gentle: those left in the groups hear.  *)
LEMMA LeftGently ==
  ASSUME NEW R, NEW n \in NetworkOf(R), NEW m \in NetworkOf(R), NEW p, NEW gs \in SUBSET SessionId,
         LeftBy(n, m, p, gs), SameGroups(net, n),
         NEW q \in Proc, NEW x \in Range(m.incoming[q])
  PROVE  x \in Range(n.incoming[q]) \/ Rumour(x)
<1>1. PICK new : /\ Grown(n.incoming[q], m.incoming[q], new)
                 /\ \A y \in new : /\ y.type = "MEMBERSHIP" /\ y.cause = "leave"
                                   /\ y.group \in Missed(n, p, gs, q)
  BY LeftGrown
<1>2. n.incoming[q] \in Seq(Receives(R, q)) /\ m.incoming[q] \in Seq(Receives(R, q))
  BY NetworkFields
<1>3. Range(m.incoming[q]) = Range(n.incoming[q]) \cup new
  BY <1>1, <1>2, GrownRange
<1>4. ASSUME x \in new
      PROVE  Rumour(x)
  BY <1>1, <1>4 DEF Rumour, InUse, Missed, SameGroups
<1>. QED
  BY <1>3, <1>4

(* A client that takes a message from its queue, or does not.              *)
LEMMA BeforeComing ==
  ASSUME Ground, NEW c \in Clients, NEW n, Before(n, c), NEW q \in Proc
  PROVE  Range(n.incoming[q]) \subseteq Coming(q)
<1>1. CASE n = net
  BY <1>1 DEF Coming
<1>2. CASE n = Received(c) /\ NextIs(c, {"MEMBERSHIP"})
  <2>1. net \in NetworkOf(Made) /\ c \in Proc /\ net.incoming[c] # <<>>
    BY <1>2, NetTypes, Processes DEF Ground, NextIs
  <2>2. Received(c) \in NetworkOf(Made) /\ Taken(net, Received(c), c)
    BY <2>1, ReceivedEffect
  <2>. QED
    BY <1>2, <2>1, <2>2, TakenComing, Zenon DEF Coming
<1>. QED
  BY <1>1, <1>2 DEF Before

(* A client that leaves its session, HandleTimeout or ClientMembership.    *)
LEMMA ClientLeavesGentle ==
  ASSUME Ground, NEW c \in Clients, c \in net.up, NEW n, Before(n, c), net' = Departed(n, c),
         accepted' = accepted, NEW k, client' = [client EXCEPT ![c] = k],
         SameSession(Disconnected(c), k)
  PROVE  Gentle
<1>. DEFINE m == net'
            gs == GroupOf(c)
<1>1. n \in NetworkOf(Made) /\ SameGroups(net, n) /\ gs \in SUBSET SessionId
  BY BeforeKept, Zenon DEF GroupOf
<1>2. /\ m \in NetworkOf(Made) /\ LeftBy(n, m, c, gs)
      /\ \A g \in SessionId : m.members[g] = net.members[g] \ {c}
      /\ m.up = net.up /\ m.side = net.side
  <2>1. m = Departed(n, c)
    OBVIOUS
  <2>. HIDE DEF m
  <2>. QED
    BY <2>1, DepartedEffect
<1>3. ASSUME NEW q \in Proc, NEW x \in Coming(q)'
      PROVE  x \in Coming(q) \/ ~Notable(x) \/ Rumour(x)
  <2>1. x \in Range(m.incoming[q])
    BY <1>3 DEF Coming
  <2>. HIDE DEF m, gs
  <2>2. x \in Range(n.incoming[q]) \/ Rumour(x)
    BY <1>1, <1>2, <2>1, LeftGently, Zenon
  <2>. QED
    BY <2>2, BeforeComing
<1>4. \A g \in SessionId : /\ \A s \in Servers : s \in net'.members[g] => Holds(s, g)
                           /\ net'.members[g] # {} => InUse(g)
  BY <1>2 DEF Holds, InUse
<1>5. ASSUME NEW d \in Clients \cap net'.up
      PROVE  KeepsCourse(d)
  <2>1. client \in [Clients -> ClientVariables(Made)] /\ client[d].draw \in Int /\ d \in net.up
    BY <1>2, ClientTypes DEF Ground, TypeOK
  <2>2. CASE d # c
    BY <2>1, <2>2 DEF KeepsCourse
  <2>3. CASE d = c
    <3>. DEFINE kk == Disconnected(c)
    <3>1. /\ kk.connected = FALSE /\ kk.draw = client[c].draw + (IF InSession(c) THEN 1 ELSE 0)
          /\ kk.connection_group = client[c].connection_group
          /\ kk.connected_server = client[c].connected_server
      BY DisconnectedFields
    <3>2. SameSession(kk, k) /\ client'[c] = k
      BY <2>1, <2>3
    <3>. HIDE DEF kk
    <3>. QED
      BY <2>1, <2>3, <3>1, <3>2 DEF KeepsCourse, SameSession
  <2>. QED
    BY <2>2, <2>3
<1>. QED
  BY <1>3, <1>4, <1>5 DEF Gentle

(* HandleTimeout.                                                          *)
LEMMA HandleTimeoutGentle ==
  ASSUME Ground, NEW c \in Clients, HandleTimeout(c)
  PROVE  Gentle
<1>. DEFINE kk == Disconnected(c)
            k == [kk EXCEPT !.timer = 0]
<1>1. /\ c \in net.up /\ net' = Departed(net, c) /\ accepted' = accepted
      /\ client' = [client EXCEPT ![c] = k]
  BY DEF HandleTimeout
<1>2. kk \in ClientVariables(Made)
  BY DisconnectedFields
<1>3. SameSession(kk, k)
  <2>. HIDE DEF kk
  <2>. QED
    BY <1>2 DEF ClientVariables, SameSession
<1>4. Before(net, c)
  BY DEF Before
<1>. HIDE DEF k
<1>. QED
  BY <1>1, <1>3, <1>4, ClientLeavesGentle

(* What ClientMembership does: the client hears that the server is there,  *)
(* or that somebody left, or nothing that concerns it.                     *)
ClientHears(c, connected) ==
  /\ net' = Received(c) /\ client' = [client EXCEPT ![c].connected = connected]
  /\ connected \in BOOLEAN
  /\ connected <=> client[c].connected \/ JoinOf(net.incoming[c][1], client[c].connection_group)
  /\ ~LeaveOf(net.incoming[c][1], client[c].connection_group)

ClientIsLeft(c) ==
  /\ net' = Departed(Received(c), c) /\ client' = [client EXCEPT ![c] = Disconnected(c)]
  /\ LeaveOf(net.incoming[c][1], client[c].connection_group)

(* These are the cases.                                                    *)
LEMMA ClientMembershipCases ==
  ASSUME Ground, NEW c \in Clients, ClientMembership(c)
  PROVE  /\ NextIs(c, {"MEMBERSHIP"}) /\ c \in net.up /\ node' = node /\ accepted' = accepted /\ budget' = budget
         /\ net.incoming[c] # <<>> /\ net.incoming[c][1].type = "MEMBERSHIP"
         /\ Received(c) \in NetworkOf(Made) /\ Taken(net, Received(c), c) /\ Before(Received(c), c)
         /\ ClientIsLeft(c) \/ \E connected : ClientHears(c, connected)
<1>1. /\ NextIs(c, {"MEMBERSHIP"}) /\ c \in net.up /\ node' = node /\ accepted' = accepted /\ budget' = budget
      /\ net.incoming[c] # <<>> /\ Before(Received(c), c)
  BY DEF ClientMembership, NextIs, Before
<1>2. /\ Received(c) \in NetworkOf(Made) /\ Taken(net, Received(c), c) /\ Next1(c) = net.incoming[c][1]
  BY <1>1, ReceivedEffect, NetTypes, Processes DEF Ground
<1>3. Next1(c).type = "MEMBERSHIP"
  BY <1>1 DEF NextIs, Next1
<1>. DEFINE m == Next1(c)
            g == client[c].connection_group
<1>4. /\ JoinOf(m, g) <=> m.group = g /\ TwoAreHere(m)
      /\ LeaveOf(m, g) <=> m.group = g /\ MemberHasLeft(m)
      /\ ~(TwoAreHere(m) /\ MemberHasLeft(m))
  BY <1>3 DEF JoinOf, LeaveOf, About, TwoAreHere, MemberHasLeft
<1>5. client[c].connected \in BOOLEAN /\ client = [client EXCEPT ![c].connected = client[c].connected]
  <2>1. client[c] \in ClientVariables(Made) /\ client \in [Clients -> ClientVariables(Made)]
    BY ClientTypes DEF Ground, TypeOK
  <2>2. [client[c] EXCEPT !.connected = client[c].connected] = client[c]
    BY <2>1 DEF ClientVariables
  <2>. QED
    BY <2>1, <2>2, ClientFields
<1>6. ASSUME m.group = g, TwoAreHere(m), client' = [client EXCEPT ![c].connected = TRUE], net' = Received(c)
      PROVE  ClientHears(c, TRUE)
  BY <1>2, <1>4, <1>6 DEF ClientHears
<1>7. ASSUME m.group = g, MemberHasLeft(m), client' = [client EXCEPT ![c] = Disconnected(c)],
             net' = Departed(Received(c), c)
      PROVE  ClientIsLeft(c)
  BY <1>2, <1>4, <1>7 DEF ClientIsLeft
<1>8. ASSUME ~(m.group = g /\ (TwoAreHere(m) \/ MemberHasLeft(m))), client' = client, net' = Received(c)
      PROVE  ClientHears(c, client[c].connected)
  BY <1>2, <1>4, <1>5, <1>8 DEF ClientHears
<1>9. ClientIsLeft(c) \/ \E connected : ClientHears(c, connected)
  BY <1>6, <1>7, <1>8 DEF ClientMembership
<1>. QED
  BY <1>1, <1>2, <1>3, <1>9

(* ClientMembership.                                                       *)
LEMMA ClientMembershipGentle ==
  ASSUME Ground, NEW c \in Clients, ClientMembership(c)
  PROVE  Gentle
<1>1. /\ c \in net.up /\ accepted' = accepted /\ net.incoming[c] # <<>>
      /\ net.incoming[c][1].type = "MEMBERSHIP"
      /\ Received(c) \in NetworkOf(Made) /\ Taken(net, Received(c), c) /\ Before(Received(c), c)
      /\ ClientIsLeft(c) \/ \E connected : ClientHears(c, connected)
  BY ClientMembershipCases
<1>2. CASE ClientIsLeft(c)
  <2>. DEFINE k == Disconnected(c)
              n == Received(c)
  <2>1. /\ SameSession(Disconnected(c), k)
        /\ client' = [client EXCEPT ![c] = k] /\ net' = Departed(n, c) /\ Before(n, c)
    BY <1>1, <1>2 DEF SameSession, ClientIsLeft
  <2>. HIDE DEF k, n
  <2>. QED
    BY <1>1, <2>1, ClientLeavesGentle
<1>3. ASSUME NEW connected, ClientHears(c, connected)
      PROVE  Gentle
  <2>1. net' = Received(c) /\ client' = [client EXCEPT ![c].connected = connected]
    BY <1>3 DEF ClientHears
  <2>2. SameGroups(net, net')
    BY <1>1, <2>1 DEF Taken
  <2>3. \A q \in Proc : \A x \in Coming(q)' : x \in Coming(q)
    <3>1. \A q \in Proc : Range(Received(c).incoming[q]) \subseteq Coming(q)
      BY <1>1, BeforeComing
    <3>. QED
      BY <2>1, <3>1 DEF Coming
  <2>4. \A g \in SessionId : /\ \A s \in Servers : s \in net'.members[g] => Holds(s, g)
                             /\ net'.members[g] # {} => InUse(g)
    BY <2>2 DEF SameGroups, Holds, InUse
  <2>5. ASSUME NEW d \in Clients \cap net'.up
        PROVE  KeepsCourse(d)
    <3>1. client \in [Clients -> ClientVariables(Made)] /\ client[d].draw \in Int /\ d \in net.up
      BY <2>2, ClientTypes DEF Ground, TypeOK, SameGroups
    <3>2. /\ client'[d].draw = client[d].draw /\ client'[d].connection_group = client[d].connection_group
          /\ client'[d].connected_server = client[d].connected_server
      BY <2>1, <3>1 DEF ClientVariables
    <3>3. client'[d].connected => client[d].connected \/ Met(d)
      <4>1. CASE d # c
        BY <2>1, <3>1, <4>1
      <4>2. CASE d = c
        <5>1. client'[c].connected = connected
          BY <2>1, <3>1, <4>2 DEF ClientVariables
        <5>2. net.incoming[c][1] \in Coming(c)
          <6>1. net.incoming[c] \in Seq(Receives(Made, c))
            BY NetTypes, Processes DEF Ground
          <6>. QED
            BY <1>1, <6>1 DEF Coming, Range
        <5>. QED
          BY <1>3, <4>2, <5>1, <5>2 DEF ClientHears, Met
      <4>. QED
        BY <4>1, <4>2
    <3>. QED
      BY <3>1, <3>2, <3>3 DEF KeepsCourse
  <2>. QED
    BY <1>1, <2>3, <2>4, <2>5 DEF Gentle
<1>. QED
  BY <1>1, <1>2, <1>3

(* A process that exits is missed only by those it shared a group with.    *)
LEMMA GoneGently ==
  ASSUME Ground, NEW p \in Proc, net' = Exit(net, p), NEW q \in Proc, NEW x \in Coming(q)'
  PROVE  x \in Coming(q) \/ Rumour(x)
<1>. DEFINE m == net'
<1>1. net \in NetworkOf(Made) /\ m \in NetworkOf(Made) /\ GoneFrom(net, m, p)
  <2>1. net \in NetworkOf(Made) /\ m = Exit(net, p)
    BY NetTypes DEF Ground
  <2>. HIDE DEF m
  <2>. QED
    BY <2>1, ExitEffect, Zenon
<1>2. x \in Range(m.incoming[q])
  BY DEF Coming
<1>. HIDE DEF m
<1>3. q # p
  BY <1>1, <1>2 DEF GoneFrom, Range
<1>. DEFINE gs == Missed(net, p, SessionId, q)
            new == Telling(m, q, gs, "leave")
<1>4. Grown(net.incoming[q], m.incoming[q], new)
  BY <1>1, <1>3 DEF GoneFrom
<1>5. gs \in SUBSET SessionId /\ \A h \in gs : p \in net.members[h]
  BY DEF Missed
<1>6. m.members \in [SessionId -> SUBSET Proc]
  BY <1>1, NetworkFields
<1>. HIDE DEF gs
<1>7. \A y \in new : y.type = "MEMBERSHIP" /\ y.cause = "leave" /\ y.group \in gs
  BY <1>5, <1>6, TellingFields
<1>8. \A y \in new : Rumour(y)
  BY <1>5, <1>7 DEF Rumour, InUse
<1>. HIDE DEF new
<1>9. net.incoming[q] \in Seq(Receives(Made, q)) /\ m.incoming[q] \in Seq(Receives(Made, q))
  BY <1>1, NetworkFields
<1>10. Range(m.incoming[q]) = Range(net.incoming[q]) \cup new
  BY <1>4, <1>9, GrownRange
<1>. QED
  BY <1>2, <1>8, <1>10 DEF Coming

(* Goodbye, Crash.                                                         *)
LEMMA ExitGentle ==
  ASSUME Ground, NEW p \in Proc, net' = Exit(net, p), accepted' = accepted,
         \A d \in Clients \ {p} : client'[d] = client[d]
  PROVE  Gentle
<1>1. GoneFrom(net, net', p)
  <2>1. net \in NetworkOf(Made)
    BY NetTypes DEF Ground
  <2>. QED
    BY <2>1, ExitEffect
<1>2. \A q \in Proc : \A x \in Coming(q)' : x \in Coming(q) \/ ~Notable(x) \/ Rumour(x)
  BY GoneGently
<1>3. \A g \in SessionId : /\ \A s \in Servers : s \in net'.members[g] => Holds(s, g)
                           /\ net'.members[g] # {} => InUse(g)
  BY <1>1 DEF GoneFrom, Holds, InUse
<1>4. ASSUME NEW d \in Clients \cap net'.up
      PROVE  KeepsCourse(d)
  <2>1. d \in net.up /\ d # p
    BY <1>1 DEF GoneFrom
  <2>2. client[d].draw \in Int
    BY ClientTypes DEF Ground
  <2>. QED
    BY <2>1, <2>2 DEF KeepsCourse
<1>. QED
  BY <1>2, <1>3, <1>4 DEF Gentle

(* Goodbye.                                                                *)
LEMMA GoodbyeGentle ==
  ASSUME Ground, NEW c \in Clients, Goodbye(c)
  PROVE  Gentle
<1>1. /\ net' = Exit(net, c) /\ accepted' = accepted /\ c \in Proc
      /\ client' = [client EXCEPT ![c] = Start]
  BY Processes DEF Goodbye
<1>2. \A d \in Clients \ {c} : client'[d] = client[d]
  BY <1>1 DEF Ground, TypeOK
<1>. QED
  BY <1>1, <1>2, ExitGentle

(* Crash.                                                                  *)
LEMMA CrashGentle ==
  ASSUME Ground, NEW s \in Servers, Crash(s)
  PROVE  Gentle
<1>1. net' = Exit(net, s) /\ accepted' = accepted /\ client' = client /\ s \in Proc
  BY Processes DEF Crash
<1>. QED
  BY <1>1, ExitGentle

(* Restart.                                                                *)
LEMMA RestartGentle ==
  ASSUME Ground, NEW s \in Servers, Restart(s)
  PROVE  Gentle
<1>1. /\ net' = [net EXCEPT !.up = net.up \cup {s}] /\ accepted' = accepted /\ client' = client
  BY DEF Restart
<1>2. net \in NetworkOf(Made)
  BY NetTypes DEF Ground
<1>3. net'.up = net.up \cup {s} /\ net'.members = net.members /\ net'.incoming = net.incoming
  BY <1>1, <1>2, NetworkFields
<1>4. ASSUME NEW d \in Clients \cap net'.up
      PROVE  KeepsCourse(d)
  <2>1. d \in net.up
    BY <1>3, Processes
  <2>2. client[d].draw \in Int
    BY ClientTypes DEF Ground
  <2>. QED
    BY <1>1, <2>1, <2>2 DEF KeepsCourse
<1>. QED
  BY <1>1, <1>3, <1>4 DEF Gentle, Coming, Holds, InUse

(* NetworkChange: members of a group hear of it.                           *)
LEMMA NetworkChangeGentle ==
  ASSUME Ground, NetworkChange
  PROVE  Gentle
<1>. DEFINE m == net'
<1>0. net \in NetworkOf(Made)
  BY NetTypes DEF Ground
<1>1. PICK side \in [Proc -> {0, 1}] :
        m = Rearranged(net, side) /\ client' = client /\ accepted' = accepted
  BY DEF NetworkChange
<1>2. m \in NetworkOf(Made) /\ MovedTo(net, m, side)
  <2>. HIDE DEF m
  <2>. QED
    BY <1>0, <1>1, RearrangedEffect, Zenon
<1>3. m.up = net.up /\ m.members = net.members
  BY <1>2 DEF MovedTo
<1>4. ASSUME NEW q \in Proc, NEW x \in Coming(q)'
      PROVE  x \in Coming(q) \/ Rumour(x)
  <2>1. x \in Range(m.incoming[q])
    BY <1>4 DEF Coming
  <2>. HIDE DEF m
  <2>. DEFINE gs == Regrouped(net, m, q)
              new == Telling(m, q, gs, "network")
  <2>2. Grown(net.incoming[q], m.incoming[q], new)
    BY <1>2 DEF MovedTo
  <2>3. gs \in SUBSET SessionId /\ \A h \in gs : q \in net.members[h]
    BY DEF Regrouped
  <2>4. m.members \in [SessionId -> SUBSET Proc]
    BY <1>2, NetworkFields
  <2>. HIDE DEF gs
  <2>5. \A y \in new : y.type = "MEMBERSHIP" /\ y.cause = "network" /\ y.group \in gs
    BY <2>3, <2>4, TellingFields
  <2>6. \A y \in new : Rumour(y)
    BY <2>3, <2>5 DEF Rumour, InUse
  <2>. HIDE DEF new
  <2>7. net.incoming[q] \in Seq(Receives(Made, q)) /\ m.incoming[q] \in Seq(Receives(Made, q))
    BY <1>0, <1>2, NetworkFields
  <2>8. Range(m.incoming[q]) = Range(net.incoming[q]) \cup new
    BY <2>2, <2>7, GrownRange
  <2>. QED
    BY <2>1, <2>6, <2>8 DEF Coming
<1>5. ASSUME NEW d \in Clients \cap net'.up
      PROVE  KeepsCourse(d)
  <2>1. d \in net.up /\ client[d].draw \in Int
    BY <1>3, ClientTypes DEF Ground
  <2>. QED
    BY <1>1, <2>1 DEF KeepsCourse
<1>. QED
  BY <1>1, <1>3, <1>4, <1>5 DEF Gentle, Holds, InUse

(* A step of a server that changes no client.                              *)
LEMMA ServerKeepsCourse ==
  ASSUME Ground, client' = client, net'.up = net.up, NEW d \in Clients \cap net'.up
  PROVE  KeepsCourse(d)
<1>1. client[d].draw \in Int
  BY ClientTypes DEF Ground
<1>. QED
  BY <1>1 DEF KeepsCourse

(* ServerMembership.                                                       *)
LEMMA ServerMembershipGentle ==
  ASSUME Ground, NEW s \in Servers, ServerMembership(s)
  PROVE  Gentle
<1>0. net \in NetworkOf(Made) /\ s \in Proc
  BY NetTypes, Processes DEF Ground
<1>1. CASE Ends(s, Next1(s))
  <2>. DEFINE r == Received(s)
              m == net'
  <2>1. PICK g \in SessionId :
          /\ r \in NetworkOf(Made) /\ Taken(net, r, s)
          /\ m \in NetworkOf(Made) /\ LeftBy(r, m, s, {g})
          /\ client' = client /\ accepted' = accepted
    BY <1>1, ServerEndsEffect
  <2>2. PICK gs \in SUBSET SessionId : LeftBy(r, m, s, gs)
    BY <2>1
  <2>3. SameGroups(net, r)
    BY <2>1 DEF Taken
  <2>4. m.up = net.up /\ \A h \in SessionId : m.members[h] \subseteq net.members[h]
    BY <2>2, <2>3 DEF LeftBy, SameGroups
  <2>5. ASSUME NEW q \in Proc, NEW x \in Coming(q)'
        PROVE  x \in Coming(q) \/ Rumour(x)
    <3>1. x \in Range(m.incoming[q])
      BY <2>5 DEF Coming
    <3>. HIDE DEF m, r
    <3>2. x \in Range(r.incoming[q]) \/ Rumour(x)
      BY <2>1, <2>2, <2>3, <3>1, LeftGently, Zenon
    <3>3. Range(r.incoming[q]) \subseteq Range(net.incoming[q])
      BY <1>0, <2>1, TakenComing, Zenon
    <3>. QED
      BY <3>2, <3>3 DEF Coming
  <2>6. \A g1 \in SessionId : /\ \A t \in Servers : t \in m.members[g1] => Holds(t, g1)
                              /\ m.members[g1] # {} => InUse(g1)
    <3>. HIDE DEF m
    <3>. QED
      BY <2>4 DEF Holds, InUse
  <2>7. \A d \in Clients \cap net'.up : KeepsCourse(d)
    BY <2>1, <2>4, ServerKeepsCourse
  <2>. QED
    BY <2>1, <2>5, <2>6, <2>7 DEF Gentle
<1>2. CASE ~Ends(s, Next1(s))
  <2>1. /\ net' \in NetworkOf(Made) /\ Taken(net, net', s) /\ client' = client /\ accepted' = accepted
    BY <1>2, ServerStaysEffect
  <2>2. SameGroups(net, net')
    BY <2>1 DEF Taken
  <2>3. \A q \in Proc : \A x \in Coming(q)' : x \in Coming(q)
    <3>1. \A q \in Proc : Range(net'.incoming[q]) \subseteq Range(net.incoming[q])
      BY <1>0, <2>1, TakenComing
    <3>. QED
      BY <3>1 DEF Coming
  <2>4. \A d \in Clients \cap net'.up : KeepsCourse(d)
    BY <2>1, <2>2, ServerKeepsCourse DEF SameGroups
  <2>. QED
    BY <2>1, <2>2, <2>3, <2>4 DEF Gentle, SameGroups, Holds, InUse
<1>. QED
  BY <1>1, <1>2

(* ServerConnect: the server that joins is the one the client asked.       *)
LEMMA ServerConnectGentle ==
  ASSUME Ground, OrderlyInv, NEW s \in Servers, ServerConnect(s)
  PROVE  Gentle
<1>. DEFINE r == Received(s)
            m == net'
<1>0. net \in NetworkOf(Made) /\ s \in Proc
  BY NetTypes, Processes DEF Ground
<1>1. PICK g \in SessionId :
        /\ NextIs(s, {"CONNECT"}) /\ net.incoming[s][1] = Connect(g)
        /\ r \in NetworkOf(Made) /\ Taken(net, r, s)
        /\ m \in NetworkOf(Made) /\ JoinedBy(r, m, s, g)
        /\ accepted' = accepted \cup {<<s, g>>} /\ client' = client
  BY ServerConnectEffect
<1>2. SameGroups(net, r)
  BY <1>1 DEF Taken
<1>3. /\ m.up = net.up
      /\ \A h \in SessionId : m.members[h] = IF h = g THEN net.members[h] \cup {s} ELSE net.members[h]
  BY <1>1, <1>2 DEF JoinedBy, SameGroups
<1>4. Holds(s, g)
  <2>1. net.incoming[s] \in Seq(Receives(Made, s)) /\ net.incoming[s] # <<>>
    BY <1>0, <1>1, NetworkFields DEF NextIs
  <2>2. net.incoming[s][1] \in Range(net.incoming[s])
    BY <2>1 DEF Range
  <2>. QED
    BY <1>1, <2>2 DEF Holds, Coming
<1>5. \A c \in Clients \cap net.up : g = client[c].connection_group => s = client[c].connected_server
  BY <1>4, SessionNames DEF OrderlyInv, RightServer
<1>6. ASSUME NEW q \in Proc, NEW x \in Coming(q)'
      PROVE  x \in Coming(q) \/ Rumour(x)
  <2>1. x \in Range(m.incoming[q])
    BY <1>6 DEF Coming
  <2>. HIDE DEF m, r
  <2>2. PICK new : Grown(r.incoming[q], m.incoming[q], new)
                   /\ \A y \in new : y.type = "MEMBERSHIP" /\ y.group = g
    BY <1>1, JoinedGrown
  <2>3. \A y \in new : Rumour(y)
    BY <1>1, <1>4, <1>5, <2>2 DEF Rumour, InUse
  <2>4. r.incoming[q] \in Seq(Receives(Made, q)) /\ m.incoming[q] \in Seq(Receives(Made, q))
    BY <1>1, NetworkFields
  <2>5. Range(m.incoming[q]) = Range(r.incoming[q]) \cup new
    BY <2>2, <2>4, GrownRange
  <2>6. Range(r.incoming[q]) \subseteq Range(net.incoming[q])
    BY <1>0, <1>1, TakenComing, Zenon
  <2>. QED
    BY <2>1, <2>3, <2>5, <2>6 DEF Coming
<1>7. ASSUME NEW h \in SessionId
      PROVE  /\ \A t \in Servers : t \in m.members[h] => Holds(t, h)
             /\ m.members[h] # {} => InUse(h)
  <2>. HIDE DEF m
  <2>1. CASE h = g
    <3>1. \A t \in Servers : t \in m.members[h] => Holds(t, h)
      BY <1>3, <1>4, <2>1 DEF Holds
    <3>. QED
      BY <1>4, <2>1, <3>1 DEF InUse
  <2>2. CASE h # g
    BY <1>3, <2>2 DEF Holds, InUse
  <2>. QED
    BY <2>1, <2>2
<1>8. \A d \in Clients \cap net'.up : KeepsCourse(d)
  BY <1>1, <1>3, ServerKeepsCourse
<1>. QED
  BY <1>1, <1>6, <1>7, <1>8 DEF Gentle

(* The groups of clients with different seeds are different.               *)
LEMMA GroupsDiffer ==
  ASSUME SessionsDrawn, SeedsDiffer, NEW c \in Clients, NEW d \in Clients, c # d
  PROVE  /\ \A i : client[d].connection_group # <<Seed[c], i>>
         /\ \A i, h : <<Seed[c], i>> # <<Seed[d], h>>
<1>1. Seed[c] # Seed[d]
  BY DEF SeedsDiffer
<1>2. client[d].connection_group \in {None} \cup {<<Seed[d], h>> : h \in 1 .. client[d].draw}
  BY DEF SessionsDrawn
<1>3. \A i : <<Seed[c], i>> # None
  BY DEF None
<1>. QED
  BY <1>1, <1>2, <1>3

(* A group nobody has heard of, but for the client that opens it.          *)
Unheard(c, g) ==
  /\ \A t \in Servers : ~Holds(t, g)
  /\ net.members[g] \subseteq {c}
  /\ \A x \in Coming(c) : ~About(x, g)

(* ConnectToServer opens such a group: a new one, or the one in which the  *)
(* server it asked before has died.                                        *)
LEMMA OpensUnheard ==
  ASSUME Ground, Orderly, OrderlyInv, NEW c \in Clients, NEW s \in Servers, NEW k, NEW g \in SessionId,
         NEW n, NEW j, Opens(c, s, k, g, n, j)
  PROVE  /\ Unheard(c, g)
         /\ g # client[c].connection_group
              \/ (~client[c].connected /\ client[c].connected_server \notin net.up /\ net.incoming[c] = <<>>)
         /\ \A i \in k.draw .. MaxConnects + 1 : <<Seed[c], i>> # g =>
              i \in client[c].draw .. MaxConnects + 1 /\ <<Seed[c], i>> # client[c].connection_group
<1>0. /\ TypeOK /\ SessionsDrawn /\ MembersAgree /\ net \in NetworkOf(Made)
      /\ client[c].draw \in 1 .. MaxConnects + 1 /\ MaxConnects \in Nat
  BY NetTypes, Bounds, ClientTypes DEF Ground
<1>1. /\ c \in net.up /\ MayType(c) /\ g = <<Seed[c], k.draw>>
      /\ k.draw = client[c].draw + (IF client[c].connected /\ InSession(c) THEN 1 ELSE 0)
      /\ client'[c].draw = k.draw /\ client'[c] \in ClientVariables(Made)
  BY DEF Opens, SessionIdOf
<1>2. k.draw \in 1 .. MaxConnects + 1 /\ k.draw \in client[c].draw .. MaxConnects + 1
  <2>1. k.draw \in 1 .. MaxConnects + 1
    BY <1>1 DEF ClientVariables
  <2>2. k.draw >= client[c].draw
    BY <1>0, <1>1
  <2>. QED
    BY <1>0, <2>1, <2>2
<1>3. client[c].connection_group \in {None} \cup {<<Seed[c], i>> : i \in 1 .. client[c].draw}
  BY <1>0 DEF SessionsDrawn
<1>4. CASE client[c].connected \/ ~InSession(c)
  <2>1. g # client[c].connection_group
    <3>1. CASE client[c].connected /\ InSession(c)
      <4>1. k.draw = client[c].draw + 1
        BY <1>1, <3>1
      <4>2. client[c].connection_group = <<Seed[c], client[c].draw>>
        BY <3>1 DEF InSession, SessionIdOf
      <4>. QED
        BY <1>0, <1>1, <4>1, <4>2
    <3>2. CASE ~InSession(c)
      <4>1. k.draw = client[c].draw
        BY <1>0, <1>1, <3>2
      <4>. QED
        BY <1>1, <3>2, <4>1 DEF InSession, SessionIdOf
    <3>. QED
      BY <1>4, <3>1, <3>2
  <2>2. Unheard(c, g)
    BY <1>1, <1>2, <2>1 DEF OrderlyInv, FreshSessions, Unheard
  <2>3. ASSUME NEW i \in k.draw .. MaxConnects + 1, <<Seed[c], i>> # g
        PROVE  i \in client[c].draw .. MaxConnects + 1 /\ <<Seed[c], i>> # client[c].connection_group
    <3>1. i > k.draw
      BY <1>1, <1>2, <2>3
    <3>2. i > client[c].draw
      BY <1>0, <1>2, <3>1
    <3>3. \A h \in 1 .. client[c].draw : i # h
      BY <1>0, <3>2
    <3>4. <<Seed[c], i>> # None
      BY DEF None
    <3>5. <<Seed[c], i>> # client[c].connection_group
      BY <1>3, <3>3, <3>4
    <3>. QED
      BY <1>0, <1>2, <2>3, <3>2, <3>5
  <2>. QED
    BY <2>1, <2>2, <2>3
<1>5. CASE ~client[c].connected /\ InSession(c)
  <2>1. k.draw = client[c].draw /\ g = client[c].connection_group
    <3>1. k.draw = client[c].draw
      BY <1>0, <1>1, <1>5
    <3>. QED
      BY <1>1, <1>5, <3>1 DEF InSession, SessionIdOf
  <2>2. client[c].connected_server \notin net.up /\ net.incoming[c] = <<>>
    BY <1>1, <1>5 DEF MayType, Orderly, Connecting
  <2>3. \A t \in Servers : ~Holds(t, g)
    <3>. SUFFICES ASSUME NEW t \in Servers, Holds(t, g)
                  PROVE  FALSE
      OBVIOUS
    <3>1. g # None /\ t = client[c].connected_server
      BY <1>1, <2>1, SessionNames DEF OrderlyInv, RightServer
    <3>2. t \notin net.up
      BY <2>2, <3>1
    <3>3. net.incoming[t] = <<>> /\ node[t] = Fresh
      BY <1>0, <3>2 DEF MembersAgree
    <3>4. node[t].client_connections = {}
      BY <3>3 DEF Fresh
    <3>5. t \notin net.members[g]
      BY <1>0, <3>4 DEF MembersAgree
    <3>6. Coming(t) = {}
      BY <3>3 DEF Coming, Range
    <3>. QED
      BY <3>5, <3>6 DEF Holds
  <2>4. net.members[g] \subseteq {c}
    <3>. SUFFICES ASSUME NEW q \in net.members[g], q # c
                  PROVE  FALSE
      OBVIOUS
    <3>1. q \in Proc
      <4>1. net.members \in [SessionId -> SUBSET Proc]
        BY <1>0, NetworkFields
      <4>. QED
        BY <4>1
    <3>2. q \notin Servers
      BY <2>3 DEF Holds
    <3>3. q \in Clients
      BY <3>1, <3>2, Processes
    <3>4. client[q].connection_group = g
      BY <1>0, <3>3 DEF MembersAgree
    <3>. QED
      BY <1>0, <1>1, <3>3, <3>4, GroupsDiffer DEF Orderly
  <2>5. Coming(c) = {}
    BY <2>2 DEF Coming, Range
  <2>6. Unheard(c, g)
    BY <2>3, <2>4, <2>5 DEF Unheard
  <2>. QED
    BY <1>1, <1>5, <2>1, <2>2, <2>6
<1>. QED
  BY <1>4, <1>5

(* What a client that opens a session finds in its queue besides what was  *)
(* there: that it has joined, alone.                                       *)
LEMMA OpensAlone ==
  ASSUME Ground, NEW c \in Clients, NEW s \in Servers, NEW k, NEW g \in SessionId, NEW n, NEW j,
         Opens(c, s, k, g, n, j), Unheard(c, g), NEW q \in Proc
  PROVE  /\ \A x \in Coming(q)' :
              \/ x \in Coming(q)
              \/ x.type = "MEMBERSHIP" /\ x.cause = "leave" /\ q # c
                 /\ client[c].connected /\ x.group = client[c].connection_group
              \/ x.type = "MEMBERSHIP" /\ x.cause = "join" /\ x.group = g /\ x.n_connected = 1 /\ q = c
              \/ x = Connect(g) /\ q = s
         /\ Coming(q) \subseteq Coming(q)'
<1>1. OpensHeard(c, s, g, n, j, q)
  BY OpensGrown
<1>2. PICK left, joined, sent :
        /\ Grown(net.incoming[q], net'.incoming[q], left \cup joined \cup sent)
        /\ \A x \in left : x.type = "MEMBERSHIP" /\ x.cause = "leave"
                           /\ x.group = client[c].connection_group /\ client[c].connected /\ q # c
        /\ \A x \in joined : x.type = "MEMBERSHIP" /\ x.cause = "join"
                             /\ x.group = g /\ Greeted(n, c, g, q) /\ x = Told(j, q, g, "join")
        /\ sent = IF q \in Within(j, c, {s}) THEN {Connect(g)} ELSE {}
  BY <1>1 DEF OpensHeard
<1>3. /\ net \in NetworkOf(Made) /\ net' \in NetworkOf(Made)
      /\ n \in NetworkOf(Made) /\ LeftBy(net, n, c, IF client[c].connected THEN GroupOf(c) ELSE {})
      /\ j \in NetworkOf(Made) /\ JoinedBy(n, j, c, g) /\ c \in net.up
  BY NetTypes DEF Opens, Ground
<1>4. net.incoming[q] \in Seq(Receives(Made, q)) /\ net'.incoming[q] \in Seq(Receives(Made, q))
  BY <1>3, NetworkFields
<1>5. Range(net'.incoming[q]) = Range(net.incoming[q]) \cup (left \cup joined \cup sent)
  <2>. DEFINE new == left \cup joined \cup sent
  <2>. HIDE DEF new
  <2>1. Grown(net.incoming[q], net'.incoming[q], new)
    BY <1>2 DEF new
  <2>2. Range(net'.incoming[q]) = Range(net.incoming[q]) \cup new
    BY <1>4, <2>1, GrownRange
  <2>. QED
    BY <2>2 DEF new
<1>6. n.members[g] \subseteq {c} /\ j.members[g] = {c}
  BY <1>3 DEF LeftBy, JoinedBy, Unheard
<1>7. ASSUME NEW x \in joined
      PROVE  x.n_connected = 1 /\ q = c
  <2>1. q = c
    BY <1>2, <1>6, <1>7 DEF Greeted
  <2>2. Present(j, q, g) = {c}
    BY <1>6, <2>1 DEF Present
  <2>3. Cardinality(Present(j, q, g)) = 1
    BY <2>2, FS_Singleton
  <2>4. x = Told(j, q, g, "join")
    BY <1>2, <1>7
  <2>. QED
    BY <2>1, <2>3, <2>4 DEF Told
<1>8. \A x \in Coming(q)' :
              \/ x \in Coming(q)
              \/ x.type = "MEMBERSHIP" /\ x.cause = "leave" /\ q # c
                 /\ client[c].connected /\ x.group = client[c].connection_group
              \/ x.type = "MEMBERSHIP" /\ x.cause = "join" /\ x.group = g /\ x.n_connected = 1 /\ q = c
              \/ x = Connect(g) /\ q = s
  BY <1>2, <1>5, <1>7 DEF Coming, Within
<1>. QED
  BY <1>5, <1>8 DEF Coming

(* ConnectToServer keeps the second part, too.                             *)
LEMMA ConnectToServerOrderly ==
  ASSUME Ground, Orderly, OrderlyInv, NEW c \in Clients, NEW s \in Servers, ConnectToServer(c, s)
  PROVE  OrderlyInv'
<1>0. /\ TypeOK /\ SessionsDrawn /\ SeedsDiffer /\ MaxConnects \in Nat /\ c \in Proc /\ s \in Proc /\ s # c
  BY Bounds, Processes DEF Ground, Orderly
<1>1. PICK k, g, n, j : g \in SessionId /\ Opens(c, s, k, g, n, j)
  BY ConnectEffect
<1>2. /\ c \in net.up /\ g = <<Seed[c], k.draw>> /\ \A d \in Clients \ {c} : client'[d] = client[d]
      /\ client'[c].connected = FALSE /\ client'[c].draw = k.draw
      /\ client'[c].connection_group = g /\ client'[c].connected_server = s
      /\ accepted' = accepted /\ client' \in [Clients -> ClientVariables(Made)]
  BY <1>1 DEF Opens, SessionIdOf
<1>3. /\ net'.up = net.up
      /\ \A h \in SessionId : c \in net'.members[h] <=> h = g
      /\ \A h \in SessionId : \A q : q # c => (q \in net'.members[h] <=> q \in net.members[h])
  BY <1>1, OpensGroups
<1>4. /\ Unheard(c, g)
      /\ \A i \in k.draw .. MaxConnects + 1 : <<Seed[c], i>> # g =>
           i \in client[c].draw .. MaxConnects + 1 /\ <<Seed[c], i>> # client[c].connection_group
  BY <1>1, OpensUnheard
<1>5. \A q \in Proc : \A x \in Coming(q)' :
        \/ x \in Coming(q)
        \/ x.type = "MEMBERSHIP" /\ x.cause = "leave" /\ q # c
           /\ client[c].connected /\ x.group = client[c].connection_group
        \/ x.type = "MEMBERSHIP" /\ x.cause = "join" /\ x.group = g /\ x.n_connected = 1 /\ q = c
        \/ x = Connect(g) /\ q = s
  BY <1>1, <1>4, OpensAlone
<1>6. ASSUME NEW t \in Servers, NEW h \in SessionId, Holds(t, h)'
      PROVE  Holds(t, h) \/ (t = s /\ h = g)
  <2>1. CASE t \in net'.members[h]
    BY <1>3, <2>1, Processes DEF Holds
  <2>2. CASE Connect(h) \in Coming(t)'
    <3>1. Connect(h).type # "MEMBERSHIP" /\ (Connect(h) = Connect(g) => h = g)
      BY DEF Connect
    <3>. QED
      BY <1>5, <2>2, <3>1, Processes DEF Holds
  <2>. QED
    BY <1>6, <2>1, <2>2 DEF Holds
<1>7. \A t \in Servers : Holds(t, g)' => t = s
  BY <1>1, <1>4, <1>6 DEF Unheard
<1>8. OneHolder'
  <2>. SUFFICES ASSUME NEW t \in Servers, NEW u \in Servers, NEW h \in SessionId,
                       Holds(t, h)', Holds(u, h)'
                PROVE  t = u
    BY DEF OneHolder, Holds, Coming
  <2>1. CASE h = g
    BY <1>7, <2>1
  <2>2. CASE h # g
    BY <1>6, <2>2 DEF OneHolder, OrderlyInv
  <2>. QED
    BY <2>1, <2>2
<1>9. FreshSessions'
  <2>. SUFFICES ASSUME NEW d \in Clients \cap net'.up, NEW i \in client'[d].draw .. MaxConnects + 1,
                       NEW h, h = <<Seed[d], i>>, h # client'[d].connection_group
                PROVE  /\ net'.members[h] = {}
                       /\ \A t \in Servers : ~Holds(t, h)'
                       /\ \A x \in Coming(d)' : ~About(x, h)
    BY DEF FreshSessions, Holds, About, Coming
  <2>1. /\ d \in net.up /\ h # g /\ i \in client[d].draw .. MaxConnects + 1
        /\ h # client[d].connection_group
    <3>1. CASE d = c
      BY <1>2, <1>3, <1>4, <3>1
    <3>2. CASE d # c
      BY <1>0, <1>2, <1>3, <3>2, GroupsDiffer
    <3>. QED
      BY <3>1, <3>2
  <2>2. /\ net.members[h] = {} /\ \A t \in Servers : ~Holds(t, h)
        /\ \A x \in Coming(d) : ~About(x, h)
    BY <2>1 DEF FreshSessions, OrderlyInv
  <2>3. h \in SessionId
    <3>1. client[d].draw \in 1 .. MaxConnects + 1
      BY <1>0, ClientTypes
    <3>2. i \in 1 .. MaxConnects + 1
      BY <1>0, <2>1, <3>1
    <3>. QED
      BY <3>2, SessionNames
  <2>4. net'.members[h] = {}
    BY <1>3, <2>1, <2>2, <2>3
  <2>5. \A t \in Servers : ~Holds(t, h)'
    BY <1>6, <2>1, <2>2, <2>3
  <2>6. ASSUME NEW x \in Coming(d)', About(x, h)
        PROVE  FALSE
    <3>1. x.type = "MEMBERSHIP" /\ x.group = h /\ x \notin Coming(d)
      BY <2>2, <2>6 DEF About
    <3>2. x # Connect(g)
      BY <3>1 DEF Connect
    <3>3. d # c /\ h = client[c].connection_group
      BY <1>5, <2>1, <3>1, <3>2, Processes
    <3>. QED
      BY <1>0, <3>3, GroupsDiffer
  <2>. QED
    BY <2>4, <2>5, <2>6
<1>10. RightServer'
  <2>. SUFFICES ASSUME NEW d \in Clients \cap net'.up, NEW h, h = client'[d].connection_group
                PROVE  /\ \A t \in Servers : h # None /\ Holds(t, h)' => t = client'[d].connected_server
                       /\ client'[d].connected \/ Met(d)' => <<client'[d].connected_server, h>> \in accepted'
    BY DEF RightServer, Holds, Coming
  <2>1. CASE d = c
    <3>1. h = g /\ ~client'[d].connected
      BY <1>2, <2>1
    <3>2. ASSUME Met(c)'
          PROVE  FALSE
      <4>1. PICK x \in Coming(c)' : JoinOf(x, g)
        BY <1>2, <3>2 DEF Met, JoinOf, About, TwoAreHere
      <4>2. x.type = "MEMBERSHIP" /\ x.group = g /\ x.cause = "join" /\ x.n_connected = 2
        BY <4>1 DEF JoinOf, About, TwoAreHere
      <4>3. x \notin Coming(c)
        BY <1>4, <4>2 DEF Unheard, About
      <4>4. x # Connect(g)
        BY <4>2 DEF Connect
      <4>. QED
        BY <1>0, <1>5, <4>2, <4>3, <4>4
    <3>. QED
      BY <1>2, <1>7, <2>1, <3>1, <3>2
  <2>2. CASE d # c
    <3>1. d \in net.up /\ client'[d] = client[d] /\ h = client[d].connection_group /\ h # g
      BY <1>0, <1>2, <1>3, <2>2, GroupsDiffer
    <3>2. /\ \A t \in Servers : h # None /\ Holds(t, h) => t = client[d].connected_server
          /\ client[d].connected \/ Met(d) => <<client[d].connected_server, h>> \in accepted
      BY <3>1 DEF RightServer, OrderlyInv
    <3>3. h # None => h \in SessionId
      BY <1>0, <3>1, ClientTypes
    <3>4. Met(d)' => Met(d)
      <4>. SUFFICES ASSUME Met(d)'
                    PROVE  Met(d)
        OBVIOUS
      <4>1. PICK x \in Coming(d)' : JoinOf(x, h)
        BY <3>1 DEF Met, JoinOf, About, TwoAreHere
      <4>2. x.type = "MEMBERSHIP" /\ x.group = h /\ x.cause = "join"
        BY <4>1 DEF JoinOf, About, TwoAreHere
      <4>3. x # Connect(g)
        BY <4>2 DEF Connect
      <4>4. x \in Coming(d)
        BY <1>5, <2>2, <4>2, <4>3, Processes
      <4>. QED
        BY <3>1, <4>1, <4>4 DEF Met
    <3>. QED
      BY <1>2, <1>6, <3>1, <3>2, <3>3, <3>4
  <2>. QED
    BY <2>1, <2>2
<1>. QED
  BY <1>8, <1>9, <1>10 DEF OrderlyInv

(* The second part is kept by every step.                                  *)
LEMMA OrderlyKept ==
  ASSUME Ground, Orderly, OrderlyInv, [Next]_vars
  PROVE  OrderlyInv'
<1>1. TypeOK /\ TypeOK'
  BY GroundStep DEF Ground
<1>2. CASE Aside
  <2>1. QuietStep
    BY <1>2, AsideHarmless DEF Harmless
  <2>. QED
    BY <1>1, <2>1, AsideGentle, OrderlyStep
<1>3. ASSUME NEW c \in Clients, NEW s \in Servers, ConnectToServer(c, s)
      PROVE  OrderlyInv'
  BY <1>3, ConnectToServerOrderly
<1>4. ASSUME \/ \E c \in Clients : Goodbye(c) \/ ClientMembership(c) \/ HandleTimeout(c)
             \/ \E s \in Servers : ServerConnect(s) \/ ServerMembership(s) \/ Crash(s) \/ Restart(s)
             \/ NetworkChange
      PROVE  OrderlyInv'
  <2>1. Gentle
    BY <1>4, GoodbyeGentle, ClientMembershipGentle, HandleTimeoutGentle, ServerConnectGentle,
       ServerMembershipGentle, CrashGentle, RestartGentle, NetworkChangeGentle, Zenon
  <2>. QED
    BY <1>1, <2>1, OrderlyStep
<1>5. CASE UNCHANGED vars
  BY <1>5 DEF vars, OrderlyInv, OneHolder, FreshSessions, RightServer, Holds, Coming, About, Met, JoinOf,
              TwoAreHere
<1>. QED
  BY <1>2, <1>3, <1>4, <1>5, StepKinds DEF Telltale

(* And it is there from the start.                                         *)
LEMMA OrderlyInit ==
  ASSUME Init
  PROVE  OrderlyInv
<1>1. /\ \A p \in Proc : net.incoming[p] = <<>>
      /\ \A g \in SessionId : net.members[g] = {}
      /\ \A c \in Clients : client[c] = Start
  BY DEF Init, Quiescent
<1>2. Start.connection_group = None /\ ~Start.connected /\ Start.draw = 1
  BY DEF Start
<1>3. \A p \in Proc : Coming(p) = {}
  BY <1>1 DEF Coming, Range
<1>4. \A s \in Servers, g \in SessionId : ~Holds(s, g)
  BY <1>1, <1>3, Processes DEF Holds
<1>5. \A c \in Clients : ~Met(c) /\ client[c].connection_group = None /\ ~client[c].connected
  BY <1>1, <1>2, <1>3, Processes DEF Met
<1>6. RightServer
  BY <1>5 DEF RightServer
<1>7. FreshSessions
  <2>. SUFFICES ASSUME NEW c \in Clients \cap net.up, NEW k \in client[c].draw .. MaxConnects + 1,
                       NEW g, g = <<Seed[c], k>>
                PROVE  /\ net.members[g] = {}
                       /\ \A s \in Servers : ~Holds(s, g)
                       /\ \A m \in Coming(c) : ~About(m, g)
    BY DEF FreshSessions
  <2>1. g \in SessionId
    BY <1>1, <1>2, SessionNames
  <2>. QED
    BY <1>1, <1>3, <1>4, <2>1, Processes
<1>. QED
  BY <1>4, <1>6, <1>7 DEF OrderlyInv, OneHolder

(* The first two parts together.                                           *)
LEMMA OrderlyInvariant == Spec => [](Ground /\ (Orderly => OrderlyInv))
<1>. DEFINE I == Ground /\ (Orderly => OrderlyInv)
<1>1. Init => I
  BY GroundInit, OrderlyInit
<1>2. I /\ [Next]_vars => I'
  <2>. SUFFICES ASSUME I, [Next]_vars
                PROVE  I'
    OBVIOUS
  <2>1. Orderly' = Orderly
    BY DEF Orderly, SeedsDiffer
  <2>. QED
    BY <2>1, GroundStep, OrderlyKept
<1>. QED
  BY <1>1, <1>2, PTL DEF Spec

(* QuietRelease: no session is kept for a client that is gone, nor by two  *)
(* servers, when nothing is under way, if the network changes once at most *)
(* or the users wait for the connection they asked for.                    *)
THEOREM SessionsAreGivenUp ==
  ASSUME MaxNetChanges <= 1 \/ Orderly
  PROVE  Spec => []QuietRelease
<1>1. Ground /\ (Orderly => OrderlyInv) => QuietRelease
  <2>. SUFFICES ASSUME Ground, Orderly => OrderlyInv
                PROVE  QuietRelease
    OBVIOUS
  <2>1. \A s, t \in Servers, g \in SessionId : Parting(net, s, t, g)
    <3>1. CASE MaxNetChanges <= 1
      BY <3>1 DEF Ground, ServersPart
    <3>2. CASE Orderly
      BY <3>2 DEF OrderlyInv, OneHolder, Holds, Parting
    <3>. QED
      BY <3>1, <3>2
  <2>. QED
    BY <2>1, ReleasedWhenQuiet
<1>. QED
  BY <1>1, OrderlyInvariant, PTL

(* ConnectedMeansAccepted: when the client reports that it is connected,   *)
(* the server it names has handled its CONNECT, if clients started in      *)
(* different seconds and users wait for the connection they asked for.     *)
THEOREM ConnectionsWereAccepted ==
  ASSUME SeedsDiffer, "connection" \notin Hasty
  PROVE  Spec => []ConnectedMeansAccepted
<1>1. Ground /\ (Orderly => OrderlyInv) => ConnectedMeansAccepted
  <2>. SUFFICES ASSUME Ground, OrderlyInv, NEW c \in Clients, client[c].connected
                PROVE  <<client[c].connected_server, client[c].connection_group>> \in accepted
    BY DEF ConnectedMeansAccepted, Orderly
  <2>1. c \in net.up
    BY DEF Ground, MembersAgree, Start
  <2>. QED
    BY <2>1 DEF OrderlyInv, RightServer
<1>. QED
  BY <1>1, OrderlyInvariant, PTL

-----------------------------------------------------------------------------
(* The third part: users who wait for everything, while the network is     *)
(* whole.                                                                  *)
Handshake(c) ==
  LET g == client[c].connection_group IN
  AskedOnce(c, g) /\ ToldInOrder(c, g) /\ StaysOrTells(c, g)

(* Nobody is asked to join g.                                              *)
Unasked(g) == \A s \in Servers : Connect(g) \notin Coming(s)

(* A client that asked nobody, was told nothing and is not connected.      *)
LEMMA HandshakeNone ==
  ASSUME NEW c, NEW g, client'[c].connection_group = g,
         Unasked(g)', \A x \in Coming(c)' : ~JoinOf(x, g), ~client'[c].connected
  PROVE  Handshake(c)'
<1>1. ~Met(c)'
  BY DEF Met, JoinOf, About, TwoAreHere
<1>2. AskedOnce(c, g)'
  BY DEF AskedOnce, Unasked
<1>3. \A i \in DOMAIN net'.incoming[c] : net'.incoming[c][i] \in Coming(c)'
  BY DEF Coming, Range
<1>4. ToldInOrder(c, g)'
  BY <1>1, <1>3 DEF ToldInOrder, JoinOf, About, TwoAreHere
<1>5. StaysOrTells(c, g)'
  BY <1>1 DEF StaysOrTells
<1>. QED
  BY <1>2, <1>4, <1>5 DEF Handshake

(* The client keeps its session.                                           *)
KeepsSession(c) ==
  /\ client'[c].connection_group = client[c].connection_group
  /\ client'[c].connected_server = client[c].connected_server
  /\ client'[c].connected = client[c].connected
  /\ InSession(c)' <=> InSession(c)

(* The CONNECTs for g keep their places.                                   *)
AsksKept(g) ==
  \A s \in Servers : \E e \in {0, 1} : \A i \in DOMAIN net'.incoming[s] :
    net'.incoming[s][i] = Connect(g) =>
      i + e \in DOMAIN net.incoming[s] /\ net.incoming[s][i + e] = Connect(g)

(* What a client is told that keeps its session: at most that the server   *)
(* left.                                                                   *)
ToldOn(c, g, d, new) ==
  /\ Moved(net.incoming[c], net'.incoming[c], d, new)
  /\ d = 1 => ~JoinOf(net.incoming[c][1], g) /\ ~LeaveOf(net.incoming[c][1], g)
  /\ \A x \in new : ~JoinOf(x, g) /\ (LeaveOf(x, g) => Unasked(g))

(* A step that leaves a session as it is, or that the server leaves.       *)
LEMMA HandshakeKept ==
  ASSUME TypeOK, TypeOK', NEW c \in Clients, Handshake(c), KeepsSession(c),
         NEW g, g = client[c].connection_group,
         Opening(c) => Opening(c)' \/ (Unasked(g) /\ ~Met(c)),
         NEW d, NEW new, ToldOn(c, g, d, new), AsksKept(g),
         net'.members[g] \cap Servers \subseteq net.members[g],
         InSession(c) /\ client[c].connected_server \in net.members[g] =>
           client[c].connected_server \in net'.members[g] \/ \E x \in new : LeaveOf(x, g)
  PROVE  Handshake(c)'
<1>. DEFINE old == net.incoming[c]
            now == net'.incoming[c]
<1>1. /\ AskedOnce(c, g) /\ ToldInOrder(c, g) /\ StaysOrTells(c, g)
      /\ client'[c].connection_group = g /\ client'[c].connected_server = client[c].connected_server
      /\ client'[c].connected = client[c].connected /\ (InSession(c)' <=> InSession(c))
  BY DEF Handshake, KeepsSession
<1>2. old \in Seq(Receives(Made, c)) /\ now \in Seq(Receives(Made', c))
  BY NetTypes, NetTypesNext, Processes
<1>3. /\ Moved(old, now, d, new) /\ d \in {0, 1} /\ d <= Len(old) /\ Len(old) <= Len(now) + d
      /\ \A i \in 1 .. Len(old) - d : now[i] = old[i + d]
      /\ \A i \in Len(old) - d + 1 .. Len(now) : now[i] \in new
      /\ new \subseteq Range(now)
  BY DEF ToldOn, Moved
<1>4. /\ d = 1 => ~JoinOf(old[1], g) /\ ~LeaveOf(old[1], g)
      /\ \A x \in new : ~JoinOf(x, g) /\ (LeaveOf(x, g) => Unasked(g))
  BY DEF ToldOn
<1>5. /\ Coming(c)' = Range(now) /\ Coming(c) = Range(old)
      /\ DOMAIN now = 1 .. Len(now) /\ DOMAIN old = 1 .. Len(old)
      /\ Len(now) \in Nat /\ Len(old) \in Nat
  BY <1>2 DEF Coming
<1>6. /\ Met(c)' <=> \E x \in Range(now) : JoinOf(x, g)
      /\ Met(c) <=> \E x \in Range(old) : JoinOf(x, g)
      /\ Deserted(c)' <=> \E x \in Range(now) : LeaveOf(x, g)
      /\ Deserted(c) <=> \E x \in Range(old) : LeaveOf(x, g)
  BY <1>1, <1>5 DEF Met, Deserted, JoinOf, LeaveOf, About, TwoAreHere, MemberHasLeft
<1>. HIDE DEF old, now
<1>7. /\ Range(now) \subseteq Range(old) \cup new
      /\ Range(old) \subseteq Range(now) \cup (IF d = 1 THEN {old[1]} ELSE {})
  BY <1>2, <1>3, MovedRange
<1>8. /\ Met(c)' => Met(c)
      /\ Deserted(c)' => Deserted(c) \/ Unasked(g)
      /\ Deserted(c) => Deserted(c)'
  BY <1>4, <1>6, <1>7
<1>9. AskedOnce(c, g)'
  <2>. SUFFICES ASSUME NEW s \in Servers, Connect(g) \in Coming(s)'
                PROVE  /\ Opening(c)' /\ ~Met(c)' /\ ~Deserted(c)' /\ net'.members[g] \cap Servers = {}
                       /\ \A i, j \in DOMAIN net'.incoming[s] :
                            net'.incoming[s][i] = Connect(g) /\ net'.incoming[s][j] = Connect(g) => i = j
    BY DEF AskedOnce, Coming, Connect
  <2>1. PICK e \in {0, 1} : \A i \in DOMAIN net'.incoming[s] :
          net'.incoming[s][i] = Connect(g) =>
            i + e \in DOMAIN net.incoming[s] /\ net.incoming[s][i + e] = Connect(g)
    BY DEF AsksKept
  <2>2. PICK k \in DOMAIN net'.incoming[s] : net'.incoming[s][k] = Connect(g)
    BY DEF Coming, Range
  <2>3. Connect(g) \in Coming(s)
    BY <2>1, <2>2 DEF Coming, Range
  <2>4. /\ Opening(c) /\ ~Met(c) /\ ~Deserted(c) /\ net.members[g] \cap Servers = {}
        /\ \A i, j \in DOMAIN net.incoming[s] :
             net.incoming[s][i] = Connect(g) /\ net.incoming[s][j] = Connect(g) => i = j
    BY <1>1, <2>3 DEF AskedOnce
  <2>5. ~Unasked(g)
    BY <2>3 DEF Unasked
  <2>6. net'.incoming[s] \in Seq(Receives(Made', s))
    BY NetTypesNext, Processes
  <2>7. ASSUME NEW i \in DOMAIN net'.incoming[s], NEW j \in DOMAIN net'.incoming[s],
               net'.incoming[s][i] = Connect(g), net'.incoming[s][j] = Connect(g)
        PROVE  i = j
    <3>1. i + e = j + e
      BY <2>1, <2>4, <2>7
    <3>2. i \in Int /\ j \in Int
      BY <2>6
    <3>. QED
      BY <3>1, <3>2
  <2>. QED
    BY <1>8, <2>4, <2>5, <2>7
<1>10. \A i \in 1 .. Len(now) : JoinOf(now[i], g) =>
          i <= Len(old) - d /\ i + d \in 1 .. Len(old) /\ JoinOf(old[i + d], g)
  <2>. SUFFICES ASSUME NEW i \in 1 .. Len(now), JoinOf(now[i], g)
                PROVE  i <= Len(old) - d /\ i + d \in 1 .. Len(old) /\ JoinOf(old[i + d], g)
    OBVIOUS
  <2>1. i <= Len(old) - d
    <3>1. now[i] \notin new
      BY <1>4
    <3>2. ~(i >= Len(old) - d + 1)
      BY <1>3, <1>5, <3>1
    <3>. QED
      BY <1>3, <1>5, <3>2
  <2>2. i \in 1 .. Len(old) - d /\ i + d \in 1 .. Len(old)
    BY <1>3, <1>5, <2>1
  <2>3. now[i] = old[i + d]
    BY <1>3, <2>2
  <2>. QED
    BY <2>1, <2>2, <2>3
<1>11. ToldInOrder(c, g)'
  <2>1. Met(c)' => Opening(c)'
    BY <1>1, <1>8 DEF ToldInOrder
  <2>2. ASSUME NEW i \in 1 .. Len(now), NEW j \in 1 .. Len(now), JoinOf(now[i], g), JoinOf(now[j], g)
        PROVE  i = j
    <3>1. i + d \in 1 .. Len(old) /\ j + d \in 1 .. Len(old) /\ JoinOf(old[i + d], g) /\ JoinOf(old[j + d], g)
      BY <1>10, <2>2
    <3>2. i + d = j + d
      BY <1>1, <1>5, <3>1 DEF ToldInOrder, old
    <3>. QED
      BY <1>3, <3>2
  <2>3. ASSUME NEW i \in 1 .. Len(now), NEW j \in 1 .. Len(now), JoinOf(now[i], g), LeaveOf(now[j], g)
        PROVE  i < j
    <3>1. i <= Len(old) - d /\ i + d \in 1 .. Len(old) /\ JoinOf(old[i + d], g)
      BY <1>10, <2>3
    <3>2. CASE j <= Len(old) - d
      <4>1. j \in 1 .. Len(old) - d /\ j + d \in 1 .. Len(old)
        BY <1>3, <1>5, <3>2
      <4>2. LeaveOf(old[j + d], g)
        BY <1>3, <2>3, <4>1
      <4>3. i + d < j + d
        BY <1>1, <1>5, <3>1, <4>1, <4>2 DEF ToldInOrder, old
      <4>. QED
        BY <1>3, <4>3
    <3>3. CASE ~(j <= Len(old) - d)
      BY <1>3, <1>5, <3>1, <3>3
    <3>. QED
      BY <3>2, <3>3
  <2>4. \A i, j \in DOMAIN now : JoinOf(now[i], g) /\ JoinOf(now[j], g) => i = j
    BY <1>5, <2>2
  <2>5. \A i, j \in DOMAIN now : JoinOf(now[i], g) /\ LeaveOf(now[j], g) => i < j
    BY <1>5, <2>3
  <2>. QED
    BY <2>1, <2>4, <2>5 DEF ToldInOrder, now, JoinOf, LeaveOf, About, TwoAreHere, MemberHasLeft
<1>12. StaysOrTells(c, g)'
  <2>. SUFFICES ASSUME client'[c].connected \/ Met(c)'
                PROVE  InSession(c)' /\ (client'[c].connected_server \in net'.members[g] \/ Deserted(c)')
    BY DEF StaysOrTells
  <2>1. InSession(c) /\ (client[c].connected_server \in net.members[g] \/ Deserted(c))
    BY <1>1, <1>8 DEF StaysOrTells
  <2>2. (\E x \in new : LeaveOf(x, g)) => Deserted(c)'
    BY <1>3, <1>6
  <2>. QED
    BY <1>1, <1>8, <2>1, <2>2
<1>. QED
  BY <1>1, <1>9, <1>11, <1>12 DEF Handshake

(* All that is known when users wait for everything.                       *)
CalmGround == Ground /\ Calm /\ OrderlyInv /\ Handshakes

(* Client by client.                                                       *)
LEMMA HandshakesOf == Handshakes <=> \A c \in Clients \cap net.up : Handshake(c)
BY DEF Handshakes, Handshake

(* And in the next state.                                                  *)
LEMMA HandshakesNext ==
  ASSUME \A c \in Clients \cap net'.up : Handshake(c)'
  PROVE  Handshakes'
BY DEF Handshakes, Handshake

(* While the network is whole, everybody is on one side.                   *)
LEMMA OneSide ==
  ASSUME CalmGround
  PROVE  \A p, q \in Proc : net.side[p] = net.side[q]
BY Bounds, BudgetTypes DEF CalmGround, Calm, Ground, ServersPart

(* A user who may type while a connection is being opened types in vain:   *)
(* the server is down.                                                     *)
LEMMA TypesInVain ==
  ASSUME CalmGround, NEW c \in Clients, MayType(c), Opening(c), NEW g, g = client[c].connection_group
  PROVE  Unasked(g) /\ ~Met(c)
<1>0. TypeOK /\ MembersAgree /\ OrderlyInv /\ Hasty = {}
  BY DEF CalmGround, Ground, Calm
<1>1. c \in net.up /\ Connecting(c)
  BY DEF MayType, Connecting, Opening
<1>2. client[c].connected_server \notin net.up /\ net.incoming[c] = <<>>
  BY <1>0, <1>1 DEF MayType
<1>3. ~Met(c)
  BY <1>2 DEF Met, Coming, Range
<1>4. g \in SessionId /\ g # None
  <2>1. client[c].draw \in 1 .. MaxConnects + 1
    BY <1>0, ClientTypes
  <2>. QED
    BY <1>1, <2>1, SessionIdTyped DEF Connecting, InSession
<1>5. ASSUME NEW s \in Servers, Connect(g) \in Coming(s)
      PROVE  FALSE
  <2>1. s = client[c].connected_server
    BY <1>0, <1>1, <1>4, <1>5 DEF OrderlyInv, RightServer, Holds
  <2>2. net.incoming[s] = <<>>
    BY <1>0, <1>2, <2>1 DEF MembersAgree
  <2>. QED
    BY <1>5, <2>2 DEF Coming, Range
<1>. QED
  BY <1>3, <1>5 DEF Unasked

(* Only Notable messages matter to a session.                              *)
LEMMA QuietlyTold ==
  ASSUME NEW x, ~Notable(x), NEW g
  PROVE  ~JoinOf(x, g) /\ ~LeaveOf(x, g) /\ x # Connect(g)
BY DEF Notable, JoinOf, LeaveOf, About, Connect

(* Requests, answers and synchronizations.                                 *)
LEMMA AsideCalm ==
  ASSUME CalmGround, TypeOK', QuietStep
  PROVE  Handshakes'
<1>0. TypeOK /\ QuietNet(net, net') /\ SameGroups(net, net')
  BY DEF CalmGround, Ground, QuietStep, QuietNet
<1>. SUFFICES ASSUME NEW c \in Clients \cap net'.up
              PROVE  Handshake(c)'
  BY HandshakesNext
<1>. DEFINE g == client[c].connection_group
<1>1. Handshake(c) /\ c \in net.up
  BY <1>0, HandshakesOf DEF CalmGround, SameGroups
<1>2. KeepsSession(c)
  BY DEF QuietStep, SameSession, KeepsSession, InSession, SessionIdOf
<1>3. Opening(c) => Opening(c)' \/ (Unasked(g) /\ ~Met(c))
  <2>. SUFFICES ASSUME Opening(c), ~Opening(c)'
                PROVE  Unasked(g) /\ ~Met(c)
    OBVIOUS
  <2>1. client'[c].timer # 0
    BY <1>2 DEF Opening, KeepsSession
  <2>2. MayType(c)
    BY <2>1 DEF QuietStep, Opening
  <2>. QED
    BY <2>2, TypesInVain
<1>4. PICK d, new : /\ Moved(net.incoming[c], net'.incoming[c], d, new)
                    /\ \A x \in new : ~Notable(x)
                    /\ d = 1 => ~Notable(net.incoming[c][1])
  BY <1>0, Processes DEF QuietNet
<1>5. ToldOn(c, g, d, new)
  BY <1>4, QuietlyTold DEF ToldOn
<1>6. AsksKept(g)
  <2>. SUFFICES ASSUME NEW s \in Servers
                PROVE  \E e \in {0, 1} : \A i \in DOMAIN net'.incoming[s] :
                         net'.incoming[s][i] = Connect(g) =>
                           i + e \in DOMAIN net.incoming[s] /\ net.incoming[s][i + e] = Connect(g)
    BY DEF AsksKept
  <2>1. net \in NetworkOf(Made) /\ net' \in NetworkOf(Made')
    BY <1>0 DEF TypeOK
  <2>2. PICK e \in {0, 1} : \A i \in DOMAIN net'.incoming[s] : Notable(net'.incoming[s][i]) =>
               i + e \in DOMAIN net.incoming[s] /\ net.incoming[s][i + e] = net'.incoming[s][i]
    BY <1>0, <2>1, NotablesStay, Processes
  <2>3. Notable(Connect(g))
    BY DEF Notable, Connect
  <2>. HIDE DEF g
  <2>. QED
    BY <2>2, <2>3
<1>7. net'.members = net.members
  BY <1>0 DEF SameGroups
<1>. HIDE DEF g
<1>. QED
  BY <1>0, <1>1, <1>2, <1>3, <1>5, <1>6, <1>7, HandshakeKept DEF g

(* A CONNECT that a step does not send keeps its place in the queue.       *)
LEMMA AsksStay ==
  ASSUME TypeOK, TypeOK', NEW g,
         \A s \in Servers : \/ net'.incoming[s] = <<>>
                            \/ \E d, new : /\ Moved(net.incoming[s], net'.incoming[s], d, new)
                                           /\ Connect(g) \notin new
  PROVE  AsksKept(g)
<1>. SUFFICES ASSUME NEW s \in Servers
              PROVE  \E e \in {0, 1} : \A i \in DOMAIN net'.incoming[s] :
                       net'.incoming[s][i] = Connect(g) =>
                         i + e \in DOMAIN net.incoming[s] /\ net.incoming[s][i + e] = Connect(g)
  BY DEF AsksKept
<1>1. CASE net'.incoming[s] = <<>>
  BY <1>1
<1>2. ASSUME NEW d, NEW new, Moved(net.incoming[s], net'.incoming[s], d, new), Connect(g) \notin new
      PROVE  \E e \in {0, 1} : \A i \in DOMAIN net'.incoming[s] :
               net'.incoming[s][i] = Connect(g) =>
                 i + e \in DOMAIN net.incoming[s] /\ net.incoming[s][i + e] = Connect(g)
  <2>1. /\ net.incoming[s] \in Seq(Receives(Made, s)) /\ net'.incoming[s] \in Seq(Receives(Made', s))
    BY NetTypes, NetTypesNext, Processes
  <2>2. \A i \in DOMAIN net'.incoming[s] : net'.incoming[s][i] \notin new =>
          i + d \in DOMAIN net.incoming[s] /\ net'.incoming[s][i] = net.incoming[s][i + d]
    BY <1>2, <2>1, MovedPlaces
  <2>3. d \in {0, 1}
    BY <1>2 DEF Moved
  <2>. QED
    BY <1>2, <2>2, <2>3
<1>. QED
  BY <1>1, <1>2

(* Memberships are no CONNECTs.                                            *)
LEMMA MembershipsAskNobody ==
  ASSUME TypeOK, TypeOK', NEW g,
         \A s \in Servers : \/ net'.incoming[s] = <<>>
                            \/ \E d, new : /\ Moved(net.incoming[s], net'.incoming[s], d, new)
                                           /\ \A x \in new : x.type = "MEMBERSHIP"
  PROVE  AsksKept(g)
<1>1. \A new : (\A x \in new : x.type = "MEMBERSHIP") => Connect(g) \notin new
  BY DEF Connect
<1>2. \A s \in Servers : \/ net'.incoming[s] = <<>>
                         \/ \E d, new : /\ Moved(net.incoming[s], net'.incoming[s], d, new)
                                        /\ Connect(g) \notin new
  BY <1>1
<1>. QED
  BY <1>2, AsksStay

(* Only a server shares the group of a client, and then nobody is asked.   *)
LEMMA CompanyIsServer ==
  ASSUME CalmGround, NEW c \in Clients \cap net.up, NEW g \in SessionId, g = client[c].connection_group,
         NEW p \in Proc, p # c, p \in net.members[g]
  PROVE  p \in Servers /\ Unasked(g)
<1>1. TypeOK /\ SessionsDrawn /\ MembersAgree /\ SeedsDiffer /\ Handshake(c)
  BY HandshakesOf DEF CalmGround, Calm, Orderly, Ground
<1>2. p \in Servers
  <2>. SUFFICES ASSUME p \in Clients
                PROVE  FALSE
    BY Processes
  <2>1. client[p].connection_group = g /\ g = <<Seed[p], client[p].draw>>
    BY <1>1 DEF MembersAgree, InSession, SessionIdOf
  <2>. QED
    BY <1>1, <2>1, GroupsDiffer
<1>3. Unasked(g)
  BY <1>1, <1>2 DEF Handshake, AskedOnce, Unasked
<1>. QED
  BY <1>2, <1>3

(* A client without a session has nothing to agree on.                     *)
LEMMA NoSession ==
  ASSUME TypeOK', NEW c \in Clients, NEW g, g \notin SessionId, client'[c].connection_group = g,
         ~client'[c].connected
  PROVE  Handshake(c)'
<1>1. Unasked(g)'
  <2>. SUFFICES ASSUME NEW s \in Servers, Connect(g) \in Range(net'.incoming[s])
                PROVE  FALSE
    BY DEF Unasked, Coming, Connect
  <2>1. Connect(g) \in Receives(Made', s)
    BY NetTypesNext, Processes, RangeOfSeq
  <2>. QED
    BY <2>1, RequestTyped DEF Connect
<1>2. \A x \in Coming(c)' : ~JoinOf(x, g)
  <2>. SUFFICES ASSUME NEW x \in Range(net'.incoming[c]), JoinOf(x, g)
                PROVE  FALSE
    BY DEF Coming
  <2>1. x \in Receives(Made', c) /\ x.type = "MEMBERSHIP" /\ x.group = g
    BY Processes, NetTypesNext, RangeOfSeq DEF JoinOf, About
  <2>2. x \in MembershipMessage
    BY <2>1, Processes, ClientsReceive DEF ClientMessage, Answers
  <2>. QED
    BY <2>1, <2>2 DEF MembershipMessage
<1>. QED
  BY <1>1, <1>2, HandshakeNone

(* Somebody other than client c leaves groups.                             *)
LEMMA LeftCalm ==
  ASSUME CalmGround, TypeOK', NEW c \in Clients \cap net.up, KeepsSession(c), Opening(c) => Opening(c)',
         NEW g, g = client[c].connection_group, NEW n, SameGroups(net, n), NEW p \in Proc, p # c, NEW gs \in SUBSET SessionId,
         Grown(net.incoming[c], net'.incoming[c], Telling(net', c, Missed(n, p, gs, c), "leave")),
         \A h \in SessionId : net'.members[h] = IF h \in gs THEN net.members[h] \ {p} ELSE net.members[h],
         \A h : AsksKept(h)
  PROVE  Handshake(c)'
<1>. DEFINE ms == Missed(n, p, gs, c)
            new == Telling(net', c, ms, "leave")
<1>0. /\ TypeOK /\ MembersAgree /\ Handshake(c) /\ c \in Proc
  BY HandshakesOf, Processes DEF CalmGround, Ground
<1>1. net'.members \in [SessionId -> SUBSET Proc] /\ ms \in SUBSET SessionId
  BY <1>0, NetTypesNext DEF Missed
<1>2. \A x \in new : x.type = "MEMBERSHIP" /\ x.cause = "leave" /\ x.group \in ms
  <2>. HIDE DEF ms
  <2>. QED
    BY <1>1, TellingFields
<1>3. \A h \in ms : h \in SessionId /\ p \in net.members[h] /\ c \in net.members[h]
  BY DEF Missed, SameGroups
<1>4. \A h \in ms : h = g => Unasked(g)
  BY <1>3, CompanyIsServer
<1>5. ToldOn(c, g, 0, new)
  <2>1. Moved(net.incoming[c], net'.incoming[c], 0, new)
    BY <1>0, GrownMovedNext
  <2>2. \A x \in new : ~JoinOf(x, g) /\ (LeaveOf(x, g) => Unasked(g))
    BY <1>2, <1>4 DEF JoinOf, LeaveOf, About, TwoAreHere
  <2>. HIDE DEF new
  <2>. QED
    BY <2>1, <2>2 DEF ToldOn
<1>6. CASE g \in SessionId
  <2>1. net'.members[g] \cap Servers \subseteq net.members[g]
    BY <1>6
  <2>2. ASSUME InSession(c), client[c].connected_server \in net.members[g],
               client[c].connected_server \notin net'.members[g]
        PROVE  \E x \in new : LeaveOf(x, g)
    <3>1. client[c].connected_server = p /\ g \in gs /\ p \in net.members[g]
      BY <1>6, <2>2
    <3>2. c \in net.members[g]
      BY <1>0, <1>6, <2>2 DEF MembersAgree
    <3>3. n.side[c] = n.side[p]
      BY <1>0, OneSide DEF SameGroups
    <3>4. g \in ms
      BY <3>1, <3>2, <3>3 DEF Missed, SameGroups
    <3>5. Told(net', c, g, "leave") \in new
      <4>. HIDE DEF ms
      <4>. QED
        BY <3>4, TellingEach
    <3>6. LeaveOf(Told(net', c, g, "leave"), g)
      BY DEF LeaveOf, About, MemberHasLeft, Told
    <3>. QED
      BY <3>5, <3>6
  <2>3. AsksKept(g)
    OBVIOUS
  <2>. HIDE DEF new, ms
  <2>. QED
    BY <1>0, <1>5, <2>1, <2>2, <2>3, HandshakeKept
<1>7. CASE g \notin SessionId
  <2>1. ~client'[c].connected
    <3>1. ~InSession(c)
      <4>1. client[c].draw \in 1 .. MaxConnects + 1
        BY <1>0, ClientTypes
      <4>. QED
        BY <1>7, <4>1, SessionIdTyped DEF InSession
    <3>. QED
      BY <1>0, <3>1 DEF Handshake, StaysOrTells, KeepsSession
  <2>2. client'[c].connection_group = g
    BY DEF KeepsSession
  <2>. QED
    BY <1>7, <2>1, <2>2, NoSession
<1>. QED
  BY <1>6, <1>7

(* A client that does nothing stays as it was.                             *)
LEMMA ClientUnmoved ==
  ASSUME NEW c, client'[c] = client[c]
  PROVE  KeepsSession(c) /\ (Opening(c)' <=> Opening(c))
BY DEF KeepsSession, Opening, InSession, SessionIdOf

(* The CONNECTs of a client that is gone.                                  *)
LEMMA UnaskedKept ==
  ASSUME NEW g, Unasked(g), AsksKept(g)
  PROVE  Unasked(g)'
<1>. SUFFICES ASSUME NEW s \in Servers, NEW i \in DOMAIN net'.incoming[s], net'.incoming[s][i] = Connect(g)
              PROVE  FALSE
  BY DEF Unasked, Coming, Range, Connect
<1>1. PICK e \in {0, 1} : i + e \in DOMAIN net.incoming[s] /\ net.incoming[s][i + e] = Connect(g)
  BY DEF AsksKept
<1>. QED
  BY <1>1 DEF Unasked, Coming, Range

(* A client leaves its session.                                            *)
LEMMA ClientLeavesCalm ==
  ASSUME CalmGround, TypeOK', NEW a \in Clients, a \in net.up, NEW n, Before(n, a), net' = Departed(n, a),
         NEW k, client' = [client EXCEPT ![a] = k], SameSession(Disconnected(a), k),
         Unasked(client[a].connection_group), ~Met(a)
  PROVE  Handshakes'
<1>. DEFINE m == net'
            gs == GroupOf(a)
<1>0. Ground /\ TypeOK
  BY DEF CalmGround, Ground
<1>1. /\ n \in NetworkOf(Made) /\ SameGroups(net, n) /\ gs \in SUBSET SessionId
      /\ \A q \in Proc \ {a} : n.incoming[q] = net.incoming[q]
  BY <1>0, BeforeKept, Zenon DEF GroupOf
<1>2. m \in NetworkOf(Made) /\ LeftBy(n, m, a, gs)
  <2>1. m = Departed(n, a)
    OBVIOUS
  <2>. HIDE DEF m, gs
  <2>. QED
    BY <2>1, <1>0, DepartedEffect, Zenon DEF gs
<1>3. m.up = net.up
  BY <1>1, <1>2 DEF LeftBy, SameGroups
<1>4. a \in Proc /\ net.incoming[a] \in Seq(Receives(Made, a))
  BY <1>0, Processes, NetTypes
<1>5. \A h : AsksKept(h)
  <2>1. ASSUME NEW s \in Servers
        PROVE  \E d, new : /\ Moved(net.incoming[s], net'.incoming[s], d, new)
                           /\ \A x \in new : x.type = "MEMBERSHIP"
    <3>1. s \in Proc /\ n.incoming[s] = net.incoming[s]
      BY <1>1, Processes
    <3>2. PICK new : Grown(n.incoming[s], m.incoming[s], new) /\ \A x \in new : x.type = "MEMBERSHIP"
      <4>. HIDE DEF m, gs
      <4>. QED
        BY <1>1, <1>2, <3>1, LeftGrown
    <3>3. Moved(net.incoming[s], net'.incoming[s], 0, new)
      BY <1>0, <3>1, <3>2, GrownMovedNext
    <3>. QED
      BY <3>2, <3>3
  <2>. QED
    BY <1>0, <2>1, MembershipsAskNobody
<1>6. ASSUME NEW c \in Clients \cap net.up, c # a
      PROVE  Handshake(c)'
  <2>1. client'[c] = client[c]
    BY <1>0, <1>6 DEF TypeOK
  <2>2. KeepsSession(c) /\ (Opening(c) => Opening(c)')
    BY <2>1, ClientUnmoved
  <2>3. PICK g : g = client[c].connection_group
    OBVIOUS
  <2>4. c \in Proc /\ n.incoming[c] = net.incoming[c]
    BY <1>1, <1>6, Processes
  <2>5. Grown(net.incoming[c], m.incoming[c], Telling(m, c, Missed(n, a, gs, c), "leave"))
    BY <1>2, <2>4 DEF LeftBy
  <2>6. \A h \in SessionId : m.members[h] = IF h \in gs THEN net.members[h] \ {a} ELSE net.members[h]
    BY <1>1, <1>2 DEF LeftBy, SameGroups
  <2>. HIDE DEF gs
  <2>. QED
    BY <1>1, <1>4, <1>5, <1>6, <2>2, <2>3, <2>5, <2>6, LeftCalm
<1>7. Handshake(a)'
  <2>1. PICK g : g = client[a].connection_group
    OBVIOUS
  <2>2. client'[a] = k
    BY <1>0 DEF TypeOK
  <2>3. client'[a].connection_group = g /\ ~client'[a].connected
    BY <1>0, <2>1, <2>2, DisconnectedFields DEF SameSession
  <2>4. Unasked(g)'
    BY <1>5, <2>1, UnaskedKept
  <2>5. \A x \in Coming(a)' : ~JoinOf(x, g)
    <3>1. Grown(n.incoming[a], m.incoming[a], Telling(m, a, Missed(n, a, gs, a), "leave"))
      BY <1>2, <1>4 DEF LeftBy
    <3>2. Missed(n, a, gs, a) = {}
      BY DEF Missed
    <3>3. Telling(m, a, Missed(n, a, gs, a), "leave") = {}
      BY <3>2 DEF Telling
    <3>4. Grown(n.incoming[a], m.incoming[a], {})
      BY <3>1, <3>3
    <3>5. n.incoming[a] \in Seq(Receives(Made, a)) /\ m.incoming[a] \in Seq(Receives(Made, a))
      BY <1>1, <1>2, <1>4, NetworkFields
    <3>6. m.incoming[a] = n.incoming[a]
      <4>. HIDE DEF m
      <4>. QED
        BY <3>4, <3>5, GrownByNone
    <3>7. Range(n.incoming[a]) \subseteq Coming(a)
      BY <1>0, <1>4, BeforeComing
    <3>. QED
      BY <2>1, <3>6, <3>7 DEF Met, Coming
  <2>. QED
    BY <2>3, <2>4, <2>5, HandshakeNone
<1>. QED
  BY <1>3, <1>6, <1>7, HandshakesNext

(* HandleTimeout.                                                          *)
LEMMA HandleTimeoutCalm ==
  ASSUME CalmGround, TypeOK', NEW c \in Clients, HandleTimeout(c)
  PROVE  Handshakes'
<1>0. Ground
  BY DEF CalmGround
<1>. DEFINE kk == Disconnected(c)
            k == [kk EXCEPT !.timer = 0]
<1>1. /\ c \in net.up /\ net' = Departed(net, c) /\ client[c].timer # 0
      /\ client' = [client EXCEPT ![c] = k]
  BY DEF HandleTimeout
<1>2. kk \in ClientVariables(Made)
  BY <1>0, DisconnectedFields
<1>3. SameSession(kk, k)
  <2>. HIDE DEF kk
  <2>. QED
    BY <1>2 DEF ClientVariables, SameSession
<1>4. Before(net, c)
  BY DEF Before
<1>5. Handshake(c) /\ ~Opening(c)
  BY <1>1, HandshakesOf DEF CalmGround, Opening
<1>6. Unasked(client[c].connection_group) /\ ~Met(c)
  BY <1>5 DEF Handshake, AskedOnce, ToldInOrder, Unasked
<1>. HIDE DEF k
<1>. QED
  BY <1>1, <1>3, <1>4, <1>6, ClientLeavesCalm

(* A process is gone.                                                      *)
LEMMA ExitCalm ==
  ASSUME CalmGround, TypeOK', NEW p \in Proc, net' = Exit(net, p),
         \A d \in Clients \ {p} : client'[d] = client[d]
  PROVE  Handshakes'
<1>. DEFINE m == net'
<1>0. Ground /\ TypeOK /\ net \in NetworkOf(Made)
  BY NetTypes DEF CalmGround, Ground
<1>1. m \in NetworkOf(Made) /\ GoneFrom(net, m, p)
  <2>1. m = Exit(net, p)
    OBVIOUS
  <2>. HIDE DEF m
  <2>. QED
    BY <1>0, <2>1, ExitEffect, Zenon
<1>2. \A h : AsksKept(h)
  <2>1. ASSUME NEW s \in Servers
        PROVE  \/ net'.incoming[s] = <<>>
               \/ \E d, new : /\ Moved(net.incoming[s], net'.incoming[s], d, new)
                              /\ \A x \in new : x.type = "MEMBERSHIP"
    <3>1. CASE s = p
      BY <1>1, <3>1 DEF GoneFrom
    <3>2. CASE s # p
      <4>. DEFINE gs == Missed(net, p, SessionId, s)
                  new == Telling(m, s, gs, "leave")
      <4>1. s \in Proc /\ Grown(net.incoming[s], m.incoming[s], new)
        BY <1>1, <3>2, Processes DEF GoneFrom
      <4>2. gs \in SUBSET SessionId
        BY DEF Missed
      <4>3. m.members \in [SessionId -> SUBSET Proc]
        BY <1>1, NetworkFields
      <4>. HIDE DEF gs
      <4>4. \A x \in new : x.type = "MEMBERSHIP"
        BY <4>2, <4>3, TellingFields
      <4>. HIDE DEF new
      <4>5. Moved(net.incoming[s], net'.incoming[s], 0, new)
        BY <1>0, <4>1, GrownMovedNext
      <4>. QED
        BY <4>4, <4>5
    <3>. QED
      BY <3>1, <3>2
  <2>. QED
    BY <1>0, <2>1, MembershipsAskNobody
<1>3. ASSUME NEW c \in Clients \cap net'.up
      PROVE  Handshake(c)'
  <2>1. c \in net.up /\ c # p /\ c \in Proc
    BY <1>1, Processes DEF GoneFrom
  <2>2. client'[c] = client[c]
    BY <2>1
  <2>3. KeepsSession(c) /\ (Opening(c) => Opening(c)')
    BY <2>2, ClientUnmoved
  <2>4. PICK g : g = client[c].connection_group
    OBVIOUS
  <2>5. Grown(net.incoming[c], m.incoming[c], Telling(m, c, Missed(net, p, SessionId, c), "leave"))
    BY <1>1, <2>1 DEF GoneFrom
  <2>6. \A h \in SessionId : m.members[h] = IF h \in SessionId THEN net.members[h] \ {p} ELSE net.members[h]
    BY <1>1 DEF GoneFrom
  <2>7. SameGroups(net, net) /\ SessionId \in SUBSET SessionId
    BY DEF SameGroups
  <2>. QED
    BY <1>2, <2>1, <2>3, <2>4, <2>5, <2>6, <2>7, LeftCalm
<1>. QED
  BY <1>3, HandshakesNext

(* Goodbye.                                                                *)
LEMMA GoodbyeCalm ==
  ASSUME CalmGround, TypeOK', NEW c \in Clients, Goodbye(c)
  PROVE  Handshakes'
<1>1. net' = Exit(net, c) /\ c \in Proc /\ client' = [client EXCEPT ![c] = Start]
  BY Processes DEF Goodbye
<1>2. \A d \in Clients \ {c} : client'[d] = client[d]
  BY <1>1 DEF CalmGround, Ground, TypeOK
<1>. QED
  BY <1>1, <1>2, ExitCalm

(* Crash.                                                                  *)
LEMMA CrashCalm ==
  ASSUME CalmGround, TypeOK', NEW s \in Servers, Crash(s)
  PROVE  Handshakes'
<1>1. net' = Exit(net, s) /\ client' = client /\ s \in Proc
  BY Processes DEF Crash
<1>. QED
  BY <1>1, ExitCalm

(* Restart.                                                                *)
LEMMA RestartCalm ==
  ASSUME CalmGround, TypeOK', NEW s \in Servers, Restart(s)
  PROVE  Handshakes'
<1>0. Ground /\ TypeOK /\ net \in NetworkOf(Made)
  BY NetTypes DEF CalmGround, Ground
<1>1. /\ net'.up = net.up \cup {s} /\ net'.members = net.members /\ net'.incoming = net.incoming
      /\ client' = client
  BY <1>0 DEF Restart, NetworkOf, Network
<1>2. ASSUME NEW c \in Clients \cap net'.up
      PROVE  Handshake(c)'
  <2>1. c \in net.up /\ c \in Proc
    BY <1>1, Processes
  <2>2. Handshake(c)
    BY <2>1, HandshakesOf DEF CalmGround
  <2>3. KeepsSession(c) /\ (Opening(c) => Opening(c)')
    BY <1>1, ClientUnmoved
  <2>4. PICK g : g = client[c].connection_group
    OBVIOUS
  <2>5. Moved(net.incoming[c], net'.incoming[c], 0, {})
    <3>1. net.incoming[c] \in Seq(Receives(Made, c))
      BY <1>0, <2>1, NetTypes
    <3>. QED
      BY <1>1, <3>1, GrownByNone, GrownMoved
  <2>6. ToldOn(c, g, 0, {})
    BY <2>5 DEF ToldOn
  <2>7. AsksKept(g)
    <3>1. \A t \in Servers : net.incoming[t] \in Seq(Receives(Made, t))
      BY <1>0, Processes, NetTypes
    <3>2. \A t \in Servers : \A i \in DOMAIN net'.incoming[t] :
            net'.incoming[t][i] = Connect(g) =>
              i + 0 \in DOMAIN net.incoming[t] /\ net.incoming[t][i + 0] = Connect(g)
      BY <1>1, <3>1
    <3>. QED
      BY <3>2 DEF AsksKept
  <2>. QED
    BY <1>0, <1>1, <2>1, <2>2, <2>3, <2>4, <2>6, <2>7, HandshakeKept
<1>. QED
  BY <1>2, HandshakesNext

(* A server takes a membership message and keeps its groups.               *)
LEMMA ServerStaysCalm ==
  ASSUME CalmGround, TypeOK', NEW s \in Servers, ServerMembership(s), ~Ends(s, Next1(s))
  PROVE  Handshakes'
<1>0. Ground /\ TypeOK /\ net \in NetworkOf(Made) /\ s \in Proc
  BY NetTypes, Processes DEF CalmGround, Ground
<1>1. /\ net' \in NetworkOf(Made) /\ Taken(net, net', s) /\ client' = client
  BY <1>0, ServerStaysEffect
<1>2. /\ net'.up = net.up /\ net'.members = net.members
      /\ \A q \in Proc \ {s} : net'.incoming[q] = net.incoming[q]
  BY <1>1 DEF Taken, SameGroups
<1>3. \A q \in Proc : Moved(net.incoming[q], net'.incoming[q], IF q = s THEN 1 ELSE 0, {})
  <2>1. \A q \in Proc : net'.incoming[q] \in Seq(Receives(Made, q))
    BY <1>1, NetworkFields
  <2>2. \A q \in Proc : Grown(net'.incoming[q], net'.incoming[q], {})
    BY <2>1, GrownByNone
  <2>. QED
    BY <1>0, <1>1, <2>2, TakenMoved
<1>4. \A h : AsksKept(h)
  <2>1. \A t \in Servers : \E d, new : /\ Moved(net.incoming[t], net'.incoming[t], d, new)
                                       /\ \A x \in new : x.type = "MEMBERSHIP"
    <3>1. \A t \in Servers : \E d : Moved(net.incoming[t], net'.incoming[t], d, {})
      BY <1>3, Processes
    <3>2. \A x \in {} : x.type = "MEMBERSHIP"
      OBVIOUS
    <3>. QED
      BY <3>1, <3>2
  <2>. QED
    BY <1>0, <2>1, MembershipsAskNobody
<1>5. ASSUME NEW c \in Clients \cap net'.up
      PROVE  Handshake(c)'
  <2>1. c \in net.up /\ c \in Proc /\ c # s
    BY <1>2, Processes
  <2>2. Handshake(c)
    BY <2>1, HandshakesOf DEF CalmGround
  <2>3. KeepsSession(c) /\ (Opening(c) => Opening(c)')
    BY <1>1, ClientUnmoved
  <2>4. PICK g : g = client[c].connection_group
    OBVIOUS
  <2>5. Moved(net.incoming[c], net'.incoming[c], 0, {})
    BY <1>3, <2>1
  <2>6. ToldOn(c, g, 0, {})
    BY <2>5 DEF ToldOn
  <2>. QED
    BY <1>0, <1>2, <1>4, <2>1, <2>2, <2>3, <2>4, <2>6, HandshakeKept
<1>. QED
  BY <1>5, HandshakesNext

(* A server leaves a session.                                              *)
LEMMA ServerEndsCalm ==
  ASSUME CalmGround, TypeOK', NEW s \in Servers, ServerMembership(s), Ends(s, Next1(s))
  PROVE  Handshakes'
<1>. DEFINE r == Received(s)
            m == net'
<1>0. Ground /\ TypeOK /\ net \in NetworkOf(Made) /\ s \in Proc
  BY NetTypes, Processes DEF CalmGround, Ground
<1>1. PICK g0 \in SessionId :
        /\ r \in NetworkOf(Made) /\ Taken(net, r, s)
        /\ m \in NetworkOf(Made) /\ LeftBy(r, m, s, {g0})
        /\ client' = client
  BY <1>0, ServerEndsEffect
<1>2. PICK gs \in SUBSET SessionId : LeftBy(r, m, s, gs)
  BY <1>1
<1>3. SameGroups(net, r) /\ \A q \in Proc \ {s} : r.incoming[q] = net.incoming[q]
  BY <1>1 DEF Taken
<1>4. m.up = net.up
  BY <1>2, <1>3 DEF LeftBy, SameGroups
<1>5. \A h : AsksKept(h)
  <2>1. ASSUME NEW t \in Servers
        PROVE  \E d, new : /\ Moved(net.incoming[t], net'.incoming[t], d, new)
                           /\ \A x \in new : x.type = "MEMBERSHIP"
    <3>1. t \in Proc
      BY Processes
    <3>2. PICK new : Grown(r.incoming[t], m.incoming[t], new) /\ \A x \in new : x.type = "MEMBERSHIP"
      <4>. HIDE DEF m, r
      <4>. QED
        BY <1>1, <1>2, <3>1, LeftGrown
    <3>3. Moved(net.incoming[t], m.incoming[t], IF t = s THEN 1 ELSE 0, new)
      <4>. HIDE DEF m, r
      <4>. QED
        BY <1>0, <1>1, <3>1, <3>2, TakenMoved
    <3>. QED
      BY <3>2, <3>3
  <2>. QED
    BY <1>0, <2>1, MembershipsAskNobody
<1>6. ASSUME NEW c \in Clients \cap net'.up
      PROVE  Handshake(c)'
  <2>1. c \in net.up /\ c \in Proc /\ c # s /\ c \in Clients \cap net.up
    BY <1>4, Processes
  <2>2. KeepsSession(c) /\ (Opening(c) => Opening(c)')
    BY <1>1, ClientUnmoved
  <2>3. PICK g : g = client[c].connection_group
    OBVIOUS
  <2>4. Grown(net.incoming[c], m.incoming[c], Telling(m, c, Missed(r, s, gs, c), "leave"))
    BY <1>2, <1>3, <2>1 DEF LeftBy
  <2>5. \A h \in SessionId : m.members[h] = IF h \in gs THEN net.members[h] \ {s} ELSE net.members[h]
    BY <1>2, <1>3 DEF LeftBy, SameGroups
  <2>. QED
    BY <1>0, <1>3, <1>5, <2>1, <2>2, <2>3, <2>4, <2>5, LeftCalm
<1>. QED
  BY <1>6, HandshakesNext

(* ServerMembership.                                                       *)
LEMMA ServerMembershipCalm ==
  ASSUME CalmGround, TypeOK', NEW s \in Servers, ServerMembership(s)
  PROVE  Handshakes'
BY ServerStaysCalm, ServerEndsCalm

(* The client hears that its server is there, or nothing that matters.     *)
LEMMA ClientHearsCalm ==
  ASSUME CalmGround, TypeOK', NEW a \in Clients, ClientMembership(a), NEW connected, ClientHears(a, connected)
  PROVE  Handshakes'
<1>. DEFINE old == net.incoming[a]
            now == net'.incoming[a]
<1>0. Ground /\ TypeOK /\ net \in NetworkOf(Made) /\ a \in Proc
  BY NetTypes, Processes DEF CalmGround, Ground
<1>1. /\ a \in net.up /\ Received(a) \in NetworkOf(Made) /\ Taken(net, Received(a), a)
      /\ old # <<>>
  BY <1>0, ClientMembershipCases
<1>2. net' = Received(a) /\ net' \in NetworkOf(Made) /\ Taken(net, net', a)
  BY <1>1 DEF ClientHears
<1>3. PICK g : g = client[a].connection_group
  OBVIOUS
<1>4. /\ client' = [client EXCEPT ![a].connected = connected] /\ connected \in BOOLEAN
      /\ connected <=> client[a].connected \/ JoinOf(old[1], g)
      /\ ~LeaveOf(old[1], g)
  BY <1>3 DEF ClientHears
<1>5. /\ net'.up = net.up /\ net'.members = net.members
      /\ \A q \in Proc \ {a} : net'.incoming[q] = net.incoming[q]
  BY <1>2 DEF Taken, SameGroups
<1>6. \A q \in Proc : Moved(net.incoming[q], net'.incoming[q], IF q = a THEN 1 ELSE 0, {})
  <2>1. \A q \in Proc : net'.incoming[q] \in Seq(Receives(Made, q))
    BY <1>2, NetworkFields
  <2>2. \A q \in Proc : Grown(net'.incoming[q], net'.incoming[q], {})
    BY <2>1, GrownByNone
  <2>. QED
    BY <1>0, <1>2, <2>2, TakenMoved
<1>7. \A h : AsksKept(h)
  <2>1. \A t \in Servers : \E d, new : /\ Moved(net.incoming[t], net'.incoming[t], d, new)
                                       /\ \A x \in new : x.type = "MEMBERSHIP"
    <3>1. \A t \in Servers : \E d : Moved(net.incoming[t], net'.incoming[t], d, {})
      BY <1>6, Processes
    <3>2. \A x \in {} : x.type = "MEMBERSHIP"
      OBVIOUS
    <3>. QED
      BY <3>1, <3>2
  <2>. QED
    BY <1>0, <2>1, MembershipsAskNobody
<1>8. ASSUME NEW c \in Clients \cap net'.up, c # a
      PROVE  Handshake(c)'
  <2>1. c \in net.up /\ c \in Proc
    BY <1>5, Processes
  <2>2. Handshake(c)
    BY <2>1, HandshakesOf DEF CalmGround
  <2>3. client'[c] = client[c]
    BY <1>0, <1>4, <1>8 DEF TypeOK
  <2>4. KeepsSession(c) /\ (Opening(c) => Opening(c)')
    BY <2>3, ClientUnmoved
  <2>5. PICK h : h = client[c].connection_group
    OBVIOUS
  <2>6. Moved(net.incoming[c], net'.incoming[c], 0, {})
    BY <1>6, <1>8, <2>1
  <2>7. ToldOn(c, h, 0, {})
    BY <2>6 DEF ToldOn
  <2>. QED
    BY <1>0, <1>5, <1>7, <2>1, <2>2, <2>4, <2>5, <2>7, HandshakeKept
<1>9. /\ Handshake(a) /\ client'[a] = [client[a] EXCEPT !.connected = connected]
      /\ client[a] \in ClientVariables(Made)
  <2>1. client[a] \in ClientVariables(Made) /\ client'[a] = [client[a] EXCEPT !.connected = connected]
    BY <1>0, <1>4, ClientTypes DEF TypeOK
  <2>. QED
    BY <1>1, <2>1, HandshakesOf DEF CalmGround
<1>10. /\ client'[a].connected = connected /\ client'[a].connection_group = g
       /\ client'[a].connected_server = client[a].connected_server
       /\ client'[a].timer = client[a].timer /\ client'[a].draw = client[a].draw
       /\ client[a].connected \in BOOLEAN
  BY <1>3, <1>9 DEF ClientVariables
<1>11. InSession(a)' <=> InSession(a)
  BY <1>3, <1>10 DEF InSession, SessionIdOf
<1>12. /\ Moved(old, now, 1, {}) /\ old \in Seq(Receives(Made, a)) /\ now \in Seq(Receives(Made, a))
  BY <1>0, <1>2, <1>6, NetworkFields
<1>13. CASE ~JoinOf(old[1], g)
  <2>1. client'[a].connected = client[a].connected
    BY <1>4, <1>10, <1>13
  <2>2. KeepsSession(a) /\ (Opening(a) => Opening(a)')
    BY <1>3, <1>10, <1>11, <2>1 DEF KeepsSession, Opening
  <2>3. ToldOn(a, g, 1, {})
    BY <1>4, <1>12, <1>13 DEF ToldOn
  <2>4. Handshake(a)'
    BY <1>0, <1>3, <1>5, <1>7, <1>9, <2>2, <2>3, HandshakeKept
  <2>. QED
    BY <1>8, <2>4, HandshakesNext
<1>14. CASE JoinOf(old[1], g)
  <2>1. AskedOnce(a, g) /\ ToldInOrder(a, g) /\ StaysOrTells(a, g)
    BY <1>3, <1>9 DEF Handshake
  <2>2. /\ DOMAIN old = 1 .. Len(old) /\ DOMAIN now = 1 .. Len(now) /\ Len(old) \in Nat /\ Len(now) \in Nat
        /\ 1 \in DOMAIN old /\ Len(old) = Len(now) + 1
        /\ \A i \in 1 .. Len(now) : now[i] = old[i + 1]
    BY <1>1, <1>2, <1>12 DEF Taken
  <2>3. Met(a)
    BY <1>3, <1>14, <2>2 DEF Met, Coming, Range
  <2>4. Unasked(g) /\ InSession(a)
    BY <2>1, <2>3 DEF AskedOnce, StaysOrTells, Unasked
  <2>5. \A i \in DOMAIN now : ~JoinOf(now[i], g)
    <3>. SUFFICES ASSUME NEW i \in DOMAIN now, JoinOf(now[i], g)
                  PROVE  FALSE
      OBVIOUS
    <3>1. i + 1 \in DOMAIN old /\ JoinOf(old[i + 1], g)
      BY <2>2
    <3>2. i + 1 = 1
      BY <1>14, <2>1, <2>2, <3>1 DEF ToldInOrder
    <3>. QED
      BY <2>2, <3>2
  <2>6. \A x \in Coming(a)' : ~JoinOf(x, g)
    BY <2>5 DEF Coming, Range
  <2>7. ~Met(a)'
    BY <1>10, <2>6 DEF Met, JoinOf, About, TwoAreHere
  <2>8. Unasked(g)'
    BY <1>7, <2>4, UnaskedKept
  <2>9. AskedOnce(a, g)'
    BY <2>8 DEF AskedOnce, Unasked
  <2>10. ToldInOrder(a, g)'
    BY <2>5, <2>7 DEF ToldInOrder, JoinOf, About, TwoAreHere
  <2>11. Deserted(a) => Deserted(a)'
    <3>. SUFFICES ASSUME Deserted(a)
                  PROVE  Deserted(a)'
      OBVIOUS
    <3>1. PICK j \in DOMAIN old : LeaveOf(old[j], g)
      BY <1>3 DEF Deserted, Coming, Range
    <3>2. 1 < j
      BY <1>14, <2>1, <2>2, <3>1 DEF ToldInOrder
    <3>3. j - 1 \in DOMAIN now /\ now[j - 1] = old[j]
      <4>. HIDE DEF old, now
      <4>1. j \in 1 .. Len(old) /\ j \in Int /\ Len(old) = Len(now) + 1 /\ Len(now) \in Nat
        BY <2>2, <3>1
      <4>2. j - 1 \in 1 .. Len(now) /\ (j - 1) + 1 = j
        BY <3>2, <4>1
      <4>3. now[j - 1] = old[(j - 1) + 1] /\ j - 1 \in DOMAIN now
        BY <2>2, <4>2
      <4>. QED
        BY <4>2, <4>3
    <3>4. LeaveOf(now[j - 1], g) /\ now[j - 1] \in Range(now)
      BY <3>1, <3>3 DEF Range
    <3>. QED
      BY <1>10, <3>4 DEF Deserted, Coming, LeaveOf, About, MemberHasLeft
  <2>12. StaysOrTells(a, g)'
    BY <1>5, <1>10, <1>11, <2>1, <2>3, <2>11 DEF StaysOrTells
  <2>13. Handshake(a)'
    BY <1>10, <2>9, <2>10, <2>12 DEF Handshake
  <2>. QED
    BY <1>8, <2>13, HandshakesNext
<1>. QED
  BY <1>13, <1>14

(* ClientMembership.                                                       *)
LEMMA ClientMembershipCalm ==
  ASSUME CalmGround, TypeOK', NEW c \in Clients, ClientMembership(c)
  PROVE  Handshakes'
<1>0. Ground /\ TypeOK
  BY DEF CalmGround, Ground
<1>1. CASE \E connected : ClientHears(c, connected)
  BY <1>1, ClientHearsCalm
<1>2. CASE ClientIsLeft(c)
  <2>1. /\ c \in net.up /\ Before(Received(c), c) /\ net.incoming[c] # <<>>
    BY <1>0, ClientMembershipCases
  <2>2. PICK g : g = client[c].connection_group
    OBVIOUS
  <2>3. /\ net' = Departed(Received(c), c) /\ client' = [client EXCEPT ![c] = Disconnected(c)]
        /\ LeaveOf(net.incoming[c][1], g)
    BY <1>2, <2>2 DEF ClientIsLeft
  <2>4. AskedOnce(c, g) /\ ToldInOrder(c, g)
    BY <2>1, <2>2, HandshakesOf DEF CalmGround, Handshake
  <2>5. net.incoming[c] \in Seq(Receives(Made, c))
    BY <1>0, NetTypes, Processes
  <2>6. 1 \in DOMAIN net.incoming[c] /\ \A i \in DOMAIN net.incoming[c] : ~(i < 1)
    BY <2>1, <2>5
  <2>7. Deserted(c)
    BY <2>2, <2>3, <2>6 DEF Deserted, Coming, Range
  <2>8. Unasked(g)
    BY <2>4, <2>7 DEF AskedOnce, Unasked
  <2>9. ~Met(c)
    BY <2>2, <2>3, <2>4, <2>6 DEF Met, Coming, Range, ToldInOrder
  <2>10. SameSession(Disconnected(c), Disconnected(c))
    BY DEF SameSession
  <2>. QED
    BY <2>1, <2>2, <2>3, <2>8, <2>9, <2>10, ClientLeavesCalm
<1>. QED
  BY <1>0, <1>1, <1>2, ClientMembershipCases

(* A client whose group is no session is not connected.                    *)
LEMMA SessionlessClient ==
  ASSUME CalmGround, NEW c \in Clients \cap net.up, client[c].connection_group \notin SessionId
  PROVE  ~client[c].connected
<1>1. TypeOK /\ Handshake(c)
  BY HandshakesOf DEF CalmGround, Ground
<1>2. client[c].draw \in 1 .. MaxConnects + 1
  BY <1>1, ClientTypes
<1>3. ~InSession(c)
  BY <1>2, SessionIdTyped DEF InSession
<1>. QED
  BY <1>1, <1>3 DEF Handshake, StaysOrTells

(* ServerConnect: the client that asked will hear of it.                   *)
LEMMA ServerConnectCalm ==
  ASSUME CalmGround, TypeOK', NEW s \in Servers, ServerConnect(s)
  PROVE  Handshakes'
<1>. DEFINE r == Received(s)
            m == net'
<1>0. /\ Ground /\ TypeOK /\ MembersAgree /\ OrderlyInv /\ net \in NetworkOf(Made) /\ s \in Proc
  BY NetTypes, Processes DEF CalmGround, Ground
<1>1. PICK g0 \in SessionId :
        /\ net.incoming[s][1] = Connect(g0) /\ net.incoming[s] # <<>>
        /\ r \in NetworkOf(Made) /\ Taken(net, r, s)
        /\ m \in NetworkOf(Made) /\ JoinedBy(r, m, s, g0)
        /\ client' = client
  BY <1>0, ServerConnectEffect DEF NextIs
<1>2. /\ r.members = net.members /\ r.side = net.side
      /\ \A q \in Proc \ {s} : r.incoming[q] = net.incoming[q]
      /\ m.up = net.up
      /\ \A h \in SessionId : m.members[h] = IF h = g0 THEN net.members[g0] \cup {s} ELSE net.members[h]
  BY <1>1 DEF Taken, SameGroups, JoinedBy
<1>3. ASSUME NEW q \in Proc
      PROVE  \E new : /\ Moved(net.incoming[q], m.incoming[q], IF q = s THEN 1 ELSE 0, new)
                      /\ \A x \in new : x.type = "MEMBERSHIP" /\ x.group = g0
  <2>. HIDE DEF m, r
  <2>1. PICK new : Grown(r.incoming[q], m.incoming[q], new)
                   /\ \A x \in new : x.type = "MEMBERSHIP" /\ x.group = g0
    BY <1>1, JoinedGrown
  <2>2. Moved(net.incoming[q], m.incoming[q], IF q = s THEN 1 ELSE 0, new)
    BY <1>0, <1>1, <2>1, TakenMoved
  <2>. QED
    BY <2>1, <2>2
<1>4. \A h : AsksKept(h)
  <2>1. \A t \in Servers : \E d, new : /\ Moved(net.incoming[t], net'.incoming[t], d, new)
                                       /\ \A x \in new : x.type = "MEMBERSHIP"
    BY <1>3, Processes
  <2>. QED
    BY <1>0, <2>1, MembershipsAskNobody
<1>5. ASSUME NEW c \in Clients \cap net'.up
      PROVE  Handshake(c)'
  <2>0. c \in net.up /\ c \in Proc /\ c # s
    BY <1>2, Processes
  <2>1. Handshake(c)
    BY <2>0, HandshakesOf DEF CalmGround
  <2>2. KeepsSession(c) /\ (Opening(c)' <=> Opening(c)) /\ client'[c] = client[c]
    BY <1>1, ClientUnmoved
  <2>3. PICK g : g = client[c].connection_group
    OBVIOUS
  <2>4. CASE g \notin SessionId
    <3>1. ~client[c].connected
      BY <2>0, <2>3, <2>4, SessionlessClient
    <3>. QED
      BY <2>2, <2>3, <2>4, <3>1, NoSession
  <2>5. CASE g \in SessionId /\ g # g0
    <3>1. PICK new : /\ Moved(net.incoming[c], net'.incoming[c], 0, new)
                     /\ \A x \in new : x.type = "MEMBERSHIP" /\ x.group = g0
      BY <1>3, <2>0
    <3>2. ToldOn(c, g, 0, new)
      BY <2>5, <3>1 DEF ToldOn, JoinOf, LeaveOf, About
    <3>3. m.members[g] = net.members[g]
      BY <1>2, <2>5
    <3>. QED
      BY <1>0, <1>4, <2>0, <2>1, <2>2, <2>3, <3>2, <3>3, HandshakeKept
  <2>6. CASE g = g0
    <3>. DEFINE old == net.incoming[c]
                now == net'.incoming[c]
                ask == net.incoming[s]
                asks == net'.incoming[s]
    <3>1. /\ ask \in Seq(Receives(Made, s)) /\ asks \in Seq(Receives(Made, s))
          /\ old \in Seq(Receives(Made, c)) /\ now \in Seq(Receives(Made, c))
      BY <1>0, <1>1, <2>0, NetworkFields
    <3>2. 1 \in DOMAIN ask /\ ask[1] = Connect(g) /\ Connect(g) \in Coming(s)
      BY <1>1, <2>6, <3>1 DEF Coming, Range
    <3>3. /\ Opening(c) /\ ~Met(c) /\ ~Deserted(c) /\ net.members[g] \cap Servers = {}
          /\ \A i, j \in DOMAIN ask : ask[i] = Connect(g) /\ ask[j] = Connect(g) => i = j
      BY <2>1, <2>3, <3>2 DEF Handshake, AskedOnce
    <3>4. Unasked(g)'
      <4>. SUFFICES ASSUME NEW t \in Servers, Connect(g) \in Coming(t)'
                    PROVE  FALSE
        BY DEF Unasked, Coming, Connect
      <4>1. Connect(g) \in Coming(t)
        <5>1. PICK i \in DOMAIN net'.incoming[t] : net'.incoming[t][i] = Connect(g)
          BY DEF Coming, Range
        <5>2. PICK e \in {0, 1} : i + e \in DOMAIN net.incoming[t] /\ net.incoming[t][i + e] = Connect(g)
          BY <1>4, <5>1 DEF AsksKept
        <5>. QED
          BY <5>2 DEF Coming, Range
      <4>2. t = s
        BY <1>0, <2>6, <3>2, <4>1 DEF OrderlyInv, OneHolder, Holds
      <4>3. PICK i \in DOMAIN asks : asks[i] = Connect(g)
        BY <4>2 DEF Coming, Range
      <4>4. PICK new : Moved(ask, asks, 1, new) /\ \A x \in new : x.type = "MEMBERSHIP" /\ x.group = g0
        BY <1>0, <1>3
      <4>5. asks[i] \notin new
        BY <4>3, <4>4 DEF Connect
      <4>6. i + 1 \in DOMAIN ask /\ asks[i] = ask[i + 1]
        <5>. HIDE DEF ask, asks
        <5>. QED
          BY <3>1, <4>3, <4>4, <4>5, MovedPlaces
      <4>7. i + 1 = 1
        BY <3>2, <3>3, <4>3, <4>6
      <4>8. i \in 1 .. Len(asks)
        BY <3>1, <4>3
      <4>. QED
        BY <4>7, <4>8
    <3>5. Greeted(r, s, g, c)
      <4>1. c \in net.members[g]
        BY <1>0, <2>0, <2>3, <2>6, <3>3 DEF MembersAgree, Opening
      <4>2. net.side[c] = net.side[s]
        BY <1>0, <2>0, OneSide
      <4>. QED
        BY <1>2, <3>3, <4>1, <4>2 DEF Greeted
    <3>6. /\ Grown(old, now, {Told(m, c, g, "join")}) /\ Len(now) = Len(old) + 1
      BY <1>1, <1>2, <2>0, <2>6, <3>5 DEF JoinedBy
    <3>7. /\ DOMAIN old = 1 .. Len(old) /\ DOMAIN now = 1 .. Len(now) /\ Len(old) \in Nat
          /\ \A i \in 1 .. Len(old) : now[i] = old[i]
          /\ now[Len(old) + 1] = Told(m, c, g, "join")
      BY <3>1, <3>6 DEF Grown
    <3>8. \A i \in 1 .. Len(old) : ~JoinOf(now[i], g) /\ ~LeaveOf(now[i], g)
      <4>1. \A i \in 1 .. Len(old) : now[i] \in Coming(c)
        BY <3>7 DEF Coming, Range
      <4>. QED
        BY <2>3, <3>3, <4>1 DEF Met, Deserted
    <3>9. ~LeaveOf(Told(m, c, g, "join"), g)
      BY DEF LeaveOf, MemberHasLeft, Told
    <3>10. \A i \in DOMAIN now : ~LeaveOf(now[i], g) /\ (JoinOf(now[i], g) => i = Len(old) + 1)
      <4>. HIDE DEF old, now
      <4>1. \A i \in DOMAIN now : i \in 1 .. Len(old) \/ i = Len(old) + 1
        BY <3>6, <3>7
      <4>. QED
        BY <3>7, <3>8, <3>9, <4>1
    <3>11. AskedOnce(c, g)'
      BY <3>4 DEF AskedOnce, Unasked
    <3>12. ToldInOrder(c, g)'
      BY <2>2, <3>3, <3>10 DEF ToldInOrder, JoinOf, LeaveOf, About, TwoAreHere, MemberHasLeft
    <3>13. client[c].connected_server = s
      BY <1>0, <2>0, <2>3, <2>6, <3>2, SessionNames DEF OrderlyInv, RightServer, Holds
    <3>14. StaysOrTells(c, g)'
      <4>1. InSession(c)'
        BY <2>2, <3>3 DEF KeepsSession, Opening
      <4>2. s \in m.members[g]
        BY <1>2, <2>6
      <4>. QED
        BY <2>2, <3>13, <4>1, <4>2 DEF StaysOrTells
    <3>. QED
      BY <2>2, <2>3, <3>11, <3>12, <3>14 DEF Handshake
  <2>. QED
    BY <2>4, <2>5, <2>6
<1>. QED
  BY <1>5, HandshakesNext

(* ConnectToServer, seen by the other clients.                             *)
LEMMA OpensAside ==
  ASSUME CalmGround, TypeOK', NEW a \in Clients, NEW s \in Servers, NEW k, NEW g \in SessionId,
         NEW n, NEW j, Opens(a, s, k, g, n, j), NEW c \in Clients \cap net.up, c # a
  PROVE  Handshake(c)'
<1>0. /\ Ground /\ TypeOK /\ SessionsDrawn /\ MembersAgree /\ SeedsDiffer /\ a \in Proc /\ c \in Proc
  BY Processes DEF CalmGround, Ground, Calm, Orderly
<1>1. Handshake(c) /\ client'[c] = client[c]
  BY HandshakesOf DEF CalmGround, Opens
<1>2. KeepsSession(c) /\ (Opening(c)' <=> Opening(c))
  BY <1>1, ClientUnmoved
<1>3. PICK h : h = client[c].connection_group
  OBVIOUS
<1>4. CASE h \notin SessionId
  BY <1>1, <1>2, <1>3, <1>4, SessionlessClient, NoSession
<1>5. CASE h \in SessionId
  <2>1. g = <<Seed[a], k.draw>>
    BY DEF Opens, SessionIdOf
  <2>2. h # g
    BY <1>0, <1>3, <2>1, GroupsDiffer
  <2>3. h # client[a].connection_group
    <3>1. client[a].connection_group \in {None} \cup {<<Seed[a], i>> : i \in 1 .. client[a].draw}
      BY <1>0 DEF SessionsDrawn
    <3>. QED
      BY <1>0, <1>3, <1>5, <3>1, GroupsDiffer, SessionNames
  <2>4. ASSUME NEW q \in Proc
        PROVE  \E new : /\ Moved(net.incoming[q], net'.incoming[q], 0, new)
                        /\ \A x \in new : ~JoinOf(x, h) /\ ~LeaveOf(x, h)
                        /\ Connect(h) \notin new
    <3>1. OpensHeard(a, s, g, n, j, q)
      BY <1>0, OpensGrown
    <3>2. PICK left, joined, sent :
            /\ Grown(net.incoming[q], net'.incoming[q], left \cup joined \cup sent)
            /\ \A x \in left : x.type = "MEMBERSHIP" /\ x.group = client[a].connection_group
            /\ \A x \in joined : x.type = "MEMBERSHIP" /\ x.group = g
            /\ sent \subseteq {Connect(g)}
      BY <3>1 DEF OpensHeard
    <3>3. PICK new : new = left \cup joined \cup sent
      OBVIOUS
    <3>4. Moved(net.incoming[q], net'.incoming[q], 0, new)
      BY <1>0, <3>2, <3>3, GrownMovedNext
    <3>5. ASSUME NEW x \in new
          PROVE  ~JoinOf(x, h) /\ ~LeaveOf(x, h) /\ x # Connect(h)
      <4>1. CASE x.type = "MEMBERSHIP" /\ x.group # h
        BY <4>1 DEF JoinOf, LeaveOf, About, Connect
      <4>2. CASE x = Connect(g)
        BY <2>2, <4>2 DEF JoinOf, LeaveOf, About, Connect
      <4>. QED
        BY <2>2, <2>3, <3>2, <3>3, <3>5, <4>1, <4>2
    <3>. QED
      BY <3>4, <3>5
  <2>5. AsksKept(h)
    <3>1. \A t \in Servers : \E d, new : /\ Moved(net.incoming[t], net'.incoming[t], d, new)
                                         /\ Connect(h) \notin new
      BY <2>4, Processes
    <3>. QED
      BY <1>0, <3>1, AsksStay
  <2>6. PICK new : /\ Moved(net.incoming[c], net'.incoming[c], 0, new)
                   /\ \A x \in new : ~JoinOf(x, h) /\ ~LeaveOf(x, h)
    BY <1>0, <2>4
  <2>7. ToldOn(c, h, 0, new)
    BY <2>6 DEF ToldOn
  <2>8. \A q : q # a => (q \in net'.members[h] <=> q \in net.members[h])
    BY <1>0, <1>5, OpensGroups
  <2>9. net'.members[h] \cap Servers \subseteq net.members[h]
    BY <2>8, Processes
  <2>10. client[c].connected_server # a
    BY <1>0, ClientTypes, Processes, NoneAssumption
  <2>. QED
    BY <1>0, <1>1, <1>2, <1>3, <2>5, <2>7, <2>8, <2>9, <2>10, HandshakeKept
<1>. QED
  BY <1>4, <1>5

(* ConnectToServer, for the client itself: nobody else knows the group, so *)
(* that only the server it asks can come in.                               *)
LEMMA OpensHandshake ==
  ASSUME CalmGround, TypeOK', NEW a \in Clients, NEW s \in Servers, NEW k, NEW g \in SessionId,
         NEW n, NEW j, Opens(a, s, k, g, n, j)
  PROVE  Handshake(a)'
<1>0. /\ Ground /\ TypeOK /\ Orderly /\ OrderlyInv /\ Hasty = {} /\ a \in Proc /\ a # s
  BY Processes DEF CalmGround, Ground, Calm
<1>1. Unheard(a, g)
  BY <1>0, OpensUnheard
<1>2. /\ client'[a].connection_group = g /\ client'[a].connected_server = s /\ client'[a].connected = FALSE
      /\ client'[a].draw = k.draw /\ client'[a].timer = client[a].timer /\ g = <<Seed[a], k.draw>>
      /\ MayType(a)
  BY DEF Opens, SessionIdOf
<1>3. Opening(a)'
  <2>1. client[a].timer = 0
    BY <1>0, <1>2 DEF MayType
  <2>2. InSession(a)'
    BY <1>2 DEF InSession, SessionIdOf
  <2>. QED
    BY <1>2, <2>1, <2>2 DEF Opening
<1>4. \A x \in Coming(a)' : ~JoinOf(x, g) /\ ~LeaveOf(x, g)
  <2>1. \A x \in Coming(a)' :
           \/ x \in Coming(a)
           \/ x.cause = "join" /\ x.n_connected = 1
    BY <1>0, <1>1, OpensAlone
  <2>2. \A x \in Coming(a) : ~About(x, g)
    BY <1>1 DEF Unheard
  <2>. QED
    BY <2>1, <2>2 DEF JoinOf, LeaveOf, TwoAreHere, MemberHasLeft
<1>5. ~Met(a)' /\ ~Deserted(a)'
  BY <1>2, <1>4 DEF Met, Deserted, JoinOf, LeaveOf, About, TwoAreHere, MemberHasLeft
<1>6. net'.members[g] \cap Servers = {}
  <2>1. \A q : q # a => (q \in net'.members[g] <=> q \in net.members[g])
    BY <1>0, OpensGroups
  <2>2. net.members[g] \cap Servers = {}
    BY <1>1 DEF Unheard, Holds
  <2>. QED
    BY <2>1, <2>2, Processes
<1>7. ASSUME NEW t \in Servers
      PROVE  \A i \in DOMAIN net'.incoming[t] :
               net'.incoming[t][i] = Connect(g) => i = Len(j.incoming[t]) + 1
  <2>. DEFINE mid == j.incoming[t]
              now == net'.incoming[t]
  <2>0. t \in Proc /\ Connect(g) \notin Range(net.incoming[t])
    BY <1>1, Processes DEF Unheard, Holds, Coming
  <2>1. /\ n \in NetworkOf(Made) /\ j \in NetworkOf(Made) /\ net' \in NetworkOf(Made)
        /\ net \in NetworkOf(Made) /\ SentTo(j, net', Within(j, a, {s}), Connect(g))
    BY <1>0, NetTypes DEF Opens
  <2>2. /\ net.incoming[t] \in Seq(Receives(Made, t)) /\ n.incoming[t] \in Seq(Receives(Made, t))
        /\ mid \in Seq(Receives(Made, t)) /\ now \in Seq(Receives(Made, t))
    BY <2>0, <2>1, NetworkFields
  <2>3. PICK left, joined :
          /\ Grown(net.incoming[t], n.incoming[t], left) /\ Grown(n.incoming[t], mid, joined)
          /\ \A x \in left \cup joined : x.type = "MEMBERSHIP"
    <3>1. OpensHeard(a, s, g, n, j, t)
      BY <1>0, <2>0, OpensGrown
    <3>. QED
      BY <3>1 DEF OpensHeard
  <2>4. Range(mid) = Range(net.incoming[t]) \cup left \cup joined
    <3>. HIDE DEF mid
    <3>. QED
      BY <2>2, <2>3, GrownRange
  <2>5. Connect(g) \notin Range(mid)
    BY <2>0, <2>3, <2>4 DEF Connect
  <2>6. /\ Len(now) <= Len(mid) + 1 /\ \A i \in 1 .. Len(mid) : now[i] = mid[i]
    <3>1. CASE t \in Within(j, a, {s})
      BY <2>0, <2>1, <2>2, <3>1 DEF SentTo, Grown
    <3>2. CASE t \notin Within(j, a, {s})
      <4>1. now = mid
        BY <2>0, <2>1, <3>2 DEF SentTo
      <4>. HIDE DEF now, mid
      <4>2. Len(mid) \in Nat
        BY <2>2
      <4>. QED
        BY <4>1, <4>2
    <3>. QED
      BY <3>1, <3>2
  <2>. HIDE DEF mid, now
  <2>7. ASSUME NEW i \in DOMAIN now, now[i] = Connect(g)
        PROVE  i = Len(mid) + 1
    <3>1. i \in 1 .. Len(now) /\ Len(mid) \in Nat /\ Len(now) \in Nat /\ DOMAIN mid = 1 .. Len(mid)
      BY <2>2
    <3>2. i \notin 1 .. Len(mid)
      BY <2>5, <2>6, <2>7, <3>1 DEF Range
    <3>. QED
      BY <2>6, <3>1, <3>2
  <2>. QED
    BY <2>7 DEF mid, now
<1>8. AskedOnce(a, g)'
  BY <1>3, <1>5, <1>6, <1>7 DEF AskedOnce
<1>9. \A i \in DOMAIN net'.incoming[a] : net'.incoming[a][i] \in Coming(a)'
  BY DEF Coming, Range
<1>10. ToldInOrder(a, g)'
  BY <1>4, <1>5, <1>9 DEF ToldInOrder, JoinOf, LeaveOf, About, TwoAreHere, MemberHasLeft
<1>11. StaysOrTells(a, g)'
  BY <1>2, <1>5 DEF StaysOrTells
<1>. QED
  BY <1>2, <1>8, <1>10, <1>11 DEF Handshake

(* ConnectToServer.                                                        *)
LEMMA ConnectToServerCalm ==
  ASSUME CalmGround, TypeOK', NEW a \in Clients, NEW s \in Servers, ConnectToServer(a, s)
  PROVE  Handshakes'
<1>0. Ground
  BY DEF CalmGround
<1>1. PICK k, g, n, j : g \in SessionId /\ Opens(a, s, k, g, n, j)
  BY <1>0, ConnectEffect
<1>2. net'.up = net.up
  BY <1>0, <1>1, OpensGroups
<1>3. \A c \in Clients \cap net'.up : Handshake(c)'
  BY <1>1, <1>2, OpensAside, OpensHandshake
<1>. QED
  BY <1>3, HandshakesNext

(* The third part is kept by every step.                                   *)
LEMMA CalmKept ==
  ASSUME CalmGround, [Next]_vars
  PROVE  Handshakes'
<1>1. Ground /\ TypeOK /\ TypeOK'
  BY GroundStep DEF CalmGround, Ground
<1>2. CASE Aside
  <2>1. QuietStep
    BY <1>1, <1>2, AsideHarmless DEF Harmless
  <2>. QED
    BY <1>1, <2>1, AsideCalm
<1>3. ASSUME \/ \E c \in Clients, s \in Servers : ConnectToServer(c, s)
             \/ \E c \in Clients : Goodbye(c) \/ ClientMembership(c) \/ HandleTimeout(c)
             \/ \E s \in Servers : ServerConnect(s) \/ ServerMembership(s) \/ Crash(s) \/ Restart(s)
      PROVE  Handshakes'
  BY <1>1, <1>3, ConnectToServerCalm, GoodbyeCalm, ClientMembershipCalm, HandleTimeoutCalm,
     ServerConnectCalm, ServerMembershipCalm, CrashCalm, RestartCalm, Zenon
<1>4. ASSUME NetworkChange
      PROVE  FALSE
  <2>1. budget["changes"] < MaxNetChanges
    BY <1>4 DEF NetworkChange, Spend
  <2>2. budget.changes \in 0 .. MaxNetChanges /\ MaxNetChanges = 0
    BY <1>1, BudgetTypes DEF CalmGround, Calm
  <2>. QED
    BY <2>1, <2>2
<1>5. CASE UNCHANGED vars
  <2>1. Handshakes
    BY DEF CalmGround
  <2>. QED
    BY <1>5, <2>1 DEF vars, Handshakes, AskedOnce, ToldInOrder, StaysOrTells, Opening, InSession, SessionIdOf,
       Met, Deserted, Coming, JoinOf, LeaveOf, About, TwoAreHere, MemberHasLeft
<1>. QED
  BY <1>2, <1>3, <1>4, <1>5, StepKinds DEF Telltale

(* And it is there from the start.                                         *)
LEMMA CalmInit ==
  ASSUME Init
  PROVE  Handshakes
<1>1. /\ \A p \in Proc : net.incoming[p] = <<>>
      /\ \A c \in Clients : ~client[c].connected
  BY DEF Init, Quiescent, Start
<1>2. \A p \in Proc : Coming(p) = {} /\ DOMAIN net.incoming[p] = {}
  BY <1>1 DEF Coming, Range
<1>3. ASSUME NEW c \in Clients
      PROVE  Handshake(c)
  <2>1. ~Met(c) /\ c \in Proc
    BY <1>2, Processes DEF Met
  <2>2. AskedOnce(c, client[c].connection_group)
    BY <1>2, Processes DEF AskedOnce
  <2>3. ToldInOrder(c, client[c].connection_group)
    BY <1>2, <2>1 DEF ToldInOrder
  <2>. QED
    BY <1>1, <2>1, <2>2, <2>3 DEF Handshake, StaysOrTells
<1>. QED
  BY <1>3, HandshakesOf

-----------------------------------------------------------------------------
(* SessionInv: what clients, servers and the network believe of the        *)
(* sessions, and what is on its way to them, fits together, whatever users *)
(* and servers do (process_membership_message of both programs,            *)
(* connect_to_server, disconnect, end_connection); more of it when users   *)
(* wait for their connections.                                             *)
THEOREM SessionInvariant == Spec => []SessionInv
<1>. DEFINE I == Ground /\ (Orderly => OrderlyInv) /\ (Calm => Handshakes)
<1>1. Init => I
  BY GroundInit, OrderlyInit, CalmInit
<1>2. I /\ [Next]_vars => I'
  <2>. SUFFICES ASSUME I, [Next]_vars
                PROVE  I'
    OBVIOUS
  <2>1. Orderly' = Orderly /\ Calm' = Calm
    BY DEF Calm, Orderly, SeedsDiffer
  <2>2. Calm => CalmGround
    BY DEF CalmGround, Calm
  <2>. QED
    BY <2>1, <2>2, GroundStep, OrderlyKept, CalmKept
<1>3. I => SessionInv
  BY DEF SessionInv, Ground, OrderlyInv
<1>. HIDE DEF I
<1>. QED
  BY <1>1, <1>2, <1>3, PTL DEF Spec

(* QuietAgreement: when nothing is under way, a client that believes to be *)
(* connected shares its connect group with the server it names and nobody  *)
(* else, and that server serves the session, although both have only       *)
(* counted members (process_membership_message): for users who wait for    *)
(* connections, answers and timers, on a network that stays whole.         *)
THEOREM QuietlyAgreed ==
  ASSUME SeedsDiffer, Hasty = {}, MaxNetChanges = 0
  PROVE  Spec => []QuietAgreement
<1>1. SessionInv => QuietAgreement
  <2>. SUFFICES ASSUME SessionInv, Quiet, NEW c \in Clients, client[c].connected
                PROVE  LET g == client[c].connection_group
                           s == client[c].connected_server
                       IN  net.members[g] = {c, s} /\ g \in node[s].client_connections
    BY DEF QuietAgreement
  <2>1. PICK g, s : g = client[c].connection_group /\ s = client[c].connected_server
    OBVIOUS
  <2>2. Calm /\ CalmGround /\ Ground /\ TypeOK /\ MembersAgree
    BY DEF SessionInv, Calm, CalmGround, Orderly, Ground, OrderlyInv
  <2>3. c \in net.up /\ c \in Proc
    BY <2>2, Processes DEF MembersAgree, Start
  <2>4. \A p \in Proc : Coming(p) = {}
    BY DEF Quiet, Coming, Range
  <2>5. InSession(c) /\ s \in net.members[g]
    <3>1. Handshake(c) /\ ~Deserted(c)
      BY <2>2, <2>3, <2>4, HandshakesOf DEF CalmGround, Deserted
    <3>. QED
      BY <2>1, <3>1 DEF Handshake, StaysOrTells
  <2>6. g \in SessionId
    <3>1. client[c].draw \in 1 .. MaxConnects + 1
      BY <2>2, ClientTypes
    <3>. QED
      BY <2>1, <2>5, <3>1, SessionIdTyped DEF InSession
  <2>7. net.members \in [SessionId -> SUBSET Proc] /\ net.members[g] \subseteq Proc
    BY <2>2, <2>6, NetTypes
  <2>8. s \in Servers /\ s # c
    BY <2>1, <2>2, <2>5, <2>7, ClientTypes, Processes, NoneAssumption
  <2>9. c \in net.members[g] /\ g \in node[s].client_connections
    BY <2>1, <2>2, <2>3, <2>5, <2>6, <2>8 DEF MembersAgree
  <2>10. Present(net, s, g) = net.members[g]
    BY <2>2, <2>7, <2>8, OneSide, Processes DEF Present
  <2>11. Cardinality(net.members[g]) = 2
    <3>1. Counted(net, s, g) /\ ~Doomed(net, s, g)
      BY <2>2, <2>4, <2>6, <2>8, Processes DEF Ground, CountsReported, Doomed, Coming
    <3>. QED
      BY <2>5, <2>10, <3>1 DEF Counted
  <2>12. net.members[g] = {c, s}
    <3>1. IsFiniteSet(net.members[g])
      BY <2>6, <2>7, <2>10, PresentCount
    <3>. QED
      BY <2>5, <2>8, <2>9, <2>11, <3>1, PairCount
  <2>. QED
    BY <2>1, <2>9, <2>12
<1>. QED
  BY <1>1, SessionInvariant, PTL
=============================================================================
