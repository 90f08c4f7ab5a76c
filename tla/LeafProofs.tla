----------------------------- MODULE LeafProofs -----------------------------
(***************************************************************************)
(* Proofs about LeafMinter: for every capacity, lifetime and number of     *)
(* handshakes the map, the list and the gauge agree, the leaves served are *)
(* valid, and the cache implements LruCache.                               *)
(***************************************************************************)
EXTENDS LeafMinter, FiniteSetTheorems, SequenceTheorems, TLAPS

-----------------------------------------------------------------------------
(* Lists that hold each of their elements once *)

\* The list s holds the elements of D, each once.
Lists(s, D) ==
    /\ \A i, j \in 1..Len(s) : s[i] = s[j] => i = j
    /\ D = {s[i] : i \in 1..Len(s)}

\* What list.Remove leaves of a list, index by index.
LEMMA RemoveAtIs ==
    ASSUME NEW S, NEW s \in Seq(S), NEW i \in 1..Len(s)
    PROVE  /\ RemoveAt(s, i) \in Seq(S)
           /\ Len(RemoveAt(s, i)) = Len(s) - 1
           /\ \A j \in 1..Len(s) - 1 :
                RemoveAt(s, i)[j] = IF j < i THEN s[j] ELSE s[j + 1]
<1> DEFINE a == SubSeq(s, 1, i - 1)
           b == SubSeq(s, i + 1, Len(s))
<1>1. Len(s) \in Nat /\ i \in Int
    OBVIOUS
<1>2. \A j \in 1..Len(s) : s[j] \in S
    BY ElementOfSeq
<1>3. /\ a \in Seq(S)
      /\ Len(a) = i - 1
      /\ \A j \in 1..i - 1 : a[j] = s[j]
    <2>1. \A j \in 1..i - 1 : s[j] \in S
        BY <1>1, <1>2
    <2>2. /\ a \in Seq(S)
          /\ Len(a) = IF 1 <= i - 1 THEN (i - 1) - 1 + 1 ELSE 0
          /\ \A j \in 1..(i - 1) - 1 + 1 : a[j] = s[1 + j - 1]
        BY <1>1, <2>1, SubSeqProperties
    <2> QED
        BY <1>1, <2>2
<1>4. /\ b \in Seq(S)
      /\ Len(b) = Len(s) - i
      /\ \A j \in 1..Len(s) - i : b[j] = s[i + j]
    <2>1. \A j \in i + 1..Len(s) : s[j] \in S
        BY <1>1, <1>2
    <2>2. /\ b \in Seq(S)
          /\ Len(b) = IF i + 1 <= Len(s) THEN Len(s) - (i + 1) + 1 ELSE 0
          /\ \A j \in 1..Len(s) - (i + 1) + 1 : b[j] = s[(i + 1) + j - 1]
        BY <1>1, <2>1, SubSeqProperties
    <2>3. \A j \in 1..Len(s) - i : b[j] = s[i + j]
        <3> TAKE j \in 1..Len(s) - i
        <3>1. (i + 1) + j - 1 = i + j /\ j \in 1..Len(s) - (i + 1) + 1
            BY <1>1
        <3> QED
            BY <2>2, <3>1
    <2> QED
        BY <1>1, <2>2, <2>3
<1>5. RemoveAt(s, i) = a \o b
    BY DEF RemoveAt
<1>6. /\ a \o b \in Seq(S)
      /\ Len(a \o b) = Len(a) + Len(b)
      /\ \A j \in 1..Len(a) + Len(b) :
           (a \o b)[j] = IF j <= Len(a) THEN a[j] ELSE b[j - Len(a)]
    BY <1>3, <1>4, ConcatProperties
<1>7. \A j \in 1..Len(s) - 1 : (a \o b)[j] = IF j < i THEN s[j] ELSE s[j + 1]
    <2> HIDE DEF a, b
    <2> TAKE j \in 1..Len(s) - 1
    <2>1. CASE j < i
        <3>1. j \in 1..i - 1 /\ j <= Len(a) /\ j \in 1..Len(a) + Len(b)
            BY <1>1, <1>3, <1>4, <2>1
        <3> QED
            BY <1>3, <1>6, <2>1, <3>1
    <2>2. CASE ~(j < i)
        <3>1. /\ j \in 1..Len(a) + Len(b) /\ ~(j <= Len(a))
              /\ j - Len(a) \in 1..Len(s) - i
              /\ i + (j - Len(a)) = j + 1
            BY <1>1, <1>3, <1>4, <2>2
        <3>2. b[j - Len(a)] = s[j + 1]
            BY <1>4, <3>1
        <3> QED
            BY <1>6, <2>2, <3>1, <3>2
    <2> QED
        BY <2>1, <2>2
<1> HIDE DEF a, b
<1>8. Len(a \o b) = Len(s) - 1
    BY <1>1, <1>3, <1>4, <1>6
<1> QED
    BY <1>5, <1>6, <1>7, <1>8

\* Removing an entry of a list without duplicates removes that element only.
LEMMA RemoveLists ==
    ASSUME NEW S, NEW s \in Seq(S), NEW D, Lists(s, D), NEW i \in 1..Len(s)
    PROVE  Lists(RemoveAt(s, i), D \ {s[i]})
<1> DEFINE r == RemoveAt(s, i)
<1>0. /\ Len(r) = Len(s) - 1
      /\ \A j \in 1..Len(s) - 1 : r[j] = IF j < i THEN s[j] ELSE s[j + 1]
    BY RemoveAtIs
<1>1. /\ Len(s) \in Nat
      /\ Len(r) = Len(s) - 1
      /\ \A j \in 1..Len(s) - 1 : r[j] = IF j < i THEN s[j] ELSE s[j + 1]
    <2> HIDE DEF r
    <2> QED
        BY <1>0
<1> HIDE DEF r
<1>2. \A j, k \in 1..Len(r) : r[j] = r[k] => j = k
    <2> SUFFICES ASSUME NEW j \in 1..Len(r), NEW k \in 1..Len(r), r[j] = r[k]
                 PROVE  j = k
        OBVIOUS
    <2> DEFINE p == IF j < i THEN j ELSE j + 1
               q == IF k < i THEN k ELSE k + 1
    <2>1. p \in 1..Len(s) /\ q \in 1..Len(s) /\ r[j] = s[p] /\ r[k] = s[q]
        BY <1>1
    <2>2. p = q
        BY <2>1 DEF Lists
    <2> QED
        BY <1>1, <2>2
<1>3. \A j \in 1..Len(r) : r[j] \in D \ {s[i]}
    <2> TAKE j \in 1..Len(r)
    <2> DEFINE p == IF j < i THEN j ELSE j + 1
    <2>1. p \in 1..Len(s) /\ p # i /\ r[j] = s[p]
        BY <1>1
    <2> HIDE DEF p
    <2>2. s[p] # s[i]
        BY <2>1 DEF Lists
    <2> QED
        BY <2>1, <2>2 DEF Lists
<1>4. ASSUME NEW d \in D \ {s[i]}
      PROVE  \E j \in 1..Len(r) : r[j] = d
    <2>1. PICK k \in 1..Len(s) : s[k] = d
        BY <1>4 DEF Lists
    <2>2. k # i
        BY <2>1
    <2>3. CASE k < i
        <3>1. k \in 1..Len(r) /\ k \in 1..Len(s) - 1 /\ r[k] = s[k]
            BY <1>1, <2>3
        <3> QED
            BY <2>1, <3>1
    <2>4. CASE k > i
        <3>1. k - 1 \in 1..Len(r) /\ k - 1 \in 1..Len(s) - 1 /\ ~(k - 1 < i) /\ (k - 1) + 1 = k
            BY <1>1, <2>4
        <3>2. r[k - 1] = s[k]
            BY <1>1, <3>1
        <3> QED
            BY <2>1, <3>1, <3>2
    <2> QED
        BY <1>1, <2>2, <2>3, <2>4
<1>5. D \ {s[i]} = {r[j] : j \in 1..Len(r)}
    BY <1>3, <1>4
<1>6. Lists(r, D \ {s[i]})
    BY <1>2, <1>5, Zenon DEF Lists
<1> QED
    BY <1>6 DEF r

\* A new element put in front of the list.
LEMMA PrependLists ==
    ASSUME NEW S, NEW s \in Seq(S), NEW D, Lists(s, D), NEW e \in S, e \notin D
    PROVE  /\ <<e>> \o s \in Seq(S)
           /\ Len(<<e>> \o s) = Len(s) + 1
           /\ Lists(<<e>> \o s, D \cup {e})
<1> DEFINE r == <<e>> \o s
<1>1. Len(s) \in Nat /\ <<e>> \in Seq(S) /\ Len(<<e>>) = 1 /\ <<e>>[1] = e
    OBVIOUS
<1>2. /\ r \in Seq(S)
      /\ Len(r) = Len(s) + 1
      /\ \A j \in 1..Len(s) + 1 : r[j] = IF j = 1 THEN e ELSE s[j - 1]
    <2>1. /\ r \in Seq(S)
          /\ Len(r) = 1 + Len(s)
          /\ \A j \in 1..1 + Len(s) : r[j] = IF j <= 1 THEN <<e>>[j] ELSE s[j - 1]
        BY <1>1, ConcatProperties
    <2> HIDE DEF r
    <2>2. \A j \in 1..Len(s) + 1 : r[j] = IF j = 1 THEN e ELSE s[j - 1]
        BY <1>1, <2>1
    <2> QED
        BY <1>1, <2>1, <2>2
<1> HIDE DEF r
<1>3. \A j, k \in 1..Len(r) : r[j] = r[k] => j = k
    <2> SUFFICES ASSUME NEW j \in 1..Len(r), NEW k \in 1..Len(r), r[j] = r[k]
                 PROVE  j = k
        OBVIOUS
    <2>1. \A l \in 1..Len(r) : l # 1 => l - 1 \in 1..Len(s) /\ r[l] = s[l - 1] /\ r[l] # e
        <3> TAKE l \in 1..Len(r)
        <3> HAVE l # 1
        <3>1. l - 1 \in 1..Len(s) /\ r[l] = s[l - 1]
            BY <1>1, <1>2
        <3> QED
            BY <3>1 DEF Lists
    <2>2. r[1] = e
        BY <1>1, <1>2
    <2>3. CASE j = 1 \/ k = 1
        BY <2>1, <2>2, <2>3
    <2>4. CASE j # 1 /\ k # 1
        <3>1. j - 1 = k - 1
            BY <2>1, <2>4 DEF Lists
        <3> QED
            BY <1>1, <1>2, <3>1
    <2> QED
        BY <2>3, <2>4
<1>4. \A j \in 1..Len(r) : r[j] \in D \cup {e}
    <2> TAKE j \in 1..Len(r)
    <2>1. j # 1 => j - 1 \in 1..Len(s)
        BY <1>1, <1>2
    <2> QED
        BY <1>1, <1>2, <2>1 DEF Lists
<1>5. ASSUME NEW d \in D \cup {e}
      PROVE  \E j \in 1..Len(r) : r[j] = d
    <2>1. CASE d = e
        BY <1>1, <1>2, <2>1
    <2>2. CASE d \in D
        <3>1. PICK k \in 1..Len(s) : s[k] = d
            BY <2>2 DEF Lists
        <3>2. k + 1 \in 1..Len(r) /\ k + 1 # 1 /\ (k + 1) - 1 = k
            BY <1>1, <1>2
        <3>3. r[k + 1] = d
            BY <1>2, <3>1, <3>2
        <3> QED
            BY <3>2, <3>3
    <2> QED
        BY <2>1, <2>2
<1>6. D \cup {e} = {r[j] : j \in 1..Len(r)}
    BY <1>4, <1>5
<1>7. Lists(r, D \cup {e})
    BY <1>3, <1>6, Zenon DEF Lists
<1> QED
    BY <1>2, <1>7 DEF r

\* The number of names in the map is the length of the list.
LEMMA ListsCardinality ==
    ASSUME NEW S, NEW s \in Seq(S), NEW D, Lists(s, D)
    PROVE  IsFiniteSet(D) /\ Cardinality(D) = Len(s)
<1>1. Len(s) \in Nat /\ s \in [1..Len(s) -> S]
    BY LenProperties
<1>2. s \in [1..Len(s) -> D]
    BY <1>1 DEF Lists
<1>3. ExistsBijection(1..Len(s), D)
    BY <1>2 DEF Lists, ExistsBijection, Bijection, Injection, Surjection, IsInjective
<1>4. IsFiniteSet(1..Len(s)) /\ Cardinality(1..Len(s)) = Len(s)
    BY <1>1, FS_Interval
<1> QED
    BY <1>3, <1>4, FS_Bijection

-----------------------------------------------------------------------------
(* The invariant *)

\* Coherent in terms of Lists.
LEMMA CoherentLists ==
    ASSUME TypeOK
    PROVE  (/\ \A i, j \in DOMAIN lru : lru[i] = lru[j] => i = j
            /\ DOMAIN entries = {lru[i] : i \in DOMAIN lru})
           <=> Lists(lru, DOMAIN entries)
<1>1. DOMAIN lru = 1..Len(lru)
    BY LenProperties DEF TypeOK
<1> QED
    BY <1>1, Zenon DEF Lists

\* The same of the next state.
LEMMA CoherentListsNext ==
    ASSUME lru' \in Seq(Names)
    PROVE  (/\ \A i, j \in DOMAIN lru' : lru'[i] = lru'[j] => i = j
            /\ DOMAIN entries' = {lru'[i] : i \in DOMAIN lru'})
           <=> Lists(lru', DOMAIN entries')
<1>1. DOMAIN lru' = 1..Len(lru')
    BY LenProperties
<1> QED
    BY <1>1, Zenon DEF Lists

\* What RemoveEntry leaves: one name less in the map and the list, and a gauge that
\* says how many are left.
LEMMA RemoveEntryEffect ==
    ASSUME TypeOK, Lists(lru, DOMAIN entries), NEW n, RemoveEntry(n)
    PROVE  /\ n \in DOMAIN entries
           /\ DOMAIN entries' = DOMAIN entries \ {n}
           /\ \A m \in DOMAIN entries' : entries'[m] = entries[m]
           /\ entries' \in [DOMAIN entries' -> Leaf]
           /\ lru' \in Seq(Names)
           /\ Lists(lru', DOMAIN entries')
           /\ Len(lru') = Len(lru) - 1
           /\ gauge' = IF minter = "public" THEN Len(lru') ELSE gauge
<1>1. DOMAIN lru = 1..Len(lru) /\ lru \in Seq(Names)
    BY LenProperties DEF TypeOK
<1>2. PICK i \in 1..Len(lru) : lru[i] = n /\ lru' = RemoveAt(lru, i)
    BY <1>1 DEF RemoveEntry
<1>3. n \in DOMAIN entries
    BY <1>2 DEF Lists
<1>4. /\ DOMAIN entries' = DOMAIN entries \ {n}
      /\ \A m \in DOMAIN entries' : entries'[m] = entries[m]
      /\ entries' \in [DOMAIN entries' -> Leaf]
    BY DEF RemoveEntry, TypeOK
<1>5. /\ lru' \in Seq(Names)
      /\ Len(lru') = Len(lru) - 1
    BY <1>1, <1>2, RemoveAtIs
<1>6. Lists(lru', DOMAIN entries')
    BY <1>1, <1>2, <1>4, RemoveLists
<1>7. Cardinality(DOMAIN entries') = Len(lru')
    BY <1>5, <1>6, ListsCardinality
<1> QED
    BY <1>3, <1>4, <1>5, <1>6, <1>7 DEF RemoveEntry

\* Moving a name to the front keeps the names of the list.
LEMMA MoveToFrontEffect ==
    ASSUME TypeOK, Lists(lru, DOMAIN entries), NEW n, MoveToFront(n)
    PROVE  /\ lru' \in Seq(Names)
           /\ Lists(lru', DOMAIN entries)
           /\ Len(lru') = Len(lru)
<1>1. DOMAIN lru = 1..Len(lru) /\ lru \in Seq(Names) /\ Len(lru) \in Nat
    BY LenProperties DEF TypeOK
<1>2. PICK i \in 1..Len(lru) : lru[i] = n /\ lru' = <<n>> \o RemoveAt(lru, i)
    BY <1>1 DEF MoveToFront
<1>3. n \in DOMAIN entries /\ n \in Names
    BY <1>1, <1>2, ElementOfSeq DEF Lists
<1>4. /\ RemoveAt(lru, i) \in Seq(Names)
      /\ Len(RemoveAt(lru, i)) = Len(lru) - 1
      /\ Lists(RemoveAt(lru, i), DOMAIN entries \ {n})
    BY <1>1, <1>2, RemoveAtIs, RemoveLists
<1>5. /\ lru' \in Seq(Names)
      /\ Len(lru') = Len(RemoveAt(lru, i)) + 1
      /\ Lists(lru', (DOMAIN entries \ {n}) \cup {n})
    BY <1>2, <1>3, <1>4, PrependLists
<1>6. (DOMAIN entries \ {n}) \cup {n} = DOMAIN entries
    BY <1>3
<1> QED
    BY <1>1, <1>4, <1>5, <1>6

\* Facts about the leaf a mint at time now makes, and about fresh leaves.
LEMMA EndIs ==
    ASSUME NEW now \in Int, minter \in Minters
    PROVE  /\ End(now) \in Int
           /\ End(now) <= CAEnd
           /\ now < CAEnd => now < End(now)
    BY LifetimeAssumption DEF End, PublicEnd, AdminEnd, Minters

LEMMA FreshIsValid ==
    ASSUME NEW leaf \in Leaf, NEW now \in Int, minter \in Minters,
           leaf.notBefore < leaf.notAfter, Fresh(leaf, now)
    PROVE  now < leaf.notAfter
    BY LifetimeAssumption DEF Fresh, PublicFresh, AdminFresh, Minters, Leaf

LEMMA InitInvariant == Init => IInv
<1> SUFFICES ASSUME Init PROVE IInv
    OBVIOUS
<1> USE NoneAssumption, LifetimeAssumption, ClockAssumption DEF Init, Idle
<1>1. TypeOK
    BY EmptySeq DEF TypeOK, Minters
<1>2. Coherent
    BY DEF Coherent, Inserting
<1>3. ServedValid /\ Exclusive /\ Carried /\ Cached
    BY DEF ServedValid, Exclusive, Carried, Cached
<1> QED
    BY <1>1, <1>2, <1>3 DEF IInv

\* The steps that touch neither the cache nor the mutex.
LEMMA OutsideStep ==
    ASSUME IInv, Tick \/ SetBack \/ \E c \in Conns : Close(c) \/ \E n \in Names : Hello(c, n)
    PROVE  IInv'
<1> USE NoneAssumption, ClockAssumption, LifetimeAssumption
<1>1. CASE Tick
    <2> USE <1>1 DEF IInv, Tick, cache
    <2>1. TypeOK'
        BY DEF TypeOK
    <2>2. Coherent'
        BY DEF Coherent, Inserting
    <2>3. ServedValid' /\ Exclusive'
        BY DEF ServedValid, Exclusive
    <2>4. Carried'
        BY DEF Carried, Held, TypeOK
    <2>5. Cached'
        BY DEF Cached, TypeOK, Leaf
    <2> QED
        BY <2>1, <2>2, <2>3, <2>4, <2>5 DEF IInv
<1>2. CASE SetBack
    <2> USE <1>2 DEF IInv, SetBack, cache
    <2>1. TypeOK'
        BY DEF TypeOK
    <2>2. Coherent'
        BY DEF Coherent, Inserting
    <2>3. ServedValid' /\ Exclusive'
        BY DEF ServedValid, Exclusive, TypeOK
    <2>4. Carried'
        BY DEF Carried, Held, TypeOK
    <2>5. Cached'
        BY DEF Cached, TypeOK, Leaf
    <2> QED
        BY <2>1, <2>2, <2>3, <2>4, <2>5 DEF IInv
<1>3. ASSUME NEW c \in Conns, Close(c) \/ \E n \in Names : Hello(c, n)
      PROVE  IInv'
    <2>1. /\ mu # c
          /\ UNCHANGED <<minter, clock, back, mu, entries, lru, gauge>>
        BY <1>3 DEF Close, Hello, time, cache, IInv, Exclusive
    <2>2. PICK pc \in {"idle", "locking"}, name \in Names \cup {None} :
            /\ pc = "idle" <=> name = None
            /\ call' = [call EXCEPT ![c] =
                           [pc |-> pc, name |-> name, now |-> 0, leaf |-> None]]
        <3>1. CASE Close(c)
            BY <3>1 DEF Close, Idle
        <3>2. CASE \E n \in Names : Hello(c, n)
            BY <3>2 DEF Hello, Idle
        <3> QED
            BY <1>3, <3>1, <3>2
    <2>3. TypeOK'
        BY <2>1, <2>2 DEF IInv, TypeOK
    <2>4. /\ call'[c] = [pc |-> pc, name |-> name, now |-> 0, leaf |-> None]
          /\ \A d \in Conns \ {c} : call'[d] = call[d]
        BY <2>2 DEF IInv, TypeOK
    <2>5. Coherent'
        BY <2>1, <2>4 DEF IInv, Coherent, Inserting, TypeOK
    <2>6. ServedValid'
        BY <2>1, <2>4 DEF IInv, ServedValid
    <2>7. Exclusive'
        BY <2>1, <2>4 DEF IInv, Exclusive
    <2>8. Carried'
        BY <2>1, <2>2, <2>4 DEF IInv, Carried, Held
    <2>9. Cached'
        BY <2>1 DEF IInv, Cached
    <2> QED
        BY <2>3, <2>5, <2>6, <2>7, <2>8, <2>9 DEF IInv
<1> QED
    BY <1>1, <1>2, <1>3

LEMMA HitStep ==
    ASSUME IInv, NEW c \in Conns, Hit(c)
    PROVE  IInv'
<1> DEFINE n == call[c].name
<1> USE NoneAssumption, ClockAssumption, LifetimeAssumption
<1>1. /\ call[c].pc = "locking" /\ mu = None
      /\ n \in DOMAIN entries /\ Fresh(entries[n], clock)
      /\ MoveToFront(n)
      /\ call' = [call EXCEPT ![c] = [pc |-> "served", name |-> n,
                                      now |-> clock, leaf |-> entries[n]]]
      /\ UNCHANGED <<minter, clock, back, mu, entries, gauge>>
    BY DEF Hit, Held, time
<1>2. TypeOK /\ Lists(lru, DOMAIN entries)
    BY CoherentLists DEF IInv, Coherent
<1>3. /\ lru' \in Seq(Names)
      /\ Lists(lru', DOMAIN entries')
      /\ Len(lru') = Len(lru)
    BY <1>1, <1>2, MoveToFrontEffect
<1>4. entries[n] \in Leaf /\ entries[n] # None
    BY <1>1, <1>2 DEF TypeOK
<1>5. /\ call'[c].pc = "served" /\ call'[c].now = clock /\ call'[c].leaf = entries[n]
      /\ call'[c].name = n
      /\ \A d \in Conns \ {c} : call'[d] = call[d]
    BY <1>1, <1>2 DEF TypeOK
<1>6. TypeOK'
    BY <1>1, <1>2, <1>3, <1>4 DEF TypeOK
<1>7. Coherent'
    BY <1>1, <1>3, <1>5, CoherentListsNext DEF IInv, Coherent, Inserting
<1>8. ServedValid'
    <2>1. clock < entries[n].notAfter
        BY <1>1, <1>2, <1>4, FreshIsValid DEF IInv, Cached, TypeOK
    <2>2. back <= Backdate => entries[n].notBefore <= clock
        BY <1>1, <1>2, <1>4 DEF IInv, Cached, TypeOK, Leaf
    <2> QED
        BY <1>1, <1>5, <2>1, <2>2 DEF IInv, ServedValid, Cached
<1>9. Exclusive'
    BY <1>1, <1>5 DEF IInv, Exclusive
<1>10. Carried'
    BY <1>1, <1>4, <1>5 DEF IInv, Carried, Held
<1>11. Cached'
    BY <1>1 DEF IInv, Cached
<1> QED
    BY <1>6, <1>7, <1>8, <1>9, <1>10, <1>11 DEF IInv

LEMMA MissStep ==
    ASSUME IInv, NEW c \in Conns, Miss(c)
    PROVE  IInv'
<1> DEFINE n == call[c].name
<1> USE NoneAssumption, ClockAssumption, LifetimeAssumption
<1>1. /\ call[c].pc = "locking" /\ mu = None /\ mu' = c
      /\ call' = [call EXCEPT ![c] = [pc |-> "minting", name |-> n,
                                      now |-> clock, leaf |-> None]]
      /\ UNCHANGED <<minter, clock, back>>
    BY DEF Miss, time
<1>2. TypeOK /\ Lists(lru, DOMAIN entries) /\ Len(lru) \in Nat /\ Len(lru) <= Capacity
    BY <1>1, CoherentLists, LenProperties DEF IInv, Coherent, Inserting, TypeOK
<1>3. /\ call'[c] = [pc |-> "minting", name |-> n, now |-> clock, leaf |-> None]
      /\ \A d \in Conns \ {c} : call'[d] = call[d]
    BY <1>1, <1>2 DEF TypeOK
<1>4. /\ DOMAIN entries' = DOMAIN entries \ {n}
      /\ \A m \in DOMAIN entries' : entries'[m] = entries[m]
      /\ entries' \in [DOMAIN entries' -> Leaf]
      /\ lru' \in Seq(Names)
      /\ Lists(lru', DOMAIN entries')
      /\ Len(lru') <= Len(lru) /\ Len(lru') \in Nat
      /\ gauge' \in 0..Capacity
      /\ minter = "public" => gauge' = Len(lru')
    <2>1. CASE ~Held(n) /\ UNCHANGED <<cache, gauge>>
        <3>1. entries' = entries /\ lru' = lru /\ gauge' = gauge
            BY <2>1 DEF cache
        <3>2. DOMAIN entries = DOMAIN entries \ {n}
            BY <2>1 DEF Held
        <3>3. minter = "public" => gauge = Len(lru)
            BY <1>1 DEF IInv, Coherent, Inserting
        <3> QED
            BY <1>2, <3>1, <3>2, <3>3 DEF TypeOK
    <2>2. CASE Held(n) /\ RemoveEntry(n)
        <3>1. /\ n \in DOMAIN entries
              /\ DOMAIN entries' = DOMAIN entries \ {n}
              /\ \A m \in DOMAIN entries' : entries'[m] = entries[m]
              /\ entries' \in [DOMAIN entries' -> Leaf]
              /\ lru' \in Seq(Names)
              /\ Lists(lru', DOMAIN entries')
              /\ Len(lru') = Len(lru) - 1
              /\ gauge' = IF minter = "public" THEN Len(lru') ELSE gauge
            BY <1>2, <2>2, RemoveEntryEffect
        <3>2. Len(lru') \in Nat
            BY <3>1, LenProperties
        <3> QED
            BY <1>2, <3>1, <3>2 DEF TypeOK
    <2> QED
        BY <2>1, <2>2 DEF Miss
<1>5. TypeOK'
    BY <1>1, <1>2, <1>4 DEF TypeOK
<1>6. Coherent'
    <2>1. Len(lru') <= Capacity
        BY <1>2, <1>4
    <2>2. call'[mu'].pc = "minting"
        BY <1>1, <1>3
    <2>3. ~Inserting'
        BY <2>2 DEF Inserting
    <2>4. Len(lru') <= Capacity + (IF Inserting' THEN 1 ELSE 0)
        BY <1>4, <2>1, <2>3
    <2>5. minter' = "public" /\ ~Inserting' => gauge' = Len(lru')
        BY <1>1, <1>4
    <2> QED
        BY <1>4, <2>4, <2>5, CoherentListsNext DEF Coherent
<1>7. ServedValid'
    BY <1>1, <1>3 DEF IInv, ServedValid
<1>8. Exclusive'
    BY <1>1, <1>3 DEF IInv, Exclusive
<1>9. Carried'
    <2>1. n # None /\ n \notin DOMAIN entries'
        BY <1>1, <1>4 DEF IInv, Carried
    <2>2. clock <= clock + back
        BY <1>2 DEF TypeOK
    <2>3. \A d \in Conns : call[d].pc # "minting"
        BY <1>1 DEF IInv, Exclusive
    <2> QED
        BY <1>1, <1>3, <2>1, <2>2, <2>3 DEF IInv, Carried, Held
<1>10. Cached'
    BY <1>1, <1>4 DEF IInv, Cached
<1> QED
    BY <1>5, <1>6, <1>7, <1>8, <1>9, <1>10 DEF IInv

LEMMA FailStep ==
    ASSUME IInv, NEW c \in Conns, Fail(c)
    PROVE  IInv'
<1> USE NoneAssumption
<1>1. /\ call[c].pc = "minting" /\ mu = c /\ mu' = None
      /\ call' = [call EXCEPT ![c] = Idle]
      /\ UNCHANGED <<minter, clock, back, entries, lru, gauge>>
    BY DEF Fail, time, cache, IInv, Exclusive
<1>2. /\ call'[c] = [pc |-> "idle", name |-> None, now |-> 0, leaf |-> None]
      /\ \A d \in Conns \ {c} : call'[d] = call[d]
    BY <1>1 DEF IInv, TypeOK, Idle
<1>3. TypeOK'
    BY <1>1, <1>2 DEF IInv, TypeOK, Idle
<1>4. Coherent'
    BY <1>1, <1>2 DEF IInv, Coherent, Inserting
<1>5. ServedValid'
    BY <1>1, <1>2 DEF IInv, ServedValid
<1>6. Exclusive'
    BY <1>1, <1>2 DEF IInv, Exclusive
<1>7. Carried'
    BY <1>1, <1>2 DEF IInv, Carried, Held
<1>8. Cached'
    BY <1>1 DEF IInv, Cached
<1> QED
    BY <1>3, <1>4, <1>5, <1>6, <1>7, <1>8 DEF IInv

LEMMA MintStep ==
    ASSUME IInv, NEW c \in Conns, Mint(c)
    PROVE  IInv'
<1> DEFINE n == call[c].name
           now == call[c].now
           leaf == [notBefore |-> now - Backdate, notAfter |-> End(now)]
<1> USE NoneAssumption, LifetimeAssumption
<1>1. /\ call[c].pc = "minting" /\ mu = c
      /\ leaf.notAfter > leaf.notBefore
      /\ entries' = [m \in DOMAIN entries \cup {n} |-> IF m = n THEN leaf ELSE entries[m]]
      /\ lru' = <<n>> \o lru
      /\ call' = [call EXCEPT ![c] = [pc |-> "evicting", name |-> n,
                                      now |-> now, leaf |-> leaf]]
      /\ UNCHANGED <<minter, clock, back, mu, gauge>>
    BY DEF Mint, time, IInv, Exclusive
<1>2. /\ n \in Names /\ n \notin DOMAIN entries
      /\ now \in Int /\ now <= clock + back
    BY <1>1 DEF IInv, TypeOK, Carried, Held
<1>3. leaf \in Leaf /\ leaf # None
    BY <1>1, <1>2, EndIs DEF IInv, TypeOK, Leaf
<1> HIDE DEF leaf
<1>4. /\ call'[c] = [pc |-> "evicting", name |-> n, now |-> now, leaf |-> leaf]
      /\ \A d \in Conns \ {c} : call'[d] = call[d]
    BY <1>1 DEF IInv, TypeOK
<1>5. TypeOK /\ Lists(lru, DOMAIN entries) /\ Len(lru) \in Nat /\ Len(lru) <= Capacity
    BY <1>1, CoherentLists, LenProperties DEF IInv, Coherent, Inserting, TypeOK
<1>6. /\ lru' \in Seq(Names)
      /\ Len(lru') = Len(lru) + 1
      /\ Lists(lru', DOMAIN entries')
    <2>1. DOMAIN entries' = DOMAIN entries \cup {n}
        BY <1>1
    <2> QED
        BY <1>1, <1>2, <1>5, <2>1, PrependLists DEF TypeOK
<1>7. TypeOK'
    BY <1>1, <1>2, <1>3, <1>5, <1>6 DEF TypeOK
<1>8. Coherent'
    BY <1>1, <1>4, <1>5, <1>6, CoherentListsNext DEF Coherent, Inserting
<1>9. leaf.notBefore = now - Backdate /\ leaf.notAfter = End(now)
    BY DEF leaf
<1>10. ServedValid'
    BY <1>1, <1>2, <1>4, <1>5, <1>9, EndIs DEF IInv, ServedValid, TypeOK
<1>11. Exclusive'
    BY <1>1, <1>4 DEF IInv, Exclusive
<1>12. Carried'
    BY <1>1, <1>2, <1>3, <1>4 DEF IInv, Carried, Exclusive
<1>13. Cached'
    BY <1>1, <1>2, <1>5, <1>9, EndIs DEF IInv, Cached, TypeOK
<1> QED
    BY <1>7, <1>8, <1>10, <1>11, <1>12, <1>13 DEF IInv

LEMMA EvictStep ==
    ASSUME IInv, NEW c \in Conns, Evict(c)
    PROVE  IInv'
<1> USE NoneAssumption, LifetimeAssumption
<1>1. /\ call[c].pc = "evicting" /\ mu = c /\ mu' = None
      /\ call' = [call EXCEPT ![c].pc = "served"]
      /\ UNCHANGED <<minter, clock, back>>
    BY DEF Evict, time, IInv, Exclusive
<1>2. /\ call'[c] = [call[c] EXCEPT !.pc = "served"]
      /\ \A d \in Conns \ {c} : call'[d] = call[d]
    BY <1>1 DEF IInv, TypeOK
<1>3. /\ TypeOK /\ Lists(lru, DOMAIN entries) /\ Len(lru) \in Nat
      /\ Len(lru) <= Capacity + 1 /\ Cardinality(DOMAIN entries) = Len(lru)
    BY <1>1, CoherentLists, LenProperties, ListsCardinality
       DEF IInv, Coherent, Inserting, TypeOK
<1>4. /\ DOMAIN entries' \subseteq DOMAIN entries
      /\ \A m \in DOMAIN entries' : entries'[m] = entries[m]
      /\ entries' \in [DOMAIN entries' -> Leaf]
      /\ lru' \in Seq(Names)
      /\ Lists(lru', DOMAIN entries')
      /\ Len(lru') <= Capacity /\ Len(lru') \in Nat
      /\ gauge' \in 0..Capacity
      /\ minter = "public" => gauge' = Len(lru')
    <2>1. CASE Len(lru) > Capacity /\ RemoveEntry(Last(lru))
        <3>1. /\ DOMAIN entries' = DOMAIN entries \ {Last(lru)}
              /\ \A m \in DOMAIN entries' : entries'[m] = entries[m]
              /\ entries' \in [DOMAIN entries' -> Leaf]
              /\ lru' \in Seq(Names)
              /\ Lists(lru', DOMAIN entries')
              /\ Len(lru') = Len(lru) - 1
              /\ gauge' = IF minter = "public" THEN Len(lru') ELSE gauge
            BY <1>3, <2>1, RemoveEntryEffect
        <3>2. Len(lru') \in Nat
            BY <3>1, LenProperties
        <3> QED
            BY <1>3, <3>1, <3>2 DEF TypeOK
    <2>2. CASE /\ Len(lru) <= Capacity
               /\ gauge' = IF minter = "public" THEN Len(lru) ELSE gauge
               /\ entries' = entries /\ lru' = lru
        BY <1>3, <2>2 DEF TypeOK
    <2> QED
        BY <1>3, <2>1, <2>2 DEF Evict, cache
<1>5. TypeOK'
    BY <1>1, <1>3, <1>4 DEF TypeOK
<1>6. Coherent'
    BY <1>1, <1>4, CoherentListsNext DEF Coherent, Inserting
<1>7. ServedValid'
    BY <1>1, <1>2 DEF IInv, ServedValid, TypeOK
<1>8. Exclusive'
    BY <1>1, <1>2 DEF IInv, Exclusive, TypeOK
<1>9. Carried'
    BY <1>1, <1>2, <1>4 DEF IInv, Carried, Held, Exclusive, TypeOK
<1>10. Cached'
    BY <1>1, <1>4 DEF IInv, Cached
<1> QED
    BY <1>5, <1>6, <1>7, <1>8, <1>9, <1>10 DEF IInv

LEMMA StepInvariant == IInv /\ [Next]_vars => IInv'
<1> SUFFICES ASSUME IInv, [Next]_vars PROVE IInv'
    OBVIOUS
<1>1. CASE Tick \/ SetBack
    BY <1>1, OutsideStep
<1>2. ASSUME NEW c \in Conns, Locked(c) \/ Step(c) \/ Close(c) \/ \E n \in Names : Hello(c, n)
      PROVE  IInv'
    BY <1>2, OutsideStep, HitStep, MissStep, FailStep, MintStep, EvictStep
       DEF Locked, Step
<1>3. CASE UNCHANGED vars
    BY <1>3 DEF vars, time, cache, IInv, TypeOK, Coherent, Inserting, ServedValid,
       Exclusive, Carried, Cached, Held
<1> QED
    BY <1>1, <1>2, <1>3 DEF Next

\* The inductive invariant: whatever the capacity, the lifetimes and the number of
\* handshakes, and however their steps, the clock and its corrections interleave.
THEOREM Invariant == Spec => []IInv
BY InitInvariant, StepInvariant, PTL DEF Spec

\* The cache, the handshakes and the clock have their types in every reachable state.
THEOREM TypeCorrect == Spec => []TypeOK
<1>1. IInv => TypeOK
    BY DEF IInv
<1> QED
    BY <1>1, Invariant, PTL

\* certificateFor keeps the map, the list and the gauge in agreement.
THEOREM CacheIsCoherent == Spec => []Coherent
<1>1. IInv => Coherent
    BY DEF IInv
<1> QED
    BY <1>1, Invariant, PTL

\* No handshake is served a leaf that outlives the CA, has ended or, with a clock
\* set back by no more than five minutes, has not started.
THEOREM LeavesServedAreValid == Spec => []ServedValid
<1>1. IInv => ServedValid
    BY DEF IInv
<1> QED
    BY <1>1, Invariant, PTL

-----------------------------------------------------------------------------
(* The cache implements LruCache *)

LEMMA FrontIs ==
    ASSUME NEW S, NEW s \in Seq(S), Len(s) # 0
    PROVE  /\ Front(s) \in Seq(S)
           /\ Len(Front(s)) = Len(s) - 1
           /\ \A j \in 1..Len(s) - 1 : Front(s)[j] = s[j]
<1>1. Len(s) \in Nat \ {0}
    BY LenProperties
<1>2. \A j \in 1..Len(s) - 1 : s[j] \in S
    BY <1>1, ElementOfSeq
<1>3. /\ SubSeq(s, 1, Len(s) - 1) \in Seq(S)
      /\ Len(SubSeq(s, 1, Len(s) - 1)) =
           IF 1 <= Len(s) - 1 THEN (Len(s) - 1) - 1 + 1 ELSE 0
      /\ \A j \in 1..(Len(s) - 1) - 1 + 1 : SubSeq(s, 1, Len(s) - 1)[j] = s[1 + j - 1]
    BY <1>1, <1>2, SubSeqProperties
<1> DEFINE f == SubSeq(s, 1, Len(s) - 1)
<1>4. /\ f \in Seq(S)
      /\ Len(f) = IF 1 <= Len(s) - 1 THEN (Len(s) - 1) - 1 + 1 ELSE 0
      /\ \A j \in 1..(Len(s) - 1) - 1 + 1 : f[j] = s[1 + j - 1]
    BY <1>3
<1>5. Front(s) = f
    BY DEF Front
<1> HIDE DEF f
<1>6. Len(f) = Len(s) - 1
    <2>1. CASE Len(s) = 1
        BY <1>4, <2>1
    <2>2. CASE Len(s) > 1
        <3>1. 1 <= Len(s) - 1 /\ (Len(s) - 1) - 1 + 1 = Len(s) - 1
            BY <1>1, <2>2
        <3> QED
            BY <1>4, <3>1
    <2> QED
        BY <1>1, <2>1, <2>2
<1>7. \A j \in 1..Len(s) - 1 : f[j] = s[j]
    BY <1>1, <1>4
<1> QED
    BY <1>4, <1>5, <1>6, <1>7

\* Removing the last entry, as the eviction does, leaves the front.
LEMMA RemoveLastIsFront ==
    ASSUME NEW S, NEW s \in Seq(S), NEW D, Lists(s, D), s # <<>>,
           NEW i \in 1..Len(s), s[i] = Last(s)
    PROVE  RemoveAt(s, i) = Front(s)
<1>1. Len(s) \in Nat \ {0}
    BY EmptySeq, LenProperties
<1>2. i = Len(s)
    BY <1>1 DEF Lists, Last
<1>3. /\ RemoveAt(s, i) \in Seq(S)
      /\ Len(RemoveAt(s, i)) = Len(s) - 1
      /\ \A j \in 1..Len(s) - 1 : RemoveAt(s, i)[j] = s[j]
    BY <1>1, <1>2, RemoveAtIs
<1>4. /\ Front(s) \in Seq(S)
      /\ Len(Front(s)) = Len(s) - 1
      /\ \A j \in 1..Len(s) - 1 : Front(s)[j] = s[j]
    BY <1>1, FrontIs
<1> QED
    BY <1>3, <1>4, SeqEqual

\* The insertion at full capacity, seen without the name that is about to go.
LEMMA FrontOfPrepend ==
    ASSUME NEW S, NEW s \in Seq(S), s # <<>>, NEW e \in S
    PROVE  Front(<<e>> \o s) = <<e>> \o Front(s)
<1>1. Len(s) \in Nat \ {0}
    BY EmptySeq, LenProperties
<1>2. /\ Front(s) \in Seq(S)
      /\ Len(Front(s)) = Len(s) - 1
      /\ \A j \in 1..Len(s) - 1 : Front(s)[j] = s[j]
    BY <1>1, FrontIs
<1>3. <<e>> \in Seq(S) /\ Len(<<e>>) = 1 /\ <<e>>[1] = e
    OBVIOUS
<1>4. /\ <<e>> \o s \in Seq(S)
      /\ Len(<<e>> \o s) = 1 + Len(s)
      /\ \A j \in 1..1 + Len(s) :
           (<<e>> \o s)[j] = IF j <= 1 THEN <<e>>[j] ELSE s[j - 1]
    BY <1>3, ConcatProperties
<1>5. /\ <<e>> \o Front(s) \in Seq(S)
      /\ Len(<<e>> \o Front(s)) = Len(s)
      /\ \A j \in 1..Len(s) :
           (<<e>> \o Front(s))[j] = IF j <= 1 THEN <<e>>[j] ELSE Front(s)[j - 1]
    BY <1>1, <1>2, <1>3, ConcatProperties
<1>7. /\ Front(<<e>> \o s) \in Seq(S)
      /\ Len(Front(<<e>> \o s)) = Len(s)
      /\ \A j \in 1..Len(s) : Front(<<e>> \o s)[j] = (<<e>> \o s)[j]
    <2> DEFINE r == <<e>> \o s
    <2>1. r \in Seq(S) /\ Len(r) = 1 + Len(s)
        BY <1>4
    <2> HIDE DEF r
    <2>2. Len(r) # 0 /\ Len(r) - 1 = Len(s)
        BY <1>1, <2>1
    <2>3. /\ Front(r) \in Seq(S)
          /\ Len(Front(r)) = Len(s)
          /\ \A j \in 1..Len(s) : Front(r)[j] = r[j]
        BY <2>1, <2>2, FrontIs
    <2> QED
        BY <2>3 DEF r
<1>8. \A j \in 1..Len(s) : (<<e>> \o s)[j] = (<<e>> \o Front(s))[j]
    <2> TAKE j \in 1..Len(s)
    <2>1. j <= 1 \/ j - 1 \in 1..Len(s) - 1
        BY <1>1
    <2> QED
        BY <1>1, <1>2, <1>4, <1>5, <2>1
<1> QED
    BY <1>5, <1>7, <1>8, SeqEqual

\* What a change of one call changes of what is served.
LEMMA ServingChanges ==
    ASSUME NEW c \in Conns, NEW STATE new, \A d \in Conns \ {c} : call'[d] = call[d],
           new = IF call'[c].leaf # None THEN call'[c].name ELSE None
    PROVE  Serving' = [Serving EXCEPT ![c] = new]
<1>1. Serving' = [d \in Conns |-> IF call'[d].leaf # None THEN call'[d].name ELSE None]
    BY DEF Serving
<1>2. [Serving EXCEPT ![c] = new] =
        [d \in Conns |-> IF d = c THEN new
                         ELSE IF call[d].leaf # None THEN call[d].name ELSE None]
    BY DEF Serving
<1>3. \A d \in Conns : (IF call'[d].leaf # None THEN call'[d].name ELSE None) =
        IF d = c THEN new ELSE IF call[d].leaf # None THEN call[d].name ELSE None
    OBVIOUS
<1> QED
    BY <1>1, <1>2, <1>3

\* The same, for a step that gives one call a new record.
LEMMA ServingAfter ==
    ASSUME DOMAIN call = Conns, NEW c \in Conns, NEW STATE r, NEW STATE new,
           call' = [call EXCEPT ![c] = r],
           new = IF r.leaf # None THEN r.name ELSE None
    PROVE  Serving' = [Serving EXCEPT ![c] = new]
<1>1. call'[c] = r /\ \A d \in Conns \ {c} : call'[d] = call[d]
    OBVIOUS
<1> QED
    BY <1>1, ServingChanges

LEMMA RefinesInit == Init => Lru!Init
    BY LifetimeAssumption, EmptySeq DEF Init, Recent, Serving, Idle, Lru!Init

\* Every step of the cache is a step of the abstract one, or leaves it as it is.
LEMMA RefinesStep == IInv /\ [Next]_vars => [Lru!Next]_<<Recent, Serving>>
<1> SUFFICES ASSUME IInv, [Next]_vars
             PROVE  Lru!Next \/ (Recent' = Recent /\ Serving' = Serving)
    OBVIOUS
<1> USE NoneAssumption, LifetimeAssumption
<1>0. /\ TypeOK /\ Lists(lru, DOMAIN entries) /\ Len(lru) \in Nat
      /\ lru \in Seq(Names) /\ DOMAIN lru = 1..Len(lru)
    BY CoherentLists, LenProperties DEF IInv, Coherent, TypeOK
<1>nat. Len(lru) \in Nat /\ Capacity \in Nat
    BY <1>0
<1>bound. Len(lru) <= Capacity + (IF Inserting THEN 1 ELSE 0)
    BY DEF IInv, Coherent
<1>calls. DOMAIN call = Conns
    BY <1>0 DEF TypeOK
<1>idle. Idle.leaf = None
    BY DEF Idle
<1>same. lru' = lru => Recent' = Recent
    BY DEF Recent
<1>1. CASE UNCHANGED vars
    BY <1>1, <1>same DEF vars, cache, Serving
<1>out. CASE Tick \/ SetBack
    BY <1>out, <1>same DEF Tick, SetBack, cache, Serving
<1>hello. ASSUME NEW c \in Conns, NEW n \in Names, Hello(c, n)
          PROVE  Recent' = Recent /\ Serving' = Serving
    <2> DEFINE r == [pc |-> "locking", name |-> n, now |-> 0, leaf |-> None]
    <2>1. lru' = lru /\ call' = [call EXCEPT ![c] = r] /\ call[c].leaf = None
        BY <1>hello DEF Hello, cache, IInv, Carried
    <2>2. Serving' = [Serving EXCEPT ![c] = None]
        <3>1. r.leaf = None
            OBVIOUS
        <3> HIDE DEF r
        <3> QED
            BY <1>calls, <2>1, <3>1, ServingAfter
    <2> QED
        BY <1>same, <2>1, <2>2 DEF Serving
<1>fail. ASSUME NEW c \in Conns, Fail(c)
         PROVE  Recent' = Recent /\ Serving' = Serving
    <2>1. lru' = lru /\ call' = [call EXCEPT ![c] = Idle] /\ call[c].leaf = None
        BY <1>fail DEF Fail, cache, IInv, Carried
    <2>2. Serving' = [Serving EXCEPT ![c] = None]
        BY <1>calls, <1>idle, <2>1, ServingAfter
    <2> QED
        BY <1>same, <2>1, <2>2 DEF Serving
<1>close. ASSUME NEW c \in Conns, Close(c)
          PROVE  Lru!Next
    <2>1. /\ lru' = lru /\ call' = [call EXCEPT ![c] = Idle]
          /\ call[c].leaf # None /\ call[c].name # None
        BY <1>close DEF Close, cache, IInv, Carried
    <2>2. Serving' = [Serving EXCEPT ![c] = None]
        BY <1>calls, <1>idle, <2>1, ServingAfter
    <2>3. Serving[c] # None
        BY <2>1 DEF Serving
    <2> QED
        BY <1>same, <2>1, <2>2, <2>3 DEF Lru!Done, Lru!Next
<1>2. ASSUME NEW c \in Conns, Hit(c)
      PROVE  Lru!Next
    <2> DEFINE n == call[c].name
    <2>1. mu = None /\ MoveToFront(n) /\ Held(n)
        BY <1>2 DEF Hit
    <2>2. Len(lru') = Len(lru) /\ Len(lru) <= Capacity /\ n \in Names
        <3>1. Len(lru') = Len(lru)
            BY <1>0, <2>1, MoveToFrontEffect
        <3>2. Len(lru) <= Capacity
            BY <1>bound, <2>1 DEF Inserting
        <3>3. n \in Names
            BY <1>0, <2>1 DEF Held, TypeOK
        <3> QED
            BY <3>1, <3>2, <3>3
    <2>3. Recent = lru /\ Recent' = lru'
        BY <1>0, <2>2 DEF Recent
    <2>4. Lru!Serve(c, n)
        <3> DEFINE r == [pc |-> "served", name |-> n, now |-> clock, leaf |-> entries[n]]
        <3>1. call' = [call EXCEPT ![c] = r] /\ call[c].leaf = None
            BY <1>2 DEF Hit, IInv, Carried
        <3>2. r.leaf # None
            BY <1>0, <2>1 DEF Held, TypeOK
        <3>3. Serving' = [Serving EXCEPT ![c] = n]
            <4>1. r.name = n
                OBVIOUS
            <4> HIDE DEF r
            <4> QED
                BY <1>calls, <3>1, <3>2, <4>1, ServingAfter
        <3>4. Serving[c] = None
            BY <3>1 DEF Serving
        <3> QED
            BY <3>3, <3>4 DEF Lru!Serve
    <2>5. Lru!Touch(c, n)
        BY <2>1, <2>3, <2>4 DEF MoveToFront, RemoveAt, Lru!Touch, Lru!RemoveAt
    <2> QED
        BY <2>2, <2>5 DEF Lru!Next
<1>miss. ASSUME NEW c \in Conns, Miss(c)
         PROVE  Serving' = Serving
    <2> DEFINE r == [pc |-> "minting", name |-> call[c].name, now |-> clock, leaf |-> None]
    <2>1. call' = [call EXCEPT ![c] = r] /\ call[c].leaf = None
        BY <1>miss DEF Miss, IInv, Carried
    <2>2. Serving' = [Serving EXCEPT ![c] = None]
        <3>1. r.leaf = None
            OBVIOUS
        <3> HIDE DEF r
        <3> QED
            BY <1>calls, <2>1, <3>1, ServingAfter
    <2> QED
        BY <2>1, <2>2 DEF Serving
<1>3. ASSUME NEW c \in Conns, Miss(c), lru' # lru
      PROVE  Lru!Next
    <2> DEFINE n == call[c].name
    <2>1. mu = None /\ RemoveEntry(n)
        BY <1>3 DEF Miss, cache
    <2>2. Len(lru') = Len(lru) - 1 /\ Len(lru) <= Capacity /\ n \in Names
        <3>1. Len(lru') = Len(lru) - 1 /\ n \in DOMAIN entries
            BY <1>0, <2>1, RemoveEntryEffect
        <3>2. Len(lru) <= Capacity
            BY <1>bound, <2>1 DEF Inserting
        <3>3. n \in Names
            BY <1>0, <3>1 DEF TypeOK
        <3> QED
            BY <3>1, <3>2, <3>3
    <2>3. Recent = lru /\ Recent' = lru'
        BY <1>0, <2>2 DEF Recent
    <2>4. Lru!Forget(n)
        BY <1>3, <1>miss, <2>1, <2>3 DEF RemoveEntry, RemoveAt, Lru!Forget, Lru!RemoveAt
    <2> QED
        BY <2>2, <2>4 DEF Lru!Next
<1>4. ASSUME NEW c \in Conns, Mint(c)
      PROVE  Lru!Next
    <2> DEFINE n == call[c].name
    <2>1. /\ call[c].pc = "minting" /\ mu = c /\ lru' = <<n>> \o lru
          /\ n \in Names /\ n \notin DOMAIN entries
        BY <1>4 DEF Mint, IInv, Exclusive, Carried, TypeOK, Held
    <2>2. Len(lru) <= Capacity
        BY <1>bound, <2>1 DEF Inserting
    <2>3. Recent = lru /\ \A i \in DOMAIN lru : lru[i] # n
        BY <1>0, <2>1, <2>2 DEF Recent, Lists
    <2>4. Len(lru') = Len(lru) + 1
        BY <1>0, <2>1, PrependLists
    <2>serve. Lru!Serve(c, n)
        <3> DEFINE leaf == [notBefore |-> call[c].now - Backdate,
                            notAfter |-> End(call[c].now)]
                   r == [pc |-> "evicting", name |-> n, now |-> call[c].now, leaf |-> leaf]
        <3>1. call' = [call EXCEPT ![c] = r] /\ call[c].leaf = None
            BY <1>4 DEF Mint, IInv, Carried
        <3>2. leaf \in Leaf
            <4>1. call[c].now \in Int /\ minter \in Minters
                BY <1>0 DEF TypeOK
            <4>2. End(call[c].now) \in Int
                BY <4>1, EndIs
            <4> QED
                BY <4>1, <4>2 DEF Leaf
        <3>3. r.leaf # None
            BY <3>2
        <3>4. Serving' = [Serving EXCEPT ![c] = n]
            <4>1. r.name = n
                OBVIOUS
            <4> HIDE DEF r
            <4> QED
                BY <1>calls, <3>1, <3>3, <4>1, ServingAfter
        <3>5. Serving[c] = None
            BY <3>1 DEF Serving
        <3> QED
            BY <3>4, <3>5 DEF Lru!Serve
    <2>5. CASE Len(lru) < Capacity
        <3>1. Recent' = <<n>> \o lru
            BY <1>0, <2>1, <2>4, <2>5 DEF Recent
        <3> QED
            BY <2>1, <2>3, <2>5, <2>serve, <3>1 DEF Lru!Add, Lru!Next
    <2>6. CASE Len(lru) = Capacity
        <3>1. lru # <<>>
            BY <2>6, EmptySeq
        <3>2. Recent' = <<n>> \o Front(lru)
            BY <1>0, <2>1, <2>4, <2>6, <3>1, FrontOfPrepend DEF Recent
        <3>3. ~(Len(Recent) < Capacity)
            BY <2>3, <2>6
        <3>4. Recent' = <<n>> \o SubSeq(Recent, 1, Len(Recent) - 1)
            BY <2>3, <3>2 DEF Front
        <3>5. Lru!Add(c, n)
            BY <2>3, <2>serve, <3>3, <3>4 DEF Lru!Add, Lru!Front
        <3> QED
            BY <2>1, <3>5 DEF Lru!Next
    <2>7. Len(lru) < Capacity \/ Len(lru) = Capacity
        BY ONLY <1>nat, <2>2
    <2> QED
        BY <2>5, <2>6, <2>7
<1>evict. ASSUME NEW c \in Conns, Evict(c)
          PROVE  Serving' = Serving
    <2>1. call' = [call EXCEPT ![c].pc = "served"] /\ DOMAIN call = Conns
        BY <1>0, <1>evict DEF Evict, TypeOK
    <2>2. \A d \in Conns : call'[d].leaf = call[d].leaf /\ call'[d].name = call[d].name
        BY <1>0, <2>1 DEF TypeOK
    <2> QED
        BY <2>2 DEF Serving
<1>5. ASSUME NEW c \in Conns, Evict(c), lru' # lru
      PROVE  Recent' = Recent
    <2>1. /\ call[c].pc = "evicting" /\ mu = c
          /\ Cardinality(DOMAIN entries) > Capacity /\ RemoveEntry(Last(lru))
        BY <1>5 DEF Evict, cache, IInv, Exclusive
    <2>2. Len(lru) = Capacity + 1 /\ Len(lru') = Capacity
        <3>1. Cardinality(DOMAIN entries) = Len(lru)
            BY <1>0, ListsCardinality
        <3>2. Len(lru') = Len(lru) - 1
            BY <1>0, <2>1, RemoveEntryEffect
        <3>3. Len(lru) <= Capacity + 1
            BY <1>0, <1>bound
        <3>4. Len(lru) > Capacity
            BY <2>1, <3>1
        <3>5. Len(lru) = Capacity + 1
            BY ONLY <1>nat, <3>3, <3>4
        <3> QED
            BY <3>2, <3>5
    <2>3. lru # <<>>
        BY <2>2, EmptySeq
    <2>4. PICK i \in 1..Len(lru) : lru[i] = Last(lru) /\ lru' = RemoveAt(lru, i)
        BY <1>0, <2>1 DEF RemoveEntry
    <2>5. lru' = Front(lru)
        BY <1>0, <2>3, <2>4, RemoveLastIsFront
    <2> QED
        BY <2>2, <2>5 DEF Recent
<1> QED
    BY <1>1, <1>2, <1>3, <1>4, <1>5, <1>same, <1>out, <1>hello, <1>fail, <1>close,
       <1>miss, <1>evict
       DEF Next, Locked, Step

\* The names the cache holds behave as those of a least-recently-used cache: a hit
\* moves its name to the front, an insertion at full capacity drops the last one.
THEOREM Refinement == Spec => LruSpec
<1>1. Init => Lru!Init
    BY RefinesInit
<1>2. IInv /\ [Next]_vars => [Lru!Next]_<<Recent, Serving>>
    BY RefinesStep
<1>3. Spec => Lru!Init /\ [][Lru!Next]_<<Recent, Serving>>
    BY <1>1, <1>2, Invariant, PTL DEF Spec
<1> QED
    BY <1>3 DEF LruSpec, Lru!Spec

=============================================================================
