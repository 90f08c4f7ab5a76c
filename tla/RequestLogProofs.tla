-------------------------- MODULE RequestLogProofs --------------------------
(***************************************************************************)
(* A public request, whatever its body, the rules and packs there are and  *)
(* the capacity of the log: what is logged of it, which rule answers it,   *)
(* and what the log buffer shows.                                          *)
(***************************************************************************)
EXTENDS RequestLog, SequenceTheorems, FiniteSetTheorems, Recursion, TLAPS

-----------------------------------------------------------------------------
(* Least numbers and sequences *)

LEMMA AppendIs ==
    ASSUME NEW S, NEW s \in Seq(S), NEW e \in S, NEW t \in Seq(S),
           Len(t) = Len(s) + 1, t[Len(t)] = e, \A i \in 1..Len(s) : t[i] = s[i]
    PROVE  t = Append(s, e)
<1> DEFINE a == Append(s, e)
<1>1. /\ a \in Seq(S) /\ Len(a) = Len(s) + 1 /\ a[Len(s) + 1] = e
      /\ \A i \in 1..Len(s) : a[i] = s[i]
  BY AppendProperties
<1> HIDE DEF a
<1>2. Len(s) \in Nat
  BY LenProperties
<1>3. \A i \in 1..Len(t) : t[i] = a[i]
  BY <1>1, <1>2
<1>4. t = a
  BY <1>1, <1>3, SeqEqual
<1> QED BY <1>4 DEF a

LEMMA MinIs ==
    ASSUME NEW T \in SUBSET Int, NEW n \in T, \A m \in T : n <= m
    PROVE  Min(T) = n
<1>1. \A m \in T : (\A k \in T : m <= k) => m = n
  OBVIOUS
<1>2. Min(T) \in T /\ \A k \in T : Min(T) <= k
  BY Zenon DEF Min
<1> QED BY <1>1, <1>2

LEMMA MaxIs ==
    ASSUME NEW T \in SUBSET Int, NEW n \in T, \A m \in T : n >= m
    PROVE  Max(T) = n
<1>1. \A m \in T : (\A k \in T : m >= k) => m = n
  OBVIOUS
<1>2. Max(T) \in T /\ \A k \in T : Max(T) >= k
  BY Zenon DEF Max
<1> QED BY <1>1, <1>2

LEMMA MinIn ==
    ASSUME NEW T \in SUBSET Nat, T # {}
    PROVE  Min(T) \in T /\ \A m \in T : Min(T) <= m
<1>1. PICK n \in T : \A m \in T : n <= m
  BY Least
<1>2. Min(T) = n
  BY <1>1, MinIs
<1> QED BY <1>1, <1>2

\* Of three numbers.
LEMMA Least3 ==
    ASSUME NEW a \in Nat, NEW b \in Nat, NEW c \in Nat, NEW n \in {a, b, c},
           n <= a, n <= b, n <= c
    PROVE  Min({a, b, c}) = n
<1> DEFINE T == {a, b, c}
<1>1. T \in SUBSET Int /\ n \in T /\ \A m \in T : n <= m
  OBVIOUS
<1> HIDE DEF T
<1>2. Min(T) = n
  BY <1>1, MinIs
<1> QED BY <1>2 DEF T

LEMMA PrefixIs ==
    ASSUME NEW S, NEW s \in Seq(S), NEW n \in 0..Len(s)
    PROVE  /\ SubSeq(s, 1, n) \in Seq(S) /\ Len(SubSeq(s, 1, n)) = n
           /\ \A i \in 1..n : SubSeq(s, 1, n)[i] = s[i]
           /\ \A k \in 0..n : SubSeq(SubSeq(s, 1, n), 1, k) = SubSeq(s, 1, k)
<1>1. Len(s) \in Nat /\ \A i \in 1..Len(s) : s[i] \in S
  BY LenProperties, ElementOfSeq
<1>2. ASSUME NEW t \in Seq(S), NEW k \in 0..Len(t)
      PROVE  /\ SubSeq(t, 1, k) \in Seq(S) /\ Len(SubSeq(t, 1, k)) = k
             /\ \A i \in 1..k : SubSeq(t, 1, k)[i] = t[i]
  <2>1. Len(t) \in Nat /\ \A i \in 1..k : t[i] \in S
    BY LenProperties, ElementOfSeq
  <2> QED BY <2>1, SubSeqProperties
<1> DEFINE t == SubSeq(s, 1, n)
<1>3. t \in Seq(S) /\ Len(t) = n /\ \A i \in 1..n : t[i] = s[i]
  BY <1>2
<1> HIDE DEF t
<1>4. ASSUME NEW k \in 0..n PROVE SubSeq(t, 1, k) = SubSeq(s, 1, k)
  <2> DEFINE a == SubSeq(t, 1, k)
             b == SubSeq(s, 1, k)
  <2>1. k \in 0..Len(t) /\ k \in 0..Len(s)
    BY <1>1, <1>3
  <2>2. a \in Seq(S) /\ Len(a) = k /\ \A i \in 1..k : a[i] = t[i]
    BY <1>2, <1>3, <2>1
  <2>3. b \in Seq(S) /\ Len(b) = k /\ \A i \in 1..k : b[i] = s[i]
    BY <1>2, <2>1
  <2> HIDE DEF a, b
  <2>4. ASSUME NEW i \in 1..k PROVE a[i] = b[i]
    <3>1. i \in 1..n
      BY <1>1, <2>1
    <3> QED BY <1>3, <2>2, <2>3, <3>1
  <2>5. a = b
    BY <2>2, <2>3, <2>4, SeqEqual
  <2> QED BY <2>5 DEF a, b
<1> QED BY <1>3, <1>4 DEF t

LEMMA InSequence ==
    ASSUME NEW S, NEW s \in Seq(S), NEW x
    PROVE  x \in ToSet(s) <=> \E i \in 1..Len(s) : s[i] = x
  BY LenProperties DEF ToSet

LEMMA InAppend ==
    ASSUME NEW S, NEW s \in Seq(S), NEW e \in S, NEW x
    PROVE  x \in ToSet(Append(s, e)) <=> x \in ToSet(s) \/ x = e
<1> DEFINE t == Append(s, e)
<1>1. /\ t \in Seq(S) /\ Len(t) = Len(s) + 1 /\ t[Len(s) + 1] = e
      /\ \A i \in 1..Len(s) : t[i] = s[i]
  BY AppendProperties
<1>2. Len(s) \in Nat
  BY LenProperties
<1> HIDE DEF t
<1>3. (\E i \in 1..Len(t) : t[i] = x) <=> (\E i \in 1..Len(s) : s[i] = x) \/ x = e
  <2>1. \A i \in 1..Len(t) : i \in 1..Len(s) \/ i = Len(s) + 1
    BY <1>1, <1>2
  <2>2. Len(s) + 1 \in 1..Len(t) /\ \A i \in 1..Len(s) : i \in 1..Len(t)
    BY <1>1, <1>2
  <2> QED BY <1>1, <2>1, <2>2
<1>4. x \in ToSet(t) <=> \E i \in 1..Len(t) : t[i] = x
  BY <1>1, InSequence
<1>5. x \in ToSet(s) <=> \E i \in 1..Len(s) : s[i] = x
  BY InSequence
<1> QED BY <1>3, <1>4, <1>5 DEF t

-----------------------------------------------------------------------------
(* The ring *)

LEMMA IndexIs ==
    ASSUME NEW x \in 0..(2 * Capacity - 1)
    PROVE  /\ x % Capacity = IF x < Capacity THEN x ELSE x - Capacity
           /\ x % Capacity \in Indices
<1>1. Capacity \in Nat \ {0}
  BY LogRingAssumption
<1>2. x % Capacity = IF x < Capacity THEN x ELSE x - Capacity
  <2> DEFINE c == Capacity
  <2>1. c \in Nat \ {0} /\ x \in 0..(2 * c - 1)
    BY <1>1
  <2> HIDE DEF c
  <2>2. x % c = IF x < c THEN x ELSE x - c
    BY <2>1, SMT
  <2> QED BY <2>2 DEF c
<1> QED BY <1>1, <1>2 DEF Indices

LEMMA ContentsIs ==
    ASSUME RingTypeOK
    PROVE  /\ Contents \in Seq(Records) /\ Len(Contents) = size
           /\ \A i \in 1..size : Contents[i] = entries[(start + i - 1) % Capacity]
  BY LogRingAssumption DEF RingTypeOK, Contents, Indices

\* A ring that is not full gains a record ...
LEMMA AppendFree ==
    ASSUME RingTypeOK, NEW item \in Records, RingAppend(item), size # Capacity
    PROVE  RingTypeOK' /\ Contents' = Append(Contents, item)
<1> USE LogRingAssumption
<1> DEFINE last == (start + size) % Capacity
<1>1. /\ start \in Indices /\ size \in 0..(Capacity - 1) /\ Capacity \in Nat \ {0}
      /\ start' = start /\ size' = size + 1
      /\ entries' = [entries EXCEPT ![last] = item]
      /\ entries \in [Indices -> Records \cup {NoRecord}]
  BY DEF RingTypeOK, RingAppend
<1>2. last \in Indices
  <2>1. start + size \in 0..(2 * Capacity - 1)
    BY <1>1 DEF Indices
  <2> QED BY <2>1, IndexIs
<1>3. ASSUME NEW i \in 1..size
      PROVE  /\ (start + i - 1) % Capacity \in Indices
             /\ (start + i - 1) % Capacity # last
  <2> DEFINE x == start + i - 1
             y == start + size
  <2>1. x \in 0..(2 * Capacity - 1) /\ y \in 0..(2 * Capacity - 1) /\ x < y /\ y - x <= size
    BY <1>1 DEF Indices
  <2> HIDE DEF x, y, last
  <2>2. /\ x % Capacity = IF x < Capacity THEN x ELSE x - Capacity
        /\ x % Capacity \in Indices
    BY <2>1, IndexIs
  <2>3. y % Capacity = IF y < Capacity THEN y ELSE y - Capacity
    BY <2>1, IndexIs
  <2>4. x % Capacity # y % Capacity
    BY <1>1, <2>1, <2>2, <2>3
  <2> QED BY <2>2, <2>4 DEF x, y, last
<1> HIDE DEF last
<1>4. (start + size' - 1) % Capacity = last
  <2>1. start + (size + 1) - 1 = start + size
    BY <1>1 DEF Indices
  <2> QED BY <1>1, <2>1 DEF last
<1>5. \A i \in 1..size' :
          entries'[(start' + i - 1) % Capacity]
              = IF i = size + 1 THEN item ELSE entries[(start + i - 1) % Capacity]
  <2> SUFFICES ASSUME NEW i \in 1..size'
               PROVE  entries'[(start + i - 1) % Capacity]
                        = IF i = size + 1 THEN item ELSE entries[(start + i - 1) % Capacity]
    BY <1>1
  <2>1. CASE i = size + 1
    BY <1>1, <1>2, <1>4, <2>1
  <2>2. CASE i # size + 1
    <3>1. i \in 1..size
      BY <1>1, <2>2
    <3> QED BY <1>1, <1>2, <1>3, <2>2, <3>1
  <2> QED BY <2>1, <2>2
<1>6. \A i \in 1..size : entries[(start + i - 1) % Capacity] \in Records
  BY DEF RingTypeOK
<1>7. RingTypeOK'
  <2>1. entries' \in [Indices -> Records \cup {NoRecord}]
    BY <1>1, <1>2
  <2>2. size' \in 0..Capacity /\ start' \in Indices
    BY <1>1
  <2>3. \A i \in 1..size' : entries'[(start' + i - 1) % Capacity] \in Records
    <3> SUFFICES ASSUME NEW i \in 1..size'
                 PROVE  entries'[(start' + i - 1) % Capacity] \in Records
      OBVIOUS
    <3>1. i = size + 1 \/ i \in 1..size
      BY <1>1
    <3> QED BY <1>5, <1>6, <3>1
  <2> QED BY <2>1, <2>2, <2>3 DEF RingTypeOK
<1>8. Contents' = Append(Contents, item)
  <2>1. /\ Contents \in Seq(Records) /\ Len(Contents) = size
        /\ \A i \in 1..size : Contents[i] = entries[(start + i - 1) % Capacity]
    BY ContentsIs
  <2> DEFINE t == Contents'
  <2>2. /\ t \in Seq(Records) /\ Len(t) = size + 1
        /\ \A i \in 1..(size + 1) : t[i] = entries'[(start' + i - 1) % Capacity]
    <3>1. \A i \in 1..(size + 1) : entries'[(start' + i - 1) % Capacity] \in Records
      BY <1>1, <1>7 DEF RingTypeOK
    <3> QED BY <1>1, <3>1 DEF Contents
  <2> DEFINE s == Contents
  <2>3. s \in Seq(Records) /\ Len(s) = size
    BY <2>1
  <2>4. ASSUME NEW i \in 1..size PROVE t[i] = s[i]
    <3>1. i \in 1..(size + 1) /\ i \in 1..size' /\ i # size + 1
      BY <1>1
    <3>2. t[i] = entries'[(start' + i - 1) % Capacity]
      BY <2>2, <3>1
    <3>3. s[i] = entries[(start + i - 1) % Capacity]
      BY <2>1
    <3> HIDE DEF s, t
    <3> QED BY <1>5, <3>1, <3>2, <3>3
  <2>5. t[size + 1] = item
    BY <1>1, <1>5, <2>2
  <2> HIDE DEF s, t
  <2>6. t = Append(s, item)
    BY <2>2, <2>3, <2>4, <2>5, AppendIs
  <2> QED BY <2>6 DEF s, t
<1> QED BY <1>7, <1>8

\* ... and a full one exchanges its oldest record for it.
LEMMA AppendFull ==
    ASSUME RingTypeOK, NEW item \in Records, RingAppend(item), size = Capacity
    PROVE  RingTypeOK' /\ Contents' = Append(Tail(Contents), item)
<1> USE LogRingAssumption
<1> DEFINE at(i) == (start' + i - 1) % Capacity
<1>1. /\ start \in Indices /\ Capacity \in Nat \ {0}
      /\ start' = (start + 1) % Capacity /\ size' = size
      /\ entries' = [entries EXCEPT ![start] = item]
      /\ entries \in [Indices -> Records \cup {NoRecord}]
  BY DEF RingTypeOK, RingAppend
<1>2. start' \in Indices /\ start' = IF start + 1 < Capacity THEN start + 1 ELSE 0
  <2> DEFINE x == start + 1
  <2>1. x \in 0..(2 * Capacity - 1) /\ x <= Capacity
    BY <1>1 DEF Indices
  <2> HIDE DEF x
  <2>2. /\ x % Capacity = IF x < Capacity THEN x ELSE x - Capacity
        /\ x % Capacity \in Indices
    BY <2>1, IndexIs
  <2>3. x % Capacity = IF x < Capacity THEN x ELSE 0
    BY <1>1, <2>1, <2>2
  <2> QED BY <1>1, <2>2, <2>3 DEF x
<1>3. ASSUME NEW i \in 1..Capacity
      PROVE  /\ at(i) = IF i = Capacity THEN start ELSE (start + (i + 1) - 1) % Capacity
             /\ at(i) \in Indices /\ (i # Capacity => at(i) # start)
  <2> DEFINE x == start' + i - 1
             y == start + (i + 1) - 1
  <2>1. x \in 0..(2 * Capacity - 1)
    BY <1>1, <1>2 DEF Indices
  <2>2. i # Capacity => y \in 0..(2 * Capacity - 1) /\ y # start /\ y # start + Capacity
    BY <1>1 DEF Indices
  <2>3. /\ i = Capacity => x = start + Capacity \/ x = start
        /\ i # Capacity => x = y \/ x = y - Capacity
    BY <1>1, <1>2 DEF Indices
  <2>4. start \in 0..(Capacity - 1)
    BY <1>1 DEF Indices
  <2> HIDE DEF x, y
  <2>5. /\ x % Capacity = IF x < Capacity THEN x ELSE x - Capacity
        /\ x % Capacity \in Indices
    BY <2>1, IndexIs
  <2>6. i # Capacity => y % Capacity = IF y < Capacity THEN y ELSE y - Capacity
    BY <2>2, IndexIs
  <2>7. i = Capacity => x % Capacity = start
    BY <1>1, <2>1, <2>3, <2>4, <2>5
  <2>8. i # Capacity => x % Capacity = y % Capacity /\ x % Capacity # start
    BY <1>1, <2>1, <2>2, <2>3, <2>4, <2>5, <2>6
  <2> QED BY <2>5, <2>7, <2>8 DEF x, y
<1> HIDE DEF at
<1>4. \A i \in 1..Capacity :
          entries'[at(i)] = IF i = Capacity THEN item
                            ELSE entries[(start + (i + 1) - 1) % Capacity]
  BY <1>1, <1>3
<1>5. /\ Contents \in Seq(Records) /\ Len(Contents) = Capacity
      /\ \A i \in 1..Capacity : Contents[i] = entries[(start + i - 1) % Capacity]
  BY ContentsIs
<1>6. \A i \in 1..Capacity :
          entries'[at(i)] = IF i = Capacity THEN item ELSE Contents[i + 1]
  <2> SUFFICES ASSUME NEW i \in 1..Capacity
               PROVE  entries'[at(i)] = IF i = Capacity THEN item ELSE Contents[i + 1]
    OBVIOUS
  <2>1. i = Capacity \/ i + 1 \in 1..Capacity
    BY <1>1
  <2> QED BY <1>4, <1>5, <2>1
<1>7. RingTypeOK'
  <2>1. entries' \in [Indices -> Records \cup {NoRecord}]
    BY <1>1
  <2>2. size' \in 0..Capacity
    BY <1>1
  <2>3. \A i \in 1..size' : entries'[(start' + i - 1) % Capacity] \in Records
    <3> SUFFICES ASSUME NEW i \in 1..Capacity PROVE entries'[at(i)] \in Records
      BY <1>1 DEF at
    <3>1. i = Capacity \/ i + 1 \in 1..Capacity
      BY <1>1
    <3> QED BY <1>5, <1>6, <3>1
  <2> QED BY <1>2, <2>1, <2>2, <2>3 DEF RingTypeOK
<1>8. Contents' = Append(Tail(Contents), item)
  <2> DEFINE t == Contents'
             s == Tail(Contents)
  <2>1. /\ t \in Seq(Records) /\ Len(t) = Capacity
        /\ \A i \in 1..Capacity : t[i] = entries'[at(i)]
    <3>1. \A i \in 1..Capacity : entries'[at(i)] \in Records
      BY <1>1, <1>7 DEF RingTypeOK, at
    <3> QED BY <1>1, <3>1 DEF Contents, at
  <2>2. /\ s \in Seq(Records) /\ Len(s) = Capacity - 1
        /\ \A i \in 1..(Capacity - 1) : s[i] = Contents[i + 1]
    <3> DEFINE c == Contents
    <3>1. c \in Seq(Records) /\ Len(c) = Capacity
      BY <1>5
    <3> HIDE DEF c
    <3>2. /\ Tail(c) \in Seq(Records) /\ Len(Tail(c)) = Capacity - 1
          /\ \A i \in 1..(Capacity - 1) : Tail(c)[i] = c[i + 1]
      BY <1>1, <3>1
    <3> QED BY <3>2 DEF c
  <2>3. \A i \in 1..(Capacity - 1) : t[i] = s[i]
    BY <1>1, <1>6, <2>1, <2>2
  <2>4. t[Capacity] = item
    BY <1>1, <1>6, <2>1
  <2>5. Len(t) = Len(s) + 1
    BY <1>1, <2>1, <2>2
  <2> HIDE DEF s, t
  <2>6. t = Append(s, item)
    BY <2>1, <2>2, <2>3, <2>4, <2>5, AppendIs
  <2> QED BY <2>6 DEF s, t
<1> QED BY <1>7, <1>8

\* Every append is one of the abstract log.
LEMMA AppendStep ==
    ASSUME RingTypeOK, NEW item \in Records, RingAppend(item)
    PROVE  RingTypeOK' /\ Window!Next
<1>1. Len(Contents) = size /\ size \in 0..Capacity /\ Capacity \in Nat
  BY ContentsIs, LogRingAssumption DEF RingTypeOK
<1>2. CASE size = Capacity
  BY <1>1, <1>2, AppendFull DEF Window!Next, Window!Record
<1>3. CASE size # Capacity
  BY <1>1, <1>3, AppendFree DEF Window!Next, Window!Record
<1> QED BY <1>2, <1>3

LEMMA LogsStep ==
    ASSUME RingTypeOK, NEW level \in Levels, NEW about \in {"request", "other"},
           Logs(level, about)
    PROVE  RingTypeOK' /\ (Window!Next \/ UNCHANGED Contents)
<1>1. [level |-> level, about |-> about] \in Records
  BY RequestLogAssumption
<1>2. CASE RingAppend([level |-> level, about |-> about])
  BY <1>1, <1>2, AppendStep
<1>3. CASE UNCHANGED ring
  BY <1>3 DEF ring, RingTypeOK, Contents
<1> QED BY <1>2, <1>3 DEF Logs

LEMMA NextStep ==
    ASSUME RingTypeOK, [Next]_vars
    PROVE  RingTypeOK' /\ (Window!Next \/ UNCHANGED Contents)
<1>1. ASSUME UNCHANGED ring PROVE RingTypeOK' /\ UNCHANGED Contents
  BY <1>1 DEF ring, RingTypeOK, Contents
<1>2. CASE Panic
  BY <1>2, LogsStep, RequestLogAssumption DEF Panic
<1>3. CASE FinishRequest
  BY <1>1, <1>3, LogsStep, RequestLogAssumption DEF FinishRequest
<1>4. ASSUME NEW level \in Levels, OtherLogs(level)
      PROVE  RingTypeOK' /\ (Window!Next \/ UNCHANGED Contents)
  BY <1>4, LogsStep DEF OtherLogs
<1>5. CASE UNCHANGED vars
  BY <1>1, <1>5 DEF vars
<1>6. CASE \/ \E r \in Requests : Arrive(r)
           \/ Method \/ BodyEnds \/ Respond \/ WriteAnswer
           \/ \E n \in 1..MaxBody : ReadChunk(n)
           \/ \E c \in Configurations : Reload(c)
  BY <1>1, <1>6 DEF Arrive, Method, Answers, BodyEnds, Respond, WriteAnswer, ReadChunk, Reload
<1> QED BY <1>2, <1>3, <1>4, <1>5, <1>6 DEF Next

\* The start of the ring, its size and its entries stay those of a ring.
THEOREM RingTyped == Spec => []RingTypeOK
<1>1. Init => RingTypeOK
  BY LogRingAssumption DEF Init, NewRing, RingTypeOK, Indices
<1>2. RingTypeOK /\ [Next]_vars => RingTypeOK'
  BY NextStep
<1> QED BY <1>1, <1>2, PTL DEF Spec

\* Whatever its capacity, the ring implements the log of which only the last records
\* are kept (Ring.append).
THEOREM RingImplementsWindow == Spec => RingIsWindow
<1>1. Init => Window!Init
  BY DEF Init, NewRing, Window!Init, Contents
<1>2. RingTypeOK /\ [Next]_vars => [Window!Next]_Contents
  BY NextStep
<1> QED BY <1>1, <1>2, RingTyped, PTL DEF Spec, RingIsWindow, Window!Spec

-----------------------------------------------------------------------------
(* The capture of a body *)

\* What a capture holds of the first bytes of a body.
Seen(kind, limit, body, n) ==
    [bytes |-> SubSeq(body, 1, IF n <= limit THEN n ELSE limit), limit |-> limit,
     truncated |-> n > limit, kind |-> kind]

LEMMA SeenNothing ==
    ASSUME NEW kind, NEW limit \in Nat, NEW body
    PROVE  Capture(kind, limit) = Seen(kind, limit, body, 0)
<1>1. SubSeq(body, 1, 0) = <<>>
  BY SubSeqEmpty
<1>2. 0 <= limit /\ (0 > limit) = FALSE
  OBVIOUS
<1> QED BY <1>1, <1>2 DEF Capture, Seen

\* A chunk adds what comes next of the body.
LEMMA SeenMore ==
    ASSUME NEW kind, NEW limit \in Nat, NEW S, NEW body \in Seq(S),
           NEW m \in 0..Len(body), NEW n \in 0..Len(body), m + n <= Len(body)
    PROVE  Write(Seen(kind, limit, body, m), SubSeq(body, m + 1, m + n))
             = Seen(kind, limit, body, m + n)
<1> DEFINE c == Seen(kind, limit, body, m)
           data == SubSeq(body, m + 1, m + n)
<1>1. Len(body) \in Nat /\ \A i \in 1..Len(body) : body[i] \in S
  BY LenProperties, ElementOfSeq
<1>2. data \in Seq(S) /\ Len(data) = n
  BY <1>1, SubSeqProperties
<1>3. /\ c.limit = limit /\ c.kind = kind
      /\ c.bytes = SubSeq(body, 1, IF m <= limit THEN m ELSE limit)
  BY DEF Seen
<1>8. c.truncated = (m > limit)
  BY DEF Seen
<1>4. Len(c.bytes) = IF m <= limit THEN m ELSE limit
  BY <1>1, <1>3, SubSeqProperties
<1>5. m <= limit => c.bytes \o data = SubSeq(body, 1, m + n)
  BY <1>1, <1>3, ConcatAdjacentSubSeq
<1>6. m < limit /\ n > limit - m =>
        c.bytes \o SubSeq(data, 1, limit - m) = SubSeq(body, 1, limit)
  <2> SUFFICES ASSUME m < limit, n > limit - m
               PROVE  c.bytes \o SubSeq(data, 1, limit - m) = SubSeq(body, 1, limit)
    OBVIOUS
  <2> DEFINE k == limit - m
             short == SubSeq(data, 1, k)
             part == SubSeq(body, m + 1, limit)
  <2>1. k \in 1..n /\ m + k = limit /\ limit - (m + 1) + 1 = k
    BY <1>1
  <2>2. short \in Seq(S) /\ Len(short) = k /\ \A i \in 1..k : short[i] = data[i]
    BY <1>2, <2>1, SubSeqProperties, ElementOfSeq
  <2>3. \A i \in 1..n : data[i] = body[(m + 1) + i - 1]
    <3>1. (m + n) - (m + 1) + 1 = n
      BY <1>1
    <3> QED BY <1>1, <3>1, SubSeqProperties
  <2>4. part \in Seq(S) /\ Len(part) = k /\ \A i \in 1..k : part[i] = body[(m + 1) + i - 1]
    BY <1>1, <2>1, SubSeqProperties
  <2> HIDE DEF short, part, data, k, c
  <2>5. short = part
    <3>1. ASSUME NEW i \in 1..k PROVE short[i] = part[i]
      <4>1. i \in 1..n
        BY <1>1, <2>1
      <4> QED BY <2>2, <2>3, <2>4, <4>1
    <3> QED BY <2>2, <2>4, <3>1, SeqEqual
  <2>6. SubSeq(body, 1, m) \o part = SubSeq(body, 1, limit)
    BY <1>1, ConcatAdjacentSubSeq DEF part
  <2>7. c.bytes = SubSeq(body, 1, m)
    BY <1>1, <1>3
  <2> QED BY <2>5, <2>6, <2>7 DEF short, k
<1> DEFINE w == Write(c, data)
<1> HIDE DEF c, data
<1>7. w = Kept(c, SubSeq(body, 1, IF m + n <= limit THEN m + n ELSE limit), m + n > limit)
  <2>1. CASE m >= limit
    <3>1. limit - Len(c.bytes) <= 0
      BY <1>1, <1>4, <2>1
    <3>2. (c.truncated \/ n > 0) = (m + n > limit)
      <4>1. CASE m > limit
        <5>1. (m > limit) = TRUE /\ (m + n > limit) = TRUE
          BY <1>1, <4>1
        <5> QED BY <1>8, <5>1, Zenon
      <4>2. CASE m = limit
        <5>1. (m > limit) = FALSE /\ (m + n > limit <=> n > 0)
          BY <1>1, <4>2
        <5>2. c.truncated = FALSE
          BY <1>8, <5>1, Zenon
        <5>3. CASE n > 0
          <6>1. (m + n > limit) = TRUE /\ (c.truncated \/ n > 0) = TRUE
            BY <5>1, <5>3
          <6> QED BY <6>1
        <5>4. CASE ~(n > 0)
          <6>1. (m + n > limit) = FALSE
            BY <5>1, <5>4
          <6>2. (c.truncated \/ n > 0) = FALSE
            BY <5>2, <5>4, Zenon
          <6> QED BY <6>1, <6>2
        <5> QED BY <5>3, <5>4
      <4> QED BY <1>1, <2>1, <4>1, <4>2
    <3>3. c.bytes = SubSeq(body, 1, IF m + n <= limit THEN m + n ELSE limit)
      BY <1>1, <1>3, <2>1
    <3> QED BY <1>2, <1>3, <3>1, <3>2, <3>3 DEF Write
  <2>2. CASE m < limit /\ n > limit - m
    <3>1. limit - Len(c.bytes) = limit - m /\ ~(limit - m <= 0) /\ ~(m + n <= limit)
      BY <1>1, <1>4, <2>2
    <3>2. (m + n > limit) = TRUE
      BY <1>1, <2>2
    <3> QED BY <1>2, <1>3, <1>6, <2>2, <3>1, <3>2 DEF Write
  <2>3. CASE m < limit /\ ~(n > limit - m)
    <3>1. limit - Len(c.bytes) = limit - m /\ ~(limit - m <= 0) /\ m + n <= limit
      BY <1>1, <1>4, <2>3
    <3>2. (m + n > limit) = FALSE /\ (m > limit) = FALSE
      BY <1>1, <2>3
    <3>3. c.truncated = FALSE
      BY <1>8, <3>2, Zenon
    <3>4. w = Kept(c, c.bytes \o data, c.truncated)
      BY <1>2, <1>3, <2>3, <3>1 DEF Write
    <3>5. c.bytes \o data = SubSeq(body, 1, IF m + n <= limit THEN m + n ELSE limit)
      BY <1>5, <2>3, <3>1
    <3>6. c.truncated = (m + n > limit)
      BY <3>2, <3>3, Zenon
    <3> QED BY <3>4, <3>5, <3>6, Zenon
  <2> QED BY <2>1, <2>2, <2>3
<1> QED BY <1>3, <1>7 DEF Kept, Seen, c, data

\* All that was read in a single chunk.
LEMMA SeenAtOnce ==
    ASSUME NEW kind, NEW limit \in Nat, NEW S, NEW body \in Seq(S), NEW n \in 0..Len(body)
    PROVE  Write(Capture(kind, limit), SubSeq(body, 1, n)) = Seen(kind, limit, body, n)
<1>1. Len(body) \in Nat
  BY LenProperties
<1>2. 0 \in 0..Len(body) /\ n \in Nat /\ 0 + n <= Len(body) /\ 0 + 1 = 1 /\ 0 + n = n
  BY <1>1
<1>3. \A m \in 0..Len(body) : m + n <= Len(body) =>
        Write(Seen(kind, limit, body, m), SubSeq(body, m + 1, m + n))
          = Seen(kind, limit, body, m + n)
  <2>1. TAKE m \in 0..Len(body)
  <2>2. HAVE m + n <= Len(body)
  <2> QED BY <2>2, SeenMore, ZenonT(60)
<1>4. Write(Seen(kind, limit, body, 0), SubSeq(body, 0 + 1, 0 + n))
        = Seen(kind, limit, body, 0 + n)
  BY <1>2, <1>3, Zenon
<1> QED BY <1>2, <1>4, SeenNothing, Zenon

-----------------------------------------------------------------------------
(* The request *)

LEMMA StatusKept ==
    ASSUME NEW d, "status" \in DOMAIN d
    PROVE  /\ WithoutForbiddenBody(d).status = d.status
           /\ DOMAIN WithoutForbiddenBody(d) = DOMAIN d
<1>1. [d EXCEPT !.body = "", !.type = ""].status = d.status
  OBVIOUS
<1> QED BY <1>1 DEF WithoutForbiddenBody

\* Whatever is selected has a status.
LEMMA SelectStatus ==
    ASSUME NEW rules, NEW r, NEW c, c.status # 0, c.beaconStatus # 0
    PROVE  Select(rules, r, c).status # 0
<1> DEFINE generic == Generic(r, c)
<1>1. "status" \in DOMAIN generic /\ generic.status # 0
  <2> DEFINE kind == SelectKind(r)
             asset == kind # "font" /\ (kind \in {"audio", "video"} => c.media = "asset")
             status == IF ~asset THEN 204 ELSE IF kind = "beacon" THEN c.beaconStatus
                       ELSE c.status
             d == [rule |-> "", kind |-> kind, status |-> status,
                   type |-> IF asset THEN kind ELSE "", body |-> IF asset THEN kind ELSE "",
                   headerType |-> "", delayed |-> FALSE]
  <2>1. "status" \in DOMAIN d /\ d.status = status
    OBVIOUS
  <2>2. generic = WithoutForbiddenBody(d)
    BY Zenon DEF Generic
  <2> HIDE DEF d, generic
  <2>3. d.status # 0
    BY <2>1
  <2> QED BY <2>1, <2>2, <2>3, StatusKept
<1> HIDE DEF generic
<1>2. ApplyJSONP(r, generic, c).status # 0
  BY <1>1 DEF ApplyJSONP
<1>3. ASSUME NEW rule
      PROVE  WithoutForbiddenBody(
                 [rule |-> rule.name, kind |-> generic.kind,
                  status |-> IF rule.status # 0 THEN rule.status ELSE generic.status,
                  type |-> IF rule.type # "" THEN rule.type ELSE generic.type,
                  body |-> IF rule.body # "" THEN rule.body ELSE generic.body,
                  headerType |-> rule.headerType, delayed |-> rule.delayed]).status # 0
  <2> DEFINE d ==
                 [rule |-> rule.name, kind |-> generic.kind,
                  status |-> IF rule.status # 0 THEN rule.status ELSE generic.status,
                  type |-> IF rule.type # "" THEN rule.type ELSE generic.type,
                  body |-> IF rule.body # "" THEN rule.body ELSE generic.body,
                  headerType |-> rule.headerType, delayed |-> rule.delayed]
  <2>1. "status" \in DOMAIN d /\ d.status # 0
    BY <1>1
  <2> HIDE DEF d
  <2>2. WithoutForbiddenBody(d).status # 0
    BY <2>1, StatusKept
  <2> QED BY <2>2 DEF d
<1> QED BY <1>2, <1>3, Zenon DEF Select, generic

\* A request has arrived if it is at some point.
LEMMA InFollowed ==
    ASSUME IInv, req.pc # "none"
    PROVE  req # None /\ Answering /\ Capturing
  BY DEF IInv, None

\* A step of the request, part by part.
Becomes(pc, capture, read, ended, log, decision, status, sent) ==
    req' = [pc |-> pc, r |-> req.r, conf |-> req.conf, capture |-> capture,
            read |-> read, ended |-> ended, log |-> log, decision |-> decision,
            status |-> status, sent |-> sent]

LEMMA RefusalIs ==
    ASSUME Answering, NEW status, NEW kind, Answers(status, kind)
    PROVE  \E decision :
               Becomes("finish", req.capture, req.read, req.ended, req.log, decision, status,
                       [status |-> status, type |-> "text", body |-> "error"])
  BY DEF Answering, Answers, Becomes

LEMMA MethodIs ==
    ASSUME IInv, Method
    PROVE  /\ req # None /\ Answering /\ Capturing /\ req.pc = "method" /\ conf' = conf
           /\ \/ \E status, decision :
                     /\ status # 0 /\ Finals(status) = {status}
                     /\ Becomes("finish", req.capture, req.read, req.ended, req.log,
                                decision, status,
                                [status |-> status, type |-> "text", body |-> "error"])
              \/ \E pc \in {"select", "body"} :
                     Becomes(pc, req.capture, req.read, req.ended, req.log, req.decision,
                             req.status, req.sent)
              \/ \E reason :
                     Becomes("body", req.capture, req.read, req.ended, Omit(reason, FALSE),
                             req.decision, req.status, req.sent)
              \/ Becomes("body", Capture(req.r.type, req.conf.bodyLimit), req.read, req.ended,
                         req.log, req.decision, req.status, req.sent)
<1>1. req # None /\ Answering /\ Capturing /\ req.pc = "method" /\ conf' = conf
  BY InFollowed DEF Method, Answers
<1>2. ASSUME NEW status, NEW kind, Answers(status, kind), status # 0
      PROVE  \E decision :
                 Becomes("finish", req.capture, req.read, req.ended, req.log, decision, status,
                         [status |-> status, type |-> "text", body |-> "error"])
  BY <1>1, <1>2, RefusalIs
<1>3. req' = [req EXCEPT !.pc = "select"] =>
        Becomes("select", req.capture, req.read, req.ended, req.log, req.decision, req.status,
                req.sent)
  BY <1>1 DEF Answering, Becomes
<1>4. req' = [req EXCEPT !.pc = "body"] =>
        Becomes("body", req.capture, req.read, req.ended, req.log, req.decision, req.status,
                req.sent)
  BY <1>1 DEF Answering, Becomes
<1>5. ASSUME NEW log, req' = [req EXCEPT !.pc = "body", !.log = log]
      PROVE  Becomes("body", req.capture, req.read, req.ended, log, req.decision,
                     req.status, req.sent)
  BY <1>1, <1>5 DEF Answering, Becomes
<1>6. ASSUME NEW capture, req' = [req EXCEPT !.pc = "body", !.capture = capture]
      PROVE  Becomes("body", capture, req.read, req.ended, req.log, req.decision,
                     req.status, req.sent)
  BY <1>1, <1>6 DEF Answering, Becomes
<1>7. \/ Answers(429, "ratelimited") \/ Answers(405, "badmethod")
      \/ req' = [req EXCEPT !.pc = "select"] \/ req' = [req EXCEPT !.pc = "body"]
      \/ \E reason : req' = [req EXCEPT !.pc = "body", !.log = Omit(reason, FALSE)]
      \/ req' = [req EXCEPT !.pc = "body", !.capture = Capture(req.r.type, req.conf.bodyLimit)]
  BY Zenon DEF Method
<1>8. CASE Answers(429, "ratelimited") \/ Answers(405, "badmethod")
  <2>1. \E status, kind : /\ status # 0 /\ Finals(status) = {status}
                         /\ Answers(status, kind)
    BY <1>8 DEF Finals, Informational
  <2> QED BY <1>1, <1>2, <2>1, Zenon
<1>9. CASE req' = [req EXCEPT !.pc = "select"] \/ req' = [req EXCEPT !.pc = "body"]
  <2>1. "select" \in {"select", "body"} /\ "body" \in {"select", "body"}
    OBVIOUS
  <2> QED BY <1>1, <1>3, <1>4, <1>9, <2>1, Zenon
<1>10. CASE \E reason : req' = [req EXCEPT !.pc = "body", !.log = Omit(reason, FALSE)]
  BY <1>1, <1>5, <1>10, Zenon
<1>11. CASE req' = [req EXCEPT !.pc = "body", !.capture = Capture(req.r.type, req.conf.bodyLimit)]
  BY <1>1, <1>6, <1>11, Zenon
<1> QED BY <1>7, <1>8, <1>9, <1>10, <1>11

LEMMA ReadChunkIs ==
    ASSUME IInv, NEW n \in 1..MaxBody, ReadChunk(n)
    PROVE  /\ req # None /\ Answering /\ Capturing /\ req.pc = "body" /\ conf' = conf
           /\ req.read + n <= Len(req.r.body)
           /\ Becomes("body",
                      IF Captures
                      THEN Write(req.capture,
                                 SubSeq(req.r.body, req.read + 1, req.read + n))
                      ELSE req.capture,
                      req.read + n, req.ended, req.log, req.decision, req.status, req.sent)
<1>1. /\ req # None /\ Answering /\ Capturing /\ req.pc = "body" /\ conf' = conf
      /\ req.read + n <= Len(req.r.body)
  BY InFollowed DEF ReadChunk
<1>2. ASSUME NEW read, NEW capture(_), req' = [req EXCEPT !.read = read, !.capture = capture(@)]
      PROVE  Becomes(req.pc, capture(req.capture), read, req.ended, req.log, req.decision,
                     req.status, req.sent)
  BY <1>1, <1>2 DEF Answering, Becomes
<1>3. req' = [req EXCEPT !.read = req.read + n,
                  !.capture = IF Captures
                              THEN Write(req.capture,
                                         SubSeq(req.r.body, req.read + 1, req.read + n))
                              ELSE req.capture]
  BY <1>1 DEF ReadChunk, Answering
<1> QED BY <1>1, <1>3 DEF Answering, Becomes

\* What is logged of the body when it ends.
Logged == IF Captures THEN Finish(req.capture) ELSE req.log

LEMMA BodyEndsIs ==
    ASSUME IInv, BodyEnds
    PROVE  /\ req # None /\ Answering /\ Capturing /\ req.pc = "body" /\ conf' = conf
           /\ \/ \E decision :
                     Becomes("finish", req.capture, req.read, "oversized", Logged, decision, 413,
                             [status |-> 413, type |-> "text", body |-> "error"])
              \/ /\ req.read = Len(req.r.body)
                 /\ Becomes("select", req.capture, req.read, "whole", Logged, req.decision,
                            req.status, req.sent)
              \/ Becomes("select", req.capture, req.read, "cut", Logged, req.decision,
                         req.status, req.sent)
<1>1. req # None /\ Answering /\ Capturing /\ req.pc = "body" /\ conf' = conf
  BY InFollowed DEF BodyEnds
<1>2. \/ req' = [req EXCEPT !.pc = "finish", !.log = Logged, !.status = 413,
                         !.ended = "oversized", !.decision.kind = "oversized",
                         !.sent = [status |-> 413, type |-> "text", body |-> "error"]]
      \/ /\ req.read = Len(req.r.body)
         /\ req' = [req EXCEPT !.pc = "select", !.log = Logged, !.ended = "whole"]
      \/ req' = [req EXCEPT !.pc = "select", !.log = Logged, !.ended = "cut"]
  BY Zenon DEF BodyEnds, Logged
<1>3. ASSUME NEW ended, req' = [req EXCEPT !.pc = "select", !.log = Logged, !.ended = ended]
      PROVE  Becomes("select", req.capture, req.read, ended, Logged, req.decision,
                     req.status, req.sent)
  BY <1>1, <1>3 DEF Answering, Becomes
<1>4. ASSUME req' = [req EXCEPT !.pc = "finish", !.log = Logged, !.status = 413,
                         !.ended = "oversized", !.decision.kind = "oversized",
                         !.sent = [status |-> 413, type |-> "text", body |-> "error"]]
      PROVE  \E decision :
                Becomes("finish", req.capture, req.read, "oversized", Logged, decision, 413,
                        [status |-> 413, type |-> "text", body |-> "error"])
  <2> DEFINE sent == [status |-> 413, type |-> "text", body |-> "error"]
             decision == [req.decision EXCEPT !.kind = "oversized"]
  <2>1. req' = [req EXCEPT !.pc = "finish", !.log = Logged, !.status = 413,
                         !.ended = "oversized", !.decision = decision, !.sent = sent]
    BY <1>1, <1>4 DEF Answering
  <2> HIDE DEF sent, decision
  <2>2. req = [pc |-> req.pc, r |-> req.r, conf |-> req.conf, capture |-> req.capture,
               read |-> req.read, ended |-> req.ended, log |-> req.log,
               decision |-> req.decision, status |-> req.status, sent |-> req.sent]
    BY <1>1 DEF Answering
  <2>3. Becomes("finish", req.capture, req.read, "oversized", Logged, decision, 413, sent)
    BY <2>1, <2>2, ZenonT(60) DEF Becomes
  <2> QED BY <2>3, Zenon DEF sent
<1> QED BY <1>1, <1>2, <1>3, <1>4, Zenon

LEMMA RespondIs ==
    ASSUME IInv, Respond
    PROVE  /\ req # None /\ Answering /\ Capturing /\ req.pc = "select" /\ conf' = conf
           /\ Becomes("write", req.capture, req.read, req.ended, req.log,
                      Select(Merge(req.conf.rules, req.conf.packs), req.r, req.conf),
                      req.status, req.sent)
<1>1. req # None /\ Answering /\ Capturing /\ req.pc = "select" /\ conf' = conf
  BY InFollowed DEF Respond
<1> QED BY <1>1 DEF Answering, Becomes, Respond

\* What is written has a status, whatever is.
LEMMA WriteAnswerIs ==
    ASSUME IInv, WriteAnswer
    PROVE  /\ req # None /\ Answering /\ Capturing /\ req.pc = "write" /\ conf' = conf
           /\ \/ Becomes("written", req.capture, req.read, req.ended, req.log, req.decision,
                         req.status, req.sent)
              \/ \E status, sent :
                     /\ status # 0 /\ sent.status \in Finals(status)
                     /\ Becomes("written", req.capture, req.read, req.ended, req.log, req.decision,
                                status, sent)
<1>1. req # None /\ Answering /\ Capturing /\ req.pc = "write" /\ conf' = conf
  BY InFollowed, Zenon DEF WriteAnswer
<1>2. req.decision.status # 0
  <2>1. req.conf.status # 0 /\ req.conf.beaconStatus # 0
    <3> DEFINE c == req.conf
    <3>1. c \in Configurations
      BY <1>1, Zenon DEF Answering
    <3> HIDE DEF c
    <3>2. c.status \in 100..599 /\ c.beaconStatus \in 100..599
      BY <3>1, ConfigurationsAssumption, Zenon
    <3>3. c.status # 0 /\ c.beaconStatus # 0
      BY <3>2
    <3> QED BY <3>3 DEF c
  <2> QED BY <1>1, <2>1, SelectStatus DEF Answering
<1> DEFINE status == WrittenStatus(req.r, req.decision)
           sent(final) == Written(req.r, req.decision, final)
<1>3. status # 0
  BY <1>2 DEF WrittenStatus
<1>4. \/ req' = [req EXCEPT !.pc = "written"]
      \/ \E final \in Finals(status) :
             req' = [req EXCEPT !.pc = "written", !.status = status, !.sent = sent(final)]
  BY Zenon DEF WriteAnswer
<1>7. \A final : sent(final).status = final
  BY DEF Written
<1> HIDE DEF sent, status
<1>5. CASE req' = [req EXCEPT !.pc = "written"]
  BY <1>1, <1>5 DEF Answering, Becomes
<1>6. ASSUME NEW final \in Finals(status),
             req' = [req EXCEPT !.pc = "written", !.status = status, !.sent = sent(final)]
      PROVE  \E code, answer :
                 /\ code # 0 /\ answer.status \in Finals(code)
                 /\ Becomes("written", req.capture, req.read, req.ended, req.log,
                            req.decision, code, answer)
  <2> DEFINE answer == sent(final)
  <2>1. answer.status \in Finals(status)
    BY <1>6, <1>7
  <2>2. req' = [req EXCEPT !.pc = "written", !.status = status, !.sent = answer]
    BY <1>6
  <2> HIDE DEF answer
  <2>3. Becomes("written", req.capture, req.read, req.ended, req.log, req.decision,
                status, answer)
    BY <1>1, <2>2 DEF Answering, Becomes
  <2> QED BY <1>3, <2>1, <2>3, Zenon
<1> QED BY <1>1, <1>4, <1>5, <1>6, Zenon

LEMMA PanicIs ==
    ASSUME IInv, Panic
    PROVE  /\ req # None /\ Answering /\ Capturing /\ conf' = conf
           /\ \E decision, status, sent :
                  /\ \/ status = req.status /\ sent = req.sent
                     \/ status # 0 /\ sent.status \in Finals(status)
                  /\ Becomes("finish", req.capture, req.read, req.ended, req.log, decision,
                             status, sent)
<1>1. req # None /\ Answering /\ Capturing /\ conf' = conf
  BY InFollowed DEF Panic
<1>2. CASE req' = [req EXCEPT !.pc = "finish", !.decision.kind = "panic"]
  <2>1. \E decision : Becomes("finish", req.capture, req.read, req.ended, req.log, decision,
                              req.status, req.sent)
    BY <1>1, <1>2 DEF Answering, Becomes
  <2> QED BY <1>1, <2>1, Zenon
<1>3. CASE req' = [req EXCEPT !.pc = "finish", !.decision.kind = "panic", !.status = 500,
                       !.sent = [status |-> 500, type |-> "text", body |-> "error"]]
  <2>1. \E decision : Becomes("finish", req.capture, req.read, req.ended, req.log, decision,
                              500, [status |-> 500, type |-> "text", body |-> "error"])
    <3> DEFINE sent == [status |-> 500, type |-> "text", body |-> "error"]
               decision == [req.decision EXCEPT !.kind = "panic"]
    <3>1. req' = [req EXCEPT !.pc = "finish", !.decision = decision, !.status = 500,
                       !.sent = sent]
      BY <1>1, <1>3 DEF Answering
    <3> HIDE DEF sent, decision
    <3>2. req = [pc |-> req.pc, r |-> req.r, conf |-> req.conf, capture |-> req.capture,
                 read |-> req.read, ended |-> req.ended, log |-> req.log,
                 decision |-> req.decision, status |-> req.status, sent |-> req.sent]
      BY <1>1, Zenon DEF Answering
    <3> DEFINE Record(pc, d, status, answer) ==
                 [pc |-> pc, r |-> req.r, conf |-> req.conf, capture |-> req.capture,
                  read |-> req.read, ended |-> req.ended, log |-> req.log,
                  decision |-> d, status |-> status, sent |-> answer]
               y1 == [req EXCEPT !.pc = "finish"]
               y2 == [y1 EXCEPT !.decision = decision]
               y3 == [y2 EXCEPT !.status = 500]
               y4 == [y3 EXCEPT !.sent = sent]
    <3>3. req' = y4
      BY <3>1, Zenon
    <3>4. y1 = Record("finish", req.decision, req.status, req.sent)
      BY <3>2
    <3> HIDE DEF y1
    <3>5. y2 = Record("finish", decision, req.status, req.sent)
      BY <3>4
    <3> HIDE DEF y2
    <3>6. y3 = Record("finish", decision, 500, req.sent)
      BY <3>5
    <3> HIDE DEF y3
    <3>7. y4 = Record("finish", decision, 500, sent)
      BY <3>6
    <3>8. Becomes("finish", req.capture, req.read, req.ended, req.log, decision, 500, sent)
      BY <3>3, <3>7, Zenon DEF Becomes
    <3> QED BY <3>8, Zenon DEF sent
  <2> DEFINE sent == [status |-> 500, type |-> "text", body |-> "error"]
  <2>2. 500 # 0 /\ sent.status \in Finals(500)
    BY DEF Finals, Informational
  <2> HIDE DEF sent
  <2>3. \E decision : Becomes("finish", req.capture, req.read, req.ended, req.log, decision,
                              500, sent)
    BY <2>1 DEF sent
  <2> QED BY <1>1, <2>2, <2>3, Zenon
<1> QED BY <1>2, <1>3 DEF Panic

LEMMA StaysAnswering ==
    ASSUME Answering, NEW pc, NEW capture, NEW read, NEW ended, NEW log,
           NEW decision, NEW status, NEW sent,
           Becomes(pc, capture, read, ended, log, decision, status, sent),
           pc \in {"method", "body", "select", "write", "written", "finish"},
           pc = "write" => decision = Select(Merge(req.conf.rules, req.conf.packs),
                                             req.r, req.conf),
           \/ status = req.status /\ sent = req.sent
           \/ status # 0 /\ sent.status \in Finals(status)
    PROVE  Answering'
<1>1. /\ req'.pc = pc /\ req'.r = req.r /\ req'.conf = req.conf /\ req'.decision = decision
      /\ req'.status = status /\ req'.sent = sent /\ req'.capture = capture /\ req'.log = log
      /\ req'.read = read /\ req'.ended = ended
  BY DEF Becomes
<1>2. req' = [pc |-> req'.pc, r |-> req'.r, conf |-> req'.conf, capture |-> req'.capture,
              read |-> req'.read, ended |-> req'.ended, log |-> req'.log,
              decision |-> req'.decision, status |-> req'.status, sent |-> req'.sent]
  BY <1>1, Zenon DEF Becomes
<1>3. req'.sent.status \in Finals(Status(req'))
  BY <1>1 DEF Answering, Status
<1> QED BY <1>1, <1>2, <1>3 DEF Answering

LEMMA StaysCapturing ==
    ASSUME NEW pc, NEW capture, NEW read, NEW ended, NEW log,
           NEW decision, NEW status, NEW sent,
           Becomes(pc, capture, read, ended, log, decision, status, sent),
           read \in 0..Len(req.r.body),
           capture.kind # "none" =>
               capture = Write(Capture(req.r.type, req.conf.bodyLimit),
                               SubSeq(req.r.body, 1, read)),
           pc = "method" => capture.kind = "none" /\ read = 0,
           pc \in {"method", "body"} => ended = "open",
           ended = "whole" => read = Len(req.r.body),
           capture.kind # "none" /\ ended # "open" => log = Finish(capture),
           ~(capture.kind # "none" /\ ended # "open") => log.value = {}
    PROVE  Capturing'
<1>1. /\ req'.pc = pc /\ req'.r = req.r /\ req'.conf = req.conf /\ req'.capture = capture
      /\ req'.log = log /\ req'.read = read /\ req'.ended = ended
  BY DEF Becomes
<1> QED BY <1>1 DEF Capturing, Captures

LEMMA CaptureMore ==
    ASSUME Answering, Capturing, Captures, NEW n \in Nat,
           req.read + n <= Len(req.r.body)
    PROVE  /\ Write(req.capture, SubSeq(req.r.body, req.read + 1, req.read + n))
                = Write(Capture(req.r.type, req.conf.bodyLimit),
                        SubSeq(req.r.body, 1, req.read + n))
           /\ Write(req.capture, SubSeq(req.r.body, req.read + 1, req.read + n)).kind # "none"
<1> DEFINE body == req.r.body
           limit == req.conf.bodyLimit
           m == req.read
<1>1. limit \in Nat /\ body \in Seq(Bytes)
  BY ConfigurationsAssumption, RequestsAssumption DEF Answering
<1>2. Len(body) \in Nat /\ m \in 0..Len(body)
  BY <1>1, LenProperties DEF Capturing
<1>3. n \in 0..Len(body) /\ m + n \in 0..Len(body)
  BY <1>2
<1>4. req.capture = Write(Capture(req.r.type, limit), SubSeq(body, 1, m))
  BY DEF Capturing
<1> HIDE DEF body, limit, m
<1>5. req.capture = Seen(req.r.type, limit, body, m)
  BY <1>1, <1>2, <1>4, SeenAtOnce
<1>6. Write(req.capture, SubSeq(body, m + 1, m + n)) = Seen(req.r.type, limit, body, m + n)
  BY <1>1, <1>2, <1>3, <1>5, SeenMore DEF body, m
<1>7. Write(Capture(req.r.type, limit), SubSeq(body, 1, m + n))
        = Seen(req.r.type, limit, body, m + n)
  BY <1>1, <1>3, SeenAtOnce
<1>8. req.capture.kind = Seen(req.r.type, limit, body, m + n).kind
  BY <1>5 DEF Seen
<1> QED BY <1>6, <1>7, <1>8 DEF body, limit, m, Captures

LEMMA ArriveStep ==
    ASSUME NEW r \in Requests, Arrive(r), conf \in Configurations
    PROVE  Answering' /\ Capturing'
<1>1. Answering'
  BY DEF Arrive, Answering, Status, Finals, Informational
<1>2. Len(r.body) \in Nat
  BY RequestsAssumption, LenProperties
<1>3. /\ req'.capture.kind = "none" /\ req'.log.value = {} /\ req'.read = 0
      /\ req'.ended = "open" /\ req'.r = r
  BY DEF Arrive, Capture, NoLog
<1>4. Capturing'
  <2>1. ~Captures'
    BY <1>3 DEF Captures
  <2>2. 0 \in 0..Len(r.body)
    BY <1>2
  <2>3. req'.read \in 0..Len(req'.r.body)
    BY <1>3, <2>2
  <2> QED BY <1>3, <2>1, <2>3 DEF Capturing
<1> QED BY <1>1, <1>4

LEMMA MethodStep ==
    ASSUME IInv, Method
    PROVE  Answering' /\ Capturing'
<1>1. req # None /\ Answering /\ Capturing /\ req.pc = "method" /\ conf' = conf
  BY MethodIs
<1>2. /\ req.read \in 0..Len(req.r.body) /\ req.capture.kind = "none"
      /\ req.ended = "open" /\ req.log.value = {}
  BY <1>1 DEF Capturing, Captures
<1>3. CASE \E status, decision :
               /\ status # 0 /\ Finals(status) = {status}
               /\ Becomes("finish", req.capture, req.read, req.ended, req.log, decision, status,
                          [status |-> status, type |-> "text", body |-> "error"])
  <2>1. PICK status, decision :
               /\ status # 0 /\ Finals(status) = {status}
               /\ Becomes("finish", req.capture, req.read, req.ended, req.log, decision, status,
                          [status |-> status, type |-> "text", body |-> "error"])
    BY <1>3
  <2> DEFINE sent == [status |-> status, type |-> "text", body |-> "error"]
  <2>2. sent.status \in Finals(status)
    BY <2>1
  <2>3. Becomes("finish", req.capture, req.read, req.ended, req.log, decision, status, sent)
    BY <2>1
  <2> HIDE DEF sent
  <2>4. Answering'
    BY <1>1, <2>1, <2>2, <2>3, StaysAnswering
  <2> QED BY <1>2, <2>3, <2>4, StaysCapturing
<1>4. CASE \E pc \in {"select", "body"} :
               Becomes(pc, req.capture, req.read, req.ended, req.log, req.decision,
                       req.status, req.sent)
  <2>1. PICK pc \in {"select", "body"} :
               Becomes(pc, req.capture, req.read, req.ended, req.log, req.decision,
                       req.status, req.sent)
    BY <1>4
  <2>2. Answering'
    BY <1>1, <2>1, StaysAnswering
  <2> QED BY <1>2, <2>1, <2>2, StaysCapturing
<1>5. CASE \E reason :
               Becomes("body", req.capture, req.read, req.ended, Omit(reason, FALSE),
                       req.decision, req.status, req.sent)
  <2>1. PICK log :
               /\ Becomes("body", req.capture, req.read, req.ended, log,
                          req.decision, req.status, req.sent)
               /\ log.value = {}
    <3>1. \A reason : Omit(reason, FALSE).value = {}
      BY DEF Omit
    <3> QED BY <1>5, <3>1, Zenon
  <2>2. Answering'
    BY <1>1, <2>1, StaysAnswering
  <2> QED BY <1>2, <2>1, <2>2, StaysCapturing
<1>6. CASE Becomes("body", Capture(req.r.type, req.conf.bodyLimit), req.read, req.ended,
                   req.log, req.decision, req.status, req.sent)
  <2>1. Answering'
    BY <1>1, <1>6, StaysAnswering
  <2>2. req.conf.bodyLimit \in Nat /\ req.r.body \in Seq(Bytes)
    BY <1>1, ConfigurationsAssumption, RequestsAssumption DEF Answering
  <2>3. Capture(req.r.type, req.conf.bodyLimit)
          = Write(Capture(req.r.type, req.conf.bodyLimit), SubSeq(req.r.body, 1, 0))
    <3>1. 0 \in 0..Len(req.r.body)
      BY <1>1 DEF Capturing
    <3> QED BY <2>2, <3>1, SeenAtOnce, SeenNothing
  <2>4. req.read = 0
    BY <1>1 DEF Capturing
  <2>5. PICK capture : /\ capture = Capture(req.r.type, req.conf.bodyLimit)
                       /\ capture = Write(Capture(req.r.type, req.conf.bodyLimit),
                                          SubSeq(req.r.body, 1, req.read))
    BY <2>3, <2>4
  <2>6. Becomes("body", capture, req.read, req.ended, req.log, req.decision, req.status, req.sent)
    BY <1>6, <2>5
  <2> QED BY <1>2, <2>1, <2>5, <2>6, StaysCapturing
<1> QED BY <1>3, <1>4, <1>5, <1>6, MethodIs, Zenon

LEMMA ReadChunkStep ==
    ASSUME IInv, NEW n \in 1..MaxBody, ReadChunk(n)
    PROVE  Answering' /\ Capturing'
<1> DEFINE capture == IF Captures
                      THEN Write(req.capture, SubSeq(req.r.body, req.read + 1, req.read + n))
                      ELSE req.capture
<1>1. /\ req # None /\ Answering /\ Capturing /\ req.pc = "body"
      /\ req.read + n <= Len(req.r.body)
      /\ Becomes("body", capture, req.read + n, req.ended, req.log, req.decision,
                 req.status, req.sent)
  BY ReadChunkIs, Zenon
<1>2. /\ req.read \in Nat /\ req.read \in 0..Len(req.r.body)
      /\ req.ended = "open" /\ req.log.value = {}
  <2>1. Len(req.r.body) \in Nat
    BY <1>1, RequestsAssumption, LenProperties DEF Answering
  <2> QED BY <1>1, <2>1 DEF Capturing
<1>3. req.read + n \in 0..Len(req.r.body)
  <2>1. Len(req.r.body) \in Nat
    BY <1>1, RequestsAssumption, LenProperties DEF Answering
  <2> QED BY <1>1, <1>2, <2>1
<1>4. capture.kind # "none" =>
        capture = Write(Capture(req.r.type, req.conf.bodyLimit),
                        SubSeq(req.r.body, 1, req.read + n))
  BY <1>1, CaptureMore DEF Captures
<1> HIDE DEF capture
<1>5. Answering'
  BY <1>1, StaysAnswering
<1> QED BY <1>1, <1>2, <1>3, <1>4, <1>5, StaysCapturing

\* The end of the body logs what was captured of it.
LEMMA BodyEndsStep ==
    ASSUME IInv, BodyEnds
    PROVE  Answering' /\ Capturing'
<1>1. req # None /\ Answering /\ Capturing /\ req.pc = "body" /\ conf' = conf
  BY BodyEndsIs
<1>2. /\ req.read \in 0..Len(req.r.body) /\ req.log.value = {}
      /\ req.capture.kind # "none" =>
             req.capture = Write(Capture(req.r.type, req.conf.bodyLimit),
                                 SubSeq(req.r.body, 1, req.read))
  BY <1>1 DEF Capturing, Captures
<1>3. /\ req.capture.kind # "none" => Logged = Finish(req.capture)
      /\ ~(req.capture.kind # "none") => Logged.value = {}
  BY <1>2, Zenon DEF Logged, Captures
<1>4. CASE \E decision :
               Becomes("finish", req.capture, req.read, "oversized", Logged, decision, 413,
                       [status |-> 413, type |-> "text", body |-> "error"])
  <2> DEFINE sent == [status |-> 413, type |-> "text", body |-> "error"]
  <2>1. PICK decision :
            Becomes("finish", req.capture, req.read, "oversized", Logged, decision, 413, sent)
    BY <1>4
  <2>2. sent.status \in Finals(413) /\ 413 # 0
    BY DEF Finals, Informational
  <2> HIDE DEF sent
  <2>3. Answering'
    BY <1>1, <2>1, <2>2, StaysAnswering
  <2> QED BY <1>2, <1>3, <2>1, <2>3, StaysCapturing
<1>5. CASE /\ req.read = Len(req.r.body)
           /\ Becomes("select", req.capture, req.read, "whole", Logged, req.decision,
                      req.status, req.sent)
  <2>1. Answering'
    BY <1>1, <1>5, StaysAnswering
  <2> QED BY <1>2, <1>3, <1>5, <2>1, StaysCapturing
<1>6. CASE Becomes("select", req.capture, req.read, "cut", Logged, req.decision,
                   req.status, req.sent)
  <2>1. Answering'
    BY <1>1, <1>6, StaysAnswering
  <2> QED BY <1>2, <1>3, <1>6, <2>1, StaysCapturing
<1> QED BY <1>4, <1>5, <1>6, BodyEndsIs, Zenon

\* After the body the capture and the log stay as they are.
LEMMA KeepsCapturing ==
    ASSUME Answering, Capturing, req.pc # "none",
           NEW pc \in {"write", "written", "finish"}, NEW decision, NEW status, NEW sent,
           Becomes(pc, req.capture, req.read, req.ended, req.log, decision, status, sent)
    PROVE  Capturing'
<1>1. /\ req.read \in 0..Len(req.r.body)
      /\ req.capture.kind # "none" =>
           req.capture = Write(Capture(req.r.type, req.conf.bodyLimit),
                               SubSeq(req.r.body, 1, req.read))
      /\ req.ended = "whole" => req.read = Len(req.r.body)
      /\ req.capture.kind # "none" /\ req.ended # "open" => req.log = Finish(req.capture)
      /\ ~(req.capture.kind # "none" /\ req.ended # "open") => req.log.value = {}
  BY DEF Capturing, Captures
<1> QED BY <1>1, StaysCapturing

LEMMA InvariantStep ==
    ASSUME IInv, [Next]_vars
    PROVE  IInv'
<1>1. RingTypeOK'
  BY NextStep DEF IInv
<1>2. conf' \in Configurations
  BY MethodIs, ReadChunkIs, BodyEndsIs, RespondIs, WriteAnswerIs, PanicIs
     DEF IInv, Next, vars, Arrive, FinishRequest, OtherLogs, Reload
<1>3. ASSUME req' = req, req' # None PROVE Answering' /\ Capturing'
  BY <1>3 DEF IInv, Answering, Capturing, Captures, Status
<1>4. CASE UNCHANGED vars \/ (\E level \in Levels : OtherLogs(level))
           \/ (\E c \in Configurations : Reload(c))
  BY <1>1, <1>2, <1>3, <1>4 DEF vars, OtherLogs, Reload, IInv
<1>5. ASSUME NEW r \in Requests, Arrive(r) PROVE IInv'
  BY <1>1, <1>2, <1>5, ArriveStep DEF IInv
<1>6. CASE Method
  BY <1>1, <1>2, <1>6, MethodStep DEF IInv
<1>7. ASSUME NEW n \in 1..MaxBody, ReadChunk(n) PROVE IInv'
  BY <1>1, <1>2, <1>7, ReadChunkStep DEF IInv
<1>8. CASE BodyEnds
  BY <1>1, <1>2, <1>8, BodyEndsStep DEF IInv
<1>9. CASE Respond
  <2>1. Answering'
    BY <1>9, RespondIs, StaysAnswering
  <2>2. Capturing'
    BY <1>9, RespondIs, KeepsCapturing
  <2> QED BY <1>1, <1>2, <2>1, <2>2 DEF IInv
<1>10. CASE WriteAnswer
  <2>1. Answering'
    BY <1>10, WriteAnswerIs, StaysAnswering
  <2>2. Capturing'
    BY <1>10, WriteAnswerIs, KeepsCapturing
  <2> QED BY <1>1, <1>2, <2>1, <2>2 DEF IInv
<1>11. CASE Panic
  <2>1. PICK decision, status, sent :
               /\ \/ status = req.status /\ sent = req.sent
                  \/ status # 0 /\ sent.status \in Finals(status)
               /\ Becomes("finish", req.capture, req.read, req.ended, req.log, decision,
                          status, sent)
    BY <1>11, PanicIs
  <2>2. Answering /\ Capturing
    BY <1>11, PanicIs
  <2>3. Answering'
    BY <2>1, <2>2, StaysAnswering
  <2>4. Capturing'
    BY <2>1, <2>2, KeepsCapturing DEF Answering
  <2> QED BY <1>1, <1>2, <2>3, <2>4 DEF IInv
<1>12. CASE FinishRequest
  BY <1>1, <1>2, <1>12 DEF FinishRequest, IInv
<1> QED BY <1>4, <1>5, <1>6, <1>7, <1>8, <1>9, <1>10, <1>11, <1>12 DEF Next

LEMMA InitInvariant == Init => IInv
  BY LogRingAssumption DEF Init, NewRing, RingTypeOK, Indices, IInv

\* The invariant of a request and of the log it ends in.
THEOREM Invariant == Spec => []IInv
<1>1. IInv /\ [Next]_vars => IInv'
  BY InvariantStep
<1> QED BY <1>1, InitInvariant, PTL DEF Spec

\* The status in the access log is the final one the client is sent, for every request,
\* rule and configuration, wherever the handler panics; a status below 200 that was
\* selected is logged in place of the 200 that follows it.
THEOREM StatusLogged == Spec => []LoggedAsSent
<1>1. IInv => LoggedAsSent
  BY DEF IInv, LoggedAsSent, Answering, Finals, Informational
<1> QED BY <1>1, Invariant, PTL

-----------------------------------------------------------------------------
(* Runes *)

LEMMA LengthIs == \A byte : Length(byte) \in 1..UTFMax
  BY DEF Length, RuneLength, UTFMax

\* A part of whole runes that ends before the first byte of one is whole runes.
LEMMA ValidPrefix ==
    ASSUME NEW S, NEW body \in Seq(S), Valid(body), NEW m \in 0..Len(body),
           m = Len(body) \/ body[m + 1] # "more"
    PROVE  Valid(SubSeq(body, 1, m))
<1> DEFINE data == SubSeq(body, 1, m)
<1>1. Len(body) \in Nat
  BY LenProperties
<1>2. Len(data) = m /\ \A i \in 1..m : data[i] = body[i]
  BY PrefixIs
<1> HIDE DEF data
<1>3. ASSUME NEW i \in 1..m, data[i] = "more"
      PROVE  \E k \in 1..(UTFMax - 1) :
                 k < i /\ data[i - k] # "more" /\ k < Length(data[i - k])
  <2>1. i \in 1..Len(body) /\ body[i] = "more"
    BY <1>1, <1>2, <1>3
  <2>2. PICK k \in 1..(UTFMax - 1) :
                 k < i /\ body[i - k] # "more" /\ k < Length(body[i - k])
    BY <2>1 DEF Valid
  <2>3. k \in Int /\ i - k \in 1..m
    BY <2>2 DEF UTFMax
  <2> QED BY <1>2, <2>2, <2>3
<1>4. ASSUME NEW i \in 1..m, data[i] # "more"
      PROVE  LET last == i + Length(data[i]) - 1 IN
             last <= Len(data) /\ \A j \in (i + 1)..last : data[j] = "more"
  <2>1. i \in 1..Len(body) /\ body[i] # "more"
    BY <1>1, <1>2, <1>4
  <2> DEFINE last == i + Length(body[i]) - 1
  <2>2. last <= Len(body) /\ \A j \in (i + 1)..last : body[j] = "more"
    BY <2>1 DEF Valid
  <2>3. last \in Int
    BY LengthIs DEF UTFMax
  <2> HIDE DEF last
  <2>4. last <= m
    <3> SUFFICES ASSUME last > m PROVE FALSE
      BY <1>1, <2>3
    <3>1. m + 1 \in (i + 1)..last
      BY <1>1, <2>3
    <3> QED BY <1>1, <2>2, <2>3, <3>1
  <2>5. ASSUME NEW j \in (i + 1)..last PROVE data[j] = "more"
    <3>1. j \in 1..m
      BY <1>1, <2>3, <2>4
    <3> QED BY <1>2, <2>2, <3>1
  <2> QED BY <1>2, <2>4, <2>5 DEF last
<1> QED BY <1>2, <1>3, <1>4 DEF Valid, data

\* Wherever a text is cut, one of the last bytes is the end of a rune.
LEMMA RuneEnds ==
    ASSUME NEW S, NEW body \in Seq(S), Valid(body), NEW m \in 0..Len(body)
    PROVE  \E k \in 0..(UTFMax - 1) : k <= m /\ Valid(SubSeq(body, 1, m - k))
<1>1. Len(body) \in Nat /\ 0 \in 0..(UTFMax - 1) /\ m - 0 = m
  BY LenProperties DEF UTFMax
<1>2. CASE m = Len(body) \/ body[m + 1] # "more"
  <2>1. Valid(SubSeq(body, 1, m - 0)) /\ 0 <= m
    BY <1>1, <1>2, ValidPrefix
  <2> QED BY <1>1, <2>1
<1>3. CASE m # Len(body) /\ body[m + 1] = "more"
  <2>1. m + 1 \in 1..Len(body)
    BY <1>1, <1>3
  <2>2. PICK k \in 1..(UTFMax - 1) : k < m + 1 /\ body[(m + 1) - k] # "more"
    BY <1>3, <2>1 DEF Valid
  <2>3. k \in 0..(UTFMax - 1) /\ k <= m /\ m - k \in 0..Len(body) /\ (m - k) + 1 = (m + 1) - k
    BY <1>1, <2>2 DEF UTFMax
  <2>4. Valid(SubSeq(body, 1, m - k))
    BY <2>2, <2>3, ValidPrefix
  <2> QED BY <2>3, <2>4
<1> QED BY <1>2, <1>3

\* What is left of a text is as much of it as can be read.
LEMMA TrimIs ==
    ASSUME NEW S, NEW body \in Seq(S), Valid(body), NEW limit \in 0..Len(body),
           ~Valid(SubSeq(body, 1, limit))
    PROVE  /\ Trim(SubSeq(body, 1, limit)) = Readable(body, limit)
           /\ Valid(Readable(body, limit))
<1> DEFINE data == SubSeq(body, 1, limit)
           most == IF limit < UTFMax - 1 THEN limit ELSE UTFMax - 1
           ok == {n \in 0..most : Valid(SubSeq(body, 1, limit - n))}
           whole == {n \in 0..Len(body) : n <= limit /\ Valid(SubSeq(body, 1, n))}
<1>1. Len(body) \in Nat /\ most \in 0..limit /\ UTFMax \in Nat
  BY LenProperties DEF UTFMax
<1>2. Len(data) = limit /\ \A n \in 0..limit : SubSeq(data, 1, n) = SubSeq(body, 1, n)
  BY PrefixIs
<1>3. ok # {} /\ ok \in SUBSET Nat
  <2>1. PICK k \in 0..(UTFMax - 1) : k <= limit /\ Valid(SubSeq(body, 1, limit - k))
    BY RuneEnds
  <2>2. k \in 0..most
    BY <1>1, <2>1
  <2>3. k \in ok
    BY <2>1, <2>2
  <2>4. \A n \in 0..most : n \in Nat
    BY <1>1
  <2> HIDE DEF most
  <2> QED BY <2>3, <2>4
<1>4. PICK k \in ok : \A n \in ok : k <= n
  BY <1>3, Least
<1>5. k \in 0..most /\ Valid(SubSeq(body, 1, limit - k)) /\ limit - k \in 0..limit
  BY <1>1, <1>4
<1>6. Min({most} \cup ok) = k
  <2>1. {most} \cup ok \in SUBSET Int /\ \A n \in {most} \cup ok : k <= n
    BY <1>1, <1>4, <1>5
  <2> HIDE DEF most, ok
  <2> QED BY <1>4, <2>1, MinIs
<1>7. Trim(data) = SubSeq(body, 1, limit - k)
  <2>1. {n \in 0..most : Valid(SubSeq(data, 1, limit - n))} = ok
    <3>1. \A n \in 0..most : SubSeq(data, 1, limit - n) = SubSeq(body, 1, limit - n)
      BY <1>1, <1>2
    <3> HIDE DEF data, most
    <3> QED BY <3>1
  <2>2. Trim(data) = SubSeq(data, 1, limit - Min({most} \cup ok))
    <3> HIDE DEF data, ok
    <3> QED BY <1>2, <2>1, Zenon DEF Trim
  <2> HIDE DEF data, ok
  <2> QED BY <1>2, <1>5, <1>6, <2>2
<1>8. Max(whole) = limit - k
  <2>1. limit - k \in whole
    BY <1>1, <1>5
  <2>2. ASSUME NEW n \in whole PROVE limit - k >= n
    <3> SUFFICES ASSUME n > limit - k PROVE FALSE
      BY <1>1, <1>5
    <3>1. limit - n \in 0..most /\ limit - n < k /\ limit - (limit - n) = n
      BY <1>1, <1>5
    <3>2. limit - n \in ok
      BY <3>1
    <3> QED BY <1>1, <1>4, <3>1, <3>2
  <2>3. whole \in SUBSET Int
    BY <1>1
  <2> HIDE DEF whole
  <2> QED BY <2>1, <2>2, <2>3, MaxIs
<1> QED BY <1>5, <1>7, <1>8, Zenon DEF Readable

LEMMA ReadableIs ==
    ASSUME NEW S, NEW body \in Seq(S), NEW limit \in Nat,
           NEW m \in 0..Len(body), m = IF Len(body) <= limit THEN Len(body) ELSE limit,
           Valid(SubSeq(body, 1, m))
    PROVE  SubSeq(body, 1, m) = Readable(body, limit)
<1> DEFINE whole == {n \in 0..Len(body) : n <= limit /\ Valid(SubSeq(body, 1, n))}
<1>1. Len(body) \in Nat
  BY LenProperties
<1>2. m \in whole /\ whole \in SUBSET Int /\ \A n \in whole : m >= n
  BY <1>1
<1> HIDE DEF whole
<1>3. Max(whole) = m
  BY <1>2, MaxIs
<1> QED BY <1>3, Zenon DEF Readable, whole

\* A capture of a text logs what can be read.
LEMMA FinishText ==
    ASSUME NEW c, c.kind = "text", NEW data, Valid(data),
           data = IF ~Valid(c.bytes) /\ c.truncated THEN Trim(c.bytes) ELSE c.bytes
    PROVE  Finish(c) = [value |-> {<<<<>>, data>>}, omitted |-> "",
                        truncated |-> c.truncated, redacted |-> FALSE]
<1>1. c.kind # "json" /\ c.kind # "form"
  OBVIOUS
<1> QED BY <1>1, Zenon DEF Finish

LEMMA TextLogged ==
    ASSUME NEW S, NEW body \in Seq(S), NEW limit \in Nat, Valid(body)
    PROVE  Finish(Write(Capture("text", limit), body))
             = [value |-> {<<<<>>, Readable(body, limit)>>}, omitted |-> "",
                truncated |-> Len(body) > limit, redacted |-> FALSE]
<1> DEFINE c == Write(Capture("text", limit), body)
           m == IF Len(body) <= limit THEN Len(body) ELSE limit
<1>1. Len(body) \in Nat /\ m \in 0..Len(body)
  BY LenProperties
<1>2. c = Seen("text", limit, body, Len(body))
  <2>1. SubSeq(body, 1, Len(body)) = body /\ Len(body) \in 0..Len(body)
    BY <1>1, SubSeqFull
  <2> QED BY <2>1, SeenAtOnce
<1> HIDE DEF c
<1>3. c.kind = "text" /\ c.bytes = SubSeq(body, 1, m)
  BY <1>2 DEF Seen
<1>4. c.truncated = (Len(body) > limit)
  BY <1>2, Zenon DEF Seen
<1>5. CASE Valid(SubSeq(body, 1, m))
  <2>1. SubSeq(body, 1, m) = Readable(body, limit)
    BY <1>1, <1>5, ReadableIs
  <2> HIDE DEF m
  <2>2. Finish(c) = [value |-> {<<<<>>, Readable(body, limit)>>}, omitted |-> "",
                     truncated |-> c.truncated, redacted |-> FALSE]
    BY <1>3, <1>5, <2>1, FinishText
  <2> QED BY <1>4, <2>2, Zenon DEF c
<1>6. CASE ~Valid(SubSeq(body, 1, m))
  <2>1. ~(Len(body) <= limit) /\ m = limit /\ limit \in 0..Len(body)
    <3>1. SubSeq(body, 1, Len(body)) = body
      BY SubSeqFull
    <3> QED BY <1>1, <1>6, <3>1
  <2>2. Trim(c.bytes) = Readable(body, limit) /\ Valid(Readable(body, limit))
    BY <1>3, <1>6, <2>1, TrimIs
  <2>3. c.truncated
    <3>1. (Len(body) > limit) = TRUE
      BY <1>1, <2>1
    <3> QED BY <1>4, <3>1, Zenon
  <2> HIDE DEF m
  <2>4. Finish(c) = [value |-> {<<<<>>, Readable(body, limit)>>}, omitted |-> "",
                     truncated |-> c.truncated, redacted |-> FALSE]
    BY <1>3, <1>6, <2>2, <2>3, FinishText
  <2> QED BY <1>4, <2>4, Zenon DEF c
<1> QED BY <1>5, <1>6

\* However a body arrives in chunks, the log shows what it would if it came at once,
\* and of a text as much as its limit lets through without a broken rune.
THEOREM CapturedExactly == Spec => []CaptureExact
<1>1. ASSUME IInv, req # None, req.ended = "whole", Captures
      PROVE  req.log = Finish(Write(Capture(req.r.type, req.conf.bodyLimit), req.r.body))
  <2>1. Answering /\ Capturing
    BY <1>1 DEF IInv
  <2>2. req.r.body \in Seq(Bytes)
    BY <2>1, RequestsAssumption DEF Answering
  <2>3. SubSeq(req.r.body, 1, req.read) = req.r.body
    BY <1>1, <2>1, <2>2, SubSeqFull DEF Capturing
  <2>4. "whole" # "open"
    OBVIOUS
  <2> QED BY <1>1, <2>1, <2>3, <2>4, Zenon DEF Capturing
<1>2. ASSUME IInv, req # None, req.r.type = "text", Valid(req.r.body)
      PROVE  Finish(Write(Capture("text", req.conf.bodyLimit), req.r.body))
               = [value |-> {<<<<>>, Readable(req.r.body, req.conf.bodyLimit)>>}, omitted |-> "",
                  truncated |-> Len(req.r.body) > req.conf.bodyLimit, redacted |-> FALSE]
  <2>1. req.r.body \in Seq(Bytes) /\ req.conf.bodyLimit \in Nat
    BY <1>2, RequestsAssumption, ConfigurationsAssumption DEF IInv, Answering
  <2> QED BY <1>2, <2>1, TextLogged
<1>3. IInv => CaptureExact
  BY <1>1, <1>2, Zenon DEF CaptureExact
<1> QED BY <1>3, Invariant, PTL

-----------------------------------------------------------------------------
(* The escapes of a form *)

\* The function that Decode goes by.
Decodes(decoded, data) ==
    /\ \A n \in 0..Len(data) : decoded[n] \in Seq(Bytes)
    /\ decoded[0] = <<>>
    /\ \A n \in 0..(Len(data) - 1) :
           decoded[n + 1] = IF data[n + 1] = "h" THEN decoded[n]
                            ELSE Append(decoded[n], IF data[n + 1] = "%" THEN "s" ELSE data[n + 1])
    /\ Decode(data) = decoded[Len(data)]

LEMMA DecodeIs ==
    ASSUME NEW data \in Seq(Bytes)
    PROVE  \E decoded : Decodes(decoded, data)
<1> DEFINE N == Len(data)
           letter(n) == IF data[n] = "%" THEN "s" ELSE data[n]
           step == [n \in 1..N |-> [s \in Seq(Bytes) |->
                       IF data[n] = "h" THEN s ELSE Append(s, letter(n))]]
           body(f) == [n \in 0..N |->
                       IF n = 0 THEN <<>>
                       ELSE IF data[n] = "h" THEN f[n - 1]
                       ELSE Append(f[n - 1], IF data[n] = "%" THEN "s" ELSE data[n])]
           decoded == CHOOSE f : f = body(f)
<1>1. N \in Nat /\ \A n \in 1..N : letter(n) \in Bytes
  <2>1. N \in Nat
    BY LenProperties
  <2>2. ASSUME NEW n \in 1..N PROVE letter(n) \in Bytes
    <3>1. data[n] \in Bytes /\ "s" \in Bytes
      BY ElementOfSeq DEF Bytes
    <3> QED BY <3>1
  <2> QED BY <2>1, <2>2
<1>2. step \in [1..N -> [Seq(Bytes) -> Seq(Bytes)]]
  BY <1>1, AppendProperties
<1>3. <<>> \in Seq(Bytes)
  BY EmptySeq
<1>4. PICK f \in [0..N -> Seq(Bytes)] : Follows(f, N, <<>>, step)
  <2> HIDE DEF step, N
  <2> QED BY <1>1, <1>2, <1>3, Recursion
<1>5. ASSUME NEW n \in 0..N
      PROVE  f[n] = IF n = 0 THEN <<>>
                    ELSE IF data[n] = "h" THEN f[n - 1]
                    ELSE Append(f[n - 1], letter(n))
  <2>1. f[n] = IF n = 0 THEN <<>> ELSE step[n][f[n - 1]]
    BY <1>4 DEF Follows
  <2>2. n # 0 => n \in 1..N /\ f[n - 1] \in Seq(Bytes)
    BY <1>1
  <2>3. n # 0 => step[n][f[n - 1]] = IF data[n] = "h" THEN f[n - 1]
                                     ELSE Append(f[n - 1], letter(n))
    BY <2>2
  <2> QED BY <2>1, <2>3
<1>6. f = body(f)
  BY <1>5
<1>7. Decode(data) = decoded[N]
  BY Zenon DEF Decode
<1>8. decoded = body(decoded)
  BY <1>6, Zenon
<1> HIDE DEF decoded
<1>9. decoded[0] = <<>> /\ \A n \in 0..(N - 1) :
          decoded[n + 1] = IF data[n + 1] = "h" THEN decoded[n]
                           ELSE Append(decoded[n], letter(n + 1))
  <2>1. \A n \in 0..N :
          decoded[n] = IF n = 0 THEN <<>>
                       ELSE IF data[n] = "h" THEN decoded[n - 1]
                       ELSE Append(decoded[n - 1], letter(n))
    BY <1>8
  <2> QED BY <1>1, <2>1
<1>10. \A n \in 0..N : decoded[n] \in Seq(Bytes)
  <2> DEFINE P == {n \in 0..N : decoded[n] \in Seq(Bytes)}
  <2>1. 0 \in P
    <3>1. 0 \in 0..N /\ decoded[0] \in Seq(Bytes)
      BY <1>1, <1>3, <1>9
    <3> QED BY <3>1
  <2>2. ASSUME NEW n \in 0..(N - 1), n \in P PROVE n + 1 \in P
    <3>1. n + 1 \in 0..N /\ letter(n + 1) \in Bytes
      BY <1>1
    <3>2. Append(decoded[n], letter(n + 1)) \in Seq(Bytes)
      BY <2>2, <3>1, AppendProperties
    <3> QED BY <1>9, <2>2, <3>1, <3>2
  <2> HIDE DEF P
  <2>3. Upward(P, 0, N)
    BY <2>1, <2>2 DEF Upward
  <2>4. \A n \in 0..N : n \in P
    BY <1>1, <2>3, UpwardInduction
  <2> QED BY <2>4 DEF P
<1>11. Decodes(decoded, data)
  BY <1>7, <1>9, <1>10 DEF Decodes
<1> QED BY <1>11

\* Decoding makes a letter of "%", and leaves the others.
LEMMA DecodeKeeps ==
    ASSUME NEW data \in Seq(Bytes)
    PROVE  /\ Decode(data) \in Seq(Bytes)
           /\ "v" \in ToSet(Decode(data)) => \E i \in 1..Len(data) : data[i] = "v"
           /\ (\E i \in 1..Len(data) : data[i] \in {"s", "%"}) => "s" \in ToSet(Decode(data))
<1>1. PICK d : Decodes(d, data)
  BY DecodeIs
<1> DEFINE N == Len(data)
           letter(n) == IF data[n] = "%" THEN "s" ELSE data[n]
           P == {n \in 0..N :
                   /\ "v" \in ToSet(d[n]) => \E i \in 1..n : data[i] = "v"
                   /\ (\E i \in 1..n : data[i] \in {"s", "%"}) => "s" \in ToSet(d[n])}
<1>2. N \in Nat /\ (\A n \in 1..N : letter(n) \in Bytes) /\ \A n \in 0..N : d[n] \in Seq(Bytes)
  <2>1. N \in Nat
    BY LenProperties
  <2>2. ASSUME NEW n \in 1..N PROVE letter(n) \in Bytes
    <3>1. data[n] \in Bytes /\ "s" \in Bytes
      BY ElementOfSeq DEF Bytes
    <3> QED BY <3>1
  <2>3. \A n \in 0..N : d[n] \in Seq(Bytes)
    BY <1>1 DEF Decodes
  <2> HIDE DEF letter
  <2> QED BY <2>1, <2>2, <2>3
<1>3. 0 \in P
  <2>1. ToSet(d[0]) = {}
    BY <1>1, EmptySeq DEF Decodes, ToSet
  <2> QED BY <1>2, <2>1
<1>4. ASSUME NEW n \in 0..(N - 1), n \in P PROVE n + 1 \in P
  <2>1. n \in 0..N /\ n + 1 \in 1..N /\ \A i \in 1..(n + 1) : i \in 1..n \/ i = n + 1
    BY <1>2
  <2>2. n + 1 \in 1..(n + 1) /\ \A i \in 1..n : i \in 1..(n + 1)
    BY <1>2
  <2>3. CASE data[n + 1] = "h"
    <3>1. d[n + 1] = d[n]
      BY <1>1, <2>3 DEF Decodes
    <3> QED BY <1>4, <2>1, <2>2, <2>3, <3>1
  <2>4. CASE data[n + 1] # "h"
    <3>1. d[n + 1] = Append(d[n], letter(n + 1))
      BY <1>1, <2>4 DEF Decodes
    <3>2. \A x : x \in ToSet(d[n + 1]) <=> x \in ToSet(d[n]) \/ x = letter(n + 1)
      BY <1>2, <2>1, <3>1, InAppend
    <3> QED BY <1>4, <2>1, <2>2, <3>2
  <2> QED BY <2>3, <2>4
<1> HIDE DEF P
<1>5. Upward(P, 0, N)
  BY <1>3, <1>4 DEF Upward
<1>6. N \in P
  BY <1>2, <1>5, UpwardInduction
<1> QED BY <1>1, <1>2, <1>6 DEF P, Decodes

-----------------------------------------------------------------------------
(* What is logged of a value with a sensitive name *)

\* Where a "v" can be depends on what is before it alone.
LEMMA MarkedPrefix ==
    ASSUME NEW kind, NEW body \in Seq(Bytes), Marked(kind, body), NEW n \in 0..Len(body)
    PROVE  Marked(kind, SubSeq(body, 1, n))
<1> DEFINE data == SubSeq(body, 1, n)
<1>1. Len(body) \in Nat /\ Len(data) = n /\ \A i \in 1..n : data[i] = body[i]
  BY LenProperties, PrefixIs
<1> HIDE DEF data
<1>2. \A p \in 1..n : p \in 1..Len(body) /\ \A i \in 1..p : data[i] = body[i]
  BY <1>1
<1>3. ASSUME NEW p \in 1..n, data[p] = "v", kind = "json"
      PROVE  \E i \in 1..(p - 1) : data[i] = "s"
  <2>1. PICK i \in 1..(p - 1) : body[i] = "s"
    BY <1>2, <1>3 DEF Marked
  <2> QED BY <1>2, <2>1
<1>4. ASSUME NEW p \in 1..n, data[p] = "v", kind = "form"
      PROVE  \E m \in 1..(p - 1), e \in 1..(p - 1) :
                 /\ m < e /\ data[m] \in {"s", "%"} /\ data[e] = "="
                 /\ \A i \in m..p : data[i] # "&"
                 /\ \A i \in 1..m : data[i] = "=" => \E j \in i..m : data[j] = "&"
  <2>1. PICK m \in 1..(p - 1), e \in 1..(p - 1) :
                 /\ m < e /\ body[m] \in {"s", "%"} /\ body[e] = "="
                 /\ \A i \in m..p : body[i] # "&"
                 /\ \A i \in 1..m : body[i] = "=" => \E j \in i..m : body[j] = "&"
    BY <1>2, <1>4 DEF Marked
  <2>2. data[m] = body[m] /\ data[e] = body[e] /\ \A i \in m..p : data[i] = body[i]
    BY <1>2, <2>1
  <2>3. ASSUME NEW i \in 1..m, data[i] = "=" PROVE \E j \in i..m : data[j] = "&"
    <3>1. i \in 1..p /\ \A j \in i..m : j \in 1..p
      BY <2>1
    <3>2. PICK j \in i..m : body[j] = "&"
      BY <1>2, <2>1, <2>3, <3>1
    <3> QED BY <1>2, <3>1, <3>2
  <2> QED BY <2>1, <2>2, <2>3
<1>5. ASSUME NEW p \in 1..Len(data), data[p] = "v"
      PROVE  /\ kind = "json" => \E m \in 1..(p - 1) : data[m] = "s"
             /\ kind = "form" =>
                  \E m \in 1..(p - 1), e \in 1..(p - 1) :
                      /\ m < e /\ data[m] \in {"s", "%"} /\ data[e] = "="
                      /\ \A i \in m..p : data[i] # "&"
                      /\ \A i \in 1..m : data[i] = "=" => \E j \in i..m : data[j] = "&"
  <2>1. p \in 1..n
    BY <1>1, <1>5
  <2>2. kind = "json" => \E m \in 1..(p - 1) : data[m] = "s"
    BY <1>3, <1>5, <2>1
  <2>3. kind = "form" =>
            \E m \in 1..(p - 1), e \in 1..(p - 1) :
                /\ m < e /\ data[m] \in {"s", "%"} /\ data[e] = "="
                /\ \A i \in m..p : data[i] # "&"
                /\ \A i \in 1..m : data[i] = "=" => \E j \in i..m : data[j] = "&"
    <3>1. ASSUME kind = "form" PROVE kind = "form" /\ p \in 1..n /\ data[p] = "v"
      BY <1>5, <2>1, <3>1
    <3> QED BY <1>4, <3>1
  <2> QED BY <2>2, <2>3
<1>6. Marked(kind, data)
  BY <1>5, Zenon DEF Marked
<1> QED BY <1>6 DEF data

LEMMA ShownOf ==
    ASSUME NEW S, NEW a \in Seq(S), NEW b \in Seq(S), "v" \in ToSet(a \o b)
    PROVE  "v" \in ToSet(a) \/ "v" \in ToSet(b)
<1> DEFINE s == a \o b
<1>1. /\ s \in Seq(S) /\ Len(s) = Len(a) + Len(b) /\ Len(a) \in Nat /\ Len(b) \in Nat
      /\ \A i \in 1..(Len(a) + Len(b)) : s[i] = IF i <= Len(a) THEN a[i] ELSE b[i - Len(a)]
  BY ConcatProperties, LenProperties
<1>2. "v" \in ToSet(s)
  OBVIOUS
<1> HIDE DEF s
<1>3. PICK i \in 1..Len(s) : s[i] = "v"
  BY <1>1, <1>2, InSequence
<1>4. CASE i <= Len(a)
  <2>1. i \in 1..Len(a) /\ a[i] = "v"
    BY <1>1, <1>3, <1>4
  <2> QED BY <2>1, InSequence
<1>5. CASE ~(i <= Len(a))
  <2>1. i - Len(a) \in 1..Len(b) /\ b[i - Len(a)] = "v"
    BY <1>1, <1>3, <1>5
  <2> QED BY <2>1, InSequence
<1> QED BY <1>4, <1>5

\* A document shows nothing below a sensitive name.
LEMMA DocumentHidden ==
    ASSUME NEW data \in Seq(Bytes), Marked("json", data), ValidJSON(data)
    PROVE  "v" \notin ToSet(<<>> \o RedactJSON(data))
<1> DEFINE N == Len(data)
           names == {i \in 1..(N - 1) : data[i] = "s"}
           All == Bytes \cup {Redacted}
<1>1. /\ N \in Nat /\ N > 0 /\ data[N] \in {"h", "v"}
      /\ \A i \in 1..(N - 1) : data[i] \in {"k", "s"}
  BY LenProperties DEF ValidJSON
<1>2. data \in Seq(All) /\ <<>> \in Seq(All) /\ "v" \notin ToSet(<<>>) /\ Redacted \in All
  BY SeqMonotonic, EmptySeq DEF ToSet
<1>3. CASE names = {}
  <2>1. ASSUME NEW i \in 1..N, data[i] = "v" PROVE FALSE
    <3>1. PICK n \in 1..(i - 1) : data[n] = "s"
      BY <2>1 DEF Marked
    <3>2. n \in names
      BY <1>1, <3>1
    <3> QED BY <1>3, <3>2
  <2>2. "v" \notin ToSet(data)
    BY <2>1, InSequence
  <2>3. RedactJSON(data) = data
    BY <1>3, Zenon DEF RedactJSON
  <2> QED BY <1>2, <2>2, <2>3, ShownOf
<1>4. CASE names # {}
  <2> DEFINE m == Min(names)
             part == SubSeq(data, 1, m)
  <2>1. names \in SUBSET Nat
    BY <1>1
  <2>2. m \in names
    BY <1>4, <2>1, MinIn
  <2>3. m \in 0..N /\ m <= N - 1
    BY <1>1, <2>2
  <2>4. part \in Seq(All) /\ Len(part) = m /\ \A i \in 1..m : part[i] = data[i]
    BY <1>2, <2>3, PrefixIs
  <2>5. RedactJSON(data) = Append(part, Redacted)
    BY <1>4, Zenon DEF RedactJSON
  <2> HIDE DEF part, m
  <2>6. "v" \notin ToSet(part)
    <3>1. \A i \in 1..m : part[i] # "v"
      BY <1>1, <2>3, <2>4
    <3> QED BY <2>4, <3>1, InSequence
  <2>7. "v" # Redacted
    BY DEF Redacted
  <2>8. "v" \notin ToSet(RedactJSON(data)) /\ RedactJSON(data) \in Seq(All)
    BY <1>2, <2>4, <2>5, <2>6, <2>7, InAppend, AppendProperties
  <2> QED BY <1>2, <2>8, ShownOf
<1> QED BY <1>3, <1>4

LEMMA CutIs ==
    ASSUME NEW f \in Seq(Bytes)
    PROVE  /\ Cut(f) \in 1..(Len(f) + 1)
           /\ \A i \in 1..Len(f) : f[i] = "=" => Cut(f) <= i
           /\ Cut(f) <= Len(f) => f[Cut(f)] = "="
<1> DEFINE T == {Len(f) + 1} \cup {i \in 1..Len(f) : f[i] = "="}
<1>1. Len(f) \in Nat
  BY LenProperties
<1>2. T \in SUBSET Nat /\ T # {}
  BY <1>1
<1>3. Cut(f) = Min(T)
  BY Zenon DEF Cut
<1> DEFINE m == Min(T)
<1>4. m \in T /\ \A i \in T : m <= i
  <2> HIDE DEF T
  <2> QED BY <1>2, MinIn
<1> HIDE DEF m
<1>5. /\ m \in 1..(Len(f) + 1) /\ (m <= Len(f) => f[m] = "=")
      /\ \A i \in 1..Len(f) : f[i] = "=" => m <= i
  BY <1>1, <1>4
<1> QED BY <1>3, <1>5 DEF m

\* A field lies between two "&".
LEMMA FieldIs ==
    ASSUME NEW data \in Seq(Bytes), NEW f \in Fields(data)
    PROVE  /\ f \in Seq(Bytes)
           /\ \E i \in 0..Len(data) :
                  /\ i = 0 \/ data[i] = "&"
                  /\ i + Len(f) <= Len(data)
                  /\ \A x \in 1..Len(f) : f[x] = data[i + x] /\ f[x] # "&"
<1> DEFINE N == Len(data)
           cuts == {0, N + 1} \cup {i \in 1..N : data[i] = "&"}
<1>1. N \in Nat /\ \A i \in 1..N : data[i] \in Bytes
  BY LenProperties, ElementOfSeq
<1>2. PICK i \in cuts \ {N + 1} : f = SubSeq(data, i + 1, Min({j \in cuts : j > i}) - 1)
  BY Zenon DEF Fields
<1> DEFINE after == {j \in cuts : j > i}
           e == Min(after)
<1>3. i \in 0..N /\ (i = 0 \/ data[i] = "&")
  BY <1>1
<1>4. after \in SUBSET Nat /\ N + 1 \in after
  BY <1>1, <1>3
<1>5. e \in after /\ \A j \in after : e <= j
  <2> HIDE DEF after
  <2> QED BY <1>4, MinIn
<1>6. e \in (i + 1)..(N + 1) /\ \A j \in (i + 1)..(e - 1) : data[j] # "&"
  <2> HIDE DEF e
  <2>1. e \in (i + 1)..(N + 1)
    BY <1>1, <1>3, <1>5
  <2>2. ASSUME NEW j \in (i + 1)..(e - 1), data[j] = "&" PROVE FALSE
    <3>1. j \in 1..N /\ j > i /\ j < e
      BY <1>1, <1>3, <2>1
    <3>2. j \in after
      BY <2>2, <3>1
    <3> QED BY <1>5, <2>1, <3>1, <3>2
  <2> QED BY <2>1, <2>2
<1>7. f = SubSeq(data, i + 1, e - 1)
  BY <1>2
<1> HIDE DEF e, after, cuts
<1>8. /\ f \in Seq(Bytes) /\ Len(f) = e - 1 - i
      /\ \A x \in 1..(e - 1 - i) : f[x] = data[i + x]
  <2>1. i + 1 \in Int /\ e - 1 \in Int /\ \A j \in (i + 1)..(e - 1) : data[j] \in Bytes
    BY <1>1, <1>3, <1>6
  <2>2. /\ f \in Seq(Bytes) /\ Len(f) = IF i + 1 <= e - 1 THEN (e - 1) - (i + 1) + 1 ELSE 0
        /\ \A x \in 1..((e - 1) - (i + 1) + 1) : f[x] = data[(i + 1) + x - 1]
    BY <1>7, <2>1, SubSeqProperties
  <2>3. (e - 1) - (i + 1) + 1 = e - 1 - i /\ (i + 1 <= e - 1 \/ e - 1 - i = 0)
        /\ \A x \in 1..(e - 1 - i) : (i + 1) + x - 1 = i + x
    BY <1>3, <1>6
  <2> QED BY <2>2, <2>3
<1>9. i + Len(f) <= N /\ \A x \in 1..Len(f) : f[x] = data[i + x] /\ f[x] # "&"
  <2>1. i + (e - 1 - i) <= N /\ \A x \in 1..(e - 1 - i) : i + x \in (i + 1)..(e - 1)
    BY <1>1, <1>3, <1>6
  <2> QED BY <1>6, <1>8, <2>1
<1> QED BY <1>3, <1>8, <1>9

\* The name of a field with a "v" has a sensitive letter, and the "v" is not in it.
LEMMA FieldMarked ==
    ASSUME NEW data \in Seq(Bytes), Marked("form", data), NEW f \in Fields(data),
           NEW x \in 1..Len(f), f[x] = "v"
    PROVE  Cut(f) < x /\ \E n \in 1..(Cut(f) - 1) : f[n] \in {"s", "%"}
<1>1. PICK i \in 0..Len(data) :
               /\ i = 0 \/ data[i] = "&"
               /\ i + Len(f) <= Len(data)
               /\ \A y \in 1..Len(f) : f[y] = data[i + y] /\ f[y] # "&"
  BY FieldIs
<1>2. f \in Seq(Bytes) /\ Len(f) \in Nat /\ Len(data) \in Nat
  BY FieldIs, LenProperties
<1> DEFINE p == i + x
<1>3. p \in 1..Len(data) /\ data[p] = "v" /\ p \in Int
  BY <1>1, <1>2
<1>4. PICK n \in 1..(p - 1), e \in 1..(p - 1) :
               /\ n < e /\ data[n] \in {"s", "%"} /\ data[e] = "="
               /\ \A j \in n..p : data[j] # "&"
               /\ \A j \in 1..n : data[j] = "=" => \E k \in j..n : data[k] = "&"
  BY <1>3 DEF Marked
<1>5. n > i
  <2> SUFFICES ASSUME n <= i PROVE FALSE
    BY <1>1, <1>3
  <2>1. i \in n..p /\ i # 0
    BY <1>1, <1>2
  <2> QED BY <1>1, <1>4, <2>1
<1> DEFINE m == n - i
           q == e - i
<1>6. /\ m \in 1..Len(f) /\ q \in 1..Len(f) /\ m < q /\ q < x
      /\ i + m = n /\ i + q = e
  BY <1>1, <1>2, <1>3, <1>4, <1>5
<1>7. f[m] = data[n] /\ f[q] = data[e]
  BY <1>1, <1>6
<1> DEFINE c == Cut(f)
<1>8. c \in 1..(Len(f) + 1) /\ c <= q /\ f[c] = "="
  <2>1. c <= q
    BY <1>2, <1>4, <1>6, <1>7, CutIs
  <2> QED BY <1>2, <1>6, <2>1, CutIs
<1> HIDE DEF c, m, q, p
<1>9. m < c
  <2> SUFFICES ASSUME c <= m PROVE FALSE
    BY <1>6, <1>8
  <2>1. c \in 1..Len(f) /\ i + c \in 1..n /\ i + c \in Int
    BY <1>1, <1>2, <1>6, <1>8, SMTT(30)
  <2>2. data[i + c] = "="
    BY <1>1, <1>8, <2>1
  <2>3. PICK k \in (i + c)..n : data[k] = "&"
    BY <1>4, <2>1, <2>2
  <2>4. k - i \in 1..Len(f) /\ i + (k - i) = k
    BY <1>1, <1>2, <1>6, <1>8, <2>3
  <2> QED BY <1>1, <2>3, <2>4
<1>10. c < x /\ m \in 1..(c - 1)
  BY <1>2, <1>6, <1>8, <1>9
<1> QED BY <1>4, <1>7, <1>10 DEF c

\* A field has no "v", or its name is sensitive and is logged without its value.
LEMMA FieldHidden ==
    ASSUME NEW data \in Seq(Bytes), Marked("form", data), NEW f \in Fields(data)
    PROVE  "v" \notin ToSet(Name(f) \o (IF Sensitive(Name(f)) THEN <<Redacted>> ELSE Value(f)))
<1> DEFINE All == Bytes \cup {Redacted}
           c == Cut(f)
           name == SubSeq(f, 1, c - 1)
           value == SubSeq(f, c + 1, Len(f))
<1>1. f \in Seq(Bytes) /\ Len(f) \in Nat
  BY FieldIs, LenProperties
<1>2. c \in 1..(Len(f) + 1) /\ c - 1 \in 0..Len(f)
  BY <1>1, CutIs
<1>3. \A x \in 1..Len(f) : f[x] = "v" => c < x /\ \E n \in 1..(c - 1) : f[n] \in {"s", "%"}
  BY FieldMarked
<1>4. name \in Seq(Bytes) /\ Len(name) = c - 1 /\ \A i \in 1..(c - 1) : name[i] = f[i]
  BY <1>1, <1>2, PrefixIs
<1>5. /\ value \in Seq(Bytes)
      /\ \A i \in 1..Len(value) : c + i \in 1..Len(f) /\ value[i] = f[c + i]
  <2>1. c + 1 \in Int /\ Len(f) \in Int /\ \A i \in (c + 1)..Len(f) : f[i] \in Bytes
    BY <1>1, <1>2, ElementOfSeq
  <2>2. /\ value \in Seq(Bytes)
        /\ Len(value) = IF c + 1 <= Len(f) THEN Len(f) - (c + 1) + 1 ELSE 0
        /\ \A i \in 1..(Len(f) - (c + 1) + 1) : value[i] = f[(c + 1) + i - 1]
    BY <2>1, SubSeqProperties
  <2>3. \A i \in 1..Len(value) :
            /\ i \in 1..(Len(f) - (c + 1) + 1) /\ (c + 1) + i - 1 = c + i
            /\ c + i \in 1..Len(f)
    BY <1>1, <1>2, <2>2, SMTT(30)
  <2> QED BY <2>2, <2>3
<1> HIDE DEF c, name, value
<1>6. "v" \notin ToSet(Decode(name))
  <2>1. ASSUME NEW i \in 1..Len(name), name[i] = "v" PROVE FALSE
    <3>1. i \in 1..Len(f) /\ f[i] = "v" /\ i <= c - 1
      BY <1>1, <1>2, <1>4, <2>1
    <3> QED BY <1>2, <1>3, <3>1
  <2> QED BY <1>4, <2>1, DecodeKeeps
<1>7. ASSUME "v" \in ToSet(Decode(value)) PROVE "s" \in ToSet(Decode(name))
  <2>1. PICK i \in 1..Len(value) : value[i] = "v"
    BY <1>5, <1>7, DecodeKeeps
  <2>2. PICK n \in 1..(c - 1) : f[n] \in {"s", "%"}
    BY <1>3, <1>5, <2>1
  <2>3. n \in 1..Len(name) /\ name[n] \in {"s", "%"}
    BY <1>4, <2>2
  <2> QED BY <1>4, <2>3, DecodeKeeps
<1>8. /\ Name(f) = Decode(name) /\ Value(f) = Decode(value)
      /\ Decode(name) \in Seq(Bytes) /\ Decode(value) \in Seq(Bytes)
  BY <1>4, <1>5, DecodeKeeps DEF Name, Value, c, name, value
<1>9. Decode(name) \in Seq(All) /\ Decode(value) \in Seq(All)
  BY <1>8, SeqMonotonic
<1>10. <<Redacted>> \in Seq(All) /\ "v" \notin ToSet(<<Redacted>>)
  <2>1. <<Redacted>> \in Seq(All) /\ Len(<<Redacted>>) = 1 /\ <<Redacted>>[1] = Redacted
    OBVIOUS
  <2>2. "v" # Redacted
    BY DEF Redacted
  <2>3. ~\E i \in 1..Len(<<Redacted>>) : <<Redacted>>[i] = "v"
    BY <2>1, <2>2
  <2> QED BY <2>1, <2>3, InSequence
<1>11. CASE Sensitive(Name(f))
  <2>1. "v" \notin ToSet(Name(f) \o <<Redacted>>)
    BY <1>6, <1>8, <1>9, <1>10, ShownOf
  <2> QED BY <1>11, <2>1
<1>12. CASE ~Sensitive(Name(f))
  <2>1. "v" \notin ToSet(Value(f))
    BY <1>7, <1>8, <1>12 DEF Sensitive
  <2>2. "v" \notin ToSet(Name(f) \o Value(f))
    BY <1>6, <1>8, <1>9, <2>1, ShownOf
  <2> QED BY <1>12, <2>2
<1> QED BY <1>11, <1>12

\* What is left of a text is the beginning of it.
LEMMA TrimPrefix ==
    ASSUME NEW data \in Seq(Bytes)
    PROVE  \E n \in 0..Len(data) : Trim(data) = SubSeq(data, 1, n)
<1> DEFINE short(n) == SubSeq(data, 1, Len(data) - n)
           most == IF Len(data) < UTFMax - 1 THEN Len(data) ELSE UTFMax - 1
           T == {most} \cup {n \in 0..most : Valid(short(n))}
<1>1. Len(data) \in Nat
  BY LenProperties
<1>2. most \in 0..Len(data)
  BY <1>1 DEF UTFMax
<1>3. T \in SUBSET Nat /\ T # {} /\ \A n \in T : n \in 0..most
  BY <1>2
<1>4. Trim(data) = short(Min(T))
  BY Zenon DEF Trim
<1>5. Min(T) \in 0..most
  <2> HIDE DEF T, most
  <2> QED BY <1>3, MinIn
<1> DEFINE m == Min(T)
<1> HIDE DEF m
<1>6. Len(data) - m \in 0..Len(data) /\ Trim(data) = SubSeq(data, 1, Len(data) - m)
  <2>1. m \in 0..most
    BY <1>5 DEF m
  <2>2. Len(data) - m \in 0..Len(data)
    BY <1>1, <1>2, <2>1
  <2>3. Trim(data) = SubSeq(data, 1, Len(data) - m)
    BY <1>4, Zenon DEF m
  <2> QED BY <2>2, <2>3
<1> QED BY <1>6

LEMMA ValueIs ==
    \A v, o, t, r :
        [value |-> v, omitted |-> o, truncated |-> t, redacted |-> r].value = v
  OBVIOUS

\* Nothing is logged, or a document or a form as it is to be.
LEMMA FinishIs ==
    ASSUME NEW c, NEW data,
           data = IF ~Valid(c.bytes) /\ c.truncated THEN Trim(c.bytes) ELSE c.bytes
    PROVE  /\ c.kind = "json" =>
                  \/ Finish(c).value = {}
                  \/ ValidJSON(data) /\ Finish(c).value = {<<<<>>, RedactJSON(data)>>}
           /\ c.kind = "form" =>
                  Finish(c).value = {} \/ Finish(c).value = RedactForm(data)
<1> DEFINE kept == IF ~Valid(c.bytes) /\ c.truncated THEN Trim(c.bytes) ELSE c.bytes
<1>1. \A reason, cut : Omit(reason, cut).value = {}
  BY ValueIs, Zenon DEF Omit
<1>2. "json" # "form"
  OBVIOUS
<1>3. ~Valid(kept) => Finish(c) = Omit("non-UTF-8 body", c.truncated)
  BY Zenon DEF Finish
<1>4. CASE ~Valid(kept)
  BY <1>1, <1>3, <1>4, Zenon
<1>5. CASE Valid(kept) /\ c.kind = "json"
  <2>1. CASE c.truncated
    <3>1. Finish(c) = Omit("truncated JSON body", TRUE)
      BY <1>5, <2>1, Zenon DEF Finish
    <3> QED BY <1>1, <1>2, <1>5, <3>1, Zenon
  <2>2. CASE ~c.truncated /\ ~ValidJSON(kept)
    <3>1. Finish(c) = Omit("invalid JSON body", FALSE)
      BY <1>5, <2>2, Zenon DEF Finish
    <3> QED BY <1>1, <1>2, <1>5, <3>1, Zenon
  <2>3. CASE ~c.truncated /\ ValidJSON(kept)
    <3> DEFINE changed == RedactJSON(kept) # kept
               none == ""
    <3>1. Finish(c) = [value |-> {<<<<>>, RedactJSON(kept)>>}, omitted |-> none,
                       truncated |-> c.truncated, redacted |-> changed]
      BY <1>5, <2>3, Zenon DEF Finish
    <3> HIDE DEF changed, none
    <3>2. Finish(c).value = {<<<<>>, RedactJSON(kept)>>}
      BY <3>1
    <3> QED BY <1>2, <1>5, <2>3, <3>2, Zenon
  <2> QED BY <2>1, <2>2, <2>3, Zenon
<1>6. CASE Valid(kept) /\ c.kind = "form"
  <2>1. CASE ~ValidForm(kept)
    <3>1. Finish(c) = Omit("invalid form body", c.truncated)
      BY <1>2, <1>6, <2>1, Zenon DEF Finish
    <3> QED BY <1>1, <1>2, <1>6, <3>1, Zenon
  <2>2. CASE ValidForm(kept)
    <3> DEFINE secret == \E f \in Fields(kept) : Sensitive(Name(f))
               none == ""
    <3>1. Finish(c) = [value |-> RedactForm(kept), omitted |-> none,
                       truncated |-> c.truncated, redacted |-> secret]
      BY <1>2, <1>6, <2>2, Zenon DEF Finish
    <3> HIDE DEF secret, none
    <3>2. Finish(c).value = RedactForm(kept)
      BY <3>1
    <3> QED BY <1>2, <1>6, <3>2, Zenon
  <2> QED BY <2>1, <2>2, Zenon
<1> QED BY <1>4, <1>5, <1>6, Zenon

\* What is logged of a body, wherever it was cut, hides what it has to.
LEMMA FinishHidden ==
    ASSUME NEW kind \in {"json", "form"}, NEW body \in Seq(Bytes), Marked(kind, body),
           NEW n \in 0..Len(body), NEW c, c.kind = kind, c.bytes = SubSeq(body, 1, n)
    PROVE  Hidden(Finish(c))
<1> DEFINE data == IF ~Valid(c.bytes) /\ c.truncated THEN Trim(c.bytes) ELSE c.bytes
<1>1. c.bytes \in Seq(Bytes) /\ Marked(kind, c.bytes)
  BY PrefixIs, MarkedPrefix
<1>2. data \in Seq(Bytes) /\ Marked(kind, data)
  <2>1. PICK m \in 0..Len(c.bytes) : Trim(c.bytes) = SubSeq(c.bytes, 1, m)
    BY <1>1, TrimPrefix
  <2>2. Trim(c.bytes) \in Seq(Bytes) /\ Marked(kind, Trim(c.bytes))
    BY <1>1, <2>1, PrefixIs, MarkedPrefix
  <2> QED BY <1>1, <2>2
<1> HIDE DEF data
<1>3. SUFFICES ASSUME NEW part \in Finish(c).value
               PROVE  "v" \notin ToSet(part[1] \o part[2])
  BY Zenon DEF Hidden
<1>4. /\ c.kind = "json" =>
             \/ Finish(c).value = {}
             \/ ValidJSON(data) /\ Finish(c).value = {<<<<>>, RedactJSON(data)>>}
      /\ c.kind = "form" => Finish(c).value = {} \/ Finish(c).value = RedactForm(data)
  BY FinishIs DEF data
<1>5. CASE kind = "json"
  <2>1. ValidJSON(data) /\ part = <<<<>>, RedactJSON(data)>>
    BY <1>3, <1>4, <1>5
  <2>2. part[1] = <<>> /\ part[2] = RedactJSON(data)
    BY <2>1
  <2>3. "v" \notin ToSet(<<>> \o RedactJSON(data))
    BY <1>2, <1>5, <2>1, DocumentHidden
  <2> QED BY <2>2, <2>3
<1>6. CASE kind = "form"
  <2>1. part \in RedactForm(data)
    BY <1>3, <1>4, <1>6
  <2>2. PICK f \in Fields(data) :
            part = <<Name(f), IF Sensitive(Name(f)) THEN <<Redacted>> ELSE Value(f)>>
    BY <2>1, Zenon DEF RedactForm
  <2>3. part[1] = Name(f) /\ part[2] = IF Sensitive(Name(f)) THEN <<Redacted>> ELSE Value(f)
    BY <2>2
  <2>4. "v" \notin ToSet(Name(f) \o (IF Sensitive(Name(f)) THEN <<Redacted>> ELSE Value(f)))
    BY <1>2, <1>6, FieldHidden
  <2> QED BY <2>3, <2>4
<1> QED BY <1>5, <1>6

LEMMA SeenIs ==
    ASSUME NEW kind, NEW limit, NEW body, NEW n, NEW c, c = Seen(kind, limit, body, n)
    PROVE  /\ c.kind = kind
           /\ c.bytes = SubSeq(body, 1, IF n <= limit THEN n ELSE limit)
  BY DEF Seen

LEMMA HiddenNow ==
    ASSUME IInv
    PROVE  SecretsHidden
<1> SUFFICES ASSUME req # None, req.r.type \in {"json", "form"} PROVE Hidden(req.log)
  BY DEF SecretsHidden
<1>1. Answering /\ Capturing
  BY DEF IInv
<1> DEFINE body == req.r.body
           limit == req.conf.bodyLimit
<1>2. /\ body \in Seq(Bytes) /\ Marked(req.r.type, body) /\ limit \in Nat
      /\ req.read \in 0..Len(body)
  BY <1>1, RequestsAssumption, ConfigurationsAssumption DEF Answering, Capturing
<1>3. CASE Captures /\ req.ended # "open"
  <2>1. req.log = Finish(req.capture)
    BY <1>1, <1>3 DEF Capturing
  <2>2. req.capture = Seen(req.r.type, limit, body, req.read)
    BY <1>1, <1>2, <1>3, SeenAtOnce DEF Capturing
  <2> DEFINE m == IF req.read <= limit THEN req.read ELSE limit
  <2>3. m \in 0..Len(body) /\ req.capture.bytes = SubSeq(body, 1, m)
    <3>1. m \in 0..Len(body)
      BY <1>2, LenProperties
    <3>2. req.capture.bytes = SubSeq(body, 1, m)
      BY <2>2, SeenIs
    <3> QED BY <3>1, <3>2
  <2>4. req.capture.kind = req.r.type
    BY <2>2, SeenIs
  <2> QED BY <1>2, <2>1, <2>3, <2>4, FinishHidden
<1>4. CASE ~(Captures /\ req.ended # "open")
  <2>1. req.log.value = {}
    BY <1>1, <1>4 DEF Capturing
  <2> QED BY <2>1, Zenon DEF Hidden
<1> QED BY <1>3, <1>4

\* Wherever a document or a form is cut, nothing below a sensitive name is logged.
THEOREM SecretsStayHidden == Spec => []SecretsHidden
  BY Invariant, HiddenNow, PTL

-----------------------------------------------------------------------------
(* What GET /api/logs shows *)

\* The function that Snapshot goes by.
Scans(seen, minLevel, limit) ==
    /\ \A n \in 0..size : seen[n] \in Seq(Records)
    /\ seen[0] = <<>>
    /\ \A n \in 0..(size - 1) :
           seen[n + 1] = IF Len(seen[n]) < limit /\ Contents[size - n].level >= minLevel
                         THEN Append(seen[n], Contents[size - n]) ELSE seen[n]
    /\ Snapshot(minLevel, limit) = seen[size]

LEMMA SnapshotIs ==
    ASSUME RingTypeOK, NEW minLevel, NEW limit
    PROVE  \E seen : Scans(seen, minLevel, limit)
<1> DEFINE item(n) == entries[(start + size - n) % Capacity]
           next(s, n) == IF Len(s) < limit /\ item(n).level >= minLevel
                         THEN Append(s, item(n)) ELSE s
           step == [n \in 1..size |-> [s \in Seq(Records) |-> next(s, n)]]
           body(f) == [n \in 0..size |->
                       IF n = 0 THEN <<>>
                       ELSE IF Len(f[n - 1]) < limit /\ item(n).level >= minLevel
                            THEN Append(f[n - 1], item(n))
                            ELSE f[n - 1]]
           seen == CHOOSE f : f = body(f)
<1>1. size \in Nat /\ start \in Int /\ Capacity \in Nat \ {0}
  BY LogRingAssumption DEF RingTypeOK, Indices
<1>2. \A n \in 1..size : item(n) = Contents[size + 1 - n] /\ item(n) \in Records
  <2> SUFFICES ASSUME NEW n \in 1..size
               PROVE  item(n) = Contents[size + 1 - n] /\ item(n) \in Records
    OBVIOUS
  <2>1. size + 1 - n \in 1..size /\ start + (size + 1 - n) - 1 = start + size - n
    BY <1>1
  <2>2. item(n) = entries[(start + (size + 1 - n) - 1) % Capacity]
    BY <2>1
  <2> QED BY <2>1, <2>2, ContentsIs DEF RingTypeOK
<1>3. step \in [1..size -> [Seq(Records) -> Seq(Records)]]
  <2>1. ASSUME NEW n \in 1..size, NEW s \in Seq(Records) PROVE next(s, n) \in Seq(Records)
    <3>1. Append(s, item(n)) \in Seq(Records)
      BY <1>2, AppendProperties
    <3> QED BY <3>1
  <2> HIDE DEF next
  <2> QED BY <2>1
<1>4. <<>> \in Seq(Records)
  BY EmptySeq
<1>5. PICK f \in [0..size -> Seq(Records)] : Follows(f, size, <<>>, step)
  <2> HIDE DEF step
  <2> QED BY <1>1, <1>3, <1>4, Recursion
<1>6. ASSUME NEW n \in 0..size
      PROVE  f[n] = IF n = 0 THEN <<>> ELSE next(f[n - 1], n)
  <2>1. f[n] = IF n = 0 THEN <<>> ELSE step[n][f[n - 1]]
    BY <1>5 DEF Follows
  <2>2. n # 0 => n \in 1..size /\ f[n - 1] \in Seq(Records)
    BY <1>1
  <2> HIDE DEF next
  <2>3. n # 0 => step[n][f[n - 1]] = next(f[n - 1], n)
    BY <2>2
  <2> QED BY <2>1, <2>3
<1>7. f = body(f)
  <2> HIDE DEF item
  <2> QED BY <1>6
<1>8. Snapshot(minLevel, limit) = seen[size]
  BY Zenon DEF Snapshot
<1>9. seen = body(seen)
  BY <1>7, Zenon
<1> HIDE DEF seen
<1>10. seen[0] = <<>> /\ \A n \in 0..(size - 1) : seen[n + 1] = next(seen[n], n + 1)
  <2> HIDE DEF item
  <2>1. \A n \in 0..size : seen[n] = IF n = 0 THEN <<>> ELSE next(seen[n - 1], n)
    BY <1>9
  <2> HIDE DEF next
  <2> QED BY <1>1, <2>1
<1>11. \A n \in 0..size : seen[n] \in Seq(Records)
  <2> DEFINE P == {n \in 0..size : seen[n] \in Seq(Records)}
  <2>1. 0 \in P
    <3>1. 0 \in 0..size /\ seen[0] \in Seq(Records)
      BY <1>1, <1>4, <1>10
    <3> QED BY <3>1
  <2>2. ASSUME NEW n \in 0..(size - 1), n \in P PROVE n + 1 \in P
    <3> HIDE DEF item
    <3>1. n + 1 \in 0..size /\ item(n + 1) \in Records
      <4>1. n + 1 \in 1..size /\ n + 1 \in 0..size
        BY <1>1
      <4> QED BY <1>2, <4>1
    <3>2. Append(seen[n], item(n + 1)) \in Seq(Records)
      BY <2>2, <3>1, AppendProperties
    <3> QED BY <1>10, <2>2, <3>1, <3>2
  <2> HIDE DEF P
  <2>3. Upward(P, 0, size)
    BY <2>1, <2>2 DEF Upward
  <2>4. \A n \in 0..size : n \in P
    BY <1>1, <2>3, UpwardInduction
  <2> QED BY <2>4 DEF P
<1>12. ASSUME NEW n \in 0..(size - 1)
       PROVE  seen[n + 1] = IF Len(seen[n]) < limit /\ Contents[size - n].level >= minLevel
                            THEN Append(seen[n], Contents[size - n]) ELSE seen[n]
  <2>1. n + 1 \in 1..size /\ size + 1 - (n + 1) = size - n
    BY <1>1
  <2>2. item(n + 1) = Contents[size - n]
    BY <1>2, <2>1
  <2> HIDE DEF item
  <2> QED BY <1>10, <2>2
<1>13. Scans(seen, minLevel, limit)
  BY <1>8, <1>10, <1>11, <1>12 DEF Scans
<1> QED BY <1>13

\* The records of a level or above, and those of them that a scan has come by.
WantedAt(level) == {i \in 1..size : Contents[i].level >= level}

Come(level, n) == {i \in WantedAt(level) : i >= size + 1 - n}

LEMMA ComeIs ==
    ASSUME RingTypeOK, NEW level \in Levels
    PROVE  /\ Cardinality(Come(level, 0)) = 0
           /\ \A n \in 0..size : Cardinality(Come(level, n)) \in Nat
           /\ \A n \in 0..(size - 1) :
                  Cardinality(Come(level, n + 1))
                    = Cardinality(Come(level, n)) + (IF size - n \in WantedAt(level) THEN 1 ELSE 0)
           /\ Come(level, size) = WantedAt(level)
<1>1. size \in Nat
  BY LogRingAssumption DEF RingTypeOK
<1>2. WantedAt(level) \subseteq 1..size
  BY DEF WantedAt
<1>3. Come(level, 0) = {} /\ Come(level, size) = WantedAt(level)
  <2>1. \A i \in 1..size : ~(i >= size + 1 - 0) /\ i >= size + 1 - size
    BY <1>1
  <2> QED BY <1>2, <2>1 DEF Come
<1>4. \A n \in 0..size : IsFiniteSet(Come(level, n))
  <2>1. IsFiniteSet(1..size)
    BY <1>1, FS_Interval
  <2>2. \A n : Come(level, n) \subseteq 1..size
    BY <1>2 DEF Come
  <2> QED BY <2>1, <2>2, FS_Subset
<1>5. \A n \in 0..size : Cardinality(Come(level, n)) \in Nat
  BY <1>4, FS_CardinalityType
<1>6. ASSUME NEW n \in 0..(size - 1)
      PROVE  Cardinality(Come(level, n + 1))
               = Cardinality(Come(level, n)) + (IF size - n \in WantedAt(level) THEN 1 ELSE 0)
  <2>1. /\ n \in 0..size /\ ~(size - n >= size + 1 - n)
        /\ \A i \in 1..size : i >= size + 1 - (n + 1) <=> i >= size + 1 - n \/ i = size - n
    BY <1>1
  <2>2. CASE size - n \in WantedAt(level)
    <3>1. Come(level, n + 1) = Come(level, n) \cup {size - n} /\ size - n \notin Come(level, n)
      BY <1>2, <2>1, <2>2 DEF Come
    <3>2. Cardinality(Come(level, n) \cup {size - n}) = Cardinality(Come(level, n)) + 1
      BY <1>4, <2>1, <3>1, FS_AddElement
    <3> QED BY <2>2, <3>1, <3>2
  <2>3. CASE size - n \notin WantedAt(level)
    <3>1. Come(level, n + 1) = Come(level, n)
      BY <1>2, <2>1, <2>3 DEF Come
    <3> QED BY <1>5, <2>1, <2>3, <3>1
  <2> QED BY <2>2, <2>3
<1>7. Cardinality(Come(level, 0)) = 0
  BY <1>3, FS_EmptySet
<1> QED BY <1>3, <1>5, <1>6, <1>7

\* A scan shows each record it has come by, in its place among them.
LEMMA SnapshotShows ==
    ASSUME RingTypeOK, NEW level \in Levels, NEW limit \in Nat
    PROVE  LET shown == Snapshot(level, limit)
               since(i) == Cardinality(Come(level, size + 1 - i))
               number == Cardinality(WantedAt(level))
           IN  /\ Len(shown) = IF number <= limit THEN number ELSE limit
               /\ \A i \in WantedAt(level) :
                      since(i) <= Len(shown) => shown[since(i)] = Contents[i]
<1> DEFINE wanted == WantedAt(level)
           come == [n \in 0..size |-> Cardinality(Come(level, n))]
           since(i) == come[size + 1 - i]
<1>1. PICK seen : Scans(seen, level, limit)
  BY SnapshotIs
<1>2. size \in Nat /\ wanted \subseteq 1..size
  BY LogRingAssumption DEF RingTypeOK, WantedAt
<1>3. /\ come[0] = 0
      /\ \A n \in 0..size : come[n] \in Nat
      /\ \A n \in 0..(size - 1) :
             come[n + 1] = come[n] + (IF size - n \in wanted THEN 1 ELSE 0)
      /\ come[size] = Cardinality(wanted)
  <2>1. /\ 0 \in 0..size /\ size \in 0..size
        /\ \A n \in 0..(size - 1) : n \in 0..size /\ n + 1 \in 0..size
    BY <1>2
  <2>2. \A n \in 0..size : come[n] = Cardinality(Come(level, n))
    OBVIOUS
  <2> HIDE DEF come
  <2> QED BY <2>1, <2>2, ComeIs
<1>4. \A i \in 1..size : (Contents[i].level >= level) <=> i \in wanted
  BY DEF WantedAt
<1>5. Contents \in Seq(Records) /\ \A i \in 1..size : Contents[i] \in Records
  BY ContentsIs DEF RingTypeOK
<1>6. \A i \in 1..size :
          /\ size + 1 - i \in 0..size
          /\ come[size + 1 - i] = Cardinality(Come(level, size + 1 - i))
  BY <1>2
<1> HIDE DEF come, wanted
<1> DEFINE P == {n \in 0..size :
                   /\ Len(seen[n]) = IF come[n] <= limit THEN come[n] ELSE limit
                   /\ \A i \in wanted : i >= size + 1 - n =>
                          /\ since(i) \in 1..come[n]
                          /\ since(i) <= limit => seen[n][since(i)] = Contents[i]}
<1>7. 0 \in P
  <2>1. 0 \in 0..size /\ \A i \in wanted : ~(i >= size + 1 - 0)
    BY <1>2
  <2>2. Len(seen[0]) = 0
    BY <1>1, EmptySeq DEF Scans
  <2> QED BY <1>3, <2>1, <2>2
<1>8. ASSUME NEW n \in 0..(size - 1), n \in P PROVE n + 1 \in P
  <2> DEFINE j == size - n
  <2>1. /\ n \in 0..size /\ n + 1 \in 0..size /\ j \in 1..size /\ size + 1 - j = n + 1
        /\ \A i \in 1..size : i >= size + 1 - (n + 1) <=> i >= size + 1 - n \/ i = j
    BY <1>2
  <2>2. seen[n] \in Seq(Records) /\ Len(seen[n]) \in Nat /\ Contents[j] \in Records
    BY <1>1, <1>5, <2>1, LenProperties DEF Scans
  <2>3. seen[n + 1] = IF Len(seen[n]) < limit /\ j \in wanted
                      THEN Append(seen[n], Contents[j]) ELSE seen[n]
    BY <1>1, <1>4, <2>1 DEF Scans
  <2>4. /\ come[n + 1] = come[n] + (IF j \in wanted THEN 1 ELSE 0)
        /\ come[n] \in Nat /\ come[n + 1] \in Nat
    BY <1>3, <2>1
  <2>5. /\ Len(seen[n]) = IF come[n] <= limit THEN come[n] ELSE limit
        /\ \A i \in wanted : i >= size + 1 - n =>
               /\ since(i) \in 1..come[n]
               /\ since(i) <= limit => seen[n][since(i)] = Contents[i]
    BY <1>8
  <2>6. since(j) = come[n + 1]
    BY <2>1
  <2>7. \A i \in wanted : i \in 1..size
    BY <1>2
  <2> HIDE DEF j, P
  <2>8. CASE j \notin wanted
    <3>1. seen[n + 1] = seen[n] /\ come[n + 1] = come[n]
      BY <2>3, <2>4, <2>8
    <3>2. \A i \in wanted : i >= size + 1 - (n + 1) => i >= size + 1 - n
      BY <2>1, <2>7, <2>8
    <3> QED BY <2>1, <2>5, <3>1, <3>2 DEF P
  <2>9. CASE j \in wanted /\ ~(Len(seen[n]) < limit)
    <3>1. seen[n + 1] = seen[n] /\ come[n + 1] = come[n] + 1 /\ come[n] >= limit
      BY <2>2, <2>3, <2>4, <2>5, <2>9
    <3>2. ASSUME NEW i \in wanted, i >= size + 1 - (n + 1)
          PROVE  /\ since(i) \in 1..come[n + 1]
                 /\ since(i) <= limit => seen[n + 1][since(i)] = Contents[i]
      <4>1. CASE i = j
        BY <2>4, <2>6, <3>1, <4>1
      <4>2. CASE i # j
        <5>1. i >= size + 1 - n
          BY <2>1, <2>7, <3>2, <4>2
        <5> QED BY <2>4, <2>5, <3>1, <5>1
      <4> QED BY <4>1, <4>2
    <3>3. Len(seen[n + 1]) = IF come[n + 1] <= limit THEN come[n + 1] ELSE limit
      BY <2>2, <2>4, <2>5, <2>9, <3>1
    <3> QED BY <2>1, <3>2, <3>3 DEF P
  <2>10. CASE j \in wanted /\ Len(seen[n]) < limit
    <3>1. /\ come[n + 1] = come[n] + 1 /\ Len(seen[n]) = come[n]
          /\ seen[n + 1] = Append(seen[n], Contents[j])
      BY <2>2, <2>3, <2>4, <2>5, <2>10
    <3>2. /\ Len(seen[n + 1]) = come[n + 1] /\ seen[n + 1][come[n + 1]] = Contents[j]
          /\ \A x \in 1..come[n] : seen[n + 1][x] = seen[n][x]
      BY <2>2, <3>1, AppendProperties
    <3>3. ASSUME NEW i \in wanted, i >= size + 1 - (n + 1)
          PROVE  /\ since(i) \in 1..come[n + 1]
                 /\ since(i) <= limit => seen[n + 1][since(i)] = Contents[i]
      <4>1. CASE i = j
        BY <2>4, <2>6, <3>1, <3>2, <4>1
      <4>2. CASE i # j
        <5>1. i >= size + 1 - n
          BY <2>1, <2>7, <3>3, <4>2
        <5>2. since(i) \in 1..come[n] /\ (since(i) <= limit => seen[n][since(i)] = Contents[i])
          BY <2>5, <5>1
        <5>3. since(i) \in 1..come[n + 1]
          BY <2>4, <3>1, <5>2
        <5> QED BY <3>2, <5>2, <5>3
      <4> QED BY <4>1, <4>2
    <3>4. come[n + 1] <= limit
      BY <2>4, <2>10, <3>1
    <3> QED BY <2>1, <3>2, <3>3, <3>4 DEF P
  <2> QED BY <2>8, <2>9, <2>10
<1> HIDE DEF P
<1>9. Upward(P, 0, size)
  BY <1>7, <1>8 DEF Upward
<1>10. size \in P
  BY <1>2, <1>9, UpwardInduction
<1>11. Snapshot(level, limit) = seen[size]
  BY <1>1 DEF Scans
<1> DEFINE shown == seen[size]
           number == Cardinality(wanted)
<1>12. /\ Len(shown) = IF number <= limit THEN number ELSE limit
       /\ \A i \in wanted : since(i) <= Len(shown) => shown[since(i)] = Contents[i]
  <2>1. /\ Len(shown) = IF come[size] <= limit THEN come[size] ELSE limit
        /\ \A i \in wanted : i >= size + 1 - size =>
               /\ since(i) \in 1..come[size]
               /\ since(i) <= limit => shown[since(i)] = Contents[i]
    BY <1>10 DEF P
  <2>2. come[size] = number /\ come[size] \in Nat
    BY <1>2, <1>3
  <2>3. Len(shown) <= limit
    BY <2>1, <2>2
  <2>4. \A i \in wanted : i >= size + 1 - size
    BY <1>2
  <2>5. ASSUME NEW i \in wanted, since(i) <= Len(shown) PROVE shown[since(i)] = Contents[i]
    <3>1. since(i) \in 1..come[size]
      BY <2>1, <2>4
    <3>2. since(i) <= limit
      BY <2>2, <2>1, <2>3, <2>5, <3>1
    <3> QED BY <2>1, <2>4, <3>2
  <2> QED BY <2>1, <2>2, <2>5
<1> HIDE DEF shown
<1>13. \A i \in wanted : since(i) = Cardinality(Come(level, size + 1 - i))
  BY <1>2, <1>6
<1>14. Snapshot(level, limit) = shown
  BY <1>11 DEF shown
<1> QED BY <1>12, <1>13, <1>14 DEF wanted

LEMMA NewestNow ==
    ASSUME RingTypeOK
    PROVE  LogsNewest
<1> SUFFICES ASSUME NEW level \in Levels, NEW limit \in 0..(MaxLimit + 1)
             PROVE  LET shown == HandleLogs(level, limit)
                        wanted == {i \in 1..size : Contents[i].level >= level}
                        since(i) == Cardinality({j \in wanted : j >= i})
                    IN  /\ Len(shown) = Min({MaxLimit, Max({limit, 1}), Cardinality(wanted)})
                        /\ \A i \in wanted :
                               since(i) <= Len(shown) => shown[since(i)] = Contents[i]
  BY Zenon DEF LogsNewest
<1> DEFINE asked == IF limit < 1 THEN 1 ELSE IF limit > MaxLimit THEN MaxLimit ELSE limit
           shown == Snapshot(level, asked)
           wanted == WantedAt(level)
           number == Cardinality(wanted)
           since(i) == Cardinality(Come(level, size + 1 - i))
<1>1. MaxLimit \in Nat \ {0} /\ size \in Nat
  BY LogRingAssumption DEF RingTypeOK
<1>2. asked \in Nat
  BY <1>1
<1>3. HandleLogs(level, limit) = shown
  BY Zenon DEF HandleLogs
<1>4. number \in Nat
  <2>1. size \in 0..size
    BY <1>1
  <2> QED BY <2>1, ComeIs
<1>5. Max({limit, 1}) = IF limit < 1 THEN 1 ELSE limit
  <2> DEFINE T == {limit, 1}
             n == IF limit < 1 THEN 1 ELSE limit
  <2>1. T \in SUBSET Int /\ n \in T /\ \A m \in T : n >= m
    BY <1>1
  <2> HIDE DEF T
  <2>2. Max(T) = n
    BY <2>1, MaxIs
  <2> QED BY <2>2 DEF T
<1> HIDE DEF shown, since, number, wanted
<1>6. /\ Len(shown) = IF number <= asked THEN number ELSE asked
      /\ \A i \in wanted : since(i) <= Len(shown) => shown[since(i)] = Contents[i]
  <2> HIDE DEF asked
  <2> QED BY <1>2, SnapshotShows DEF shown, since, number, wanted
<1>7. Len(shown) = Min({MaxLimit, Max({limit, 1}), number})
  <2> DEFINE most == IF limit < 1 THEN 1 ELSE limit
             n == IF number <= asked THEN number ELSE asked
  <2>1. /\ most \in Nat /\ n \in {MaxLimit, most, number}
        /\ n <= MaxLimit /\ n <= most /\ n <= number
    BY <1>1, <1>4
  <2>2. Max({limit, 1}) = most /\ Len(shown) = n
    BY <1>5, <1>6
  <2> HIDE DEF most, n
  <2>3. Min({MaxLimit, most, number}) = n
    BY <1>1, <1>4, <2>1, Least3
  <2> QED BY <2>2, <2>3
<1>8. wanted = {i \in 1..size : Contents[i].level >= level}
  BY DEF wanted, WantedAt
<1>9. \A i \in 1..size : {j \in wanted : j >= i} = Come(level, size + 1 - i)
  <2>1. \A i \in 1..size : size + 1 - (size + 1 - i) = i
    BY <1>1
  <2> QED BY <2>1 DEF Come, wanted
<1>10. \A i \in wanted : since(i) = Cardinality({j \in wanted : j >= i})
  BY <1>8, <1>9 DEF since
<1> HIDE DEF asked
<1> QED BY <1>3, <1>6, <1>7, <1>8, <1>10, Zenon DEF number

\* Whatever the ring holds, GET /api/logs shows the newest of a level or above, newest
\* first, and as many of them as there are and the limit allows.
THEOREM NewestShown == Spec => []LogsNewest
  BY NewestNow, RingTyped, PTL

-----------------------------------------------------------------------------
(* The rules of the packs *)

LEMMA ContentIs ==
    ASSUME NEW name \in DOMAIN Packs
    PROVE  Content(name) \in Seq(DOMAIN Packs)
<1>1. Packs[name].members \in Seq(DOMAIN Packs)
  BY PacksAssumption
<1>2. <<name>> \in Seq(DOMAIN Packs)
  OBVIOUS
<1> QED BY <1>1, <1>2 DEF Content

LEMMA NamesIs ==
    ASSUME NEW enabled \in Seq(DOMAIN Packs)
    PROVE  Names(enabled) \in Seq(DOMAIN Packs)
<1> DEFINE N == Len(enabled)
           All == Seq(DOMAIN Packs)
           step == [n \in 1..N |-> [s \in All |-> s \o Content(enabled[n])]]
           body(f) == [n \in 0..N |-> IF n = 0 THEN <<>> ELSE f[n - 1] \o Content(enabled[n])]
           names == CHOOSE f : f = body(f)
<1>1. N \in Nat /\ \A n \in 1..N : Content(enabled[n]) \in All
  <2>1. \A n \in 1..N : enabled[n] \in DOMAIN Packs
    BY ElementOfSeq
  <2> HIDE DEF All
  <2> QED BY <2>1, ContentIs, LenProperties DEF All
<1>2. \A s, t \in All : s \o t \in All
  BY ConcatProperties
<1>3. <<>> \in All
  BY EmptySeq
<1> HIDE DEF All
<1>4. step \in [1..N -> [All -> All]]
  BY <1>1, <1>2
<1>5. PICK f \in [0..N -> All] : Follows(f, N, <<>>, step)
  <2> HIDE DEF step, N
  <2> QED BY <1>1, <1>3, <1>4, Recursion
<1>6. \A n \in 0..N : f[n] = IF n = 0 THEN <<>> ELSE f[n - 1] \o Content(enabled[n])
  <2> SUFFICES ASSUME NEW n \in 0..N
               PROVE  f[n] = IF n = 0 THEN <<>> ELSE f[n - 1] \o Content(enabled[n])
    OBVIOUS
  <2>1. f[n] = IF n = 0 THEN <<>> ELSE step[n][f[n - 1]]
    BY <1>5 DEF Follows
  <2>2. n # 0 => n \in 1..N /\ f[n - 1] \in All
    BY <1>1
  <2>3. n # 0 => step[n][f[n - 1]] = f[n - 1] \o Content(enabled[n])
    BY <2>2
  <2> QED BY <2>1, <2>3
<1>7. f = body(f)
  BY <1>6
<1>8. Names(enabled) = names[N]
  BY Zenon DEF Names
<1>9. names = body(names)
  BY <1>7, Zenon
<1> HIDE DEF names
<1>10. \A n \in 0..N : names[n] = IF n = 0 THEN <<>> ELSE names[n - 1] \o Content(enabled[n])
  BY <1>9
<1> DEFINE P == {n \in 0..N : names[n] \in All}
<1>11. 0 \in P
  <2>1. 0 \in 0..N
    BY <1>1
  <2> QED BY <1>3, <1>10, <2>1
<1>12. ASSUME NEW n \in 0..(N - 1), n \in P PROVE n + 1 \in P
  <2>1. n + 1 \in 1..N /\ n + 1 \in 0..N /\ (n + 1) - 1 = n /\ n + 1 # 0
    BY <1>1
  <2>2. names[n + 1] = names[n] \o Content(enabled[n + 1])
    BY <1>10, <2>1
  <2>3. names[n] \in All
    BY <1>12
  <2> QED BY <1>1, <1>2, <2>1, <2>2, <2>3
<1> HIDE DEF P
<1>13. Upward(P, 0, N)
  BY <1>11, <1>12 DEF Upward
<1>14. N \in P
  BY <1>1, <1>13, UpwardInduction
<1> QED BY <1>8, <1>14 DEF P, All

\* No rule is in two packs, or in a pack twice.
LEMMA OnePlace ==
    ASSUME NEW p \in DOMAIN Packs, NEW q \in DOMAIN Packs,
           NEW i \in 1..Len(Packs[p].rules), NEW j \in 1..Len(Packs[q].rules),
           Packs[p].rules[i] = Packs[q].rules[j]
    PROVE  p = q /\ i = j
  BY PacksAssumption

\* The function that Merge goes by.
Repeats(names, n) == \E j \in 1..(n - 1) : names[j] = names[n]

Merges(merged, user, names) ==
    /\ \A n \in 0..Len(names) : merged[n] \in Seq(Rules)
    /\ merged[0] = user
    /\ \A n \in 1..Len(names) :
           merged[n] = IF Repeats(names, n) THEN merged[n - 1]
                       ELSE merged[n - 1] \o Packs[names[n]].rules

LEMMA MergeIs ==
    ASSUME NEW user \in Seq(Rules), NEW enabled \in Seq(DOMAIN Packs)
    PROVE  \E merged : /\ Merges(merged, user, Names(enabled))
                       /\ Merge(user, enabled) = merged[Len(Names(enabled))]
<1> DEFINE names == Names(enabled)
           N == Len(names)
           All == Seq(Rules)
           next(s, n) == IF Repeats(names, n) THEN s ELSE s \o Packs[names[n]].rules
           step == [n \in 1..N |-> [s \in All |-> next(s, n)]]
           body(f) == [n \in 0..N |->
                        IF n = 0 THEN user
                        ELSE IF \E j \in 1..(n - 1) : names[j] = names[n] THEN f[n - 1]
                        ELSE f[n - 1] \o Packs[names[n]].rules]
           merged == CHOOSE f : f = body(f)
<1>1. names \in Seq(DOMAIN Packs)
  BY NamesIs
<1>2. Merge(user, enabled) = merged[N]
  BY Zenon DEF Merge
<1> HIDE DEF names
<1>3. N \in Nat /\ \A n \in 1..N : Packs[names[n]].rules \in All
  BY <1>1, LenProperties, ElementOfSeq, PacksAssumption
<1>4. \A s, t \in All : s \o t \in All
  BY ConcatProperties
<1>5. user \in All
  OBVIOUS
<1> HIDE DEF All
<1>6. \A n \in 1..N : \A s \in All : next(s, n) \in All
  BY <1>3, <1>4
<1>7. step \in [1..N -> [All -> All]]
  <2> HIDE DEF next
  <2> QED BY <1>6
<1>8. PICK f \in [0..N -> All] : Follows(f, N, user, step)
  <2> HIDE DEF step, N
  <2> QED BY <1>3, <1>5, <1>7, Recursion
<1>9. \A n \in 0..N : f[n] = IF n = 0 THEN user ELSE next(f[n - 1], n)
  <2> SUFFICES ASSUME NEW n \in 0..N
               PROVE  f[n] = IF n = 0 THEN user ELSE next(f[n - 1], n)
    OBVIOUS
  <2>1. f[n] = IF n = 0 THEN user ELSE step[n][f[n - 1]]
    BY <1>8 DEF Follows
  <2>2. n # 0 => n \in 1..N /\ f[n - 1] \in All
    BY <1>3
  <2> HIDE DEF next
  <2>3. n # 0 => step[n][f[n - 1]] = next(f[n - 1], n)
    BY <2>2
  <2> QED BY <2>1, <2>3
<1>10. f = body(f)
  BY <1>9 DEF Repeats
<1>11. merged = body(merged)
  BY <1>10, Zenon
<1> HIDE DEF merged
<1>12. \A n \in 0..N : merged[n] = IF n = 0 THEN user ELSE next(merged[n - 1], n)
  BY <1>11 DEF Repeats
<1> DEFINE P == {n \in 0..N : merged[n] \in All}
<1>13. 0 \in P
  <2>1. 0 \in 0..N
    BY <1>3
  <2> QED BY <1>5, <1>12, <2>1
<1>14. ASSUME NEW n \in 0..(N - 1), n \in P PROVE n + 1 \in P
  <2>1. n + 1 \in 1..N /\ n + 1 \in 0..N /\ (n + 1) - 1 = n /\ n + 1 # 0
    BY <1>3
  <2> HIDE DEF next
  <2>2. merged[n + 1] = next(merged[n], n + 1)
    BY <1>12, <2>1
  <2>3. merged[n] \in All
    BY <1>14
  <2> QED BY <1>6, <2>1, <2>2, <2>3
<1> HIDE DEF P
<1>15. Upward(P, 0, N)
  BY <1>13, <1>14 DEF Upward
<1>16. \A n \in 0..N : merged[n] \in All
  BY <1>3, <1>15, UpwardInduction DEF P
<1>17. merged[0] = user /\ \A n \in 1..N : merged[n] = next(merged[n - 1], n)
  <2> HIDE DEF next
  <2> QED BY <1>3, <1>12
<1>18. Merges(merged, user, names)
  BY <1>16, <1>17 DEF Merges, All
<1> QED BY <1>2, <1>18 DEF names

\* The rules of the user and, once each, those of the packs whose names have come.
Holds(rules, user, names, n) ==
    /\ Len(rules) >= Len(user)
    /\ \A i \in 1..Len(user) : rules[i] = user[i]
    /\ \A i \in (Len(user) + 1)..Len(rules) :
           \E k \in 1..n : \E x \in 1..Len(Packs[names[k]].rules) :
               rules[i] = Packs[names[k]].rules[x]
    /\ \A k \in 1..n : \A x \in 1..Len(Packs[names[k]].rules) :
           \E i \in (Len(user) + 1)..Len(rules) : rules[i] = Packs[names[k]].rules[x]
    /\ \A i, j \in (Len(user) + 1)..Len(rules) : rules[i] = rules[j] => i = j

LEMMA MergeHolds ==
    ASSUME NEW user \in Seq(Rules), NEW names \in Seq(DOMAIN Packs), NEW merged,
           Merges(merged, user, names)
    PROVE  Holds(merged[Len(names)], user, names, Len(names))
<1> DEFINE N == Len(names)
           P == {n \in 0..N : Holds(merged[n], user, names, n)}
           own == Len(user)
<1>1. N \in Nat /\ own \in Nat /\ \A n \in 1..N : names[n] \in DOMAIN Packs
  BY LenProperties, ElementOfSeq
<1>2. 0 \in P
  <2>1. 0 \in 0..N /\ merged[0] = user
    BY <1>1 DEF Merges
  <2> QED BY <1>1, <2>1 DEF Holds
<1>3. ASSUME NEW m \in 0..(N - 1), m \in P PROVE m + 1 \in P
  <2> DEFINE n == m + 1
             old == merged[m]
             pack == Packs[names[n]].rules
  <2>1. /\ n \in 1..N /\ n \in 0..N /\ m \in 0..N /\ n - 1 = m
        /\ \A k \in 1..n : k \in 1..m \/ k = n
        /\ \A k \in 1..m : k \in 1..n
    BY <1>1
  <2>2. merged[n] = IF Repeats(names, n) THEN old ELSE old \o pack
    BY <2>1 DEF Merges
  <2>3. Holds(old, user, names, m)
    BY <1>3
  <2>4. old \in Seq(Rules) /\ Len(old) \in Nat /\ Len(old) >= own
    BY <2>1, <2>3, LenProperties DEF Merges, Holds
  <2> HIDE DEF n
  <2>5. CASE Repeats(names, n)
    <3>1. PICK j \in 1..m : names[j] = names[n]
      BY <2>1, <2>5 DEF Repeats
    <3>2. \A i \in (own + 1)..Len(old) : \E k \in 1..n : \E x \in 1..Len(Packs[names[k]].rules) :
              old[i] = Packs[names[k]].rules[x]
      BY <2>1, <2>3 DEF Holds
    <3>3. ASSUME NEW k \in 1..n, NEW x \in 1..Len(Packs[names[k]].rules)
          PROVE  \E i \in (own + 1)..Len(old) : old[i] = Packs[names[k]].rules[x]
      <4>1. PICK l \in 1..m : names[l] = names[k]
        BY <2>1, <3>1
      <4>2. x \in 1..Len(Packs[names[l]].rules)
        BY <4>1
      <4>3. \E i \in (own + 1)..Len(old) : old[i] = Packs[names[l]].rules[x]
        BY <2>3, <4>2 DEF Holds
      <4> QED BY <4>1, <4>3
    <3>4. Holds(old, user, names, n)
      BY <2>3, <3>2, <3>3 DEF Holds
    <3> QED BY <2>1, <2>2, <2>5, <3>4 DEF n
  <2>6. CASE ~Repeats(names, n)
    <3> DEFINE new == old \o pack
    <3>1. pack \in Seq(Rules) /\ Len(pack) \in Nat
      BY <1>1, <2>1, PacksAssumption, LenProperties
    <3>2. /\ Len(new) = Len(old) + Len(pack)
          /\ \A i \in 1..(Len(old) + Len(pack)) :
                 new[i] = IF i <= Len(old) THEN old[i] ELSE pack[i - Len(old)]
      BY <2>4, <3>1, ConcatProperties
    <3> HIDE DEF new, pack, old
    <3>3. \A i \in 1..Len(old) : new[i] = old[i]
      BY <2>4, <3>1, <3>2
    <3>4. \A x \in 1..Len(pack) :
              Len(old) + x \in (Len(old) + 1)..Len(new) /\ new[Len(old) + x] = pack[x]
      BY <2>4, <3>1, <3>2, SMTT(30)
    <3>5. \A i \in (own + 1)..Len(new) :
              \/ i \in (own + 1)..Len(old)
              \/ \E x \in 1..Len(pack) : i = Len(old) + x
      <4> SUFFICES ASSUME NEW i \in (own + 1)..Len(new), ~(i \in (own + 1)..Len(old))
                   PROVE  \E x \in 1..Len(pack) : i = Len(old) + x
        OBVIOUS
      <4>1. i - Len(old) \in 1..Len(pack) /\ i = Len(old) + (i - Len(old))
        BY <1>1, <2>4, <3>1, <3>2
      <4> QED BY <4>1
    <3>6. /\ \A i \in (own + 1)..Len(old) : i \in 1..Len(old) /\ i \in (own + 1)..Len(new)
          /\ \A i \in (Len(old) + 1)..Len(new) : i \in (own + 1)..Len(new)
          /\ Len(new) >= own /\ \A i \in 1..own : i \in 1..Len(old)
      BY <1>1, <2>4, <3>1, <3>2
    \* A rule of this pack is in no other, and in one place of it.
    <3>7. ASSUME NEW i \in (own + 1)..Len(old), NEW x \in 1..Len(pack), old[i] = pack[x]
          PROVE  FALSE
      <4>1. PICK k \in 1..m : \E y \in 1..Len(Packs[names[k]].rules) :
                old[i] = Packs[names[k]].rules[y]
        BY <2>3, <3>7 DEF Holds
      <4>2. PICK y \in 1..Len(Packs[names[k]].rules) : old[i] = Packs[names[k]].rules[y]
        BY <4>1
      <4> DEFINE p == names[k]
                 q == names[n]
      <4>3. /\ p \in DOMAIN Packs /\ q \in DOMAIN Packs
            /\ y \in 1..Len(Packs[p].rules) /\ x \in 1..Len(Packs[q].rules)
            /\ Packs[p].rules[y] = Packs[q].rules[x]
        BY <1>1, <2>1, <3>7, <4>2 DEF pack
      <4> HIDE DEF p, q
      <4>4. p = q
        BY <4>3, OnePlace
      <4> QED BY <2>1, <2>6, <4>4 DEF Repeats, p, q
    <3>8. ASSUME NEW x \in 1..Len(pack), NEW y \in 1..Len(pack), pack[x] = pack[y]
          PROVE  x = y
      BY <1>1, <2>1, <3>8, OnePlace DEF pack
    <3>9. \A i \in 1..own : new[i] = user[i]
      BY <2>3, <3>3, <3>6 DEF Holds
    <3>10. ASSUME NEW i \in (own + 1)..Len(new)
           PROVE  \E k \in 1..n : \E x \in 1..Len(Packs[names[k]].rules) :
                      new[i] = Packs[names[k]].rules[x]
      <4>1. CASE i \in (own + 1)..Len(old)
        BY <2>1, <2>3, <3>3, <3>6, <4>1 DEF Holds
      <4>2. ASSUME NEW x \in 1..Len(pack), i = Len(old) + x
            PROVE  \E k \in 1..n : \E y \in 1..Len(Packs[names[k]].rules) :
                      new[i] = Packs[names[k]].rules[y]
        <5>1. n \in 1..n /\ new[i] = pack[x]
          BY <2>1, <3>4, <4>2
        <5> QED BY <5>1 DEF pack
      <4> QED BY <3>5, <4>1, <4>2
    <3>11. ASSUME NEW k \in 1..n, NEW x \in 1..Len(Packs[names[k]].rules)
           PROVE  \E i \in (own + 1)..Len(new) : new[i] = Packs[names[k]].rules[x]
      <4>1. CASE k = n
        <5>1. x \in 1..Len(pack) /\ pack[x] = Packs[names[k]].rules[x]
          BY <4>1 DEF pack
        <5> QED BY <3>4, <3>6, <5>1
      <4>2. CASE k \in 1..m
        <5>1. PICK i \in (own + 1)..Len(old) : old[i] = Packs[names[k]].rules[x]
          BY <2>3, <4>2 DEF Holds
        <5> QED BY <3>3, <3>6, <5>1
      <4> QED BY <2>1, <4>1, <4>2
    <3>12. ASSUME NEW i \in (own + 1)..Len(new), NEW j \in (own + 1)..Len(new), new[i] = new[j]
           PROVE  i = j
      <4>1. ASSUME i \in (own + 1)..Len(old), j \in (own + 1)..Len(old) PROVE i = j
        <5>1. old[i] = old[j]
          BY <3>3, <3>6, <3>12, <4>1
        <5> QED BY <2>3, <4>1, <5>1 DEF Holds
      <4>2. ASSUME i \in (own + 1)..Len(old), NEW x \in 1..Len(pack), j = Len(old) + x
            PROVE  FALSE
        <5>1. old[i] = pack[x]
          BY <3>3, <3>4, <3>6, <3>12, <4>2
        <5> QED BY <3>7, <4>2, <5>1
      <4>3. ASSUME j \in (own + 1)..Len(old), NEW x \in 1..Len(pack), i = Len(old) + x
            PROVE  FALSE
        <5>1. old[j] = pack[x]
          BY <3>3, <3>4, <3>6, <3>12, <4>3
        <5> QED BY <3>7, <4>3, <5>1
      <4>4. ASSUME NEW x \in 1..Len(pack), NEW y \in 1..Len(pack),
                   i = Len(old) + x, j = Len(old) + y
            PROVE  i = j
        <5>1. pack[x] = pack[y]
          BY <3>4, <3>12, <4>4
        <5> QED BY <3>8, <4>4, <5>1
      <4> QED BY <3>5, <4>1, <4>2, <4>3, <4>4
    <3>13. Holds(new, user, names, n)
      BY <3>6, <3>9, <3>10, <3>11, <3>12 DEF Holds
    <3>14. merged[n] = new
      BY <2>2, <2>6 DEF new
    <3> QED BY <2>1, <3>13, <3>14 DEF n
  <2> QED BY <2>5, <2>6
<1> HIDE DEF P
<1>4. Upward(P, 0, N)
  BY <1>2, <1>3 DEF Upward
<1>5. N \in P
  BY <1>1, <1>4, UpwardInduction
<1> QED BY <1>5 DEF P

LEMMA PacksHeldOnce ==
    ASSUME IInv
    PROVE  PacksOnce
<1> SUFFICES ASSUME req # None
             PROVE  LET merged == Merge(req.conf.rules, req.conf.packs)
                        own == Len(req.conf.rules)
                        packs == SubSeq(merged, own + 1, Len(merged))
                    IN  /\ SubSeq(merged, 1, own) = req.conf.rules
                        /\ IsInjective(packs)
                        /\ ToSet(packs) = UNION {ToSet(Packs[p].rules) :
                                                     p \in ToSet(Names(req.conf.packs))}
  BY DEF PacksOnce
<1> DEFINE user == req.conf.rules
           names == Names(req.conf.packs)
           merged == Merge(user, req.conf.packs)
           own == Len(user)
           packs == SubSeq(merged, own + 1, Len(merged))
           parts == {ToSet(Packs[p].rules) : p \in ToSet(names)}
<1>1. user \in Seq(Rules) /\ req.conf.packs \in Seq(DOMAIN Packs)
  BY ConfigurationsAssumption DEF IInv, Answering
<1>2. names \in Seq(DOMAIN Packs)
  BY <1>1, NamesIs
<1>3. PICK f : Merges(f, user, names) /\ merged = f[Len(names)]
  BY <1>1, MergeIs
<1> HIDE DEF user, names, merged
<1>4. Holds(merged, user, names, Len(names))
  BY <1>1, <1>2, <1>3, MergeHolds
<1>5. merged \in Seq(Rules) /\ Len(merged) \in Nat /\ own \in Nat /\ own <= Len(merged)
      /\ Len(names) \in Nat
  <2>1. Len(names) \in 0..Len(names) /\ Len(names) \in Nat
    BY <1>2, LenProperties
  <2>2. merged \in Seq(Rules)
    BY <1>3, <2>1 DEF Merges
  <2> QED BY <1>1, <1>4, <2>1, <2>2, LenProperties DEF Holds
<1>6. SubSeq(merged, 1, own) = user
  <2> DEFINE s == SubSeq(merged, 1, own)
  <2>1. s \in Seq(Rules) /\ Len(s) = own /\ \A i \in 1..own : s[i] = merged[i]
    BY <1>5, PrefixIs, SMTT(30)
  <2>2. \A i \in 1..Len(s) : s[i] = user[i]
    BY <1>4, <2>1, SMTT(30) DEF Holds
  <2> HIDE DEF s
  <2>3. s = user
    BY <1>1, <2>1, <2>2, SeqEqual, SMTT(30)
  <2> QED BY <2>3 DEF s
<1>7. /\ packs \in Seq(Rules) /\ Len(packs) = Len(merged) - own
      /\ \A i \in 1..(Len(merged) - own) : packs[i] = merged[own + i]
  <2>1. /\ own + 1 \in Int /\ Len(merged) \in Int
        /\ \A i \in (own + 1)..Len(merged) : merged[i] \in Rules
    <3>1. \A i \in (own + 1)..Len(merged) : i \in 1..Len(merged)
      BY <1>5
    <3> QED BY <1>5, <3>1, ElementOfSeq
  <2>2. /\ packs \in Seq(Rules)
        /\ Len(packs) = IF own + 1 <= Len(merged) THEN Len(merged) - (own + 1) + 1 ELSE 0
        /\ \A i \in 1..(Len(merged) - (own + 1) + 1) : packs[i] = merged[(own + 1) + i - 1]
    BY <2>1, SubSeqProperties
  <2>3. /\ Len(merged) - (own + 1) + 1 = Len(merged) - own
        /\ own + 1 <= Len(merged) \/ Len(merged) - own = 0
        /\ \A i \in 1..(Len(merged) - own) : (own + 1) + i - 1 = own + i
    BY <1>5
  <2> HIDE DEF packs
  <2> QED BY <2>2, <2>3
<1> HIDE DEF packs
<1>8. /\ \A i \in 1..Len(packs) : own + i \in (own + 1)..Len(merged) /\ packs[i] = merged[own + i]
      /\ \A i \in (own + 1)..Len(merged) : i - own \in 1..Len(packs) /\ packs[i - own] = merged[i]
  BY <1>5, <1>7
<1>9. IsInjective(packs)
  <2>1. DOMAIN packs = 1..Len(packs)
    BY <1>7
  <2>2. ASSUME NEW i \in 1..Len(packs), NEW j \in 1..Len(packs), packs[i] = packs[j] PROVE i = j
    <3> DEFINE x == own + i
               y == own + j
    <3>1. /\ x \in (own + 1)..Len(merged) /\ y \in (own + 1)..Len(merged)
          /\ merged[x] = merged[y]
      BY <1>8, <2>2
    <3> HIDE DEF x, y
    <3>2. x = y
      BY <1>4, <3>1 DEF Holds
    <3> QED BY <1>5, <3>2 DEF x, y
  <2> QED BY <2>1, <2>2 DEF IsInjective
<1>10. ASSUME NEW rule
       PROVE  rule \in ToSet(packs) <=> rule \in UNION parts
  <2>1. \A p \in DOMAIN Packs : Packs[p].rules \in Seq(Rules)
    BY PacksAssumption
  <2>2. \A k \in 1..Len(names) : names[k] \in DOMAIN Packs /\ names[k] \in ToSet(names)
    BY <1>2, ElementOfSeq, InSequence
  <2>3. ASSUME rule \in ToSet(packs) PROVE rule \in UNION parts
    <3>1. PICK i \in 1..Len(packs) : packs[i] = rule
      BY <1>7, <2>3, InSequence
    <3> DEFINE j == own + i
    <3>2. j \in (own + 1)..Len(merged) /\ merged[j] = rule
      BY <1>8, <3>1
    <3> HIDE DEF j
    <3>3. PICK k \in 1..Len(names) : \E x \in 1..Len(Packs[names[k]].rules) :
              rule = Packs[names[k]].rules[x]
      BY <1>4, <3>2 DEF Holds
    <3>4. rule \in ToSet(Packs[names[k]].rules)
      BY <2>1, <2>2, <3>3, InSequence
    <3>5. ToSet(Packs[names[k]].rules) \in parts
      BY <2>2
    <3> QED BY <3>4, <3>5
  <2>4. ASSUME rule \in UNION parts PROVE rule \in ToSet(packs)
    <3>1. PICK p \in ToSet(names) : rule \in ToSet(Packs[p].rules)
      BY <2>4
    <3>2. PICK k \in 1..Len(names) : names[k] = p
      BY <1>2, InSequence
    <3>3. PICK x \in 1..Len(Packs[names[k]].rules) : Packs[names[k]].rules[x] = rule
      BY <2>1, <2>2, <3>1, <3>2, InSequence
    <3>4. PICK i \in (own + 1)..Len(merged) : merged[i] = rule
      BY <1>4, <3>3 DEF Holds
    <3> QED BY <1>7, <1>8, <3>4, InSequence
  <2> QED BY <2>3, <2>4
<1>11. ToSet(packs) = UNION parts
  BY <1>10
<1> QED BY <1>6, <1>9, <1>11 DEF merged, user, names, packs

\* A pack that is enabled twice, by itself or by manifests, is there once.
THEOREM PacksMergedOnce == Spec => []PacksOnce
  BY Invariant, PacksHeldOnce, PTL

-----------------------------------------------------------------------------
(* The globs *)

\* The function that GlobMatches goes by.
Rests(rest, pattern, name) ==
    /\ rest[Len(pattern) + 1] = {Len(name) + 1}
    /\ \A i \in 1..Len(pattern) :
           rest[i] = IF pattern[i] = "**"
                     THEN {j \in 1..(Len(name) + 1) : \E next \in rest[i + 1] : j <= next}
                     ELSE {j \in 1..Len(name) :
                               SegmentMatches(pattern[i], name[j]) /\ j + 1 \in rest[i + 1]}
    /\ \A i \in 1..(Len(pattern) + 1) : rest[i] \subseteq 1..(Len(name) + 1)

LEMMA GlobIs ==
    ASSUME NEW pattern \in Seq(STRING), NEW name \in Seq(STRING)
    PROVE  \E rest : Rests(rest, pattern, name) /\ (GlobMatches(pattern, name) <=> 1 \in rest[1])
<1> DEFINE M == Len(pattern)
           N == Len(name)
           D == 1..(M + 1)
           S == SUBSET (1..(N + 1))
           part(g, i) ==
               IF i > M THEN {N + 1}
               ELSE IF pattern[i] = "**"
               THEN {j \in 1..(N + 1) : \E next \in g[i + 1] : j <= next}
               ELSE {j \in 1..N : SegmentMatches(pattern[i], name[j]) /\ j + 1 \in g[i + 1]}
           rank == [i \in D |-> M + 1 - i]
           step == [i \in D |-> [g \in [D -> S] |-> part(g, i)]]
           body(f) == [i \in D |->
               IF i > M THEN {N + 1}
               ELSE IF pattern[i] = "**"
               THEN {j \in 1..(N + 1) : \E next \in f[i + 1] : j <= next}
               ELSE {j \in 1..N : SegmentMatches(pattern[i], name[j]) /\ j + 1 \in f[i + 1]}]
           rest == CHOOSE f : f = body(f)
<1>1. M \in Nat /\ N \in Nat
  BY LenProperties
<1>2. \A g, i : part(g, i) \in S
  <2>1. {N + 1} \in S
    BY <1>1
  <2>2. \A g, i : {j \in 1..(N + 1) : \E next \in g[i + 1] : j <= next} \in S
    OBVIOUS
  <2>3. \A g, i : {j \in 1..N : SegmentMatches(pattern[i], name[j]) /\ j + 1 \in g[i + 1]} \in S
    BY <1>1
  <2> HIDE DEF S
  <2> QED BY <2>1, <2>2, <2>3
<1>3. ASSUME NEW i \in D, NEW g \in [D -> S], NEW h \in [D -> S],
             \A e \in D : rank[e] < rank[i] => g[e] = h[e]
      PROVE  part(g, i) = part(h, i)
  <2>1. i <= M => i + 1 \in D /\ rank[i + 1] < rank[i]
    BY <1>1
  <2>2. i <= M => g[i + 1] = h[i + 1]
    BY <1>3, <2>1
  <2> HIDE DEF rank, S
  <2>3. CASE i <= M
    BY <2>2, <2>3
  <2>4. CASE i > M
    BY <2>4
  <2> QED BY <1>1, <2>3, <2>4
<1>4. IsRecursion(D, S, M, rank, step)
  <2>1. S # {} /\ M \in Nat
    BY <1>1
  <2>2. rank \in [D -> 0..M]
    BY <1>1
  <2> HIDE DEF part, S, rank, D
  <2>3. step \in [D -> [[D -> S] -> S]]
    BY <1>2
  <2>4. \A i \in D : \A g \in [D -> S] : step[i][g] = part(g, i)
    OBVIOUS
  <2> HIDE DEF step
  <2>5. ASSUME NEW i \in D, NEW g \in [D -> S], NEW h \in [D -> S],
               \A e \in D : rank[e] < rank[i] => g[e] = h[e]
        PROVE  step[i][g] = step[i][h]
    <3>1. part(g, i) = part(h, i)
      BY <1>3, <2>5
    <3> QED BY <2>4, <3>1
  <2> QED BY <2>1, <2>2, <2>3, <2>5, Zenon DEF IsRecursion
<1>5. PICK f \in [D -> S] : \A i \in D : f[i] = step[i][f]
  <2> HIDE DEF step, rank, S, D
  <2> QED BY <1>4, RankedRecursion
<1>6. \A i \in D : f[i] = part(f, i)
  <2> HIDE DEF part, S, D
  <2> QED BY <1>5
<1>7. f = body(f)
  <2> HIDE DEF D
  <2> QED BY <1>6
<1>8. GlobMatches(pattern, name) <=> 1 \in rest[1]
  BY Zenon DEF GlobMatches
<1>9. rest = body(rest)
  BY <1>7, Zenon
<1> HIDE DEF rest
<1>10. \A i \in D : rest[i] = part(rest, i)
  <2> HIDE DEF D
  <2> QED BY <1>9
<1>11. rest[M + 1] = {N + 1}
  <2>1. M + 1 \in D /\ M + 1 > M
    BY <1>1
  <2>2. part(rest, M + 1) = {N + 1}
    BY <2>1
  <2> HIDE DEF part, D
  <2> QED BY <1>10, <2>1, <2>2
<1>12. \A i \in 1..M :
           rest[i] = IF pattern[i] = "**"
                     THEN {j \in 1..(N + 1) : \E next \in rest[i + 1] : j <= next}
                     ELSE {j \in 1..N : SegmentMatches(pattern[i], name[j]) /\ j + 1 \in rest[i + 1]}
  <2>1. \A i \in 1..M : i \in D /\ ~(i > M)
    BY <1>1
  <2> HIDE DEF D
  <2> QED BY <1>10, <2>1
<1>13. \A i \in D : rest[i] \in S
  <2> HIDE DEF part, S, D
  <2> QED BY <1>2, <1>10
<1>14. Rests(rest, pattern, name)
  BY <1>11, <1>12, <1>13 DEF Rests
<1> QED BY <1>8, <1>14

\* The rest of a pattern fits the rest of a name if that can be cut as well.
CutsFrom(cut, pattern, name, i, j) ==
    /\ cut \in [(i - 1)..Len(pattern) -> 0..Len(name)]
    /\ cut[i - 1] = j - 1 /\ cut[Len(pattern)] = Len(name)
    /\ \A k \in i..Len(pattern) :
           IF pattern[k] = "**" THEN cut[k] >= cut[k - 1]
           ELSE cut[k] = cut[k - 1] + 1 /\ pattern[k] \in {"*", name[cut[k]]}

FitsFrom(pattern, name, i, j) == \E cut : CutsFrom(cut, pattern, name, i, j)

\* A part of the pattern that takes the name from one place to another.
Takes(pattern, name, i, from, to) ==
    IF pattern[i] = "**" THEN to >= from
    ELSE to = from + 1 /\ pattern[i] \in {"*", name[to]}

LEMMA FitsStep ==
    ASSUME NEW pattern \in Seq(STRING), NEW name \in Seq(STRING),
           NEW i \in 1..Len(pattern), NEW j \in 1..(Len(name) + 1)
    PROVE  FitsFrom(pattern, name, i, j)
             <=> \E next \in 1..(Len(name) + 1) :
                     /\ Takes(pattern, name, i, j - 1, next - 1)
                     /\ FitsFrom(pattern, name, i + 1, next)
<1> DEFINE M == Len(pattern)
           N == Len(name)
<1>1. M \in Nat /\ N \in Nat /\ (i + 1) - 1 = i
  BY LenProperties
<1>2. ASSUME NEW cut, CutsFrom(cut, pattern, name, i, j)
      PROVE  \E next \in 1..(N + 1) :
                 /\ Takes(pattern, name, i, j - 1, next - 1)
                 /\ FitsFrom(pattern, name, i + 1, next)
  <2> DEFINE next == cut[i] + 1
             tail == [k \in i..M |-> cut[k]]
  <2>1. /\ \A k \in (i - 1)..M : cut[k] \in 0..N
        /\ cut[i - 1] = j - 1 /\ cut[M] = N
        /\ \A k \in i..M :
               IF pattern[k] = "**" THEN cut[k] >= cut[k - 1]
               ELSE cut[k] = cut[k - 1] + 1 /\ pattern[k] \in {"*", name[cut[k]]}
    BY <1>2 DEF CutsFrom
  <2>2. /\ i \in i..M /\ M \in i..M /\ \A k \in i..M : k \in (i - 1)..M
        /\ \A k \in (i + 1)..M : k \in i..M /\ k - 1 \in i..M
    BY <1>1
  <2>3. next \in 1..(N + 1) /\ next - 1 = cut[i]
    BY <1>1, <2>1, <2>2
  <2>4. Takes(pattern, name, i, j - 1, next - 1)
    BY <2>1, <2>2, <2>3 DEF Takes
  <2>5. tail \in [i..M -> 0..N] /\ \A k \in i..M : tail[k] = cut[k]
    BY <2>1, <2>2
  <2> HIDE DEF tail, next
  <2>6. CutsFrom(tail, pattern, name, i + 1, next)
    <3>1. tail[i] = next - 1 /\ tail[M] = N
      BY <2>1, <2>2, <2>3, <2>5
    <3>2. \A k \in (i + 1)..M :
              IF pattern[k] = "**" THEN tail[k] >= tail[k - 1]
              ELSE tail[k] = tail[k - 1] + 1 /\ pattern[k] \in {"*", name[tail[k]]}
      BY <2>1, <2>2, <2>5
    <3> QED BY <1>1, <2>5, <3>1, <3>2 DEF CutsFrom
  <2> QED BY <2>3, <2>4, <2>6 DEF FitsFrom
<1>3. ASSUME NEW next \in 1..(N + 1), Takes(pattern, name, i, j - 1, next - 1),
             NEW tail, CutsFrom(tail, pattern, name, i + 1, next)
      PROVE  FitsFrom(pattern, name, i, j)
  <2> DEFINE cut == [k \in (i - 1)..M |-> IF k = i - 1 THEN j - 1 ELSE tail[k]]
  <2>1. /\ \A k \in i..M : tail[k] \in 0..N
        /\ tail[i] = next - 1 /\ tail[M] = N
        /\ \A k \in (i + 1)..M :
               IF pattern[k] = "**" THEN tail[k] >= tail[k - 1]
               ELSE tail[k] = tail[k - 1] + 1 /\ pattern[k] \in {"*", name[tail[k]]}
    BY <1>1, <1>3 DEF CutsFrom
  <2>2. \A k \in (i - 1)..M : k # i - 1 => k \in i..M
    BY <1>1
  <2>3. /\ cut \in [(i - 1)..M -> 0..N] /\ cut[i - 1] = j - 1
        /\ \A k \in i..M : cut[k] = tail[k]
    <3>1. i - 1 \in (i - 1)..M /\ \A k \in i..M : k \in (i - 1)..M /\ k # i - 1
      BY <1>1
    <3>2. j - 1 \in 0..N
      BY <1>1
    <3> QED BY <2>1, <2>2, <3>1, <3>2
  <2> HIDE DEF cut
  <2>4. \A k \in i..M :
            IF pattern[k] = "**" THEN cut[k] >= cut[k - 1]
            ELSE cut[k] = cut[k - 1] + 1 /\ pattern[k] \in {"*", name[cut[k]]}
    <3> SUFFICES ASSUME NEW k \in i..M
                 PROVE  IF pattern[k] = "**" THEN cut[k] >= cut[k - 1]
                        ELSE cut[k] = cut[k - 1] + 1 /\ pattern[k] \in {"*", name[cut[k]]}
      OBVIOUS
    <3>1. CASE k = i
      <4>1. cut[k] = next - 1 /\ cut[k - 1] = j - 1
        BY <2>1, <2>3, <3>1
      <4> QED BY <1>3, <3>1, <4>1 DEF Takes
    <3>2. CASE k # i
      <4>1. k \in (i + 1)..M /\ k - 1 \in i..M
        BY <1>1, <3>2
      <4>2. cut[k] = tail[k] /\ cut[k - 1] = tail[k - 1]
        BY <2>3, <4>1
      <4> QED BY <2>1, <4>1, <4>2
    <3> QED BY <3>1, <3>2
  <2>5. cut[M] = N
    BY <1>1, <2>1, <2>3
  <2>6. CutsFrom(cut, pattern, name, i, j)
    BY <2>3, <2>4, <2>5 DEF CutsFrom
  <2> QED BY <2>6 DEF FitsFrom
<1> QED BY <1>2, <1>3 DEF FitsFrom

\* path_glob means what it says: the engine finds the cuts there are.
THEOREM GlobFits ==
    ASSUME NEW pattern \in Seq(STRING), NEW name \in Seq(STRING)
    PROVE  GlobMatches(pattern, name) <=> Fits(pattern, name)
<1> DEFINE M == Len(pattern)
           N == Len(name)
<1>1. PICK rest : Rests(rest, pattern, name) /\ (GlobMatches(pattern, name) <=> 1 \in rest[1])
  BY GlobIs
<1>2. M \in Nat /\ N \in Nat
  BY LenProperties
<1> DEFINE P == {i \in 1..(M + 1) : \A j \in 1..(N + 1) :
                     j \in rest[i] <=> FitsFrom(pattern, name, i, j)}
<1>3. M + 1 \in P
  <2>1. ASSUME NEW j \in 1..(N + 1)
        PROVE  j = N + 1 <=> FitsFrom(pattern, name, M + 1, j)
    <3>1. ASSUME NEW cut, CutsFrom(cut, pattern, name, M + 1, j) PROVE j = N + 1
      <4>1. cut[(M + 1) - 1] = j - 1 /\ cut[M] = N /\ (M + 1) - 1 = M
        BY <1>2, <3>1 DEF CutsFrom
      <4> QED BY <1>2, <4>1
    <3>2. ASSUME j = N + 1 PROVE FitsFrom(pattern, name, M + 1, j)
      <4> DEFINE cut == [k \in M..M |-> N]
      <4>1. cut \in [M..M -> 0..N] /\ cut[M] = N
        BY <1>2, SMTT(30)
      <4>2. (M + 1) - 1 = M /\ j - 1 = N /\ (M + 1)..M = {}
        BY <1>2, <3>2, SMTT(30)
      <4> HIDE DEF cut
      <4>3. CutsFrom(cut, pattern, name, M + 1, j)
        BY <4>1, <4>2, ZenonT(30) DEF CutsFrom
      <4> QED BY <4>3 DEF FitsFrom
    <3> QED BY <3>1, <3>2 DEF FitsFrom
  <2>2. rest[M + 1] = {N + 1} /\ M + 1 \in 1..(M + 1)
    BY <1>1, <1>2 DEF Rests
  <2> QED BY <2>1, <2>2
<1>4. ASSUME NEW i \in 2..(M + 1), i \in P PROVE i - 1 \in P
  <2> DEFINE h == i - 1
  <2>1. h \in 1..M /\ h \in 1..(M + 1) /\ h + 1 = i
    BY <1>2
  <2>2. \A j \in 1..(N + 1) : j \in rest[i] <=> FitsFrom(pattern, name, i, j)
    BY <1>4
  <2> HIDE DEF h, P
  <2>3. /\ rest[h] = IF pattern[h] = "**"
                     THEN {j \in 1..(N + 1) : \E next \in rest[i] : j <= next}
                     ELSE {j \in 1..N : SegmentMatches(pattern[h], name[j]) /\ j + 1 \in rest[i]}
        /\ rest[i] \subseteq 1..(N + 1)
    <3>1. rest[h] = IF pattern[h] = "**"
                    THEN {j \in 1..(N + 1) : \E next \in rest[h + 1] : j <= next}
                    ELSE {j \in 1..N :
                              SegmentMatches(pattern[h], name[j]) /\ j + 1 \in rest[h + 1]}
      BY <1>1, <2>1 DEF Rests
    <3>2. rest[i] \subseteq 1..(N + 1)
      BY <1>1 DEF Rests
    <3> QED BY <2>1, <3>1, <3>2
  <2>4. ASSUME NEW j \in 1..(N + 1)
        PROVE  j \in rest[h] <=> \E next \in 1..(N + 1) :
                   Takes(pattern, name, h, j - 1, next - 1) /\ next \in rest[i]
    <3>1. CASE pattern[h] = "**"
      <4>1. \A next \in 1..(N + 1) : Takes(pattern, name, h, j - 1, next - 1) <=> j <= next
        BY <1>2, <3>1 DEF Takes
      <4> QED BY <2>3, <3>1, <4>1
    <3>2. CASE pattern[h] # "**"
      <4>1. j \in rest[h] <=> j \in 1..N /\ pattern[h] \in {"*", name[j]} /\ j + 1 \in rest[i]
        BY <2>3, <3>2 DEF SegmentMatches
      <4>2. \A next \in 1..(N + 1) :
                Takes(pattern, name, h, j - 1, next - 1)
                    <=> next = j + 1 /\ pattern[h] \in {"*", name[j]}
        <5> SUFFICES ASSUME NEW next \in 1..(N + 1)
                     PROVE  Takes(pattern, name, h, j - 1, next - 1)
                                <=> next = j + 1 /\ pattern[h] \in {"*", name[j]}
          OBVIOUS
        <5>1. next - 1 = (j - 1) + 1 <=> next = j + 1
          BY <1>2
        <5>2. next = j + 1 => next - 1 = j
          BY <1>2
        <5> QED BY <3>2, <5>1, <5>2 DEF Takes
      <4>3. j + 1 \in 1..(N + 1) => j \in 1..N
        BY <1>2
      <4> QED BY <2>3, <4>1, <4>2, <4>3
    <3> QED BY <3>1, <3>2
  <2>5. ASSUME NEW j \in 1..(N + 1)
        PROVE  j \in rest[h] <=> FitsFrom(pattern, name, h, j)
    BY <2>1, <2>2, <2>4, FitsStep
  <2>6. h \in P
    BY <2>1, <2>5 DEF P
  <2> QED BY <2>6 DEF h
<1> HIDE DEF P
<1>5. \A i \in (1 + 1)..(M + 1) : i \in P => i - 1 \in P
  BY <1>4
<1>6. Downward(P, 1, M + 1)
  BY <1>3, <1>5 DEF Downward
<1>7. 1 \in P
  BY <1>2, <1>6, DownwardInduction
<1>8. 1 \in rest[1] <=> FitsFrom(pattern, name, 1, 1)
  BY <1>2, <1>7 DEF P
<1>9. FitsFrom(pattern, name, 1, 1) <=> Fits(pattern, name)
  <2>1. 1 - 1 = 0
    OBVIOUS
  <2>2. \A cut : CutsFrom(cut, pattern, name, 1, 1) <=>
            /\ cut \in [0..Len(pattern) -> 0..Len(name)]
            /\ cut[0] = 0 /\ cut[Len(pattern)] = Len(name)
            /\ \A k \in 1..Len(pattern) :
                   IF pattern[k] = "**" THEN cut[k] >= cut[k - 1]
                   ELSE cut[k] = cut[k - 1] + 1 /\ pattern[k] \in {"*", name[cut[k]]}
    BY <2>1 DEF CutsFrom
  <2> QED BY <2>2, Zenon DEF FitsFrom, Fits
<1> QED BY <1>1, <1>8, <1>9

-----------------------------------------------------------------------------
(* The rule that answers *)

\* A request meets what a rule is meant to ask for if the engine says so.
LEMMA MatchesIntended ==
    ASSUME NEW rule \in Rules, NEW r, r.path \in Seq(STRING)
    PROVE  Matches(rule, r) <=> Intended(rule, r)
<1>1. ASSUME NEW c \in DOMAIN rule.match
      PROVE  Meets(c, rule.match[c], r)
               <=> IF c = "path_glob" THEN Fits(rule.match[c], r.path)
                   ELSE Meets(c, rule.match[c], r)
  <2>1. CASE c = "path_glob"
    <3> DEFINE value == rule.match[c]
    <3>1. value \in Seq(STRING)
      BY <2>1, RulesAssumption
    <3> HIDE DEF value
    <3>2. Meets("path_glob", value, r) <=> GlobMatches(value, r.path)
      BY DEF Meets
    <3>3. GlobMatches(value, r.path) <=> Fits(value, r.path)
      BY <3>1, GlobFits
    <3> QED BY <2>1, <3>2, <3>3, Zenon DEF value
  <2>2. CASE c # "path_glob"
    BY <2>2
  <2> QED BY <2>1, <2>2
<1> QED BY <1>1, Zenon DEF Matches, Intended

Met(rules, r) == {i \in 1..Len(rules) : Intended(rules[i], r)}

\* The first of the rules that a request meets.
IsFirst(rules, r, rule) ==
    \E i \in Met(rules, r) : rules[i] = rule /\ \A j \in Met(rules, r) : i <= j

LEMMA FirstIs ==
    ASSUME NEW rules \in Seq(Rules), NEW r
    PROVE  /\ Met(rules, r) # {} => IsFirst(rules, r, rules[Min(Met(rules, r))])
           /\ \A rule : IsFirst(rules, r, rule) =>
                  Met(rules, r) # {} /\ rules[Min(Met(rules, r))] = rule
<1> DEFINE met == Met(rules, r)
<1>1. met \in SUBSET Nat
  BY DEF Met
<1> HIDE DEF met
<1>2. ASSUME met # {} PROVE Min(met) \in met /\ \A j \in met : Min(met) <= j
  BY <1>1, <1>2, MinIn
<1>3. ASSUME NEW i \in met, \A j \in met : i <= j PROVE Min(met) = i
  BY <1>1, <1>3, MinIs
<1> QED BY <1>2, <1>3 DEF IsFirst, met

LEMMA FirstOf ==
    ASSUME NEW a \in Seq(Rules), NEW b \in Seq(Rules), NEW r
    PROVE  /\ \A rule : IsFirst(a, r, rule) => IsFirst(a \o b, r, rule)
           /\ \A rule : Met(a, r) = {} /\ IsFirst(b, r, rule) => IsFirst(a \o b, r, rule)
           /\ Met(a, r) = {} /\ Met(b, r) = {} => Met(a \o b, r) = {}
<1> DEFINE s == a \o b
<1>1. /\ Len(s) = Len(a) + Len(b) /\ Len(a) \in Nat /\ Len(b) \in Nat
      /\ \A i \in 1..(Len(a) + Len(b)) : s[i] = IF i <= Len(a) THEN a[i] ELSE b[i - Len(a)]
  BY ConcatProperties, LenProperties
<1> HIDE DEF s
<1>2. \A i \in 1..Len(a) : i \in 1..Len(s) /\ s[i] = a[i]
  BY <1>1
<1>3. ASSUME NEW i \in 1..Len(b)
      PROVE  Len(a) + i \in 1..Len(s) /\ s[Len(a) + i] = b[i]
  <2>1. /\ Len(a) + i \in 1..(Len(a) + Len(b)) /\ ~(Len(a) + i <= Len(a))
        /\ (Len(a) + i) - Len(a) = i
    BY <1>1
  <2> QED BY <1>1, <2>1
<1>4. \A i \in 1..Len(s) :
          \/ i \in 1..Len(a) /\ s[i] = a[i]
          \/ i > Len(a) /\ i - Len(a) \in 1..Len(b) /\ s[i] = b[i - Len(a)]
  BY <1>1
<1>5. ASSUME NEW i \in Met(s, r)
      PROVE  i \in Met(a, r) \/ (i > Len(a) /\ i - Len(a) \in Met(b, r))
  <2>1. i \in 1..Len(s) /\ Intended(s[i], r)
    BY DEF Met
  <2> QED BY <1>4, <2>1 DEF Met
<1>6. ASSUME NEW rule, IsFirst(a, r, rule) PROVE IsFirst(s, r, rule)
  <2>1. PICK i \in Met(a, r) : a[i] = rule /\ \A j \in Met(a, r) : i <= j
    BY <1>6 DEF IsFirst
  <2>2. i \in 1..Len(a) /\ Intended(a[i], r)
    BY DEF Met
  <2>3. i \in Met(s, r) /\ s[i] = rule
    BY <1>2, <2>1, <2>2 DEF Met
  <2>4. ASSUME NEW j \in Met(s, r) PROVE i <= j
    <3>1. CASE j \in Met(a, r)
      BY <2>1, <3>1
    <3>2. CASE j > Len(a)
      <4>1. j \in Int
        BY DEF Met
      <4> QED BY <1>1, <2>2, <3>2, <4>1
    <3> QED BY <1>5, <3>1, <3>2
  <2> QED BY <2>3, <2>4 DEF IsFirst
<1>7. ASSUME NEW rule, Met(a, r) = {}, IsFirst(b, r, rule) PROVE IsFirst(s, r, rule)
  <2>1. PICK i \in Met(b, r) : b[i] = rule /\ \A j \in Met(b, r) : i <= j
    BY <1>7 DEF IsFirst
  <2>2. i \in 1..Len(b) /\ Intended(b[i], r)
    BY DEF Met
  <2> DEFINE k == Len(a) + i
  <2>3. k \in 1..Len(s) /\ s[k] = rule /\ s[k] = b[i]
    BY <1>3, <2>1, <2>2
  <2>4. ASSUME NEW j \in Met(s, r) PROVE k <= j
    <3>1. j \in Int /\ j - Len(a) \in Met(b, r)
      BY <1>5, <1>7 DEF Met
    <3>2. i <= j - Len(a)
      BY <2>1, <3>1
    <3> QED BY <1>1, <2>2, <3>1, <3>2
  <2> HIDE DEF k
  <2>5. k \in Met(s, r)
    BY <2>2, <2>3 DEF Met
  <2> QED BY <2>3, <2>4, <2>5 DEF IsFirst
<1>8. ASSUME Met(a, r) = {}, Met(b, r) = {} PROVE Met(s, r) = {}
  BY <1>5, <1>8
<1> QED BY <1>6, <1>7, <1>8 DEF s

\* What is first of the merged rules: of those of the user, or of the first pack that
\* has one.
FirstMerged(rules, user, names, n, r) ==
    /\ \A rule : IsFirst(user, r, rule) => IsFirst(rules, r, rule)
    /\ Met(user, r) = {} =>
           /\ \A k \in 1..n : \A rule :
                  /\ \A j \in 1..(k - 1) : Met(Packs[names[j]].rules, r) = {}
                  /\ IsFirst(Packs[names[k]].rules, r, rule)
                  => IsFirst(rules, r, rule)
           /\ (\A k \in 1..n : Met(Packs[names[k]].rules, r) = {}) => Met(rules, r) = {}

LEMMA MergeFirst ==
    ASSUME NEW user \in Seq(Rules), NEW names \in Seq(DOMAIN Packs), NEW merged,
           Merges(merged, user, names), NEW r
    PROVE  FirstMerged(merged[Len(names)], user, names, Len(names), r)
<1> DEFINE N == Len(names)
           P == {n \in 0..N : FirstMerged(merged[n], user, names, n, r)}
<1>1. N \in Nat /\ \A n \in 1..N : names[n] \in DOMAIN Packs
  BY LenProperties, ElementOfSeq
<1>2. 0 \in P
  <2>1. 0 \in 0..N /\ merged[0] = user
    BY <1>1 DEF Merges
  <2> QED BY <2>1 DEF FirstMerged
<1>3. ASSUME NEW m \in 0..(N - 1), m \in P PROVE m + 1 \in P
  <2> DEFINE n == m + 1
             old == merged[m]
             pack == Packs[names[n]].rules
             new == merged[n]
  <2>1. /\ n \in 1..N /\ n \in 0..N /\ m \in 0..N /\ n - 1 = m
        /\ \A k \in 1..n : k \in 1..m \/ k = n
        /\ \A k \in 1..m : k \in 1..n
        /\ n \in 1..n
    BY <1>1
  <2>2. new = IF Repeats(names, n) THEN old ELSE old \o pack
    BY <2>1 DEF Merges
  <2>3. FirstMerged(old, user, names, m, r)
    BY <1>3
  <2>4. old \in Seq(Rules) /\ pack \in Seq(Rules)
    BY <1>1, <2>1, PacksAssumption DEF Merges
  <2> HIDE DEF n, old, new, P
  <2>5. \A rule : IsFirst(old, r, rule) => IsFirst(new, r, rule)
    <3> HIDE DEF pack
    <3> QED BY <2>2, <2>4, FirstOf
  <2>6. ASSUME NEW rule, IsFirst(user, r, rule) PROVE IsFirst(new, r, rule)
    <3>1. IsFirst(old, r, rule)
      BY <2>3, <2>6 DEF FirstMerged
    <3> QED BY <2>5, <3>1
  <2>7. ASSUME Met(user, r) = {}, NEW k \in 1..n, NEW rule,
               \A j \in 1..(k - 1) : Met(Packs[names[j]].rules, r) = {},
               IsFirst(Packs[names[k]].rules, r, rule)
        PROVE  IsFirst(new, r, rule)
    <3>1. CASE k \in 1..m
      <4>1. IsFirst(old, r, rule)
        BY <2>3, <2>7, <3>1 DEF FirstMerged
      <4> QED BY <2>5, <4>1
    <3>2. CASE k = n
      <4>1. IsFirst(pack, r, rule)
        BY <2>7, <3>2
      <4>2. Met(pack, r) # {}
        BY <4>1 DEF IsFirst
      <4>3. ~Repeats(names, n)
        BY <2>7, <3>2, <4>2 DEF Repeats
      <4>4. \A j \in 1..m : Met(Packs[names[j]].rules, r) = {}
        BY <2>1, <2>7, <3>2
      <4>5. Met(old, r) = {}
        BY <2>3, <2>7, <4>4 DEF FirstMerged
      <4> HIDE DEF pack
      <4> QED BY <2>2, <2>4, <4>1, <4>3, <4>5, FirstOf
    <3> QED BY <2>1, <3>1, <3>2
  <2>8. ASSUME Met(user, r) = {}, \A k \in 1..n : Met(Packs[names[k]].rules, r) = {}
        PROVE  Met(new, r) = {}
    <3>1. Met(old, r) = {}
      BY <2>1, <2>3, <2>8 DEF FirstMerged
    <3>2. Met(pack, r) = {}
      BY <2>1, <2>8
    <3> HIDE DEF pack
    <3> QED BY <2>2, <2>4, <3>1, <3>2, FirstOf
  <2>9. FirstMerged(new, user, names, n, r)
    BY <2>6, <2>7, <2>8 DEF FirstMerged
  <2> QED BY <2>1, <2>9 DEF P, n, new
<1> HIDE DEF P
<1>4. Upward(P, 0, N)
  BY <1>2, <1>3 DEF Upward
<1>5. N \in P
  BY <1>1, <1>4, UpwardInduction
<1> QED BY <1>5 DEF P

\* The engine finds the first rule.
LEMMA MatchIs ==
    ASSUME NEW rules \in Seq(Rules), NEW r, r.path \in Seq(STRING)
    PROVE  /\ Met(rules, r) = {} => Match(rules, r) = <<>>
           /\ \A rule : IsFirst(rules, r, rule) => Match(rules, r) = <<rule>>
<1> DEFINE matching == {i \in 1..Len(rules) : Matches(rules[i], r)}
<1>1. \A i \in 1..Len(rules) : rules[i] \in Rules
  BY ElementOfSeq
<1>2. matching = Met(rules, r)
  BY <1>1, MatchesIntended DEF Met
<1>3. Match(rules, r) = IF matching = {} THEN <<>> ELSE <<rules[Min(matching)]>>
  BY Zenon DEF Match
<1> HIDE DEF matching
<1> QED BY <1>2, <1>3, FirstIs

LEMMA DecisionIs ==
    ASSUME NEW rule, NEW kind, NEW status, NEW type, NEW body, NEW header, NEW delayed, NEW d,
           d = [rule |-> rule, kind |-> kind, status |-> status, type |-> type, body |-> body,
                headerType |-> header, delayed |-> delayed]
    PROVE  "rule" \in DOMAIN d /\ d.rule = rule
  OBVIOUS

LEMMA OneIs == \A x : <<x>> # <<>> /\ <<x>>[1] = x
  OBVIOUS

\* A decision names the rule it comes from.
LEMMA SelectRule ==
    ASSUME NEW rules, NEW r, NEW c
    PROVE  /\ Match(rules, r) = <<>> => Select(rules, r, c).rule = ""
           /\ \A rule : Match(rules, r) = <<rule>> => Select(rules, r, c).rule = rule.name
<1> DEFINE generic == Generic(r, c)
           none == ""
<1>1. ASSUME NEW d, "rule" \in DOMAIN d
      PROVE  /\ WithoutForbiddenBody(d).rule = d.rule
             /\ DOMAIN WithoutForbiddenBody(d) = DOMAIN d
  <2>1. [d EXCEPT !.body = "", !.type = ""].rule = d.rule
    BY <1>1
  <2> QED BY <2>1 DEF WithoutForbiddenBody
<1>2. "rule" \in DOMAIN generic /\ generic.rule = none
  <2> DEFINE kind == SelectKind(r)
             asset == kind # "font" /\ (kind \in {"audio", "video"} => c.media = "asset")
             status == IF ~asset THEN 204 ELSE IF kind = "beacon" THEN c.beaconStatus
                       ELSE c.status
             type == IF asset THEN kind ELSE ""
             delayed == FALSE
             d == [rule |-> none, kind |-> kind, status |-> status, type |-> type,
                   body |-> type, headerType |-> none, delayed |-> delayed]
  <2>1. generic = WithoutForbiddenBody(d)
    BY Zenon DEF Generic
  <2> HIDE DEF none, kind, status, type, delayed, generic
  <2>2. "rule" \in DOMAIN d /\ d.rule = none
    BY DecisionIs
  <2> HIDE DEF d
  <2> QED BY <1>1, <2>1, <2>2
<1> HIDE DEF generic
<1>3. ApplyJSONP(r, generic, c).rule = none
  <2>1. [generic EXCEPT !.status = 200, !.type = "script", !.body = "jsonp"].rule = generic.rule
    BY <1>2
  <2> HIDE DEF none
  <2> QED BY <1>2, <2>1, Zenon DEF ApplyJSONP
<1>4. ASSUME NEW rule
      PROVE  WithoutForbiddenBody(
                 [rule |-> rule.name, kind |-> generic.kind,
                  status |-> IF rule.status # 0 THEN rule.status ELSE generic.status,
                  type |-> IF rule.type # "" THEN rule.type ELSE generic.type,
                  body |-> IF rule.body # "" THEN rule.body ELSE generic.body,
                  headerType |-> rule.headerType, delayed |-> rule.delayed]).rule = rule.name
  <2> DEFINE d ==
                 [rule |-> rule.name, kind |-> generic.kind,
                  status |-> IF rule.status # 0 THEN rule.status ELSE generic.status,
                  type |-> IF rule.type # "" THEN rule.type ELSE generic.type,
                  body |-> IF rule.body # "" THEN rule.body ELSE generic.body,
                  headerType |-> rule.headerType, delayed |-> rule.delayed]
  <2>1. "rule" \in DOMAIN d /\ d.rule = rule.name
    OBVIOUS
  <2> HIDE DEF d
  <2>2. WithoutForbiddenBody(d).rule = rule.name
    BY <1>1, <2>1
  <2> QED BY <2>2 DEF d
<1>5. ASSUME Match(rules, r) = <<>> PROVE Select(rules, r, c).rule = none
  <2>1. Select(rules, r, c) = ApplyJSONP(r, generic, c)
    BY <1>5, Zenon DEF Select, generic
  <2> QED BY <1>3, <2>1, Zenon
<1>6. ASSUME NEW rule, Match(rules, r) = <<rule>> PROVE Select(rules, r, c).rule = rule.name
  <2> DEFINE first == Match(rules, r)[1]
  <2>1. Match(rules, r) # <<>> /\ first = rule
    BY <1>6, OneIs, Zenon
  <2>2. Select(rules, r, c) = WithoutForbiddenBody(
            [rule |-> first.name, kind |-> generic.kind,
             status |-> IF first.status # 0 THEN first.status ELSE generic.status,
             type |-> IF first.type # "" THEN first.type ELSE generic.type,
             body |-> IF first.body # "" THEN first.body ELSE generic.body,
             headerType |-> first.headerType, delayed |-> first.delayed])
    BY <2>1, Zenon DEF Select, generic
  <2> HIDE DEF first
  <2>3. Select(rules, r, c).rule = first.name
    BY <1>4, <2>2, Zenon
  <2> QED BY <2>1, <2>3, Zenon
<1> QED BY <1>5, <1>6

LEMMA RuleNamed ==
    ASSUME NEW rules, NEW r, NEW c, NEW rule, Match(rules, r) = <<rule>>
    PROVE  Select(rules, r, c).rule = rule.name
<1>1. Match(rules, r) = <<rule>> => Select(rules, r, c).rule = rule.name
  BY SelectRule, Zenon
<1> QED BY <1>1

LEMMA FirstNow ==
    ASSUME IInv
    PROVE  FirstMatch
<1> DEFINE met(rules) == {i \in 1..Len(rules) : Intended(rules[i], req.r)}
           first(rules) == rules[Min(met(rules))].name
           own == req.conf.rules
           names == Names(req.conf.packs)
           packs == {n \in 1..Len(names) : met(Packs[names[n]].rules) # {}}
<1> SUFFICES ASSUME req # None, req.pc = "write"
             PROVE  req.decision.rule =
                        IF met(own) # {} THEN first(own)
                        ELSE IF packs # {} THEN first(Packs[names[Min(packs)]].rules)
                        ELSE ""
  BY Zenon DEF FirstMatch
<1> DEFINE merged == Merge(own, req.conf.packs)
<1>1. /\ own \in Seq(Rules) /\ req.conf.packs \in Seq(DOMAIN Packs)
      /\ req.r.path \in Seq(STRING)
      /\ req.decision = Select(merged, req.r, req.conf)
  BY ConfigurationsAssumption, RequestsAssumption DEF IInv, Answering
<1>2. names \in Seq(DOMAIN Packs) /\ Len(names) \in Nat
  BY <1>1, NamesIs, LenProperties
<1>3. PICK f : Merges(f, own, names) /\ merged = f[Len(names)]
  BY <1>1, MergeIs
<1>4. \A rules : met(rules) = Met(rules, req.r)
  BY Zenon DEF Met
<1>5. \A n \in 1..Len(names) : Packs[names[n]].rules \in Seq(Rules)
  BY <1>2, ElementOfSeq, PacksAssumption
<1> HIDE DEF own, names, merged, met
<1>6. FirstMerged(merged, own, names, Len(names), req.r)
  BY <1>1, <1>2, <1>3, MergeFirst
<1>7. merged \in Seq(Rules)
  <2>1. Len(names) \in 0..Len(names)
    BY <1>2
  <2> QED BY <1>3, <2>1 DEF Merges
<1>8. ASSUME NEW rule, IsFirst(merged, req.r, rule) PROVE req.decision.rule = rule.name
  <2>1. Match(merged, req.r) = <<rule>>
    BY <1>1, <1>7, <1>8, MatchIs
  <2>2. Select(merged, req.r, req.conf).rule = rule.name
    BY <2>1, RuleNamed
  <2>3. req.decision = Select(merged, req.r, req.conf)
    BY <1>1
  <2> QED BY <2>2, <2>3, Zenon
<1>9. CASE met(own) # {}
  <2>1. IsFirst(merged, req.r, own[Min(met(own))])
    BY <1>1, <1>4, <1>6, <1>9, FirstIs DEF FirstMerged
  <2>2. req.decision.rule = first(own)
    BY <1>8, <2>1
  <2> QED BY <1>9, <2>2, Zenon
<1>10. CASE met(own) = {} /\ packs # {}
  <2> DEFINE k == Min(packs)
             pack == Packs[names[k]].rules
  <2>1. packs \in SUBSET Nat
    BY <1>2
  <2>2. k \in packs /\ \A n \in packs : k <= n
    <3> HIDE DEF packs
    <3> QED BY <1>10, <2>1, MinIn
  <2> HIDE DEF k
  <2>3. k \in 1..Len(names) /\ Met(pack, req.r) # {} /\ pack \in Seq(Rules)
    BY <1>4, <1>5, <2>2
  <2>4. ASSUME NEW j \in 1..(k - 1) PROVE Met(Packs[names[j]].rules, req.r) = {}
    <3>1. j \in 1..Len(names) /\ ~(k <= j)
      BY <1>2, <2>3
    <3>2. j \notin packs
      BY <2>2, <3>1
    <3> QED BY <1>4, <3>1, <3>2
  <2>5. IsFirst(pack, req.r, pack[Min(met(pack))])
    <3> HIDE DEF pack
    <3> QED BY <1>4, <2>3, FirstIs
  <2>6. Met(own, req.r) = {}
    BY <1>4, <1>10
  <2>7. IsFirst(merged, req.r, pack[Min(met(pack))])
    BY <1>6, <2>3, <2>4, <2>5, <2>6 DEF FirstMerged
  <2>8. req.decision.rule = pack[Min(met(pack))].name
    <3> HIDE DEF pack
    <3> QED BY <1>8, <2>7
  <2> QED BY <1>10, <2>8, Zenon DEF k
<1>11. CASE met(own) = {} /\ packs = {}
  <2>1. Met(own, req.r) = {} /\ \A n \in 1..Len(names) : Met(Packs[names[n]].rules, req.r) = {}
    BY <1>4, <1>11
  <2>2. Met(merged, req.r) = {}
    BY <1>6, <2>1 DEF FirstMerged
  <2>3. Match(merged, req.r) = <<>>
    BY <1>1, <1>7, <2>2, MatchIs
  <2>4. Select(merged, req.r, req.conf).rule = ""
    BY <2>3, SelectRule, ZenonT(30)
  <2>5. req.decision = Select(merged, req.r, req.conf)
    BY <1>1
  <2> QED BY <1>11, <2>4, <2>5, Zenon
<1> QED BY <1>9, <1>10, <1>11, Zenon

\* The rule that answers is the first that the request meets as it is written: the
\* user's before those of the packs.
THEOREM FirstAnswers == Spec => []FirstMatch
  BY Invariant, FirstNow, PTL

=============================================================================
