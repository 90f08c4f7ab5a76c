----------------------------- MODULE LeafMinter -----------------------------
(***************************************************************************)
(* The two caches of certificates minted from the local CA: leafMinter     *)
(* (localca.go, the public HTTPS listeners) and adminLeafMinter            *)
(* (admincert.go, the admin HTTPS listener).  They are the same machine    *)
(* with another lifetime and another rule for what is still fresh, and     *)
(* only the first one has a gauge.                                         *)
(*                                                                         *)
(* Time is counted in ticks of the precision a certificate has.  The wall  *)
(* clock may also be set back, by MaxBack ticks over a run.                *)
(***************************************************************************)
EXTENDS Integers, Sequences, SequencesExt, FiniteSets

CONSTANTS
    Conns,     \* the handshakes that may run at the same time
    Names,     \* the normalised names, or admin keys, they ask for
    None,      \* no name, no leaf
    Capacity,  \* cache_size, adminLeafCacheSize
    Lifetime,  \* leaf_ttl, of the public minter
    AdminLifetime, \* adminLeafLifetime
    Minute,    \* the public minter renews a leaf this long before its end
    Backdate,  \* a leaf is valid from this long before it is minted
    CAEnd,     \* ca.NotAfter
    MaxTime,   \* bound: the clock
    MaxBack    \* bound: how far the clock is set back, all in all

Leaf == [notBefore : Int, notAfter : Int]

ASSUME NoneAssumption == None \notin Names \cup Conns \cup Leaf

\* config.Validate asks for a capacity of at least one and a leaf_ttl of at least a
\* minute, which may be less than the backdating.  The admin lifetime is a constant of
\* 397 days, and longer than the backdating of five minutes it is counted from.
ASSUME LifetimeAssumption ==
    /\ Capacity \in Nat \ {0}
    /\ Minute \in Nat \ {0} /\ Backdate \in Nat
    /\ Lifetime \in Nat /\ Lifetime >= Minute
    /\ AdminLifetime \in Nat /\ AdminLifetime > Backdate
    /\ CAEnd \in Int

ASSUME ClockAssumption == MaxTime \in Nat /\ MaxBack \in Nat

Minters == {"public", "admin"}

VARIABLES
    minter,   \* which of the two this is
    clock,    \* the wall clock
    back,     \* how far it has been set back so far
    mu,       \* the handshake that holds the mutex, or None
    entries,  \* the cached leaf of each name held
    lru,      \* the names held, the one served last first
    gauge,    \* sinkhole_tls_leaf_cache_entries
    call      \* the handshakes: [pc, name, now, leaf]

time == <<clock, back>>
cache == <<entries, lru>>
vars == <<minter, time, mu, cache, gauge, call>>

Idle == [pc |-> "idle", name |-> None, now |-> 0, leaf |-> None]

Init ==
    /\ minter \in Minters
    /\ clock = 0 /\ back = 0
    /\ mu = None
    /\ entries = <<>> /\ lru = <<>>
    /\ gauge = 0
    /\ call = [c \in Conns |-> Idle]

-----------------------------------------------------------------------------
(* Certificates *)

PublicEnd(now) == now + Lifetime

AdminEnd(now) == now - Backdate + AdminLifetime

\* The notAfter of a leaf minted now.
End(now) ==
    LET end == IF minter = "public" THEN PublicEnd(now) ELSE AdminEnd(now)
    IN  IF CAEnd < end THEN CAEnd ELSE end

\* mutant: a leaf is served to the end
PublicFreshToTheEnd(leaf, now) == now - Minute < leaf.notAfter

PublicFresh(leaf, now) == now + Minute < leaf.notAfter

\* a tenth of its lifetime, which a CA about to end has shortened
AdminFresh(leaf, now) ==
    10 * (leaf.notAfter - now) > leaf.notAfter - leaf.notBefore

Fresh(leaf, now) ==
    IF minter = "public" THEN PublicFresh(leaf, now) ELSE AdminFresh(leaf, now)

-----------------------------------------------------------------------------
(* The cache, under the mutex *)

Held(n) == n \in DOMAIN entries

\* mutant: a removed entry stays in the list
RemoveFromMap(n) ==
    /\ entries' = [m \in DOMAIN entries \ {n} |-> entries[m]]
    /\ lru' = lru
    /\ gauge' = IF minter = "public" THEN Cardinality(DOMAIN entries \ {n}) ELSE gauge

\* remove: out of the map and the list; the public minter sets its gauge.
RemoveEntry(n) ==
    /\ entries' = [m \in DOMAIN entries \ {n} |-> entries[m]]
    /\ \E i \in DOMAIN lru : lru[i] = n /\ lru' = RemoveAt(lru, i)
    /\ gauge' = IF minter = "public" THEN Cardinality(DOMAIN entries \ {n}) ELSE gauge

\* mutant: a hit does not move its name to the front
NotMoved(n) == lru' = lru

\* list.MoveToFront
MoveToFront(n) == \E i \in DOMAIN lru : lru[i] = n /\ lru' = <<n>> \o RemoveAt(lru, i)

-----------------------------------------------------------------------------
(* Handshakes *)

\* A hello whose name, or local address, passes normalisation; the others fail
\* before they reach the cache.
Hello(c, n) ==
    /\ call[c].pc = "idle"
    /\ call' = [call EXCEPT ![c] =
                   [pc |-> "locking", name |-> n, now |-> 0, leaf |-> None]]
    /\ UNCHANGED <<minter, time, mu, cache, gauge>>

\* certificateFor, a leaf that is fresh: moved to the front and returned.
Hit(c) ==
    /\ call[c].pc = "locking" /\ mu = None
    /\ Held(call[c].name) /\ Fresh(entries[call[c].name], clock)
    /\ MoveToFront(call[c].name)
    /\ call' = [call EXCEPT ![c] = [pc |-> "served", name |-> call[c].name,
                                    now |-> clock, leaf |-> entries[call[c].name]]]
    /\ UNCHANGED <<minter, time, mu, entries, gauge>>

\* certificateFor, no leaf or one about to end: it is removed and the mint starts.
Miss(c) ==
    /\ call[c].pc = "locking" /\ mu = None
    /\ \/ /\ ~Held(call[c].name)
          /\ UNCHANGED <<cache, gauge>>
       \/ /\ Held(call[c].name) /\ ~Fresh(entries[call[c].name], clock)
          /\ RemoveEntry(call[c].name)
    /\ mu' = c
    /\ call' = [call EXCEPT ![c] = [pc |-> "minting", name |-> call[c].name,
                                    now |-> clock, leaf |-> None]]
    /\ UNCHANGED <<minter, time>>

\* mutant: the error path keeps the mutex
FailLocked(c) ==
    /\ call[c].pc = "minting"
    /\ call' = [call EXCEPT ![c] = Idle]
    /\ UNCHANGED <<minter, time, mu, cache, gauge>>

\* mint returns an error: the CA has ended, or a call into crypto fails.
Fail(c) ==
    /\ call[c].pc = "minting"
    /\ mu' = None
    /\ call' = [call EXCEPT ![c] = Idle]
    /\ UNCHANGED <<minter, time, cache, gauge>>

Mint(c) ==
    LET leaf == [notBefore |-> call[c].now - Backdate, notAfter |-> End(call[c].now)]
        name == call[c].name
    IN  /\ call[c].pc = "minting"
        /\ leaf.notAfter > leaf.notBefore
        /\ entries' = [m \in DOMAIN entries \cup {name} |->
                          IF m = name THEN leaf ELSE entries[m]]
        /\ lru' = <<name>> \o lru
        /\ call' = [call EXCEPT ![c] = [pc |-> "evicting", name |-> name,
                                        now |-> call[c].now, leaf |-> leaf]]
        /\ UNCHANGED <<minter, time, mu, gauge>>

\* mutant: the limit is checked before the insertion is counted
EvictLate(c) ==
    /\ call[c].pc = "evicting"
    /\ \/ /\ Cardinality(DOMAIN entries) > Capacity + 1
          /\ RemoveEntry(Last(lru))
       \/ /\ Cardinality(DOMAIN entries) <= Capacity + 1
          /\ gauge' = IF minter = "public" THEN Cardinality(DOMAIN entries) ELSE gauge
          /\ UNCHANGED cache
    /\ mu' = None
    /\ call' = [call EXCEPT ![c].pc = "served"]
    /\ UNCHANGED <<minter, time>>

\* The rest of certificateFor: the last name of the list is removed if there are
\* too many, the gauge is set, the mutex released and the leaf returned.
Evict(c) ==
    /\ call[c].pc = "evicting"
    /\ \/ /\ Cardinality(DOMAIN entries) > Capacity
          /\ RemoveEntry(Last(lru))
       \/ /\ Cardinality(DOMAIN entries) <= Capacity
          /\ gauge' = IF minter = "public" THEN Cardinality(DOMAIN entries) ELSE gauge
          /\ UNCHANGED cache
    /\ mu' = None
    /\ call' = [call EXCEPT ![c].pc = "served"]
    /\ UNCHANGED <<minter, time>>

\* crypto/tls goes on with the leaf; the connection may come back.
Close(c) ==
    /\ call[c].pc = "served"
    /\ call' = [call EXCEPT ![c] = Idle]
    /\ UNCHANGED <<minter, time, mu, cache, gauge>>

\* The wall clock goes on, or is corrected.
Tick ==
    /\ clock < MaxTime
    /\ clock' = clock + 1
    /\ UNCHANGED <<minter, back, mu, cache, gauge, call>>

SetBack ==
    /\ back < MaxBack
    /\ clock' = clock - 1 /\ back' = back + 1
    /\ UNCHANGED <<minter, mu, cache, gauge, call>>

Locked(c) == Hit(c) \/ Miss(c)
Step(c) == Fail(c) \/ Mint(c) \/ Evict(c)

Next ==
    \/ \E c \in Conns : Locked(c) \/ Step(c) \/ Close(c) \/ \E n \in Names : Hello(c, n)
    \/ Tick
    \/ SetBack

Spec == Init /\ [][Next]_vars

\* A handshake goes on while the process runs.  sync.Mutex hands itself to a
\* goroutine that has waited for long, hence the strong fairness of Locked.
Fairness == \A c \in Conns : SF_vars(Locked(c)) /\ WF_vars(Step(c))

FairSpec == Spec /\ Fairness

-----------------------------------------------------------------------------
(* Properties *)

TypeOK ==
    /\ minter \in Minters
    /\ clock \in Int /\ back \in 0..MaxBack
    /\ mu \in Conns \cup {None}
    /\ DOMAIN entries \subseteq Names
    /\ entries \in [DOMAIN entries -> Leaf]
    /\ lru \in Seq(Names)
    /\ gauge \in 0..Capacity
    /\ call \in [Conns -> [pc : {"idle", "locking", "minting", "evicting", "served"},
                           name : Names \cup {None}, now : Int,
                           leaf : Leaf \cup {None}]]

\* Between the insertion of a leaf and the eviction that may follow it.
Inserting == mu # None /\ call[mu].pc = "evicting"

\* The map and the list hold the same names, each once, and one over the capacity
\* only while one is inserted; at any other time the gauge of the public minter,
\* read without the mutex, is their number.
Coherent ==
    /\ \A i, j \in DOMAIN lru : lru[i] = lru[j] => i = j
    /\ DOMAIN entries = {lru[i] : i \in DOMAIN lru}
    /\ Len(lru) <= Capacity + (IF Inserting THEN 1 ELSE 0)
    /\ minter = "public" /\ ~Inserting => gauge = Len(lru)

\* The leaf a handshake was given does not outlive the CA, and as long as the CA
\* had not ended it was valid when the cache was consulted: a leaf is never served
\* past its end, nor before its start if the clock went back by at most Backdate.
ServedValid ==
    \A c \in Conns : call[c].leaf # None =>
        LET leaf == call[c].leaf IN
        /\ leaf.notAfter <= CAEnd
        /\ back <= Backdate => leaf.notBefore <= call[c].now
        /\ call[c].now < CAEnd => call[c].now < leaf.notAfter

\* What else is true at every step, by which the above is proved: the mutex is held
\* from the miss to the end of the call, ...
Exclusive == \A c \in Conns :
    call[c].pc \in {"minting", "evicting"} <=> mu = c

\* ... what a call carries, ...
Carried == \A c \in Conns :
    /\ call[c].pc # "idle" <=> call[c].name # None
    /\ call[c].leaf # None <=> call[c].pc \in {"evicting", "served"}
    /\ call[c].pc = "minting" => /\ ~Held(call[c].name)
                                 /\ call[c].now <= clock + back

\* ... and what is known of a cached leaf, however long it has been there.
Cached == \A n \in DOMAIN entries :
    /\ entries[n].notBefore < entries[n].notAfter
    /\ entries[n].notAfter <= CAEnd
    /\ entries[n].notBefore + Backdate <= clock + back

IInv == TypeOK /\ Coherent /\ ServedValid /\ Exclusive /\ Carried /\ Cached

\* The cache is a least-recently-used cache of Capacity names: every handshake is
\* served a name that this moves to the front, or that gets its place in front.
\* What the insertion puts over the capacity has already left.
Recent == IF Len(lru) > Capacity THEN Front(lru) ELSE lru
Serving == [c \in Conns |-> IF call[c].leaf # None THEN call[c].name ELSE None]
Lru == INSTANCE LruCache WITH recent <- Recent, serving <- Serving
LruSpec == Lru!Spec

\* Every handshake is answered, whatever the others do and whether minting fails.
Answered == \A c \in Conns :
    call[c].pc = "locking" ~> call[c].pc \in {"served", "idle"}

=============================================================================
