--------------------------- MODULE RequestsProofs ---------------------------
(***************************************************************************)
(* What holds of Requests for every value of its constants.  IInv is       *)
(* inductive, one lemma per part, one step per action; what allow does to  *)
(* the buckets has lemmas of its own.                                      *)
(***************************************************************************)
EXTENDS Requests, FiniteSetTheorems, TLAPS

\* allow keeps the buckets buckets, and those of the limits in force so.
LEMMA AdmitKeeps ==
    ASSUME IInv, NEW h \in Handlers, Allow(h)
    PROVE  /\ DOMAIN buckets' \subseteq Clients
           /\ buckets' \in [DOMAIN buckets' -> Bucket]
           /\ BucketsFollow'
<1>1. req[h].client \in Clients
    BY DEF IInv, TypeOK, ClientKnown, Allow
<1>2. PICK now \in req[h].start..clock, kept \in SUBSET DOMAIN buckets :
        buckets' =
          [c \in kept \cup {req[h].client} |->
             IF c # req[h].client THEN buckets[c]
             ELSE [limit |-> IF c \in DOMAIN buckets THEN buckets[c].limit ELSE limit,
                   seen |-> now]]
    BY DEF Allow, Admit
<1>3. limit \in Rates /\ now \in Nat
    BY DEF Allow, IInv, TypeOK, Request, BucketsThere, LimitsMade
<1>4. DOMAIN buckets' = kept \cup {req[h].client}
    BY <1>2
<1>5. \A c \in DOMAIN buckets' : buckets'[c] \in Bucket
    <2>1. TAKE c \in DOMAIN buckets'
    <2>2. CASE c # req[h].client
        BY <1>2, <1>4, <2>2 DEF IInv, TypeOK
    <2>3. CASE c = req[h].client
        <3>1. buckets'[c].limit = (IF c \in DOMAIN buckets THEN buckets[c].limit ELSE limit)
            BY <1>2, <1>4, <2>3
        <3>2. (IF c \in DOMAIN buckets THEN buckets[c].limit ELSE limit) \in Rates
            BY <1>3 DEF IInv, TypeOK, Bucket
        <3>3. QED
            BY <1>2, <1>3, <1>4, <2>3, <3>2 DEF IInv, TypeOK, Bucket
    <2>4. QED
        BY <2>2, <2>3
<1>6. BucketsFollow'
    <2>1. UNCHANGED <<enabled, limit>>
        BY DEF Allow
    <2>2. SUFFICES ASSUME enabled, NEW c \in DOMAIN buckets'
                   PROVE  buckets'[c].limit = limit
        BY <2>1 DEF BucketsFollow
    <2>3. c \in DOMAIN buckets => buckets[c].limit = limit
        BY <2>2 DEF IInv, BucketsFollow
    <2>4. QED
        BY <1>2, <1>4, <2>2, <2>3
<1>7. DOMAIN buckets' \subseteq Clients
    BY <1>1, <1>4 DEF IInv, TypeOK
<1>8. buckets' = [c \in DOMAIN buckets' |-> buckets'[c]]
    BY <1>2, <1>4
<1>9. QED
    BY <1>5, <1>6, <1>7, <1>8

\* At the limit allow evicts at least one bucket for the one it adds.
LEMMA AdmitBounded ==
    ASSUME IInv, NEW h \in Handlers, Allow(h)
    PROVE  BucketsFinite'
<1> DEFINE D == DOMAIN buckets
           client == req[h].client
<1>1. PICK now \in req[h].start..clock, kept \in SUBSET D :
        /\ IF client \notin D /\ Cardinality(D) >= MaxClients THEN Evict(kept, now) ELSE kept = D
        /\ DOMAIN buckets' = kept \cup {client}
    BY DEF Allow, Admit
<1>2. IsFiniteSet(D) /\ Cardinality(D) \in Nat /\ Cardinality(D) <= MaxClients
    BY FS_CardinalityType DEF IInv, BucketsFinite, ClientsBounded
<1>3. /\ IsFiniteSet(kept) /\ Cardinality(kept) \in Nat /\ Cardinality(kept) <= Cardinality(D)
      /\ kept # D => Cardinality(kept) < Cardinality(D)
    BY <1>1, <1>2, FS_Subset, FS_CardinalityType
<1>4. /\ IsFiniteSet(DOMAIN buckets')
      /\ Cardinality(DOMAIN buckets') =
            IF client \in kept THEN Cardinality(kept) ELSE Cardinality(kept) + 1
    BY <1>1, <1>3, FS_AddElement
<1>5. CASE client \notin D /\ Cardinality(D) >= MaxClients
    <2>1. PICK sample \in SUBSET D :
            LET stale == {c \in sample : Stale(c, now)} IN
            /\ Cardinality(sample) = IF Cardinality(D) < Batch THEN Cardinality(D) ELSE Batch
            /\ kept = D \ (IF stale # {} THEN stale ELSE sample)
        BY <1>1, <1>5 DEF Evict
    <2>2. sample # {}
        <3>1. Cardinality(sample) # 0
            BY <1>2, <1>5, <2>1, SizesAssumption
        <3>2. QED
            BY <3>1, FS_EmptySet
    <2>3. kept # D
        <3>1. CASE {c \in sample : Stale(c, now)} # {}
            BY <2>1, <3>1
        <3>2. CASE {c \in sample : Stale(c, now)} = {}
            BY <2>1, <2>2, <3>2
        <3>3. QED
            BY <3>1, <3>2
    <2>4. QED
        BY <1>2, <1>3, <1>4, <2>3, SizesAssumption DEF BucketsFinite, ClientsBounded
<1>6. CASE ~(client \notin D /\ Cardinality(D) >= MaxClients)
    <2>1. kept = D
        BY <1>1, <1>6
    <2>2. CASE client \in D
        BY <1>2, <1>4, <2>1, <2>2 DEF BucketsFinite, ClientsBounded
    <2>3. CASE client \notin D
        BY <1>2, <1>4, <1>6, <2>1, <2>3, SizesAssumption DEF BucketsFinite, ClientsBounded
    <2>4. QED
        BY <2>2, <2>3
<1>7. QED
    BY <1>5, <1>6

\* Every step keeps the types.
LEMMA TypeStep ==
    ASSUME IInv, [Next]_vars
    PROVE  TypeOK'
<1>1. ASSUME NEW l \in Rates \cup {Off}, SwapBegin(l) PROVE TypeOK'
    BY <1>1, RatesAssumption DEF SwapBegin, IInv, TypeOK, Request, Steps,
       Bucket, LimitsMade, BucketsThere, limiters, swapping, requests
<1>2. ASSUME SwapLimits PROVE TypeOK'
    <2>1. CASE swap.limit # Off /\ ~(enabled /\ limit = swap.limit)
        <3>1. buckets' = [c \in DOMAIN buckets |-> [buckets[c] EXCEPT !.limit = swap.limit]]
            BY <1>2, <2>1 DEF SwapLimits, UpdateLimits
        <3>2. swap.limit \in Rates /\ limit' = swap.limit
            BY <1>2, <2>1 DEF SwapLimits, UpdateLimits, IInv, TypeOK
        <3>3. DOMAIN buckets' \subseteq Clients /\ buckets' \in [DOMAIN buckets' -> Bucket]
            BY <3>1, <3>2 DEF IInv, TypeOK, Bucket
        <3>4. enabled' \in BOOLEAN /\ made' \in BOOLEAN
            BY <1>2, <2>1 DEF SwapLimits, UpdateLimits
        <3>5. QED
            BY <1>2, <3>2, <3>3, <3>4 DEF SwapLimits, IInv, TypeOK, requests
    <2>2. CASE ~(swap.limit # Off /\ ~(enabled /\ limit = swap.limit))
        <3>1. UNCHANGED <<limit, made, buckets>>
            BY <1>2, <2>2 DEF SwapLimits, UpdateLimits
        <3>2. enabled' \in BOOLEAN
            BY <1>2, <2>2 DEF SwapLimits, UpdateLimits, IInv, TypeOK
        <3>3. QED
            BY <1>2, <3>1, <3>2 DEF SwapLimits, IInv, TypeOK, requests
    <2>3. QED
        BY <2>1, <2>2
<1>3. ASSUME SwapState PROVE TypeOK'
    BY <1>3, RatesAssumption DEF SwapState, IInv, TypeOK, Request, Steps,
       Bucket, LimitsMade, BucketsThere, limiters, swapping, requests
<1>4. ASSUME SwapGauge PROVE TypeOK'
    BY <1>4, RatesAssumption DEF SwapGauge, IInv, TypeOK, Request, Steps,
       Bucket, LimitsMade, BucketsThere, limiters, swapping, requests
<1>5. ASSUME Tick PROVE TypeOK'
    BY <1>5, RatesAssumption DEF Tick, IInv, TypeOK, Request, Steps,
       Bucket, LimitsMade, BucketsThere, limiters, swapping, requests
<1>6. ASSUME NEW h \in Handlers, NEW c \in Clients, Arrive(h, c) PROVE TypeOK'
    BY <1>6, RatesAssumption DEF Arrive, IInv, TypeOK, Request, Steps,
       Bucket, LimitsMade, BucketsThere, limiters, swapping, requests
<1>7. ASSUME NEW h \in Handlers, CheckEnabled(h) PROVE TypeOK'
    <2>1. PICK pc \in {"allow", "method"} :
            req' = [req EXCEPT ![h] =
                      [pc |-> pc, client |-> req[h].client,
                       start |-> req[h].start, version |-> req[h].version,
                       judged |-> limitsOf, uses |-> req[h].uses]]
        <3>1. CASE enabled
            BY <1>7, <3>1 DEF CheckEnabled, GoesJudged, With,
               IInv, TypeOK, Request
        <3>2. CASE ~enabled
            BY <1>7, <3>2 DEF CheckEnabled, GoesJudged, With,
               IInv, TypeOK, Request
        <3>3. QED
            BY <3>1, <3>2
    <2>2. req' \in [Handlers -> Request]
        BY <2>1 DEF IInv, TypeOK, Request, Steps
    <2>3. UNCHANGED <<limiters, swapping, counted, arrived, clock>>
        BY <1>7 DEF CheckEnabled, GoesJudged, With, Unchanged
    <2>4. QED
        BY <2>2, <2>3 DEF IInv, TypeOK, limiters, swapping
<1>8. ASSUME NEW h \in Handlers, Allow(h) PROVE TypeOK'
    <2>1. PICK pc \in {"method", "observe"} :
            req' = [req EXCEPT ![h] =
                      [pc |-> pc, client |-> req[h].client,
                       start |-> req[h].start, version |-> req[h].version,
                       judged |-> limitsOf, uses |-> req[h].uses]]
        BY <1>8 DEF Allow, GoesJudged, With, IInv, TypeOK, Request
    <2>2. req' \in [Handlers -> Request]
        BY <2>1 DEF IInv, TypeOK, Request, Steps
    <2>3. UNCHANGED <<enabled, limit, made, limitsOf, swapping, counted, arrived, clock>>
        BY <1>8 DEF Allow, GoesJudged, With, Unchanged
    <2>4. DOMAIN buckets' \subseteq Clients /\ buckets' \in [DOMAIN buckets' -> Bucket]
        BY <1>8, AdmitKeeps
    <2>5. QED
        BY <2>2, <2>3, <2>4 DEF IInv, TypeOK, swapping
<1>9. ASSUME NEW h \in Handlers, Method(h) PROVE TypeOK'
    <2>1. PICK pc \in {"body", "observe"} :
            req' = [req EXCEPT ![h] =
                      [pc |-> pc, client |-> req[h].client,
                       start |-> req[h].start, version |-> req[h].version,
                       judged |-> req[h].judged, uses |-> req[h].uses]]
        BY <1>9 DEF Method, Goes, IInv, TypeOK, Request
    <2>2. req' \in [Handlers -> Request]
        BY <2>1 DEF IInv, TypeOK, Request, Steps
    <2>3. UNCHANGED <<limiters, swapping, counted, arrived, clock>>
        BY <1>9 DEF Method, Unchanged, IInv, TypeOK
    <2>4. QED
        BY <2>2, <2>3 DEF IInv, TypeOK, limiters, swapping
<1>10. ASSUME NEW h \in Handlers, Body(h) PROVE TypeOK'
    BY <1>10, RatesAssumption DEF Body, Goes, GoesUsing, With, Unchanged,
       IInv, TypeOK, Request, Steps, Bucket, LimitsMade, BucketsThere,
       limiters, swapping, requests
<1>11. ASSUME NEW h \in Handlers, Select(h) PROVE TypeOK'
    <2>1. req' = [req EXCEPT ![h] =
                      [pc |-> "write", client |-> req[h].client,
                       start |-> req[h].start, version |-> req[h].version,
                       judged |-> req[h].judged, uses |-> req[h].uses \cup {req[h].version}]]
        BY <1>11 DEF Select, GoesUsing, With, IInv, TypeOK, Request
    <2>2. req' \in [Handlers -> Request]
        BY <2>1 DEF IInv, TypeOK, Request, Steps
    <2>3. UNCHANGED <<limiters, swapping, counted, arrived, clock>>
        BY <1>11 DEF Select, GoesJudged, With, Unchanged
    <2>4. QED
        BY <2>2, <2>3 DEF IInv, TypeOK, limiters, swapping
<1>12. ASSUME NEW h \in Handlers, Write(h) PROVE TypeOK'
    <2>1. req' = [req EXCEPT ![h] =
                      [pc |-> "observe", client |-> req[h].client,
                       start |-> req[h].start, version |-> req[h].version,
                       judged |-> req[h].judged, uses |-> req[h].uses \cup {req[h].version}]]
        BY <1>12 DEF Write, GoesUsing, With, IInv, TypeOK, Request
    <2>2. req' \in [Handlers -> Request]
        BY <2>1 DEF IInv, TypeOK, Request, Steps
    <2>3. UNCHANGED <<limiters, swapping, counted, arrived, clock>>
        BY <1>12 DEF Write, GoesJudged, With, Unchanged
    <2>4. QED
        BY <2>2, <2>3 DEF IInv, TypeOK, limiters, swapping
<1>13. ASSUME NEW h \in Handlers, Panic(h) PROVE TypeOK'
    BY <1>13, RatesAssumption DEF Panic, Goes, Unchanged, IInv, TypeOK,
       Request, Steps, Bucket, LimitsMade, BucketsThere, limiters,
       swapping, requests
<1>14. ASSUME NEW h \in Handlers, Observe(h) PROVE TypeOK'
    <2>1. req' = [req EXCEPT ![h] =
                      [pc |-> "log", client |-> req[h].client,
                       start |-> req[h].start, version |-> req[h].version,
                       judged |-> req[h].judged, uses |-> req[h].uses]]
        <3>1. req' = [req EXCEPT ![h].pc = "log"]
            BY <1>14 DEF Observe, Goes
        <3>2. req[h] \in Request /\ req \in [Handlers -> Request]
            BY DEF IInv, TypeOK
        <3>3. [req[h] EXCEPT !.pc = "log"] = [pc |-> "log", client |-> req[h].client,
                 start |-> req[h].start, version |-> req[h].version,
                 judged |-> req[h].judged, uses |-> req[h].uses]
            BY <3>2 DEF Request
        <3>4. req' = [req EXCEPT ![h] = [req[h] EXCEPT !.pc = "log"]]
            BY <3>1, Zenon
        <3>5. QED
            BY <3>3, <3>4, Zenon
    <2>2. req' \in [Handlers -> Request]
        BY <2>1 DEF IInv, TypeOK, Request, Steps
    <2>3. UNCHANGED <<limiters, swapping, arrived, clock>> /\ counted' \in Nat
        BY <1>14 DEF Observe, Unchanged, IInv, TypeOK
    <2>4. QED
        BY <2>2, <2>3 DEF IInv, TypeOK, limiters, swapping
<1>15. ASSUME NEW h \in Handlers, Log(h) PROVE TypeOK'
    BY <1>15, RatesAssumption DEF Log, Idle, Unchanged, IInv, TypeOK,
       Request, Steps, Bucket, LimitsMade, BucketsThere, limiters,
       swapping, requests
<1>16. CASE UNCHANGED vars
    BY <1>16 DEF IInv, TypeOK, Request, Steps, Bucket, LimitsMade,
       BucketsThere, limiters, swapping, requests, vars
<1>17. QED
    BY <1>1, <1>2, <1>3, <1>4, <1>5, <1>6, <1>7, <1>8, <1>9, <1>10, <1>11,
       <1>12, <1>13, <1>14, <1>15, <1>16 DEF Next, Swap, Serve

\* A request in flight is some client's.
LEMMA ClientStep ==
    ASSUME IInv, [Next]_vars
    PROVE  ClientKnown'
<1>1. ASSUME NEW l \in Rates \cup {Off}, SwapBegin(l) PROVE ClientKnown'
    BY <1>1, RatesAssumption DEF SwapBegin, IInv, TypeOK, Request,
       ClientKnown, limiters, swapping, requests
<1>2. ASSUME SwapLimits PROVE ClientKnown'
    BY <1>2, RatesAssumption DEF SwapLimits, UpdateLimits, IInv, TypeOK,
       Request, ClientKnown, limiters, swapping, requests
<1>3. ASSUME SwapState PROVE ClientKnown'
    BY <1>3, RatesAssumption DEF SwapState, IInv, TypeOK, Request,
       ClientKnown, limiters, swapping, requests
<1>4. ASSUME SwapGauge PROVE ClientKnown'
    BY <1>4, RatesAssumption DEF SwapGauge, IInv, TypeOK, Request,
       ClientKnown, limiters, swapping, requests
<1>5. ASSUME Tick PROVE ClientKnown'
    BY <1>5, RatesAssumption DEF Tick, IInv, TypeOK, Request, ClientKnown,
       limiters, swapping, requests
<1>6. ASSUME NEW h \in Handlers, NEW c \in Clients, Arrive(h, c) PROVE ClientKnown'
    BY <1>6, RatesAssumption DEF Arrive, IInv, TypeOK, Request,
       ClientKnown, limiters, swapping, requests
<1>7. ASSUME NEW h \in Handlers, CheckEnabled(h) PROVE ClientKnown'
    BY <1>7, RatesAssumption DEF CheckEnabled, GoesJudged, With, IInv,
       TypeOK, Request, ClientKnown, limiters, swapping, requests
<1>8. ASSUME NEW h \in Handlers, Allow(h) PROVE ClientKnown'
    BY <1>8, RatesAssumption DEF Allow, GoesJudged, With, IInv, TypeOK,
       Request, ClientKnown, limiters, swapping, requests
<1>9. ASSUME NEW h \in Handlers, Method(h) PROVE ClientKnown'
    BY <1>9, RatesAssumption DEF Method, Goes, Unchanged, IInv, TypeOK,
       Request, ClientKnown, limiters, swapping, requests
<1>10. ASSUME NEW h \in Handlers, Body(h) PROVE ClientKnown'
    BY <1>10, RatesAssumption DEF Body, Goes, GoesUsing, With, Unchanged,
       IInv, TypeOK, Request, ClientKnown, limiters, swapping, requests
<1>11. ASSUME NEW h \in Handlers, Select(h) PROVE ClientKnown'
    BY <1>11, RatesAssumption DEF Select, GoesUsing, With, Unchanged,
       IInv, TypeOK, Request, ClientKnown, limiters, swapping, requests
<1>12. ASSUME NEW h \in Handlers, Write(h) PROVE ClientKnown'
    BY <1>12, RatesAssumption DEF Write, GoesUsing, With, Unchanged, IInv,
       TypeOK, Request, ClientKnown, limiters, swapping, requests
<1>13. ASSUME NEW h \in Handlers, Panic(h) PROVE ClientKnown'
    BY <1>13, RatesAssumption DEF Panic, Goes, Unchanged, IInv, TypeOK,
       Request, ClientKnown, limiters, swapping, requests
<1>14. ASSUME NEW h \in Handlers, Observe(h) PROVE ClientKnown'
    BY <1>14, RatesAssumption DEF Observe, Goes, IInv, TypeOK, Request,
       ClientKnown, limiters, swapping, requests
<1>15. ASSUME NEW h \in Handlers, Log(h) PROVE ClientKnown'
    BY <1>15, RatesAssumption DEF Log, Idle, Unchanged, IInv, TypeOK,
       Request, ClientKnown, limiters, swapping, requests
<1>16. CASE UNCHANGED vars
    BY <1>16 DEF IInv, TypeOK, Request, ClientKnown, limiters, swapping,
       requests, vars
<1>17. QED
    BY <1>1, <1>2, <1>3, <1>4, <1>5, <1>6, <1>7, <1>8, <1>9, <1>10, <1>11,
       <1>12, <1>13, <1>14, <1>15, <1>16 DEF Next, Swap, Serve

\* The map is made when limiting is first switched on, and stays.
LEMMA LimitsStep ==
    ASSUME IInv, [Next]_vars
    PROVE  LimitsMade'
<1>1. ASSUME NEW l \in Rates \cup {Off}, SwapBegin(l) PROVE LimitsMade'
    BY <1>1, RatesAssumption DEF SwapBegin, IInv, TypeOK, Request,
       LimitsMade, limiters, swapping, requests
<1>2. ASSUME SwapLimits PROVE LimitsMade'
    BY <1>2, RatesAssumption DEF SwapLimits, UpdateLimits, IInv, TypeOK,
       Request, LimitsMade, limiters, swapping, requests
<1>3. ASSUME SwapState PROVE LimitsMade'
    BY <1>3, RatesAssumption DEF SwapState, IInv, TypeOK, Request,
       LimitsMade, limiters, swapping, requests
<1>4. ASSUME SwapGauge PROVE LimitsMade'
    BY <1>4, RatesAssumption DEF SwapGauge, IInv, TypeOK, Request,
       LimitsMade, limiters, swapping, requests
<1>5. ASSUME Tick PROVE LimitsMade'
    BY <1>5, RatesAssumption DEF Tick, IInv, TypeOK, Request, LimitsMade,
       limiters, swapping, requests
<1>6. ASSUME NEW h \in Handlers, NEW c \in Clients, Arrive(h, c) PROVE LimitsMade'
    BY <1>6, RatesAssumption DEF Arrive, IInv, TypeOK, Request,
       LimitsMade, limiters, swapping, requests
<1>7. ASSUME NEW h \in Handlers, CheckEnabled(h) PROVE LimitsMade'
    BY <1>7, RatesAssumption DEF CheckEnabled, GoesJudged, With, IInv,
       TypeOK, Request, LimitsMade, limiters, swapping, requests
<1>8. ASSUME NEW h \in Handlers, Allow(h) PROVE LimitsMade'
    BY <1>8, RatesAssumption DEF Allow, GoesJudged, With, IInv, TypeOK,
       Request, LimitsMade, limiters, swapping, requests
<1>9. ASSUME NEW h \in Handlers, Method(h) PROVE LimitsMade'
    BY <1>9, RatesAssumption DEF Method, Goes, Unchanged, IInv, TypeOK,
       Request, LimitsMade, limiters, swapping, requests
<1>10. ASSUME NEW h \in Handlers, Body(h) PROVE LimitsMade'
    BY <1>10, RatesAssumption DEF Body, Goes, GoesUsing, With, Unchanged,
       IInv, TypeOK, Request, LimitsMade, limiters, swapping, requests
<1>11. ASSUME NEW h \in Handlers, Select(h) PROVE LimitsMade'
    BY <1>11, RatesAssumption DEF Select, GoesUsing, With, Unchanged,
       IInv, TypeOK, Request, LimitsMade, limiters, swapping, requests
<1>12. ASSUME NEW h \in Handlers, Write(h) PROVE LimitsMade'
    BY <1>12, RatesAssumption DEF Write, GoesUsing, With, Unchanged, IInv,
       TypeOK, Request, LimitsMade, limiters, swapping, requests
<1>13. ASSUME NEW h \in Handlers, Panic(h) PROVE LimitsMade'
    BY <1>13, RatesAssumption DEF Panic, Goes, Unchanged, IInv, TypeOK,
       Request, LimitsMade, limiters, swapping, requests
<1>14. ASSUME NEW h \in Handlers, Observe(h) PROVE LimitsMade'
    BY <1>14, RatesAssumption DEF Observe, Goes, IInv, TypeOK, Request,
       LimitsMade, limiters, swapping, requests
<1>15. ASSUME NEW h \in Handlers, Log(h) PROVE LimitsMade'
    BY <1>15, RatesAssumption DEF Log, Idle, Unchanged, IInv, TypeOK,
       Request, LimitsMade, limiters, swapping, requests
<1>16. CASE UNCHANGED vars
    BY <1>16 DEF IInv, TypeOK, Request, LimitsMade, limiters, swapping,
       requests, vars
<1>17. QED
    BY <1>1, <1>2, <1>3, <1>4, <1>5, <1>6, <1>7, <1>8, <1>9, <1>10, <1>11,
       <1>12, <1>13, <1>14, <1>15, <1>16 DEF Next, Swap, Serve

\* The limits go first, the pointer follows.
LEMMA VersionsStep ==
    ASSUME IInv, [Next]_vars
    PROVE  VersionsInOrder'
<1>1. ASSUME NEW l \in Rates \cup {Off}, SwapBegin(l) PROVE VersionsInOrder'
    BY <1>1, RatesAssumption DEF SwapBegin, IInv, TypeOK, Request,
       VersionsInOrder, limiters, swapping, requests
<1>2. ASSUME SwapLimits PROVE VersionsInOrder'
    BY <1>2, RatesAssumption DEF SwapLimits, UpdateLimits, IInv, TypeOK,
       Request, VersionsInOrder, limiters, swapping, requests
<1>3. ASSUME SwapState PROVE VersionsInOrder'
    BY <1>3, RatesAssumption DEF SwapState, IInv, TypeOK, Request,
       VersionsInOrder, limiters, swapping, requests
<1>4. ASSUME SwapGauge PROVE VersionsInOrder'
    BY <1>4, RatesAssumption DEF SwapGauge, IInv, TypeOK, Request,
       VersionsInOrder, limiters, swapping, requests
<1>5. ASSUME Tick PROVE VersionsInOrder'
    BY <1>5, RatesAssumption DEF Tick, IInv, TypeOK, Request,
       VersionsInOrder, limiters, swapping, requests
<1>6. ASSUME NEW h \in Handlers, NEW c \in Clients, Arrive(h, c) PROVE VersionsInOrder'
    BY <1>6, RatesAssumption DEF Arrive, IInv, TypeOK, Request,
       VersionsInOrder, limiters, swapping, requests
<1>7. ASSUME NEW h \in Handlers, CheckEnabled(h) PROVE VersionsInOrder'
    BY <1>7, RatesAssumption DEF CheckEnabled, GoesJudged, With, IInv,
       TypeOK, Request, VersionsInOrder, limiters, swapping, requests
<1>8. ASSUME NEW h \in Handlers, Allow(h) PROVE VersionsInOrder'
    BY <1>8, RatesAssumption DEF Allow, GoesJudged, With, IInv, TypeOK,
       Request, VersionsInOrder, limiters, swapping, requests
<1>9. ASSUME NEW h \in Handlers, Method(h) PROVE VersionsInOrder'
    BY <1>9, RatesAssumption DEF Method, Goes, Unchanged, IInv, TypeOK,
       Request, VersionsInOrder, limiters, swapping, requests
<1>10. ASSUME NEW h \in Handlers, Body(h) PROVE VersionsInOrder'
    BY <1>10, RatesAssumption DEF Body, Goes, GoesUsing, With, Unchanged,
       IInv, TypeOK, Request, VersionsInOrder, limiters, swapping,
       requests
<1>11. ASSUME NEW h \in Handlers, Select(h) PROVE VersionsInOrder'
    BY <1>11, RatesAssumption DEF Select, GoesUsing, With, Unchanged,
       IInv, TypeOK, Request, VersionsInOrder, limiters, swapping,
       requests
<1>12. ASSUME NEW h \in Handlers, Write(h) PROVE VersionsInOrder'
    BY <1>12, RatesAssumption DEF Write, GoesUsing, With, Unchanged, IInv,
       TypeOK, Request, VersionsInOrder, limiters, swapping, requests
<1>13. ASSUME NEW h \in Handlers, Panic(h) PROVE VersionsInOrder'
    BY <1>13, RatesAssumption DEF Panic, Goes, Unchanged, IInv, TypeOK,
       Request, VersionsInOrder, limiters, swapping, requests
<1>14. ASSUME NEW h \in Handlers, Observe(h) PROVE VersionsInOrder'
    BY <1>14, RatesAssumption DEF Observe, Goes, IInv, TypeOK, Request,
       VersionsInOrder, limiters, swapping, requests
<1>15. ASSUME NEW h \in Handlers, Log(h) PROVE VersionsInOrder'
    BY <1>15, RatesAssumption DEF Log, Idle, Unchanged, IInv, TypeOK,
       Request, VersionsInOrder, limiters, swapping, requests
<1>16. CASE UNCHANGED vars
    BY <1>16 DEF IInv, TypeOK, Request, VersionsInOrder, limiters,
       swapping, requests, vars
<1>17. QED
    BY <1>1, <1>2, <1>3, <1>4, <1>5, <1>6, <1>7, <1>8, <1>9, <1>10, <1>11,
       <1>12, <1>13, <1>14, <1>15, <1>16 DEF Next, Swap, Serve

\* A request uses what it loaded when it arrived.
LEMMA UsesStep ==
    ASSUME IInv, [Next]_vars
    PROVE  UsesOwn'
<1>1. ASSUME NEW l \in Rates \cup {Off}, SwapBegin(l) PROVE UsesOwn'
    BY <1>1, RatesAssumption DEF SwapBegin, IInv, TypeOK, Request,
       UsesOwn, limiters, swapping, requests
<1>2. ASSUME SwapLimits PROVE UsesOwn'
    BY <1>2, RatesAssumption DEF SwapLimits, UpdateLimits, IInv, TypeOK,
       Request, UsesOwn, limiters, swapping, requests
<1>3. ASSUME SwapState PROVE UsesOwn'
    BY <1>3, RatesAssumption DEF SwapState, IInv, TypeOK, Request,
       UsesOwn, limiters, swapping, requests
<1>4. ASSUME SwapGauge PROVE UsesOwn'
    BY <1>4, RatesAssumption DEF SwapGauge, IInv, TypeOK, Request,
       UsesOwn, limiters, swapping, requests
<1>5. ASSUME Tick PROVE UsesOwn'
    BY <1>5, RatesAssumption DEF Tick, IInv, TypeOK, Request, UsesOwn,
       limiters, swapping, requests
<1>6. ASSUME NEW h \in Handlers, NEW c \in Clients, Arrive(h, c) PROVE UsesOwn'
    BY <1>6, RatesAssumption DEF Arrive, IInv, TypeOK, Request, UsesOwn,
       limiters, swapping, requests
<1>7. ASSUME NEW h \in Handlers, CheckEnabled(h) PROVE UsesOwn'
    BY <1>7, RatesAssumption DEF CheckEnabled, GoesJudged, With, IInv,
       TypeOK, Request, UsesOwn, limiters, swapping, requests
<1>8. ASSUME NEW h \in Handlers, Allow(h) PROVE UsesOwn'
    BY <1>8, RatesAssumption DEF Allow, GoesJudged, With, IInv, TypeOK,
       Request, UsesOwn, limiters, swapping, requests
<1>9. ASSUME NEW h \in Handlers, Method(h) PROVE UsesOwn'
    BY <1>9, RatesAssumption DEF Method, Goes, Unchanged, IInv, TypeOK,
       Request, UsesOwn, limiters, swapping, requests
<1>10. ASSUME NEW h \in Handlers, Body(h) PROVE UsesOwn'
    BY <1>10, RatesAssumption DEF Body, Goes, GoesUsing, With, Unchanged,
       IInv, TypeOK, Request, UsesOwn, limiters, swapping, requests
<1>11. ASSUME NEW h \in Handlers, Select(h) PROVE UsesOwn'
    BY <1>11, RatesAssumption DEF Select, GoesUsing, With, Unchanged,
       IInv, TypeOK, Request, UsesOwn, limiters, swapping, requests
<1>12. ASSUME NEW h \in Handlers, Write(h) PROVE UsesOwn'
    BY <1>12, RatesAssumption DEF Write, GoesUsing, With, Unchanged, IInv,
       TypeOK, Request, UsesOwn, limiters, swapping, requests
<1>13. ASSUME NEW h \in Handlers, Panic(h) PROVE UsesOwn'
    BY <1>13, RatesAssumption DEF Panic, Goes, Unchanged, IInv, TypeOK,
       Request, UsesOwn, limiters, swapping, requests
<1>14. ASSUME NEW h \in Handlers, Observe(h) PROVE UsesOwn'
    BY <1>14, RatesAssumption DEF Observe, Goes, IInv, TypeOK, Request,
       UsesOwn, limiters, swapping, requests
<1>15. ASSUME NEW h \in Handlers, Log(h) PROVE UsesOwn'
    BY <1>15, RatesAssumption DEF Log, Idle, Unchanged, IInv, TypeOK,
       Request, UsesOwn, limiters, swapping, requests
<1>16. CASE UNCHANGED vars
    BY <1>16 DEF IInv, TypeOK, Request, UsesOwn, limiters, swapping,
       requests, vars
<1>17. QED
    BY <1>1, <1>2, <1>3, <1>4, <1>5, <1>6, <1>7, <1>8, <1>9, <1>10, <1>11,
       <1>12, <1>13, <1>14, <1>15, <1>16 DEF Next, Swap, Serve

\* So it uses one configuration.
LEMMA OneStep ==
    ASSUME IInv, [Next]_vars
    PROVE  OneConfiguration'
<1>1. ASSUME NEW l \in Rates \cup {Off}, SwapBegin(l) PROVE OneConfiguration'
    BY <1>1, RatesAssumption DEF SwapBegin, IInv, TypeOK, Request,
       UsesOwn, OneConfiguration, limiters, swapping, requests
<1>2. ASSUME SwapLimits PROVE OneConfiguration'
    BY <1>2, RatesAssumption DEF SwapLimits, UpdateLimits, IInv, TypeOK,
       Request, UsesOwn, OneConfiguration, limiters, swapping, requests
<1>3. ASSUME SwapState PROVE OneConfiguration'
    BY <1>3, RatesAssumption DEF SwapState, IInv, TypeOK, Request,
       UsesOwn, OneConfiguration, limiters, swapping, requests
<1>4. ASSUME SwapGauge PROVE OneConfiguration'
    BY <1>4, RatesAssumption DEF SwapGauge, IInv, TypeOK, Request,
       UsesOwn, OneConfiguration, limiters, swapping, requests
<1>5. ASSUME Tick PROVE OneConfiguration'
    BY <1>5, RatesAssumption DEF Tick, IInv, TypeOK, Request, UsesOwn,
       OneConfiguration, limiters, swapping, requests
<1>6. ASSUME NEW h \in Handlers, NEW c \in Clients, Arrive(h, c) PROVE OneConfiguration'
    BY <1>6, RatesAssumption DEF Arrive, IInv, TypeOK, Request, UsesOwn,
       OneConfiguration, limiters, swapping, requests
<1>7. ASSUME NEW h \in Handlers, CheckEnabled(h) PROVE OneConfiguration'
    BY <1>7, RatesAssumption DEF CheckEnabled, GoesJudged, With, IInv,
       TypeOK, Request, UsesOwn, OneConfiguration, limiters, swapping,
       requests
<1>8. ASSUME NEW h \in Handlers, Allow(h) PROVE OneConfiguration'
    BY <1>8, RatesAssumption DEF Allow, GoesJudged, With, IInv, TypeOK,
       Request, UsesOwn, OneConfiguration, limiters, swapping, requests
<1>9. ASSUME NEW h \in Handlers, Method(h) PROVE OneConfiguration'
    BY <1>9, RatesAssumption DEF Method, Goes, Unchanged, IInv, TypeOK,
       Request, UsesOwn, OneConfiguration, limiters, swapping, requests
<1>10. ASSUME NEW h \in Handlers, Body(h) PROVE OneConfiguration'
    BY <1>10, RatesAssumption DEF Body, Goes, GoesUsing, With, Unchanged,
       IInv, TypeOK, Request, UsesOwn, OneConfiguration, limiters,
       swapping, requests
<1>11. ASSUME NEW h \in Handlers, Select(h) PROVE OneConfiguration'
    BY <1>11, RatesAssumption DEF Select, GoesUsing, With, Unchanged,
       IInv, TypeOK, Request, UsesOwn, OneConfiguration, limiters,
       swapping, requests
<1>12. ASSUME NEW h \in Handlers, Write(h) PROVE OneConfiguration'
    BY <1>12, RatesAssumption DEF Write, GoesUsing, With, Unchanged, IInv,
       TypeOK, Request, UsesOwn, OneConfiguration, limiters, swapping,
       requests
<1>13. ASSUME NEW h \in Handlers, Panic(h) PROVE OneConfiguration'
    BY <1>13, RatesAssumption DEF Panic, Goes, Unchanged, IInv, TypeOK,
       Request, UsesOwn, OneConfiguration, limiters, swapping, requests
<1>14. ASSUME NEW h \in Handlers, Observe(h) PROVE OneConfiguration'
    BY <1>14, RatesAssumption DEF Observe, Goes, IInv, TypeOK, Request,
       UsesOwn, OneConfiguration, limiters, swapping, requests
<1>15. ASSUME NEW h \in Handlers, Log(h) PROVE OneConfiguration'
    BY <1>15, RatesAssumption DEF Log, Idle, Unchanged, IInv, TypeOK,
       Request, UsesOwn, OneConfiguration, limiters, swapping, requests
<1>16. CASE UNCHANGED vars
    BY <1>16 DEF IInv, TypeOK, Request, UsesOwn, OneConfiguration,
       limiters, swapping, requests, vars
<1>17. QED
    BY <1>1, <1>2, <1>3, <1>4, <1>5, <1>6, <1>7, <1>8, <1>9, <1>10, <1>11,
       <1>12, <1>13, <1>14, <1>15, <1>16 DEF Next, Swap, Serve

\* What a request is judged by is at least as new as what it loaded.
LEMMA NotOlderStep ==
    ASSUME IInv, [Next]_vars
    PROVE  LimitsNotOlder'
<1>1. ASSUME NEW l \in Rates \cup {Off}, SwapBegin(l) PROVE LimitsNotOlder'
    BY <1>1, RatesAssumption DEF SwapBegin, IInv, TypeOK, Request,
       VersionsInOrder, LimitsNotOlder, limiters, swapping, requests
<1>2. ASSUME SwapLimits PROVE LimitsNotOlder'
    BY <1>2, RatesAssumption DEF SwapLimits, UpdateLimits, IInv, TypeOK,
       Request, VersionsInOrder, LimitsNotOlder, limiters, swapping,
       requests
<1>3. ASSUME SwapState PROVE LimitsNotOlder'
    BY <1>3, RatesAssumption DEF SwapState, IInv, TypeOK, Request,
       VersionsInOrder, LimitsNotOlder, limiters, swapping, requests
<1>4. ASSUME SwapGauge PROVE LimitsNotOlder'
    BY <1>4, RatesAssumption DEF SwapGauge, IInv, TypeOK, Request,
       VersionsInOrder, LimitsNotOlder, limiters, swapping, requests
<1>5. ASSUME Tick PROVE LimitsNotOlder'
    BY <1>5, RatesAssumption DEF Tick, IInv, TypeOK, Request,
       VersionsInOrder, LimitsNotOlder, limiters, swapping, requests
<1>6. ASSUME NEW h \in Handlers, NEW c \in Clients, Arrive(h, c) PROVE LimitsNotOlder'
    BY <1>6, RatesAssumption DEF Arrive, IInv, TypeOK, Request,
       VersionsInOrder, LimitsNotOlder, limiters, swapping, requests
<1>7. ASSUME NEW h \in Handlers, CheckEnabled(h) PROVE LimitsNotOlder'
    BY <1>7, RatesAssumption DEF CheckEnabled, GoesJudged, With, IInv,
       TypeOK, Request, VersionsInOrder, LimitsNotOlder, limiters,
       swapping, requests
<1>8. ASSUME NEW h \in Handlers, Allow(h) PROVE LimitsNotOlder'
    BY <1>8, RatesAssumption DEF Allow, GoesJudged, With, IInv, TypeOK,
       Request, VersionsInOrder, LimitsNotOlder, limiters, swapping,
       requests
<1>9. ASSUME NEW h \in Handlers, Method(h) PROVE LimitsNotOlder'
    BY <1>9, RatesAssumption DEF Method, Goes, Unchanged, IInv, TypeOK,
       Request, VersionsInOrder, LimitsNotOlder, limiters, swapping,
       requests
<1>10. ASSUME NEW h \in Handlers, Body(h) PROVE LimitsNotOlder'
    BY <1>10, RatesAssumption DEF Body, Goes, GoesUsing, With, Unchanged,
       IInv, TypeOK, Request, VersionsInOrder, LimitsNotOlder, limiters,
       swapping, requests
<1>11. ASSUME NEW h \in Handlers, Select(h) PROVE LimitsNotOlder'
    BY <1>11, RatesAssumption DEF Select, GoesUsing, With, Unchanged,
       IInv, TypeOK, Request, VersionsInOrder, LimitsNotOlder, limiters,
       swapping, requests
<1>12. ASSUME NEW h \in Handlers, Write(h) PROVE LimitsNotOlder'
    BY <1>12, RatesAssumption DEF Write, GoesUsing, With, Unchanged, IInv,
       TypeOK, Request, VersionsInOrder, LimitsNotOlder, limiters,
       swapping, requests
<1>13. ASSUME NEW h \in Handlers, Panic(h) PROVE LimitsNotOlder'
    BY <1>13, RatesAssumption DEF Panic, Goes, Unchanged, IInv, TypeOK,
       Request, VersionsInOrder, LimitsNotOlder, limiters, swapping,
       requests
<1>14. ASSUME NEW h \in Handlers, Observe(h) PROVE LimitsNotOlder'
    BY <1>14, RatesAssumption DEF Observe, Goes, IInv, TypeOK, Request,
       VersionsInOrder, LimitsNotOlder, limiters, swapping, requests
<1>15. ASSUME NEW h \in Handlers, Log(h) PROVE LimitsNotOlder'
    BY <1>15, RatesAssumption DEF Log, Idle, Unchanged, IInv, TypeOK,
       Request, VersionsInOrder, LimitsNotOlder, limiters, swapping,
       requests
<1>16. CASE UNCHANGED vars
    BY <1>16 DEF IInv, TypeOK, Request, VersionsInOrder, LimitsNotOlder,
       limiters, swapping, requests, vars
<1>17. QED
    BY <1>1, <1>2, <1>3, <1>4, <1>5, <1>6, <1>7, <1>8, <1>9, <1>10, <1>11,
       <1>12, <1>13, <1>14, <1>15, <1>16 DEF Next, Swap, Serve

\* Who has found limiting enabled finds the map.
LEMMA ThereStep ==
    ASSUME IInv, [Next]_vars
    PROVE  BucketsThere'
<1>1. ASSUME NEW l \in Rates \cup {Off}, SwapBegin(l) PROVE BucketsThere'
    BY <1>1, RatesAssumption DEF SwapBegin, IInv, TypeOK, Request,
       LimitsMade, BucketsThere, limiters, swapping, requests
<1>2. ASSUME SwapLimits PROVE BucketsThere'
    BY <1>2, RatesAssumption DEF SwapLimits, UpdateLimits, IInv, TypeOK,
       Request, LimitsMade, BucketsThere, limiters, swapping, requests
<1>3. ASSUME SwapState PROVE BucketsThere'
    BY <1>3, RatesAssumption DEF SwapState, IInv, TypeOK, Request,
       LimitsMade, BucketsThere, limiters, swapping, requests
<1>4. ASSUME SwapGauge PROVE BucketsThere'
    BY <1>4, RatesAssumption DEF SwapGauge, IInv, TypeOK, Request,
       LimitsMade, BucketsThere, limiters, swapping, requests
<1>5. ASSUME Tick PROVE BucketsThere'
    BY <1>5, RatesAssumption DEF Tick, IInv, TypeOK, Request, LimitsMade,
       BucketsThere, limiters, swapping, requests
<1>6. ASSUME NEW h \in Handlers, NEW c \in Clients, Arrive(h, c) PROVE BucketsThere'
    BY <1>6, RatesAssumption DEF Arrive, IInv, TypeOK, Request,
       LimitsMade, BucketsThere, limiters, swapping, requests
<1>7. ASSUME NEW h \in Handlers, CheckEnabled(h) PROVE BucketsThere'
    BY <1>7, RatesAssumption DEF CheckEnabled, GoesJudged, With, IInv,
       TypeOK, Request, LimitsMade, BucketsThere, limiters, swapping,
       requests
<1>8. ASSUME NEW h \in Handlers, Allow(h) PROVE BucketsThere'
    BY <1>8, RatesAssumption DEF Allow, GoesJudged, With, IInv, TypeOK,
       Request, LimitsMade, BucketsThere, limiters, swapping, requests
<1>9. ASSUME NEW h \in Handlers, Method(h) PROVE BucketsThere'
    BY <1>9, RatesAssumption DEF Method, Goes, Unchanged, IInv, TypeOK,
       Request, LimitsMade, BucketsThere, limiters, swapping, requests
<1>10. ASSUME NEW h \in Handlers, Body(h) PROVE BucketsThere'
    BY <1>10, RatesAssumption DEF Body, Goes, GoesUsing, With, Unchanged,
       IInv, TypeOK, Request, LimitsMade, BucketsThere, limiters,
       swapping, requests
<1>11. ASSUME NEW h \in Handlers, Select(h) PROVE BucketsThere'
    BY <1>11, RatesAssumption DEF Select, GoesUsing, With, Unchanged,
       IInv, TypeOK, Request, LimitsMade, BucketsThere, limiters,
       swapping, requests
<1>12. ASSUME NEW h \in Handlers, Write(h) PROVE BucketsThere'
    BY <1>12, RatesAssumption DEF Write, GoesUsing, With, Unchanged, IInv,
       TypeOK, Request, LimitsMade, BucketsThere, limiters, swapping,
       requests
<1>13. ASSUME NEW h \in Handlers, Panic(h) PROVE BucketsThere'
    BY <1>13, RatesAssumption DEF Panic, Goes, Unchanged, IInv, TypeOK,
       Request, LimitsMade, BucketsThere, limiters, swapping, requests
<1>14. ASSUME NEW h \in Handlers, Observe(h) PROVE BucketsThere'
    BY <1>14, RatesAssumption DEF Observe, Goes, IInv, TypeOK, Request,
       LimitsMade, BucketsThere, limiters, swapping, requests
<1>15. ASSUME NEW h \in Handlers, Log(h) PROVE BucketsThere'
    BY <1>15, RatesAssumption DEF Log, Idle, Unchanged, IInv, TypeOK,
       Request, LimitsMade, BucketsThere, limiters, swapping, requests
<1>16. CASE UNCHANGED vars
    BY <1>16 DEF IInv, TypeOK, Request, LimitsMade, BucketsThere,
       limiters, swapping, requests, vars
<1>17. QED
    BY <1>1, <1>2, <1>3, <1>4, <1>5, <1>6, <1>7, <1>8, <1>9, <1>10, <1>11,
       <1>12, <1>13, <1>14, <1>15, <1>16 DEF Next, Swap, Serve

\* New limits replace every limiter.
LEMMA FollowStep ==
    ASSUME IInv, [Next]_vars
    PROVE  BucketsFollow'
<1>1. ASSUME NEW l \in Rates \cup {Off}, SwapBegin(l) PROVE BucketsFollow'
    BY <1>1, RatesAssumption DEF SwapBegin, IInv, TypeOK, Request, Bucket,
       BucketsFollow, limiters, swapping, requests
<1>2. ASSUME SwapLimits PROVE BucketsFollow'
    <2>1. CASE swap.limit # Off /\ ~(enabled /\ limit = swap.limit)
        <3>1. buckets' = [c \in DOMAIN buckets |-> [buckets[c] EXCEPT !.limit = swap.limit]]
            BY <1>2, <2>1 DEF SwapLimits, UpdateLimits
        <3>2. swap.limit \in Rates /\ limit' = swap.limit
            BY <1>2, <2>1 DEF SwapLimits, UpdateLimits, IInv, TypeOK
        <3>3. \A c \in DOMAIN buckets' : buckets'[c].limit = limit'
            BY <3>1, <3>2 DEF IInv, TypeOK, Bucket
        <3>4. QED
            BY <3>3 DEF BucketsFollow
    <2>2. CASE ~(swap.limit # Off /\ ~(enabled /\ limit = swap.limit))
        <3>1. UNCHANGED <<limit, buckets>> /\ (enabled' => enabled)
            BY <1>2, <2>2 DEF SwapLimits, UpdateLimits
        <3>2. QED
            BY <3>1 DEF IInv, BucketsFollow
    <2>3. QED
        BY <2>1, <2>2
<1>3. ASSUME SwapState PROVE BucketsFollow'
    BY <1>3, RatesAssumption DEF SwapState, IInv, TypeOK, Request, Bucket,
       BucketsFollow, limiters, swapping, requests
<1>4. ASSUME SwapGauge PROVE BucketsFollow'
    BY <1>4, RatesAssumption DEF SwapGauge, IInv, TypeOK, Request, Bucket,
       BucketsFollow, limiters, swapping, requests
<1>5. ASSUME Tick PROVE BucketsFollow'
    BY <1>5, RatesAssumption DEF Tick, IInv, TypeOK, Request, Bucket,
       BucketsFollow, limiters, swapping, requests
<1>6. ASSUME NEW h \in Handlers, NEW c \in Clients, Arrive(h, c) PROVE BucketsFollow'
    BY <1>6, RatesAssumption DEF Arrive, IInv, TypeOK, Request, Bucket,
       BucketsFollow, limiters, swapping, requests
<1>7. ASSUME NEW h \in Handlers, CheckEnabled(h) PROVE BucketsFollow'
    BY <1>7, RatesAssumption DEF CheckEnabled, GoesJudged, With, IInv,
       TypeOK, Request, Bucket, BucketsFollow, limiters, swapping,
       requests
<1>8. ASSUME NEW h \in Handlers, Allow(h) PROVE BucketsFollow'
    BY <1>8, AdmitKeeps DEF Allow, IInv, TypeOK, swapping
<1>9. ASSUME NEW h \in Handlers, Method(h) PROVE BucketsFollow'
    BY <1>9, RatesAssumption DEF Method, Goes, Unchanged, IInv, TypeOK,
       Request, Bucket, BucketsFollow, limiters, swapping, requests
<1>10. ASSUME NEW h \in Handlers, Body(h) PROVE BucketsFollow'
    BY <1>10, RatesAssumption DEF Body, Goes, GoesUsing, With, Unchanged,
       IInv, TypeOK, Request, Bucket, BucketsFollow, limiters, swapping,
       requests
<1>11. ASSUME NEW h \in Handlers, Select(h) PROVE BucketsFollow'
    BY <1>11, RatesAssumption DEF Select, GoesUsing, With, Unchanged,
       IInv, TypeOK, Request, Bucket, BucketsFollow, limiters, swapping,
       requests
<1>12. ASSUME NEW h \in Handlers, Write(h) PROVE BucketsFollow'
    BY <1>12, RatesAssumption DEF Write, GoesUsing, With, Unchanged, IInv,
       TypeOK, Request, Bucket, BucketsFollow, limiters, swapping,
       requests
<1>13. ASSUME NEW h \in Handlers, Panic(h) PROVE BucketsFollow'
    BY <1>13, RatesAssumption DEF Panic, Goes, Unchanged, IInv, TypeOK,
       Request, Bucket, BucketsFollow, limiters, swapping, requests
<1>14. ASSUME NEW h \in Handlers, Observe(h) PROVE BucketsFollow'
    BY <1>14, RatesAssumption DEF Observe, Goes, IInv, TypeOK, Request,
       Bucket, BucketsFollow, limiters, swapping, requests
<1>15. ASSUME NEW h \in Handlers, Log(h) PROVE BucketsFollow'
    BY <1>15, RatesAssumption DEF Log, Idle, Unchanged, IInv, TypeOK,
       Request, Bucket, BucketsFollow, limiters, swapping, requests
<1>16. CASE UNCHANGED vars
    BY <1>16 DEF IInv, TypeOK, Request, Bucket, BucketsFollow, limiters,
       swapping, requests, vars
<1>17. QED
    BY <1>1, <1>2, <1>3, <1>4, <1>5, <1>6, <1>7, <1>8, <1>9, <1>10, <1>11,
       <1>12, <1>13, <1>14, <1>15, <1>16 DEF Next, Swap, Serve

\* Only allow adds a bucket.
LEMMA FiniteStep ==
    ASSUME IInv, [Next]_vars
    PROVE  BucketsFinite'
<1>1. ASSUME NEW l \in Rates \cup {Off}, SwapBegin(l) PROVE BucketsFinite'
    BY <1>1, RatesAssumption DEF SwapBegin, IInv, TypeOK, Request,
       BucketsFinite, ClientsBounded, limiters, swapping, requests
<1>2. ASSUME SwapLimits PROVE BucketsFinite'
    BY <1>2, RatesAssumption DEF SwapLimits, UpdateLimits, IInv, TypeOK,
       Request, BucketsFinite, ClientsBounded, limiters, swapping,
       requests
<1>3. ASSUME SwapState PROVE BucketsFinite'
    BY <1>3, RatesAssumption DEF SwapState, IInv, TypeOK, Request,
       BucketsFinite, ClientsBounded, limiters, swapping, requests
<1>4. ASSUME SwapGauge PROVE BucketsFinite'
    BY <1>4, RatesAssumption DEF SwapGauge, IInv, TypeOK, Request,
       BucketsFinite, ClientsBounded, limiters, swapping, requests
<1>5. ASSUME Tick PROVE BucketsFinite'
    BY <1>5, RatesAssumption DEF Tick, IInv, TypeOK, Request,
       BucketsFinite, ClientsBounded, limiters, swapping, requests
<1>6. ASSUME NEW h \in Handlers, NEW c \in Clients, Arrive(h, c) PROVE BucketsFinite'
    BY <1>6, RatesAssumption DEF Arrive, IInv, TypeOK, Request,
       BucketsFinite, ClientsBounded, limiters, swapping, requests
<1>7. ASSUME NEW h \in Handlers, CheckEnabled(h) PROVE BucketsFinite'
    BY <1>7, RatesAssumption DEF CheckEnabled, GoesJudged, With, IInv,
       TypeOK, Request, BucketsFinite, ClientsBounded, limiters, swapping,
       requests
<1>8. ASSUME NEW h \in Handlers, Allow(h) PROVE BucketsFinite'
    BY <1>8, AdmitBounded DEF Allow, IInv, TypeOK, BucketsFinite
<1>9. ASSUME NEW h \in Handlers, Method(h) PROVE BucketsFinite'
    BY <1>9, RatesAssumption DEF Method, Goes, Unchanged, IInv, TypeOK,
       Request, BucketsFinite, ClientsBounded, limiters, swapping,
       requests
<1>10. ASSUME NEW h \in Handlers, Body(h) PROVE BucketsFinite'
    BY <1>10, RatesAssumption DEF Body, Goes, GoesUsing, With, Unchanged,
       IInv, TypeOK, Request, BucketsFinite, ClientsBounded, limiters,
       swapping, requests
<1>11. ASSUME NEW h \in Handlers, Select(h) PROVE BucketsFinite'
    BY <1>11, RatesAssumption DEF Select, GoesUsing, With, Unchanged,
       IInv, TypeOK, Request, BucketsFinite, ClientsBounded, limiters,
       swapping, requests
<1>12. ASSUME NEW h \in Handlers, Write(h) PROVE BucketsFinite'
    BY <1>12, RatesAssumption DEF Write, GoesUsing, With, Unchanged, IInv,
       TypeOK, Request, BucketsFinite, ClientsBounded, limiters, swapping,
       requests
<1>13. ASSUME NEW h \in Handlers, Panic(h) PROVE BucketsFinite'
    BY <1>13, RatesAssumption DEF Panic, Goes, Unchanged, IInv, TypeOK,
       Request, BucketsFinite, ClientsBounded, limiters, swapping,
       requests
<1>14. ASSUME NEW h \in Handlers, Observe(h) PROVE BucketsFinite'
    BY <1>14, RatesAssumption DEF Observe, Goes, IInv, TypeOK, Request,
       BucketsFinite, ClientsBounded, limiters, swapping, requests
<1>15. ASSUME NEW h \in Handlers, Log(h) PROVE BucketsFinite'
    BY <1>15, RatesAssumption DEF Log, Idle, Unchanged, IInv, TypeOK,
       Request, BucketsFinite, ClientsBounded, limiters, swapping,
       requests
<1>16. CASE UNCHANGED vars
    BY <1>16 DEF IInv, TypeOK, Request, BucketsFinite, ClientsBounded,
       limiters, swapping, requests, vars
<1>17. QED
    BY <1>1, <1>2, <1>3, <1>4, <1>5, <1>6, <1>7, <1>8, <1>9, <1>10, <1>11,
       <1>12, <1>13, <1>14, <1>15, <1>16 DEF Next, Swap, Serve

\* The invariant holds at first and through every step.
THEOREM Invariant == Spec => []IInv
<1>1. Init => IInv
    <2>1. SUFFICES ASSUME Init PROVE IInv
        OBVIOUS
    <2>2. enabled \in BOOLEAN /\ made \in BOOLEAN /\ (enabled => made)
        BY <2>1 DEF Init
    <2>3. DOMAIN buckets = {} /\ buckets \in [DOMAIN buckets -> Bucket]
        BY <2>1 DEF Init
    <2>4. limit \in Rates \cup {Off} /\ (made => limit \in Rates)
        BY <2>1 DEF Init
    <2>5. TypeOK /\ ClientKnown
        BY <2>1, <2>2, <2>3, <2>4 DEF Init, TypeOK, Idle, Request, Steps, ClientKnown
    <2>6. LimitsMade /\ VersionsInOrder
        BY <2>1, <2>2, <2>4 DEF Init, LimitsMade, VersionsInOrder, Idle
    <2>7. UsesOwn /\ OneConfiguration /\ LimitsNotOlder /\ BucketsThere
        BY <2>1 DEF Init, UsesOwn, OneConfiguration, LimitsNotOlder, BucketsThere, Idle
    <2>8. BucketsFollow
        BY <2>3 DEF BucketsFollow
    <2>9. BucketsFinite
        BY <2>3, FS_EmptySet, SizesAssumption DEF BucketsFinite, ClientsBounded
    <2>10. QED
        BY <2>5, <2>6, <2>7, <2>8, <2>9 DEF IInv
<1>2. IInv /\ [Next]_vars => IInv'
    BY TypeStep, ClientStep, LimitsStep, VersionsStep, UsesStep, OneStep, NotOlderStep,
       ThereStep, FollowStep, FiniteStep DEF IInv
<1>3. QED
    BY <1>1, <1>2, PTL DEF Spec

\* The variables have their types in every reachable state.
THEOREM TypeCorrect == Spec => []TypeOK
<1>1. IInv => TypeOK
    BY DEF IInv, BucketsFinite
<1>2. QED
    BY Invariant, <1>1, PTL

\* A request is captured, answered and logged under one configuration: the
\* pointer is loaded once (middleware.go:53).
THEOREM UsesOne == Spec => []OneConfiguration
<1>1. IInv => OneConfiguration
    BY DEF IInv, BucketsFinite
<1>2. QED
    BY Invariant, <1>1, PTL

\* No request is answered under a configuration whose limits are not in force
\* yet (the order of SwapConfig, server.go:89-90).
THEOREM NeverOlder == Spec => []LimitsNotOlder
<1>1. IInv => LimitsNotOlder
    BY DEF IInv, BucketsFinite
<1>2. QED
    BY Invariant, <1>1, PTL

\* allow never writes to a nil map, although it takes the mutex again after
\* limitingEnabled let it go (middleware.go:85).
THEOREM NeverNil == Spec => []BucketsThere
<1>1. IInv => BucketsThere
    BY DEF IInv, BucketsFinite
<1>2. QED
    BY Invariant, <1>1, PTL

\* While limiting is on every bucket has the limits in force
\* (updateLimits, middleware.go:177-193).
THEOREM AllFollow == Spec => []BucketsFollow
<1>1. IInv => BucketsFollow
    BY DEF IInv, BucketsFinite
<1>2. QED
    BY Invariant, <1>1, PTL

\* There are never more than MaxClients buckets (evictOldest always makes
\* room, middleware.go:208-242).
THEOREM Bounded == Spec => []ClientsBounded
<1>1. IInv => ClientsBounded
    BY DEF IInv, BucketsFinite
<1>2. QED
    BY Invariant, <1>1, PTL

\* The requests that finishRequest has not counted yet.
InFlight == {h \in Handlers : req[h].pc \notin {"idle", "log"}}

\* A step begins a request, counts one, or does neither.
LEMMA BeginsOrCounts ==
    ASSUME IInv, [Next]_vars
    PROVE  \/ InFlight' = InFlight /\ UNCHANGED <<arrived, counted>>
           \/ \E h \in Handlers \ InFlight :
                InFlight' = InFlight \cup {h} /\ arrived' = arrived + 1 /\ counted' = counted
           \/ \E h \in InFlight :
                InFlight' = InFlight \ {h} /\ arrived' = arrived /\ counted' = counted + 1
<1>0. req \in [Handlers -> Request]
    BY DEF IInv, TypeOK
<1>1. CASE Swap \/ Tick \/ UNCHANGED vars
    <2>1. UNCHANGED requests
        BY <1>1 DEF Swap, SwapBegin, SwapLimits, SwapState, SwapGauge, Tick, vars
    <2>2. QED
        BY <2>1 DEF requests, InFlight
<1>2. ASSUME NEW h \in Handlers, NEW c \in Clients, Arrive(h, c)
      PROVE  /\ h \notin InFlight /\ InFlight' = InFlight \cup {h}
             /\ arrived' = arrived + 1 /\ counted' = counted
    <2>1. /\ \A k \in Handlers \ {h} : req'[k] = req[k]
          /\ req[h].pc = "idle" /\ req'[h].pc = "limit"
          /\ arrived' = arrived + 1 /\ counted' = counted
        BY <1>0, <1>2 DEF Arrive
    <2>2. QED
        BY <2>1 DEF InFlight
<1>3. ASSUME NEW h \in Handlers, Observe(h)
      PROVE  /\ h \in InFlight /\ InFlight' = InFlight \ {h}
             /\ arrived' = arrived /\ counted' = counted + 1
    <2>1. /\ \A k \in Handlers \ {h} : req'[k] = req[k]
          /\ req[h].pc = "observe" /\ req'[h].pc = "log"
          /\ arrived' = arrived /\ counted' = counted + 1
        BY <1>0, <1>3 DEF Observe, Goes, Request
    <2>2. QED
        BY <2>1 DEF InFlight
<1>4. ASSUME NEW h \in Handlers,
             CheckEnabled(h) \/ Allow(h) \/ Method(h) \/ Body(h) \/ Select(h)
                \/ Write(h) \/ Panic(h)
      PROVE  InFlight' = InFlight /\ UNCHANGED <<arrived, counted>>
    <2>1. /\ \A k \in Handlers \ {h} : req'[k] = req[k]
          /\ req[h].pc \notin {"idle", "log"} /\ req'[h].pc \notin {"idle", "log"}
        BY <1>0, <1>4 DEF CheckEnabled, Allow, Method, Body, Select, Write, Panic,
           Goes, GoesJudged, GoesUsing, With, Request
    <2>2. UNCHANGED <<arrived, counted>>
        BY <1>4 DEF CheckEnabled, Allow, Method, Body, Select, Write, Panic, Unchanged
    <2>3. QED
        BY <2>1, <2>2 DEF InFlight
<1>5. ASSUME NEW h \in Handlers, Log(h)
      PROVE  InFlight' = InFlight /\ UNCHANGED <<arrived, counted>>
    <2>1. /\ \A k \in Handlers \ {h} : req'[k] = req[k]
          /\ req[h].pc = "log" /\ req'[h].pc = "idle" /\ UNCHANGED <<arrived, counted>>
        BY <1>0, <1>5 DEF Log, Idle, Unchanged
    <2>2. QED
        BY <2>1 DEF InFlight
<1>6. QED
    BY <1>1, <1>2, <1>3, <1>4, <1>5 DEF Next, Serve

\* finishRequest counts every request once, whichever middleware ended it and
\* whether or not the handler panicked (middleware.go:56-72, logging.go:17-26).
THEOREM AllCounted == Spec => []EveryRequestCounted
<1> DEFINE Counted == /\ IsFiniteSet(InFlight) /\ counted \in Nat
                      /\ arrived = counted + Cardinality(InFlight)
<1>1. Init => Counted
    <2>1. SUFFICES ASSUME Init PROVE Counted
        OBVIOUS
    <2>2. InFlight = {}
        BY <2>1 DEF Init, Idle, InFlight
    <2>3. QED
        BY <2>1, <2>2, FS_EmptySet DEF Init
<1>2. IInv /\ Counted /\ [Next]_vars => Counted'
    <2>1. SUFFICES ASSUME IInv, Counted, [Next]_vars PROVE Counted'
        OBVIOUS
    <2>2. Cardinality(InFlight) \in Nat
        BY <2>1, FS_CardinalityType
    <2>3. CASE InFlight' = InFlight /\ UNCHANGED <<arrived, counted>>
        BY <2>1, <2>3
    <2>4. ASSUME NEW h \in Handlers \ InFlight, InFlight' = InFlight \cup {h},
                 arrived' = arrived + 1, counted' = counted
          PROVE  Counted'
        <3>1. IsFiniteSet(InFlight') /\ Cardinality(InFlight') = Cardinality(InFlight) + 1
            BY <2>1, <2>4, FS_AddElement
        <3>2. QED
            BY <2>1, <2>2, <2>4, <3>1
    <2>5. ASSUME NEW h \in InFlight, InFlight' = InFlight \ {h},
                 arrived' = arrived, counted' = counted + 1
          PROVE  Counted'
        <3>1. IsFiniteSet(InFlight') /\ Cardinality(InFlight') = Cardinality(InFlight) - 1
            BY <2>1, <2>5, FS_RemoveElement
        <3>2. QED
            BY <2>1, <2>2, <2>5, <3>1
    <2>6. QED
        BY <2>1, <2>3, <2>4, <2>5, BeginsOrCounts
<1>3. Counted => EveryRequestCounted
    BY DEF EveryRequestCounted, InFlight
<1>4. QED
    BY <1>1, <1>2, <1>3, Invariant, PTL DEF Spec

=============================================================================
