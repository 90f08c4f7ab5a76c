------------------------------ MODULE Requests ------------------------------
(***************************************************************************)
(* The way of a public request through the middleware, while SwapConfig    *)
(* installs other configurations: the pointer to (configuration, engine),  *)
(* the limiters' own copy of the limits with a bucket for every client     *)
(* address, and the counters.                                              *)
(*                                                                         *)
(* A configuration is its number in the order of application and its rate  *)
(* limit.  Whether a bucket has a token left is for rate.Limiter to say:    *)
(* either answer is possible.                                              *)
(***************************************************************************)
EXTENDS Integers, FiniteSets

CONSTANTS
    Handlers,    \* the requests served at the same time
    Clients,     \* the client addresses
    Rates,       \* the rate limits (rate and burst) a configuration may set
    Off,         \* a rate of 0 or less: no limit
    MaxClients,  \* maxClients: the buckets kept
    Batch,       \* evictionBatchSize
    StaleAfter,  \* staleClientAfter
    MaxTime,     \* bound: the clock
    MaxSwaps,    \* bound: configurations applied after the first
    MaxRequests  \* bound: requests that arrive

ASSUME RatesAssumption == Off \notin Rates

ASSUME SizesAssumption ==
    /\ MaxClients \in Nat \ {0} /\ Batch \in Nat \ {0} /\ StaleAfter \in Nat

ASSUME RequestBounds ==
    /\ MaxTime \in Nat /\ MaxSwaps \in Nat /\ MaxRequests \in Nat

VARIABLES
    state,    \* Server.state: the number of the configuration
    enabled,  \* clientLimiters.enabled
    limit,    \* clientLimiters.limit and burst
    made,     \* clientLimiters.clients is not nil
    buckets,  \* clientLimiters.clients: the limiter and lastSeen of each client
    swap,     \* SwapConfig under applyMu: [pc, to, limit]
    gauge,    \* sinkhole_rules_loaded: the configuration it was set for
    req,      \* the requests: [pc, client, start, version, judged, uses]
    counted,  \* Metrics: the requests observed
    clock,    \* the clock
    limitsOf, \* ghost: the number of the configuration the limits come from
    arrived   \* ghost: the requests that have arrived

limiters == <<enabled, limit, made, buckets, limitsOf>>
swapping == <<state, swap, gauge>>
requests == <<req, counted, arrived>>
vars == <<limiters, swapping, requests, clock>>

Idle == [pc |-> "idle", client |-> Off, start |-> 0,
         version |-> 0, judged |-> 0, uses |-> {}]

\* New: the first configuration is number 1.
Init ==
    /\ \E l \in Rates \cup {Off} :
          /\ enabled = (l # Off) /\ made = (l # Off)
          /\ limit = l
    /\ state = 1 /\ gauge = 1 /\ limitsOf = 1 /\ buckets = [c \in {} |-> 0]
    /\ swap = [pc |-> "idle", to |-> 1, limit |-> Off]
    /\ req = [h \in Handlers |-> Idle]
    /\ counted = 0 /\ arrived = 0 /\ clock = 0

----------------------------------------------------------------------------
\* SwapConfig: the limits, the pointer, the gauge.

\* mutant: the pointer is stored before the limits
SwapBeginStored(l) ==
    /\ swap.pc = "idle" /\ state <= MaxSwaps
    /\ state' = state + 1
    /\ swap' = [pc |-> "limits", to |-> state + 1, limit |-> l]
    /\ UNCHANGED <<limiters, gauge, requests, clock>>

SwapBegin(l) ==
    /\ swap.pc = "idle" /\ state <= MaxSwaps
    /\ swap' = [pc |-> "limits", to |-> state + 1, limit |-> l]
    /\ UNCHANGED <<limiters, state, gauge, requests, clock>>

\* mutant: a rate of 0 is set like any other
UpdateLimitsAny(l) ==
    /\ enabled' = (l # Off) /\ limit' = l /\ made' = TRUE
    /\ buckets' = [c \in DOMAIN buckets |-> [buckets[c] EXCEPT !.limit = l]]

\* mutant: switching off frees the buckets
UpdateLimitsFree(l) ==
    IF l = Off
    THEN /\ enabled' = FALSE /\ made' = FALSE /\ limit' = limit
         /\ buckets' = [c \in {} |-> 0]
    ELSE /\ enabled' = TRUE /\ limit' = l /\ made' = TRUE
         /\ buckets' = [c \in DOMAIN buckets |-> [buckets[c] EXCEPT !.limit = l]]

\* mutant: new limits are for new clients
UpdateLimitsNew(l) ==
    IF l = Off
    THEN enabled' = FALSE /\ UNCHANGED <<limit, made, buckets>>
    ELSE enabled' = TRUE /\ limit' = l /\ made' = TRUE /\ UNCHANGED buckets

\* updateLimits: switched off, the buckets stay; the limits the limiters have
\* already change nothing; others replace the limiter of every client.
UpdateLimits(l) ==
    \/ /\ l = Off
       /\ enabled' = FALSE
       /\ UNCHANGED <<limit, made, buckets>>
    \/ /\ l # Off /\ enabled /\ limit = l
       /\ UNCHANGED <<enabled, limit, made, buckets>>
    \/ /\ l # Off /\ ~(enabled /\ limit = l)
       /\ enabled' = TRUE /\ limit' = l /\ made' = TRUE
       /\ buckets' = [c \in DOMAIN buckets |-> [buckets[c] EXCEPT !.limit = l]]

SwapLimits ==
    /\ swap.pc = "limits"
    /\ UpdateLimits(swap.limit) /\ limitsOf' = swap.to
    /\ swap' = [swap EXCEPT !.pc = "state", !.limit = Off]
    /\ UNCHANGED <<state, gauge, requests, clock>>

SwapState ==
    /\ swap.pc = "state"
    /\ state' = swap.to
    /\ swap' = [swap EXCEPT !.pc = "gauge"]
    /\ UNCHANGED <<limiters, gauge, requests, clock>>

SwapGauge ==
    /\ swap.pc = "gauge"
    /\ gauge' = swap.to /\ swap' = [swap EXCEPT !.pc = "idle"]
    /\ UNCHANGED <<limiters, state, requests, clock>>

----------------------------------------------------------------------------
\* A request, from the outer middleware inwards.

Goes(h, pc) == req' = [req EXCEPT ![h].pc = pc]

With(r, pc, judged, uses) ==
    [pc |-> pc, client |-> r.client, start |-> r.start, version |-> r.version,
     judged |-> judged, uses |-> uses]

\* The step is taken under the limits in force.
GoesJudged(h, pc) ==
    req' = [req EXCEPT ![h] = With(req[h], pc, limitsOf, req[h].uses)]

\* The step reads the configuration with this number.
GoesUsing(h, pc, version) ==
    req' = [req EXCEPT ![h] =
              With(req[h], pc, req[h].judged, req[h].uses \cup {version})]

\* recoverMiddleware loads the pointer once, for the whole request.
Arrive(h, client) ==
    /\ req[h].pc = "idle" /\ arrived < MaxRequests
    /\ arrived' = arrived + 1
    /\ req' = [req EXCEPT ![h] =
                 [pc |-> "limit", client |-> client, start |-> clock,
                  version |-> state, judged |-> 0, uses |-> {}]]
    /\ UNCHANGED <<limiters, swapping, counted, clock>>

\* rateLimitMiddleware asks twice, and lets go of the mutex in between.
CheckEnabled(h) ==
    /\ req[h].pc = "limit"
    /\ GoesJudged(h, IF enabled THEN "allow" ELSE "method")
    /\ UNCHANGED <<limiters, swapping, counted, arrived, clock>>

Stale(c, now) == now - buckets[c].seen >= StaleAfter

\* mutant: only what is stale is evicted
EvictStale(kept, now) == kept = {c \in DOMAIN buckets : ~Stale(c, now)}

\* evictOldest: of a sample in the order of the map's iteration those unseen
\* for long, or all of it.
Evict(kept, now) ==
    \E sample \in SUBSET DOMAIN buckets :
        LET stale == {c \in sample : Stale(c, now)} IN
        /\ Cardinality(sample) =
              IF Cardinality(DOMAIN buckets) < Batch
              THEN Cardinality(DOMAIN buckets) ELSE Batch
        /\ kept = DOMAIN buckets \ (IF stale # {} THEN stale ELSE sample)

\* mutant: one bucket too many before room is made
AdmitOneMore(client, now) ==
    \E kept \in SUBSET DOMAIN buckets :
        /\ IF client \notin DOMAIN buckets /\ Cardinality(DOMAIN buckets) > MaxClients
           THEN Evict(kept, now)
           ELSE kept = DOMAIN buckets
        /\ buckets' =
             [c \in kept \cup {client} |->
                [limit |-> IF c \in DOMAIN buckets THEN buckets[c].limit ELSE limit,
                 seen |-> IF c # client THEN buckets[c].seen ELSE now]]

\* allow: room for a client that has no bucket, then a token of its bucket.
Admit(client, now) ==
    \E kept \in SUBSET DOMAIN buckets :
        /\ IF client \notin DOMAIN buckets /\ Cardinality(DOMAIN buckets) >= MaxClients
           THEN Evict(kept, now)
           ELSE kept = DOMAIN buckets
        /\ buckets' =
             [c \in kept \cup {client} |->
                IF c # client THEN buckets[c]
                ELSE [limit |-> IF c \in DOMAIN buckets THEN buckets[c].limit ELSE limit,
                      seen |-> now]]

\* The time was read before the mutex was taken: a bucket may be marked with an
\* earlier time than it bears.
Allow(h) ==
    /\ req[h].pc = "allow"
    /\ \E now \in req[h].start..clock : Admit(req[h].client, now)
    /\ \E next \in {"method", "observe"} : GoesJudged(h, next)
    /\ UNCHANGED <<enabled, limit, made, limitsOf, swapping, counted, arrived, clock>>

Unchanged == UNCHANGED <<limiters, swapping, counted, arrived, clock>>

\* methodMiddleware: the method is one of the seven, or is refused.
Method(h) ==
    /\ req[h].pc = "method"
    /\ \E next \in {"body", "observe"} : Goes(h, next)
    /\ Unchanged

\* bodyLimitMiddleware: a method without a body passes; a body is read to its
\* end, or to the limit (New's, a startup setting) and refused, and captured for
\* the log if the configuration of the request says so.
Body(h) ==
    /\ req[h].pc = "body"
    /\ \/ Goes(h, "select")
       \/ \E next \in {"select", "observe"} : GoesUsing(h, next, req[h].version)
    /\ Unchanged

\* mutant: the response is chosen under the configuration of the moment
SelectLive(h) ==
    /\ req[h].pc = "select"
    /\ GoesUsing(h, "write", state)
    /\ Unchanged

\* respond: choose the response; then wait for the delay of the rule and write.
Select(h) ==
    /\ req[h].pc = "select"
    /\ GoesUsing(h, "write", req[h].version)
    /\ Unchanged

Write(h) ==
    /\ req[h].pc = "write"
    /\ GoesUsing(h, "observe", req[h].version)
    /\ Unchanged

\* mutant: a panic is answered and nothing more
PanicUncounted(h) ==
    /\ req[h].pc \in {"method", "body", "select", "write"}
    /\ Goes(h, "log")
    /\ Unchanged

\* The handler panics; recoverMiddleware answers and goes on to finishRequest.
\* No handler panics with http.ErrAbortHandler, which it would pass on.
Panic(h) ==
    /\ req[h].pc \in {"method", "body", "select", "write"}
    /\ Goes(h, "observe")
    /\ Unchanged

\* finishRequest: the counters, then the access log.
Observe(h) ==
    /\ req[h].pc = "observe"
    /\ counted' = counted + 1 /\ Goes(h, "log")
    /\ UNCHANGED <<limiters, swapping, arrived, clock>>

Log(h) ==
    /\ req[h].pc = "log"
    /\ req' = [req EXCEPT ![h] = [Idle EXCEPT !.uses = req[h].uses \cup {req[h].version}]]
    /\ Unchanged

Tick ==
    /\ clock < MaxTime /\ clock' = clock + 1
    /\ UNCHANGED <<limiters, swapping, requests>>

----------------------------------------------------------------------------
Serve(h) ==
    \/ CheckEnabled(h) \/ Allow(h) \/ Method(h) \/ Body(h) \/ Select(h) \/ Write(h)
    \/ Panic(h) \/ Observe(h) \/ Log(h)

Swap ==
    \/ \E l \in Rates \cup {Off} : SwapBegin(l)
    \/ SwapLimits \/ SwapState \/ SwapGauge

Next ==
    \/ Swap \/ Tick
    \/ \E h \in Handlers :
          Serve(h) \/ \E c \in Clients : Arrive(h, c)

Spec == Init /\ [][Next]_vars

----------------------------------------------------------------------------
\* Properties.

Steps == {"limit", "allow", "method", "body", "select", "write", "observe", "log"}

Request == [pc : Steps \cup {"idle"}, client : Clients \cup {Off},
            start : Nat, version : Nat, judged : Nat, uses : SUBSET Nat]

Bucket == [limit : Rates, seen : Nat]

\* Every variable has the type of what it stands for.
TypeOK ==
    /\ state \in Nat \ {0}
    /\ enabled \in BOOLEAN /\ made \in BOOLEAN
    /\ limit \in Rates \cup {Off}
    /\ DOMAIN buckets \subseteq Clients
    /\ buckets \in [DOMAIN buckets -> Bucket]
    /\ swap \in [pc : {"idle", "limits", "state", "gauge"}, to : Nat \ {0},
                 limit : Rates \cup {Off}]
    /\ gauge \in Nat /\ limitsOf \in Nat
    /\ req \in [Handlers -> Request]
    /\ counted \in Nat /\ arrived \in Nat /\ clock \in Nat

\* What a request is captured, answered and logged under is one configuration,
\* whatever SwapConfig installs while its body arrives or its delay runs.
OneConfiguration == \A h \in Handlers : \A v, w \in req[h].uses : v = w

\* A request is never answered under a configuration whose limits were not yet
\* in force when it was let through: SwapConfig changes the limits first.
LimitsNotOlder ==
    \A h \in Handlers : req[h].judged # 0 => req[h].judged >= req[h].version

\* Between the two questions of the middleware limiting may be switched off,
\* and yet allow finds a map to put a bucket in.
BucketsThere == \A h \in Handlers : req[h].pc = "allow" => made

\* While limiting is on every client is held to the limits in force: those
\* whose bucket was made, or used, while limiting was being switched off and
\* on again as well.
BucketsFollow == enabled => \A c \in DOMAIN buckets : buckets[c].limit = limit

\* However many clients there are, however few of the sampled are stale, room
\* is made before a bucket is added.
ClientsBounded == Cardinality(DOMAIN buckets) <= MaxClients

\* Every request is counted once: refused, oversized, panicking or answered.
EveryRequestCounted ==
    arrived = counted
              + Cardinality({h \in Handlers : req[h].pc \notin {"idle", "log"}})

----------------------------------------------------------------------------
\* The inductive invariant behind them.

\* Limits that are on are limits, and have had their map made.
LimitsMade ==
    /\ enabled => made
    /\ made => limit \in Rates

\* The limits are at most one configuration ahead of the pointer, never behind.
VersionsInOrder ==
    /\ limitsOf = IF swap.pc = "state" THEN state + 1 ELSE state
    /\ swap.pc \in {"limits", "state"} => swap.to = state + 1
    /\ \A h \in Handlers : req[h].version <= state

\* A request in flight has used no configuration but the one it arrived under.
UsesOwn ==
    \A h \in Handlers : req[h].pc # "idle" => req[h].uses \subseteq {req[h].version}

ClientKnown == \A h \in Handlers : req[h].pc # "idle" => req[h].client \in Clients

BucketsFinite == IsFiniteSet(DOMAIN buckets) /\ ClientsBounded

IInv ==
    /\ TypeOK /\ ClientKnown /\ LimitsMade /\ VersionsInOrder /\ UsesOwn
    /\ OneConfiguration /\ LimitsNotOlder /\ BucketsThere /\ BucketsFollow
    /\ BucketsFinite

=============================================================================
