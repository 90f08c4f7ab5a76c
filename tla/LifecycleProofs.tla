-------------------------- MODULE LifecycleProofs --------------------------
(***************************************************************************)
(* Proofs about Lifecycle: what is counted and what is saved, what a       *)
(* server has done when it has ended, and what Run leaves behind, for any  *)
(* set of servers, any number of requests, saves, crashes and starts.      *)
(***************************************************************************)
EXTENDS Lifecycle, SequenceTheorems, FiniteSetTheorems, Recursion, TLAPS

LEMMA InitInvariant == Init => IInv
<1> SUFFICES ASSUME Init PROVE IInv
    OBVIOUS
<1> USE DEF Init, NoFile, NoCopy, NoSampler, Cancelled
<1>1. <<>> \in Seq(Nat)
    BY EmptySeq
<1>2. Stored
    BY <1>1 DEF Stored
<1>3. Behind
    BY DEF Behind
<1>4. Sampled
    BY DEF Sampled
<1>5. LastSave
    BY DEF LastSave
<1> QED
    BY <1>2, <1>3, <1>4, <1>5 DEF IInv

-----------------------------------------------------------------------------
(* The steps *)

\* What the ring holds after an append are samples.
LEMMA AppendedIs ==
    ASSUME NEW ring \in Seq(Nat), NEW sample \in Nat
    PROVE  Appended(ring, sample) \in Seq(Nat)
<1>1. CASE Len(ring) < FineCapacity
    BY <1>1, AppendProperties DEF Appended
<1>2. CASE ~(Len(ring) < FineCapacity) /\ ring # <<>>
    <2>1. Tail(ring) \in Seq(Nat)
        BY <1>2, HeadTailProperties
    <2> QED
        BY <1>2, <2>1, AppendProperties DEF Appended
<1>3. CASE ring = <<>>
    <2>1. Len(ring) < FineCapacity
        BY <1>3, EmptySeq, LifecycleBounds
    <2> QED
        BY <1>1, <2>1
<1> QED
    BY <1>1, <1>2, <1>3

LEMMA BootStep ==
    ASSUME IInv, Boot
    PROVE  IInv'
<1> USE DEF NoCopy, NoSampler, Cancelled
<1>1. /\ proc' = "running" /\ signalled' = FALSE /\ cancelled' = FALSE
      /\ due' = 0 /\ saveFailed' = FALSE
      /\ sampler' = NoSampler /\ saver' = NoCopy
      /\ served' = served /\ disk' = disk
    BY DEF Boot
<1>2. /\ counted' \in {disk.count, 0}
      /\ fine' \in {disk.fine, <<>>}
      /\ adminOn' => "saver" \in loops'
    <2>1. PICK cfg \in Configurations :
            /\ adminOn' = cfg.admin
            /\ loops' = IF cfg.admin THEN {"reload", "saver"} ELSE {"reload"}
            /\ counted' = IF cfg.admin THEN disk.count ELSE 0
            /\ fine' = IF cfg.admin THEN disk.fine ELSE <<>>
        BY Zenon DEF Boot, RestoredCount
    <2>2. CASE cfg.admin
        <3>1. loops' = {"reload", "saver"} /\ counted' = disk.count /\ fine' = disk.fine
            BY <2>1, <2>2, Zenon
        <3> QED
            BY <3>1
    <2>3. CASE ~cfg.admin
        <3>1. ~adminOn' /\ counted' = 0 /\ fine' = <<>>
            BY <2>1, <2>3, Zenon
        <3> QED
            BY <3>1
    <2> QED
        BY <2>2, <2>3
<1>3. <<>> \in Seq(Nat)
    BY EmptySeq
<1>4. Stored'
    <2>1. counted' \in Nat /\ served' \in Nat /\ due' \in Nat
        BY <1>1, <1>2 DEF IInv, Stored
    <2>2. fine' \in Seq(Nat)
        BY <1>2, <1>3 DEF IInv, Stored
    <2>3. saver' = [pc |-> "idle", last |-> FALSE, count |-> 0, fine |-> <<>>]
        BY <1>1
    <2> QED
        BY <1>1, <1>3, <2>1, <2>2, <2>3 DEF IInv, Stored
<1>5. Behind'
    BY <1>1, <1>2 DEF IInv, Stored, Behind
<1>6. Sampled'
    BY <1>1, <1>2, <1>4 DEF Stored, Sampled
<1>7. LastSave'
    BY <1>1, <1>2 DEF LastSave
<1> QED
    BY <1>4, <1>5, <1>6, <1>7 DEF IInv

LEMMA CrashStep ==
    ASSUME IInv, Crash
    PROVE  IInv'
<1> USE DEF NoCopy, NoSampler, Cancelled
<1>1. <<>> \in Seq(Nat)
    BY EmptySeq
<1>2. Stored'
    BY <1>1 DEF Crash, IInv, Stored
<1>3. Behind'
    BY DEF Crash, IInv, Stored, Behind
<1>4. Sampled'
    BY DEF Crash, Sampled
<1>5. LastSave'
    BY DEF Crash, LastSave
<1> QED
    BY <1>2, <1>3, <1>4, <1>5 DEF IInv

\* The steps that may end the context: what has been counted by then is due.
LEMMA CancelStep ==
    ASSUME IInv, Signal \/ RunWait \/ \E c \in Components : RunResult(c)
    PROVE  IInv'
<1>1. /\ due' = IF ~Cancelled /\ Cancelled' THEN counted ELSE due
      /\ Cancelled => Cancelled'
      /\ proc = "running" /\ proc' # "exited" /\ proc' # "down"
      /\ UNCHANGED <<loops, adminOn, metrics, history, store>>
    <2>1. CASE Signal
        BY <2>1 DEF Signal, run, Cancelled
    <2>2. CASE RunWait
        BY <2>2 DEF RunWait, Cancelled
    <2>3. ASSUME NEW c \in Components, RunResult(c)
          PROVE  /\ due' = IF ~Cancelled /\ Cancelled' THEN counted ELSE due
                 /\ Cancelled => Cancelled'
                 /\ proc = "running" /\ proc' # "exited" /\ proc' # "down"
                 /\ UNCHANGED <<loops, adminOn, metrics, history, store>>
        BY <2>3, Zenon DEF RunResult, run, Cancelled
    <2> QED
        BY <2>1, <2>2, <2>3
<1>2. /\ counted' = counted /\ served' = served /\ fine' = fine /\ sampler' = sampler
      /\ saver' = saver /\ disk' = disk /\ saveFailed' = saveFailed
    BY <1>1 DEF metrics, history, store
<1>3. Stored'
    BY <1>1, <1>2 DEF IInv, Stored
<1>4. Behind'
    BY <1>1, <1>2 DEF IInv, Stored, Behind
<1>5. Sampled'
    BY <1>2 DEF IInv, Sampled
<1>6. LastSave'
    BY <1>1, <1>2 DEF IInv, LastSave
<1> QED
    BY <1>3, <1>4, <1>5, <1>6 DEF IInv

LEMMA FinishStep ==
    ASSUME IInv, NEW c \in Servers, NEW l \in Listeners(c), Finish(c, l)
    PROVE  IInv'
<1>1. /\ \/ counted' = counted + 1 /\ served' = served + 1
         \/ counted' = counted /\ served' = served
      /\ UNCHANGED <<run, context, history, store>>
    BY DEF Finish, metrics
<1>2. /\ proc' = proc /\ adminOn' = adminOn /\ loops' = loops
      /\ signalled' = signalled /\ cancelled' = cancelled /\ due' = due
      /\ fine' = fine /\ sampler' = sampler
      /\ saver' = saver /\ disk' = disk /\ saveFailed' = saveFailed
    BY <1>1 DEF run, context, history, store
<1>3. Stored'
    BY <1>1, <1>2 DEF IInv, Stored
<1>4. Behind'
    BY <1>1, <1>2 DEF IInv, Stored, Behind, Cancelled
<1>5. Sampled'
    BY <1>1, <1>2 DEF IInv, Stored, Sampled
<1>6. LastSave'
    BY <1>2 DEF IInv, LastSave, Cancelled
<1> QED
    BY <1>3, <1>4, <1>5, <1>6 DEF IInv

LEMMA SamplerStep ==
    ASSUME IInv, SamplerStarts \/ SampleSnapshot \/ SampleRecord
    PROVE  IInv'
<1>1. UNCHANGED <<run, context, metrics, store>>
    BY DEF SamplerStarts, SampleSnapshot, SampleRecord
<1>2. /\ proc' = proc /\ adminOn' = adminOn /\ loops' = loops
      /\ signalled' = signalled /\ cancelled' = cancelled /\ due' = due
      /\ counted' = counted /\ served' = served
      /\ saver' = saver /\ disk' = disk /\ saveFailed' = saveFailed
    BY <1>1 DEF run, context, metrics, store
<1>3. fine' \in Seq(Nat) /\ Sampled'
    <2>1. CASE SamplerStarts
        <3>1. fine' = fine /\ sampler' = [prev |-> counted, cur |-> 0, pc |-> "idle"]
            BY <2>1 DEF SamplerStarts, FirstPrev, NoSampler
        <3> QED
            BY <1>2, <3>1 DEF IInv, Stored, Sampled
    <2>2. CASE SampleSnapshot
        <3>1. /\ fine' = fine
              /\ sampler' = [prev |-> sampler.prev, cur |-> counted, pc |-> "recording"]
            BY <2>2 DEF SampleSnapshot, IInv, Sampled
        <3> QED
            BY <1>2, <3>1 DEF IInv, Stored, Sampled
    <2>3. CASE SampleRecord
        <3>1. sampler.cur - sampler.prev \in Nat
            BY <2>3 DEF SampleRecord, IInv, Sampled
        <3>2. fine' \in Seq(Nat)
            BY <2>3, <3>1, AppendedIs DEF SampleRecord, IInv, Stored
        <3>3. Sampled'
            BY <1>2, <2>3 DEF SampleRecord, IInv, Stored, Sampled
        <3> QED
            BY <3>2, <3>3
    <2> QED
        BY <2>1, <2>2, <2>3
<1>4. Stored'
    BY <1>2, <1>3 DEF IInv, Stored
<1>5. Behind'
    BY <1>2 DEF IInv, Behind, Cancelled
<1>6. LastSave'
    BY <1>2 DEF IInv, LastSave, Cancelled
<1> QED
    BY <1>3, <1>4, <1>5, <1>6 DEF IInv

LEMMA SaverStep ==
    ASSUME IInv, Saver \/ SaveCounters(TRUE)
    PROVE  IInv'
<1>1. UNCHANGED <<proc, adminOn, context, metrics, history>>
    BY DEF Saver, SaveCounters, SaveSamples, SaveWrite, run
<1>2. /\ proc' = proc /\ adminOn' = adminOn /\ signalled' = signalled
      /\ cancelled' = cancelled /\ due' = due /\ counted' = counted
      /\ served' = served /\ fine' = fine /\ sampler' = sampler /\ Alive
    BY <1>1 DEF context, metrics, history, Saver, SaveCounters, SaveSamples, SaveWrite
<1>3. Sampled'
    BY <1>2 DEF IInv, Sampled
<1>4. ASSUME NEW last \in BOOLEAN, SaveCounters(last)
      PROVE  Stored' /\ Behind' /\ LastSave'
    <2>1. /\ "saver" \in loops /\ loops' = loops
          /\ disk' = disk /\ saveFailed' = saveFailed
          /\ last => Cancelled
          /\ saver' = [pc |-> "counters", last |-> last, count |-> counted, fine |-> <<>>]
        BY <1>4 DEF SaveCounters, run
    <2>2. Stored'
        BY <1>2, <2>1, EmptySeq DEF IInv, Stored
    <2>3. Behind'
        BY <1>2, <2>1 DEF IInv, Behind, Cancelled
    <2>4. LastSave'
        BY <1>2, <2>1 DEF IInv, Behind, LastSave, Cancelled
    <2> QED
        BY <2>2, <2>3, <2>4
<1>5. ASSUME SaveSamples
      PROVE  Stored' /\ Behind' /\ LastSave'
    <2>1. /\ saver.pc = "counters" /\ loops' = loops
          /\ disk' = disk /\ saveFailed' = saveFailed
          /\ saver' = [saver EXCEPT !.pc = "marshalled", !.fine = fine]
        BY <1>5 DEF SaveSamples, run
    <2>2. /\ saver'.pc = "marshalled" /\ saver'.last = saver.last
          /\ saver'.count = saver.count
          /\ saver' \in [pc : {"idle", "counters", "marshalled"}, last : BOOLEAN,
                         count : Nat, fine : Seq(Nat)]
        BY <2>1 DEF IInv, Stored
    <2>3. Stored'
        BY <1>2, <2>1, <2>2 DEF IInv, Stored
    <2>4. Behind'
        BY <1>2, <2>1, <2>2 DEF IInv, Behind, Cancelled
    <2>5. LastSave'
        BY <1>2, <2>1, <2>2 DEF IInv, LastSave, Cancelled
    <2> QED
        BY <2>3, <2>4, <2>5
<1>6. ASSUME NEW fails \in BOOLEAN, SaveWrite(fails)
      PROVE  Stored' /\ Behind' /\ LastSave'
    <2>1. /\ saver.pc = "marshalled" /\ saver' = NoCopy
          /\ disk' = Written \/ (fails /\ disk' = disk)
          /\ saveFailed' = fails
          /\ loops' = IF saver.last THEN loops \ {"saver"} ELSE loops
        BY <1>6 DEF SaveWrite
    <2>2. /\ disk' \in [there : BOOLEAN, count : Nat, fine : Seq(Nat)]
          /\ disk'.count <= served
          /\ ~fails => disk'.count = saver.count
        <3>1. CASE disk' = Written
            BY <3>1 DEF Written, IInv, Stored, Behind
        <3>2. CASE fails /\ disk' = disk
            BY <3>2 DEF IInv, Stored, Behind
        <3> QED
            BY <2>1, <3>1, <3>2
    <2>3. Stored'
        BY <1>2, <2>1, <2>2, EmptySeq DEF IInv, Stored, NoCopy
    <2>4. Behind'
        BY <1>2, <2>1, <2>2 DEF IInv, Stored, Behind, Cancelled, NoCopy
    <2>5. LastSave'
        <3>1. "saver" \in loops
            BY <2>1 DEF IInv, LastSave
        <3>2. proc # "exited"
            BY <1>2 DEF Alive
        <3>3. CASE saver.last
            <4>1. Cancelled' /\ due' <= saver.count
                BY <1>2, <3>3 DEF IInv, LastSave, Cancelled
            <4> QED
                BY <1>2, <2>1, <2>2, <3>2, <4>1 DEF LastSave, NoCopy
        <3>4. CASE ~saver.last
            BY <1>2, <2>1, <3>1, <3>2, <3>4 DEF LastSave, NoCopy
        <3> QED
            BY <3>3, <3>4
    <2> QED
        BY <2>3, <2>4, <2>5
<1> QED
    BY <1>3, <1>4, <1>5, <1>6 DEF Saver, IInv

\* The steps that leave the counters and the saver alone.
LEMMA OtherStep ==
    ASSUME IInv,
           UNCHANGED <<adminOn, context, metrics, history, store>>,
           \/ proc' = proc /\ loops' = loops
           \/ proc' = "exited" /\ loops = {} /\ loops' = {} /\ proc = "waiting"
           \/ proc' = proc /\ loops' = loops \ {"reload"} /\ proc # "exited"
    PROVE  IInv'
<1>1. /\ signalled' = signalled /\ cancelled' = cancelled /\ due' = due
      /\ counted' = counted /\ served' = served /\ fine' = fine /\ sampler' = sampler
      /\ saver' = saver /\ disk' = disk /\ saveFailed' = saveFailed
      /\ adminOn' = adminOn
    BY DEF context, metrics, history, store
<1>2. Stored'
    BY <1>1 DEF IInv, Stored
<1>3. Behind'
    BY <1>1 DEF IInv, Behind, Cancelled
<1>4. Sampled'
    BY <1>1 DEF IInv, Sampled
<1>5. LastSave'
    BY <1>1 DEF IInv, LastSave, Cancelled
<1> QED
    BY <1>2, <1>3, <1>4, <1>5 DEF IInv

LEMMA StepInvariant == IInv /\ [Next]_vars => IInv'
<1> SUFFICES ASSUME IInv, [Next]_vars PROVE IInv'
    OBVIOUS
<1>1. CASE Boot
    BY <1>1, BootStep
<1>2. CASE Crash
    BY <1>2, CrashStep
<1>3. CASE Signal \/ RunWait \/ \E c \in Components : RunResult(c)
    BY <1>3, CancelStep
<1>4. CASE RunReturn
    BY <1>4, OtherStep DEF RunReturn
<1>5. CASE ReloadEnds
    BY <1>5, OtherStep DEF ReloadEnds, Alive
<1>6. ASSUME NEW c \in Servers, Server(c)
      PROVE  IInv'
    <2>1. UNCHANGED <<run, context, metrics, history, store>>
        BY <1>6, Zenon
           DEF Server, Start, SeesCancel, SeesError, Shutdown, Drained, DrainTimeout,
               ShutdownEnds, Collect, Return, SetComp
    <2>2. UNCHANGED <<adminOn, context, metrics, history, store>>
        BY <2>1 DEF run
    <2>3. proc' = proc /\ loops' = loops
        BY <2>1 DEF run
    <2> QED
        BY <2>2, <2>3, OtherStep
<1>7. ASSUME NEW c \in Servers, NEW l \in Listeners(c),
             Arrive(c, l) \/ Finish(c, l) \/ ServeFails(c, l)
      PROVE  IInv'
    <2>1. CASE Finish(c, l)
        BY <2>1, FinishStep
    <2>2. CASE Arrive(c, l) \/ ServeFails(c, l)
        <3>1. UNCHANGED <<run, context, metrics, history, store>>
            BY <2>2, Zenon DEF Arrive, ServeFails, SetComp
        <3>2. UNCHANGED <<adminOn, context, metrics, history, store>>
            BY <3>1 DEF run
        <3>3. proc' = proc /\ loops' = loops
            BY <3>1 DEF run
        <3> QED
            BY <3>2, <3>3, OtherStep
    <2> QED
        BY <1>7, <2>1, <2>2
<1>8. CASE SamplerStarts \/ SampleSnapshot \/ SampleRecord
    BY <1>8, SamplerStep
<1>9. CASE SamplerStops
    <2>1. UNCHANGED <<adminOn, context, metrics, history, store>>
        BY <1>9 DEF SamplerStops, run
    <2>2. proc' = proc /\ loops' = loops
        BY <1>9 DEF SamplerStops, run
    <2> QED
        BY <2>1, <2>2, OtherStep
<1>10. CASE Saver \/ SaveCounters(TRUE)
    BY <1>10, SaverStep
<1>11. CASE UNCHANGED vars
    <2>1. UNCHANGED <<adminOn, context, metrics, history, store>>
        BY <1>11 DEF vars, run
    <2>2. proc' = proc /\ loops' = loops
        BY <1>11 DEF vars, run
    <2> QED
        BY <2>1, <2>2, OtherStep
<1> QED
    BY <1>1, <1>2, <1>3, <1>4, <1>5, <1>6, <1>7, <1>8, <1>9, <1>10, <1>11 DEF Next

\* The inductive invariant of the counters, the samples and the saver: whatever is
\* served, saved, crashed, stopped and started, in any order and any number of times.
THEOREM Invariant == Spec => []IInv
BY InitInvariant, StepInvariant, PTL DEF Spec

\* RestoreState and MarshalState never make more of the requests than there were.
THEOREM CountsAreHonest == Spec => []CountsHonest
<1>1. IInv => CountsHonest
    BY DEF IInv, Behind, CountsHonest
<1> QED
    BY <1>1, Invariant, PTL

\* The last save of a process that stops in order holds every request counted when
\* it was told to stop.
THEOREM LastSaveIsComplete == Spec => []FinalSave
<1>1. IInv => FinalSave
    BY DEF IInv, Stored, LastSave, FinalSave
<1> QED
    BY <1>1, Invariant, PTL

-----------------------------------------------------------------------------
(* The components and their shutdown *)

\* What Server.Serve sends for the listeners that are closed under it.
LEMMA ClosedIs ==
    ASSUME NEW c \in Servers, NEW ls \in SUBSET Listeners(c), NEW s \in Seq({"fatal", "closed"})
    PROVE  s \o Closed(c, ls) \in Seq({"fatal", "closed"})
<1>1. IsFiniteSet(Listeners(c))
  BY ServersAssumption, FS_Interval DEF Listeners
<1>2. IsFiniteSet(ls)
  BY <1>1, FS_Subset
<1>3. Cardinality(ls) \in Nat
  BY <1>2, FS_CardinalityType
<1>4. Closed(c, ls) \in Seq({"fatal", "closed"})
  BY <1>3 DEF Closed
<1> QED BY <1>4, ConcatProperties

\* One server: each of its actions leaves it sound, whatever the others do.  It is
\* bound and serves, ...
LEMMA Started ==
    ASSUME NEW c \in Servers, NEW r, Sound(c, r),
           r.pc = "starting"
    PROVE  /\ Sound(c, [r EXCEPT !.pc = "serving", !.open = Listeners(c),
                  !.active = [l \in Listeners(c) |-> 0]])
           /\ [r EXCEPT !.pc = "serving", !.open = Listeners(c),
                  !.active = [l \in Listeners(c) |-> 0]].pc = "serving"
<1> DEFINE n == [r EXCEPT !.pc = "serving", !.open = Listeners(c),
               !.active = [l \in Listeners(c) |-> 0]]
<1>1. r \in ServerRecord(c) /\ c \in Servers /\ Width[c] \in Nat \ {0}
  BY ServersAssumption DEF Sound
<1>2. n.pc = "serving" /\ n.open = Listeners(c) /\ n.active = [l \in Listeners(c) |-> 0]
          /\ n.errs = r.errs /\ n.at = r.at /\ n.need = r.need /\ n.err = r.err
  BY <1>1 DEF ServerRecord
<1>3. "serving" \in ServerPcs /\ Listeners(c) \in SUBSET Listeners(c)
          /\ [l \in Listeners(c) |-> 0] \in {<<>>} \cup [Listeners(c) -> Nat]
  BY <1>1 DEF ServerRecord, ServerPcs, Listeners, Sound, Ends
<1>4. n \in ServerRecord(c)
  BY <1>1, <1>3, Zenon DEF ServerRecord
<1> HIDE DEF n
<1>5. Sound(c, n)
  BY <1>1, <1>2, <1>4 DEF Sound, Ends, ServerRecord, Listeners
<1> QED BY <1>2, <1>5 DEF n

LEMMA StartFailed ==
    ASSUME NEW c \in Servers, NEW r, Sound(c, r),
           r.pc = "starting"
    PROVE  /\ Sound(c, [r EXCEPT !.pc = "returning", !.err = TRUE])
           /\ [r EXCEPT !.pc = "returning", !.err = TRUE].pc = "returning"
<1> DEFINE n == [r EXCEPT !.pc = "returning", !.err = TRUE]
<1>1. r \in ServerRecord(c) /\ c \in Servers /\ Width[c] \in Nat \ {0}
  BY ServersAssumption DEF Sound
<1>2. n.pc = "returning" /\ n.open = r.open /\ n.active = r.active /\ n.errs = r.errs
          /\ n.at = r.at /\ n.need = r.need /\ n.err = TRUE
  BY <1>1 DEF ServerRecord
<1>3. "returning" \in ServerPcs /\ TRUE \in BOOLEAN
  BY <1>1 DEF ServerRecord, ServerPcs, Listeners, Sound, Ends
<1>4. n \in ServerRecord(c)
  BY <1>1, <1>3, Zenon DEF ServerRecord
<1> HIDE DEF n
<1>5. Sound(c, n)
  BY <1>1, <1>2, <1>4 DEF Sound, Ends, ServerRecord, Listeners
<1> QED BY <1>2, <1>5 DEF n

LEMMA NotEnabled ==
    ASSUME NEW c \in Servers, NEW r, Sound(c, r),
           r.pc = "starting"
    PROVE  /\ Sound(c, [r EXCEPT !.pc = "returning"])
           /\ [r EXCEPT !.pc = "returning"].pc = "returning"
<1> DEFINE n == [r EXCEPT !.pc = "returning"]
<1>1. r \in ServerRecord(c) /\ c \in Servers /\ Width[c] \in Nat \ {0}
  BY ServersAssumption DEF Sound
<1>2. n.pc = "returning" /\ n.open = r.open /\ n.active = r.active /\ n.errs = r.errs
          /\ n.at = r.at /\ n.need = r.need /\ n.err = r.err
  BY <1>1 DEF ServerRecord
<1>3. "returning" \in ServerPcs
  BY <1>1 DEF ServerRecord, ServerPcs, Listeners, Sound, Ends
<1>4. n \in ServerRecord(c)
  BY <1>1, <1>3, Zenon DEF ServerRecord
<1> HIDE DEF n
<1>5. Sound(c, n)
  BY <1>1, <1>2, <1>4 DEF Sound, Ends, ServerRecord, Listeners
<1> QED BY <1>2, <1>5 DEF n

LEMMA ServeFailed ==
    ASSUME NEW c \in Servers, NEW r, Sound(c, r), NEW l \in r.open
    PROVE  /\ Sound(c, [r EXCEPT !.open = @ \ {l}, !.errs = Append(@, "fatal")])
           /\ [r EXCEPT !.open = @ \ {l}, !.errs = Append(@, "fatal")].pc = r.pc
<1> DEFINE n == [r EXCEPT !.open = @ \ {l}, !.errs = Append(@, "fatal")]
<1>1. r \in ServerRecord(c) /\ c \in Servers /\ Width[c] \in Nat \ {0}
  BY ServersAssumption DEF Sound
<1>2. n.pc = r.pc /\ n.open = r.open \ {l} /\ n.active = r.active
          /\ n.errs = Append(r.errs, "fatal") /\ n.at = r.at /\ n.need = r.need
                 /\ n.err = r.err
  BY <1>1 DEF ServerRecord
<1>3. r.open \ {l} \in SUBSET Listeners(c)
          /\ Append(r.errs, "fatal") \in Seq({"fatal", "closed"})
  BY <1>1 DEF ServerRecord, ServerPcs, Listeners, Sound, Ends
<1>4. n \in ServerRecord(c)
  BY <1>1, <1>3, Zenon DEF ServerRecord
<1> HIDE DEF n
<1>5. Sound(c, n)
  BY <1>1, <1>2, <1>4 DEF Sound, Ends, ServerRecord, Listeners
<1> QED BY <1>2, <1>5 DEF n

LEMMA Cancelling ==
    ASSUME NEW c \in Servers, NEW r, Sound(c, r),
           r.pc = "serving"
    PROVE  /\ Sound(c, [r EXCEPT !.pc = "shutting", !.at = 1, !.need = Width[c]])
           /\ [r EXCEPT !.pc = "shutting", !.at = 1, !.need = Width[c]].pc = "shutting"
<1> DEFINE n == [r EXCEPT !.pc = "shutting", !.at = 1, !.need = Width[c]]
<1>1. r \in ServerRecord(c) /\ c \in Servers /\ Width[c] \in Nat \ {0}
  BY ServersAssumption DEF Sound
<1>2. n.pc = "shutting" /\ n.open = r.open /\ n.active = r.active /\ n.errs = r.errs
          /\ n.at = 1 /\ n.need = Width[c] /\ n.err = r.err
  BY <1>1 DEF ServerRecord
<1>3. "shutting" \in ServerPcs /\ 1 \in Nat /\ Width[c] \in Nat
  BY <1>1 DEF ServerRecord, ServerPcs, Listeners, Sound, Ends
<1>4. n \in ServerRecord(c)
  BY <1>1, <1>3, Zenon DEF ServerRecord
<1> HIDE DEF n
<1>5. Sound(c, n)
  BY <1>1, <1>2, <1>4 DEF Sound, Ends, ServerRecord, Listeners
<1> QED BY <1>2, <1>5 DEF n

LEMMA PublicError ==
    ASSUME NEW c \in Servers, NEW r, Sound(c, r),
           r.pc = "serving",
           r.errs # <<>>
    PROVE  /\ Sound(c, [r EXCEPT !.pc = "collecting", !.open = {},
                  !.errs = Tail(r.errs) \o Closed(c, r.open), !.need = Width[c] - 1,
                    !.err = TRUE])
           /\ [r EXCEPT !.pc = "collecting", !.open = {},
                  !.errs = Tail(r.errs) \o Closed(c, r.open), !.need = Width[c] - 1,
                    !.err = TRUE].pc = "collecting"
<1> DEFINE n == [r EXCEPT !.pc = "collecting", !.open = {},
               !.errs = Tail(r.errs) \o Closed(c, r.open), !.need = Width[c] - 1,
                   !.err = TRUE]
<1>1. r \in ServerRecord(c) /\ c \in Servers /\ Width[c] \in Nat \ {0}
  BY ServersAssumption DEF Sound
<1>2. n.pc = "collecting" /\ n.open = {} /\ n.active = r.active
          /\ n.errs = Tail(r.errs) \o Closed(c, r.open) /\ n.at = r.at
                 /\ n.need = Width[c] - 1 /\ n.err = TRUE
  BY <1>1 DEF ServerRecord
<1>3. Tail(r.errs) \in Seq({"fatal", "closed"}) /\ r.open \in SUBSET Listeners(c)
  BY <1>1 DEF ServerRecord
<1>4. Tail(r.errs) \o Closed(c, r.open) \in Seq({"fatal", "closed"})
  BY <1>3, ClosedIs
<1>5. "collecting" \in ServerPcs /\ {} \in SUBSET Listeners(c)
          /\ Tail(r.errs) \o Closed(c, r.open) \in Seq({"fatal", "closed"})
                 /\ Width[c] - 1 \in Nat /\ TRUE \in BOOLEAN
  BY <1>1, <1>4 DEF ServerRecord, ServerPcs, Listeners, Sound, Ends
<1>6. n \in ServerRecord(c)
  BY <1>1, <1>5, Zenon DEF ServerRecord
<1> HIDE DEF n
<1>7. Sound(c, n)
  BY <1>1, <1>2, <1>6, <1>4 DEF Sound, Ends, ServerRecord, Listeners
<1> QED BY <1>2, <1>7 DEF n

LEMMA AdminError ==
    ASSUME NEW c \in Servers, NEW r, Sound(c, r),
           r.pc = "serving",
           r.errs # <<>>
    PROVE  /\ Sound(c, [r EXCEPT !.pc = "shutting", !.errs = Tail(r.errs), !.at = 1,
                  !.need = Width[c] - 1, !.err = TRUE])
           /\ [r EXCEPT !.pc = "shutting", !.errs = Tail(r.errs), !.at = 1,
                  !.need = Width[c] - 1, !.err = TRUE].pc = "shutting"
<1> DEFINE n == [r EXCEPT !.pc = "shutting", !.errs = Tail(r.errs), !.at = 1,
               !.need = Width[c] - 1, !.err = TRUE]
<1>1. r \in ServerRecord(c) /\ c \in Servers /\ Width[c] \in Nat \ {0}
  BY ServersAssumption DEF Sound
<1>2. n.pc = "shutting" /\ n.open = r.open /\ n.active = r.active
          /\ n.errs = Tail(r.errs) /\ n.at = 1 /\ n.need = Width[c] - 1 /\ n.err = TRUE
  BY <1>1 DEF ServerRecord
<1>3. "shutting" \in ServerPcs /\ Tail(r.errs) \in Seq({"fatal", "closed"}) /\ 1 \in Nat
          /\ Width[c] - 1 \in Nat /\ TRUE \in BOOLEAN
  BY <1>1 DEF ServerRecord, ServerPcs, Listeners, Sound, Ends
<1>4. n \in ServerRecord(c)
  BY <1>1, <1>3, Zenon DEF ServerRecord
<1> HIDE DEF n
<1>5. Sound(c, n)
  BY <1>1, <1>2, <1>4 DEF Sound, Ends, ServerRecord, Listeners
<1> QED BY <1>2, <1>5 DEF n

LEMMA ManagementError ==
    ASSUME NEW c \in Servers, NEW r, Sound(c, r),
           r.pc = "serving",
           r.errs # <<>>,
           c = "management"
    PROVE  /\ Sound(c, [r EXCEPT !.pc = "returning", !.errs = Tail(r.errs), !.err = TRUE])
           /\ [r EXCEPT !.pc = "returning", !.errs = Tail(r.errs),
                  !.err = TRUE].pc = "returning"
<1> DEFINE n == [r EXCEPT !.pc = "returning", !.errs = Tail(r.errs), !.err = TRUE]
<1>1. r \in ServerRecord(c) /\ c \in Servers /\ Width[c] \in Nat \ {0}
  BY ServersAssumption DEF Sound
<1>2. n.pc = "returning" /\ n.open = r.open /\ n.active = r.active
          /\ n.errs = Tail(r.errs) /\ n.at = r.at /\ n.need = r.need /\ n.err = TRUE
  BY <1>1 DEF ServerRecord
<1>3. Listeners(c) = {1} /\ r.open = {}
  <2>1. Listeners(c) = {1}
    BY ServersAssumption DEF Listeners
  <2>2. r.open \subseteq {1} /\ r.open # {1}
    BY <1>1, <2>1 DEF Sound, ServerRecord
  <2> QED BY <2>1, <2>2
<1>4. "returning" \in ServerPcs /\ Tail(r.errs) \in Seq({"fatal", "closed"})
          /\ TRUE \in BOOLEAN
  BY <1>1, <1>3 DEF ServerRecord, ServerPcs, Listeners, Sound, Ends
<1>5. n \in ServerRecord(c)
  BY <1>1, <1>4, Zenon DEF ServerRecord
<1> HIDE DEF n
<1>6. Sound(c, n)
  BY <1>1, <1>2, <1>5, <1>3 DEF Sound, Ends, ServerRecord, Listeners
<1> QED BY <1>2, <1>6 DEF n

LEMMA ShutDown ==
    ASSUME NEW c \in Servers, NEW r, Sound(c, r), NEW b,
           r.pc = "shutting",
           r.at <= Width[c],
           b = IF c = "admin" THEN Listeners(c) ELSE {r.at}
    PROVE  /\ Sound(c, [r EXCEPT !.pc = "draining", !.open = r.open \ b,
                  !.errs = r.errs \o Closed(c, r.open \cap b)])
           /\ [r EXCEPT !.pc = "draining", !.open = r.open \ b,
                  !.errs = r.errs \o Closed(c, r.open \cap b)].pc = "draining"
<1> DEFINE n == [r EXCEPT !.pc = "draining", !.open = r.open \ b,
               !.errs = r.errs \o Closed(c, r.open \cap b)]
<1>1. r \in ServerRecord(c) /\ c \in Servers /\ Width[c] \in Nat \ {0}
  BY ServersAssumption DEF Sound
<1>2. n.pc = "draining" /\ n.open = r.open \ b /\ n.active = r.active
          /\ n.errs = r.errs \o Closed(c, r.open \cap b) /\ n.at = r.at
                 /\ n.need = r.need /\ n.err = r.err
  BY <1>1 DEF ServerRecord
<1>3. r.errs \in Seq({"fatal", "closed"}) /\ r.open \cap b \in SUBSET Listeners(c)
  BY <1>1 DEF ServerRecord
<1>4. r.errs \o Closed(c, r.open \cap b) \in Seq({"fatal", "closed"})
  BY <1>3, ClosedIs
<1>5. "draining" \in ServerPcs /\ r.open \ b \in SUBSET Listeners(c)
          /\ r.errs \o Closed(c, r.open \cap b) \in Seq({"fatal", "closed"})
  BY <1>1, <1>4 DEF ServerRecord, ServerPcs, Listeners, Sound, Ends
<1>6. n \in ServerRecord(c)
  BY <1>1, <1>5, Zenon DEF ServerRecord
<1> HIDE DEF n
<1>7. Sound(c, n)
  BY <1>1, <1>2, <1>6, <1>4 DEF Sound, Ends, ServerRecord, Listeners
<1> QED BY <1>2, <1>7 DEF n

LEMMA DrainedAll ==
    ASSUME NEW c \in Servers, NEW r, Sound(c, r), NEW next,
           r.pc = "draining",
           c = "admin" => \A l \in Listeners(c) : r.active[l] = 0,
           c # "admin" => r.active[r.at] = 0,
           c = "admin" => next = Width[c] + 1,
           c # "admin" => next = r.at + 1
    PROVE  /\ Sound(c, [r EXCEPT !.pc = "shutting", !.at = next])
           /\ [r EXCEPT !.pc = "shutting", !.at = next].pc = "shutting"
<1> DEFINE n == [r EXCEPT !.pc = "shutting", !.at = next]
<1>1. r \in ServerRecord(c) /\ c \in Servers /\ Width[c] \in Nat \ {0}
  BY ServersAssumption DEF Sound
<1>2. n.pc = "shutting" /\ n.open = r.open /\ n.active = r.active /\ n.errs = r.errs
          /\ n.at = next /\ n.need = r.need /\ n.err = r.err
  BY <1>1 DEF ServerRecord
<1>3. "shutting" \in ServerPcs /\ next \in Nat
  BY <1>1 DEF ServerRecord, ServerPcs, Listeners, Sound, Ends
<1>4. n \in ServerRecord(c)
  BY <1>1, <1>3, Zenon DEF ServerRecord
<1> HIDE DEF n
<1>5. Sound(c, n)
  BY <1>1, <1>2, <1>4 DEF Sound, Ends, ServerRecord, Listeners
<1> QED BY <1>2, <1>5 DEF n

LEMMA AllShutDown ==
    ASSUME NEW c \in Servers, NEW r, Sound(c, r),
           r.pc = "shutting",
           r.at > Width[c]
    PROVE  /\ Sound(c, [r EXCEPT !.pc = "collecting"])
           /\ [r EXCEPT !.pc = "collecting"].pc = "collecting"
<1> DEFINE n == [r EXCEPT !.pc = "collecting"]
<1>1. r \in ServerRecord(c) /\ c \in Servers /\ Width[c] \in Nat \ {0}
  BY ServersAssumption DEF Sound
<1>2. n.pc = "collecting" /\ n.open = r.open /\ n.active = r.active /\ n.errs = r.errs
          /\ n.at = r.at /\ n.need = r.need /\ n.err = r.err
  BY <1>1 DEF ServerRecord
<1>3. "collecting" \in ServerPcs
  BY <1>1 DEF ServerRecord, ServerPcs, Listeners, Sound, Ends
<1>4. n \in ServerRecord(c)
  BY <1>1, <1>3, Zenon DEF ServerRecord
<1> HIDE DEF n
<1>5. Sound(c, n)
  BY <1>1, <1>2, <1>4, SMTT(30) DEF Sound, Ends, ServerRecord, Listeners
<1> QED BY <1>2, <1>5 DEF n

LEMMA Collected ==
    ASSUME NEW c \in Servers, NEW r, Sound(c, r), NEW err \in BOOLEAN,
           r.pc = "collecting",
           r.need > 0,
           r.errs # <<>>,
           r.err => err
    PROVE  /\ Sound(c, [r EXCEPT !.errs = Tail(r.errs), !.need = r.need - 1, !.err = err])
           /\ [r EXCEPT !.errs = Tail(r.errs), !.need = r.need - 1, !.err = err].pc = r.pc
<1> DEFINE n == [r EXCEPT !.errs = Tail(r.errs), !.need = r.need - 1, !.err = err]
<1>1. r \in ServerRecord(c) /\ c \in Servers /\ Width[c] \in Nat \ {0}
  BY ServersAssumption DEF Sound
<1>2. n.pc = r.pc /\ n.open = r.open /\ n.active = r.active /\ n.errs = Tail(r.errs)
          /\ n.at = r.at /\ n.need = r.need - 1 /\ n.err = err
  BY <1>1 DEF ServerRecord
<1>3. Tail(r.errs) \in Seq({"fatal", "closed"}) /\ r.need - 1 \in Nat /\ err \in BOOLEAN
  BY <1>1 DEF ServerRecord, ServerPcs, Listeners, Sound, Ends
<1>4. n \in ServerRecord(c)
  BY <1>1, <1>3, Zenon DEF ServerRecord
<1> HIDE DEF n
<1>5. Sound(c, n)
  BY <1>1, <1>2, <1>4 DEF Sound, Ends, ServerRecord, Listeners
<1> QED BY <1>2, <1>5 DEF n

LEMMA ReturnedOrDone ==
    ASSUME NEW c \in Servers, NEW r, Sound(c, r), NEW pc,
           r.pc \in Ends,
           pc \in {"returned", "done"}
    PROVE  /\ Sound(c, [r EXCEPT !.pc = pc])
           /\ [r EXCEPT !.pc = pc].pc = pc
<1> DEFINE n == [r EXCEPT !.pc = pc]
<1>1. r \in ServerRecord(c) /\ c \in Servers /\ Width[c] \in Nat \ {0}
  BY ServersAssumption DEF Sound
<1>2. n.pc = pc /\ n.open = r.open /\ n.active = r.active /\ n.errs = r.errs
          /\ n.at = r.at /\ n.need = r.need /\ n.err = r.err
  BY <1>1 DEF ServerRecord
<1>3. pc \in ServerPcs
  BY <1>1 DEF ServerRecord, ServerPcs, Listeners, Sound, Ends
<1>4. n \in ServerRecord(c)
  BY <1>1, <1>3, Zenon DEF ServerRecord
<1> HIDE DEF n
<1>5. Sound(c, n)
  BY <1>1, <1>2, <1>4 DEF Sound, Ends, ServerRecord, Listeners
<1> QED BY <1>2, <1>5 DEF n

LEMMA Arrived ==
    ASSUME NEW c \in Servers, NEW r, Sound(c, r), NEW l \in r.open
    PROVE  /\ Sound(c, [r EXCEPT !.active[l] = @ + 1])
           /\ [r EXCEPT !.active[l] = @ + 1].pc = r.pc /\ [r EXCEPT
                  !.active[l] = @ + 1].err = r.err
<1> DEFINE n == [r EXCEPT !.active[l] = @ + 1]
<1>1. /\ r \in ServerRecord(c) /\ r.active \in [Listeners(c) -> Nat] /\ l \in Listeners(c)
      /\ r.pc \in {"serving", "shutting", "draining"}
  BY DEF Sound, ServerRecord, ServerPcs, Ends
<1>2. /\ n.pc = r.pc /\ n.open = r.open /\ n.errs = r.errs /\ n.at = r.at
      /\ n.need = r.need /\ n.err = r.err
      /\ n.active = [r.active EXCEPT ![l] = r.active[l] + 1]
  BY <1>1 DEF ServerRecord
<1>3. n.active \in [Listeners(c) -> Nat]
          /\ \A k \in Listeners(c) \ {l} : n.active[k] = r.active[k]
  BY <1>1, <1>2
<1>4. n \in ServerRecord(c)
  <2>1. r.active[l] + 1 \in Nat
            /\ [r.active EXCEPT ![l] = r.active[l] + 1] \in [Listeners(c) -> Nat]
    BY <1>1
  <2>2. n = [r EXCEPT !.active = [r.active EXCEPT ![l] = r.active[l] + 1]]
    OBVIOUS
  <2> QED BY <1>1, <2>1, <2>2, Zenon DEF ServerRecord
<1> HIDE DEF n
<1>5. Sound(c, n)
  BY <1>1, <1>2, <1>3, <1>4 DEF Sound, Ends
<1> QED BY <1>2, <1>5 DEF n

LEMMA Served ==
    ASSUME NEW c \in Servers, NEW r, Sound(c, r), NEW l \in DOMAIN r.active, r.active[l] > 0
    PROVE  /\ Sound(c, [r EXCEPT !.active[l] = @ - 1])
           /\ [r EXCEPT !.active[l] = @ - 1].pc = r.pc /\ [r EXCEPT
                  !.active[l] = @ - 1].err = r.err
<1> DEFINE n == [r EXCEPT !.active[l] = @ - 1]
<1>1. r \in ServerRecord(c) /\ r.active \in [Listeners(c) -> Nat] /\ l \in Listeners(c)
  BY DEF Sound, ServerRecord
<1>2. /\ n.pc = r.pc /\ n.open = r.open /\ n.errs = r.errs /\ n.at = r.at
      /\ n.need = r.need /\ n.err = r.err
      /\ n.active = [r.active EXCEPT ![l] = r.active[l] - 1]
  BY <1>1 DEF ServerRecord
<1>3. n.active \in [Listeners(c) -> Nat]
          /\ \A k \in Listeners(c) \ {l} : n.active[k] = r.active[k]
  BY <1>1, <1>2
<1>4. n \in ServerRecord(c)
  <2>1. [r.active EXCEPT ![l] = r.active[l] - 1] \in [Listeners(c) -> Nat]
    BY <1>1, <1>2, <1>3
  <2>2. n = [r EXCEPT !.active = [r.active EXCEPT ![l] = r.active[l] - 1]]
    OBVIOUS
  <2> QED BY <1>1, <2>1, <2>2, Zenon DEF ServerRecord
<1> HIDE DEF n
<1>5. Sound(c, n)
  <2>1. n.active # <<>> /\ r.active # <<>>
    BY <1>1, <1>3
  <2> QED BY <1>1, <1>2, <1>3, <1>4, <2>1 DEF Sound, Ends
<1> QED BY <1>2, <1>5 DEF n

\* The record of server c becomes r, and its result may be on its way.
Moved(c, r) ==
    /\ Sound(c, r) /\ comp' = [comp EXCEPT ![c] = r] /\ UNCHANGED <<proc, runErr>>
    /\ \/ results' = results /\ r.pc = comp[c].pc /\ r.err = comp[c].err
       \/ /\ comp[c].pc \notin {"absent", "returned", "done"}
          /\ r.pc \notin {"absent", "done"}
          /\ (results' = results) \/ (results' = results \cup {c} /\ r.pc = "returned")

\* It keeps the other servers and the results as they should be.
LEMMA Change ==
    ASSUME CInv, NEW c \in Servers, NEW r, Moved(c, r)
    PROVE  CInv'
<1> USE DEF Moved
<1>1. /\ comp' = [d \in Components |-> comp'[d]] /\ comp'[c] = r
      /\ \A d \in Components \ {c} : comp'[d] = comp[d]
      /\ c \in Components /\ c # "sampler" /\ "sampler" \in Components
  BY ServersAssumption DEF CInv, Components
<1>2. \A d \in Servers : Sound(d, comp'[d])
  BY <1>1 DEF CInv, Components
<1>3. SamplerSound(comp'["sampler"])
  BY <1>1 DEF CInv
<1>4. Results'
  <2>1. results' \subseteq Components /\ \A d \in results' : comp'[d].pc = "returned"
    BY <1>1 DEF CInv, Results
  <2>2. proc' \in {"waiting", "exited"} =>
           \A d \in Components : comp'[d].pc \in {"absent", "done"}
    BY <1>1 DEF CInv, Results
  <2>3. runErr' <=> \E d \in Components : comp'[d].pc = "done" /\ comp'[d].err
    BY <1>1 DEF CInv, Results
  <2> QED BY <2>1, <2>2, <2>3 DEF Results
<1> QED BY <1>1, <1>2, <1>3, <1>4 DEF CInv

LEMMA ServerStep ==
    ASSUME CInv, NEW c \in Servers, Server(c)
    PROVE  CInv'
<1> DEFINE r == comp[c]
<1>1. /\ Sound(c, r) /\ UNCHANGED <<proc, runErr>> /\ Width[c] \in Nat \ {0}
      /\ r.need \in Nat /\ r.at \in Nat /\ r.err \in BOOLEAN
  <2>1. UNCHANGED <<proc, runErr>>
    BY DEF Server, Start, SeesCancel, SeesError, Shutdown, Drained, DrainTimeout, ShutdownEnds,
           Collect, Return, SetComp, run
  <2> QED BY <2>1, ServersAssumption DEF CInv, Sound, ServerRecord
<1>2. CASE Start(c)
  <2>1. CASE comp' = [comp EXCEPT ![c] = [r EXCEPT !.pc = "serving",
                 !.open = Listeners(c), !.active = [l \in Listeners(c) |-> 0]]]
    <3> DEFINE n == [r EXCEPT !.pc = "serving", !.open = Listeners(c),
                   !.active = [l \in Listeners(c) |-> 0]]
    <3>1. comp' = [comp EXCEPT ![c] = n] /\ results' = results /\ r.pc = "starting"
      BY <1>1, <1>2, <2>1, Zenon DEF Start, SetComp
    <3>3. Sound(c, n) /\ n.pc = "serving"
      BY <1>1, <3>1, Started
    <3> HIDE DEF n
    <3>4. Moved(c, n)
      BY <1>1, <3>1, <3>3 DEF Moved
    <3> QED BY <3>4, Change
  <2>2. CASE comp' = [comp EXCEPT ![c] = [r EXCEPT !.pc = "returning", !.err = TRUE]]
    <3> DEFINE n == [r EXCEPT !.pc = "returning", !.err = TRUE]
    <3>1. comp' = [comp EXCEPT ![c] = n] /\ results' = results /\ r.pc = "starting"
      BY <1>1, <1>2, <2>2, Zenon DEF Start, SetComp
    <3>3. Sound(c, n) /\ n.pc = "returning"
      BY <1>1, <3>1, StartFailed
    <3> HIDE DEF n
    <3>4. Moved(c, n)
      BY <1>1, <3>1, <3>3 DEF Moved
    <3> QED BY <3>4, Change
  <2>3. CASE comp' = [comp EXCEPT ![c] = [r EXCEPT !.pc = "returning"]]
    <3> DEFINE n == [r EXCEPT !.pc = "returning"]
    <3>1. comp' = [comp EXCEPT ![c] = n] /\ results' = results /\ r.pc = "starting"
      BY <1>1, <1>2, <2>3, Zenon DEF Start, SetComp
    <3>3. Sound(c, n) /\ n.pc = "returning"
      BY <1>1, <3>1, NotEnabled
    <3> HIDE DEF n
    <3>4. Moved(c, n)
      BY <1>1, <3>1, <3>3 DEF Moved
    <3> QED BY <3>4, Change
  <2> QED BY <1>1, <1>2, <2>1, <2>2, <2>3 DEF Start, SetComp
<1>3. CASE SeesCancel(c)
  <2> DEFINE n == [r EXCEPT !.pc = "shutting", !.at = 1, !.need = Width[c]]
  <2>1. comp' = [comp EXCEPT ![c] = n] /\ results' = results /\ r.pc = "serving"
    BY <1>1, <1>3, Zenon DEF SeesCancel, SetComp
  <2>3. Sound(c, n) /\ n.pc = "shutting"
    BY <1>1, <2>1, Cancelling
  <2> HIDE DEF n
  <2>4. Moved(c, n)
    BY <1>1, <2>1, <2>3 DEF Moved
  <2> QED BY <2>4, Change
<1>4. CASE SeesError(c)
  <2>1. CASE comp' = [comp EXCEPT ![c] = [r EXCEPT !.pc = "collecting", !.open = {},
                 !.errs = Tail(r.errs) \o Closed(c, r.open), !.need = Width[c] - 1,
                    !.err = TRUE]]
    <3> DEFINE n == [r EXCEPT !.pc = "collecting", !.open = {},
                   !.errs = Tail(r.errs) \o Closed(c, r.open), !.need = Width[c] - 1,
                    !.err = TRUE]
    <3>1. comp' = [comp EXCEPT ![c] = n] /\ results' = results /\ r.pc = "serving"
              /\ r.errs # <<>>
      BY <1>1, <1>4, <2>1, Zenon DEF SeesError, SetComp, ReceivesLeft
    <3>3. Sound(c, n) /\ n.pc = "collecting"
      BY <1>1, <3>1, PublicError
    <3> HIDE DEF n
    <3>4. Moved(c, n)
      BY <1>1, <3>1, <3>3 DEF Moved
    <3> QED BY <3>4, Change
  <2>2. CASE comp' = [comp EXCEPT ![c] = [r EXCEPT !.pc = "shutting",
                 !.errs = Tail(r.errs), !.at = 1, !.need = Width[c] - 1, !.err = TRUE]]
    <3> DEFINE n == [r EXCEPT !.pc = "shutting", !.errs = Tail(r.errs), !.at = 1,
                   !.need = Width[c] - 1, !.err = TRUE]
    <3>1. comp' = [comp EXCEPT ![c] = n] /\ results' = results /\ r.pc = "serving"
              /\ r.errs # <<>>
      BY <1>1, <1>4, <2>2, Zenon DEF SeesError, SetComp, ReceivesLeft
    <3>3. Sound(c, n) /\ n.pc = "shutting"
      BY <1>1, <3>1, AdminError
    <3> HIDE DEF n
    <3>4. Moved(c, n)
      BY <1>1, <3>1, <3>3 DEF Moved
    <3> QED BY <3>4, Change
  <2>3. CASE c = "management" /\ comp' = [comp EXCEPT ![c] = [r EXCEPT
                 !.pc = "returning", !.errs = Tail(r.errs), !.err = TRUE]]
    <3> DEFINE n == [r EXCEPT !.pc = "returning", !.errs = Tail(r.errs), !.err = TRUE]
    <3>1. comp' = [comp EXCEPT ![c] = n] /\ results' = results /\ r.pc = "serving"
              /\ r.errs # <<>>
      BY <1>1, <1>4, <2>3, Zenon DEF SeesError, SetComp, ReceivesLeft
    <3>3. Sound(c, n) /\ n.pc = "returning"
      BY <1>1, <3>1, <2>3, ManagementError
    <3> HIDE DEF n
    <3>4. Moved(c, n)
      BY <1>1, <3>1, <3>3 DEF Moved
    <3> QED BY <3>4, Change
  <2> QED BY <1>1, <1>4, <2>1, <2>2, <2>3 DEF SeesError, SetComp, ReceivesLeft
<1>5. CASE Shutdown(c)
  <2> DEFINE n == [r EXCEPT !.pc = "draining", !.open = r.open \ Batch(c),
                 !.errs = r.errs \o Closed(c, r.open \cap Batch(c))]
  <2>1. comp' = [comp EXCEPT ![c] = n] /\ results' = results /\ r.pc = "shutting"
            /\ r.at <= Width[c]
    BY <1>1, <1>5, Zenon DEF Shutdown, SetComp
  <2>2. Batch(c) = (IF c = "admin" THEN Listeners(c) ELSE {r.at})
    BY <1>1 DEF Batch
  <2>3. Sound(c, n) /\ n.pc = "draining"
    BY <1>1, <2>1, <2>2, ShutDown
  <2> HIDE DEF n
  <2>4. Moved(c, n)
    BY <1>1, <2>1, <2>3 DEF Moved
  <2> QED BY <2>4, Change
<1>6. CASE Drained(c)
  <2> DEFINE n == [r EXCEPT !.pc = "shutting", !.at = NextServer(c)]
  <2>1. comp' = [comp EXCEPT ![c] = n] /\ results' = results /\ r.pc = "draining"
            /\ \A l \in Batch(c) : r.active[l] = 0
    BY <1>1, <1>6, Zenon DEF Drained, SetComp
  <2>2. (c = "admin" => \A l \in Listeners(c) : r.active[l] = 0)
            /\ (c # "admin" => r.active[r.at] = 0)
                   /\ (c = "admin" => NextServer(c) = Width[c] + 1)
                    /\ (c # "admin" => NextServer(c) = r.at + 1)
    BY <1>1, <2>1 DEF Batch, NextServer
  <2>3. Sound(c, n) /\ n.pc = "shutting"
    BY <1>1, <2>1, <2>2, DrainedAll
  <2> HIDE DEF n
  <2>4. Moved(c, n)
    BY <1>1, <2>1, <2>3 DEF Moved
  <2> QED BY <2>4, Change
<1>7. CASE DrainTimeout(c)
  <2> DEFINE next == NextServer(c)
  <2> DEFINE need == IF c = "admin" /\ r.need = Width[c] THEN 0 ELSE r.need
  <2> DEFINE n == [r EXCEPT !.pc = "shutting", !.at = next, !.need = need, !.err = TRUE]
  <2>1. comp' = [comp EXCEPT ![c] = n] /\ results' = results /\ r.pc = "draining"
    BY <1>1, <1>7, Zenon DEF DrainTimeout, SetComp
  <2>2. (c = "admin" => next = Width[c] + 1) /\ (c # "admin" => next = r.at + 1)
            /\ need \in Nat
    BY <1>1 DEF NextServer
  <2> HIDE DEF next, need
  <2>3. Sound(c, n) /\ n.pc = "shutting"
      <3>1. r \in ServerRecord(c) /\ Sound(c, r) /\ r.pc = "draining"
      BY <1>1, <2>1 DEF Sound
    <3>2. /\ n.pc = "shutting" /\ n.open = r.open /\ n.active = r.active
          /\ n.errs = r.errs /\ n.at = next /\ n.need = need /\ n.err = TRUE
      BY <3>1 DEF ServerRecord
    <3>3. "shutting" \in ServerPcs /\ next \in Nat /\ TRUE \in BOOLEAN
      BY <1>1, <2>2, <3>1 DEF ServerRecord, ServerPcs
    <3>4. n \in ServerRecord(c)
      BY <2>2, <3>1, <3>3, Zenon DEF ServerRecord
    <3> HIDE DEF n, r
    <3> QED BY <1>1, <2>2, <3>1, <3>2, <3>4 DEF Sound, Ends, ServerRecord, Listeners
  <2> HIDE DEF n
  <2>4. Moved(c, n)
    BY <1>1, <2>1, <2>3 DEF Moved
  <2> QED BY <2>4, Change
<1>8. CASE ShutdownEnds(c)
  <2> DEFINE n == [r EXCEPT !.pc = "collecting"]
  <2>1. comp' = [comp EXCEPT ![c] = n] /\ results' = results /\ r.pc = "shutting"
            /\ r.at > Width[c]
    BY <1>1, <1>8, Zenon DEF ShutdownEnds, SetComp
  <2>3. Sound(c, n) /\ n.pc = "collecting"
    BY <1>1, <2>1, AllShutDown
  <2> HIDE DEF n
  <2>4. Moved(c, n)
    BY <1>1, <2>1, <2>3 DEF Moved
  <2> QED BY <2>4, Change
<1>9. CASE Collect(c)
  <2> DEFINE n == [r EXCEPT !.errs = Tail(r.errs), !.need = r.need - 1,
                 !.err = r.err \/ Head(r.errs) = "fatal"]
  <2>1. comp' = [comp EXCEPT ![c] = n] /\ results' = results /\ r.pc = "collecting"
            /\ r.need > 0 /\ r.errs # <<>>
    BY <1>1, <1>9, Zenon DEF Collect, SetComp
  <2>3. Sound(c, n) /\ n.pc = "collecting"
    BY <1>1, <2>1, Collected
  <2> HIDE DEF n
  <2>4. Moved(c, n)
    BY <1>1, <2>1, <2>3 DEF Moved
  <2> QED BY <2>4, Change
<1>10. CASE Return(c)
  <2> DEFINE n == [r EXCEPT !.pc = "returned"]
  <2>1. comp' = [comp EXCEPT ![c] = n] /\ results' = results \cup {c}
            /\ r.pc \in {"returning", "collecting"}
    BY <1>1, <1>10, Zenon DEF Return, SetComp
  <2>3. Sound(c, n) /\ n.pc = "returned"
    BY <1>1, <2>1, ReturnedOrDone DEF Ends
  <2> HIDE DEF n
  <2>4. Moved(c, n)
    BY <1>1, <2>1, <2>3 DEF Moved
  <2> QED BY <2>4, Change
<1> QED BY <1>2, <1>3, <1>4, <1>5, <1>6, <1>7, <1>8, <1>9, <1>10 DEF Server

LEMMA ListenerStep ==
    ASSUME CInv, NEW c \in Servers, NEW l \in Listeners(c),
           Arrive(c, l) \/ Finish(c, l) \/ ServeFails(c, l)
    PROVE  CInv'
<1> DEFINE r == comp[c]
<1>1. Sound(c, r) /\ r \in ServerRecord(c) /\ c \in Components
  BY DEF CInv, Sound, Components
<1>2. CASE Arrive(c, l)
  <2> DEFINE n == [r EXCEPT !.active[l] = @ + 1]
  <2>1. comp' = [comp EXCEPT ![c] = n] /\ l \in r.open
    BY <1>1, <1>2, Zenon DEF Arrive, CInv
  <2>2. UNCHANGED <<proc, runErr, results>>
    BY <1>2 DEF Arrive, run, ends
  <2>3. Sound(c, n) /\ n.pc = r.pc /\ n.err = r.err
    BY <1>1, <2>1, Arrived
  <2> HIDE DEF n
  <2>4. Moved(c, n)
    BY <2>1, <2>2, <2>3 DEF Moved
  <2> QED BY <2>4, Change
<1>3. CASE Finish(c, l)
  <2> DEFINE n == [r EXCEPT !.active[l] = @ - 1]
  <2>1. comp' = [comp EXCEPT ![c] = n] /\ l \in DOMAIN r.active /\ r.active[l] > 0
    BY <1>1, <1>3, Zenon DEF Finish, CInv
  <2>2. UNCHANGED <<proc, runErr, results>>
    BY <1>3 DEF Finish, run, ends
  <2>3. Sound(c, n) /\ n.pc = r.pc /\ n.err = r.err
    BY <1>1, <2>1, Served
  <2> HIDE DEF n
  <2>4. Moved(c, n)
    BY <2>1, <2>2, <2>3 DEF Moved
  <2> QED BY <2>4, Change
<1>4. CASE ServeFails(c, l)
  <2> DEFINE n == [r EXCEPT !.open = @ \ {l}, !.errs = Append(@, "fatal")]
  <2>1. comp' = [comp EXCEPT ![c] = n] /\ l \in r.open
    BY <1>1, <1>4, Zenon DEF ServeFails, SetComp, CInv
  <2>2. UNCHANGED <<proc, runErr, results>>
    BY <1>4 DEF ServeFails, SetComp, run
  <2>3. Sound(c, n) /\ n.pc = r.pc
    BY <1>1, <2>1, ServeFailed
  <2>4. n.err = r.err
    BY <1>1 DEF ServerRecord
  <2> HIDE DEF n
  <2>5. Moved(c, n)
    BY <2>1, <2>2, <2>3, <2>4 DEF Moved
  <2> QED BY <2>5, Change
<1> QED BY <1>2, <1>3, <1>4

LEMMA ResultStep ==
    ASSUME CInv, NEW c \in Components, RunResult(c)
    PROVE  CInv'
<1> DEFINE r == [comp[c] EXCEPT !.pc = "done"]
<1>1. /\ proc = "running" /\ proc' = "running" /\ c \in results /\ results' = results \ {c}
      /\ comp' = [comp EXCEPT ![c] = r] /\ runErr' = (runErr \/ comp[c].err)
      /\ comp[c].pc = "returned"
  BY DEF RunResult, FirstErr, run, CInv, Results
<1>2. /\ comp' = [d \in Components |-> comp'[d]] /\ comp'[c] = r
      /\ \A d \in Components \ {c} : comp'[d] = comp[d]
  BY <1>1 DEF CInv
<1>3. r.pc = "done" /\ r.err = comp[c].err
  <2>1. CASE c \in Servers
    BY <2>1 DEF CInv, Sound, ServerRecord
  <2>2. CASE c = "sampler"
    BY <2>2 DEF CInv, SamplerSound, Absent
  <2> QED BY <2>1, <2>2 DEF Components
<1>4. \A d \in Servers : Sound(d, comp'[d])
  <2> SUFFICES ASSUME NEW d \in Servers PROVE Sound(d, comp'[d])
    OBVIOUS
  <2>1. CASE d = c
    BY <1>1, <1>2, <2>1, ReturnedOrDone DEF CInv, Ends
  <2>2. CASE d # c
    BY <1>2, <2>2 DEF CInv, Components
  <2> QED BY <2>1, <2>2
<1>5. SamplerSound(comp'["sampler"])
  <2>1. CASE c = "sampler"
    BY <1>2, <2>1 DEF CInv, SamplerSound, Absent
  <2>2. CASE c # "sampler"
    BY <1>2, <2>2 DEF CInv, Components
  <2> QED BY <2>1, <2>2
<1> HIDE DEF r
<1>6. Results'
  <2>1. results' \subseteq Components /\ \A d \in results' : comp'[d].pc = "returned"
    BY <1>1, <1>2 DEF CInv, Results
  <2>2. proc' \notin {"waiting", "exited"}
    BY <1>1
  <2>3. runErr' <=> \E d \in Components : comp'[d].pc = "done" /\ comp'[d].err
    BY <1>1, <1>2, <1>3 DEF CInv, Results
  <2> QED BY <2>1, <2>2, <2>3 DEF Results
<1>7. runErr' \in BOOLEAN
  BY <1>1
<1> QED BY <1>1, <1>2, <1>4, <1>5, <1>6, <1>7 DEF CInv

\* A server, and the sampler, that has not been started or has just been.
LEMMA Fresh ==
    ASSUME NEW pc \in {"absent", "starting"}
    PROVE  /\ \A c \in Servers : Sound(c, [Absent EXCEPT !.pc = pc])
           /\ SamplerSound([Absent EXCEPT !.pc = pc])
           /\ [Absent EXCEPT !.pc = pc].pc = pc
<1> DEFINE n == [Absent EXCEPT !.pc = pc]
<1>1. /\ n.pc = pc /\ n.open = {} /\ n.active = <<>> /\ n.errs = <<>>
      /\ n.at = 0 /\ n.need = 0 /\ n.err = FALSE
  BY DEF Absent
<1>2. <<>> \in Seq({"fatal", "closed"})
  BY EmptySeq
<1>3. SamplerSound(n)
  BY DEF SamplerSound
<1>4. \A c \in Servers : n \in ServerRecord(c)
  <2>1. pc \in ServerPcs
    BY DEF ServerPcs
  <2>2. \A c \in Servers : Absent \in ServerRecord(c)
    BY <1>2 DEF ServerRecord, ServerPcs, Absent
  <2> QED BY <2>1, <2>2, Zenon DEF ServerRecord
<1> HIDE DEF n
<1>5. \A c \in Servers : Sound(c, n)
  BY <1>1, <1>4 DEF Sound, Ends
<1> QED BY <1>1, <1>3, <1>5 DEF n

LEMMA FreshStart ==
    ASSUME NEW started,
           comp' = [c \in Components |->
                      IF c \in started THEN [Absent EXCEPT !.pc = "starting"] ELSE Absent],
           proc' \in {"down", "running"}, results' = {}, runErr' = FALSE
    PROVE  CInv'
<1>1. [Absent EXCEPT !.pc = "absent"] = Absent /\ Absent.pc = "absent"
  BY DEF Absent
<1>2. \A c \in Components : /\ comp'[c] \in {Absent, [Absent EXCEPT !.pc = "starting"]}
                            /\ comp'[c].pc \in {"absent", "starting"}
  BY <1>1, Fresh
<1>3. (\A c \in Servers : Sound(c, comp'[c])) /\ SamplerSound(comp'["sampler"])
  BY <1>1, <1>2, Fresh DEF Components
<1>4. Results'
  BY <1>2 DEF Results
<1> QED BY <1>3, <1>4 DEF CInv

LEMMA InitComponents == Init => CInv
<1> SUFFICES ASSUME Init PROVE CInv
  OBVIOUS
<1>1. [Absent EXCEPT !.pc = "absent"] = Absent /\ Absent.pc = "absent"
  BY DEF Absent
<1>2. \A c \in Components : comp[c] = Absent
  BY DEF Init
<1>3. (\A c \in Servers : Sound(c, comp[c])) /\ SamplerSound(comp["sampler"])
  BY <1>1, <1>2, Fresh DEF Components
<1>4. Results
  BY <1>1, <1>2 DEF Results, Init
<1> QED BY <1>3, <1>4 DEF CInv, Init

LEMMA SamplerMoves ==
    ASSUME CInv, SamplerStarts \/ SamplerStops
    PROVE  CInv'
<1> DEFINE r == comp["sampler"]
<1>1. PICK pc \in {"serving", "returned"} :
        /\ comp' = [comp EXCEPT !["sampler"] = [r EXCEPT !.pc = pc]]
        /\ UNCHANGED <<proc, runErr>> /\ r.pc \in {"starting", "serving"}
        /\ results' = results \/ (results' = results \cup {"sampler"} /\ pc = "returned")
  BY DEF SamplerStarts, SamplerStops, run, ends
<1> DEFINE n == [r EXCEPT !.pc = pc]
<1>2. SamplerSound(n) /\ n.pc = pc /\ n.err = FALSE /\ r.err = FALSE
  BY DEF CInv, SamplerSound, Absent
<1> HIDE DEF n
<1>3. /\ comp' = [d \in Components |-> comp'[d]] /\ comp'["sampler"] = n
      /\ \A d \in Servers : d \in Components /\ comp'[d] = comp[d]
      /\ Components = Servers \cup {"sampler"}
  BY <1>1, ServersAssumption DEF CInv, Components, n
<1>4. Results'
  <2>1. results' \subseteq Components /\ \A d \in results' : comp'[d].pc = "returned"
    BY <1>1, <1>2, <1>3 DEF CInv, Results
  <2>2. proc' \notin {"waiting", "exited"}
    BY <1>1, <1>3 DEF CInv, Results
  <2>3. runErr' <=> \E d \in Components : comp'[d].pc = "done" /\ comp'[d].err
    BY <1>1, <1>2, <1>3 DEF CInv, Results
  <2> QED BY <2>1, <2>2, <2>3 DEF Results
<1> QED BY <1>1, <1>2, <1>3, <1>4 DEF CInv

LEMMA OtherComponents ==
    ASSUME CInv, UNCHANGED <<comp, results, runErr>>,
           \/ proc' = proc
           \/ proc' = "waiting" /\ Remaining = {}
           \/ proc = "waiting" /\ proc' = "exited"
    PROVE  CInv'
<1>1. Results'
  BY DEF CInv, Results, Remaining
<1> QED BY <1>1 DEF CInv

LEMMA ComponentsStep == CInv /\ [Next]_vars => CInv'
<1> SUFFICES ASSUME CInv, [Next]_vars PROVE CInv'
  OBVIOUS
<1>1. CASE Boot
  <2>1. PICK cfg \in Configurations :
          comp' = [c \in Components |->
                     IF c \in cfg.servers \/ (c = "sampler" /\ cfg.admin)
                     THEN [Absent EXCEPT !.pc = "starting"] ELSE Absent]
    BY <1>1, Zenon DEF Boot
  <2> DEFINE started == {c \in Components : c \in cfg.servers \/ (c = "sampler" /\ cfg.admin)}
  <2>2. comp' = [c \in Components |->
                   IF c \in started THEN [Absent EXCEPT !.pc = "starting"] ELSE Absent]
    BY <2>1
  <2>3. proc' \in {"down", "running"} /\ results' = {} /\ runErr' = FALSE
    BY <1>1 DEF Boot
  <2> HIDE DEF started
  <2> QED BY <2>2, <2>3, FreshStart
<1>2. CASE Crash
  <2> DEFINE none == {}
  <2>1. comp' = [c \in Components |->
                   IF c \in none THEN [Absent EXCEPT !.pc = "starting"] ELSE Absent]
    BY <1>2 DEF Crash
  <2>2. proc' \in {"down", "running"} /\ results' = {} /\ runErr' = FALSE
    BY <1>2 DEF Crash
  <2> HIDE DEF none
  <2> QED BY <2>1, <2>2, FreshStart
<1>3. CASE \E c \in Components : RunResult(c)
  BY <1>3, ResultStep
<1>4. CASE \E c \in Servers : Server(c)
  BY <1>4, ServerStep
<1>5. CASE \E c \in Servers : \E l \in Listeners(c) :
               Arrive(c, l) \/ Finish(c, l) \/ ServeFails(c, l)
  BY <1>5, ListenerStep
<1>6. CASE SamplerStarts \/ SamplerStops
  BY <1>6, SamplerMoves
<1>7. CASE Signal \/ RunWait \/ RunReturn \/ ReloadEnds
  BY <1>7, OtherComponents DEF Signal, RunWait, RunReturn, ReloadEnds, run, ends
<1>8. CASE SampleSnapshot \/ SampleRecord \/ Saver \/ SaveCounters(TRUE)
  BY <1>8, OtherComponents
     DEF SampleSnapshot, SampleRecord, Saver, SaveCounters, SaveSamples, SaveWrite, run, ends
<1>9. CASE UNCHANGED vars
  BY <1>9, OtherComponents DEF vars, run, ends
<1> QED BY <1>1, <1>2, <1>3, <1>4, <1>5, <1>6, <1>7, <1>8, <1>9 DEF Next

\* The shutdown of every server is in order, and Run knows the results: ServerStep
\* is the step of a server, ResultStep that of Run.
THEOREM ComponentsInvariant == Spec => []CInv
<1> QED BY InitComponents, ComponentsStep, PTL DEF Spec

\* When Run has returned, every loop, goroutine and listener that it started has
\* ended, however the stop interleaves with failures, results and the last save.
THEOREM NothingLeftBehind == Spec => []NothingLeft
<1>1. CInv /\ IInv => NothingLeft
  <2> SUFFICES ASSUME CInv, IInv, proc = "exited"
               PROVE  /\ loops = {} /\ results = {} /\ saver.pc = "idle"
                      /\ \A c \in Components :
                           comp[c].pc \in {"absent", "done"} /\ comp[c].open = {}
    BY DEF NothingLeft
  <2>1. loops = {} /\ saver.pc = "idle"
    BY DEF IInv, LastSave, Stored
  <2>2. results = {} /\ \A c \in Components : comp[c].pc \in {"absent", "done"}
    BY DEF CInv, Results
  <2>3. \A c \in Servers : comp[c].open = {}
    BY <2>2 DEF CInv, Sound, Ends, Components
  <2>4. comp["sampler"].open = {}
    BY DEF CInv, SamplerSound, Absent
  <2> QED BY <2>1, <2>2, <2>3, <2>4 DEF Components
<1> QED BY <1>1, ComponentsInvariant, Invariant, PTL

\* Run returns an error exactly when a component had one.
THEOREM ExitStatusIsError == Spec => []ExitStatus
<1>1. CInv => ExitStatus
  <2> SUFFICES ASSUME CInv, proc = "exited", NEW c \in Components, comp[c].err
               PROVE  comp[c].pc = "done"
    BY DEF ExitStatus, CInv, Results
  <2>1. comp[c].pc \in {"absent", "done"}
    BY DEF CInv, Results
  <2>2. CASE c \in Servers
    BY <2>1, <2>2 DEF CInv, Sound
  <2>3. CASE c = "sampler"
    BY <2>3 DEF CInv, SamplerSound, Absent
  <2> QED BY <2>2, <2>3 DEF Components
<1> QED BY <1>1, ComponentsInvariant, PTL

\* A server that ends without an error has no accepted request left.
THEOREM GracefulStop == Spec => []GracefulServesAll
<1>1. CInv => GracefulServesAll
  BY DEF CInv, Sound, Ends, GracefulServesAll
<1> QED BY <1>1, ComponentsInvariant, PTL

\* What IInv and CInv leave out of TypeOK: the flags, and the history that is bounded
\* in memory, in the copy of the saver and on disk.
FlagsAndBounds ==
    /\ adminOn \in BOOLEAN /\ signalled \in BOOLEAN /\ cancelled \in BOOLEAN
    /\ saveFailed \in BOOLEAN /\ loops \subseteq {"reload", "saver"}
    /\ Len(fine) <= FineCapacity /\ Len(disk.fine) <= FineCapacity
    /\ Len(saver.fine) <= FineCapacity

LEMMA AppendedLength ==
    ASSUME NEW ring \in Seq(Nat), NEW sample \in Nat, Len(ring) <= FineCapacity
    PROVE  Len(Appended(ring, sample)) <= FineCapacity
<1>1. CASE Len(ring) < FineCapacity
  <2>1. Len(Append(ring, sample)) = Len(ring) + 1
    BY AppendProperties
  <2> QED BY <1>1, <2>1, LenProperties, LifecycleBounds DEF Appended
<1>2. CASE ~(Len(ring) < FineCapacity)
  <2>1. Len(ring) = FineCapacity /\ ring # <<>>
    BY <1>2, LenProperties, EmptySeq, LifecycleBounds
  <2>2. Tail(ring) \in Seq(Nat) /\ Len(Tail(ring)) = Len(ring) - 1
    BY <2>1, HeadTailProperties
  <2>3. Len(Append(Tail(ring), sample)) = Len(Tail(ring)) + 1
    BY <2>2, AppendProperties
  <2> QED BY <1>2, <2>1, <2>2, <2>3, LifecycleBounds DEF Appended
<1> QED BY <1>1, <1>2

LEMMA BoundsStep == IInv /\ FlagsAndBounds /\ [Next]_vars => FlagsAndBounds'
<1> SUFFICES ASSUME IInv, FlagsAndBounds, [Next]_vars PROVE FlagsAndBounds'
  OBVIOUS
<1> USE DEF FlagsAndBounds
<1>0. Len(<<>>) <= FineCapacity
  BY LifecycleBounds
<1>1. CASE Boot
  <2>1. PICK cfg \in Configurations :
          /\ adminOn' = cfg.admin
          /\ loops' = IF cfg.admin THEN {"reload", "saver"} ELSE {"reload"}
          /\ fine' = IF cfg.admin THEN disk.fine ELSE <<>>
    BY <1>1, Zenon DEF Boot
  <2>2. cfg.admin \in BOOLEAN
    BY ServersAssumption
  <2>3. UNCHANGED disk /\ saver' = NoCopy /\ signalled' = FALSE /\ cancelled' = FALSE
        /\ saveFailed' = FALSE
    BY <1>1 DEF Boot
  <2>4. adminOn' \in BOOLEAN /\ loops' \subseteq {"reload", "saver"}
    BY <2>1, <2>2
  <2>5. Len(fine') <= FineCapacity /\ disk' = disk /\ saver'.fine = <<>>
    BY <1>0, <2>1, <2>3 DEF NoCopy
  <2> QED BY <1>0, <2>3, <2>4, <2>5
<1>2. CASE Crash
  <2>1. fine' = <<>> /\ saver' = NoCopy /\ disk' = disk /\ loops' = {} /\ adminOn' = FALSE
        /\ signalled' = FALSE /\ cancelled' = FALSE /\ saveFailed' = FALSE
    BY <1>2 DEF Crash
  <2>2. NoCopy.fine = <<>>
    BY DEF NoCopy
  <2> QED BY <1>0, <2>1, <2>2
<1>3. CASE Signal \/ RunWait \/ RunReturn \/ ReloadEnds \/ \E c \in Components : RunResult(c)
  <2>1. /\ UNCHANGED <<adminOn, history, store>> /\ loops' \subseteq loops
        /\ signalled' \in BOOLEAN /\ cancelled' \in BOOLEAN
    <3>1. CASE Signal \/ RunWait \/ RunReturn
      BY <1>3, <3>1 DEF Signal, RunWait, RunReturn, run, context
    <3>2. CASE ReloadEnds
      BY <1>3, <3>2 DEF ReloadEnds, context
    <3>3. ASSUME NEW c \in Components, RunResult(c)
          PROVE  /\ UNCHANGED <<adminOn, loops, history, store, signalled>>
                 /\ cancelled' \in BOOLEAN
      BY <3>3 DEF RunResult, run
    <3> QED BY <1>3, <3>1, <3>2, <3>3
  <2> QED BY <2>1 DEF history, store
<1>4. CASE \E c \in Servers : Server(c) \/ \E l \in Listeners(c) :
               Arrive(c, l) \/ Finish(c, l) \/ ServeFails(c, l)
  <2>1. UNCHANGED <<run, history, store, signalled, cancelled>>
    BY <1>4, ZenonT(60) DEF Server, Start, SeesCancel, SeesError, Shutdown, Drained, DrainTimeout,
         ShutdownEnds, Collect, Return, SetComp, Arrive, Finish, ServeFails, context
  <2> QED BY <2>1 DEF run, history, store
<1>5. CASE SamplerStarts \/ SampleSnapshot \/ SamplerStops
  BY <1>5 DEF SamplerStarts, SampleSnapshot, SamplerStops, run, context, history, store
<1>6. CASE SampleRecord
  <2>1. sampler.cur - sampler.prev \in Nat /\ fine \in Seq(Nat)
    BY <1>6 DEF SampleRecord, IInv, Sampled, Stored
  <2>2. fine' = Appended(fine, sampler.cur - sampler.prev)
        /\ UNCHANGED <<run, context, store>>
    BY <1>6 DEF SampleRecord
  <2> QED BY <2>1, <2>2, AppendedLength DEF run, context, store
<1>7. CASE SaveSamples \/ \E last \in BOOLEAN : SaveCounters(last)
  <2>1. UNCHANGED <<run, signalled, cancelled, fine, disk, saveFailed>>
    BY <1>7 DEF SaveSamples, SaveCounters, context, history
  <2>2. saver'.fine \in {fine, <<>>}
    <3>1. CASE SaveSamples
      <4>1. saver \in [pc : {"idle", "counters", "marshalled"}, last : BOOLEAN,
                       count : Nat, fine : Seq(Nat)]
        BY DEF IInv, Stored
      <4>2. saver' = [saver EXCEPT !.pc = "marshalled", !.fine = fine]
        BY <3>1 DEF SaveSamples
      <4> QED BY <4>1, <4>2
    <3>2. ASSUME NEW last \in BOOLEAN, SaveCounters(last) PROVE saver'.fine = <<>>
      BY <3>2 DEF SaveCounters
    <3> QED BY <1>7, <3>1, <3>2
  <2> QED BY <1>0, <2>1, <2>2 DEF run
<1>8. CASE \E fails \in BOOLEAN : SaveWrite(fails)
  BY <1>8, LifecycleBounds DEF SaveWrite, Written, NoCopy, context, history
<1>9. CASE UNCHANGED vars
  BY <1>9 DEF vars, run, context, history, store
<1> QED BY <1>1, <1>2, <1>3, <1>4, <1>5, <1>6, <1>7, <1>8, <1>9 DEF Next, Saver

\* Every variable keeps its type, and the history never outgrows its ring, in memory,
\* in the copy being saved or in the file that a start restores it from.
THEOREM TypeCorrect == Spec => []TypeOK
<1>1. Init => FlagsAndBounds
  <2>1. Len(<<>>) <= FineCapacity
    BY LifecycleBounds
  <2>2. NoFile.fine = <<>> /\ NoCopy.fine = <<>>
    BY DEF NoFile, NoCopy
  <2> QED BY <2>1, <2>2 DEF Init, FlagsAndBounds
<1>2. IInv /\ CInv /\ FlagsAndBounds => TypeOK
  <2> SUFFICES ASSUME IInv, CInv, FlagsAndBounds PROVE TypeOK
    OBVIOUS
  <2>1. \A c \in Servers :
          /\ comp[c].pc \in {"absent", "starting", "serving", "shutting", "draining",
                             "collecting", "returning", "returned", "done"}
          /\ comp[c].open \subseteq Listeners(c)
          /\ \A l \in DOMAIN comp[c].active : comp[c].active[l] \in Nat
          /\ comp[c].errs \in Seq({"fatal", "closed"})
          /\ comp[c].at \in Nat /\ comp[c].need \in Nat /\ comp[c].err \in BOOLEAN
    BY DEF CInv, Sound, ServerRecord, ServerPcs
  <2>2. /\ comp["sampler"].pc \in {"absent", "starting", "serving", "returned", "done"}
        /\ \A l \in DOMAIN comp["sampler"].active : comp["sampler"].active[l] \in Nat
        /\ comp["sampler"].errs = <<>>
        /\ comp["sampler"].at \in Nat /\ comp["sampler"].need \in Nat
        /\ comp["sampler"].err \in BOOLEAN
    BY DEF CInv, SamplerSound, Absent
  <2>3. <<>> \in Seq({"fatal", "closed"})
    BY EmptySeq
  <2>4. {Len(fine), Len(disk.fine), Len(saver.fine)} \subseteq 0..FineCapacity
    BY LenProperties, LifecycleBounds DEF IInv, Stored, FlagsAndBounds
  <2>5. DOMAIN comp = Components /\ results \subseteq Components /\ runErr \in BOOLEAN
        /\ proc \in {"down", "running", "waiting", "exited"}
    BY DEF CInv, Results
  <2>6. /\ counted \in Nat /\ served \in Nat /\ due \in Nat /\ disk.count \in Nat
        /\ saver.count \in Nat /\ fine \in Seq(Nat) /\ disk.fine \in Seq(Nat)
        /\ saver.fine \in Seq(Nat)
               /\ sampler \in [prev : Nat, cur : Nat, pc : {"idle", "recording"}]
    BY DEF IInv, Stored, Sampled
  <2> HIDE DEF IInv, CInv
  <2> QED BY <2>1, <2>2, <2>3, <2>4, <2>5, <2>6, ServersAssumption
        DEF TypeOK, FlagsAndBounds, Components
<1> QED BY <1>1, <1>2, Invariant, ComponentsInvariant, BoundsStep, PTL DEF Spec

-----------------------------------------------------------------------------
(* The sums of the samples *)

\* The function that Total adds up with.
Sums(sum, ring) ==
    /\ sum \in [0..Len(ring) -> Nat] /\ sum[0] = 0
    /\ \A n \in 0..(Len(ring) - 1) : sum[n + 1] = sum[n] + ring[n + 1]
    /\ Total(ring) = sum[Len(ring)]

\* It has one.
LEMMA SumIs ==
    ASSUME NEW ring \in Seq(Nat)
    PROVE  \E sum : Sums(sum, ring)
<1> DEFINE N == Len(ring)
           step == [n \in 1..N |-> [x \in Nat |-> x + ring[n]]]
           body(sum) == [n \in 0..N |-> IF n = 0 THEN 0 ELSE sum[n - 1] + ring[n]]
           sum == CHOOSE f : f = body(f)
<1>1. N \in Nat
  BY LenProperties
<1>2. step \in [1..N -> [Nat -> Nat]]
  <2>1. \A n \in 1..N : ring[n] \in Nat
    BY ElementOfSeq
  <2> QED BY <2>1
<1>3. \E f \in [0..N -> Nat] : Follows(f, N, 0, step)
  <2> HIDE DEF step, N
  <2> QED BY <1>1, <1>2, Recursion
<1>4. PICK f \in [0..N -> Nat] : Follows(f, N, 0, step)
  BY <1>3
<1>5. \A n \in 0..N : f[n] = IF n = 0 THEN 0 ELSE f[n - 1] + ring[n]
  <2> SUFFICES ASSUME NEW n \in 0..N
               PROVE  f[n] = IF n = 0 THEN 0 ELSE f[n - 1] + ring[n]
    OBVIOUS
  <2>1. f[n] = IF n = 0 THEN 0 ELSE step[n][f[n - 1]]
    BY <1>4 DEF Follows
  <2>2. n # 0 => n \in 1..N /\ f[n - 1] \in Nat
    BY <1>1
  <2>3. n # 0 => step[n][f[n - 1]] = f[n - 1] + ring[n]
    BY <2>2
  <2> QED BY <2>1, <2>3
<1>6. f = body(f)
  BY <1>5
<1>7. Total(ring) = sum[N]
  BY Zenon DEF Total
<1>8. sum = body(sum)
  BY <1>6, Zenon
<1> HIDE DEF sum
<1>9. \A n \in 0..N : sum[n] = IF n = 0 THEN 0 ELSE sum[n - 1] + ring[n]
  BY <1>8
<1>10. \A n \in 0..N : sum[n] \in Nat
  <2> DEFINE P == {n \in 0..N : sum[n] = f[n]}
  <2>1. 0 \in P
    BY <1>1, <1>5, <1>9
  <2>2. ASSUME NEW n \in 0..(N - 1), n \in P PROVE n + 1 \in P
    BY <1>1, <1>5, <1>9, <2>2
  <2> HIDE DEF P
  <2>3. Upward(P, 0, N)
    BY <2>1, <2>2 DEF Upward
  <2>4. \A n \in 0..N : n \in P
    BY <1>1, <2>3, UpwardInduction
  <2> QED BY <2>4 DEF P
<1>11. sum \in [0..N -> Nat]
  BY <1>8, <1>10
<1>12. \A n \in 0..(N - 1) : sum[n + 1] = sum[n] + ring[n + 1]
  BY <1>1, <1>9
<1> QED BY <1>1, <1>7, <1>9, <1>11, <1>12 DEF Sums

LEMMA TotalEmpty == Total(<<>>) = 0
<1>1. <<>> \in Seq(Nat) /\ Len(<<>>) = 0
  BY EmptySeq
<1> QED BY <1>1, SumIs DEF Sums

LEMMA TotalAppend ==
    ASSUME NEW ring \in Seq(Nat), NEW sample \in Nat
    PROVE  Total(Append(ring, sample)) = Total(ring) + sample
<1> DEFINE more == Append(ring, sample)
           N == Len(ring)
<1>1. /\ more \in Seq(Nat) /\ Len(more) = N + 1 /\ N \in Nat
      /\ more[N + 1] = sample /\ \A i \in 1..N : more[i] = ring[i]
  BY AppendProperties, LenProperties
<1> HIDE DEF more, N
<1>2. PICK f : Sums(f, ring)
  BY SumIs
<1>3. PICK g : Sums(g, more)
  BY <1>1, SumIs
<1> DEFINE P == {n \in 0..N : f[n] = g[n]}
<1>4. Upward(P, 0, N)
  <2>1. 0 \in P
    BY <1>1, <1>2, <1>3 DEF Sums
  <2>2. ASSUME NEW n \in 0..(N - 1), n \in P PROVE n + 1 \in P
    <3>1. n + 1 \in 1..N /\ n \in 0..N
      BY <1>1
    <3>2. f[n + 1] = f[n] + ring[n + 1]
      BY <1>2 DEF Sums, N
    <3>3. g[n + 1] = g[n] + more[n + 1]
      BY <1>1, <1>3 DEF Sums
    <3>4. f[n] = g[n] /\ more[n + 1] = ring[n + 1]
      BY <1>1, <2>2, <3>1
    <3> QED BY <3>1, <3>2, <3>3, <3>4
  <2> QED BY <2>1, <2>2 DEF Upward
<1> HIDE DEF P
<1>5. N \in P
  BY <1>1, <1>4, UpwardInduction
<1>6. g[N + 1] = g[N] + sample
  <2>1. N \in 0..((N + 1) - 1)
    BY <1>1
  <2> QED BY <1>1, <1>3, <2>1 DEF Sums
<1>7. Total(ring) = f[N] /\ Total(more) = g[N + 1]
  BY <1>1, <1>2, <1>3 DEF Sums, N
<1> QED BY <1>5, <1>6, <1>7 DEF P, more

LEMMA TotalTail ==
    ASSUME NEW ring \in Seq(Nat), ring # <<>>
    PROVE  Total(Tail(ring)) <= Total(ring) /\ Total(Tail(ring)) \in Nat
<1> DEFINE rest == Tail(ring)
           N == Len(rest)
<1>1. /\ rest \in Seq(Nat) /\ N \in Nat /\ Len(ring) = N + 1
      /\ \A i \in 1..N : rest[i] = ring[i + 1] /\ ring[1] \in Nat
  <2>1. Len(ring) \in Nat \ {0}
    BY EmptySeq
  <2>2. /\ rest \in Seq(Nat) /\ N = Len(ring) - 1
        /\ \A i \in 1..N : rest[i] = ring[i + 1]
    BY HeadTailProperties
  <2>3. ring[1] \in Nat
    BY <2>1, ElementOfSeq
  <2> QED BY <2>1, <2>2, <2>3
<1> HIDE DEF rest, N
<1>2. PICK f : Sums(f, ring)
  BY SumIs
<1>3. PICK g : Sums(g, rest)
  BY <1>1, SumIs
<1> DEFINE P == {n \in 0..N : g[n] <= f[n + 1]}
<1>4. Upward(P, 0, N)
  <2>1. 0 \in P
    <3>1. f[1] \in Nat /\ g[0] = 0
      BY <1>1, <1>2, <1>3 DEF Sums
    <3>2. f[0 + 1] = f[0] + ring[0 + 1] /\ f[0] = 0
      BY <1>1, <1>2 DEF Sums
    <3> QED BY <1>1, <3>1, <3>2
  <2>2. ASSUME NEW n \in 0..(N - 1), n \in P PROVE n + 1 \in P
    <3>1. n + 1 \in 1..N /\ n \in 0..N /\ n + 1 \in 0..((N + 1) - 1)
      BY <1>1
    <3>2. g[n + 1] = g[n] + rest[n + 1]
      BY <1>3 DEF Sums, N
    <3>3. f[(n + 1) + 1] = f[n + 1] + ring[(n + 1) + 1]
      BY <1>1, <1>2, <3>1 DEF Sums
    <3>4. rest[n + 1] = ring[(n + 1) + 1] /\ rest[n + 1] \in Nat
      BY <1>1, <3>1, ElementOfSeq DEF N
    <3>5. g[n] <= f[n + 1]
      BY <2>2
    <3>6. f[n + 1] \in Nat
      BY <1>1, <1>2, <3>1 DEF Sums
    <3>7. g[n] \in Nat
      BY <1>3, <3>1 DEF Sums, N
    <3> QED BY <3>1, <3>2, <3>3, <3>4, <3>5, <3>6, <3>7
  <2> QED BY <2>1, <2>2 DEF Upward
<1> HIDE DEF P
<1>5. N \in P
  BY <1>1, <1>4, UpwardInduction
<1>6. Total(ring) = f[N + 1]
  BY <1>1, <1>2 DEF Sums
<1>7. Total(rest) = g[N] /\ g[N] \in Nat
  <2>1. N \in 0..N
    BY <1>1
  <2> QED BY <1>3, <2>1 DEF Sums, N
<1> QED BY <1>5, <1>6, <1>7 DEF P, rest

\* A ring holds no more than it did and its new sample.
LEMMA TotalAppended ==
    ASSUME NEW ring \in Seq(Nat), NEW sample \in Nat
    PROVE  /\ Total(Appended(ring, sample)) <= Total(ring) + sample
           /\ Total(ring) \in Nat /\ Total(Appended(ring, sample)) \in Nat
<1>1. ASSUME NEW r \in Seq(Nat) PROVE Total(r) \in Nat
  BY SumIs, LenProperties DEF Sums
<1>2. Total(Append(ring, sample)) = Total(ring) + sample
  BY TotalAppend
<1>3. CASE Len(ring) < FineCapacity
  BY <1>1, <1>2, <1>3 DEF Appended
<1>4. CASE ~(Len(ring) < FineCapacity)
  <2>1. ring # <<>>
    BY <1>4, EmptySeq, LifecycleBounds
  <2>2. Tail(ring) \in Seq(Nat)
    BY <2>1, HeadTailProperties
  <2>3. Total(Append(Tail(ring), sample)) = Total(Tail(ring)) + sample
    BY <2>2, TotalAppend
  <2> QED BY <1>1, <1>4, <2>1, <2>2, <2>3, TotalTail DEF Appended
<1> QED BY <1>3, <1>4

-----------------------------------------------------------------------------
(* What the samples hold *)

LEMMA InitTotals == Init => TotalsInv
<1> SUFFICES ASSUME Init PROVE TotalsInv
  OBVIOUS
<1>1. fine = <<>> /\ disk.fine = <<>> /\ saver.fine = <<>> /\ served = 0 /\ sampler.pc = "idle"
  BY DEF Init, NoFile, NoCopy, NoSampler
<1>2. comp["sampler"].pc = "absent"
  BY DEF Init, Absent, Components
<1> QED BY <1>1, <1>2, TotalEmpty DEF TotalsInv

\* A step that leaves the samples alone, and counts nothing that is not served.
LEMMA TotalsKept ==
    ASSUME IInv, TotalsInv, UNCHANGED <<history, saver, disk>>,
           UNCHANGED metrics \/ (counted' = counted + 1 /\ served' = served + 1),
           comp'["sampler"].pc = "serving" => comp["sampler"].pc = "serving"
    PROVE  TotalsInv'
<1>1. /\ fine' = fine /\ disk' = disk /\ saver' = saver /\ sampler' = sampler
      /\ fine \in Seq(Nat) /\ disk.fine \in Seq(Nat) /\ saver.fine \in Seq(Nat)
      /\ served \in Nat /\ counted \in Nat /\ sampler.prev \in Nat
  BY DEF history, IInv, Stored, Sampled
<1>2. Total(fine) \in Nat /\ Total(disk.fine) \in Nat /\ Total(saver.fine) \in Nat
  BY <1>1, TotalAppended
<1>3. \/ counted' = counted /\ served' = served
      \/ counted' = counted + 1 /\ served' = served + 1
  BY DEF metrics
<1> QED BY <1>1, <1>2, <1>3 DEF TotalsInv

\* A process that starts holds what is on disk, and one that dies holds nothing.
LEMMA TotalsFresh ==
    ASSUME IInv, CInv, TotalsInv, Boot \/ Crash
    PROVE  TotalsInv'
<1>1. /\ sampler' = NoSampler /\ saver' = NoCopy /\ served' = served /\ disk' = disk
  BY DEF Boot, Crash
<1>2. fine' \in {disk.fine, <<>>}
  <2>1. CASE Boot
    BY <2>1, Zenon DEF Boot
  <2>2. CASE Crash
    BY <2>2 DEF Crash
  <2> QED BY <2>1, <2>2
<1>3. comp'["sampler"].pc # "serving"
  <2>1. comp'["sampler"] \in {Absent, [Absent EXCEPT !.pc = "starting"]}
    <3>1. "sampler" \in Components
      BY DEF Components
    <3>2. CASE Boot
      <4>1. PICK cfg \in Configurations :
              comp' = [c \in Components |->
                         IF c \in cfg.servers \/ (c = "sampler" /\ cfg.admin)
                         THEN [Absent EXCEPT !.pc = "starting"] ELSE Absent]
        BY <3>2, Zenon DEF Boot
      <4> QED BY <3>1, <4>1
    <3>3. CASE Crash
      BY <3>1, <3>3 DEF Crash
    <3> QED BY <3>2, <3>3
  <2> QED BY <2>1 DEF Absent
<1>4. sampler'.pc = "idle" /\ saver'.fine = <<>>
  BY <1>1 DEF NoSampler, NoCopy
<1>5. served \in Nat
  BY DEF IInv, Stored
<1> QED BY <1>1, <1>2, <1>3, <1>4, <1>5, TotalEmpty DEF TotalsInv

\* The sampler: a sample is what was counted since the one before.
LEMMA TotalsSampler ==
    ASSUME IInv, CInv, TotalsInv, SamplerStarts \/ SampleSnapshot \/ SampleRecord \/ SamplerStops
    PROVE  TotalsInv'
<1>1. /\ UNCHANGED <<saver, disk, counted, served>>
      /\ fine \in Seq(Nat) /\ disk.fine \in Seq(Nat) /\ saver.fine \in Seq(Nat)
      /\ served \in Nat /\ counted \in Nat /\ sampler.prev \in Nat /\ sampler.cur \in Nat
  BY DEF SamplerStarts, SampleSnapshot, SampleRecord, SamplerStops,
         history, metrics, store, IInv, Stored, Sampled
<1>2. Total(fine) \in Nat /\ Total(disk.fine) \in Nat /\ Total(saver.fine) \in Nat
  BY <1>1, TotalAppended
<1>3. CASE SamplerStarts
  <2>1. sampler'.prev = counted /\ sampler'.pc = "idle" /\ fine' = fine
    BY <1>3 DEF SamplerStarts, FirstPrev, NoSampler
  <2> QED BY <1>1, <1>2, <2>1 DEF TotalsInv
<1>4. CASE SampleSnapshot
  <2>1. sampler'.prev = sampler.prev /\ fine' = fine /\ comp["sampler"].pc = "serving"
    BY <1>4 DEF SampleSnapshot, IInv, Sampled
  <2> QED BY <1>1, <1>2, <2>1 DEF TotalsInv
<1>5. CASE SampleRecord
  <2> DEFINE sample == sampler.cur - sampler.prev
  <2>1. /\ fine' = Appended(fine, sample) /\ sampler'.prev = sampler.cur
        /\ sampler.pc = "recording"
    BY <1>5 DEF SampleRecord
  <2>2. sample \in Nat /\ sampler.cur <= counted
    BY <1>1, <2>1 DEF IInv, Sampled
  <2>3. Total(fine) + (counted - sampler.prev) <= served
    BY <2>1 DEF TotalsInv
  <2>4. sample = sampler.cur - sampler.prev
    OBVIOUS
  <2> HIDE DEF sample
  <2>5. Total(fine') <= Total(fine) + sample /\ Total(fine') \in Nat
    BY <1>1, <2>1, <2>2, TotalAppended
  <2>6. \A a, b, c, p, q, v \in Nat :
            a + (c - p) <= v /\ b <= a + (q - p) /\ q <= c => b + (c - q) <= v /\ b <= v
    OBVIOUS
  <2>7. Total(fine') + (counted - sampler.cur) <= served /\ Total(fine') <= served
    BY <1>1, <1>2, <2>2, <2>3, <2>4, <2>5, <2>6
  <2> QED BY <1>1, <1>2, <2>1, <2>7 DEF TotalsInv
<1>6. CASE SamplerStops
  <2>1. /\ UNCHANGED history
        /\ comp' = [comp EXCEPT !["sampler"].pc = "returned"]
    BY <1>6 DEF SamplerStops
  <2>2. comp'["sampler"].pc = "serving" => comp["sampler"].pc = "serving"
    BY <1>6 DEF SamplerStops
  <2> QED BY <1>1, <2>1, <2>2, TotalsKept DEF metrics
<1> QED BY <1>3, <1>4, <1>5, <1>6

\* The saver takes the samples as they are, and writes what it took.
LEMMA TotalsSaver ==
    ASSUME IInv, TotalsInv, Saver \/ SaveCounters(TRUE)
    PROVE  TotalsInv'
<1>1. UNCHANGED <<fine, sampler, comp, counted, served>>
  BY DEF Saver, SaveCounters, SaveSamples, SaveWrite, history, metrics
<1>2. saver'.fine \in {<<>>, fine} /\ disk'.fine \in {disk.fine, saver.fine}
  <2>1. CASE \E last \in BOOLEAN : SaveCounters(last)
    BY <2>1 DEF SaveCounters
  <2>2. CASE SaveSamples
    BY <2>2 DEF SaveSamples, IInv, Stored
  <2>3. CASE \E fails \in BOOLEAN : SaveWrite(fails)
    BY <2>3 DEF SaveWrite, Written, NoCopy
  <2> QED BY <2>1, <2>2, <2>3 DEF Saver
<1>3. served \in Nat
  BY DEF IInv, Stored
<1>4. Total(<<>>) <= served
  BY <1>3, TotalEmpty
<1>5. Total(saver'.fine) <= served /\ Total(disk'.fine) <= served
  BY <1>2, <1>4 DEF TotalsInv
<1> QED BY <1>1, <1>5 DEF TotalsInv

LEMMA TotalsStep == IInv /\ CInv /\ TotalsInv /\ [Next]_vars => TotalsInv'
<1> SUFFICES ASSUME IInv, CInv, TotalsInv, [Next]_vars PROVE TotalsInv'
  OBVIOUS
<1>1. comp = [c \in Components |-> comp[c]] /\ "sampler" \in Components /\ "sampler" \notin Servers
  BY ServersAssumption DEF CInv, Components
<1>2. CASE Boot \/ Crash
  BY <1>2, TotalsFresh
<1>3. CASE Signal \/ RunWait \/ RunReturn \/ ReloadEnds \/ UNCHANGED vars
  <2>1. UNCHANGED <<history, saver, disk, metrics, comp>>
    BY <1>3 DEF Signal, RunWait, RunReturn, ReloadEnds, vars, history, metrics, store
  <2> QED BY <2>1, TotalsKept
<1>4. ASSUME NEW c \in Components, RunResult(c) PROVE TotalsInv'
  <2>1. UNCHANGED <<history, saver, disk, metrics>> /\ comp' = [comp EXCEPT ![c].pc = "done"]
    BY <1>4, Zenon DEF RunResult, store
  <2>2. comp'["sampler"].pc = "serving" => comp["sampler"].pc = "serving"
    BY <1>1, <2>1
  <2> QED BY <2>1, <2>2, TotalsKept
<1>5. ASSUME NEW c \in Servers, Server(c) PROVE TotalsInv'
  <2>1. UNCHANGED <<metrics, history, store>> /\ \E new : comp' = [comp EXCEPT ![c] = new]
    BY <1>5, Zenon
       DEF Server, Start, SeesCancel, SeesError, Shutdown, Drained, DrainTimeout,
           ShutdownEnds, Collect, Return, SetComp
  <2>2. comp'["sampler"] = comp["sampler"] /\ UNCHANGED <<history, saver, disk, metrics>>
    BY <1>1, <2>1 DEF store
  <2> QED BY <2>2, TotalsKept
<1>6. ASSUME NEW c \in Servers, NEW l \in Listeners(c),
             Arrive(c, l) \/ Finish(c, l) \/ ServeFails(c, l)
      PROVE  TotalsInv'
  <2>1. UNCHANGED <<history, store>> /\ \E new : comp' = [comp EXCEPT ![c] = new]
    <3>1. CASE Arrive(c, l)
      BY <3>1 DEF Arrive
    <3>2. CASE Finish(c, l)
      BY <3>2 DEF Finish
    <3>3. CASE ServeFails(c, l)
      BY <3>3, Zenon DEF ServeFails, SetComp
    <3> QED BY <1>6, <3>1, <3>2, <3>3
  <2>2. UNCHANGED metrics \/ (counted' = counted + 1 /\ served' = served + 1)
    BY <1>6 DEF Arrive, Finish, ServeFails, SetComp
  <2>3. comp'["sampler"] = comp["sampler"] /\ UNCHANGED <<history, saver, disk>>
    BY <1>1, <2>1 DEF store
  <2> QED BY <2>2, <2>3, TotalsKept
<1>7. CASE SamplerStarts \/ SampleSnapshot \/ SampleRecord \/ SamplerStops
  BY <1>7, TotalsSampler
<1>8. CASE Saver \/ SaveCounters(TRUE)
  BY <1>8, TotalsSaver
<1> QED BY <1>2, <1>3, <1>4, <1>5, <1>6, <1>7, <1>8 DEF Next

\* No request is in two samples of the history, in memory or on disk, whatever the
\* capacity of the ring and however often it is saved and restored.
THEOREM NoSampleTwice == Spec => []SamplesHonest
<1>1. TotalsInv => SamplesHonest
  BY DEF TotalsInv, SamplesHonest
<1> QED BY <1>1, InitTotals, TotalsStep, Invariant, ComponentsInvariant, PTL DEF Spec
====
