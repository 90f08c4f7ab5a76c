----------------------------- MODULE Lifecycle -----------------------------
(***************************************************************************)
(* The life of the process from app.Run to its exit: the components it     *)
(* starts, the context that stops them, the graceful shutdown of each      *)
(* server, and the request counters and history that are saved every       *)
(* minute, at the end, and restored by the next start.                     *)
(*                                                                         *)
(* A request is a number in flight on a listener.  The counters of Metrics *)
(* are one number, those of the requests served, and a sample of the       *)
(* history is the number served since the sample before it.                *)
(***************************************************************************)
EXTENDS Integers, Sequences, SequencesExt, FiniteSets, Functions

CONSTANTS
    Servers,      \* the server components
    Configurations, \* the servers that one may start, with or without the admin plane
    Public,       \* those of them whose requests are counted
    Width,        \* the listeners of each
    FineCapacity, \* fineCapacity: the samples the history holds
    MaxRequests,  \* bound: requests that arrive
    MaxFailures,  \* bound: listeners that fail
    MaxTicks,     \* bound: samples, and saves before the last one
    MaxStarts     \* bound: starts of the process

ASSUME ServersAssumption ==
    /\ "sampler" \notin Servers
    /\ Width \in [Servers -> Nat \ {0}]
    /\ "management" \in Servers => Width["management"] = 1
    /\ Configurations \subseteq [servers : SUBSET Servers, admin : BOOLEAN]

ASSUME LifecycleBounds ==
    /\ FineCapacity \in Nat \ {0}
    /\ MaxRequests \in Nat /\ MaxFailures \in Nat /\ MaxTicks \in Nat
    /\ MaxStarts \in Nat

Components == Servers \cup {"sampler"}

VARIABLES
    proc,       \* Run: "down", "running", "waiting" for the loops, "exited"
    adminOn,    \* cfg.Admin.Enabled: only then is there a sampler and a saver
    signalled,  \* the parent context is done: SIGINT, SIGTERM or a restart
    cancelled,  \* cancel() was called
    comp,       \* the component goroutines
    results,    \* the channel of that name
    runErr,     \* firstErr is set
    loops,      \* the goroutines reloads.Wait waits for
    counted,    \* Metrics: the requests counted
    fine,       \* History: the samples, oldest first
    sampler,    \* the sampler's prev, and cur between its two steps
    saver,      \* the saver's program counter and what it has marshalled
    disk,       \* metrics/state.json
    used,       \* how much of each bound is used up
    served,     \* ghost: the requests served over all starts
    due,        \* ghost: counted when the context was cancelled
    saveFailed  \* ghost: the last write of state.json failed

run == <<proc, adminOn, loops>>
context == <<signalled, cancelled, due>>
ends == <<results, runErr>>
metrics == <<counted, served>>
history == <<fine, sampler>>
store == <<saver, disk, saveFailed>>
vars == <<run, context, ends, comp, metrics, history, store, used>>

NoFile == [there |-> FALSE, count |-> 0, fine |-> <<>>]

\* pc; the listeners still open; the requests in flight on each; the channel
\* serveErrors; the listener being shut down; the receives left; an error to return
Absent == [pc |-> "absent", open |-> {}, active |-> <<>>, errs |-> <<>>,
           at |-> 0, need |-> 0, err |-> FALSE]

NoCopy == [pc |-> "idle", last |-> FALSE, count |-> 0, fine |-> <<>>]

NoSampler == [prev |-> 0, cur |-> 0, pc |-> "idle"]

Init ==
    /\ proc = "down" /\ adminOn = FALSE /\ signalled = FALSE /\ cancelled = FALSE
    /\ comp = [c \in Components |-> Absent]
    /\ results = {} /\ runErr = FALSE /\ loops = {} /\ due = 0
    /\ counted = 0 /\ served = 0
    /\ fine = <<>> /\ sampler = NoSampler /\ saver = NoCopy
    /\ disk = NoFile /\ saveFailed = FALSE
    /\ used = [starts |-> 0, requests |-> 0, failures |-> 0, ticks |-> 0]

\* runCtx is a child of the signal context.
Cancelled == signalled \/ cancelled

Alive == proc \in {"running", "waiting"}

-----------------------------------------------------------------------------
(* Start and exit *)

\* mutant: the counters on disk are added to counters that hold them already
RestoredTwice(file) == file.count + file.count

RestoredCount(file) == file.count

Boot ==
    /\ proc \in {"down", "exited"} /\ used.starts < MaxStarts
    /\ used' = [used EXCEPT !.starts = @ + 1]
    /\ proc' = "running" /\ signalled' = FALSE /\ cancelled' = FALSE
    /\ \E cfg \in Configurations :
        /\ adminOn' = cfg.admin
        /\ comp' = [c \in Components |->
                      IF c \in cfg.servers \/ (c = "sampler" /\ cfg.admin)
                      THEN [Absent EXCEPT !.pc = "starting"] ELSE Absent]
        /\ loops' = IF cfg.admin THEN {"reload", "saver"} ELSE {"reload"}
        /\ counted' = IF cfg.admin THEN RestoredCount(disk) ELSE 0
        /\ fine' = IF cfg.admin THEN disk.fine ELSE <<>>
    /\ results' = {} /\ runErr' = FALSE /\ due' = 0 /\ saveFailed' = FALSE
    /\ sampler' = NoSampler /\ saver' = NoCopy
    /\ UNCHANGED <<served, disk>>

\* The process dies, with all its goroutines.
Crash ==
    /\ Alive
    /\ proc' = "down"
    /\ adminOn' = FALSE /\ signalled' = FALSE /\ cancelled' = FALSE
    /\ comp' = [c \in Components |-> Absent]
    /\ results' = {} /\ runErr' = FALSE /\ loops' = {} /\ due' = 0
    /\ counted' = 0 /\ fine' = <<>> /\ sampler' = NoSampler /\ saver' = NoCopy
    /\ saveFailed' = FALSE
    /\ UNCHANGED <<served, disk, used>>

\* SIGINT, SIGTERM, or the SIGTERM an admin restart sends to its own process.
Signal ==
    /\ proc = "running" /\ ~signalled
    /\ signalled' = TRUE
    /\ due' = IF cancelled THEN due ELSE counted
    /\ UNCHANGED <<run, cancelled, ends, metrics, history, store, used, comp>>

\* mutant: an error that comes after the context was cancelled is dropped
FirstErrUnlessStopping(c) == runErr \/ (comp[c].err /\ ~Cancelled)

FirstErr(c) == runErr \/ comp[c].err

\* Run receives the result of a component; the first error cancels the others.
RunResult(c) ==
    /\ proc = "running" /\ c \in results
    /\ results' = results \ {c}
    /\ comp' = [comp EXCEPT ![c].pc = "done"]
    /\ runErr' = FirstErr(c)
    /\ cancelled' = (cancelled \/ (FirstErr(c) /\ ~runErr))
    /\ due' = IF ~Cancelled /\ cancelled' THEN counted ELSE due
    /\ UNCHANGED <<run, signalled, metrics, history, store, used>>

Remaining == {c \in Components : comp[c].pc \notin {"absent", "done"}}

\* Every component has ended: cancel() and reloads.Wait().
RunWait ==
    /\ proc = "running" /\ Remaining = {}
    /\ proc' = "waiting" /\ cancelled' = TRUE
    /\ due' = IF Cancelled THEN due ELSE counted
    /\ UNCHANGED <<adminOn, loops, signalled, ends, metrics, history, store, used, comp>>

\* mutant: Run returns when its components have
RunReturnUnwaited ==
    /\ proc = "waiting"
    /\ proc' = "exited"
    /\ UNCHANGED <<adminOn, loops, context, ends, metrics, history, store, used, comp>>

RunReturn ==
    /\ proc = "waiting" /\ loops = {}
    /\ proc' = "exited"
    /\ UNCHANGED <<adminOn, loops, context, ends, metrics, history, store, used, comp>>

\* The reload loop, whose work is in ConfigLifecycle, sees the context.
ReloadEnds ==
    /\ Alive /\ Cancelled /\ "reload" \in loops
    /\ loops' = loops \ {"reload"}
    /\ UNCHANGED <<proc, adminOn, context, ends, metrics, history, store, used, comp>>

-----------------------------------------------------------------------------
(* Requests *)

Arrive(c, l) ==
    /\ Alive /\ used.requests < MaxRequests
    /\ l \in comp[c].open
    /\ comp' = [comp EXCEPT ![c].active[l] = @ + 1]
    /\ used' = [used EXCEPT !.requests = @ + 1]
    /\ UNCHANGED <<run, context, ends, metrics, history, store>>

\* finishRequest: the handler returns, with or without a client, and is counted; no
\* handler of this program panics with http.ErrAbortHandler, which would not be.
\* Handlers go on after Close and end with the process.
Finish(c, l) ==
    /\ Alive /\ comp[c].pc # "absent" /\ l \in DOMAIN comp[c].active
    /\ comp[c].active[l] > 0
    /\ comp' = [comp EXCEPT ![c].active[l] = @ - 1]
    /\ IF c \in Public
       THEN counted' = counted + 1 /\ served' = served + 1
       ELSE UNCHANGED metrics
    /\ UNCHANGED <<run, context, ends, history, store, used>>

-----------------------------------------------------------------------------
(* The servers *)

Listeners(c) == 1..Width[c]

\* What Server.Serve sends for each of the listeners that are closed under it.
Closed(c, ls) == [i \in 1..Cardinality(ls) |-> "closed"]

SetComp(c, new) ==
    /\ comp' = [comp EXCEPT ![c] = new]
    /\ UNCHANGED <<run, context, runErr, metrics, history, store>>

\* The listeners are bound, all or none: HTTPS before the goroutine starts, the
\* others in it, where that may fail.  A disabled management listener ends at once.
Start(c) ==
    /\ Alive /\ comp[c].pc = "starting"
    /\ \/ /\ SetComp(c, [comp[c] EXCEPT !.pc = "serving", !.open = Listeners(c),
                                        !.active = [l \in Listeners(c) |-> 0]])
          /\ UNCHANGED used
       \/ /\ c # "https" /\ used.failures < MaxFailures
          /\ used' = [used EXCEPT !.failures = @ + 1]
          /\ SetComp(c, [comp[c] EXCEPT !.pc = "returning", !.err = TRUE])
       \/ /\ c = "management"
          /\ SetComp(c, [comp[c] EXCEPT !.pc = "returning"])
          /\ UNCHANGED used
    /\ UNCHANGED results

\* Accept fails for good and Serve returns.
ServeFails(c, l) ==
    /\ Alive /\ l \in comp[c].open /\ used.failures < MaxFailures
    /\ used' = [used EXCEPT !.failures = @ + 1]
    /\ SetComp(c, [comp[c] EXCEPT !.open = @ \ {l}, !.errs = Append(@, "fatal")])
    /\ UNCHANGED results

\* The select of startListeners, ServeListener and admin.Serve: ctx.Done() ...
SeesCancel(c) ==
    /\ Alive /\ comp[c].pc = "serving" /\ Cancelled
    /\ SetComp(c, [comp[c] EXCEPT !.pc = "shutting", !.at = 1, !.need = Width[c]])
    /\ UNCHANGED <<results, used>>

\* mutant: the error branch receives from every server, the failed one included
ReceivesAll(c) == Width[c]

ReceivesLeft(c) == Width[c] - 1

\* ... or a server that has failed: the public listeners are closed with their
\* connections, the admin ones shut down, the management listener has no other.
SeesError(c) ==
    /\ Alive /\ comp[c].pc = "serving" /\ comp[c].errs # <<>>
    /\ LET left == Tail(comp[c].errs) IN
       \/ /\ c \in Public
          /\ SetComp(c, [comp[c] EXCEPT !.pc = "collecting", !.open = {},
                             !.errs = left \o Closed(c, comp[c].open),
                             !.need = ReceivesLeft(c), !.err = TRUE])
       \/ /\ c = "admin"
          /\ SetComp(c, [comp[c] EXCEPT !.pc = "shutting", !.errs = left, !.at = 1,
                             !.need = ReceivesLeft(c), !.err = TRUE])
       \/ /\ c = "management"
          /\ SetComp(c, [comp[c] EXCEPT !.pc = "returning", !.errs = left, !.err = TRUE])
    /\ UNCHANGED <<results, used>>

\* The servers whose Shutdown runs: one after the other for the public listeners,
\* all together for the admin ones.
Batch(c) == IF c = "admin" THEN Listeners(c) ELSE {comp[c].at}

\* Shutdown closes the listener and waits for its requests ...
Shutdown(c) ==
    /\ Alive /\ comp[c].pc = "shutting" /\ comp[c].at <= Width[c]
    /\ SetComp(c, [comp[c] EXCEPT !.pc = "draining", !.open = @ \ Batch(c),
                       !.errs = @ \o Closed(c, comp[c].open \cap Batch(c))])
    /\ UNCHANGED <<results, used>>

NextServer(c) == IF c = "admin" THEN Width[c] + 1 ELSE comp[c].at + 1

Drained(c) ==
    /\ Alive /\ comp[c].pc = "draining"
    /\ \A l \in Batch(c) : comp[c].active[l] = 0
    /\ SetComp(c, [comp[c] EXCEPT !.pc = "shutting", !.at = NextServer(c)])
    /\ UNCHANGED <<results, used>>

\* mutant: the deadline is not an error
DrainTimeoutSilent(c) ==
    /\ Alive /\ comp[c].pc = "draining"
    /\ \E l \in Batch(c) : comp[c].active[l] > 0
    /\ SetComp(c, [comp[c] EXCEPT !.pc = "shutting", !.at = NextServer(c)])
    /\ UNCHANGED <<results, used>>

\* ... or for the deadline, after which admin.Serve does not wait for its servers
\* unless one of them had failed.
DrainTimeout(c) ==
    /\ Alive /\ comp[c].pc = "draining"
    /\ \E l \in Batch(c) : comp[c].active[l] > 0
    /\ SetComp(c, [comp[c] EXCEPT !.pc = "shutting", !.at = NextServer(c),
                       !.need = IF c = "admin" /\ @ = Width[c] THEN 0 ELSE @, !.err = TRUE])
    /\ UNCHANGED <<results, used>>

ShutdownEnds(c) ==
    /\ Alive /\ comp[c].pc = "shutting" /\ comp[c].at > Width[c]
    /\ SetComp(c, [comp[c] EXCEPT !.pc = "collecting"])
    /\ UNCHANGED <<results, used>>

Collect(c) ==
    /\ Alive /\ comp[c].pc = "collecting" /\ comp[c].need > 0 /\ comp[c].errs # <<>>
    /\ SetComp(c, [comp[c] EXCEPT !.errs = Tail(@), !.need = @ - 1,
                                  !.err = @ \/ Head(comp[c].errs) = "fatal"])
    /\ UNCHANGED <<results, used>>

\* The goroutine sends its result; the channel has room for every component.
Return(c) ==
    /\ Alive
    /\ \/ comp[c].pc = "returning"
       \/ comp[c].pc = "collecting" /\ comp[c].need = 0
    /\ SetComp(c, [comp[c] EXCEPT !.pc = "returned"])
    /\ results' = results \cup {c}
    /\ UNCHANGED used

Server(c) ==
    \/ Start(c) \/ SeesCancel(c) \/ SeesError(c) \/ Shutdown(c) \/ Drained(c)
    \/ DrainTimeout(c) \/ ShutdownEnds(c) \/ Collect(c) \/ Return(c)

-----------------------------------------------------------------------------
(* The sampler *)

\* mutant: the first sample is taken against fresh counters
PrevZero == 0

FirstPrev == counted

SamplerStarts ==
    /\ Alive /\ comp["sampler"].pc = "starting"
    /\ comp' = [comp EXCEPT !["sampler"].pc = "serving"]
    /\ sampler' = [NoSampler EXCEPT !.prev = FirstPrev]
    /\ UNCHANGED <<run, context, ends, metrics, fine, store, used>>

\* A tick: Snapshot, then, under another mutex, the sample is appended.
SampleSnapshot ==
    /\ Alive /\ comp["sampler"].pc = "serving" /\ sampler.pc = "idle"
    /\ sampler' = [sampler EXCEPT !.cur = counted, !.pc = "recording"]
    /\ used.ticks < MaxTicks /\ used' = [used EXCEPT !.ticks = @ + 1]
    /\ UNCHANGED <<run, context, ends, comp, metrics, fine, store>>

\* mutant: the ring never wraps around
AppendedUnbounded(ring, sample) == Append(ring, sample)

\* sampleRing.append
Appended(ring, sample) ==
    IF Len(ring) < FineCapacity THEN Append(ring, sample)
    ELSE Append(Tail(ring), sample)

SampleRecord ==
    /\ Alive /\ sampler.pc = "recording"
    /\ fine' = Appended(fine, sampler.cur - sampler.prev)
    /\ sampler' = [prev |-> sampler.cur, cur |-> 0, pc |-> "idle"]
    /\ UNCHANGED <<run, context, ends, metrics, store, used, comp>>

SamplerStops ==
    /\ Alive /\ Cancelled /\ comp["sampler"].pc = "serving" /\ sampler.pc = "idle"
    /\ comp' = [comp EXCEPT !["sampler"].pc = "returned"]
    /\ results' = results \cup {"sampler"}
    /\ UNCHANGED <<run, context, runErr, metrics, history, store, used>>

-----------------------------------------------------------------------------
(* The saver *)

\* The ticker fires, or the context is done and this is the last time.
\* MarshalState copies the counters under their mutex, ...
SaveCounters(last) ==
    /\ Alive /\ "saver" \in loops /\ saver.pc = "idle"
    /\ \/ last /\ Cancelled /\ used' = used
       \/ ~last /\ used.ticks < MaxTicks /\ used' = [used EXCEPT !.ticks = @ + 1]
    /\ saver' = [pc |-> "counters", last |-> last, count |-> counted, fine |-> <<>>]
    /\ UNCHANGED <<run, context, ends, comp, metrics, history, disk, saveFailed>>

\* ... then the samples under theirs ...
SaveSamples ==
    /\ Alive /\ saver.pc = "counters"
    /\ saver' = [saver EXCEPT !.pc = "marshalled", !.fine = fine]
    /\ UNCHANGED <<run, context, ends, metrics, history, disk, saveFailed, used, comp>>

\* mutant: the loop ends without writing what it has marshalled last
WrittenUnlessLast ==
    IF saver.last THEN disk ELSE [there |-> TRUE, count |-> saver.count, fine |-> saver.fine]

Written == [there |-> TRUE, count |-> saver.count, fine |-> saver.fine]

\* ... and WriteAtomic replaces the file, or fails before or after the rename,
\* which is only logged.
SaveWrite(fails) ==
    /\ Alive /\ saver.pc = "marshalled"
    /\ \/ disk' = Written
       \/ fails /\ disk' = disk
    /\ saveFailed' = fails
    /\ saver' = NoCopy
    /\ loops' = IF saver.last THEN loops \ {"saver"} ELSE loops
    /\ UNCHANGED <<proc, adminOn, context, ends, metrics, history, used, comp>>

Saver == SaveCounters(FALSE) \/ SaveSamples \/ \E fails \in BOOLEAN : SaveWrite(fails)

-----------------------------------------------------------------------------

Next ==
    \/ Boot \/ Crash \/ Signal \/ RunWait \/ RunReturn \/ ReloadEnds
    \/ \E c \in Components : RunResult(c)
    \/ \E c \in Servers : Server(c) \/ \E l \in Listeners(c) :
                             Arrive(c, l) \/ Finish(c, l) \/ ServeFails(c, l)
    \/ SamplerStarts \/ SampleSnapshot \/ SampleRecord \/ SamplerStops
    \/ Saver \/ SaveCounters(TRUE)

Spec == Init /\ [][Next]_vars

\* Every goroutine goes on while the process runs, and a deadline passes.  The
\* sampler and the saver find both their ticker and the context ready: select
\* chooses at random, so the context is taken in the end.
Fairness ==
    /\ WF_vars(\E c \in Components : RunResult(c))
    /\ WF_vars(RunWait) /\ WF_vars(RunReturn) /\ WF_vars(ReloadEnds)
    /\ \A c \in Servers : WF_vars(Server(c))
    /\ WF_vars(SamplerStarts) /\ WF_vars(SampleRecord) /\ SF_vars(SamplerStops)
    /\ WF_vars(SaveSamples \/ \E fails \in BOOLEAN : SaveWrite(fails))
    /\ SF_vars(SaveCounters(TRUE))

FairSpec == Spec /\ Fairness

-----------------------------------------------------------------------------
(* Properties *)

TypeOK ==
    /\ proc \in {"down", "running", "waiting", "exited"}
    /\ {adminOn, signalled, cancelled, runErr, saveFailed} \subseteq BOOLEAN
    /\ DOMAIN comp = Components
    /\ \A c \in Components :
        /\ comp[c].pc \in {"absent", "starting", "serving", "shutting", "draining",
                           "collecting", "returning", "returned", "done"}
        /\ c \in Servers => comp[c].open \subseteq Listeners(c)
        /\ \A l \in DOMAIN comp[c].active : comp[c].active[l] \in Nat
        /\ comp[c].errs \in Seq({"fatal", "closed"})
        /\ comp[c].at \in Nat /\ comp[c].need \in Nat /\ comp[c].err \in BOOLEAN
    /\ results \subseteq Components
    /\ loops \subseteq {"reload", "saver"}
    /\ {counted, served, due, disk.count, saver.count} \subseteq Nat
    /\ fine \in Seq(Nat) /\ disk.fine \in Seq(Nat) /\ saver.fine \in Seq(Nat)
    /\ {Len(fine), Len(disk.fine), Len(saver.fine)} \subseteq 0..FineCapacity
    /\ sampler \in [prev : Nat, cur : Nat, pc : {"idle", "recording"}]

\* When Run returns nothing it has started goes on but for the handlers of requests
\* that the deadline has cut off: no listener is open, no result is left behind, and
\* nobody writes to the state directory that the next process is about to read.
NothingLeft == proc = "exited" =>
    /\ loops = {} /\ results = {} /\ saver.pc = "idle"
    /\ \A c \in Components : comp[c].pc \in {"absent", "done"} /\ comp[c].open = {}

\* Every request counted when the process was told to stop is in the file that the
\* next one restores, however the last save interleaves with a save by the ticker,
\* the requests still served and the shutdown of the components.
FinalSave == proc = "exited" /\ adminOn /\ ~saveFailed => disk.count >= due

\* No request is ever counted twice: not in memory and not on disk, through any
\* number of crashes, restarts, and starts with the admin plane off.
CountsHonest == counted <= served /\ disk.count <= served

\* What else is true at every step of the counters and the saver, by which the two
\* properties above are proved: the types, ...
Stored ==
    /\ counted \in Nat /\ served \in Nat /\ due \in Nat
    /\ fine \in Seq(Nat)
    /\ disk \in [there : BOOLEAN, count : Nat, fine : Seq(Nat)]
    /\ saver \in [pc : {"idle", "counters", "marshalled"}, last : BOOLEAN,
                  count : Nat, fine : Seq(Nat)]

\* ... what is behind what, ...
Behind ==
    /\ counted <= served /\ disk.count <= served /\ saver.count <= served
    /\ Cancelled => due <= counted

\* ... that no sample is negative, ...
Sampled ==
    /\ sampler \in [prev : Nat, cur : Nat, pc : {"idle", "recording"}]
    /\ sampler.prev <= counted
    /\ sampler.pc = "recording" => sampler.prev <= sampler.cur /\ sampler.cur <= counted

\* ... and that the saver goes on until it has saved what was due.
LastSave ==
    /\ saver.pc # "idle" => "saver" \in loops
    /\ saver.last => Cancelled /\ due <= saver.count
    /\ adminOn /\ proc # "down" /\ "saver" \notin loops =>
           Cancelled /\ (saveFailed \/ due <= disk.count)
    /\ proc = "exited" => loops = {}

IInv == Stored /\ Behind /\ Sampled /\ LastSave

\* The requests in the samples of a history.
Total(ring) ==
    LET sum[n \in 0..Len(ring)] == IF n = 0 THEN 0 ELSE sum[n - 1] + ring[n]
    IN  sum[Len(ring)]

\* Nor is it in two samples of the history, the restored ones included: a start
\* shows no spike of the requests counted before it.
SamplesHonest ==
    \A ring \in {fine, disk.fine} : Total(ring) <= served

\* The invariant behind it: the samples hold nothing of what was counted since the
\* last one, nor does what the saver has marshalled go beyond what was served.
TotalsInv ==
    /\ Total(fine) <= served /\ Total(disk.fine) <= served /\ Total(saver.fine) <= served
    /\ sampler.pc = "recording" \/ comp["sampler"].pc = "serving" =>
           Total(fine) + (counted - sampler.prev) <= served

\* Run returns an error, and the process exits with status 1, if and only if one of
\* its components has failed, while it was serving or while it was being stopped.
ExitStatus == proc = "exited" =>
    (runErr <=> \E c \in Components : comp[c].err)

\* A server that ends without an error has served every request it had accepted,
\* the ones that came to one listener while another was being shut down included.
GracefulServesAll == \A c \in Servers :
    comp[c].pc \in {"returned", "done"} /\ ~comp[c].err =>
        \A l \in DOMAIN comp[c].active : comp[c].active[l] = 0

\* A process that is told to stop, or one of whose servers has failed, exits.
Stops ==
    (proc = "running" /\ (Cancelled \/ \E c \in Servers : comp[c].err))
        ~> proc \in {"exited", "down"}

-----------------------------------------------------------------------------
(* The invariant behind NothingLeft, ExitStatus and GracefulServesAll *)

ServerPcs == {"absent", "starting", "serving", "shutting", "draining", "collecting",
              "returning", "returned", "done"}

\* A server: its listeners and their requests ...
ServerRecord(c) ==
    [pc : ServerPcs, open : SUBSET Listeners(c), active : {<<>>} \cup [Listeners(c) -> Nat],
     errs : Seq({"fatal", "closed"}), at : Nat, need : Nat, err : BOOLEAN]

Ends == {"collecting", "returning", "returned", "done"}

\* ... are shut down in their order, without a request left unless there is an error.
Sound(c, r) ==
    /\ r \in ServerRecord(c)
    /\ r.pc \in {"absent", "starting"} => /\ r.open = {} /\ r.active = <<>>
                                         /\ r.errs = <<>> /\ ~r.err
    /\ r.pc \in {"serving", "shutting", "draining"} => r.active \in [Listeners(c) -> Nat]
    /\ r.pc = "serving" => ~r.err /\ (r.errs # <<>> => r.open # Listeners(c))
    /\ r.pc \in {"shutting", "draining"} =>
           \A l \in Listeners(c) :
               /\ l < r.at => l \notin r.open /\ (r.err \/ r.active[l] = 0)
               /\ r.pc = "draining" /\ (c = "admin" \/ l = r.at) => l \notin r.open
    /\ r.pc \in Ends => r.open = {} /\ (r.err \/ \A l \in DOMAIN r.active : r.active[l] = 0)

\* The sampler has neither listeners nor errors.
SamplerSound(r) ==
    \E pc \in {"absent", "starting", "serving", "returned", "done"} :
        r = [Absent EXCEPT !.pc = pc]

\* Run has received the results that are no longer on their way, and knows of an
\* error if there was one.
Results ==
    /\ results \subseteq Components
    /\ \A c \in results : comp[c].pc = "returned"
    /\ proc \in {"waiting", "exited"} => \A c \in Components : comp[c].pc \in {"absent", "done"}
    /\ runErr <=> \E c \in Components : comp[c].pc = "done" /\ comp[c].err

CInv ==
    /\ proc \in {"down", "running", "waiting", "exited"} /\ runErr \in BOOLEAN
    /\ comp = [c \in Components |-> comp[c]]
    /\ \A c \in Servers : Sound(c, comp[c])
    /\ SamplerSound(comp["sampler"])
    /\ Results

=============================================================================
