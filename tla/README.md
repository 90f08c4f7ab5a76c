# Sinkhole Responder in TLA+

Sinkhole Responder answers the HTTP and HTTPS requests that a DNS sinkhole
diverts to it.  This directory holds a model of the parts of it that decide
something concurrently or across a crash, the TLC runs that check them on
small instances, and proofs that hold for every value of the constants.

Everything is read from the Go code at the commit beside this directory; paths
below are relative to the root of the repository.  `PROJECT.json` lists the
components, the runs, the mutants each property is tried against, the lines
every definition stands for, the hazards and the theorems.

How to run one: `tlc -workers 2 -config ConfigSafety.cfg MCConfigLifecycle`, and
`tlapm LeafProofs.tla`.

## 1. The system

One Go process, no database.  What it shares between goroutines and what it
keeps on disk:

| Component | Source | State | Operations | Talks to |
|---|---|---|---|---|
| process and signals | `cmd/sinkhole-responder/main.go` | signal context, `hup` (channel of 1), `reloadCh` (channel of 1), the watcher's last hash | seed and load the file, SIGHUP, SIGINT/SIGTERM, 2 s poll of the file | `app.Run`, config |
| app.Run | `internal/app/app.go` | `currentConfig`, startup baseline, `restartPending`, `applyMu`, component results, saver | boot, `applyConfig`, `reloadLoop`, result loop, save every minute and at the end | everything |
| configuration | `internal/config/config.go` | none (the file) | `WriteDefaultConfig`, `Load`, `ParseBytes`, `Validate`, `RestartRequired` | rules, tlsx |
| configuration API | `internal/admin/configio.go`, `api_config.go`, `api_backups.go`, `api_restart.go` | `configWriteMu`, `restartInProgress` | view, save (form, raw, rules, rulepacks, TLS mode), import, restore a backup, restart | state directory, `applyConfig` |
| state directory | `internal/state/state.go` | files: numbered backups, credential, session key, token, CA, `metrics/state.json` | `WriteFileAtomic`, `BackupConfig` (copy, then prune to 10), path checks | file system |
| public servers | `internal/httpserver/` | listeners, `(cfg, engine)` pointer, limiter buckets, per request its capture and status | start, serve, `SwapConfig`, capture and redact a body, graceful shutdown | respond, metrics, log ring |
| responses | `internal/respond/` | none | choose a response kind and write it | assets |
| rules, rulepacks | `internal/rules/`, `internal/rulepacks/` | immutable engine | compile, first match, merge | config |
| leaf caches | `internal/tlsx/localca.go`, `admincert.go` | map + list + mutex, gauge | `certificateFor`, mint, evict | metrics, crypto/tls |
| CA and certificate files | `internal/tlsx/createca.go`, `static.go`, `admin/api_tls.go` | certificate and key files | create (a start, the API, the command), read, upload, load | state directory |
| metrics and history | `internal/mgmt/` | counters (one mutex), two rings (another), gauges | observe, snapshot, sample, marshal, restore | saver, sampler, admin API |
| management listener | `internal/mgmt/mgmt.go` | listener | serve health and metrics, shutdown | metrics |
| admin server and authentication | `internal/admin/server.go`, `session.go`, `auth*.go`, `apitoken.go`, ... | listeners, session key in memory and on disk, credential, token, login limiter | setup, login, logout, password change, token | state directory |
| log ring | `internal/logbuf/logbuf.go` | circular buffer of 500 | append, snapshot | every logger, `GET /api/logs` |
| web interface | `internal/admin/web` | browser | | admin API |

How they interact:

* `main` sends paths on `reloadCh` from two goroutines (SIGHUP, watcher);
  `reloadLoop` loads the file and calls `applyConfig`; so does, synchronously,
  every handler of the admin plane that saves.  Two mutexes order them,
  `configWriteMu` (a save, end to end) and `applyMu` (an application).
* `app.Run` starts one goroutine per component and receives one result of
  each; the first error cancels the context the others run under.
* The request path reads `(cfg, engine)` through one atomic pointer and counts
  into `Metrics`; the sampler and the saver read the counters under their own
  mutexes; the next process restores them from the file.
* Handshakes share a leaf cache under one mutex, across a mint that may fail.
* A start, the admin API and the `create-ca` command may each create the CA; they
  share two files and no lock.
* Every logger of the process appends to one ring, the access log among them, and
  the admin API reads it.

### What is hard about it

* a file that four parties write or replace (first boot, save, rollback,
  editors) and three read at their own time (boot, watcher, reload loop);
* a flag and a configuration stored in two steps, read in between;
* a process that can end between any two of the steps of a save, and a
  restart that takes down a working process for one that must boot;
* errors half-way: a backup made and not pruned, a rename done and reported as
  failed, a reload that refuses what is already on disk;
* a graceful shutdown whose servers have one deadline, results that must be
  received exactly as often as they are sent, and requests that go on
  meanwhile;
* counters that survive restarts and must not be counted twice;
* a cache with two representations of its content, shared by handshakes, judged
  by a clock that may be set back;
* two files that belong together and are written one after the other, by up to
  three parties, any of which may end in between;
* a body of which only the beginning is kept, in chunks that somebody else chooses,
  and of which nothing confidential may be logged wherever it was cut.

### What makes each component correct

* **Configuration**: no save leaves a file that does not load and compile; no client
  overwrites what it has not seen; what is replaced is in a backup, and a refused
  save goes back to it; the restart flag is exact; valid edits and SIGHUPs take
  effect; a save ends.
* **app.Run**: it exits when told to; with an error exactly if a component had one;
  leaving no one behind that writes to the state directory; having served what it
  accepted, unless the deadline passed.
* **Metrics**: never more than was served, in memory, on disk or in the history; at
  a graceful stop at least what was counted when the stop began.
* **Leaf caches**: map, list and gauge agree; the capacity holds; the least recently
  used leaf leaves; a served leaf is valid and within the CA.
* **Request path**: one configuration per request; limits never older than it;
  limiters follow the live limits; buckets are bounded; everything is counted.
* **Authentication**: a session dies with the password it was opened under, across
  crashes and failures between the two writes of a change; of two changes one wins.
* **CA files**: a certificate has its own key beside it, unless a failed creation
  could not be cleaned up; a CA that somebody was told of stays; a start fails for
  the files only for a reason; an upload leaves a pair.
* **Rules, packs, responses**: the first rule in order that a request meets, with
  globs that mean what they are defined to mean, each pack once.
* **Request log**: the final status that was sent, of a body what fits and nothing
  secret; the ring is the last records of the log, a query shows the newest.

## 2. The modules

| Module | What it is |
|---|---|
| `ConfigLifecycle` | the configuration file and everything that touches it |
| `ConfigInvariant` | the inductive invariant of it, in named parts |
| `MCConfigLifecycle` | contents for TLC |
| `ConfigLifecycleProofs` | type correctness; the safety properties |
| `LruCache` | abstract: a least-recently-used set of at most `Capacity` names |
| `LeafMinter` | the two leaf caches, with handshakes, mutex and clock |
| `LeafProofs` | invariant, safety and refinement |
| `Lifecycle` | app.Run from start to exit, the servers, sampler, saver and restore |
| `MCLifecycle`, `LifecycleProofs` | widths for TLC; invariant and the counting properties |
| `Requests` | a public request through the middleware, against `SwapConfig` |
| `MCRequests`, `RequestsProofs` | symmetry for TLC; invariant and safety |
| `AdminAuth` | credential, session key and the requests that change them |
| `MCAdminAuth`, `AdminAuthProofs` | symmetry for TLC; invariant and safety |
| `CAFiles` | the files of the CA and of an uploaded pair, and everyone who writes or reads them |
| `MCCAFiles`, `CAFilesProofs` | symmetry for TLC; invariant and safety |
| `LogWindow` | abstract: the last `Capacity` records of a log |
| `LogRing` | the circular buffer of `logbuf`, its reader and the limits of `GET /api/logs` |
| `BodyCapture` | what of a request body is kept, omitted and redacted (operators) |
| `Answer` | rulepacks, first match, globs, the response that is selected and written (operators) |
| `RequestLog` | composes the four: a request from its body to its record in the ring |
| `MCRequestLog`, `RequestLogProofs` | rules, packs, configurations and requests for TLC; invariant, safety and refinement of the ring |
| `Recursion` | induction and recursion, for the proofs about functions that are defined recursively |

### ConfigLifecycle

A configuration is a member of `Contents`, kept only for what the code tells
apart: does `ParseBytes` accept it (`Invalid`), do its rules compile
(`BadRules`), do they need a `body_file` that is on disk (`NeedsBody`), does it
switch the admin plane on (`NoAdmin`), which startup-only part has it
(`Startup`), and what does `MarshalConfig` write for it (`Rendered`: two members
may mean the same configuration written in two ways).  `Partial` are the contents
that a first write of the default may leave when it is cut off.  A content boots
(`Bootable`) if it loads and its rules compile: what a start needs beyond its
configuration file is not part of it.

| State | Code |
|---|---|
| `file`, `mtime`, `backups`, `body` | the configuration file, its modification time, the numbered backups, the body files |
| `proc` | main and app.Run: seeding, loading, booting, up |
| `baseline`, `live`, `pending`, `applyMu` | `cfg`, `currentConfig` and the server's pair, `restartPending`, `applyMu` in `app.Run` |
| `restarting` | `restartInProgress` |
| `watch`, `hup`, `reloadCh`, `loop` | `watchConfigFile`, the SIGHUP goroutine, the channel, `reloadLoop` with the configuration it has loaded |
| `job` | the one handler that holds `configWriteMu`, with its place in `ApplyConfig` |

Each action is one step that another goroutine can see: `BootCreate`/`BootSeed`
are the two system calls of `WriteDefaultConfig`, and `BootSeedCut` is the second
one when it fails half-way or the process is killed in it: what was written stays,
and since the file is created with `O_EXCL` only when there is none, every later
start keeps it; `LoopLoad`, `LoopApply`
and `LoopSwap` the load outside `applyMu`, the flag and the stores under
it; `SaveCompile` ... `SaveReply` the checks, the backup, the pruning, the
rename, the synchronous reload, the rollback and the response of a save.
`SaveIOError` is an error of any of the file system calls, including one
reported after the rename.  `Crash`, `ExternalEdit` and `ExternalBody` are the
environment.

### LeafMinter and LruCache

`entries` and `lru` are the map and the list of the code, kept apart on purpose:
that they agree is a property, not a definition.  `Hello` is a handshake whose
name passes normalisation; `Hit`, or `Miss` followed by `Fail` or by `Mint` and
`Evict`, is `certificateFor`.  The mutex is held from `Miss` to `Evict`, and the
insertion and the eviction are two steps because the gauge is read without it.
`minter` picks the public or the admin variant: they differ in lifetime
(`Lifetime` is `leaf_ttl`, `AdminLifetime` the constant of `admincert.go`),
freshness rule and gauge.  Time is in ticks of a certificate's precision; it
advances, and may be set back by up to `MaxBack` ticks in all.

`LruCache` says what a reader expects: at most `Capacity` names, each once, and
the name that has gone unserved for longest makes room.  `LruSpec` is that
specification with `recent` replaced by `Recent`, the list without what an
insertion has already pushed out of it, and `serving` by the handshakes that hold
a leaf.  `Hit` is then `Touch`; `Miss` with a stale entry is `Forget`, without one
a stutter; `Mint` is `Add`; `Close` is `Done`; `Evict` is a stutter.

### Lifecycle

| State | Code |
|---|---|
| `proc`, `adminOn`, `loops` | where Run is; `cfg.Admin.Enabled`; the goroutines under `reloads.Wait` |
| `signalled`, `cancelled` | the parent context of `signal.NotifyContext` and `runCtx` |
| `comp` | per component: program counter, open listeners, requests in flight, the channel `serveErrors`, the listener being shut down, how many receives are left, whether it returns an error |
| `results`, `runErr` | the channel and `firstErr` |
| `counted`, `fine`, `sampler` | `Metrics`, the fine ring, the sampler's two snapshots |
| `saver`, `disk` | the saver's copy and `metrics/state.json` |
| `served`, `due`, `saveFailed` | ghosts the properties speak of |

The three kinds of server share one machine and keep their differences: the
public listeners are shut down one after the other and, on an error, closed
(`Shutdown`, `NextServer`, `SeesError`); the admin ones are shut down together,
also on an error, and are not waited for after the deadline (`Batch`,
`DrainTimeout`); the management listener may be disabled and has only one.
HTTPS listeners are bound before the goroutine starts, the others in it.

`MarshalState` is two steps because it takes two mutexes; so is a sampler tick.

### Requests

A configuration is the number of its application and its rate limit; what else
it says matters to the properties only by which configuration is asked.

| State | Code |
|---|---|
| `state`, `swap`, `gauge` | `Server.state`; `SwapConfig`, which `applyMu` lets run once at a time; the rule count in `Metrics` |
| `enabled`, `limit`, `made`, `buckets` | `clientLimiters`: `enabled`, `limit` with `burst`, whether the map exists, and per client the limiter's limits and `lastSeen` |
| `req` | per request its place, client, `start`, and the state `recoverMiddleware` loaded (`version`); ghosts: the configurations it has used, the limits it was judged by |
| `counted` | `Metrics.ObserveRequest` |
| `limitsOf`, `arrived` | ghosts |

Each middleware is one action, in the order `New` wraps them; `CheckEnabled` and
`Allow` are two because the limiters' mutex is let go in between, and `allow` reads
the time before it has it.  `SwapLimits`, `SwapState` and `SwapGauge` are the three
statements of `SwapConfig`.  `Evict` takes any sample of the map, as Go's iteration
does.

### AdminAuth

A credential is the password it verifies, a key the number of the rotation that
drew it, a cookie the key it is signed with.

| State | Code |
|---|---|
| `cred`, `keyFile`, `drawn` | `admin/credentials.json`, `admin/session.key`, the keys drawn so far |
| `proc`, `given` | `ConfigurePassword` and `admin.New` in the boot; `options.adminPassword` |
| `memKey`, `found`, `setupMu` | `sessionKey`, `credentialFound`, `setupMu` |
| `req` | per request `handleLogin`, `handleSetup` or `handlePasswordChange` with what it holds |
| `issued`, `gone` | the cookies in the browsers; ghost: those a change signed out |

A write may fail with or without its rename done (`RotateFails`, `SaveFails`); the
process may end anywhere (`Crash`); the credential file may be removed by hand, of
which a comment speaks (`RemoveCredential`).  `Issue` reads the key of that moment,
as `issueAuthCookies` does.

### CAFiles

A file is absent, torn (created, not all written) or whole; a CA is a number, given
out when its key is generated, an uploaded pair a model value.

| State | Code |
|---|---|
| `caCert`, `caKey` | `tls/ca.cert.pem`, `tls/ca.key.pem` in the state directory |
| `job` | per creator its place in `CreateCA`: a handler of `POST /api/ca/generate`, the `create-ca` command in a process of its own, the start (`"boot"`) |
| `proc`, `kind`, `serving` | the responder, what its configuration needs of the files, the CA it has loaded |
| `pair`, `upload` | the two files of an uploaded pair; per request its place in `handleTLSUpload` |
| `told`, `undone`, `excused`, `settled` | ghosts the properties speak of |

`LstatCert` ... `Undo` are the system calls of `CreateCA` and `writeExclusiveFile`
that another creator or a reader can tell apart: both `Lstat`s, the exclusive
creation of each file, its contents, and the removals after an error.  Each of them
may fail: before anything was written `CallFails` ends the creation; after that the
file is removed, and `Errs(2)` is the case that its removal (`createca.go:89`) fails as
well.  `CreateCA` removes the key nevertheless (`createca.go:74`) and leaves a
certificate without one.  `undone` names the CAs whose certificate stays so, and those
whose creation fails after the certificate was readable (`CertClose`), which others
may have been told of.
`Start` with `StatCert`, `StatKey` and `LoadCA` is what `app.Run` does with the
files; of the kinds of configuration `"own-ca"` names files elsewhere, `"own-ca-gone"`
does so and they are not there, in which case `Run` creates a CA that it does not use
and fails.

### LogRing, BodyCapture, Answer and RequestLog

`RequestLog` follows one request, since requests share nothing but the pointer they
load at the start (which `Requests` is about) and the ring; the records of everybody
else come in between (`OtherLogs`), and so do reloads (`Reload`).

| State | Code |
|---|---|
| `entries`, `start`, `size` | `logbuf.Ring` |
| `conf` | the live configuration, and the log level it sets |
| `req` | the request with its `requestInfo` (configuration, kind, body log), its `statusRecorder`, the capture, how much of the body was read, and what the client was sent |

`Method`, `ReadChunk`, `BodyEnds`, `Respond`, `WriteAnswer`, `Panic` and `FinishRequest`
are the middlewares and the handler in the order `New` wraps them.  A body is a
sequence of bytes taken from an alphabet that has what the code looks at: runes
of one to four bytes, a sensitive name, the value that belongs to it, and the
syntax of a form, with the escape that hides a sensitive name.  The client chooses the
chunks and may stop at any byte.

The statuses that a rule or the defaults may select are those that `config.Validate`
and `rules.Compile` accept, 100 to 599 (a rule without a status is 0, and takes the
one of its kind).  `Finals` says what `net/http` makes of them: one below 200 is sent
ahead and is followed by 200, except that 101 is final over HTTP/1.1.  The recorder
keeps the first one (`WriteAnswer`).

A rule is a record of the criteria it sets and of what it answers with.  A path is
its segments, an `Accept` the set of media types found in it, a body the name of its
origin.  Where the code computes, the property has another definition of the same:
`GlobMatches` goes through the segments as `matchSegments` does, for all places of the
path at once, `Fits` asks for a way to cut the path; `Merge` takes the rules of a pack
when its name comes first, as the code's set `added` has it, `PacksOnce` says which
rules there are and that none is there twice; `Write` takes chunks, `Readable` the
whole body.

`LogWindow` is a sequence to which records are appended and which forgets the
first; `RingIsWindow` is that specification with `window` replaced by `Contents`,
the records from `start` on.

### How they compose

`Lifecycle`'s reload loop is the one of `ConfigLifecycle`, reduced to its end;
`ConfigLifecycle`'s `Crash` stands for any end of the process, of which
`Lifecycle` describes the graceful one: a stop at any point is more than the
code allows when it drains, so what `ConfigLifecycle` shows of a stop holds
for both.  The gauge of `LeafMinter` is what `Snapshot` reads.  `SwapConfig` is
one step in `ConfigLifecycle` (`ApplySwap`), which asks what is live, and three in
`Requests`, which asks what a request sees meanwhile; a request's way is one step in
`Lifecycle`, which asks what is counted and drained, and the whole of `RequestLog`, which
asks what becomes of it.  `RequestLog` extends `LogRing`, `BodyCapture` and `Answer`.
`AdminAuth` and `CAFiles` share with the others only the end of the process: `CAFiles`
is the part of a start that `ConfigLifecycle` leaves out.

## 3. The runs

All runs together take about a quarter of an hour with two workers.  Each property is also
tried against a mutant: a definition of the model changed the way a bug would
change the code, named in `PROJECT.json` and kept beside the definition it
changes, which TLC must then find violated under the same configuration.

| Run | Asks | Bounds |
|---|---|---|
| `config_safety` | is the file bootable, the flag exact, the backup there, nothing overwritten unseen, whatever interleaves | 2 saves of any kind, 1 edit from outside, 1 crash or restart, 1 file system error (of a save or of the first write), 6 contents of which a first write may leave 4, 1 backup kept |
| `config_live` | are edits and SIGHUPs applied, do saves end | 1 save, 1 edit, 1 SIGHUP, 4 contents |
| `config_stale`, `config_restart` | expected violations, see Findings | the least that shows each |
| `leaf_cache` | coherence, validity, the refinement; is every handshake answered | 2 handshakes, 3 names, capacity 2, clock to 3, set back by 1, CA that ends at 3, leaves of 2 ticks backdated by 2 and admin leaves of 3 |
| `lifecycle_stop` | what is left behind, the exit status, the accepted requests; does it exit | 2 public listeners beside the admin plane's or the management listener, 1 request, 1 failure, 1 start |
| `lifecycle_saves` | are counters and history honest, is the last save complete | 3 starts, 1 request, 4 ticks of sampler or saver, ring of 2 |
| `auth` | which sessions survive which password, who may replace it | 2 requests at a time, 2 passwords, startup given one or none, 3 keys, 2 starts, 1 failed operation, 1 removal |
| `requests` | one configuration, limits in force, buckets, counting | 2 requests at a time, 3 in all, 3 clients on 2 buckets, 2 rates or none, 2 swaps, clock to 1 |
| `ca_files` | has a certificate its key, does a CA stay, why does a start fail, is an upload a pair | 2 requests and 1 command that create, starts of each kind, 2 uploads of 2 pairs, 2 CAs, 1 crash, 2 file system errors |
| `request_log` | what is answered, logged and shown; is the ring a window | ring of 3, 3 configurations (one whose beacons answer 101, two with a rule that answers 103), 4 packs, 27 requests without and 16 with a body, bodies of up to 7 bytes, limits of 2, 3 and 5 bytes for the log and 6 for the server |
| `unreadable_body` | expected violation, see Findings | ring of 1, the same requests |

Why these are enough. The configuration properties are about one save and whatever
comes between its steps: a second save gives a later modification time, a second
backup and a pruning (with `Keep = 1` every save prunes), one error or crash in the
first leaves the surplus backup the second must clean up, and a content of each
class gives every outcome of every check. Three names on a cache of two evict, and
evict the wrong one if the order is wrong; the lifetime, the minute, the backdating
and the end of the CA lie inside the range of the clock, and the lifetime is not
above the backdating, as with a `leaf_ttl` of one to five minutes. Two public
listeners are the smallest number for which one accepts while the other drains.
Restoring takes two starts, restoring what was restored three; four ticks fill and
turn over a ring of two, or put a sample between two saves. Two requests are a
change and a login, two changes or two setups, which is what the lock and the order
of the writes are about; three keys are the first and those of two changes. Three
clients on two buckets evict with a sample that is stale, is not, or is mixed; two
swaps switch limiting off and on with another rate while a request is between the
two questions. Two CAs are two creators that have both found no file; a third could
only be refused like the second. Two errors are a write and the removal of what it
wrote; the start or the crash that meets what is left comes after them. Larger
bounds (two crashes, or three errors) were tried once and show nothing else, but
take five minutes. A ring of three is not full, full, and turned over with its start
in every place. The limits of the log lie before, inside and after the runes of the
bodies, the one of the server below the longest body; the packs overlap directly and
through their manifests; the globs have `**` first, last, in the middle and twice.

`config_safety` says nothing of graceful draining, and `Lifecycle` nothing of
the content of a reload; see above.

Deadlock is checked in the configuration and leaf runs: there is always
something that can happen.  It is not in the `Lifecycle` and `AdminAuth` runs, where
the process ends for the last time (`MaxStarts`), nor in `requests`, where the last
request has been served (`MaxRequests`), nor in `ca_files`, where the bounds on CAs
and crashes are used up; that `Run` does not stop before is `Stops`.  It is checked in
`request_log`.

### Fairness

No one is obliged to edit, save, signal, send a request, fail, crash or restart.

* Every goroutine of a running process goes on: weak fairness of the steps of
  the watcher, the SIGHUP goroutine, the reload loop, a save, a server, the
  result loop.  For the locks of the configuration this is enough: `config_live`
  has one save, and `applyMu` is free in between for good.
* A handshake that waits for the mutex of a leaf cache: strong fairness of
  `Locked`, since other handshakes take the mutex again and again.
  `sync.Mutex` hands itself over to a goroutine that has waited for a
  millisecond.
* The sampler and the saver may find both their ticker and the context ready.
  `select` chooses among the ready cases at random, so the context is taken in
  the end: strong fairness of `SamplerStops` and `SaveCounters(TRUE)`.
* A deadline passes: `Shutdown` returns although requests go on
  (`DrainTimeout` is a step of `Server`).  That requests are finished is not
  assumed.

## 4. What is proved

Proofs are in modules of their own; `tlapm` checks all of them to the last
leaf.  TLC found no counterexample to any of the inductive invariants on the
instances of the runs; since they are proved, and say nothing a reader of the code
asks for, the runs check the properties only.  Every module that has a state also has
its type correctness proved (`TypeCorrect`, `RingTyped`).

Every safety and action property that a passing run checks is also a theorem.

What a recursive function computes, or a sum over a list of any length, needs
induction, and the induction theorems of the library take a predicate as a parameter,
which the provers cannot instantiate.  `Recursion` states induction for a set of
naturals, and for a set with the members of an interval from either end, proved from
the well-foundedness of `<` on the naturals, which the library states without such a
parameter; and that a function exists whose value at an argument depends on its
values at arguments of a lower rank (`RankedRecursion`), or on the one before
(`Recursion`).  With these a recursive function is first shown to satisfy its
equation, and then what is claimed of it, for the set of the arguments of which it is
true.

**Configuration** (`ConfigLifecycleProofs`), from `ContentsAssumption` (the default
and the empty file load and compile), `PartialAssumption` (a beginning of the default,
which has no rules, has none either; nothing says that it loads), `RenderedAssumption`
(what is written parses to the same configuration, a property of
`MarshalConfig`) and `BoundsAssumption`:

* `TypeCorrect`, with the capacity of `reloadCh` as its content;
* `PendingIsExact`, `GuiCannotBreakBoot`, `BackupsStayBounded`, `NoOverwrite`,
  `ReplacedIsBackedUp`, `RollbackIsExact`.

`GuiCannotBreakBoot` has one exception, `NeverSeeded`: a first write that was cut off,
as long as nothing has come up from what it left and nothing was saved.  It is about
the content of the file only, `Loads` and `Compiles`.  `PendingIsExact` covers the window
between the two stores of an application too: while `applyMu` is held the flag is that
of the configuration about to be live (`Applying`).  `NoOverwrite` leaves out a change
from outside between the comparison of the modification time and the rename (`raced`),
against which the code has no protection.

None of the properties is inductive.  `IInv` adds who holds which lock in which
place (`Locking`), that whoever holds `applyMu` has set the flag for what it is
about to store (`PendingFollows`), that a save past its checks holds a
configuration that boots and one to go back to that does (`OnlyBootable`),
that the version a client has seen is still there until the rename
(`SeenIsCurrent`), and what the newest backup is at each place of a save
(`BackedUp`).  One lemma per part shows that every step keeps it.

**Leaf caches** (`LeafProofs`), from `NoneAssumption`, `LifetimeAssumption`
(capacity at least 1; `leaf_ttl` at least a minute, as `config.Validate` demands, and
otherwise any, whether above the backdating or not; the lifetime of an admin leaf
above the backdating, both being constants of the code) and `ClockAssumption`:

* `CacheIsCoherent` and `LeavesServedAreValid`, from an invariant that adds the
  exclusion by the mutex, what a call carries, and what is known of a leaf
  however long it has been cached.  The admin minter's "tenth of its lifetime"
  is less than a tick in the run; the proof covers every lifetime.
* `Refinement`: the cache implements `LruCache`.  Under `IInv`, `Hit` is
  `Touch`, the removal in `Miss` is `Forget`, `Mint` is `Add`, and `Evict` a
  stutter, since `Recent` has already left out what it removes.

`LeavesServedAreValid` says of the start of a leaf's validity only what holds:
if the clock has gone back by no more than the backdating of five minutes.

**Lifecycle** (`LifecycleProofs`), from `ServersAssumption` and
`LifecycleBounds`:

* `CountsAreHonest` and `LastSaveIsComplete`, for any servers, any number of
  requests, saves, crashes and starts.  The invariant orders the counters (disk,
  saver's copy and memory are at most what was served; what was counted at the
  stop is at most the counter), and says that the saver goes on until it has
  taken, after the context was cancelled, a copy that holds what was due.
* `NoSampleTwice`, for any length of the history.  What is inductive is `TotalsInv`: the
  samples of each of the three rings (the sampler's, the saver's copy, the file's) sum up
  to no more than was served, and while the sampler lives its ring leaves room for what
  was counted since its last sample.  That the next sample fills no more than this room,
  and that a ring which drops its oldest sample holds no more than before, is by
  induction over the ring.
* `NothingLeftBehind`, `ExitStatusIsError` and `GracefulStop`, for any number of
  components, listeners and requests.  Their invariant `CInv` says of each component
  what its place means (`Sound`): which of its listeners are still open, how many
  results its listeners owe to the channel and how many it has still to receive, that
  whoever has left requests behind has an error to show for it, and that
  a listener with requests in flight is one it has not finished with; and of `Run`
  how many results it waits for and that an error among those received is the one
  it returns (`Results`).  The sampler is part of it (`SamplerSound`), since Run waits
  for it like for a server.

**Requests** (`RequestsProofs`), from `RatesAssumption`, `SizesAssumption` (at least
one bucket, a batch of at least one) and `RequestBounds`:

* `UsesOne`, `NeverOlder`, `NeverNil`, `AllFollow`, `Bounded`, `AllCounted`.  `IInv` adds that the
  limits are at most one configuration ahead of the pointer and never behind
  (`VersionsInOrder`), that a request has used nothing but what it loaded
  (`UsesOwn`), and that once limiting has been on there is a map and a rate
  (`LimitsMade`), which is why `allow` can run after limiting was switched off.
  `AdmitKeeps` and `AdmitBounded` say what `allow` does to the buckets; the second
  needs that a full sample is never empty, so that some bucket leaves.  `AllCounted`
  is about the size of the set of requests on their way: each step adds one to it,
  takes one away, or leaves it.

**Authentication** (`AdminAuthProofs`), from `NoneAssumption`, `ProvidedAssumption`
and `AuthBounds`:

* `StaysSignedOut`, `RestartMatches`, `LiveMatches`, `Chain`.  `IInv` adds who is past the lock
  (`LockHeld`), that only drawn keys are in use and the next one is new
  (`KeysDrawn`), that what a handler verified under the lock is still so
  (`StillTrue`), and that between the rotation and the save no cookie bears the key
  in the file (`Rotated`): this is why a crash there signs everyone out rather
  than no one.

**Certificate files** (`CAFilesProofs`), from `CAFilesAssumption`:

* `KeyBesideCertificate`, `CaStays`, `FailureHasCause`, `UploadSettles`, for any number
  of requests, commands, uploads, crashes and errors.  The heart of the invariant is
  that whoever has created the key is alone in writing either file (`FilesFollow`),
  although nobody holds a lock and both `Lstat`s may be out of date: the numbers of
  the CAs being created are distinct (`OwnIds`), so the key on disk says whose turn it
  is.  `Undisturbed` says what the files look like as long as nothing went wrong since
  the last good start, which is why a start that fails has an excuse, and
  `AloneWrites` the same of an upload.  A certificate that nobody could remove is the
  exception of `KeyBesideCertificate`; it is of a creation that failed, and whoever
  creates the key beside it finds it in the way and withdraws (`NoneTold`).
* `UploadSettles` is about an upload that ran alone and whole: after another one, an
  error or a crash between its two writes the pair may be mixed, and nothing in the
  code restores it.

**Request log** (`RequestLogProofs`), from

* `LogRingAssumption` and `RequestLogAssumption`: a capacity and a largest limit of at
  least 1, which are constants of the code, and records with a level;
* `ConfigurationsAssumption`: a configuration enables packs that there are, as `Merge`
  demands, and has statuses between 100 and 599 and a limit that is not negative, as
  `config.Validate` demands; `RulesAssumption` says the same of the status of a rule
  that has one, as `rules.Compile` does;
* `PacksAssumption`: a pack has either rules or members, its members have rules
  (`parsePack`, `loadPacks`), and no rule is in the embedded packs twice, which the
  tests of the packs ask of their names (`rulepacks_test.go:147`, `:168`);
  `RulesAssumption` and `RequestsAssumption` also say that globs and paths are sequences
  of segments;
* `Marked`, also in `RequestsAssumption`: the letter `"v"` stands for a value that
  belongs to a sensitive name.  This is what the letter means, not an assumption on the
  clients: a value that does not is another letter.

It proves, for any rules, packs, configurations and requests, bodies of any length and
any limits:

* `RingTyped` and `RingImplementsWindow`: for every capacity and whoever appends, the
  circular buffer is the window of the last records.  The step that needs an
  argument is the arithmetic of the indices when the buffer is full: the records from
  `start` on, modulo the capacity, are the old ones without the first and the new one
  at their end.
* `NewestShown`: `Snapshot` goes back from the newest record; by induction over how
  far it has come, it has gathered the last of the wanted ones in reverse, or as many
  as the limit.
* `Invariant` and `StatusLogged`: none of the properties of a request is inductive.
  `IInv` adds that at every moment what was sent is what `net/http` makes of the
  status to be logged (`Finals`): the same, unless a status below 200 was selected,
  which is the exception of `StatusLogged`; and that the decision is what `Select`
  says of the request and the configuration it began with (`Answering`); and that
  the capture after any number of chunks is what `Write` makes of all that was read
  in a single one (`Capturing`).
* `CapturedExactly`: two chunks are captured as one (`SeenMore`), from which it does not
  matter how the client cuts its body.  Of a valid text the longest valid prefix within
  the limit ends less than a rune before it (`RuneEnds`), which is why dropping bytes one
  by one, up to three, finds it.
* `SecretsStayHidden`: a prefix of a body in which every secret has its sensitive name
  before it is such a body again, wherever it was cut; a truncated document is never
  parsed, and in a form the escapes that hide a name are undone before it is looked at
  (`DecodeKeeps`).
* `GlobFits` and `FirstAnswers`: the places of a path from which the rest of a glob
  matches are those from which it can be cut into pieces for the rest, by induction from
  the end of the glob; the first rule of the merged list that matches is the first of
  the user's or else the first of the first pack that has one.
* `PacksMergedOnce`: by induction over the enabled packs, the merged list holds the
  rules of the packs seen so far, no two places the same one.

**Only model-checked**: every liveness property (`EditApplied`, `HupApplied`,
`SaveEnds`, `Answered`, `Stops`), which are beyond the prover; and the expected
violations.

## 5. Findings

Three places where the code does not do what a document or a comment says.  Each is
a run that TLC ends with a counterexample.

* `config_stale`: "applies valid edits within about two seconds"
  (`docs/configuration.md`).  `reloadLoop` loads outside `applyMu`; an older
  content it has loaded can be applied over a newer save, and if the save put
  back what the watcher last hashed no later tick repairs it.
* `config_restart`: "never take a running responder down for a configuration
  that cannot boot" (`api_restart.go:28-29`).  The preflight loads the file and does
  not compile its rules.  The comment goes on: "This checks parse+validate only, not
  runtime bindability" (`:30-31`), which says as much, but names only the binding of
  addresses as what is not checked.
* `unreadable_body`: "These bodies are omitted rather than guessed at: ... unreadable
  bodies" (`docs/observability.md:67-73`).  `bodyLimitMiddleware` looks at an error of
  reading only for the size limit, and logs what the capture has seen: the first
  part of a body that its client cut off, unmarked.

Things met on the way that no property is about:

* Requests drained after the last save are not in the file (`app.go:350`), so that
  "persist metrics and history across restarts" (`CHANGELOG.md:18`) is true of those
  counted when the stop begins.  `FinalSave` states that, and is proved.
* "Once credentials exist, deleting the file requires a restart to re-enter setup"
  (`auth_http.go:268`): the gate remembers that there was a credential, the two
  setup handlers ask the file (`auth_http.go:134`, `:150`) and need no restart.  Setup
  does not rotate the session key, so that the sessions of before are valid again.
* A login that has verified a password which is replaced before its cookie is
  signed gets a session under the new key (`auth_http.go:201`).
* The response of a save reads the restart flag after `applyMu` was let go
  (`api_config.go:221`): it may speak of a reload that came in between.
* The watcher takes its first hash after main has loaded the file (`main.go:121`): an
  edit in between is taken for what was loaded.  `EditApplied` leaves it out.
* A first write of the configuration that fails or is killed half-way
  (`config.go:192-198`) leaves what it has written.  `main` takes a file that exists for
  one to load, so that later starts keep it: an empty one gives the defaults without
  the admin plane, a truncated one need not load, and then no start comes up until it is
  removed.  `NeverSeeded` is the exception of `GuiKeepsBootable` for it.
* A `leaf_ttl` of exactly one minute is valid and gives leaves that are never fresh:
  every handshake mints.
* A first start that is killed between the key and the certificate leaves a key that
  later starts and requests refuse to overwrite until it is removed; `StartExplained`
  excuses it.  The start that named files of its own which are gone creates a CA it
  does not use.
* A creation of the CA that can neither write its certificate nor remove it removes the
  key all the same (`createca.go:74`, `:89`), and leaves a certificate without a key,
  over which nothing creates a CA any more.
* "Generate or replace" (`docs/admin-guide.md:78`): the code generates when there is no
  certificate and reuses the one there is.
* The health view checks less of a CA (`api_health.go:175`) than a start does
  (`localca.go:88`): neither the permissions of the key nor that it is a CA.
* A rule without a `content_type` takes the generic one (`docs/rules.md:29`), but of a
  generic answer without a body there is none left to take.
* A truncated form that ends inside an escape is omitted as invalid; a body above
  `max_body_bytes` is not marked truncated when the limit of the log is not below
  it.
* A status below 200, which `config.Validate` and `rules.Compile` accept
  (`config.go:263`, `rules.go:72`, `docs/rules.md:28`), is logged while `net/http` sends it
  ahead and then 200.  `LoggedAsSent` names it as its exception.

## 6. Abstractions to know of

* Equal contents stand for equal bytes, and every write gives a new modification
  time.  A file is read in one step.  The temporary files of `WriteFileAtomic`
  are not seen: a reader finds the old file or the new one.
* An import carries no modification time, in the model as in the code.
* Boot failures other than a file that cannot be written, does not load or does not
  compile (a port in use, CA files, the state directory) end the process before
  anything of the model runs, and are left out of `ConfigLifecycle`, whose `Bootable` is
  about the content of the file alone; `CAFiles` has those of the certificate
  files, and `Lifecycle` starts where the HTTPS listeners are bound and has the
  failures of the others.
* A request is a number in flight on a listener of a component; the counters of
  `Metrics`, kept per kind, status and rule, are one number, since they are
  changed and copied together under one mutex.  The coarse ring, computed from
  the fine samples, is left out, and so is a `state.json` that cannot be read,
  after which the counters start from zero.
* A deadline passes at any moment while requests are in flight.
* `notAfter` is what the parsed certificate says: its precision is one tick.
* Whether a bucket has a token left is either; a request that `SwapConfig` meets
  has no other connection to it than the pointer and the limiters.
* An expired cookie is one nobody presents; a refused request changes nothing and
  is left out.  A cookie issued `Late`, to a login that verified a password
  which was replaced before the cookie was signed, is accepted by the code and
  named in the properties, which leave it out; so are the sessions of before a
  credential was removed by hand, since setup keeps the session key.
* In `CAFiles`, `"local-ca"` also stands for an admin plane that takes its
  certificate from the CA; the admin listener, which loads the same two files once
  more, is not a step of its own.  The directory is there and has its permissions; a
  certificate does not expire.  A stop while a handler is at work counts as a cut: the
  deadline of a graceful stop may pass too.  Uploads are of one name, since others
  name other files.
* In `RequestLog` a glob matches a segment by `*` or by equality, without the
  character classes of `path.Match`; `path_regex`, the normalisation of hosts and the
  constant headers are left out.  A JSON document is a
  path of names to one scalar.  The order in which a form's fields are logged is
  not kept.  A refusal by the limiter is possible for every request.

## 7. Not modelled, and the plan

What is left, in the order in which it would be added:

1. The API token and the login limiter beside the session in `AdminAuth`, and the
   abstract specification of authentication: who may do what under which password,
   shown to be implemented where no one is `Late`.
2. The coarse ring of the history, computed from the fine samples, with the
   restoring of both; the counters by kind, status and rule.
3. What the rule API and the wizard do to the rules of a configuration, and the
   checks of `config.Validate` and `rules.Compile`, which `ConfigLifecycle` takes as
   data of a content.
4. The look-up of a static certificate by name (`static.go`).

Left out for good: the web interface (browser code), the embedded assets and the
rules of the packs (data), the formats of logs, the read-only views of the admin API
other than the log (no state), and the cryptography, which is the standard library's.
