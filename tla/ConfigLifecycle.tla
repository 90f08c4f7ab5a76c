--------------------------- MODULE ConfigLifecycle ---------------------------
(***************************************************************************)
(* The life of the configuration file: the process that boots from it, the *)
(* admin handlers that save it, the watcher and SIGHUP goroutines of main  *)
(* that ask for a reload, the reload loop of app.Run that performs it, and *)
(* whatever else edits the file on disk.                                   *)
(*                                                                         *)
(* A configuration is a member of Contents.  All that is kept of it is     *)
(* whether it parses, whether its rules need a body_file on disk, and its  *)
(* startup-only part.  Two members of Contents may mean the same           *)
(* configuration written in two ways.                                      *)
(***************************************************************************)
EXTENDS Integers, Sequences

CONSTANTS
    Contents,    \* what the configuration file may hold
    Default,     \* what WriteDefaultConfig seeds into a missing file
    Empty,       \* the file WriteDefaultConfig has created and not yet written
    Partial,     \* what it may have written of Default when it is cut off
    Invalid,     \* the contents that ParseBytes refuses
    BadRules,    \* the contents that parse and whose rules never compile
    NeedsBody,   \* the contents with a rule that loads a body_file
    NoAdmin,     \* the contents that leave the admin plane disabled
    Startup,     \* Startup[c]: the settings of c that are bound at startup
    Rendered,    \* Rendered[c]: what MarshalConfig writes of c once parsed
    Keep,        \* keepConfigBackups
    None,        \* no file, no configuration
    MaxEdits,    \* bound: edits made outside the program, body files included
    MaxSaves,    \* bound: admin requests that pass the checks of their handler
    MaxStops,    \* bound: crashes and accepted restart requests
    MaxHups,     \* bound: SIGHUPs received
    MaxIOErrors  \* bound: file system errors, of a save or of the first write

ASSUME ContentsAssumption ==
    /\ None \notin Contents
    /\ Invalid \subseteq Contents
    /\ {Default, Empty} \subseteq Contents \ (Invalid \cup BadRules \cup NeedsBody)
    /\ Default \notin NoAdmin /\ Empty \in NoAdmin

\* The default configuration has no rules, so that no beginning of it has any;
\* but the beginning of a document may be none.
ASSUME PartialAssumption ==
    /\ {Empty, Default} \subseteq Partial
    /\ Partial \subseteq Contents \ (BadRules \cup NeedsBody)

\* What is written of a parsed configuration parses to the same configuration.
ASSUME RenderedAssumption ==
    \A c \in Contents \ Invalid :
        /\ Rendered[c] \in Contents \ Invalid
        /\ \A class \in {BadRules, NeedsBody, NoAdmin} :
             Rendered[c] \in class <=> c \in class
        /\ Startup[Rendered[c]] = Startup[c]

ASSUME BoundsAssumption ==
    /\ Keep \in Nat \ {0}
    /\ MaxEdits \in Nat /\ MaxSaves \in Nat /\ MaxStops \in Nat
    /\ MaxHups \in Nat /\ MaxIOErrors \in Nat

VARIABLES
    \* on disk
    file,        \* the content of the configuration file, or None
    mtime,       \* its modification time: every write gives a new one
    backups,     \* the numbered backups beside it, oldest first
    body,        \* is the body_file the rules name on disk?
    \* in the process
    proc,        \* "down", "seeding", "loading", "booting" (in app.Run, not yet
                 \* serving) or "up"
    baseline,    \* cfg of app.Run: the configuration of this process's startup
    live,        \* currentConfig, and the pair httpserver serves with
    pending,     \* restartPending
    applyMu,     \* who holds applyMu: "free", "admin" or "loop"
    restarting,  \* restartInProgress
    watch,       \* watchConfigFile: [pc, last], last = None until seeded
    hup,         \* the SIGHUP goroutine: [signal (the channel of 1), pc]
    reloadCh,    \* how many paths wait in reloadCh (capacity 1)
    loop,        \* reloadLoop: [pc, cfg]
    job,         \* the admin handler that holds configWriteMu, if any
    \* history and bounds
    tampered,    \* has anything but the program changed the files?
    left         \* how many more environment events of each kind

disk == <<file, mtime, backups, body>>
applied == <<baseline, live, pending, applyMu>>
vars == <<disk, proc, applied, restarting, watch, hup, reloadCh, loop, job,
          tampered, left>>

-----------------------------------------------------------------------------
(* What the program asks of a configuration. *)

\* config.Load and ParseBytes, which end in Validate.
Loads(c) == c # None /\ c \notin Invalid

\* rulepacks.Merge and rules.Compile, which reads every body_file.
Compiles(c) == c \notin BadRules /\ (c \in NeedsBody => body)

\* What main and app.Run need of the content of the file to come up.  They also
\* need ports, certificate files and a state directory.
Bootable(c) == Loads(c) /\ Compiles(c)

RestartRequired(from, to) == Startup[from] # Startup[to]

\* The admin listener is bound, or not, for the life of the process.
AdminServes == proc = "up" /\ baseline \notin NoAdmin

\* configFileMtime: 0 when there is no file.
FileMtime == IF file = None THEN 0 ELSE mtime

\* The number BackupConfig gives its next copy: backups are listed oldest first.
NextNumber == IF backups = <<>> THEN 1 ELSE 1 + backups[Len(backups)].num

\* mutant: the list is taken to be newest first
PrunedFromNewest(list) == IF Len(list) <= Keep THEN list ELSE SubSeq(list, 1, Keep)

\* mutant: the copy just made is not counted
PrunedLate(list) ==
    IF Len(list) <= Keep + 1 THEN list ELSE SubSeq(list, Len(list) - Keep, Len(list))

\* What BackupConfig's pruning loop leaves of the list: its Keep newest.
Pruned(list) ==
    IF Len(list) <= Keep THEN list
    ELSE SubSeq(list, Len(list) - Keep + 1, Len(list))

NoJob == [pc |-> "idle", kind |-> "mutate", new |-> None, prev |-> None,
          seen |-> 0, raced |-> FALSE]

WriteFile(c) == file' = c /\ mtime' = mtime + 1

Spend(kind) == left[kind] > 0 /\ left' = [left EXCEPT ![kind] = @ - 1]

-----------------------------------------------------------------------------
DiskOK ==
    /\ file \in Contents \cup {None}
    /\ mtime \in Nat
    /\ backups \in Seq([num : Nat, content : Contents])
    /\ body \in BOOLEAN

ProcOK ==
    /\ proc \in {"down", "seeding", "loading", "booting", "up"}
    /\ baseline \in Contents \cup {None}
    /\ live \in Contents \cup {None}
    /\ pending \in BOOLEAN
    /\ applyMu \in {"free", "admin", "loop"}
    /\ restarting \in BOOLEAN

ReloadOK ==
    /\ watch \in [pc : {"off", "start", "poll", "send"},
                  last : Contents \cup {None}]
    /\ hup \in [signal : BOOLEAN, pc : {"wait", "send"}]
    /\ reloadCh \in 0..1
    /\ loop \in [pc : {"recv", "load", "apply", "swap"},
                 cfg : Contents \cup {None}]

JobOK ==
    job \in [pc : {"idle", "locked", "compiled", "backed", "pruned", "written",
                   "applying", "restoring", "applied"},
             kind : {"mutate", "restore", "import"},
             new : Contents \cup {None}, prev : Contents \cup {None},
             seen : Nat, raced : BOOLEAN]

BoundsOK ==
    /\ tampered \in BOOLEAN
    /\ left \in [{"edit", "save", "stop", "hup", "io"} -> Nat]

(* Every variable has its type; in particular reloadCh never holds more than *)
(* its capacity, with two senders and one receiver.                          *)
TypeOK == DiskOK /\ ProcOK /\ ReloadOK /\ JobOK /\ BoundsOK

Init ==
    /\ file = None /\ mtime = 0 /\ backups = <<>> /\ body = TRUE
    /\ proc = "down" /\ baseline = None /\ live = None
    /\ pending = FALSE /\ applyMu = "free" /\ restarting = FALSE
    /\ watch = [pc |-> "off", last |-> None]
    /\ hup = [signal |-> FALSE, pc |-> "wait"]
    /\ reloadCh = 0 /\ loop = [pc |-> "recv", cfg |-> None]
    /\ job = NoJob /\ tampered = FALSE
    /\ left = [k \in {"edit", "save", "stop", "hup", "io"} |->
                 CASE k = "edit" -> MaxEdits [] k = "save" -> MaxSaves
                   [] k = "stop" -> MaxStops [] k = "hup" -> MaxHups
                   [] k = "io" -> MaxIOErrors]

-----------------------------------------------------------------------------
(* The process: main, app.Run and how they end. *)

\* Everything a process holds in memory is gone with it.
Gone ==
    /\ proc' = "down" /\ baseline' = None /\ live' = None
    /\ pending' = FALSE /\ applyMu' = "free" /\ restarting' = FALSE
    /\ watch' = [pc |-> "off", last |-> None]
    /\ hup' = [signal |-> FALSE, pc |-> "wait"]
    /\ reloadCh' = 0 /\ loop' = [pc |-> "recv", cfg |-> None]
    /\ job' = NoJob

Stopped == Gone /\ UNCHANGED <<disk, tampered>>

\* WriteDefaultConfig creates a missing file and then writes into it.
BootCreate ==
    /\ proc = "down" /\ file = None
    /\ WriteFile(Empty)
    /\ proc' = "seeding"
    /\ UNCHANGED <<backups, body, applied, restarting, watch, hup, reloadCh, loop,
                   job, tampered, left>>

\* The write goes to the file just created, which may have been replaced since.
BootSeed ==
    /\ proc = "seeding"
    /\ IF file = Empty THEN WriteFile(Default) ELSE UNCHANGED <<file, mtime>>
    /\ proc' = "loading"
    /\ UNCHANGED <<backups, body, applied, restarting, watch, hup, reloadCh, loop,
                   job, tampered, left>>

\* The write or the close fails, which main exits for, or the process is killed in
\* between: some beginning of the default stays, and as the file now exists no later
\* start writes it again.
BootSeedCut ==
    /\ proc = "seeding"
    /\ Spend("io") \/ Spend("stop")
    /\ IF file = Empty THEN \E c \in Partial : WriteFile(c) ELSE UNCHANGED <<file, mtime>>
    /\ Gone
    /\ UNCHANGED <<backups, body, tampered>>

\* main loads the file and starts the SIGHUP and watcher goroutines.  A
\* configuration that does not load ends the process.
BootLoad ==
    /\ proc = "loading" \/ (proc = "down" /\ file # None)
    /\ IF Loads(file)
         THEN /\ proc' = "booting" /\ baseline' = file /\ live' = file
              /\ watch' = [pc |-> "start", last |-> None]
              /\ UNCHANGED <<disk, pending, applyMu, restarting, hup, reloadCh,
                             loop, job, tampered>>
         ELSE Stopped
    /\ UNCHANGED left

\* app.Run merges and compiles the rules, then serves; or fails and exits.
BootRun ==
    /\ proc = "booting"
    /\ IF Compiles(baseline)
         THEN /\ proc' = "up"
              /\ UNCHANGED <<disk, applied, restarting, watch, hup, reloadCh,
                             loop, job, tampered>>
         ELSE Stopped
    /\ UNCHANGED left

Crash == proc # "down" /\ Stopped /\ Spend("stop")

\* What handleRestart asks of the file before it takes the process down.
Preflight == Loads(file)

\* handleRestart: one restart at a time, and only after the preflight.
RequestRestart ==
    /\ AdminServes /\ ~restarting /\ Preflight
    /\ restarting' = TRUE
    /\ Spend("stop")
    /\ UNCHANGED <<disk, proc, applied, watch, hup, reloadCh, loop, job, tampered>>

\* The delayed SIGTERM stops the process; if it cannot be sent, the flag is reset.
TriggerRestart ==
    /\ restarting
    /\ \/ Stopped
       \/ /\ restarting' = FALSE
          /\ UNCHANGED <<disk, proc, applied, watch, hup, reloadCh, loop, job,
                         tampered>>
    /\ UNCHANGED left

-----------------------------------------------------------------------------
(* Changes made outside the program. *)

ExternalEdit(c) ==
    /\ c # file
    /\ Spend("edit")
    /\ file' = c /\ mtime' = mtime + 1
    /\ tampered' = TRUE
    /\ job' = [job EXCEPT !.raced = job.pc # "idle"]
    /\ UNCHANGED <<backups, body, proc, applied, restarting, watch, hup,
                   reloadCh, loop>>

\* The body_file appears or disappears.
ExternalBody ==
    /\ Spend("edit")
    /\ body' = ~body
    /\ tampered' = TRUE
    /\ UNCHANGED <<file, mtime, backups, proc, applied, restarting, watch, hup,
                   reloadCh, loop, job>>

-----------------------------------------------------------------------------
(* watchConfigFile, the SIGHUP goroutine and reloadLoop. *)

WatchSeed ==
    /\ watch.pc = "start"
    /\ watch' = [pc |-> "poll", last |-> file]
    /\ UNCHANGED <<disk, proc, applied, restarting, hup, reloadCh, loop, job,
                   tampered, left>>

\* mutant: every change is adopted as if the watcher had not been seeded
TickAdopts == [pc |-> "poll", last |-> file]

\* A tick that finds a content: the first is adopted, and a change is remembered
\* before it is notified.
TickFinds ==
    IF file = watch.last THEN watch
    ELSE [pc |-> IF watch.last = None THEN "poll" ELSE "send", last |-> file]

\* An unreadable file is skipped.
WatchPoll ==
    /\ watch.pc = "poll"
    /\ watch' = IF file = None THEN watch ELSE TickFinds
    /\ UNCHANGED <<disk, proc, applied, restarting, hup, reloadCh, loop, job,
                   tampered, left>>

\* mutant: the channel has no capacity to wait for
NotifyUnbounded == reloadCh' = reloadCh + 1

\* A blocking send on reloadCh.
Notify == reloadCh = 0 /\ reloadCh' = 1

WatchSend ==
    /\ watch.pc = "send"
    /\ Notify
    /\ watch' = [watch EXCEPT !.pc = "poll"]
    /\ UNCHANGED <<disk, proc, applied, restarting, hup, loop, job, tampered, left>>

HupSignal ==
    /\ proc \in {"booting", "up"}
    /\ Spend("hup")
    /\ hup' = [hup EXCEPT !.signal = TRUE]
    /\ UNCHANGED <<disk, proc, applied, restarting, watch, reloadCh, loop, job,
                   tampered>>

\* mutant: a signal is dropped unless the reload loop is ready for it
HupTakenIfReady ==
    [signal |-> FALSE,
     pc |-> IF proc = "up" /\ loop.pc = "recv" THEN "send" ELSE "wait"]

HupTaken == [signal |-> FALSE, pc |-> "send"]

HupTake ==
    /\ hup.pc = "wait" /\ hup.signal
    /\ hup' = HupTaken
    /\ UNCHANGED <<disk, proc, applied, restarting, watch, reloadCh, loop, job,
                   tampered, left>>

HupSend ==
    /\ hup.pc = "send"
    /\ Notify
    /\ hup' = [hup EXCEPT !.pc = "wait"]
    /\ UNCHANGED <<disk, proc, applied, restarting, watch, loop, job, tampered, left>>

\* A reload that fails is logged and the loop goes on.
LoopContinues == [pc |-> "recv", cfg |-> None]

\* reloadLoop starts once app.Run serves.
LoopReceive ==
    /\ proc = "up" /\ loop.pc = "recv" /\ reloadCh = 1
    /\ reloadCh' = 0
    /\ loop' = [loop EXCEPT !.pc = "load"]
    /\ UNCHANGED <<disk, proc, applied, restarting, watch, hup, job, tampered, left>>

\* config.Load runs before, and outside, applyMu; a file that does not load
\* leaves the previous configuration in force.
LoopLoad ==
    /\ loop.pc = "load"
    /\ loop' = IF Loads(file) THEN [pc |-> "apply", cfg |-> file]
               ELSE LoopContinues
    /\ UNCHANGED <<disk, proc, applied, restarting, watch, hup, reloadCh, job,
                   tampered, left>>

-----------------------------------------------------------------------------
(* applyConfig: the two steps of an application under applyMu. *)

\* mutant: once set, the flag stays
PendingLatched(c) == pending \/ RestartRequired(baseline, c)

\* The flag is derived from the startup baseline, not latched.
PendingFor(c) == RestartRequired(baseline, c)

ApplyLock(who, c) ==
    /\ applyMu = "free" /\ Compiles(c)
    /\ applyMu' = who
    /\ pending' = PendingFor(c)
    /\ UNCHANGED <<baseline, live>>

ApplyRefused(c) == applyMu = "free" /\ ~Compiles(c) /\ UNCHANGED applied

\* mutant: applyMu is never released
ApplyKeepsLock(who, c) == applyMu = who /\ live' = c /\ UNCHANGED <<baseline, pending, applyMu>>

\* SwapConfig and currentConfig.Store, and the deferred unlock.
ApplySwap(who, c) ==
    /\ applyMu = who
    /\ live' = c
    /\ applyMu' = "free"
    /\ UNCHANGED <<baseline, pending>>

LoopApply ==
    /\ loop.pc = "apply"
    /\ \/ ApplyLock("loop", loop.cfg) /\ loop' = [loop EXCEPT !.pc = "swap"]
       \/ ApplyRefused(loop.cfg) /\ loop' = LoopContinues
    /\ UNCHANGED <<disk, proc, restarting, watch, hup, reloadCh, job, tampered, left>>

LoopSwap ==
    /\ loop.pc = "swap"
    /\ ApplySwap("loop", loop.cfg)
    /\ loop' = [pc |-> "recv", cfg |-> None]
    /\ UNCHANGED <<disk, proc, restarting, watch, hup, reloadCh, job, tampered, left>>

-----------------------------------------------------------------------------
(* The admin handlers that save, one at a time under configWriteMu.  A       *)
(* request refused before ApplyConfig changes nothing and is not a step.     *)
(* What a handler saves it has parsed, and writes in its own rendering.      *)

\* mutant: the modification time is not compared
MtimeIgnored(seen) == seen <= FileMtime

MtimeMatches(seen) == seen = FileMtime

Begin(kind, new, seen) ==
    /\ AdminServes /\ job.pc = "idle"
    /\ Spend("save")
    /\ job' = [pc |-> "locked", kind |-> kind, new |-> Rendered[new],
               prev |-> None, seen |-> seen, raced |-> FALSE]
    /\ UNCHANGED <<disk, proc, applied, restarting, watch, hup, reloadCh, loop,
                   tampered>>

\* mutateConfig, the core of every settings, raw, rules, rulepack and TLS-mode
\* save: the file on disk must parse and be the one the client read.
BeginMutate(new, seen) ==
    /\ Loads(file) /\ Loads(new)
    /\ MtimeMatches(seen)
    /\ Begin("mutate", new, seen)

\* handleBackupRestore: the content comes from a backup that still exists.
BeginRestore(i, seen) ==
    /\ Loads(backups[i].content)
    /\ MtimeMatches(seen)
    /\ Begin("restore", backups[i].content, seen)

\* handleConfigImport makes no check of the modification time.
BeginImport(new) == Loads(new) /\ Begin("import", new, 0)

JobStep(next) ==
    /\ job' = next
    /\ UNCHANGED <<proc, restarting, watch, hup, reloadCh, loop, tampered>>

Advance(pc) == JobStep([job EXCEPT !.pc = pc])

\* mutant: the rules are left for the reload to refuse
NoCompileCheck(c) == Loads(c)

\* Validate, rules.Compile and rulepacks.Merge, before anything is written.
ApplyConfigChecks(c) == Loads(c) /\ Compiles(c)

\* ApplyConfig checks the configuration and reads the bytes it may have to restore.
SaveCompile ==
    /\ job.pc = "locked"
    /\ JobStep(IF ApplyConfigChecks(job.new)
                 THEN [job EXCEPT !.pc = "compiled", !.prev = file]
                 ELSE NoJob)
    /\ UNCHANGED <<disk, applied, left>>

\* BackupConfig refuses a missing file, else copies it under the next number.
SaveBackup ==
    /\ job.pc = "compiled"
    /\ IF file = None
         THEN JobStep(NoJob) /\ UNCHANGED backups
         ELSE /\ backups' = Append(backups, [num |-> NextNumber, content |-> file])
              /\ Advance("backed")
    /\ UNCHANGED <<file, mtime, body, applied, left>>

SavePrune ==
    /\ job.pc = "backed"
    /\ backups' = Pruned(backups)
    /\ Advance("pruned")
    /\ UNCHANGED <<file, mtime, body, applied, left>>

SaveWrite ==
    /\ job.pc = "pruned"
    /\ WriteFile(job.new)
    /\ Advance("written")
    /\ UNCHANGED <<backups, body, applied, left>>

\* The synchronous reload.  Without previous bytes there is nothing to restore.
SaveApply ==
    /\ job.pc = "written"
    /\ \/ ApplyLock("admin", job.new) /\ Advance("applying")
       \/ /\ ApplyRefused(job.new)
          /\ JobStep(IF job.prev = None THEN NoJob
                     ELSE [job EXCEPT !.pc = "restoring"])
    /\ UNCHANGED <<disk, left>>

SaveSwap ==
    /\ job.pc = "applying"
    /\ ApplySwap("admin", job.new)
    /\ Advance("applied")
    /\ UNCHANGED <<disk, left>>

\* mutant: the rollback writes the refused configuration again
RestoredNew == job.new

RestoredBytes == job.prev

SaveRestore ==
    /\ job.pc = "restoring"
    /\ WriteFile(RestoredBytes)
    /\ JobStep(NoJob)
    /\ UNCHANGED <<backups, body, applied, left>>

\* The response, which reports restartPending as it is now.
SaveReply ==
    /\ job.pc = "applied"
    /\ JobStep(NoJob)
    /\ UNCHANGED <<disk, applied, left>>

\* A file system error ends the save.  WriteFileAtomic may fail after its rename
\* (when the directory cannot be synced): the file is then already replaced.
SaveIOError ==
    /\ job.pc \in {"locked", "compiled", "backed", "pruned", "restoring"}
    /\ Spend("io")
    /\ JobStep(NoJob)
    /\ \/ UNCHANGED <<file, mtime>>
       \/ job.pc = "pruned" /\ WriteFile(job.new)
       \/ job.pc = "restoring" /\ WriteFile(RestoredBytes)
    /\ UNCHANGED <<backups, body, applied>>

-----------------------------------------------------------------------------
Process ==
    \/ BootCreate \/ BootSeed \/ BootSeedCut \/ BootLoad \/ BootRun
    \/ Crash \/ RequestRestart \/ TriggerRestart

Outside == ExternalBody \/ \E c \in Contents \cup {None} : ExternalEdit(c)

Reload ==
    \/ WatchSeed \/ WatchPoll \/ WatchSend
    \/ HupSignal \/ HupTake \/ HupSend
    \/ LoopReceive \/ LoopLoad \/ LoopApply \/ LoopSwap

Save ==
    \/ \E new \in Contents, seen \in 0..mtime : BeginMutate(new, seen)
    \/ \E i \in 1..Len(backups), seen \in 0..mtime : BeginRestore(i, seen)
    \/ \E new \in Contents : BeginImport(new)
    \/ SaveCompile \/ SaveBackup \/ SavePrune \/ SaveWrite \/ SaveApply
    \/ SaveSwap \/ SaveRestore \/ SaveReply \/ SaveIOError

Next == Process \/ Outside \/ Reload \/ Save

Spec == Init /\ [][Next]_vars

(* The goroutines and handlers keep running while the process does.  Nobody  *)
(* has to edit, save, signal, crash or restart.                              *)
Fairness ==
    /\ WF_vars(BootRun)
    /\ WF_vars(WatchSeed) /\ WF_vars(WatchPoll) /\ WF_vars(WatchSend)
    /\ WF_vars(HupTake) /\ WF_vars(HupSend)
    /\ WF_vars(LoopReceive) /\ WF_vars(LoopLoad)
    /\ WF_vars(LoopApply) /\ WF_vars(LoopSwap)
    /\ WF_vars(SaveCompile) /\ WF_vars(SaveBackup) /\ WF_vars(SavePrune)
    /\ WF_vars(SaveWrite) /\ WF_vars(SaveApply) /\ WF_vars(SaveSwap)
    /\ WF_vars(SaveRestore) /\ WF_vars(SaveReply)

FairSpec == Spec /\ Fairness

-----------------------------------------------------------------------------
(* Safety. *)

\* The configuration that is live, or that whoever holds applyMu is making live.
Applying ==
    CASE applyMu = "free"  -> live
      [] applyMu = "admin" -> job.new
      [] applyMu = "loop"  -> loop.cfg

(* The restart-pending flag says exactly whether the configuration that is   *)
(* live, or between the two stores of an application the one that is about   *)
(* to be, differs from the one this process started with in a startup-only   *)
(* setting.  It is set by the change and cleared by its reversal, whoever    *)
(* applies them and in what order, and it is never set for a configuration   *)
(* that does not follow.                                                     *)
PendingExact == proc = "up" => pending = RestartRequired(baseline, Applying)

\* What is there comes from the very first write, which was cut off: nothing has
\* come up from it, and nothing has been saved.
NeverSeeded == file \in Partial /\ proc = "down" /\ backups = <<>>

(* As long as only the program touches the files, the content of the        *)
(* configuration file can always boot: at every point of every save, after  *)
(* every file system error, crash and restart, and with every interleaved   *)
(* reload.  The exception is a first write of the default that was cut off: *)
(* what it leaves need not load, and every later start keeps it.  No save   *)
(* leads back there: it begins with a backup.                               *)
GuiKeepsBootable == ~tampered => file = None \/ Bootable(file) \/ NeverSeeded

(* A save replaces the file (by its rename, even if it then reports an      *)
(* error), or its rollback does.                                            *)
SaveReplaces == job.pc = "pruned" /\ job'.pc # "pruned" /\ mtime' # mtime
Restores == job.pc = "restoring" /\ job'.pc # "restoring" /\ mtime' # mtime

(* No client overwrites a change it has not seen: a save or a restore of a  *)
(* backup replaces the very version of the file its client had loaded,      *)
(* unless something outside the program changed the file after the check of *)
(* the modification time.  (An import makes no such check.)                 *)
NoSilentOverwrite ==
    [][SaveReplaces /\ job.kind # "import" /\ ~job.raced => mtime = job.seen]_vars

(* What a save replaces is not lost: it is the newest backup, and pruning   *)
(* has not removed it.                                                      *)
BackupHoldsReplaced ==
    [][SaveReplaces /\ ~job.raced =>
         backups # <<>> /\ file = backups[Len(backups)].content]_vars

(* However many prunings earlier crashes and errors skipped, a save that    *)
(* reaches its write leaves at most Keep backups.                           *)
BackupsBounded ==
    job.pc \in {"pruned", "written", "applying", "restoring", "applied"} =>
        Len(backups) <= Keep

(* When the reload refuses a saved configuration, the file goes back to     *)
(* what it was before the save, which the newest backup holds as well.      *)
RollbackRestores ==
    [][Restores /\ ~job.raced => file' = backups[Len(backups)].content]_vars

-----------------------------------------------------------------------------
(* Liveness, under FairSpec. *)

Settled(c) == live = c \/ file # c \/ ~Compiles(c) \/ proc = "down"

(* A valid edit the watcher has not seen yet becomes the live configuration, *)
(* unless the file changes again, its rules stop compiling or the process    *)
(* ends.                                                                     *)
EditApplied ==
    \A c \in Contents :
        (proc = "up" /\ file = c /\ Bootable(c) /\ watch.last \notin {None, c})
            ~> Settled(c)

(* A SIGHUP makes a valid file live, even one that arrives before the reload *)
(* loop runs or while it is busy.                                            *)
HupApplied ==
    \A c \in Contents : (file = c /\ Bootable(c) /\ hup.signal) ~> Settled(c)

(* A save always ends: neither configWriteMu nor applyMu is held forever.    *)
SaveEnds == (job.pc # "idle") ~> (job.pc = "idle")

-----------------------------------------------------------------------------
(* What the comments and documents say, and the code does not do. *)

(* docs/configuration.md: the responder watches the file and applies valid   *)
(* edits.  So a valid file is eventually live, or changes again.             *)
ValidFileApplied ==
    \A c \in Contents : (proc = "up" /\ file = c /\ Bootable(c)) ~> Settled(c)

(* api_restart.go: never take a running responder down for a configuration   *)
(* that cannot boot.                                                         *)
RestartBoots == [][~restarting /\ restarting' => Bootable(file)]_vars

=============================================================================
