--------------------------- MODULE ConfigInvariant ---------------------------
(***************************************************************************)
(* Why ConfigLifecycle is safe: the inductive invariant behind its safety  *)
(* properties, in named parts.  TLC checks it and ConfigLifecycleProofs     *)
(* proves it.                                                              *)
(***************************************************************************)
EXTENDS ConfigLifecycle

\* Locks are held exactly by those inside them, and by nobody before app.Run serves.
Locking ==
    /\ applyMu = "admin" <=> job.pc = "applying"
    /\ applyMu = "loop" <=> loop.pc = "swap"
    /\ proc # "up" => job.pc = "idle" /\ loop.pc = "recv" /\ baseline = live

\* Whoever holds applyMu has set the flag for what it is going to store.
PendingFollows ==
    /\ proc # "up" => ~pending
    /\ proc = "up" /\ applyMu = "free" => (pending <=> RestartRequired(baseline, live))
    /\ applyMu = "admin" => (pending <=> RestartRequired(baseline, job.new))
    /\ applyMu = "loop" => (pending <=> RestartRequired(baseline, loop.cfg))

\* Past its checks a save holds a configuration that boots, and one to go back to;
\* and there is no backup before there is a file.
OnlyBootable ==
    ~tampered =>
        /\ body
        /\ file = None \/ Bootable(file) \/ NeverSeeded
        /\ job.pc \notin {"idle", "locked"} => Bootable(job.new)
        /\ job.prev = None \/ Bootable(job.prev)
        /\ job.pc = "restoring" => job.prev # None
        /\ file = None \/ proc = "seeding" => backups = <<>>

Replacing == job.pc \in {"locked", "compiled", "backed", "pruned"}

\* Until its write, the save of a client is about the version it has seen.
SeenIsCurrent == Replacing /\ job.kind # "import" /\ ~job.raced => job.seen = FileMtime

Newest == backups[Len(backups)].content

\* The newest backup holds what is about to be replaced, then what was.
BackedUp ==
    ~job.raced =>
        /\ job.pc = "compiled" => job.prev = file
        /\ job.pc \in {"backed", "pruned"} => file # None /\ Newest = file
        /\ job.pc \in {"backed", "pruned", "written", "applying", "restoring"} =>
             backups # <<>> /\ job.prev = Newest

(* Everything the safety properties of ConfigLifecycle follow from.          *)
IInv ==
    /\ TypeOK
    /\ Locking /\ PendingFollows
    /\ OnlyBootable
    /\ SeenIsCurrent /\ BackedUp /\ BackupsBounded

=============================================================================
