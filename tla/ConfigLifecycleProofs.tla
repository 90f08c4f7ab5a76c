------------------------ MODULE ConfigLifecycleProofs ------------------------
(***************************************************************************)
(* Type correctness of ConfigLifecycle, and its safety properties from the *)
(* inductive invariant of ConfigInvariant: one lemma for each of its parts.*)
(***************************************************************************)
EXTENDS ConfigInvariant, SequenceTheorems, TLAPS

(* Pruning leaves at most Keep backups, each of them one of the old ones, and *)
(* the newest stays the newest.                                               *)
LEMMA PrunedKeepsNewest ==
    ASSUME NEW S, NEW list \in Seq(S)
    PROVE  /\ Pruned(list) \in Seq(S)
           /\ Len(Pruned(list)) <= Keep
           /\ list # <<>> => /\ Pruned(list) # <<>>
                             /\ Pruned(list)[Len(Pruned(list))] = list[Len(list)]
<1> USE BoundsAssumption
<1>1. CASE Len(list) <= Keep
  BY <1>1 DEF Pruned
<1>2. CASE Len(list) > Keep
  <2> DEFINE m == Len(list) - Keep + 1
  <2>1. /\ m \in Int /\ Len(list) \in Int /\ Len(list) - m + 1 = Keep
        /\ \A i \in m..Len(list) : list[i] \in S
    BY <1>2
  <2>2. /\ SubSeq(list, m, Len(list)) \in Seq(S)
        /\ Len(SubSeq(list, m, Len(list))) = Keep
        /\ SubSeq(list, m, Len(list))[Keep] = list[Len(list)]
    BY <1>2, <2>1, SubSeqProperties
  <2>3. Pruned(list) = SubSeq(list, m, Len(list))
    BY <1>2 DEF Pruned
  <2>4. Keep # 0 /\ Len(<<>>) = 0
    OBVIOUS
  <2>5. Pruned(list) # <<>>
    BY <2>2, <2>3, <2>4
  <2> HIDE DEF m
  <2> QED
    BY <2>2, <2>3, <2>5
<1> QED
  BY <1>1, <1>2

(* A process that ends leaves every variable within its type. *)
LEMMA StoppedType ==
    ASSUME TypeOK, Stopped
    PROVE  DiskOK' /\ ProcOK' /\ ReloadOK' /\ JobOK' /\ tampered' = tampered
<1>1. DiskOK' /\ tampered' = tampered
  BY DEF TypeOK, Stopped, Gone, DiskOK, disk
<1>2. ProcOK'
  BY DEF Stopped, Gone, ProcOK
<1>3. ReloadOK'
  BY DEF Stopped, Gone, ReloadOK
<1>4. JobOK'
  BY DEF Stopped, Gone, NoJob, JobOK
<1> QED
  BY <1>1, <1>2, <1>3, <1>4

(* A save starts with the rendering of a configuration that parses.          *)
LEMMA BeginType ==
    ASSUME TypeOK, NEW kind \in {"mutate", "restore", "import"},
           NEW new \in Contents, NEW seen \in Nat,
           Loads(new), Begin(kind, new, seen)
    PROVE  TypeOK'
<1>1. Rendered[new] \in Contents
  BY RenderedAssumption DEF Loads
<1>2. JobOK'
  BY <1>1 DEF Begin, JobOK
<1>3. BoundsOK'
  BY DEF Begin, Spend, TypeOK, BoundsOK
<1>4. DiskOK' /\ ProcOK' /\ ReloadOK'
  BY DEF Begin, TypeOK, DiskOK, ProcOK, ReloadOK, disk, applied
<1> QED
  BY <1>2, <1>3, <1>4 DEF TypeOK

(* Every step keeps every variable within its type. *)
LEMMA TypeStep == TypeOK /\ [Next]_vars => TypeOK'
<1> SUFFICES ASSUME TypeOK, [Next]_vars PROVE TypeOK'
  OBVIOUS
<1> USE ContentsAssumption, BoundsAssumption DEF TypeOK, disk, applied
<1>1. CASE BootCreate
  <2>1. DiskOK'
    BY <1>1 DEF BootCreate, WriteFile, DiskOK
  <2>2. ProcOK'
    BY <1>1 DEF BootCreate, ProcOK
  <2>3. ReloadOK' /\ JobOK' /\ BoundsOK'
    BY <1>1 DEF BootCreate, ReloadOK, JobOK, BoundsOK
  <2> QED
    BY <2>1, <2>2, <2>3
<1>2. CASE BootSeed
  <2>1. DiskOK'
    BY <1>2 DEF BootSeed, WriteFile, DiskOK
  <2>2. ProcOK'
    BY <1>2 DEF BootSeed, ProcOK
  <2>3. ReloadOK' /\ JobOK' /\ BoundsOK'
    BY <1>2 DEF BootSeed, ReloadOK, JobOK, BoundsOK
  <2> QED
    BY <2>1, <2>2, <2>3
<1>40. CASE BootSeedCut
  <2>1. DiskOK'
    BY <1>40, PartialAssumption DEF BootSeedCut, WriteFile, DiskOK
  <2>2. ProcOK' /\ JobOK'
    BY <1>40 DEF BootSeedCut, Gone, NoJob, ProcOK, JobOK
  <2>3. ReloadOK' /\ BoundsOK'
    BY <1>40 DEF BootSeedCut, Gone, Spend, ReloadOK, BoundsOK
  <2> QED
    BY <2>1, <2>2, <2>3
<1>3. CASE BootLoad
  <2>1. tampered' = tampered => BoundsOK'
    BY <1>3 DEF BootLoad, BoundsOK
  <2>2. CASE Loads(file)
    <3>1. ProcOK'
      BY <1>3, <2>2 DEF BootLoad, Loads, DiskOK, ProcOK
    <3>2. ReloadOK'
      BY <1>3, <2>2 DEF BootLoad, ReloadOK
    <3>3. DiskOK' /\ JobOK' /\ tampered' = tampered
      BY <1>3, <2>2 DEF BootLoad, DiskOK, JobOK
    <3> QED
      BY <2>1, <3>1, <3>2, <3>3
  <2>3. CASE ~Loads(file)
    BY <1>3, <2>1, <2>3, StoppedType DEF BootLoad
  <2> QED
    BY <2>2, <2>3
<1>4. CASE BootRun
  <2>1. tampered' = tampered => BoundsOK'
    BY <1>4 DEF BootRun, BoundsOK
  <2>2. CASE Compiles(baseline)
    <3>1. ProcOK'
      BY <1>4, <2>2 DEF BootRun, ProcOK
    <3>2. DiskOK' /\ ReloadOK' /\ JobOK' /\ tampered' = tampered
      BY <1>4, <2>2 DEF BootRun, DiskOK, ReloadOK, JobOK
    <3> QED
      BY <2>1, <3>1, <3>2
  <2>3. CASE ~Compiles(baseline)
    BY <1>4, <2>1, <2>3, StoppedType DEF BootRun
  <2> QED
    BY <2>2, <2>3
<1>5. CASE Crash
  <2>1. BoundsOK'
    BY <1>5, StoppedType DEF Crash, Spend, BoundsOK
  <2> QED
    BY <1>5, <2>1, StoppedType DEF Crash
<1>6. CASE RequestRestart
  <2>1. ProcOK'
    BY <1>6 DEF RequestRestart, ProcOK
  <2>2. BoundsOK'
    BY <1>6 DEF RequestRestart, Spend, BoundsOK
  <2>3. DiskOK' /\ ReloadOK' /\ JobOK'
    BY <1>6 DEF RequestRestart, DiskOK, ReloadOK, JobOK
  <2> QED
    BY <2>1, <2>2, <2>3
<1>7. CASE TriggerRestart
  <2>1. tampered' = tampered => BoundsOK'
    BY <1>7 DEF TriggerRestart, BoundsOK
  <2>2. CASE Stopped
    BY <2>1, <2>2, StoppedType
  <2>3. CASE ~Stopped
    <3>1. ProcOK'
      BY <1>7, <2>3 DEF TriggerRestart, ProcOK
    <3>2. DiskOK' /\ ReloadOK' /\ JobOK' /\ tampered' = tampered
      BY <1>7, <2>3 DEF TriggerRestart, DiskOK, ReloadOK, JobOK
    <3> QED
      BY <2>1, <3>1, <3>2
  <2> QED
    BY <2>2, <2>3
<1>8. ASSUME NEW c \in Contents \cup {None}, ExternalEdit(c)
      PROVE  TypeOK'
  <2>1. DiskOK'
    BY <1>8 DEF ExternalEdit, DiskOK
  <2>2. JobOK'
    BY <1>8 DEF ExternalEdit, JobOK
  <2>3. BoundsOK'
    BY <1>8 DEF ExternalEdit, Spend, BoundsOK
  <2>4. ProcOK' /\ ReloadOK'
    BY <1>8 DEF ExternalEdit, ProcOK, ReloadOK
  <2> QED
    BY <2>1, <2>2, <2>3, <2>4
<1>9. CASE ExternalBody
  <2>1. DiskOK'
    BY <1>9 DEF ExternalBody, DiskOK
  <2>2. BoundsOK'
    BY <1>9 DEF ExternalBody, Spend, BoundsOK
  <2>3. ProcOK' /\ ReloadOK' /\ JobOK'
    BY <1>9 DEF ExternalBody, ProcOK, ReloadOK, JobOK
  <2> QED
    BY <2>1, <2>2, <2>3
<1>10. CASE WatchSeed
  <2>1. ReloadOK'
    BY <1>10 DEF WatchSeed, DiskOK, ReloadOK
  <2>2. DiskOK' /\ ProcOK' /\ JobOK' /\ BoundsOK'
    BY <1>10 DEF WatchSeed, DiskOK, ProcOK, JobOK, BoundsOK
  <2> QED
    BY <2>1, <2>2
<1>11. CASE WatchPoll
  <2>1. ReloadOK'
    BY <1>11 DEF WatchPoll, TickFinds, DiskOK, ReloadOK
  <2>2. DiskOK' /\ ProcOK' /\ JobOK' /\ BoundsOK'
    BY <1>11 DEF WatchPoll, TickFinds, DiskOK, ProcOK, JobOK, BoundsOK
  <2> QED
    BY <2>1, <2>2
<1>12. CASE WatchSend
  <2>1. ReloadOK'
    BY <1>12 DEF WatchSend, Notify, ReloadOK
  <2>2. DiskOK' /\ ProcOK' /\ JobOK' /\ BoundsOK'
    BY <1>12 DEF WatchSend, Notify, DiskOK, ProcOK, JobOK, BoundsOK
  <2> QED
    BY <2>1, <2>2
<1>13. CASE HupSignal
  <2>1. ReloadOK'
    BY <1>13 DEF HupSignal, ReloadOK
  <2>2. BoundsOK'
    BY <1>13 DEF HupSignal, Spend, BoundsOK
  <2>3. DiskOK' /\ ProcOK' /\ JobOK'
    BY <1>13 DEF HupSignal, DiskOK, ProcOK, JobOK
  <2> QED
    BY <2>1, <2>2, <2>3
<1>14. CASE HupTake
  <2>1. ReloadOK'
    BY <1>14 DEF HupTake, HupTaken, ReloadOK
  <2>2. DiskOK' /\ ProcOK' /\ JobOK' /\ BoundsOK'
    BY <1>14 DEF HupTake, HupTaken, DiskOK, ProcOK, JobOK, BoundsOK
  <2> QED
    BY <2>1, <2>2
<1>15. CASE HupSend
  <2>1. ReloadOK'
    BY <1>15 DEF HupSend, Notify, ReloadOK
  <2>2. DiskOK' /\ ProcOK' /\ JobOK' /\ BoundsOK'
    BY <1>15 DEF HupSend, Notify, DiskOK, ProcOK, JobOK, BoundsOK
  <2> QED
    BY <2>1, <2>2
<1>16. CASE LoopReceive
  <2>1. ReloadOK'
    BY <1>16 DEF LoopReceive, ReloadOK
  <2>2. DiskOK' /\ ProcOK' /\ JobOK' /\ BoundsOK'
    BY <1>16 DEF LoopReceive, DiskOK, ProcOK, JobOK, BoundsOK
  <2> QED
    BY <2>1, <2>2
<1>17. CASE LoopLoad
  <2>1. ReloadOK'
    BY <1>17 DEF LoopLoad, LoopContinues, DiskOK, ReloadOK
  <2>2. DiskOK' /\ ProcOK' /\ JobOK' /\ BoundsOK'
    BY <1>17 DEF LoopLoad, LoopContinues, DiskOK, ProcOK, JobOK, BoundsOK
  <2> QED
    BY <2>1, <2>2
<1>18. CASE LoopApply
  <2>1. ProcOK'
    BY <1>18 DEF LoopApply, ApplyLock, ApplyRefused, PendingFor,
      RestartRequired, ProcOK
  <2>2. ReloadOK'
    BY <1>18 DEF LoopApply, ApplyLock, ApplyRefused, LoopContinues, ReloadOK
  <2>3. DiskOK' /\ JobOK' /\ BoundsOK'
    BY <1>18 DEF LoopApply, ApplyLock, ApplyRefused, DiskOK, JobOK, BoundsOK
  <2> QED
    BY <2>1, <2>2, <2>3
<1>19. CASE LoopSwap
  <2>1. ProcOK'
    BY <1>19 DEF LoopSwap, ApplySwap, ReloadOK, ProcOK
  <2>2. ReloadOK'
    BY <1>19 DEF LoopSwap, ApplySwap, ReloadOK
  <2>3. DiskOK' /\ JobOK' /\ BoundsOK'
    BY <1>19 DEF LoopSwap, ApplySwap, DiskOK, JobOK, BoundsOK
  <2> QED
    BY <2>1, <2>2, <2>3
<1>20. ASSUME NEW new \in Contents, NEW seen \in 0..mtime, BeginMutate(new, seen)
      PROVE  TypeOK'
  <2>1. seen \in Nat
    BY <1>20 DEF DiskOK
  <2> QED
    BY <1>20, <2>1, BeginType DEF BeginMutate
<1>21. ASSUME NEW i \in 1..Len(backups), NEW seen \in 0..mtime, BeginRestore(i, seen)
      PROVE  TypeOK'
  <2>1. backups[i] \in [num : Nat, content : Contents]
    BY <1>21, ElementOfSeq DEF DiskOK
  <2>2. seen \in Nat
    BY <1>21 DEF DiskOK
  <2> QED
    BY <1>21, <2>1, <2>2, BeginType DEF BeginRestore
<1>22. ASSUME NEW new \in Contents, BeginImport(new)
      PROVE  TypeOK'
  BY <1>22, BeginType DEF BeginImport
<1>23. CASE SaveCompile
  <2>1. JobOK'
    <3>1. CASE ApplyConfigChecks(job.new)
      BY <1>23, <3>1 DEF SaveCompile, JobStep, DiskOK, JobOK
    <3>2. CASE ~ApplyConfigChecks(job.new)
      BY <1>23, <3>2 DEF SaveCompile, JobStep, NoJob, JobOK
    <3> QED
      BY <3>1, <3>2
  <2>2. DiskOK' /\ ProcOK' /\ ReloadOK' /\ BoundsOK'
    BY <1>23 DEF SaveCompile, JobStep, DiskOK, ProcOK, ReloadOK, BoundsOK
  <2> QED
    BY <2>1, <2>2
<1>24. CASE SaveBackup
  <2>1. ProcOK' /\ ReloadOK' /\ BoundsOK'
    BY <1>24 DEF SaveBackup, Advance, JobStep, ProcOK, ReloadOK, BoundsOK
  <2>2. CASE file = None
    <3>1. DiskOK'
      BY <1>24, <2>2 DEF SaveBackup, DiskOK
    <3>2. job' = NoJob
      BY <1>24, <2>2 DEF SaveBackup, JobStep
    <3>3. JobOK'
      BY <3>2 DEF NoJob, JobOK
    <3> QED
      BY <2>1, <3>1, <3>3
  <2>3. CASE file # None
    <3> DEFINE copy == [num |-> NextNumber, content |-> file]
    <3>1. NextNumber \in Nat
      <4>1. CASE backups = <<>>
        BY <4>1 DEF NextNumber
      <4>2. CASE backups # <<>>
        <5>1. Len(backups) \in 1..Len(backups)
          BY <4>2 DEF DiskOK
        <5>2. backups[Len(backups)] \in [num : Nat, content : Contents]
          BY <5>1, ElementOfSeq DEF DiskOK
        <5> QED
          BY <4>2, <5>2 DEF NextNumber
      <4> QED
        BY <4>1, <4>2
    <3>2. copy \in [num : Nat, content : Contents]
      BY <2>3, <3>1 DEF DiskOK
    <3>3. backups' = Append(backups, copy)
      BY <1>24, <2>3 DEF SaveBackup
    <3>4. backups' \in Seq([num : Nat, content : Contents])
      BY <3>2, <3>3, AppendProperties DEF DiskOK
    <3>5. DiskOK'
      BY <1>24, <3>4 DEF SaveBackup, DiskOK
    <3>6. JobOK'
      BY <1>24, <2>3 DEF SaveBackup, Advance, JobStep, JobOK
    <3> QED
      BY <2>1, <3>5, <3>6
  <2> QED
    BY <2>2, <2>3
<1>25. CASE SavePrune
  <2>1. DiskOK'
    BY <1>25, PrunedKeepsNewest DEF SavePrune, Advance, JobStep, DiskOK
  <2>2. JobOK'
    BY <1>25 DEF SavePrune, Advance, JobStep, JobOK
  <2>3. ProcOK' /\ ReloadOK' /\ BoundsOK'
    BY <1>25 DEF SavePrune, Advance, JobStep, ProcOK, ReloadOK, BoundsOK
  <2> QED
    BY <2>1, <2>2, <2>3
<1>26. CASE SaveWrite
  <2>1. DiskOK'
    BY <1>26 DEF SaveWrite, Advance, JobStep, WriteFile, JobOK, DiskOK
  <2>2. JobOK'
    BY <1>26 DEF SaveWrite, Advance, JobStep, JobOK
  <2>3. ProcOK' /\ ReloadOK' /\ BoundsOK'
    BY <1>26 DEF SaveWrite, Advance, JobStep, ProcOK, ReloadOK, BoundsOK
  <2> QED
    BY <2>1, <2>2, <2>3
<1>27. CASE SaveApply
  <2>1. ProcOK'
    BY <1>27 DEF SaveApply, ApplyLock, ApplyRefused, Advance, JobStep,
      PendingFor, RestartRequired, ProcOK
  <2>2. JobOK'
    <3>1. CASE job' = NoJob
      BY <3>1 DEF NoJob, JobOK
    <3>2. CASE job' # NoJob
      <4>1. \/ job' = [job EXCEPT !.pc = "applying"]
            \/ job' = [job EXCEPT !.pc = "restoring"]
        BY <1>27, <3>2 DEF SaveApply, Advance, JobStep
      <4> QED
        BY <4>1 DEF JobOK
    <3> QED
      BY <3>1, <3>2
  <2>3. DiskOK' /\ ReloadOK' /\ BoundsOK'
    BY <1>27 DEF SaveApply, ApplyLock, ApplyRefused, Advance, JobStep,
      DiskOK, ReloadOK, BoundsOK
  <2> QED
    BY <2>1, <2>2, <2>3
<1>28. CASE SaveSwap
  <2>1. ProcOK'
    BY <1>28 DEF SaveSwap, ApplySwap, Advance, JobStep, JobOK, ProcOK
  <2>2. JobOK'
    BY <1>28 DEF SaveSwap, ApplySwap, Advance, JobStep, JobOK
  <2>3. DiskOK' /\ ReloadOK' /\ BoundsOK'
    BY <1>28 DEF SaveSwap, ApplySwap, Advance, JobStep, DiskOK, ReloadOK,
      BoundsOK
  <2> QED
    BY <2>1, <2>2, <2>3
<1>29. CASE SaveRestore
  <2>1. DiskOK'
    BY <1>29 DEF SaveRestore, JobStep, WriteFile, RestoredBytes, JobOK, DiskOK
  <2>2. JobOK'
    BY <1>29 DEF SaveRestore, JobStep, NoJob, JobOK
  <2>3. ProcOK' /\ ReloadOK' /\ BoundsOK'
    BY <1>29 DEF SaveRestore, JobStep, ProcOK, ReloadOK, BoundsOK
  <2> QED
    BY <2>1, <2>2, <2>3
<1>30. CASE SaveReply
  <2>1. JobOK'
    BY <1>30 DEF SaveReply, JobStep, NoJob, JobOK
  <2>2. DiskOK' /\ ProcOK' /\ ReloadOK' /\ BoundsOK'
    BY <1>30 DEF SaveReply, JobStep, DiskOK, ProcOK, ReloadOK, BoundsOK
  <2> QED
    BY <2>1, <2>2
<1>31. CASE SaveIOError
  <2>1. DiskOK'
    BY <1>31 DEF SaveIOError, JobStep, WriteFile, RestoredBytes, JobOK, DiskOK
  <2>2. JobOK'
    BY <1>31 DEF SaveIOError, JobStep, NoJob, JobOK
  <2>3. BoundsOK'
    BY <1>31 DEF SaveIOError, JobStep, Spend, BoundsOK
  <2>4. ProcOK' /\ ReloadOK'
    BY <1>31 DEF SaveIOError, JobStep, ProcOK, ReloadOK
  <2> QED
    BY <2>1, <2>2, <2>3, <2>4
<1>32. CASE UNCHANGED vars
  BY <1>32 DEF vars, DiskOK, ProcOK, ReloadOK, JobOK, BoundsOK
<1> QED
  BY <1>1, <1>2, <1>40, <1>3, <1>4, <1>5, <1>6, <1>7, <1>8, <1>9, <1>10, <1>11, <1>12, <1>13, <1>14, <1>15, <1>16,
     <1>17, <1>18, <1>19, <1>20, <1>21, <1>22, <1>23, <1>24, <1>25, <1>26, <1>27, <1>28, <1>29, <1>30, <1>31, <1>32 DEF
    Next, Process, Outside, Reload, Save

(* Every variable starts within its type. *)
LEMMA InitType == Init => TypeOK
<1> SUFFICES ASSUME Init PROVE TypeOK
  OBVIOUS
<1>1. DiskOK
  BY DEF Init, DiskOK
<1>2. ProcOK
  BY DEF Init, ProcOK
<1>3. ReloadOK
  BY DEF Init, ReloadOK
<1>4. JobOK
  BY DEF Init, NoJob, JobOK
<1>5. BoundsOK
  BY BoundsAssumption DEF Init, BoundsOK
<1> QED
  BY <1>1, <1>2, <1>3, <1>4, <1>5 DEF TypeOK

(* Every variable keeps its type: for any set of contents, any number of     *)
(* edits, saves, crashes and signals, and any number of backups kept.        *)
THEOREM TypeCorrect == Spec => []TypeOK
BY InitType, TypeStep, PTL DEF Spec

-----------------------------------------------------------------------------
(* The inductive invariant *)


(* The checks of a save either pass, and it reads the bytes it would restore, *)
(* or end it.                                                                 *)
LEMMA CompileOutcome ==
    ASSUME TypeOK, SaveCompile
    PROVE  /\ job.pc = "locked"
           /\ \/ job' = [job EXCEPT !.pc = "compiled", !.prev = file]
              \/ job' = NoJob
<1>1. CASE ApplyConfigChecks(job.new)
  BY <1>1 DEF SaveCompile, JobStep
<1>2. CASE ~ApplyConfigChecks(job.new)
  BY <1>2 DEF SaveCompile, JobStep
<1> QED
  BY <1>1, <1>2

(* Nobody enters a lock another holds, and a process that ends releases it.  *)
LEMMA LockingStep ==
    ASSUME TypeOK, Locking, [Next]_vars
    PROVE  Locking'
<1> USE DEF Locking, disk, applied
<1>1. CASE Gone
  BY <1>1 DEF Gone, NoJob
<1>2. CASE Process
  <2>1. CASE BootCreate \/ BootSeed \/ RequestRestart
    BY <2>1 DEF BootCreate, BootSeed, RequestRestart, AdminServes
  <2>2. CASE BootSeedCut \/ BootLoad \/ BootRun \/ Crash \/ TriggerRestart
    BY <1>1, <2>2 DEF BootSeedCut, BootLoad, BootRun, Crash, TriggerRestart, Stopped
  <2> QED
    BY <1>2, <2>1, <2>2 DEF Process
<1>3. CASE Outside
  BY <1>3 DEF Outside, ExternalEdit, ExternalBody, TypeOK, JobOK
<1>4. CASE Reload
  <2>1. CASE LoopReceive \/ LoopLoad \/ LoopApply \/ LoopSwap
    BY <2>1 DEF LoopReceive, LoopLoad, LoopContinues, LoopApply, LoopSwap,
      ApplyLock, ApplyRefused, ApplySwap, TypeOK, ReloadOK
  <2>2. CASE WatchSeed \/ WatchPoll \/ WatchSend \/ HupSignal \/ HupTake \/ HupSend
    BY <2>2 DEF WatchSeed, WatchPoll, WatchSend, HupSignal, HupTake, HupSend
  <2> QED
    BY <1>4, <2>1, <2>2 DEF Reload
<1>5. CASE Save
  <2>1. ASSUME NEW kind, NEW new, NEW seen, Begin(kind, new, seen)
        PROVE  Locking'
    BY <2>1 DEF Begin, AdminServes
  <2>2. CASE SaveApply \/ SaveSwap
    BY <2>2 DEF SaveApply, SaveSwap, ApplyLock, ApplyRefused, ApplySwap, Advance,
      JobStep, NoJob, TypeOK, JobOK
  <2>3. CASE SaveCompile \/ SavePrune \/ SaveWrite
    <3>1. CASE SaveCompile
      BY <3>1, CompileOutcome DEF SaveCompile, JobStep, NoJob, TypeOK, JobOK
    <3>2. CASE SavePrune
      BY <3>2 DEF SavePrune, Advance, JobStep, TypeOK, JobOK
    <3>3. CASE SaveWrite
      BY <3>3 DEF SaveWrite, Advance, JobStep, TypeOK, JobOK
    <3> QED
      BY <2>3, <3>1, <3>2, <3>3
  <2>4. CASE SaveBackup
    BY <2>4 DEF SaveBackup, Advance, JobStep, NoJob, TypeOK, JobOK
  <2>5. CASE SaveRestore \/ SaveReply \/ SaveIOError
    BY <2>5 DEF SaveRestore, SaveReply, SaveIOError, JobStep, NoJob, TypeOK, JobOK
  <2> QED
    BY <1>5, <2>1, <2>2, <2>3, <2>4, <2>5 DEF Save, BeginMutate, BeginRestore, BeginImport
<1>6. CASE UNCHANGED vars
  BY <1>6 DEF vars
<1> QED
  BY <1>2, <1>3, <1>4, <1>5, <1>6 DEF Next

(* The flag is about what is, or is about to be, stored: it changes with it. *)
LEMMA PendingStep ==
    ASSUME TypeOK, Locking, PendingFollows, [Next]_vars
    PROVE  PendingFollows'
<1> USE DEF PendingFollows, Locking, disk, applied
<1>1. CASE Gone
  BY <1>1 DEF Gone
<1>2. CASE Process
  <2>1. CASE BootCreate \/ BootSeed \/ RequestRestart
    BY <2>1 DEF BootCreate, BootSeed, RequestRestart, AdminServes
  <2>2. CASE BootLoad
    BY <1>1, <2>2 DEF BootLoad, Stopped
  <2>3. CASE BootRun
    BY <1>1, <2>3 DEF BootRun, RestartRequired, Stopped
  <2>4. CASE BootSeedCut \/ Crash \/ TriggerRestart
    BY <1>1, <2>4 DEF BootSeedCut, Crash, TriggerRestart, Stopped
  <2> QED
    BY <1>2, <2>1, <2>2, <2>3, <2>4 DEF Process
<1>3. CASE Outside
  BY <1>3 DEF Outside, ExternalEdit, ExternalBody, TypeOK, JobOK
<1>4. CASE Reload
  <2>1. CASE LoopApply
    BY <2>1 DEF LoopApply, ApplyLock, ApplyRefused, LoopContinues, PendingFor,
      TypeOK, ReloadOK
  <2>2. CASE LoopSwap
    BY <2>2 DEF LoopSwap, ApplySwap
  <2>3. CASE LoopReceive \/ LoopLoad
    BY <2>3 DEF LoopReceive, LoopLoad, LoopContinues, TypeOK, ReloadOK
  <2>4. CASE WatchSeed \/ WatchPoll \/ WatchSend \/ HupSignal \/ HupTake \/ HupSend
    BY <2>4 DEF WatchSeed, WatchPoll, WatchSend, HupSignal, HupTake, HupSend
  <2> QED
    BY <1>4, <2>1, <2>2, <2>3, <2>4 DEF Reload
<1>5. CASE Save
  <2>1. ASSUME NEW kind, NEW new, NEW seen, Begin(kind, new, seen)
        PROVE  PendingFollows'
    BY <2>1 DEF Begin, AdminServes
  <2>2. CASE SaveApply
    BY <2>2 DEF SaveApply, ApplyLock, ApplyRefused, Advance, JobStep, NoJob,
      PendingFor, TypeOK, JobOK
  <2>3. CASE SaveSwap
    BY <2>3 DEF SaveSwap, ApplySwap, Advance, JobStep, TypeOK, JobOK
  <2>4. CASE SaveCompile \/ SaveBackup \/ SavePrune \/ SaveWrite
    BY <2>4 DEF SaveCompile, SaveBackup, SavePrune, SaveWrite, Advance, JobStep,
      NoJob, TypeOK, JobOK
  <2>5. CASE SaveRestore \/ SaveReply \/ SaveIOError
    BY <2>5 DEF SaveRestore, SaveReply, SaveIOError, JobStep, NoJob, TypeOK, JobOK
  <2> QED
    BY <1>5, <2>1, <2>2, <2>3, <2>4, <2>5 DEF Save, BeginMutate, BeginRestore, BeginImport
<1>6. CASE UNCHANGED vars
  BY <1>6 DEF vars
<1> QED
  BY <1>2, <1>3, <1>4, <1>5, <1>6 DEF Next

(* Nothing that does not boot reaches the file before the outside touches it. *)
LEMMA BootableStep ==
    ASSUME TypeOK, Locking, OnlyBootable, [Next]_vars
    PROVE  OnlyBootable'
<1> SUFFICES ASSUME ~tampered'
             PROVE  /\ body'
                    /\ file' = None \/ Bootable(file)' \/ NeverSeeded'
                    /\ job'.pc \notin {"idle", "locked"} => Bootable(job.new)'
                    /\ job'.prev = None \/ Bootable(job.prev)'
                    /\ job'.pc = "restoring" => job'.prev # None
                    /\ file' = None \/ proc' = "seeding" => backups' = <<>>
  BY DEF OnlyBootable
<1> USE DEF disk, applied, NeverSeeded, Locking
<1>1. CASE Stopped
  BY <1>1 DEF Stopped, Gone, NoJob, OnlyBootable, Bootable, Loads, Compiles
<1>2. CASE Process
  <2>1. CASE BootCreate \/ BootSeed
    BY <2>1, ContentsAssumption DEF BootCreate, BootSeed, WriteFile, OnlyBootable,
      Bootable, Loads, Compiles
  <2>6. CASE BootSeedCut
    BY <2>6, ContentsAssumption, PartialAssumption DEF BootSeedCut, Gone, NoJob, WriteFile,
      OnlyBootable, Bootable, Loads, Compiles
  <2>2. CASE RequestRestart
    BY <2>2 DEF RequestRestart, OnlyBootable, Bootable, Loads, Compiles
  <2>3. CASE BootLoad
    <3>1. CASE Loads(file)
      <4>1. Bootable(file)
        BY <2>3, <3>1, PartialAssumption DEF BootLoad, OnlyBootable, Bootable, Loads, Compiles
      <4> QED
        BY <2>3, <3>1, <4>1 DEF BootLoad, OnlyBootable, Bootable, Loads, Compiles
    <3>2. CASE ~Loads(file)
      BY <1>1, <2>3, <3>2 DEF BootLoad
    <3> QED
      BY <3>1, <3>2
  <2>4. CASE BootRun
    BY <1>1, <2>4 DEF BootRun, OnlyBootable, Bootable, Loads, Compiles
  <2>5. CASE Crash \/ TriggerRestart
    BY <1>1, <2>5 DEF Crash, TriggerRestart, OnlyBootable, Bootable, Loads, Compiles
  <2> QED
    BY <1>2, <2>1, <2>6, <2>2, <2>3, <2>4, <2>5 DEF Process
<1>3. CASE Outside
  BY <1>3 DEF Outside, ExternalEdit, ExternalBody
<1>4. CASE Reload
  BY <1>4 DEF Reload, WatchSeed, WatchPoll, WatchSend, HupSignal, HupTake, HupSend,
    LoopReceive, LoopLoad, LoopApply, LoopSwap, OnlyBootable, Bootable, Loads, Compiles
<1>5. CASE Save
  <2>1. ASSUME NEW kind, NEW new, NEW seen, Begin(kind, new, seen)
        PROVE  /\ job'.pc = "locked" /\ job'.prev = None
               /\ UNCHANGED <<disk, proc, tampered>>
    BY <2>1 DEF Begin
  <2>2. CASE SaveCompile
    BY <2>2 DEF SaveCompile, JobStep, NoJob, ApplyConfigChecks, TypeOK, JobOK,
      OnlyBootable, Bootable, Loads, Compiles
  <2>3. CASE SaveBackup
    BY <2>3 DEF SaveBackup, Advance, JobStep, NoJob, TypeOK, JobOK,
      OnlyBootable, Bootable, Loads, Compiles
  <2>4. CASE SavePrune \/ SaveWrite \/ SaveSwap
    <3>1. backups = <<>> => Pruned(backups) = <<>>
      BY BoundsAssumption DEF Pruned
    <3>2. CASE SavePrune
      BY <3>1, <3>2 DEF SavePrune, Advance, JobStep, TypeOK, JobOK, OnlyBootable,
        Bootable, Loads, Compiles
    <3>3. CASE SaveWrite \/ SaveSwap
      BY <3>3 DEF SaveWrite, SaveSwap, WriteFile, Advance, JobStep, TypeOK, JobOK,
        OnlyBootable, Bootable, Loads, Compiles
    <3> QED
      BY <2>4, <3>2, <3>3
  <2>5. CASE SaveApply
    BY <2>5 DEF SaveApply, Advance, JobStep, NoJob, TypeOK, JobOK,
      OnlyBootable, Bootable, Loads, Compiles
  <2>6. CASE SaveRestore \/ SaveReply
    BY <2>6 DEF SaveRestore, SaveReply, WriteFile, RestoredBytes, JobStep, NoJob,
      OnlyBootable, Bootable, Loads, Compiles
  <2>7. CASE SaveIOError
    BY <2>7 DEF SaveIOError, WriteFile, RestoredBytes, JobStep, NoJob,
      OnlyBootable, Bootable, Loads, Compiles
  <2> QED
    BY <1>5, <2>1, <2>2, <2>3, <2>4, <2>5, <2>6, <2>7 DEF Save, BeginMutate, BeginRestore, BeginImport, OnlyBootable, Bootable, Loads, Compiles
<1>6. CASE UNCHANGED vars
  BY <1>6 DEF vars, OnlyBootable, Bootable, Loads, Compiles
<1> QED
  BY <1>2, <1>3, <1>4, <1>5, <1>6 DEF Next

(* No step of anyone else changes the file under a save that has not raced.  *)
LEMMA SeenStep ==
    ASSUME TypeOK, Locking, SeenIsCurrent, [Next]_vars
    PROVE  SeenIsCurrent'
<1> USE DEF SeenIsCurrent, Replacing, FileMtime, disk, applied
<1>1. CASE Gone
  BY <1>1 DEF Gone, NoJob
<1>2. CASE Process
  <2>1. CASE BootCreate \/ BootSeed
    BY <2>1 DEF BootCreate, BootSeed, Locking
  <2>2. CASE RequestRestart
    BY <2>2 DEF RequestRestart
  <2>3. CASE BootSeedCut \/ BootLoad \/ BootRun \/ Crash \/ TriggerRestart
    BY <1>1, <2>3 DEF BootSeedCut, BootLoad, BootRun, Crash, TriggerRestart, Stopped
  <2> QED
    BY <1>2, <2>1, <2>2, <2>3 DEF Process
<1>3. CASE Outside
  BY <1>3 DEF Outside, ExternalEdit, ExternalBody, TypeOK, JobOK
<1>4. CASE Reload
  BY <1>4 DEF Reload, WatchSeed, WatchPoll, WatchSend, HupSignal, HupTake, HupSend,
    LoopReceive, LoopLoad, LoopApply, LoopSwap
<1>5. CASE Save
  <2>1. ASSUME NEW kind, NEW new, NEW seen, Begin(kind, new, seen),
               kind = "import" \/ MtimeMatches(seen)
        PROVE  SeenIsCurrent'
    BY <2>1 DEF Begin, MtimeMatches
  <2>2. CASE SaveCompile \/ SaveBackup \/ SavePrune
    <3>1. CASE SaveCompile
      <4>1. CASE job' = NoJob
        BY <4>1 DEF NoJob
      <4>2. CASE job' = [job EXCEPT !.pc = "compiled", !.prev = file]
        <5>1. /\ job'.kind = job.kind /\ job'.raced = job.raced
              /\ job'.seen = job.seen
          BY <4>2 DEF TypeOK, JobOK
        <5>2. job.pc = "locked" /\ UNCHANGED <<file, mtime>>
          BY <3>1 DEF SaveCompile
        <5> QED
          BY <5>1, <5>2
      <4> QED
        BY <3>1, <4>1, <4>2, CompileOutcome
    <3>2. CASE SaveBackup
      <4>1. CASE file = None
        BY <3>2, <4>1 DEF SaveBackup, JobStep, NoJob
      <4>2. CASE file # None
        BY <3>2, <4>2 DEF SaveBackup, Advance, JobStep, TypeOK, JobOK
      <4> QED
        BY <4>1, <4>2
    <3>3. CASE SavePrune
      BY <3>3 DEF SavePrune, Advance, JobStep, TypeOK, JobOK
    <3> QED
      BY <2>2, <3>1, <3>2, <3>3
  <2>3. CASE SaveWrite \/ SaveApply \/ SaveSwap
    BY <2>3 DEF SaveWrite, SaveApply, SaveSwap, Advance, JobStep, NoJob,
      TypeOK, JobOK
  <2>4. CASE SaveRestore \/ SaveReply \/ SaveIOError
    BY <2>4 DEF SaveRestore, SaveReply, SaveIOError, JobStep, NoJob
  <2> QED
    BY <1>5, <2>1, <2>2, <2>3, <2>4 DEF Save, BeginMutate, BeginRestore, BeginImport
<1>6. CASE UNCHANGED vars
  BY <1>6 DEF vars
<1> QED
  BY <1>2, <1>3, <1>4, <1>5, <1>6 DEF Next

(* The copy of the file is the newest backup.                                *)
LEMMA BackupStep ==
    ASSUME TypeOK, SaveBackup, file # None
    PROVE  backups' # <<>> /\ Newest' = file
<1> DEFINE Backup == [num : Nat, content : Contents]
           copy == [num |-> NextNumber, content |-> file]
<1>1. backups \in Seq(Backup) /\ backups' = Append(backups, copy)
  BY DEF TypeOK, DiskOK, SaveBackup
<1>2. /\ Len(backups') = Len(backups) + 1 /\ Len(backups) \in Nat
      /\ backups'[Len(backups) + 1] = copy
  BY <1>1, AppendProperties
<1>3. Len(backups') # 0 /\ backups'[Len(backups')] = copy
  BY <1>2
<1> QED
  BY <1>3 DEF Newest

(* Pruning keeps that copy, and nothing else removes a backup.               *)
LEMMA BackedUpStep ==
    ASSUME TypeOK, Locking, BackedUp, [Next]_vars
    PROVE  BackedUp'
<1> USE DEF BackedUp, disk, applied
<1>1. CASE Gone
  BY <1>1 DEF Gone, NoJob
<1>2. CASE Process
  <2>1. CASE BootCreate \/ BootSeed
    BY <2>1 DEF BootCreate, BootSeed, Locking
  <2>2. CASE RequestRestart
    BY <2>2 DEF RequestRestart, Newest
  <2>3. CASE BootLoad
    BY <1>1, <2>3 DEF BootLoad, Newest, Stopped
  <2>4. CASE BootRun
    BY <1>1, <2>4 DEF BootRun, Newest, Stopped
  <2>5. CASE BootSeedCut \/ Crash \/ TriggerRestart
    BY <1>1, <2>5 DEF BootSeedCut, Crash, TriggerRestart, Newest, Stopped
  <2> QED
    BY <1>2, <2>1, <2>2, <2>3, <2>4, <2>5 DEF Process
<1>3. CASE Outside
  BY <1>3 DEF Outside, ExternalEdit, ExternalBody, Newest, TypeOK, JobOK
<1>4. CASE Reload
  BY <1>4 DEF Reload, WatchSeed, WatchPoll, WatchSend, HupSignal, HupTake, HupSend,
    LoopReceive, LoopLoad, LoopApply, LoopSwap, Newest
<1>5. CASE Save
  <2>1. ASSUME NEW kind, NEW new, NEW seen, Begin(kind, new, seen)
        PROVE  BackedUp'
    BY <2>1 DEF Begin
  <2>2. CASE SaveCompile
    BY <2>2 DEF SaveCompile, JobStep, NoJob, TypeOK, JobOK
  <2>3. CASE SaveBackup
    <3>1. CASE file = None
      BY <2>3, <3>1 DEF SaveBackup, JobStep, NoJob
    <3>2. CASE file # None
      BY <2>3, <3>2, BackupStep DEF SaveBackup, Advance, JobStep, TypeOK, JobOK
    <3> QED
      BY <3>1, <3>2
  <2>4. CASE SavePrune
    <3>1. backups # <<>> => backups' # <<>> /\ Newest' = Newest
      BY <2>4, PrunedKeepsNewest DEF SavePrune, Newest, TypeOK, DiskOK
    <3> QED
      BY <2>4, <3>1 DEF SavePrune, Advance, JobStep, TypeOK, JobOK
  <2>5. CASE SaveWrite \/ SaveSwap
    BY <2>5 DEF SaveWrite, SaveSwap, Advance, JobStep, Newest, TypeOK, JobOK
  <2>6. CASE SaveApply
    BY <2>6 DEF SaveApply, Advance, JobStep, NoJob, Newest, TypeOK, JobOK
  <2>7. CASE SaveRestore \/ SaveReply \/ SaveIOError
    BY <2>7 DEF SaveRestore, SaveReply, SaveIOError, JobStep, NoJob
  <2> QED
    BY <1>5, <2>1, <2>2, <2>3, <2>4, <2>5, <2>6, <2>7
       DEF Save, BeginMutate, BeginRestore, BeginImport
<1>6. CASE UNCHANGED vars
  BY <1>6 DEF vars, Newest
<1> QED
  BY <1>2, <1>3, <1>4, <1>5, <1>6 DEF Next

(* After its pruning a save adds no backup.                                  *)
LEMMA BoundedStep ==
    ASSUME TypeOK, Locking, BackupsBounded, [Next]_vars
    PROVE  BackupsBounded'
<1> USE DEF BackupsBounded, disk, applied
<1>1. CASE Gone
  BY <1>1 DEF Gone, NoJob
<1>2. CASE Process
  <2>1. CASE BootCreate \/ BootSeed \/ RequestRestart
    BY <2>1 DEF BootCreate, BootSeed, RequestRestart
  <2>2. CASE BootSeedCut \/ BootLoad \/ BootRun \/ Crash \/ TriggerRestart
    BY <1>1, <2>2 DEF BootSeedCut, BootLoad, BootRun, Crash, TriggerRestart, Stopped
  <2> QED
    BY <1>2, <2>1, <2>2 DEF Process
<1>3. CASE Outside
  BY <1>3 DEF Outside, ExternalEdit, ExternalBody, TypeOK, JobOK
<1>4. CASE Reload
  BY <1>4 DEF Reload, WatchSeed, WatchPoll, WatchSend, HupSignal, HupTake, HupSend,
    LoopReceive, LoopLoad, LoopApply, LoopSwap
<1>5. CASE Save
  <2>1. ASSUME NEW kind, NEW new, NEW seen, Begin(kind, new, seen)
        PROVE  BackupsBounded'
    BY <2>1 DEF Begin
  <2>2. CASE SavePrune
    BY <2>2, PrunedKeepsNewest DEF SavePrune, TypeOK, DiskOK
  <2>3. CASE SaveCompile
    BY <2>3 DEF SaveCompile, JobStep, NoJob, TypeOK, JobOK
  <2>4. CASE SaveBackup
    BY <2>4 DEF SaveBackup, Advance, JobStep, NoJob, TypeOK, JobOK
  <2>5. CASE SaveWrite \/ SaveSwap
    BY <2>5 DEF SaveWrite, SaveSwap, Advance, JobStep, TypeOK, JobOK
  <2>6. CASE SaveApply
    BY <2>6 DEF SaveApply, Advance, JobStep, NoJob, TypeOK, JobOK
  <2>7. CASE SaveRestore \/ SaveReply \/ SaveIOError
    BY <2>7 DEF SaveRestore, SaveReply, SaveIOError, JobStep, NoJob
  <2> QED
    BY <1>5, <2>1, <2>2, <2>3, <2>4, <2>5, <2>6, <2>7
       DEF Save, BeginMutate, BeginRestore, BeginImport
<1>6. CASE UNCHANGED vars
  BY <1>6 DEF vars
<1> QED
  BY <1>2, <1>3, <1>4, <1>5, <1>6 DEF Next

-----------------------------------------------------------------------------
(* The invariant holds initially... *)
LEMMA InitInvariant == Init => IInv
<1> SUFFICES ASSUME Init PROVE IInv
  OBVIOUS
<1>1. Locking /\ PendingFollows /\ SeenIsCurrent /\ BackedUp /\ BackupsBounded
  BY DEF Init, NoJob, Locking, PendingFollows, SeenIsCurrent, Replacing, BackedUp,
    BackupsBounded
<1>2. OnlyBootable
  BY DEF Init, NoJob, OnlyBootable
<1> QED
  BY <1>1, <1>2, InitType DEF IInv

(* ...and every step keeps it. *)
LEMMA StepInvariant == IInv /\ [Next]_vars => IInv'
<1> SUFFICES ASSUME IInv, [Next]_vars PROVE IInv'
  OBVIOUS
<1> USE DEF IInv
<1>1. TypeOK'
  BY TypeStep
<1>2. Locking' /\ PendingFollows' /\ OnlyBootable'
  BY LockingStep, PendingStep, BootableStep
<1>3. SeenIsCurrent' /\ BackedUp' /\ BackupsBounded'
  BY SeenStep, BackedUpStep, BoundedStep
<1> QED
  BY <1>1, <1>2, <1>3

(* The invariant the safety properties follow from holds in every state, for *)
(* every set of contents and every number of edits, saves, stops, signals,   *)
(* errors and backups kept.                                                  *)
THEOREM Invariant == Spec => []IInv
BY InitInvariant, StepInvariant, PTL DEF Spec

(* The restart-pending flag is exact, also between the two stores of an      *)
(* application, whatever reloads, saves, signals and stops came before and   *)
(* in what order.                                                            *)
THEOREM PendingIsExact == Spec => []PendingExact
<1>1. IInv => PendingExact
  BY DEF IInv, TypeOK, ProcOK, PendingFollows, PendingExact, Applying, RestartRequired
<1> QED
  BY <1>1, Invariant, PTL

(* The program alone never leaves a file whose content cannot boot: no save, *)
(* error, crash or restart does, except a first write that is cut off.       *)
THEOREM GuiCannotBreakBoot == Spec => []GuiKeepsBootable
<1>1. IInv => GuiKeepsBootable
  BY DEF IInv, OnlyBootable, GuiKeepsBootable
<1> QED
  BY <1>1, Invariant, PTL

(* A save that has pruned leaves at most Keep backups, for every Keep.       *)
THEOREM BackupsStayBounded == Spec => []BackupsBounded
BY Invariant, PTL DEF IInv

(* The mtime precondition protects every save and restore up to its rename.  *)
THEOREM NoOverwrite == Spec => NoSilentOverwrite
<1>1. IInv /\ [Next]_vars =>
        [SaveReplaces /\ job.kind # "import" /\ ~job.raced => mtime = job.seen]_vars
  BY DEF IInv, SaveReplaces, SeenIsCurrent, Replacing, BackedUp, FileMtime
<1> QED
  BY <1>1, Invariant, PTL DEF Spec, NoSilentOverwrite

(* Every file a save replaces is the content of the newest backup.           *)
THEOREM ReplacedIsBackedUp == Spec => BackupHoldsReplaced
<1>1. IInv /\ [Next]_vars =>
        [SaveReplaces /\ ~job.raced =>
           backups # <<>> /\ file = backups[Len(backups)].content]_vars
  BY DEF IInv, SaveReplaces, BackedUp, Newest
<1> QED
  BY <1>1, Invariant, PTL DEF Spec, BackupHoldsReplaced

(* A rollback writes back the very content the save replaced.                *)
THEOREM RollbackIsExact == Spec => RollbackRestores
<1>1. IInv /\ [Next]_vars =>
        [Restores /\ ~job.raced => file' = backups[Len(backups)].content]_vars
  <2> SUFFICES ASSUME IInv, Next, Restores, ~job.raced
               PROVE  file' = backups[Len(backups)].content
    OBVIOUS
  <2>1. job.prev = backups[Len(backups)].content /\ proc = "up"
    BY DEF IInv, Restores, BackedUp, Newest, Locking
  <2>2. ~Stopped
    BY DEF Stopped, Gone, Restores, disk
  <2>3. ~Process
    BY <2>1, <2>2 DEF Process, BootCreate, BootSeed, BootSeedCut, BootLoad, BootRun, Crash,
      RequestRestart, TriggerRestart, Restores, disk
  <2>4. ~Outside
    BY DEF Outside, ExternalEdit, ExternalBody, Restores, IInv, TypeOK, JobOK
  <2>5. ~Reload
    BY DEF Reload, WatchSeed, WatchPoll, WatchSend, HupSignal, HupTake, HupSend,
      LoopReceive, LoopLoad, LoopApply, LoopSwap, Restores, disk
  <2>6. SaveRestore \/ SaveIOError
    BY <2>3, <2>4, <2>5 DEF Next, Save, BeginMutate, BeginRestore, BeginImport,
      Begin, SaveCompile, SaveBackup, SavePrune, SaveWrite, SaveApply, SaveSwap,
      SaveReply, Restores, disk
  <2> QED
    BY <2>1, <2>6 DEF SaveRestore, SaveIOError, WriteFile, RestoredBytes, Restores
<1> QED
  BY <1>1, Invariant, PTL DEF Spec, RollbackRestores

=============================================================================
