--------------------------- MODULE AdminAuthProofs ---------------------------
(***************************************************************************)
(* What holds of AdminAuth for every value of its constants: IInv is       *)
(* inductive, one lemma per part, one step per action; the theorems at the *)
(* end follow from it.                                                     *)
(***************************************************************************)
EXTENDS AdminAuth, TLAPS

\* Every step keeps the types.
LEMMA TypeStep ==
    ASSUME IInv, [Next]_vars
    PROVE  TypeOK'
<1>1. ASSUME NEW p \in Provided, Start(p) PROVE TypeOK'
    BY <1>1, NoneAssumption, ProvidedAssumption DEF Start, IInv,
       StillTrue, KeysDrawn, LockHeld, Holding, TypeOK, Cookies, disk,
       process, memory, handlers, cookies
<1>2. ASSUME BootConfigure PROVE TypeOK'
    BY <1>2, NoneAssumption, ProvidedAssumption DEF BootConfigure, IInv,
       StillTrue, KeysDrawn, LockHeld, Holding, TypeOK, Cookies, disk,
       process, memory, handlers, cookies
<1>3. ASSUME BootRotate PROVE TypeOK'
    BY <1>3, NoneAssumption, ProvidedAssumption DEF BootRotate, Rotate,
       IInv, StillTrue, KeysDrawn, LockHeld, Holding, TypeOK, Cookies,
       disk, process, memory, handlers, cookies
<1>4. ASSUME BootSave PROVE TypeOK'
    BY <1>4, NoneAssumption, ProvidedAssumption DEF BootSave,
       SaveCredential, IInv, StillTrue, KeysDrawn, LockHeld, Holding,
       TypeOK, Cookies, disk, process, memory, handlers, cookies
<1>5. ASSUME BootKey PROVE TypeOK'
    BY <1>5, NoneAssumption, ProvidedAssumption DEF BootKey, Rotate, IInv,
       StillTrue, KeysDrawn, LockHeld, Holding, TypeOK, Cookies, disk,
       process, memory, handlers, cookies
<1>6. ASSUME BootFails PROVE TypeOK'
    <2>1. used' \in [starts : Nat, errors : Nat, deletes : Nat]
        BY <1>6 DEF BootFails, RotateFails, SaveFails, Failure, IInv, TypeOK
    <2>2. cred' \in Passwords \cup {None} /\ keyFile' \in Nat /\ drawn' \in Nat
        <3>1. CASE UNCHANGED disk
            BY <3>1 DEF disk, IInv, TypeOK
        <3>2. CASE Rotate
            BY <3>2 DEF Rotate, IInv, TypeOK
        <3>3. CASE SaveCredential(given)
            BY <3>3 DEF SaveCredential, IInv, TypeOK
        <3>4. QED
            BY <1>6, <3>1, <3>2, <3>3 DEF BootFails, RotateFails, SaveFails
    <2>3. QED
        BY <1>6, <2>1, <2>2 DEF BootFails, Ended, Idle, IInv, TypeOK, cookies
<1>7. ASSUME Crash PROVE TypeOK'
    BY <1>7, NoneAssumption, ProvidedAssumption DEF Crash, Ended, Idle,
       IInv, StillTrue, KeysDrawn, LockHeld, Holding, TypeOK, Cookies,
       disk, process, memory, handlers, cookies
<1>8. ASSUME RemoveCredential PROVE TypeOK'
    BY <1>8, NoneAssumption, ProvidedAssumption DEF RemoveCredential,
       IInv, StillTrue, KeysDrawn, LockHeld, Holding, TypeOK, Cookies,
       disk, process, memory, handlers, cookies
<1>9. ASSUME Look PROVE TypeOK'
    BY <1>9, NoneAssumption, ProvidedAssumption DEF Look, Remember, IInv,
       StillTrue, KeysDrawn, LockHeld, Holding, TypeOK, Cookies, disk,
       process, memory, handlers, cookies
<1>10. ASSUME NEW h \in Handlers, NEW p \in Passwords, LoginLoad(h, p) PROVE TypeOK'
    BY <1>10, NoneAssumption, ProvidedAssumption DEF LoginLoad, Remember,
       Idle, IInv, StillTrue, KeysDrawn, LockHeld, Holding, TypeOK,
       Cookies, disk, process, memory, handlers, cookies
<1>11. ASSUME NEW h \in Handlers, LoginIssue(h) PROVE TypeOK'
    BY <1>11, NoneAssumption, ProvidedAssumption DEF LoginIssue,
       IssueCookie, Answers, Idle, IInv, StillTrue, KeysDrawn, LockHeld,
       Holding, TypeOK, Cookies, disk, process, memory, handlers, cookies
<1>12. ASSUME NEW h \in Handlers, LoginRefuse(h) PROVE TypeOK'
    BY <1>12, NoneAssumption, ProvidedAssumption DEF LoginRefuse, Answers,
       Idle, IInv, StillTrue, KeysDrawn, LockHeld, Holding, TypeOK,
       Cookies, disk, process, memory, handlers, cookies
<1>13. ASSUME NEW h \in Handlers, NEW p \in Passwords, SetupArrive(h, p) PROVE TypeOK'
    BY <1>13, NoneAssumption, ProvidedAssumption DEF SetupArrive, Idle,
       IInv, StillTrue, KeysDrawn, LockHeld, Holding, TypeOK, Cookies,
       disk, process, memory, handlers, cookies
<1>14. ASSUME NEW h \in Handlers, SetupLoad(h) PROVE TypeOK'
    BY <1>14, NoneAssumption, ProvidedAssumption DEF SetupLoad, Goes,
       IInv, StillTrue, KeysDrawn, LockHeld, Holding, TypeOK, Cookies,
       disk, process, memory, handlers, cookies
<1>15. ASSUME NEW h \in Handlers, SetupConflict(h) PROVE TypeOK'
    BY <1>15, NoneAssumption, ProvidedAssumption DEF SetupConflict,
       Remember, Answers, Idle, IInv, StillTrue, KeysDrawn, LockHeld,
       Holding, TypeOK, Cookies, disk, process, memory, handlers, cookies
<1>16. ASSUME NEW h \in Handlers, SetupSave(h) PROVE TypeOK'
    BY <1>16, NoneAssumption, ProvidedAssumption DEF SetupSave,
       SaveCredential, Goes, IInv, StillTrue, KeysDrawn, LockHeld,
       Holding, TypeOK, Cookies, disk, process, memory, handlers, cookies
<1>17. ASSUME NEW h \in Handlers, SetupFails(h) PROVE TypeOK'
    BY <1>17, NoneAssumption, ProvidedAssumption DEF SetupFails,
       SaveFails, Failure, SaveCredential, Unlocks, Answers, Idle, IInv,
       StillTrue, KeysDrawn, LockHeld, Holding, TypeOK, Cookies, disk,
       process, memory, handlers, cookies
<1>18. ASSUME NEW h \in Handlers, NEW c \in issued,
               NEW old \in Passwords, NEW new \in Passwords, ChangeArrive(h, c, old, new) PROVE TypeOK'
    BY <1>18, NoneAssumption, ProvidedAssumption DEF ChangeArrive,
       Remember, IInv, StillTrue, KeysDrawn, LockHeld, Holding, TypeOK,
       Cookies, disk, process, memory, handlers, cookies
<1>19. ASSUME NEW h \in Handlers, ChangeVerify(h) PROVE TypeOK'
    BY <1>19, NoneAssumption, ProvidedAssumption DEF ChangeVerify,
       Remember, IInv, StillTrue, KeysDrawn, LockHeld, Holding, TypeOK,
       Cookies, disk, process, memory, handlers, cookies
<1>20. ASSUME NEW h \in Handlers, ChangeRefuse(h) PROVE TypeOK'
    BY <1>20, NoneAssumption, ProvidedAssumption DEF ChangeRefuse,
       Remember, Answers, Idle, IInv, StillTrue, KeysDrawn, LockHeld,
       Holding, TypeOK, Cookies, disk, process, memory, handlers, cookies
<1>21. ASSUME NEW h \in Handlers, ChangeRotate(h) PROVE TypeOK'
    BY <1>21, NoneAssumption, ProvidedAssumption DEF ChangeRotate, Rotate,
       Goes, IInv, StillTrue, KeysDrawn, LockHeld, Holding, TypeOK,
       Cookies, disk, process, memory, handlers, cookies
<1>22. ASSUME NEW h \in Handlers, ChangeSave(h) PROVE TypeOK'
    BY <1>22, NoneAssumption, ProvidedAssumption DEF ChangeSave,
       SaveCredential, Goes, IInv, StillTrue, KeysDrawn, LockHeld,
       Holding, TypeOK, Cookies, disk, process, memory, handlers, cookies
<1>23. ASSUME NEW h \in Handlers, ChangeReload(h) PROVE TypeOK'
    BY <1>23, NoneAssumption, ProvidedAssumption DEF ChangeReload, Goes,
       IInv, StillTrue, KeysDrawn, LockHeld, Holding, TypeOK, Cookies,
       disk, process, memory, handlers, cookies
<1>24. ASSUME NEW h \in Handlers, ChangeFails(h) PROVE TypeOK'
    BY <1>24, NoneAssumption, ProvidedAssumption DEF ChangeFails,
       RotateFails, SaveFails, Failure, Rotate, SaveCredential, Unlocks,
       Answers, Idle, IInv, StillTrue, KeysDrawn, LockHeld, Holding,
       TypeOK, Cookies, disk, process, memory, handlers, cookies
<1>25. ASSUME NEW h \in Handlers, Issue(h) PROVE TypeOK'
    BY <1>25, NoneAssumption, ProvidedAssumption DEF Issue, IssueCookie,
       Unlocks, Answers, Idle, IInv, StillTrue, KeysDrawn, LockHeld,
       Holding, TypeOK, Cookies, disk, process, memory, handlers, cookies
<1>26. CASE UNCHANGED vars
    BY <1>26, NoneAssumption, ProvidedAssumption DEF IInv, StillTrue,
       KeysDrawn, LockHeld, Holding, TypeOK, Cookies, vars, disk, process,
       memory, handlers, cookies
<1>27. QED
    BY <1>1, <1>2, <1>3, <1>4, <1>5, <1>6, <1>7, <1>8, <1>9, <1>10, <1>11,
       <1>12, <1>13, <1>14, <1>15, <1>16, <1>17, <1>18, <1>19, <1>20,
       <1>21, <1>22, <1>23, <1>24, <1>25, <1>26 DEF Next, Boot, Arrive,
       Handle

\* Only who found setupMu free comes past it, and who leaves frees it.
LEMMA LockStep ==
    ASSUME IInv, [Next]_vars
    PROVE  LockHeld'
<1>1. ASSUME NEW p \in Provided, Start(p) PROVE LockHeld'
    BY <1>1, NoneAssumption, ProvidedAssumption DEF Start, IInv, TypeOK,
       LockHeld, Holding, disk, process, memory, handlers, cookies
<1>2. ASSUME BootConfigure PROVE LockHeld'
    BY <1>2, NoneAssumption, ProvidedAssumption DEF BootConfigure, IInv,
       TypeOK, LockHeld, Holding, disk, process, memory, handlers, cookies
<1>3. ASSUME BootRotate PROVE LockHeld'
    BY <1>3, NoneAssumption, ProvidedAssumption DEF BootRotate, Rotate,
       IInv, TypeOK, LockHeld, Holding, disk, process, memory, handlers,
       cookies
<1>4. ASSUME BootSave PROVE LockHeld'
    BY <1>4, NoneAssumption, ProvidedAssumption DEF BootSave,
       SaveCredential, IInv, TypeOK, LockHeld, Holding, disk, process,
       memory, handlers, cookies
<1>5. ASSUME BootKey PROVE LockHeld'
    BY <1>5, NoneAssumption, ProvidedAssumption DEF BootKey, Rotate, IInv,
       TypeOK, LockHeld, Holding, disk, process, memory, handlers, cookies
<1>6. ASSUME BootFails PROVE LockHeld'
    BY <1>6, NoneAssumption, ProvidedAssumption DEF BootFails,
       RotateFails, SaveFails, Failure, Rotate, SaveCredential, Ended,
       Idle, IInv, TypeOK, LockHeld, Holding, disk, process, memory,
       handlers, cookies
<1>7. ASSUME Crash PROVE LockHeld'
    BY <1>7, NoneAssumption, ProvidedAssumption DEF Crash, Ended, Idle,
       IInv, TypeOK, LockHeld, Holding, disk, process, memory, handlers,
       cookies
<1>8. ASSUME RemoveCredential PROVE LockHeld'
    BY <1>8, NoneAssumption, ProvidedAssumption DEF RemoveCredential,
       IInv, TypeOK, LockHeld, Holding, disk, process, memory, handlers,
       cookies
<1>9. ASSUME Look PROVE LockHeld'
    BY <1>9, NoneAssumption, ProvidedAssumption DEF Look, Remember, IInv,
       TypeOK, LockHeld, Holding, disk, process, memory, handlers, cookies
<1>10. ASSUME NEW h \in Handlers, NEW p \in Passwords, LoginLoad(h, p) PROVE LockHeld'
    BY <1>10, NoneAssumption, ProvidedAssumption DEF LoginLoad, Remember,
       Idle, IInv, TypeOK, LockHeld, Holding, disk, process, memory,
       handlers, cookies
<1>11. ASSUME NEW h \in Handlers, LoginIssue(h) PROVE LockHeld'
    BY <1>11, NoneAssumption, ProvidedAssumption DEF LoginIssue,
       IssueCookie, Answers, Idle, IInv, TypeOK, LockHeld, Holding, disk,
       process, memory, handlers, cookies
<1>12. ASSUME NEW h \in Handlers, LoginRefuse(h) PROVE LockHeld'
    BY <1>12, NoneAssumption, ProvidedAssumption DEF LoginRefuse, Answers,
       Idle, IInv, TypeOK, LockHeld, Holding, disk, process, memory,
       handlers, cookies
<1>13. ASSUME NEW h \in Handlers, NEW p \in Passwords, SetupArrive(h, p) PROVE LockHeld'
    BY <1>13, NoneAssumption, ProvidedAssumption DEF SetupArrive, Idle,
       IInv, TypeOK, LockHeld, Holding, disk, process, memory, handlers,
       cookies
<1>14. ASSUME NEW h \in Handlers, SetupLoad(h) PROVE LockHeld'
    BY <1>14, NoneAssumption, ProvidedAssumption DEF SetupLoad, Goes,
       IInv, TypeOK, LockHeld, Holding, disk, process, memory, handlers,
       cookies
<1>15. ASSUME NEW h \in Handlers, SetupConflict(h) PROVE LockHeld'
    BY <1>15, NoneAssumption, ProvidedAssumption DEF SetupConflict,
       Remember, Answers, Idle, IInv, TypeOK, LockHeld, Holding, disk,
       process, memory, handlers, cookies
<1>16. ASSUME NEW h \in Handlers, SetupSave(h) PROVE LockHeld'
    BY <1>16, NoneAssumption, ProvidedAssumption DEF SetupSave,
       SaveCredential, Goes, IInv, TypeOK, LockHeld, Holding, disk,
       process, memory, handlers, cookies
<1>17. ASSUME NEW h \in Handlers, SetupFails(h) PROVE LockHeld'
    BY <1>17, NoneAssumption, ProvidedAssumption DEF SetupFails,
       SaveFails, Failure, SaveCredential, Unlocks, Answers, Idle, IInv,
       TypeOK, LockHeld, Holding, disk, process, memory, handlers, cookies
<1>18. ASSUME NEW h \in Handlers, NEW c \in issued,
               NEW old \in Passwords, NEW new \in Passwords, ChangeArrive(h, c, old, new) PROVE LockHeld'
    <2>1. \A g \in Handlers : req'[g].pc \in Holding <=> req[g].pc \in Holding
        BY <1>18 DEF ChangeArrive, IInv, TypeOK, Holding
    <2>2. UNCHANGED <<setupMu, proc>> /\ proc = "up"
        BY <1>18 DEF ChangeArrive, Admits, process
    <2>3. QED
        BY <2>1, <2>2 DEF IInv, LockHeld
<1>19. ASSUME NEW h \in Handlers, ChangeVerify(h) PROVE LockHeld'
    BY <1>19, NoneAssumption, ProvidedAssumption DEF ChangeVerify,
       Remember, IInv, TypeOK, LockHeld, Holding, disk, process, memory,
       handlers, cookies
<1>20. ASSUME NEW h \in Handlers, ChangeRefuse(h) PROVE LockHeld'
    BY <1>20, NoneAssumption, ProvidedAssumption DEF ChangeRefuse,
       Remember, Answers, Idle, IInv, TypeOK, LockHeld, Holding, disk,
       process, memory, handlers, cookies
<1>21. ASSUME NEW h \in Handlers, ChangeRotate(h) PROVE LockHeld'
    BY <1>21, NoneAssumption, ProvidedAssumption DEF ChangeRotate, Rotate,
       Goes, IInv, TypeOK, LockHeld, Holding, disk, process, memory,
       handlers, cookies
<1>22. ASSUME NEW h \in Handlers, ChangeSave(h) PROVE LockHeld'
    BY <1>22, NoneAssumption, ProvidedAssumption DEF ChangeSave,
       SaveCredential, Goes, IInv, TypeOK, LockHeld, Holding, disk,
       process, memory, handlers, cookies
<1>23. ASSUME NEW h \in Handlers, ChangeReload(h) PROVE LockHeld'
    BY <1>23, NoneAssumption, ProvidedAssumption DEF ChangeReload, Goes,
       IInv, TypeOK, LockHeld, Holding, disk, process, memory, handlers,
       cookies
<1>24. ASSUME NEW h \in Handlers, ChangeFails(h) PROVE LockHeld'
    BY <1>24, NoneAssumption, ProvidedAssumption DEF ChangeFails,
       RotateFails, SaveFails, Failure, Rotate, SaveCredential, Unlocks,
       Answers, Idle, IInv, TypeOK, LockHeld, Holding, disk, process,
       memory, handlers, cookies
<1>25. ASSUME NEW h \in Handlers, Issue(h) PROVE LockHeld'
    BY <1>25, NoneAssumption, ProvidedAssumption DEF Issue, IssueCookie,
       Unlocks, Answers, Idle, IInv, TypeOK, LockHeld, Holding, disk,
       process, memory, handlers, cookies
<1>26. CASE UNCHANGED vars
    BY <1>26, NoneAssumption, ProvidedAssumption DEF IInv, TypeOK,
       LockHeld, Holding, vars, disk, process, memory, handlers, cookies
<1>27. QED
    BY <1>1, <1>2, <1>3, <1>4, <1>5, <1>6, <1>7, <1>8, <1>9, <1>10, <1>11,
       <1>12, <1>13, <1>14, <1>15, <1>16, <1>17, <1>18, <1>19, <1>20,
       <1>21, <1>22, <1>23, <1>24, <1>25, <1>26 DEF Next, Boot, Arrive,
       Handle

\* No key is used before it is drawn.
LEMMA KeysStep ==
    ASSUME IInv, [Next]_vars
    PROVE  KeysDrawn'
<1>1. ASSUME NEW p \in Provided, Start(p) PROVE KeysDrawn'
    BY <1>1, NoneAssumption, ProvidedAssumption DEF Start, IInv, TypeOK,
       Cookies, LockHeld, KeysDrawn, disk, process, memory, handlers,
       cookies
<1>2. ASSUME BootConfigure PROVE KeysDrawn'
    BY <1>2, NoneAssumption, ProvidedAssumption DEF BootConfigure, IInv,
       TypeOK, Cookies, LockHeld, KeysDrawn, disk, process, memory,
       handlers, cookies
<1>3. ASSUME BootRotate PROVE KeysDrawn'
    BY <1>3, NoneAssumption, ProvidedAssumption DEF BootRotate, Rotate,
       IInv, TypeOK, Cookies, LockHeld, KeysDrawn, disk, process, memory,
       handlers, cookies
<1>4. ASSUME BootSave PROVE KeysDrawn'
    BY <1>4, NoneAssumption, ProvidedAssumption DEF BootSave,
       SaveCredential, IInv, TypeOK, Cookies, LockHeld, KeysDrawn, disk,
       process, memory, handlers, cookies
<1>5. ASSUME BootKey PROVE KeysDrawn'
    BY <1>5, NoneAssumption, ProvidedAssumption DEF BootKey, Rotate, IInv,
       TypeOK, Cookies, LockHeld, KeysDrawn, disk, process, memory,
       handlers, cookies
<1>6. ASSUME BootFails PROVE KeysDrawn'
    BY <1>6, NoneAssumption, ProvidedAssumption DEF BootFails,
       RotateFails, SaveFails, Failure, Rotate, SaveCredential, Ended,
       Idle, IInv, TypeOK, Cookies, LockHeld, KeysDrawn, disk, process,
       memory, handlers, cookies
<1>7. ASSUME Crash PROVE KeysDrawn'
    BY <1>7, NoneAssumption, ProvidedAssumption DEF Crash, Ended, Idle,
       IInv, TypeOK, Cookies, LockHeld, KeysDrawn, disk, process, memory,
       handlers, cookies
<1>8. ASSUME RemoveCredential PROVE KeysDrawn'
    BY <1>8, NoneAssumption, ProvidedAssumption DEF RemoveCredential,
       IInv, TypeOK, Cookies, LockHeld, KeysDrawn, disk, process, memory,
       handlers, cookies
<1>9. ASSUME Look PROVE KeysDrawn'
    BY <1>9, NoneAssumption, ProvidedAssumption DEF Look, Remember, IInv,
       TypeOK, Cookies, LockHeld, KeysDrawn, disk, process, memory,
       handlers, cookies
<1>10. ASSUME NEW h \in Handlers, NEW p \in Passwords, LoginLoad(h, p) PROVE KeysDrawn'
    BY <1>10, NoneAssumption, ProvidedAssumption DEF LoginLoad, Remember,
       Idle, IInv, TypeOK, Cookies, LockHeld, KeysDrawn, disk, process,
       memory, handlers, cookies
<1>11. ASSUME NEW h \in Handlers, LoginIssue(h) PROVE KeysDrawn'
    BY <1>11, NoneAssumption, ProvidedAssumption DEF LoginIssue,
       IssueCookie, Answers, Idle, IInv, TypeOK, Cookies, LockHeld,
       KeysDrawn, disk, process, memory, handlers, cookies
<1>12. ASSUME NEW h \in Handlers, LoginRefuse(h) PROVE KeysDrawn'
    BY <1>12, NoneAssumption, ProvidedAssumption DEF LoginRefuse, Answers,
       Idle, IInv, TypeOK, Cookies, LockHeld, KeysDrawn, disk, process,
       memory, handlers, cookies
<1>13. ASSUME NEW h \in Handlers, NEW p \in Passwords, SetupArrive(h, p) PROVE KeysDrawn'
    BY <1>13, NoneAssumption, ProvidedAssumption DEF SetupArrive, Idle,
       IInv, TypeOK, Cookies, LockHeld, KeysDrawn, disk, process, memory,
       handlers, cookies
<1>14. ASSUME NEW h \in Handlers, SetupLoad(h) PROVE KeysDrawn'
    BY <1>14, NoneAssumption, ProvidedAssumption DEF SetupLoad, Goes,
       IInv, TypeOK, Cookies, LockHeld, KeysDrawn, disk, process, memory,
       handlers, cookies
<1>15. ASSUME NEW h \in Handlers, SetupConflict(h) PROVE KeysDrawn'
    BY <1>15, NoneAssumption, ProvidedAssumption DEF SetupConflict,
       Remember, Answers, Idle, IInv, TypeOK, Cookies, LockHeld,
       KeysDrawn, disk, process, memory, handlers, cookies
<1>16. ASSUME NEW h \in Handlers, SetupSave(h) PROVE KeysDrawn'
    BY <1>16, NoneAssumption, ProvidedAssumption DEF SetupSave,
       SaveCredential, Goes, IInv, TypeOK, Cookies, LockHeld, KeysDrawn,
       disk, process, memory, handlers, cookies
<1>17. ASSUME NEW h \in Handlers, SetupFails(h) PROVE KeysDrawn'
    BY <1>17, NoneAssumption, ProvidedAssumption DEF SetupFails,
       SaveFails, Failure, SaveCredential, Unlocks, Answers, Idle, IInv,
       TypeOK, Cookies, LockHeld, KeysDrawn, disk, process, memory,
       handlers, cookies
<1>18. ASSUME NEW h \in Handlers, NEW c \in issued,
               NEW old \in Passwords, NEW new \in Passwords, ChangeArrive(h, c, old, new) PROVE KeysDrawn'
    BY <1>18, NoneAssumption, ProvidedAssumption DEF ChangeArrive,
       Remember, IInv, TypeOK, Cookies, LockHeld, KeysDrawn, disk,
       process, memory, handlers, cookies
<1>19. ASSUME NEW h \in Handlers, ChangeVerify(h) PROVE KeysDrawn'
    BY <1>19, NoneAssumption, ProvidedAssumption DEF ChangeVerify,
       Remember, IInv, TypeOK, Cookies, LockHeld, KeysDrawn, disk,
       process, memory, handlers, cookies
<1>20. ASSUME NEW h \in Handlers, ChangeRefuse(h) PROVE KeysDrawn'
    BY <1>20, NoneAssumption, ProvidedAssumption DEF ChangeRefuse,
       Remember, Answers, Idle, IInv, TypeOK, Cookies, LockHeld,
       KeysDrawn, disk, process, memory, handlers, cookies
<1>21. ASSUME NEW h \in Handlers, ChangeRotate(h) PROVE KeysDrawn'
    BY <1>21, NoneAssumption, ProvidedAssumption DEF ChangeRotate, Rotate,
       Goes, IInv, TypeOK, Cookies, LockHeld, KeysDrawn, disk, process,
       memory, handlers, cookies
<1>22. ASSUME NEW h \in Handlers, ChangeSave(h) PROVE KeysDrawn'
    BY <1>22, NoneAssumption, ProvidedAssumption DEF ChangeSave,
       SaveCredential, Goes, IInv, TypeOK, Cookies, LockHeld, KeysDrawn,
       disk, process, memory, handlers, cookies
<1>23. ASSUME NEW h \in Handlers, ChangeReload(h) PROVE KeysDrawn'
    BY <1>23, NoneAssumption, ProvidedAssumption DEF ChangeReload, Goes,
       IInv, TypeOK, Cookies, LockHeld, KeysDrawn, disk, process, memory,
       handlers, cookies
<1>24. ASSUME NEW h \in Handlers, ChangeFails(h) PROVE KeysDrawn'
    BY <1>24, NoneAssumption, ProvidedAssumption DEF ChangeFails,
       RotateFails, SaveFails, Failure, Rotate, SaveCredential, Unlocks,
       Answers, Idle, IInv, TypeOK, Cookies, LockHeld, KeysDrawn, disk,
       process, memory, handlers, cookies
<1>25. ASSUME NEW h \in Handlers, Issue(h) PROVE KeysDrawn'
    BY <1>25, NoneAssumption, ProvidedAssumption DEF Issue, IssueCookie,
       Unlocks, Answers, Idle, IInv, TypeOK, Cookies, LockHeld, KeysDrawn,
       disk, process, memory, handlers, cookies
<1>26. CASE UNCHANGED vars
    BY <1>26, NoneAssumption, ProvidedAssumption DEF IInv, TypeOK,
       Cookies, LockHeld, KeysDrawn, vars, disk, process, memory,
       handlers, cookies
<1>27. QED
    BY <1>1, <1>2, <1>3, <1>4, <1>5, <1>6, <1>7, <1>8, <1>9, <1>10, <1>11,
       <1>12, <1>13, <1>14, <1>15, <1>16, <1>17, <1>18, <1>19, <1>20,
       <1>21, <1>22, <1>23, <1>24, <1>25, <1>26 DEF Next, Boot, Arrive,
       Handle

\* What a handler found under the lock nobody else changes.
LEMMA StillStep ==
    ASSUME IInv, [Next]_vars
    PROVE  StillTrue'
<1>1. ASSUME NEW p \in Provided, Start(p) PROVE StillTrue'
    BY <1>1, NoneAssumption, ProvidedAssumption DEF Start, IInv, TypeOK,
       LockHeld, StillTrue, Holding, disk, process, memory, handlers,
       cookies
<1>2. ASSUME BootConfigure PROVE StillTrue'
    BY <1>2, NoneAssumption, ProvidedAssumption DEF BootConfigure, IInv,
       TypeOK, LockHeld, StillTrue, Holding, disk, process, memory,
       handlers, cookies
<1>3. ASSUME BootRotate PROVE StillTrue'
    BY <1>3, NoneAssumption, ProvidedAssumption DEF BootRotate, Rotate,
       IInv, TypeOK, LockHeld, StillTrue, Holding, disk, process, memory,
       handlers, cookies
<1>4. ASSUME BootSave PROVE StillTrue'
    BY <1>4, NoneAssumption, ProvidedAssumption DEF BootSave,
       SaveCredential, IInv, TypeOK, LockHeld, StillTrue, Holding, disk,
       process, memory, handlers, cookies
<1>5. ASSUME BootKey PROVE StillTrue'
    BY <1>5, NoneAssumption, ProvidedAssumption DEF BootKey, Rotate, IInv,
       TypeOK, LockHeld, StillTrue, Holding, disk, process, memory,
       handlers, cookies
<1>6. ASSUME BootFails PROVE StillTrue'
    BY <1>6, NoneAssumption, ProvidedAssumption DEF BootFails,
       RotateFails, SaveFails, Failure, Rotate, SaveCredential, Ended,
       Idle, IInv, TypeOK, LockHeld, StillTrue, Holding, disk, process,
       memory, handlers, cookies
<1>7. ASSUME Crash PROVE StillTrue'
    BY <1>7, NoneAssumption, ProvidedAssumption DEF Crash, Ended, Idle,
       IInv, TypeOK, LockHeld, StillTrue, Holding, disk, process, memory,
       handlers, cookies
<1>8. ASSUME RemoveCredential PROVE StillTrue'
    BY <1>8, NoneAssumption, ProvidedAssumption DEF RemoveCredential,
       IInv, TypeOK, LockHeld, StillTrue, Holding, disk, process, memory,
       handlers, cookies
<1>9. ASSUME Look PROVE StillTrue'
    BY <1>9, NoneAssumption, ProvidedAssumption DEF Look, Remember, IInv,
       TypeOK, LockHeld, StillTrue, Holding, disk, process, memory,
       handlers, cookies
<1>10. ASSUME NEW h \in Handlers, NEW p \in Passwords, LoginLoad(h, p) PROVE StillTrue'
    BY <1>10, NoneAssumption, ProvidedAssumption DEF LoginLoad, Remember,
       Idle, IInv, TypeOK, LockHeld, StillTrue, Holding, disk, process,
       memory, handlers, cookies
<1>11. ASSUME NEW h \in Handlers, LoginIssue(h) PROVE StillTrue'
    BY <1>11, NoneAssumption, ProvidedAssumption DEF LoginIssue,
       IssueCookie, Answers, Idle, IInv, TypeOK, LockHeld, StillTrue,
       Holding, disk, process, memory, handlers, cookies
<1>12. ASSUME NEW h \in Handlers, LoginRefuse(h) PROVE StillTrue'
    BY <1>12, NoneAssumption, ProvidedAssumption DEF LoginRefuse, Answers,
       Idle, IInv, TypeOK, LockHeld, StillTrue, Holding, disk, process,
       memory, handlers, cookies
<1>13. ASSUME NEW h \in Handlers, NEW p \in Passwords, SetupArrive(h, p) PROVE StillTrue'
    BY <1>13, NoneAssumption, ProvidedAssumption DEF SetupArrive, Idle,
       IInv, TypeOK, LockHeld, StillTrue, Holding, disk, process, memory,
       handlers, cookies
<1>14. ASSUME NEW h \in Handlers, SetupLoad(h) PROVE StillTrue'
    BY <1>14, NoneAssumption, ProvidedAssumption DEF SetupLoad, Goes,
       IInv, TypeOK, LockHeld, StillTrue, Holding, disk, process, memory,
       handlers, cookies
<1>15. ASSUME NEW h \in Handlers, SetupConflict(h) PROVE StillTrue'
    BY <1>15, NoneAssumption, ProvidedAssumption DEF SetupConflict,
       Remember, Answers, Idle, IInv, TypeOK, LockHeld, StillTrue,
       Holding, disk, process, memory, handlers, cookies
<1>16. ASSUME NEW h \in Handlers, SetupSave(h) PROVE StillTrue'
    BY <1>16, NoneAssumption, ProvidedAssumption DEF SetupSave,
       SaveCredential, Goes, IInv, TypeOK, LockHeld, StillTrue, Holding,
       disk, process, memory, handlers, cookies
<1>17. ASSUME NEW h \in Handlers, SetupFails(h) PROVE StillTrue'
    BY <1>17, NoneAssumption, ProvidedAssumption DEF SetupFails,
       SaveFails, Failure, SaveCredential, Unlocks, Answers, Idle, IInv,
       TypeOK, LockHeld, StillTrue, Holding, disk, process, memory,
       handlers, cookies
<1>18. ASSUME NEW h \in Handlers, NEW c \in issued,
               NEW old \in Passwords, NEW new \in Passwords, ChangeArrive(h, c, old, new) PROVE StillTrue'
    BY <1>18, NoneAssumption, ProvidedAssumption DEF ChangeArrive,
       Remember, IInv, TypeOK, LockHeld, StillTrue, Holding, disk,
       process, memory, handlers, cookies
<1>19. ASSUME NEW h \in Handlers, ChangeVerify(h) PROVE StillTrue'
    BY <1>19, NoneAssumption, ProvidedAssumption DEF ChangeVerify,
       Remember, IInv, TypeOK, LockHeld, StillTrue, Holding, disk,
       process, memory, handlers, cookies
<1>20. ASSUME NEW h \in Handlers, ChangeRefuse(h) PROVE StillTrue'
    BY <1>20, NoneAssumption, ProvidedAssumption DEF ChangeRefuse,
       Remember, Answers, Idle, IInv, TypeOK, LockHeld, StillTrue,
       Holding, disk, process, memory, handlers, cookies
<1>21. ASSUME NEW h \in Handlers, ChangeRotate(h) PROVE StillTrue'
    BY <1>21, NoneAssumption, ProvidedAssumption DEF ChangeRotate, Rotate,
       Goes, IInv, TypeOK, LockHeld, StillTrue, Holding, disk, process,
       memory, handlers, cookies
<1>22. ASSUME NEW h \in Handlers, ChangeSave(h) PROVE StillTrue'
    BY <1>22, NoneAssumption, ProvidedAssumption DEF ChangeSave,
       SaveCredential, Goes, IInv, TypeOK, LockHeld, StillTrue, Holding,
       disk, process, memory, handlers, cookies
<1>23. ASSUME NEW h \in Handlers, ChangeReload(h) PROVE StillTrue'
    BY <1>23, NoneAssumption, ProvidedAssumption DEF ChangeReload, Goes,
       IInv, TypeOK, LockHeld, StillTrue, Holding, disk, process, memory,
       handlers, cookies
<1>24. ASSUME NEW h \in Handlers, ChangeFails(h) PROVE StillTrue'
    BY <1>24, NoneAssumption, ProvidedAssumption DEF ChangeFails,
       RotateFails, SaveFails, Failure, Rotate, SaveCredential, Unlocks,
       Answers, Idle, IInv, TypeOK, LockHeld, StillTrue, Holding, disk,
       process, memory, handlers, cookies
<1>25. ASSUME NEW h \in Handlers, Issue(h) PROVE StillTrue'
    BY <1>25, NoneAssumption, ProvidedAssumption DEF Issue, IssueCookie,
       Unlocks, Answers, Idle, IInv, TypeOK, LockHeld, StillTrue, Holding,
       disk, process, memory, handlers, cookies
<1>26. CASE UNCHANGED vars
    BY <1>26, NoneAssumption, ProvidedAssumption DEF IInv, TypeOK,
       LockHeld, StillTrue, Holding, vars, disk, process, memory,
       handlers, cookies
<1>27. QED
    BY <1>1, <1>2, <1>3, <1>4, <1>5, <1>6, <1>7, <1>8, <1>9, <1>10, <1>11,
       <1>12, <1>13, <1>14, <1>15, <1>16, <1>17, <1>18, <1>19, <1>20,
       <1>21, <1>22, <1>23, <1>24, <1>25, <1>26 DEF Next, Boot, Arrive,
       Handle

\* Until it is loaded, or the boot is over, nobody signs with the new key.
LEMMA RotatedStep ==
    ASSUME IInv, [Next]_vars
    PROVE  Rotated'
<1>1. ASSUME NEW p \in Provided, Start(p) PROVE Rotated'
    BY <1>1, NoneAssumption, ProvidedAssumption DEF Start, IInv, TypeOK,
       Cookies, LockHeld, KeysDrawn, Rotated, Holding, disk, process,
       memory, handlers, cookies
<1>2. ASSUME BootConfigure PROVE Rotated'
    BY <1>2, NoneAssumption, ProvidedAssumption DEF BootConfigure, IInv,
       TypeOK, Cookies, LockHeld, KeysDrawn, Rotated, Holding, disk,
       process, memory, handlers, cookies
<1>3. ASSUME BootRotate PROVE Rotated'
    BY <1>3, NoneAssumption, ProvidedAssumption DEF BootRotate, Rotate,
       IInv, TypeOK, Cookies, LockHeld, KeysDrawn, Rotated, Holding, disk,
       process, memory, handlers, cookies
<1>4. ASSUME BootSave PROVE Rotated'
    BY <1>4, NoneAssumption, ProvidedAssumption DEF BootSave,
       SaveCredential, IInv, TypeOK, Cookies, LockHeld, KeysDrawn,
       Rotated, Holding, disk, process, memory, handlers, cookies
<1>5. ASSUME BootKey PROVE Rotated'
    BY <1>5, NoneAssumption, ProvidedAssumption DEF BootKey, Rotate, IInv,
       TypeOK, Cookies, LockHeld, KeysDrawn, Rotated, Holding, disk,
       process, memory, handlers, cookies
<1>6. ASSUME BootFails PROVE Rotated'
    BY <1>6, NoneAssumption, ProvidedAssumption DEF BootFails,
       RotateFails, SaveFails, Failure, Rotate, SaveCredential, Ended,
       Idle, IInv, TypeOK, Cookies, LockHeld, KeysDrawn, Rotated, Holding,
       disk, process, memory, handlers, cookies
<1>7. ASSUME Crash PROVE Rotated'
    BY <1>7, NoneAssumption, ProvidedAssumption DEF Crash, Ended, Idle,
       IInv, TypeOK, Cookies, LockHeld, KeysDrawn, Rotated, Holding, disk,
       process, memory, handlers, cookies
<1>8. ASSUME RemoveCredential PROVE Rotated'
    BY <1>8, NoneAssumption, ProvidedAssumption DEF RemoveCredential,
       IInv, TypeOK, Cookies, LockHeld, KeysDrawn, Rotated, Holding, disk,
       process, memory, handlers, cookies
<1>9. ASSUME Look PROVE Rotated'
    BY <1>9, NoneAssumption, ProvidedAssumption DEF Look, Remember, IInv,
       TypeOK, Cookies, LockHeld, KeysDrawn, Rotated, Holding, disk,
       process, memory, handlers, cookies
<1>10. ASSUME NEW h \in Handlers, NEW p \in Passwords, LoginLoad(h, p) PROVE Rotated'
    BY <1>10, NoneAssumption, ProvidedAssumption DEF LoginLoad, Remember,
       Idle, IInv, TypeOK, Cookies, LockHeld, KeysDrawn, Rotated, Holding,
       disk, process, memory, handlers, cookies
<1>11. ASSUME NEW h \in Handlers, LoginIssue(h) PROVE Rotated'
    BY <1>11, NoneAssumption, ProvidedAssumption DEF LoginIssue,
       IssueCookie, Answers, Idle, IInv, TypeOK, Cookies, LockHeld,
       KeysDrawn, Rotated, Holding, disk, process, memory, handlers,
       cookies
<1>12. ASSUME NEW h \in Handlers, LoginRefuse(h) PROVE Rotated'
    BY <1>12, NoneAssumption, ProvidedAssumption DEF LoginRefuse, Answers,
       Idle, IInv, TypeOK, Cookies, LockHeld, KeysDrawn, Rotated, Holding,
       disk, process, memory, handlers, cookies
<1>13. ASSUME NEW h \in Handlers, NEW p \in Passwords, SetupArrive(h, p) PROVE Rotated'
    BY <1>13, NoneAssumption, ProvidedAssumption DEF SetupArrive, Idle,
       IInv, TypeOK, Cookies, LockHeld, KeysDrawn, Rotated, Holding, disk,
       process, memory, handlers, cookies
<1>14. ASSUME NEW h \in Handlers, SetupLoad(h) PROVE Rotated'
    BY <1>14, NoneAssumption, ProvidedAssumption DEF SetupLoad, Goes,
       IInv, TypeOK, Cookies, LockHeld, KeysDrawn, Rotated, Holding, disk,
       process, memory, handlers, cookies
<1>15. ASSUME NEW h \in Handlers, SetupConflict(h) PROVE Rotated'
    BY <1>15, NoneAssumption, ProvidedAssumption DEF SetupConflict,
       Remember, Answers, Idle, IInv, TypeOK, Cookies, LockHeld,
       KeysDrawn, Rotated, Holding, disk, process, memory, handlers,
       cookies
<1>16. ASSUME NEW h \in Handlers, SetupSave(h) PROVE Rotated'
    BY <1>16, NoneAssumption, ProvidedAssumption DEF SetupSave,
       SaveCredential, Goes, IInv, TypeOK, Cookies, LockHeld, KeysDrawn,
       Rotated, Holding, disk, process, memory, handlers, cookies
<1>17. ASSUME NEW h \in Handlers, SetupFails(h) PROVE Rotated'
    BY <1>17, NoneAssumption, ProvidedAssumption DEF SetupFails,
       SaveFails, Failure, SaveCredential, Unlocks, Answers, Idle, IInv,
       TypeOK, Cookies, LockHeld, KeysDrawn, Rotated, Holding, disk,
       process, memory, handlers, cookies
<1>18. ASSUME NEW h \in Handlers, NEW c \in issued,
               NEW old \in Passwords, NEW new \in Passwords, ChangeArrive(h, c, old, new) PROVE Rotated'
    BY <1>18, NoneAssumption, ProvidedAssumption DEF ChangeArrive,
       Remember, IInv, TypeOK, Cookies, LockHeld, KeysDrawn, Rotated,
       Holding, disk, process, memory, handlers, cookies
<1>19. ASSUME NEW h \in Handlers, ChangeVerify(h) PROVE Rotated'
    BY <1>19, NoneAssumption, ProvidedAssumption DEF ChangeVerify,
       Remember, IInv, TypeOK, Cookies, LockHeld, KeysDrawn, Rotated,
       Holding, disk, process, memory, handlers, cookies
<1>20. ASSUME NEW h \in Handlers, ChangeRefuse(h) PROVE Rotated'
    BY <1>20, NoneAssumption, ProvidedAssumption DEF ChangeRefuse,
       Remember, Answers, Idle, IInv, TypeOK, Cookies, LockHeld,
       KeysDrawn, Rotated, Holding, disk, process, memory, handlers,
       cookies
<1>21. ASSUME NEW h \in Handlers, ChangeRotate(h) PROVE Rotated'
    BY <1>21, NoneAssumption, ProvidedAssumption DEF ChangeRotate, Rotate,
       Goes, IInv, TypeOK, Cookies, LockHeld, KeysDrawn, Rotated, Holding,
       disk, process, memory, handlers, cookies
<1>22. ASSUME NEW h \in Handlers, ChangeSave(h) PROVE Rotated'
    BY <1>22, NoneAssumption, ProvidedAssumption DEF ChangeSave,
       SaveCredential, Goes, IInv, TypeOK, Cookies, LockHeld, KeysDrawn,
       Rotated, Holding, disk, process, memory, handlers, cookies
<1>23. ASSUME NEW h \in Handlers, ChangeReload(h) PROVE Rotated'
    BY <1>23, NoneAssumption, ProvidedAssumption DEF ChangeReload, Goes,
       IInv, TypeOK, Cookies, LockHeld, KeysDrawn, Rotated, Holding, disk,
       process, memory, handlers, cookies
<1>24. ASSUME NEW h \in Handlers, ChangeFails(h) PROVE Rotated'
    BY <1>24, NoneAssumption, ProvidedAssumption DEF ChangeFails,
       RotateFails, SaveFails, Failure, Rotate, SaveCredential, Unlocks,
       Answers, Idle, IInv, TypeOK, Cookies, LockHeld, KeysDrawn, Rotated,
       Holding, disk, process, memory, handlers, cookies
<1>25. ASSUME NEW h \in Handlers, Issue(h) PROVE Rotated'
    BY <1>25, NoneAssumption, ProvidedAssumption DEF Issue, IssueCookie,
       Unlocks, Answers, Idle, IInv, TypeOK, Cookies, LockHeld, KeysDrawn,
       Rotated, Holding, disk, process, memory, handlers, cookies
<1>26. CASE UNCHANGED vars
    BY <1>26, NoneAssumption, ProvidedAssumption DEF IInv, TypeOK,
       Cookies, LockHeld, KeysDrawn, Rotated, Holding, vars, disk,
       process, memory, handlers, cookies
<1>27. QED
    BY <1>1, <1>2, <1>3, <1>4, <1>5, <1>6, <1>7, <1>8, <1>9, <1>10, <1>11,
       <1>12, <1>13, <1>14, <1>15, <1>16, <1>17, <1>18, <1>19, <1>20,
       <1>21, <1>22, <1>23, <1>24, <1>25, <1>26 DEF Next, Boot, Arrive,
       Handle

\* A key that was retired does not come back: keys are only drawn anew.
LEMMA SignedOutStep ==
    ASSUME IInv, [Next]_vars
    PROVE  SignedOut'
<1>1. ASSUME NEW p \in Provided, Start(p) PROVE SignedOut'
    BY <1>1, NoneAssumption, ProvidedAssumption DEF Start, IInv, TypeOK,
       Cookies, LockHeld, KeysDrawn, Rotated, SignedOut, disk, process,
       memory, handlers, cookies
<1>2. ASSUME BootConfigure PROVE SignedOut'
    BY <1>2, NoneAssumption, ProvidedAssumption DEF BootConfigure, IInv,
       TypeOK, Cookies, LockHeld, KeysDrawn, Rotated, SignedOut, disk,
       process, memory, handlers, cookies
<1>3. ASSUME BootRotate PROVE SignedOut'
    BY <1>3, NoneAssumption, ProvidedAssumption DEF BootRotate, Rotate,
       IInv, TypeOK, Cookies, LockHeld, KeysDrawn, Rotated, SignedOut,
       disk, process, memory, handlers, cookies
<1>4. ASSUME BootSave PROVE SignedOut'
    BY <1>4, NoneAssumption, ProvidedAssumption DEF BootSave,
       SaveCredential, IInv, TypeOK, Cookies, LockHeld, KeysDrawn,
       Rotated, SignedOut, disk, process, memory, handlers, cookies
<1>5. ASSUME BootKey PROVE SignedOut'
    BY <1>5, NoneAssumption, ProvidedAssumption DEF BootKey, Rotate, IInv,
       TypeOK, Cookies, LockHeld, KeysDrawn, Rotated, SignedOut, disk,
       process, memory, handlers, cookies
<1>6. ASSUME BootFails PROVE SignedOut'
    BY <1>6, NoneAssumption, ProvidedAssumption DEF BootFails,
       RotateFails, SaveFails, Failure, Rotate, SaveCredential, Ended,
       Idle, IInv, TypeOK, Cookies, LockHeld, KeysDrawn, Rotated,
       SignedOut, disk, process, memory, handlers, cookies
<1>7. ASSUME Crash PROVE SignedOut'
    BY <1>7, NoneAssumption, ProvidedAssumption DEF Crash, Ended, Idle,
       IInv, TypeOK, Cookies, LockHeld, KeysDrawn, Rotated, SignedOut,
       disk, process, memory, handlers, cookies
<1>8. ASSUME RemoveCredential PROVE SignedOut'
    BY <1>8, NoneAssumption, ProvidedAssumption DEF RemoveCredential,
       IInv, TypeOK, Cookies, LockHeld, KeysDrawn, Rotated, SignedOut,
       disk, process, memory, handlers, cookies
<1>9. ASSUME Look PROVE SignedOut'
    BY <1>9, NoneAssumption, ProvidedAssumption DEF Look, Remember, IInv,
       TypeOK, Cookies, LockHeld, KeysDrawn, Rotated, SignedOut, disk,
       process, memory, handlers, cookies
<1>10. ASSUME NEW h \in Handlers, NEW p \in Passwords, LoginLoad(h, p) PROVE SignedOut'
    BY <1>10, NoneAssumption, ProvidedAssumption DEF LoginLoad, Remember,
       Idle, IInv, TypeOK, Cookies, LockHeld, KeysDrawn, Rotated,
       SignedOut, disk, process, memory, handlers, cookies
<1>11. ASSUME NEW h \in Handlers, LoginIssue(h) PROVE SignedOut'
    BY <1>11, NoneAssumption, ProvidedAssumption DEF LoginIssue,
       IssueCookie, Answers, Idle, IInv, TypeOK, Cookies, LockHeld,
       KeysDrawn, Rotated, SignedOut, disk, process, memory, handlers,
       cookies
<1>12. ASSUME NEW h \in Handlers, LoginRefuse(h) PROVE SignedOut'
    BY <1>12, NoneAssumption, ProvidedAssumption DEF LoginRefuse, Answers,
       Idle, IInv, TypeOK, Cookies, LockHeld, KeysDrawn, Rotated,
       SignedOut, disk, process, memory, handlers, cookies
<1>13. ASSUME NEW h \in Handlers, NEW p \in Passwords, SetupArrive(h, p) PROVE SignedOut'
    BY <1>13, NoneAssumption, ProvidedAssumption DEF SetupArrive, Idle,
       IInv, TypeOK, Cookies, LockHeld, KeysDrawn, Rotated, SignedOut,
       disk, process, memory, handlers, cookies
<1>14. ASSUME NEW h \in Handlers, SetupLoad(h) PROVE SignedOut'
    BY <1>14, NoneAssumption, ProvidedAssumption DEF SetupLoad, Goes,
       IInv, TypeOK, Cookies, LockHeld, KeysDrawn, Rotated, SignedOut,
       disk, process, memory, handlers, cookies
<1>15. ASSUME NEW h \in Handlers, SetupConflict(h) PROVE SignedOut'
    BY <1>15, NoneAssumption, ProvidedAssumption DEF SetupConflict,
       Remember, Answers, Idle, IInv, TypeOK, Cookies, LockHeld,
       KeysDrawn, Rotated, SignedOut, disk, process, memory, handlers,
       cookies
<1>16. ASSUME NEW h \in Handlers, SetupSave(h) PROVE SignedOut'
    BY <1>16, NoneAssumption, ProvidedAssumption DEF SetupSave,
       SaveCredential, Goes, IInv, TypeOK, Cookies, LockHeld, KeysDrawn,
       Rotated, SignedOut, disk, process, memory, handlers, cookies
<1>17. ASSUME NEW h \in Handlers, SetupFails(h) PROVE SignedOut'
    BY <1>17, NoneAssumption, ProvidedAssumption DEF SetupFails,
       SaveFails, Failure, SaveCredential, Unlocks, Answers, Idle, IInv,
       TypeOK, Cookies, LockHeld, KeysDrawn, Rotated, SignedOut, disk,
       process, memory, handlers, cookies
<1>18. ASSUME NEW h \in Handlers, NEW c \in issued,
               NEW old \in Passwords, NEW new \in Passwords, ChangeArrive(h, c, old, new) PROVE SignedOut'
    BY <1>18, NoneAssumption, ProvidedAssumption DEF ChangeArrive,
       Remember, IInv, TypeOK, Cookies, LockHeld, KeysDrawn, Rotated,
       SignedOut, disk, process, memory, handlers, cookies
<1>19. ASSUME NEW h \in Handlers, ChangeVerify(h) PROVE SignedOut'
    BY <1>19, NoneAssumption, ProvidedAssumption DEF ChangeVerify,
       Remember, IInv, TypeOK, Cookies, LockHeld, KeysDrawn, Rotated,
       SignedOut, disk, process, memory, handlers, cookies
<1>20. ASSUME NEW h \in Handlers, ChangeRefuse(h) PROVE SignedOut'
    BY <1>20, NoneAssumption, ProvidedAssumption DEF ChangeRefuse,
       Remember, Answers, Idle, IInv, TypeOK, Cookies, LockHeld,
       KeysDrawn, Rotated, SignedOut, disk, process, memory, handlers,
       cookies
<1>21. ASSUME NEW h \in Handlers, ChangeRotate(h) PROVE SignedOut'
    BY <1>21, NoneAssumption, ProvidedAssumption DEF ChangeRotate, Rotate,
       Goes, IInv, TypeOK, Cookies, LockHeld, KeysDrawn, Rotated,
       SignedOut, disk, process, memory, handlers, cookies
<1>22. ASSUME NEW h \in Handlers, ChangeSave(h) PROVE SignedOut'
    BY <1>22, NoneAssumption, ProvidedAssumption DEF ChangeSave,
       SaveCredential, Goes, IInv, TypeOK, Cookies, LockHeld, KeysDrawn,
       Rotated, SignedOut, disk, process, memory, handlers, cookies
<1>23. ASSUME NEW h \in Handlers, ChangeReload(h) PROVE SignedOut'
    BY <1>23, NoneAssumption, ProvidedAssumption DEF ChangeReload, Goes,
       IInv, TypeOK, Cookies, LockHeld, KeysDrawn, Rotated, SignedOut,
       disk, process, memory, handlers, cookies
<1>24. ASSUME NEW h \in Handlers, ChangeFails(h) PROVE SignedOut'
    BY <1>24, NoneAssumption, ProvidedAssumption DEF ChangeFails,
       RotateFails, SaveFails, Failure, Rotate, SaveCredential, Unlocks,
       Answers, Idle, IInv, TypeOK, Cookies, LockHeld, KeysDrawn, Rotated,
       SignedOut, disk, process, memory, handlers, cookies
<1>25. ASSUME NEW h \in Handlers, Issue(h) PROVE SignedOut'
    BY <1>25, NoneAssumption, ProvidedAssumption DEF Issue, IssueCookie,
       Unlocks, Answers, Idle, IInv, TypeOK, Cookies, LockHeld, KeysDrawn,
       Rotated, SignedOut, disk, process, memory, handlers, cookies
<1>26. CASE UNCHANGED vars
    BY <1>26, NoneAssumption, ProvidedAssumption DEF IInv, TypeOK,
       Cookies, LockHeld, KeysDrawn, Rotated, SignedOut, vars, disk,
       process, memory, handlers, cookies
<1>27. QED
    BY <1>1, <1>2, <1>3, <1>4, <1>5, <1>6, <1>7, <1>8, <1>9, <1>10, <1>11,
       <1>12, <1>13, <1>14, <1>15, <1>16, <1>17, <1>18, <1>19, <1>20,
       <1>21, <1>22, <1>23, <1>24, <1>25, <1>26 DEF Next, Boot, Arrive,
       Handle

\* Where the credential is replaced, no cookie bears the key in the file.
LEMMA RestartStep ==
    ASSUME IInv, [Next]_vars
    PROVE  RestartSessionsMatch'
<1>1. ASSUME NEW p \in Provided, Start(p) PROVE RestartSessionsMatch'
    BY <1>1, NoneAssumption, ProvidedAssumption DEF Start, IInv, TypeOK,
       Cookies, LockHeld, KeysDrawn, StillTrue, Rotated, Holding,
       RestartSessionsMatch, Late, disk, process, memory, handlers,
       cookies
<1>2. ASSUME BootConfigure PROVE RestartSessionsMatch'
    BY <1>2, NoneAssumption, ProvidedAssumption DEF BootConfigure, IInv,
       TypeOK, Cookies, LockHeld, KeysDrawn, StillTrue, Rotated, Holding,
       RestartSessionsMatch, Late, disk, process, memory, handlers,
       cookies
<1>3. ASSUME BootRotate PROVE RestartSessionsMatch'
    BY <1>3, NoneAssumption, ProvidedAssumption DEF BootRotate, Rotate,
       IInv, TypeOK, Cookies, LockHeld, KeysDrawn, StillTrue, Rotated,
       Holding, RestartSessionsMatch, Late, disk, process, memory,
       handlers, cookies
<1>4. ASSUME BootSave PROVE RestartSessionsMatch'
    BY <1>4, NoneAssumption, ProvidedAssumption DEF BootSave,
       SaveCredential, IInv, TypeOK, Cookies, LockHeld, KeysDrawn,
       StillTrue, Rotated, Holding, RestartSessionsMatch, Late, disk,
       process, memory, handlers, cookies
<1>5. ASSUME BootKey PROVE RestartSessionsMatch'
    BY <1>5, NoneAssumption, ProvidedAssumption DEF BootKey, Rotate, IInv,
       TypeOK, Cookies, LockHeld, KeysDrawn, StillTrue, Rotated, Holding,
       RestartSessionsMatch, Late, disk, process, memory, handlers,
       cookies
<1>6. ASSUME BootFails PROVE RestartSessionsMatch'
    BY <1>6, NoneAssumption, ProvidedAssumption DEF BootFails,
       RotateFails, SaveFails, Failure, Rotate, SaveCredential, Ended,
       Idle, IInv, TypeOK, Cookies, LockHeld, KeysDrawn, StillTrue,
       Rotated, Holding, RestartSessionsMatch, Late, disk, process,
       memory, handlers, cookies
<1>7. ASSUME Crash PROVE RestartSessionsMatch'
    BY <1>7, NoneAssumption, ProvidedAssumption DEF Crash, Ended, Idle,
       IInv, TypeOK, Cookies, LockHeld, KeysDrawn, StillTrue, Rotated,
       Holding, RestartSessionsMatch, Late, disk, process, memory,
       handlers, cookies
<1>8. ASSUME RemoveCredential PROVE RestartSessionsMatch'
    BY <1>8, NoneAssumption, ProvidedAssumption DEF RemoveCredential,
       IInv, TypeOK, Cookies, LockHeld, KeysDrawn, StillTrue, Rotated,
       Holding, RestartSessionsMatch, Late, disk, process, memory,
       handlers, cookies
<1>9. ASSUME Look PROVE RestartSessionsMatch'
    BY <1>9, NoneAssumption, ProvidedAssumption DEF Look, Remember, IInv,
       TypeOK, Cookies, LockHeld, KeysDrawn, StillTrue, Rotated, Holding,
       RestartSessionsMatch, Late, disk, process, memory, handlers,
       cookies
<1>10. ASSUME NEW h \in Handlers, NEW p \in Passwords, LoginLoad(h, p) PROVE RestartSessionsMatch'
    BY <1>10, NoneAssumption, ProvidedAssumption DEF LoginLoad, Remember,
       Idle, IInv, TypeOK, Cookies, LockHeld, KeysDrawn, StillTrue,
       Rotated, Holding, RestartSessionsMatch, Late, disk, process,
       memory, handlers, cookies
<1>11. ASSUME NEW h \in Handlers, LoginIssue(h) PROVE RestartSessionsMatch'
    BY <1>11, NoneAssumption, ProvidedAssumption DEF LoginIssue,
       IssueCookie, Answers, Idle, IInv, TypeOK, Cookies, LockHeld,
       KeysDrawn, StillTrue, Rotated, Holding, RestartSessionsMatch, Late,
       disk, process, memory, handlers, cookies
<1>12. ASSUME NEW h \in Handlers, LoginRefuse(h) PROVE RestartSessionsMatch'
    BY <1>12, NoneAssumption, ProvidedAssumption DEF LoginRefuse, Answers,
       Idle, IInv, TypeOK, Cookies, LockHeld, KeysDrawn, StillTrue,
       Rotated, Holding, RestartSessionsMatch, Late, disk, process,
       memory, handlers, cookies
<1>13. ASSUME NEW h \in Handlers, NEW p \in Passwords, SetupArrive(h, p) PROVE RestartSessionsMatch'
    BY <1>13, NoneAssumption, ProvidedAssumption DEF SetupArrive, Idle,
       IInv, TypeOK, Cookies, LockHeld, KeysDrawn, StillTrue, Rotated,
       Holding, RestartSessionsMatch, Late, disk, process, memory,
       handlers, cookies
<1>14. ASSUME NEW h \in Handlers, SetupLoad(h) PROVE RestartSessionsMatch'
    BY <1>14, NoneAssumption, ProvidedAssumption DEF SetupLoad, Goes,
       IInv, TypeOK, Cookies, LockHeld, KeysDrawn, StillTrue, Rotated,
       Holding, RestartSessionsMatch, Late, disk, process, memory,
       handlers, cookies
<1>15. ASSUME NEW h \in Handlers, SetupConflict(h) PROVE RestartSessionsMatch'
    BY <1>15, NoneAssumption, ProvidedAssumption DEF SetupConflict,
       Remember, Answers, Idle, IInv, TypeOK, Cookies, LockHeld,
       KeysDrawn, StillTrue, Rotated, Holding, RestartSessionsMatch, Late,
       disk, process, memory, handlers, cookies
<1>16. ASSUME NEW h \in Handlers, SetupSave(h) PROVE RestartSessionsMatch'
    BY <1>16, NoneAssumption, ProvidedAssumption DEF SetupSave,
       SaveCredential, Goes, IInv, TypeOK, Cookies, LockHeld, KeysDrawn,
       StillTrue, Rotated, Holding, RestartSessionsMatch, Late, disk,
       process, memory, handlers, cookies
<1>17. ASSUME NEW h \in Handlers, SetupFails(h) PROVE RestartSessionsMatch'
    BY <1>17, NoneAssumption, ProvidedAssumption DEF SetupFails,
       SaveFails, Failure, SaveCredential, Unlocks, Answers, Idle, IInv,
       TypeOK, Cookies, LockHeld, KeysDrawn, StillTrue, Rotated, Holding,
       RestartSessionsMatch, Late, disk, process, memory, handlers,
       cookies
<1>18. ASSUME NEW h \in Handlers, NEW c \in issued,
               NEW old \in Passwords, NEW new \in Passwords, ChangeArrive(h, c, old, new) PROVE RestartSessionsMatch'
    BY <1>18, NoneAssumption, ProvidedAssumption DEF ChangeArrive,
       Remember, IInv, TypeOK, Cookies, LockHeld, KeysDrawn, StillTrue,
       Rotated, Holding, RestartSessionsMatch, Late, disk, process,
       memory, handlers, cookies
<1>19. ASSUME NEW h \in Handlers, ChangeVerify(h) PROVE RestartSessionsMatch'
    BY <1>19, NoneAssumption, ProvidedAssumption DEF ChangeVerify,
       Remember, IInv, TypeOK, Cookies, LockHeld, KeysDrawn, StillTrue,
       Rotated, Holding, RestartSessionsMatch, Late, disk, process,
       memory, handlers, cookies
<1>20. ASSUME NEW h \in Handlers, ChangeRefuse(h) PROVE RestartSessionsMatch'
    BY <1>20, NoneAssumption, ProvidedAssumption DEF ChangeRefuse,
       Remember, Answers, Idle, IInv, TypeOK, Cookies, LockHeld,
       KeysDrawn, StillTrue, Rotated, Holding, RestartSessionsMatch, Late,
       disk, process, memory, handlers, cookies
<1>21. ASSUME NEW h \in Handlers, ChangeRotate(h) PROVE RestartSessionsMatch'
    BY <1>21, NoneAssumption, ProvidedAssumption DEF ChangeRotate, Rotate,
       Goes, IInv, TypeOK, Cookies, LockHeld, KeysDrawn, StillTrue,
       Rotated, Holding, RestartSessionsMatch, Late, disk, process,
       memory, handlers, cookies
<1>22. ASSUME NEW h \in Handlers, ChangeSave(h) PROVE RestartSessionsMatch'
    BY <1>22, NoneAssumption, ProvidedAssumption DEF ChangeSave,
       SaveCredential, Goes, IInv, TypeOK, Cookies, LockHeld, KeysDrawn,
       StillTrue, Rotated, Holding, RestartSessionsMatch, Late, disk,
       process, memory, handlers, cookies
<1>23. ASSUME NEW h \in Handlers, ChangeReload(h) PROVE RestartSessionsMatch'
    BY <1>23, NoneAssumption, ProvidedAssumption DEF ChangeReload, Goes,
       IInv, TypeOK, Cookies, LockHeld, KeysDrawn, StillTrue, Rotated,
       Holding, RestartSessionsMatch, Late, disk, process, memory,
       handlers, cookies
<1>24. ASSUME NEW h \in Handlers, ChangeFails(h) PROVE RestartSessionsMatch'
    BY <1>24, NoneAssumption, ProvidedAssumption DEF ChangeFails,
       RotateFails, SaveFails, Failure, Rotate, SaveCredential, Unlocks,
       Answers, Idle, IInv, TypeOK, Cookies, LockHeld, KeysDrawn,
       StillTrue, Rotated, Holding, RestartSessionsMatch, Late, disk,
       process, memory, handlers, cookies
<1>25. ASSUME NEW h \in Handlers, Issue(h) PROVE RestartSessionsMatch'
    BY <1>25, NoneAssumption, ProvidedAssumption DEF Issue, IssueCookie,
       Unlocks, Answers, Idle, IInv, TypeOK, Cookies, LockHeld, KeysDrawn,
       StillTrue, Rotated, Holding, RestartSessionsMatch, Late, disk,
       process, memory, handlers, cookies
<1>26. CASE UNCHANGED vars
    BY <1>26, NoneAssumption, ProvidedAssumption DEF IInv, TypeOK,
       Cookies, LockHeld, KeysDrawn, StillTrue, Rotated, Holding,
       RestartSessionsMatch, Late, vars, disk, process, memory, handlers,
       cookies
<1>27. QED
    BY <1>1, <1>2, <1>3, <1>4, <1>5, <1>6, <1>7, <1>8, <1>9, <1>10, <1>11,
       <1>12, <1>13, <1>14, <1>15, <1>16, <1>17, <1>18, <1>19, <1>20,
       <1>21, <1>22, <1>23, <1>24, <1>25, <1>26 DEF Next, Boot, Arrive,
       Handle

\* Where the credential is replaced in a process that is up, the key follows.
LEMMA LiveStep ==
    ASSUME IInv, [Next]_vars
    PROVE  LiveSessionsMatch'
<1>1. ASSUME NEW p \in Provided, Start(p) PROVE LiveSessionsMatch'
    BY <1>1, NoneAssumption, ProvidedAssumption DEF Start, IInv, TypeOK,
       Cookies, LockHeld, KeysDrawn, StillTrue, Rotated, Holding,
       RestartSessionsMatch, LiveSessionsMatch, Late, disk, process,
       memory, handlers, cookies
<1>2. ASSUME BootConfigure PROVE LiveSessionsMatch'
    BY <1>2, NoneAssumption, ProvidedAssumption DEF BootConfigure, IInv,
       TypeOK, Cookies, LockHeld, KeysDrawn, StillTrue, Rotated, Holding,
       RestartSessionsMatch, LiveSessionsMatch, Late, disk, process,
       memory, handlers, cookies
<1>3. ASSUME BootRotate PROVE LiveSessionsMatch'
    BY <1>3, NoneAssumption, ProvidedAssumption DEF BootRotate, Rotate,
       IInv, TypeOK, Cookies, LockHeld, KeysDrawn, StillTrue, Rotated,
       Holding, RestartSessionsMatch, LiveSessionsMatch, Late, disk,
       process, memory, handlers, cookies
<1>4. ASSUME BootSave PROVE LiveSessionsMatch'
    BY <1>4, NoneAssumption, ProvidedAssumption DEF BootSave,
       SaveCredential, IInv, TypeOK, Cookies, LockHeld, KeysDrawn,
       StillTrue, Rotated, Holding, RestartSessionsMatch,
       LiveSessionsMatch, Late, disk, process, memory, handlers, cookies
<1>5. ASSUME BootKey PROVE LiveSessionsMatch'
    BY <1>5, NoneAssumption, ProvidedAssumption DEF BootKey, Rotate, IInv,
       TypeOK, Cookies, LockHeld, KeysDrawn, StillTrue, Rotated, Holding,
       RestartSessionsMatch, LiveSessionsMatch, Late, disk, process,
       memory, handlers, cookies
<1>6. ASSUME BootFails PROVE LiveSessionsMatch'
    BY <1>6, NoneAssumption, ProvidedAssumption DEF BootFails,
       RotateFails, SaveFails, Failure, Rotate, SaveCredential, Ended,
       Idle, IInv, TypeOK, Cookies, LockHeld, KeysDrawn, StillTrue,
       Rotated, Holding, RestartSessionsMatch, LiveSessionsMatch, Late,
       disk, process, memory, handlers, cookies
<1>7. ASSUME Crash PROVE LiveSessionsMatch'
    BY <1>7, NoneAssumption, ProvidedAssumption DEF Crash, Ended, Idle,
       IInv, TypeOK, Cookies, LockHeld, KeysDrawn, StillTrue, Rotated,
       Holding, RestartSessionsMatch, LiveSessionsMatch, Late, disk,
       process, memory, handlers, cookies
<1>8. ASSUME RemoveCredential PROVE LiveSessionsMatch'
    BY <1>8, NoneAssumption, ProvidedAssumption DEF RemoveCredential,
       IInv, TypeOK, Cookies, LockHeld, KeysDrawn, StillTrue, Rotated,
       Holding, RestartSessionsMatch, LiveSessionsMatch, Late, disk,
       process, memory, handlers, cookies
<1>9. ASSUME Look PROVE LiveSessionsMatch'
    BY <1>9, NoneAssumption, ProvidedAssumption DEF Look, Remember, IInv,
       TypeOK, Cookies, LockHeld, KeysDrawn, StillTrue, Rotated, Holding,
       RestartSessionsMatch, LiveSessionsMatch, Late, disk, process,
       memory, handlers, cookies
<1>10. ASSUME NEW h \in Handlers, NEW p \in Passwords, LoginLoad(h, p) PROVE LiveSessionsMatch'
    BY <1>10, NoneAssumption, ProvidedAssumption DEF LoginLoad, Remember,
       Idle, IInv, TypeOK, Cookies, LockHeld, KeysDrawn, StillTrue,
       Rotated, Holding, RestartSessionsMatch, LiveSessionsMatch, Late,
       disk, process, memory, handlers, cookies
<1>11. ASSUME NEW h \in Handlers, LoginIssue(h) PROVE LiveSessionsMatch'
    BY <1>11, NoneAssumption, ProvidedAssumption DEF LoginIssue,
       IssueCookie, Answers, Idle, IInv, TypeOK, Cookies, LockHeld,
       KeysDrawn, StillTrue, Rotated, Holding, RestartSessionsMatch,
       LiveSessionsMatch, Late, disk, process, memory, handlers, cookies
<1>12. ASSUME NEW h \in Handlers, LoginRefuse(h) PROVE LiveSessionsMatch'
    BY <1>12, NoneAssumption, ProvidedAssumption DEF LoginRefuse, Answers,
       Idle, IInv, TypeOK, Cookies, LockHeld, KeysDrawn, StillTrue,
       Rotated, Holding, RestartSessionsMatch, LiveSessionsMatch, Late,
       disk, process, memory, handlers, cookies
<1>13. ASSUME NEW h \in Handlers, NEW p \in Passwords, SetupArrive(h, p) PROVE LiveSessionsMatch'
    BY <1>13, NoneAssumption, ProvidedAssumption DEF SetupArrive, Idle,
       IInv, TypeOK, Cookies, LockHeld, KeysDrawn, StillTrue, Rotated,
       Holding, RestartSessionsMatch, LiveSessionsMatch, Late, disk,
       process, memory, handlers, cookies
<1>14. ASSUME NEW h \in Handlers, SetupLoad(h) PROVE LiveSessionsMatch'
    BY <1>14, NoneAssumption, ProvidedAssumption DEF SetupLoad, Goes,
       IInv, TypeOK, Cookies, LockHeld, KeysDrawn, StillTrue, Rotated,
       Holding, RestartSessionsMatch, LiveSessionsMatch, Late, disk,
       process, memory, handlers, cookies
<1>15. ASSUME NEW h \in Handlers, SetupConflict(h) PROVE LiveSessionsMatch'
    BY <1>15, NoneAssumption, ProvidedAssumption DEF SetupConflict,
       Remember, Answers, Idle, IInv, TypeOK, Cookies, LockHeld,
       KeysDrawn, StillTrue, Rotated, Holding, RestartSessionsMatch,
       LiveSessionsMatch, Late, disk, process, memory, handlers, cookies
<1>16. ASSUME NEW h \in Handlers, SetupSave(h) PROVE LiveSessionsMatch'
    BY <1>16, NoneAssumption, ProvidedAssumption DEF SetupSave,
       SaveCredential, Goes, IInv, TypeOK, Cookies, LockHeld, KeysDrawn,
       StillTrue, Rotated, Holding, RestartSessionsMatch,
       LiveSessionsMatch, Late, disk, process, memory, handlers, cookies
<1>17. ASSUME NEW h \in Handlers, SetupFails(h) PROVE LiveSessionsMatch'
    BY <1>17, NoneAssumption, ProvidedAssumption DEF SetupFails,
       SaveFails, Failure, SaveCredential, Unlocks, Answers, Idle, IInv,
       TypeOK, Cookies, LockHeld, KeysDrawn, StillTrue, Rotated, Holding,
       RestartSessionsMatch, LiveSessionsMatch, Late, disk, process,
       memory, handlers, cookies
<1>18. ASSUME NEW h \in Handlers, NEW c \in issued,
               NEW old \in Passwords, NEW new \in Passwords, ChangeArrive(h, c, old, new) PROVE LiveSessionsMatch'
    BY <1>18, NoneAssumption, ProvidedAssumption DEF ChangeArrive,
       Remember, IInv, TypeOK, Cookies, LockHeld, KeysDrawn, StillTrue,
       Rotated, Holding, RestartSessionsMatch, LiveSessionsMatch, Late,
       disk, process, memory, handlers, cookies
<1>19. ASSUME NEW h \in Handlers, ChangeVerify(h) PROVE LiveSessionsMatch'
    BY <1>19, NoneAssumption, ProvidedAssumption DEF ChangeVerify,
       Remember, IInv, TypeOK, Cookies, LockHeld, KeysDrawn, StillTrue,
       Rotated, Holding, RestartSessionsMatch, LiveSessionsMatch, Late,
       disk, process, memory, handlers, cookies
<1>20. ASSUME NEW h \in Handlers, ChangeRefuse(h) PROVE LiveSessionsMatch'
    BY <1>20, NoneAssumption, ProvidedAssumption DEF ChangeRefuse,
       Remember, Answers, Idle, IInv, TypeOK, Cookies, LockHeld,
       KeysDrawn, StillTrue, Rotated, Holding, RestartSessionsMatch,
       LiveSessionsMatch, Late, disk, process, memory, handlers, cookies
<1>21. ASSUME NEW h \in Handlers, ChangeRotate(h) PROVE LiveSessionsMatch'
    BY <1>21, NoneAssumption, ProvidedAssumption DEF ChangeRotate, Rotate,
       Goes, IInv, TypeOK, Cookies, LockHeld, KeysDrawn, StillTrue,
       Rotated, Holding, RestartSessionsMatch, LiveSessionsMatch, Late,
       disk, process, memory, handlers, cookies
<1>22. ASSUME NEW h \in Handlers, ChangeSave(h) PROVE LiveSessionsMatch'
    BY <1>22, NoneAssumption, ProvidedAssumption DEF ChangeSave,
       SaveCredential, Goes, IInv, TypeOK, Cookies, LockHeld, KeysDrawn,
       StillTrue, Rotated, Holding, RestartSessionsMatch,
       LiveSessionsMatch, Late, disk, process, memory, handlers, cookies
<1>23. ASSUME NEW h \in Handlers, ChangeReload(h) PROVE LiveSessionsMatch'
    BY <1>23, NoneAssumption, ProvidedAssumption DEF ChangeReload, Goes,
       IInv, TypeOK, Cookies, LockHeld, KeysDrawn, StillTrue, Rotated,
       Holding, RestartSessionsMatch, LiveSessionsMatch, Late, disk,
       process, memory, handlers, cookies
<1>24. ASSUME NEW h \in Handlers, ChangeFails(h) PROVE LiveSessionsMatch'
    BY <1>24, NoneAssumption, ProvidedAssumption DEF ChangeFails,
       RotateFails, SaveFails, Failure, Rotate, SaveCredential, Unlocks,
       Answers, Idle, IInv, TypeOK, Cookies, LockHeld, KeysDrawn,
       StillTrue, Rotated, Holding, RestartSessionsMatch,
       LiveSessionsMatch, Late, disk, process, memory, handlers, cookies
<1>25. ASSUME NEW h \in Handlers, Issue(h) PROVE LiveSessionsMatch'
    BY <1>25, NoneAssumption, ProvidedAssumption DEF Issue, IssueCookie,
       Unlocks, Answers, Idle, IInv, TypeOK, Cookies, LockHeld, KeysDrawn,
       StillTrue, Rotated, Holding, RestartSessionsMatch,
       LiveSessionsMatch, Late, disk, process, memory, handlers, cookies
<1>26. CASE UNCHANGED vars
    BY <1>26, NoneAssumption, ProvidedAssumption DEF IInv, TypeOK,
       Cookies, LockHeld, KeysDrawn, StillTrue, Rotated, Holding,
       RestartSessionsMatch, LiveSessionsMatch, Late, vars, disk, process,
       memory, handlers, cookies
<1>27. QED
    BY <1>1, <1>2, <1>3, <1>4, <1>5, <1>6, <1>7, <1>8, <1>9, <1>10, <1>11,
       <1>12, <1>13, <1>14, <1>15, <1>16, <1>17, <1>18, <1>19, <1>20,
       <1>21, <1>22, <1>23, <1>24, <1>25, <1>26 DEF Next, Boot, Arrive,
       Handle

\* The invariant holds at first and through every step.
THEOREM Invariant == Spec => []IInv
<1>1. Init => IInv
    <2>1. Init => TypeOK
        <3>1. SUFFICES ASSUME Init PROVE TypeOK
            OBVIOUS
        <3>2. found \in BOOLEAN
            BY <3>1 DEF Init
        <3>3. issued \subseteq Cookies /\ gone \subseteq issued
            BY <3>1 DEF Init
        <3>4. QED
            BY <3>1, <3>2, <3>3 DEF Init, TypeOK, Idle
    <2>2. Init => LockHeld /\ StillTrue
        BY NoneAssumption DEF Init, LockHeld, StillTrue, Holding, Idle
    <2>3. Init => KeysDrawn
        BY DEF Init, KeysDrawn
    <2>4. Init => Rotated
        BY DEF Init, Rotated, Idle
    <2>5. Init => SignedOut /\ RestartSessionsMatch /\ LiveSessionsMatch
        BY DEF Init, SignedOut, RestartSessionsMatch, LiveSessionsMatch
    <2>6. QED
        BY <2>1, <2>2, <2>3, <2>4, <2>5 DEF IInv
<1>2. IInv /\ [Next]_vars => IInv'
    BY TypeStep, LockStep, KeysStep, StillStep, RotatedStep, SignedOutStep, RestartStep,
       LiveStep DEF IInv
<1>3. QED
    BY <1>1, <1>2, PTL DEF Spec

\* The variables have their types in every reachable state.
THEOREM TypeCorrect == Spec => []TypeOK
<1>1. IInv => TypeOK
    BY DEF IInv
<1>2. QED
    BY Invariant, <1>1, PTL

\* A cookie that a change of the password signed out is dead for good, over
\* restarts and failed writes (RotateSessionKey, session.go:47).
THEOREM StaysSignedOut == Spec => []SignedOut
<1>1. IInv => SignedOut
    BY DEF IInv
<1>2. QED
    BY Invariant, <1>1, PTL

\* The sessions the next process will accept were opened under the password in
\* force (api_password.go:48-58, auth.go:122-127: rotate, then save).
THEOREM RestartMatches == Spec => []RestartSessionsMatch
<1>1. IInv => RestartSessionsMatch
    BY DEF IInv
<1>2. QED
    BY Invariant, <1>1, PTL

\* And so were those this process accepts while no change is in flight
\* (api_password.go:48-58: reload after the save).
THEOREM LiveMatches == Spec => []LiveSessionsMatch
<1>1. IInv => LiveSessionsMatch
    BY DEF IInv
<1>2. QED
    BY Invariant, <1>1, PTL

\* Only the change that verified a credential, or startup, replaces it
\* (setupMu in handleSetup and handlePasswordChange).
THEOREM Chain == Spec => CredentialChain
<1> DEFINE Replaced ==
        cred # None /\ cred' \notin {cred, None} =>
            \/ proc = "save" /\ cred' = given
            \/ \E h \in Handlers :
                  req[h].pc = "save" /\ req[h].seen = cred /\ cred' = req[h].new
<1>1. ASSUME IInv, [Next]_vars PROVE Replaced
    <2>1. ASSUME NEW p \in Provided, Start(p) PROVE Replaced
        BY <1>1, <2>1 DEF Start, IInv, TypeOK, StillTrue, disk,
           process, memory, handlers, cookies
    <2>2. ASSUME BootConfigure PROVE Replaced
        BY <1>1, <2>2 DEF BootConfigure, IInv, TypeOK, StillTrue,
           disk, process, memory, handlers, cookies
    <2>3. ASSUME BootRotate PROVE Replaced
        BY <1>1, <2>3 DEF BootRotate, Rotate, IInv, TypeOK, StillTrue,
           disk, process, memory, handlers, cookies
    <2>4. ASSUME BootSave PROVE Replaced
        BY <1>1, <2>4 DEF BootSave, SaveCredential, IInv, TypeOK,
           StillTrue, disk, process, memory, handlers, cookies
    <2>5. ASSUME BootKey PROVE Replaced
        BY <1>1, <2>5 DEF BootKey, Rotate, IInv, TypeOK, StillTrue,
           disk, process, memory, handlers, cookies
    <2>6. ASSUME BootFails PROVE Replaced
        BY <1>1, <2>6 DEF BootFails, RotateFails, SaveFails, Failure,
           Rotate, SaveCredential, Ended, Idle, IInv, TypeOK,
           StillTrue, disk, process, memory, handlers, cookies
    <2>7. ASSUME Crash PROVE Replaced
        BY <1>1, <2>7 DEF Crash, Ended, Idle, IInv, TypeOK, StillTrue,
           disk, process, memory, handlers, cookies
    <2>8. ASSUME RemoveCredential PROVE Replaced
        BY <1>1, <2>8 DEF RemoveCredential, IInv, TypeOK, StillTrue,
           disk, process, memory, handlers, cookies
    <2>9. ASSUME Look PROVE Replaced
        BY <1>1, <2>9 DEF Look, Remember, IInv, TypeOK, StillTrue,
           disk, process, memory, handlers, cookies
    <2>10. ASSUME NEW h \in Handlers, NEW p \in Passwords, LoginLoad(h, p) PROVE Replaced
        BY <1>1, <2>10 DEF LoginLoad, Remember, Idle, IInv, TypeOK,
           StillTrue, disk, process, memory, handlers, cookies
    <2>11. ASSUME NEW h \in Handlers, LoginIssue(h) PROVE Replaced
        BY <1>1, <2>11 DEF LoginIssue, IssueCookie, Answers, Idle,
           IInv, TypeOK, StillTrue, disk, process, memory, handlers,
           cookies
    <2>12. ASSUME NEW h \in Handlers, LoginRefuse(h) PROVE Replaced
        BY <1>1, <2>12 DEF LoginRefuse, Answers, Idle, IInv, TypeOK,
           StillTrue, disk, process, memory, handlers, cookies
    <2>13. ASSUME NEW h \in Handlers, NEW p \in Passwords, SetupArrive(h, p) PROVE Replaced
        BY <1>1, <2>13 DEF SetupArrive, Idle, IInv, TypeOK, StillTrue,
           disk, process, memory, handlers, cookies
    <2>14. ASSUME NEW h \in Handlers, SetupLoad(h) PROVE Replaced
        BY <1>1, <2>14 DEF SetupLoad, Goes, IInv, TypeOK, StillTrue,
           disk, process, memory, handlers, cookies
    <2>15. ASSUME NEW h \in Handlers, SetupConflict(h) PROVE Replaced
        BY <1>1, <2>15 DEF SetupConflict, Remember, Answers, Idle,
           IInv, TypeOK, StillTrue, disk, process, memory, handlers,
           cookies
    <2>16. ASSUME NEW h \in Handlers, SetupSave(h) PROVE Replaced
        BY <1>1, <2>16 DEF SetupSave, SaveCredential, Goes, IInv,
           TypeOK, StillTrue, disk, process, memory, handlers, cookies
    <2>17. ASSUME NEW h \in Handlers, SetupFails(h) PROVE Replaced
        BY <1>1, <2>17 DEF SetupFails, SaveFails, Failure,
           SaveCredential, Unlocks, Answers, Idle, IInv, TypeOK,
           StillTrue, disk, process, memory, handlers, cookies
    <2>18. ASSUME NEW h \in Handlers, NEW c \in issued,
               NEW old \in Passwords, NEW new \in Passwords, ChangeArrive(h, c, old, new) PROVE Replaced
        BY <1>1, <2>18 DEF ChangeArrive, Remember, IInv, TypeOK,
           StillTrue, disk, process, memory, handlers, cookies
    <2>19. ASSUME NEW h \in Handlers, ChangeVerify(h) PROVE Replaced
        BY <1>1, <2>19 DEF ChangeVerify, Remember, IInv, TypeOK,
           StillTrue, disk, process, memory, handlers, cookies
    <2>20. ASSUME NEW h \in Handlers, ChangeRefuse(h) PROVE Replaced
        BY <1>1, <2>20 DEF ChangeRefuse, Remember, Answers, Idle,
           IInv, TypeOK, StillTrue, disk, process, memory, handlers,
           cookies
    <2>21. ASSUME NEW h \in Handlers, ChangeRotate(h) PROVE Replaced
        BY <1>1, <2>21 DEF ChangeRotate, Rotate, Goes, IInv, TypeOK,
           StillTrue, disk, process, memory, handlers, cookies
    <2>22. ASSUME NEW h \in Handlers, ChangeSave(h) PROVE Replaced
        BY <1>1, <2>22 DEF ChangeSave, SaveCredential, Goes, IInv,
           TypeOK, StillTrue, disk, process, memory, handlers, cookies
    <2>23. ASSUME NEW h \in Handlers, ChangeReload(h) PROVE Replaced
        BY <1>1, <2>23 DEF ChangeReload, Goes, IInv, TypeOK,
           StillTrue, disk, process, memory, handlers, cookies
    <2>24. ASSUME NEW h \in Handlers, ChangeFails(h) PROVE Replaced
        BY <1>1, <2>24 DEF ChangeFails, RotateFails, SaveFails,
           Failure, Rotate, SaveCredential, Unlocks, Answers, Idle,
           IInv, TypeOK, StillTrue, disk, process, memory, handlers,
           cookies
    <2>25. ASSUME NEW h \in Handlers, Issue(h) PROVE Replaced
        BY <1>1, <2>25 DEF Issue, IssueCookie, Unlocks, Answers, Idle,
           IInv, TypeOK, StillTrue, disk, process, memory, handlers,
           cookies
    <2>26. CASE UNCHANGED vars
        BY <2>26 DEF vars, disk, process, memory, handlers, cookies
    <2>27. QED
        BY <1>1, <2>1, <2>2, <2>3, <2>4, <2>5, <2>6, <2>7, <2>8, <2>9,
           <2>10, <2>11, <2>12, <2>13, <2>14, <2>15, <2>16, <2>17,
           <2>18, <2>19, <2>20, <2>21, <2>22, <2>23, <2>24, <2>25,
           <2>26 DEF Next, Boot, Arrive, Handle
<1>2. QED
    BY <1>1, Invariant, PTL DEF Spec, CredentialChain

=============================================================================
