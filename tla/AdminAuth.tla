----------------------------- MODULE AdminAuth -----------------------------
(***************************************************************************)
(* Who may use the admin plane: the credential and the session key, each   *)
(* in a file of its own, the copy of the key the process signs and checks  *)
(* sessions with, and the requests and the boot that change them: first-run *)
(* setup, login, password change, and the password given at startup.       *)
(*                                                                         *)
(* A credential is the password it verifies, a session key is the number   *)
(* of the rotation that drew it, a cookie is the key it is signed with.     *)
(* A refused request (rate limit, CSRF, a body that does not parse, a      *)
(* password that is too short) changes nothing and is left out; a cookie   *)
(* that has expired is one nobody presents any more.                       *)
(***************************************************************************)
EXTENDS Integers, FiniteSets

CONSTANTS
    Handlers,     \* the requests that may run at the same time
    Passwords,    \* those of at least MinPasswordLen bytes
    None,         \* no password, no credential, no handler
    Provided,     \* what startup may be given: passwords, or None
    MaxRotations, \* bound: session keys drawn
    MaxStarts,    \* bound: starts of the process
    MaxErrors,    \* bound: file operations that fail
    MaxDeletes    \* bound: times the credential file is removed by hand

ASSUME NoneAssumption == None \notin Passwords \cup Handlers

ASSUME ProvidedAssumption == Provided \subseteq Passwords \cup {None}

ASSUME AuthBounds ==
    /\ MaxRotations \in Nat /\ MaxStarts \in Nat
    /\ MaxErrors \in Nat /\ MaxDeletes \in Nat

VARIABLES
    cred,    \* admin/credentials.json: the password it verifies, or None
    keyFile, \* admin/session.key, 0 when missing
    drawn,   \* the session keys drawn so far: the next one is drawn + 1
    proc,    \* "down", where app.Run is in its boot, or "up"
    given,   \* options.adminPassword
    memKey,  \* sessionKey, 0 before admin.New
    found,   \* credentialFound
    setupMu, \* the handler that holds setupMu, or None
    req,     \* the handlers: [pc, typed, seen, new]
    issued,  \* the session cookies in the browsers
    gone,    \* ghost: the cookies a change of the password has signed out
    used     \* how much of each bound is used up

disk == <<cred, keyFile, drawn>>
process == <<proc, given>>
memory == <<memKey, found>>
handlers == <<setupMu, req>>
cookies == <<issued, gone>>
vars == <<disk, process, memory, handlers, cookies, used>>

Idle == [pc |-> "idle", typed |-> None, seen |-> None, new |-> None]

Init ==
    /\ cred = None /\ keyFile = 0 /\ drawn = 0
    /\ proc = "down" /\ given = None
    /\ memKey = 0 /\ found = FALSE
    /\ setupMu = None /\ req = [h \in Handlers |-> Idle]
    /\ issued = {} /\ gone = {}
    /\ used = [starts |-> 0, errors |-> 0, deletes |-> 0]

----------------------------------------------------------------------------
\* Files.

\* rotateSessionKey, when its write succeeds.
Rotate ==
    /\ drawn < MaxRotations
    /\ drawn' = drawn + 1 /\ keyFile' = drawn + 1
    /\ UNCHANGED cred

SaveCredential(p) == cred' = p /\ UNCHANGED <<keyFile, drawn>>

Failure == used.errors < MaxErrors /\ used' = [used EXCEPT !.errors = @ + 1]

\* mutant: a rotation that failed is counted back
RotateUndone ==
    /\ Failure
    /\ drawn' = drawn - 1 /\ keyFile' = keyFile - 1 /\ UNCHANGED cred

\* A write that reports an error was not done, or was done and its directory
\* could not be synced.
RotateFails ==
    /\ Failure
    /\ Rotate \/ UNCHANGED disk

SaveFails(p) ==
    /\ Failure
    /\ SaveCredential(p) \/ UNCHANGED disk

\* loadCredential: a credential that is there is remembered to be.
Remember == found' = (found \/ cred # None) /\ UNCHANGED memKey

----------------------------------------------------------------------------
\* Startup.

Start(p) ==
    /\ proc = "down" /\ used.starts < MaxStarts
    /\ used' = [used EXCEPT !.starts = @ + 1]
    /\ given' = p
    /\ proc' = IF p = None THEN "key" ELSE "configure"
    /\ UNCHANGED <<disk, memory, handlers, cookies>>

\* mutant: the password is replaced under the old key
BootConfigureUnrotated ==
    /\ proc = "configure"
    /\ proc' = IF cred = given THEN "key" ELSE "save"
    /\ UNCHANGED <<disk, given, memory, handlers, cookies, used>>

\* ConfigurePassword: nothing to do when the credential verifies the password.
BootConfigure ==
    /\ proc = "configure"
    /\ proc' = IF cred = given THEN "key" ELSE "rotate"
    /\ UNCHANGED <<disk, given, memory, handlers, cookies, used>>

BootRotate ==
    /\ proc = "rotate" /\ Rotate
    /\ proc' = "save"
    /\ UNCHANGED <<given, memory, handlers, cookies, used>>

BootSave ==
    /\ proc = "save" /\ SaveCredential(given)
    /\ proc' = "key" /\ gone' = issued
    /\ UNCHANGED <<given, memory, handlers, issued, used>>

\* admin.New: LoadOrCreateSessionKey.
BootKey ==
    /\ proc = "key"
    /\ IF keyFile = 0 THEN Rotate ELSE UNCHANGED disk
    /\ memKey' = keyFile' /\ proc' = "up"
    /\ UNCHANGED <<given, found, handlers, cookies, used>>

Ended ==
    /\ proc' = "down" /\ memKey' = 0 /\ found' = FALSE
    /\ setupMu' = None /\ req' = [h \in Handlers |-> Idle]
    /\ UNCHANGED <<given, cookies>>

BootFails ==
    /\ \/ proc = "rotate" /\ RotateFails
       \/ proc = "save" /\ SaveFails(given)
       \/ proc = "key" /\ keyFile = 0 /\ RotateFails
       \/ proc \in {"configure", "key"} /\ Failure /\ UNCHANGED disk
    /\ Ended

\* The process ends, at any point.
Crash ==
    /\ proc # "down"
    /\ Ended
    /\ UNCHANGED <<disk, used>>

\* Someone removes the credential file; loadCredential has a comment on it.
RemoveCredential ==
    /\ cred # None /\ used.deletes < MaxDeletes
    /\ cred' = None /\ used' = [used EXCEPT !.deletes = @ + 1]
    /\ UNCHANGED <<keyFile, drawn, process, memory, handlers, cookies>>

----------------------------------------------------------------------------
\* The gate.

\* authGate: the session key signed the cookie, and there is a credential, or
\* there has been one since the start.
Admits(c) ==
    /\ proc = "up"
    /\ found \/ cred # None
    /\ memKey # 0 /\ c.key = memKey

\* A request for a page the gate protects, or for the setup page.
Look ==
    /\ proc = "up" /\ Remember
    /\ UNCHANGED <<disk, process, handlers, cookies, used>>

Goes(h, pc) == req' = [req EXCEPT ![h].pc = pc]

Answers(h) == req' = [req EXCEPT ![h] = Idle]

Unlocks(h) == setupMu' = None /\ Answers(h)

\* issueAuthCookies: signed with the key of this moment, whatever was in force
\* when the password was verified.
IssueCookie(p) ==
    /\ memKey # 0
    /\ issued' = issued \cup {[key |-> memKey, under |-> p,
                               when |-> IF cred = p THEN "timely" ELSE "late"]}
    /\ UNCHANGED gone

----------------------------------------------------------------------------
\* POST /login, which takes no lock.

LoginLoad(h, p) ==
    /\ proc = "up" /\ req[h].pc = "idle" /\ cred # None
    /\ Remember
    /\ req' = [req EXCEPT ![h] = [Idle EXCEPT !.pc = "login", !.typed = p, !.seen = cred]]
    /\ UNCHANGED <<disk, process, setupMu, cookies, used>>

LoginIssue(h) ==
    /\ req[h].pc = "login" /\ req[h].seen = req[h].typed
    /\ IssueCookie(req[h].typed) /\ Answers(h)
    /\ UNCHANGED <<disk, process, memory, setupMu, used>>

LoginRefuse(h) ==
    /\ req[h].pc = "login" /\ req[h].seen # req[h].typed
    /\ Answers(h)
    /\ UNCHANGED <<disk, process, memory, setupMu, cookies, used>>

----------------------------------------------------------------------------
\* POST /setup, under setupMu from the look at the credential to the answer.

SetupArrive(h, p) ==
    /\ proc = "up" /\ req[h].pc = "idle"
    /\ req' = [req EXCEPT ![h] = [Idle EXCEPT !.pc = "first", !.new = p]]
    /\ UNCHANGED <<disk, process, memory, setupMu, cookies, used>>

\* mutant: the lock is taken for the write only
SetupLoadUnlocked(h) ==
    /\ req[h].pc = "first" /\ cred = None
    /\ setupMu' = h /\ Goes(h, "create")
    /\ UNCHANGED <<disk, process, memory, cookies, used>>

SetupLoad(h) ==
    /\ req[h].pc = "first" /\ setupMu = None /\ cred = None
    /\ setupMu' = h /\ Goes(h, "create")
    /\ UNCHANGED <<disk, process, memory, cookies, used>>

SetupConflict(h) ==
    /\ req[h].pc = "first" /\ setupMu = None /\ cred # None
    /\ Remember /\ Answers(h)
    /\ UNCHANGED <<disk, process, setupMu, cookies, used>>

SetupSave(h) ==
    /\ req[h].pc = "create"
    /\ SaveCredential(req[h].new)
    /\ found' = TRUE /\ UNCHANGED memKey
    /\ Goes(h, "issue")
    /\ UNCHANGED <<process, setupMu, cookies, used>>

SetupFails(h) ==
    /\ req[h].pc = "create"
    /\ SaveFails(req[h].new) /\ Unlocks(h)
    /\ UNCHANGED <<process, memory, cookies>>

----------------------------------------------------------------------------
\* POST /api/admin/password: the gate, then everything under setupMu.

ChangeArrive(h, c, old, new) ==
    /\ req[h].pc = "idle" /\ Admits(c)
    /\ Remember
    /\ req' = [req EXCEPT ![h] =
                 [pc |-> "change", typed |-> old, seen |-> None, new |-> new]]
    /\ UNCHANGED <<disk, process, setupMu, cookies, used>>

ChangeVerify(h) ==
    /\ req[h].pc = "change" /\ setupMu = None
    /\ cred # None /\ cred = req[h].typed
    /\ Remember
    /\ setupMu' = h
    /\ req' = [req EXCEPT ![h] =
                 [pc |-> "rotate", typed |-> req[h].typed, seen |-> cred,
                  new |-> req[h].new]]
    /\ UNCHANGED <<disk, process, cookies, used>>

ChangeRefuse(h) ==
    /\ req[h].pc = "change" /\ setupMu = None
    /\ cred = None \/ cred # req[h].typed
    /\ Remember /\ Answers(h)
    /\ UNCHANGED <<disk, process, setupMu, cookies, used>>

\* mutant: the key is left for the next start to rotate
ChangeUnrotated(h) ==
    /\ req[h].pc = "rotate"
    /\ Goes(h, "save")
    /\ UNCHANGED <<disk, process, memory, setupMu, cookies, used>>

ChangeRotate(h) ==
    /\ req[h].pc = "rotate"
    /\ Rotate /\ Goes(h, "save")
    /\ UNCHANGED <<process, memory, setupMu, cookies, used>>

\* mutant: the new key is never read
ChangeSaveLast(h) ==
    /\ req[h].pc = "save"
    /\ SaveCredential(req[h].new) /\ Goes(h, "issue")
    /\ UNCHANGED <<process, memory, setupMu, cookies, used>>

ChangeSave(h) ==
    /\ req[h].pc = "save"
    /\ SaveCredential(req[h].new) /\ Goes(h, "reload")
    /\ UNCHANGED <<process, memory, setupMu, cookies, used>>

\* mutant: the key that is in memory already is kept
ChangeKeepsKey(h) ==
    /\ req[h].pc = "reload"
    /\ memKey' = (IF memKey # 0 THEN memKey ELSE keyFile) /\ gone' = issued
    /\ Goes(h, "issue")
    /\ UNCHANGED <<disk, process, found, setupMu, issued, used>>

\* reloadSessionKey: from here on the cookies issued so far are not accepted.
ChangeReload(h) ==
    /\ req[h].pc = "reload"
    /\ memKey' = keyFile /\ gone' = issued
    /\ Goes(h, "issue")
    /\ UNCHANGED <<disk, process, found, setupMu, issued, used>>

ChangeFails(h) ==
    /\ \/ req[h].pc = "rotate" /\ RotateFails
       \/ req[h].pc = "save" /\ SaveFails(req[h].new)
       \/ req[h].pc = "reload" /\ Failure /\ UNCHANGED disk
    /\ Unlocks(h)
    /\ UNCHANGED <<process, memory, cookies>>

\* The last step of a setup and of a change.
Issue(h) ==
    /\ req[h].pc = "issue"
    /\ IssueCookie(req[h].new) /\ Unlocks(h)
    /\ UNCHANGED <<disk, process, memory, used>>

----------------------------------------------------------------------------
Handle(h) ==
    \/ LoginIssue(h) \/ LoginRefuse(h)
    \/ SetupLoad(h) \/ SetupConflict(h) \/ SetupSave(h) \/ SetupFails(h)
    \/ ChangeVerify(h) \/ ChangeRefuse(h) \/ ChangeRotate(h) \/ ChangeSave(h)
    \/ ChangeReload(h) \/ ChangeFails(h) \/ Issue(h)

Arrive(h) ==
    \/ \E p \in Passwords : LoginLoad(h, p) \/ SetupArrive(h, p)
    \/ \E c \in issued, old, new \in Passwords : ChangeArrive(h, c, old, new)

Boot == BootConfigure \/ BootRotate \/ BootSave \/ BootKey \/ BootFails

Next ==
    \/ \E p \in Provided : Start(p)
    \/ Boot \/ Crash \/ RemoveCredential \/ Look
    \/ \E h \in Handlers : Arrive(h) \/ Handle(h)

Spec == Init /\ [][Next]_vars

----------------------------------------------------------------------------
\* Properties.

\* The key; ghosts: the password verified, and if it was still in force then.
Cookies == [key : Nat \ {0}, under : Passwords, when : {"timely", "late"}]

\* Issued after the password it was opened under had been replaced.
Late(c) == c.when = "late"

\* Every variable has the type of what it stands for.
TypeOK ==
    /\ cred \in Passwords \cup {None}
    /\ keyFile \in Nat /\ drawn \in Nat /\ memKey \in Nat
    /\ proc \in {"down", "configure", "rotate", "save", "key", "up"}
    /\ given \in Passwords \cup {None}
    /\ found \in BOOLEAN
    /\ setupMu \in Handlers \cup {None}
    /\ req \in [Handlers ->
         [pc : {"idle", "login", "first", "create", "change", "rotate", "save",
                "reload", "issue"},
          typed : Passwords \cup {None}, seen : Passwords \cup {None},
          new : Passwords \cup {None}]]
    /\ issued \subseteq Cookies /\ gone \subseteq issued
    /\ used \in [starts : Nat, errors : Nat, deletes : Nat]

\* A credential that is there gives way only to the change that verified that
\* very password, or to the password startup was given: of two setups the
\* second gets a conflict, and of two changes that both type the password the
\* second is refused (setupMu, api_password.go:25).
CredentialChain ==
    [][cred # None /\ cred' \notin {cred, None} =>
        \/ proc = "save" /\ cred' = given
        \/ \E h \in Handlers :
              req[h].pc = "save" /\ req[h].seen = cred /\ cred' = req[h].new]_vars

\* A cookie issued before a change of the password took effect is never
\* accepted again: not by this process, and not by one that starts from the
\* files later (RotateSessionKey, session.go:47).
SignedOut == \A c \in gone : c.key # memKey /\ c.key # keyFile

\* The key is rotated before the credential is replaced, so that whatever write
\* fails and wherever the process ends, the sessions the next process will
\* accept were opened under the password in force.  A login that verified the
\* password before it changed and got its cookie after is not among them, nor
\* is one of before the credential was removed by hand: setup does not rotate.
RestartSessionsMatch ==
    used.deletes = 0 =>
        \A c \in issued : ~Late(c) /\ c.key = keyFile => c.under = cred

\* So were the sessions this process accepts, once a change is through; but a
\* change that reported an error may have replaced the credential and kept the
\* key it should have retired until the next start.
LiveSessionsMatch ==
    /\ used.deletes = 0 /\ used.errors = 0
    /\ \A h \in Handlers : req[h].pc # "reload"
    => \A c \in issued : ~Late(c) /\ c.key = memKey => c.under = cred

----------------------------------------------------------------------------
\* The inductive invariant behind them.

Holding == {"create", "rotate", "save", "reload", "issue"}

\* One handler at a time is past the lock, and only a process that is up
\* has handlers at all.
LockHeld ==
    /\ \A h \in Handlers : setupMu = h <=> req[h].pc \in Holding
    /\ proc # "up" => setupMu = None /\ \A h \in Handlers : req[h].pc = "idle"

\* Only keys that were drawn are in use.
KeysDrawn ==
    /\ keyFile <= drawn
    /\ IF proc = "up" THEN memKey \in 1..drawn /\ keyFile # 0 ELSE memKey = 0
    /\ \A c \in issued : c.key <= drawn

\* What a handler found under the lock is still so, or the file was removed;
\* and it has the passwords it needs.
StillTrue ==
    \A h \in Handlers :
        /\ req[h].pc = "create" => cred = None
        /\ req[h].pc \in {"rotate", "save"} => cred \in {req[h].seen, None}
        /\ req[h].pc = "login" => req[h].typed # None
        /\ req[h].pc \notin {"idle", "login"} => req[h].new # None

\* Between the rotation and its use no cookie bears the key in the file.
Rotated ==
    /\ \A h \in Handlers : req[h].pc \in {"save", "reload"} =>
           memKey # keyFile /\ \A c \in issued : c.key # keyFile
    /\ proc = "save" => \A c \in issued : c.key # keyFile
    /\ proc \in {"configure", "rotate", "save"} => given # None

\* The conjunction is inductive; each part is what a step of another needs.
IInv ==
    /\ TypeOK /\ LockHeld /\ KeysDrawn /\ StillTrue /\ Rotated
    /\ SignedOut /\ RestartSessionsMatch /\ LiveSessionsMatch

=============================================================================
