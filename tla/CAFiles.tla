------------------------------ MODULE CAFiles ------------------------------
(***************************************************************************)
(* The certificate files below the state directory: the local CA, which a  *)
(* start, the admin API and the create-ca command may all create, and the  *)
(* static pair that an upload replaces.                                    *)
(*                                                                         *)
(* A file is absent, torn (created, its contents not all written) or whole.*)
(* The contents of a CA file are the number of the CA, those of a file of  *)
(* the static pair the pair it was uploaded with.  No file of the CA is    *)
(* locked: the key is created exclusively, and that alone decides who      *)
(* creates the CA.                                                         *)
(***************************************************************************)
EXTENDS Naturals, FiniteSets

CONSTANTS
    Handlers,   \* the requests to POST /api/ca/generate that may run at once
    Commands,   \* the create-ca commands that may run with -dir at the same directory
    Uploads,    \* the requests to POST /api/tls/upload that may run at once
    Pairs,      \* the certificate pairs uploaded under one name
    NoPair,     \* no pair
    Starts,     \* the configurations a start may find: what TLS needs of the files
    MaxCAs,     \* bound: CAs generated
    MaxCuts,    \* bound: processes killed
    MaxErrors   \* bound: failures of the file system

Kinds == {"disabled", "static", "local-ca", "own-ca", "own-ca-gone"}

ASSUME CAFilesAssumption ==
    /\ Handlers \cap Commands = {} /\ "boot" \notin Handlers \cup Commands
    /\ NoPair \notin Pairs
    /\ Starts \subseteq Kinds
    /\ MaxCAs \in Nat /\ MaxCuts \in Nat /\ MaxErrors \in Nat

Creators == Handlers \cup Commands \cup {"boot"}

VARIABLES
    proc,      \* the responder: "down", "starting", "up", or "failed" to start
    kind,      \* its configuration
    caCert,    \* ca.cert.pem
    caKey,     \* ca.key.pem
    job,       \* what each creator of a CA does, and the number of its CA
    serving,   \* the CA in the memory of the responder, 0 for none
    pair,      \* the certificate and the key of the static pair
    upload,    \* what each upload does
    used,      \* how much of each bound is used up
    told,      \* ghost: the CAs that an answer, a command or a start has named
    undone,    \* ghost: the CAs whose creation has failed after others saw the
               \* certificate, or has left it behind
    excused,   \* ghost: a creation has failed, was cut off or disturbed since the
               \* last start that read the CA
    settled    \* ghost: the pair of an upload that ran alone, until the next begins

ca == <<caCert, caKey>>
static == <<pair, upload, settled>>
vars == <<proc, kind, ca, job, serving, static, used, told, undone, excused>>

Absent == [is |-> "absent", of |-> 0]
Torn(n) == [is |-> "torn", of |-> n]
Whole(n) == [is |-> "whole", of |-> n]

Idle == [pc |-> "idle", id |-> 0]

Use(cas, cuts, errors) ==
    [cas |-> used.cas + cas, cuts |-> used.cuts + cuts, errors |-> used.errors + errors]

NoUpload == [pc |-> "idle", of |-> NoPair, alone |-> FALSE]

Init ==
    /\ proc = "down" /\ kind = "disabled" /\ serving = 0
    /\ caCert = Absent /\ caKey = Absent
    /\ job = [w \in Creators |-> Idle]
    /\ pair = [cert |-> NoPair, key |-> NoPair]
    /\ upload = [u \in Uploads |-> NoUpload]
    /\ used = [cas |-> 0, cuts |-> 0, errors |-> 0]
    /\ told = {} /\ undone = {} /\ excused = FALSE /\ settled = NoPair

-----------------------------------------------------------------------------
(* CreateCA *)

\* Where a creator goes when CreateCA has returned: a handler reads the file, a
\* start loads the pair or fails, and the command prints the paths or an error.
Goto(w, pc, id) == job' = [job EXCEPT ![w] = [pc |-> pc, id |-> id]]

Created(w) ==
    /\ Goto(w, IF w = "boot" THEN "load" ELSE IF w \in Commands THEN "idle" ELSE "read", 0)
    /\ told' = IF w \in Commands THEN told \cup {job[w].id} ELSE told
    /\ UNCHANGED proc

Refused(w) ==
    /\ Goto(w, "idle", 0)
    /\ proc' = IF w = "boot" THEN "failed" ELSE proc
    /\ UNCHANGED told

\* n operations of the file system fail.
Errs(n) == used.errors + n <= MaxErrors /\ used' = Use(0, 0, n)

rest == <<kind, serving, static>>

\* CreateCA refuses if either file is there ...
LstatCert(w) ==
    /\ job[w].pc = "lstatcert"
    /\ IF caCert # Absent THEN Refused(w)
       ELSE Goto(w, "lstatkey", 0) /\ UNCHANGED <<proc, told>>
    /\ UNCHANGED <<ca, used, undone, excused, rest>>

\* ... and generates the CA otherwise.
LstatKey(w) ==
    /\ job[w].pc = "lstatkey"
    /\ IF caKey # Absent THEN Refused(w) /\ UNCHANGED used
       ELSE /\ used.cas < MaxCAs /\ used' = Use(1, 0, 0)
            /\ Goto(w, "keyopen", used.cas + 1) /\ UNCHANGED <<proc, told>>
    /\ UNCHANGED <<ca, undone, excused, rest>>

\* mutant: the key is created, or truncated, without O_EXCL
KeyFreeAlways == TRUE

KeyFree == caKey = Absent

\* writeExclusiveFile of the key: open, ...
KeyOpen(w) ==
    /\ job[w].pc = "keyopen"
    /\ IF KeyFree
       THEN /\ caKey' = Torn(job[w].id)
            /\ Goto(w, "keywrite", job[w].id) /\ UNCHANGED <<proc, told>>
       ELSE Refused(w) /\ UNCHANGED caKey
    /\ UNCHANGED <<caCert, used, undone, excused, rest>>

\* ... write, chmod and close, or remove it, which may fail as well.  Nobody reads a
\* key without a certificate, so that these are one step.
KeyWrite(w) ==
    /\ job[w].pc = "keywrite"
    /\ \/ /\ caKey' = Whole(job[w].id)
          /\ Goto(w, "certopen", job[w].id)
          /\ UNCHANGED <<proc, told, used, excused>>
       \/ /\ \/ Errs(1) /\ caKey' = Absent
             \/ Errs(2) /\ caKey' = Torn(job[w].id)
          /\ Refused(w) /\ excused' = TRUE
    /\ UNCHANGED <<caCert, undone, rest>>

\* writeExclusiveFile of the certificate: open, ...
CertOpen(w) ==
    /\ job[w].pc = "certopen"
    /\ \/ /\ caCert = Absent /\ caCert' = Torn(job[w].id)
          /\ Goto(w, "certwrite", job[w].id) /\ UNCHANGED used
       \/ /\ Goto(w, "undo", job[w].id) /\ UNCHANGED caCert
          /\ \/ caCert # Absent /\ UNCHANGED used
             \/ Errs(1)
    /\ UNCHANGED <<caKey, proc, told, undone, excused, rest>>

\* What could not be written whole is removed; if that fails too, it stays.
Remove == (Errs(1) /\ caCert' = Absent) \/ (Errs(2) /\ UNCHANGED caCert)

\* ... write, after which others can read it, ...
CertWrite(w) ==
    /\ job[w].pc = "certwrite"
    /\ \/ /\ caCert' = Whole(job[w].id)
          /\ Goto(w, "certclose", job[w].id) /\ UNCHANGED <<used, undone>>
       \/ /\ Remove /\ Goto(w, "undo", job[w].id)
          /\ undone' = IF caCert' = Absent THEN undone ELSE undone \cup {job[w].id}
    /\ UNCHANGED <<caKey, proc, told, excused, rest>>

\* ... and chmod and close.
CertClose(w) ==
    /\ job[w].pc = "certclose"
    /\ \/ Created(w) /\ UNCHANGED <<caCert, used, undone>>
       \/ /\ Remove /\ Goto(w, "undo", job[w].id)
          /\ undone' = undone \cup {job[w].id} /\ UNCHANGED <<proc, told>>
    /\ UNCHANGED <<caKey, excused, rest>>

\* Without its certificate the key is removed, if that succeeds.
Undo(w) ==
    /\ job[w].pc = "undo"
    /\ \/ caKey' = Absent /\ UNCHANGED used
       \/ Errs(1) /\ UNCHANGED caKey
    /\ Refused(w) /\ excused' = TRUE
    /\ UNCHANGED <<caCert, undone, rest>>

CreateCA(w) ==
    \/ LstatCert(w) \/ LstatKey(w) \/ KeyOpen(w) \/ KeyWrite(w)
    \/ CertOpen(w) \/ CertWrite(w) \/ CertClose(w) \/ Undo(w)

-----------------------------------------------------------------------------
(* Who creates a CA *)

\* mutant: whatever is in the file has a fingerprint
ReadableTorn(file) == file # Absent

\* firstCertificate, and LoadX509KeyPair: a certificate that is cut short is none.
Readable(file) == file.is = "whole"

\* POST /api/ca/generate looks for the certificate only ...
GenerateCA(h) ==
    /\ proc = "up" /\ job[h] = Idle
    /\ Goto(h, IF caCert = Absent THEN "lstatcert" ELSE "read", 0)
    /\ UNCHANGED <<proc, ca, used, told, undone, excused, rest>>

\* ... and answers with the fingerprint of what it reads, or an error.
ReadCA(h) ==
    /\ h \in Handlers /\ job[h].pc = "read"
    /\ Goto(h, "idle", 0)
    /\ told' = IF Readable(caCert) THEN told \cup {caCert.of} ELSE told
    /\ UNCHANGED <<proc, ca, used, undone, excused, rest>>

\* GET /api/ca/download of the generated CA: a torn file is an error.
DownloadCA ==
    /\ proc = "up" /\ kind \notin {"own-ca", "own-ca-gone"}
    /\ Readable(caCert)
    /\ told' = told \cup {caCert.of}
    /\ UNCHANGED <<proc, ca, job, used, undone, excused, rest>>

\* create-ca, in a process of its own.
RunCreateCA(c) ==
    /\ job[c] = Idle /\ used.cas < MaxCAs
    /\ Goto(c, "lstatcert", 0)
    /\ excused' = (excused \/ proc = "starting")
    /\ UNCHANGED <<proc, ca, used, told, undone, rest>>

-----------------------------------------------------------------------------
(* A start *)

\* A configuration that needs the local CA looks for its two files.
Start(k) ==
    /\ proc \in {"down", "failed"}
    /\ kind' = k /\ serving' = 0
    /\ \/ /\ k = "disabled" /\ proc' = "up"
          /\ UNCHANGED <<job, excused>>
       \/ /\ k = "static" /\ UNCHANGED <<job, excused>>
          /\ proc' = IF pair.cert = pair.key /\ pair.cert # NoPair THEN "up" ELSE "failed"
       \/ /\ k \in {"local-ca", "own-ca", "own-ca-gone"} /\ proc' = "starting"
          /\ Goto("boot", "statcert", 0)
          /\ excused' = (excused \/ \E c \in Commands : job[c] # Idle)
    /\ UNCHANGED <<ca, static, used, told, undone>>

\* mutant: the CA is created by every start
MissingAlways(file) == TRUE

Missing(file) ==
    \/ kind = "local-ca" /\ file = Absent
    \/ kind = "own-ca-gone"

\* caFileMissing; whichever files are missing, CreateCA creates those of the
\* state directory.
StatCert ==
    /\ job["boot"].pc = "statcert"
    /\ Goto("boot", IF Missing(caCert) THEN "lstatcert" ELSE "statkey", 0)
    /\ UNCHANGED <<proc, ca, used, told, undone, excused, rest>>

StatKey ==
    /\ job["boot"].pc = "statkey"
    /\ Goto("boot", IF Missing(caKey) THEN "lstatcert" ELSE "load", 0)
    /\ UNCHANGED <<proc, ca, used, told, undone, excused, rest>>

\* loadLocalCA of the paths that the configuration resolves to.
LoadCA ==
    /\ job["boot"].pc = "load"
    /\ Goto("boot", "idle", 0)
    /\ \/ /\ kind = "local-ca" /\ Readable(caCert) /\ caKey = caCert
          /\ proc' = "up" /\ serving' = caCert.of
          /\ told' = told \cup {caCert.of} /\ excused' = FALSE
       \/ /\ kind = "local-ca" /\ ~(Readable(caCert) /\ caKey = caCert)
          /\ proc' = "failed" /\ UNCHANGED <<serving, told, excused>>
       \/ /\ kind = "own-ca" /\ proc' = "up" /\ UNCHANGED <<serving, told, excused>>
       \/ /\ kind = "own-ca-gone" /\ proc' = "failed"
          /\ UNCHANGED <<serving, told, excused>>
    /\ UNCHANGED <<kind, ca, static, used, undone>>

\* A call to the file system fails before anything is written, or while it is read.
CallFails(w) ==
    /\ job[w].pc \in {"lstatcert", "lstatkey", "keyopen", "read", "statcert", "statkey", "load"}
    /\ Errs(1) /\ Refused(w)
    /\ excused' = (excused \/ w = "boot")
    /\ UNCHANGED <<ca, undone, rest>>

Creating(w) == job[w].pc \notin {"idle", "read", "statcert", "statkey", "load"}

\* The responder ends, with its handlers wherever they are: it is killed, or told
\* to stop.
Ends ==
    /\ proc \in {"starting", "up"}
    /\ LET busy == (\E w \in Handlers \cup {"boot"} : job[w] # Idle)
                       \/ \E u \in Uploads : upload[u] # NoUpload
       IN  /\ busy => used.cuts < MaxCuts
           /\ used' = IF busy THEN Use(0, 1, 0) ELSE used
    /\ proc' = "down" /\ serving' = 0
    /\ job' = [w \in Creators |-> IF w \in Commands THEN job[w] ELSE Idle]
    /\ upload' = [u \in Uploads |-> NoUpload]
    /\ excused' = (excused \/ \E w \in Handlers \cup {"boot"} : Creating(w))
    /\ UNCHANGED <<kind, ca, pair, settled, told, undone>>

\* The command is killed.
CommandEnds(c) ==
    /\ job[c] # Idle
    /\ used.cuts < MaxCuts /\ used' = Use(0, 1, 0)
    /\ Goto(c, "idle", 0) /\ excused' = TRUE
    /\ UNCHANGED <<proc, ca, told, undone, rest>>

-----------------------------------------------------------------------------
(* The static pair *)

\* mutant: certificate and key are not compared
AnyPair(cert, key) == TRUE

\* tls.X509KeyPair
PairMatches(cert, key) == cert = key

others == <<proc, kind, ca, job, serving, told, undone, excused>>

\* POST /api/tls/upload of a pair whose first host names the same files.
UploadBegins(u, cert, key) ==
    /\ proc = "up" /\ upload[u] = NoUpload
    /\ PairMatches(cert, key)
    /\ LET quiet == \A v \in Uploads : upload[v] = NoUpload IN
       upload' = [v \in Uploads |->
           IF v = u THEN [pc |-> "cert", of |-> [cert |-> cert, key |-> key],
                          alone |-> quiet]
           ELSE IF upload[v] = NoUpload THEN NoUpload
           ELSE [pc |-> upload[v].pc, of |-> upload[v].of, alone |-> FALSE]]
    /\ settled' = NoPair
    /\ UNCHANGED <<pair, used, others>>

\* WriteAtomic of the certificate, then of the key; each may fail before or after
\* its rename, and ends the upload if it does.
UploadWrites(u) ==
    /\ upload[u].pc \in {"cert", "key"}
    /\ LET file == upload[u].pc
           new == [pair EXCEPT ![file] = upload[u].of[file]]
       IN
       \/ /\ pair' = new /\ UNCHANGED used
          /\ upload' = [upload EXCEPT ![u] =
                 IF file = "cert"
                 THEN [pc |-> "key", of |-> upload[u].of, alone |-> upload[u].alone]
                 ELSE NoUpload]
          /\ settled' = IF file = "key" /\ upload[u].alone
                        THEN upload[u].of.cert ELSE settled
       \/ /\ Errs(1) /\ pair' \in {pair, new}
          /\ upload' = [upload EXCEPT ![u] = NoUpload] /\ UNCHANGED settled
    /\ UNCHANGED others

-----------------------------------------------------------------------------

Next ==
    \/ \E w \in Creators : CreateCA(w) \/ CallFails(w)
    \/ \E h \in Handlers : GenerateCA(h) \/ ReadCA(h)
    \/ \E c \in Commands : RunCreateCA(c) \/ CommandEnds(c)
    \/ DownloadCA
    \/ \E k \in Starts : Start(k)
    \/ StatCert \/ StatKey \/ LoadCA \/ Ends
    \/ \E u \in Uploads : UploadWrites(u)
           \/ \E cert, key \in Pairs : UploadBegins(u, cert, key)

Spec == Init /\ [][Next]_vars

-----------------------------------------------------------------------------
(* Properties *)

File == [is : {"absent", "torn", "whole"}, of : Nat]
Pcs == {"idle", "read", "statcert", "statkey", "load", "lstatcert", "lstatkey", "keyopen",
        "keywrite", "certopen", "certwrite", "certclose", "undo"}
Job == [pc : Pcs, id : Nat]
Counts == [cas : Nat, cuts : Nat, errors : Nat]
StaticPair == [cert : Pairs \cup {NoPair}, key : Pairs \cup {NoPair}]
Upload == [pc : {"idle", "cert", "key"}, alone : BOOLEAN,
           of : {NoPair} \cup [cert : Pairs, key : Pairs]]

TypeOK ==
    /\ proc \in {"down", "starting", "up", "failed"} /\ kind \in Kinds
    /\ caCert \in File /\ caKey \in File
    /\ job \in [Creators -> Job] /\ serving \in Nat
    /\ told \subseteq Nat /\ undone \subseteq Nat /\ excused \in BOOLEAN
    /\ used \in Counts
    /\ settled \in Pairs \cup {NoPair} /\ pair \in StaticPair
    /\ upload \in [Uploads -> Upload]

\* However starts, requests, the command, failures and crashes interleave, a
\* certificate has its own key beside it, unless its creator has failed and could
\* not remove it either: CreateCA then removes the key alone.
CertHasKey == caCert # Absent => caKey = Whole(caCert.of) \/ caCert.of \in undone

\* A CA that an answer, a download, the command or a start has named stays the one
\* on disk for good, unless the very creation that made it visible then failed.
OneCa == \A n \in told \ undone : caCert = Whole(n) /\ caKey = Whole(n)

\* A start that is to use the generated CA fails only when a creation of it was cut
\* off, has failed or ran at the same time since the last start that read the CA, or
\* when it cannot read the files itself.
StartExplained == proc = "failed" /\ kind = "local-ca" => excused

\* An upload that ran alone and whole leaves its own certificate with its own key,
\* until the next upload begins.
PairSettled == settled # NoPair => pair = [cert |-> settled, key |-> settled]


-----------------------------------------------------------------------------
(* The inductive invariant behind them *)

Writing == {"keywrite", "certopen", "certwrite", "certclose", "undo"}

\* The numbers of the CAs being created have been given out, each once.
OwnIds ==
    \A v, w \in Creators :
        /\ job[w].pc \in Writing \cup {"keyopen"} => job[w].id \in 1..used.cas
        /\ v # w /\ {job[v].pc, job[w].pc} \subseteq Writing \cup {"keyopen"}
               => job[v].id # job[w].id

\* No certificate, or one that its creator has left behind.
NoneTold == caCert = Absent \/ caCert.of \in undone

\* Whoever has created the key is alone in writing either file.
FilesFollow ==
    \A w \in Creators :
        /\ job[w].pc = "keywrite" => caKey = Torn(job[w].id) /\ NoneTold
        /\ job[w].pc \in {"certopen", "undo"} => caKey = Whole(job[w].id) /\ NoneTold
        /\ job[w].pc = "certwrite" =>
               caKey = Whole(job[w].id) /\ caCert = Torn(job[w].id)
        /\ job[w].pc = "certclose" =>
               caKey = Whole(job[w].id) /\ caCert = Whole(job[w].id)

\* The handlers and the start run in the responder.
Within ==
    /\ \A h \in Handlers : proc # "up" => job[h] = Idle
    /\ proc = "starting" <=> job["boot"].pc # "idle"
    /\ \A w \in Creators : job[w].pc \in {"statcert", "statkey", "load"} => w = "boot"
    /\ proc = "starting" => kind \in {"local-ca", "own-ca", "own-ca-gone"}

Together == Readable(caCert) /\ caKey = caCert

\* Unless a creation was cut off, has failed or was disturbed, the two files are
\* there together whenever nobody writes them, and a start that may create them
\* is alone and on its way to find or make them.
Undisturbed ==
    ~excused =>
        /\ \/ \E w \in Creators : job[w].pc \in Writing
           \/ caCert = Absent /\ caKey = Absent
           \/ Together
        /\ proc = "starting" => \A c \in Commands : job[c] = Idle
        /\ kind = "local-ca" =>
               /\ job["boot"].pc \in {"lstatcert", "lstatkey", "keyopen"} =>
                      caCert = Absent /\ caKey = Absent
               /\ job["boot"].pc \in {"statkey", "load"} => Together

\* An upload that is alone has the files to itself.
AloneWrites ==
    /\ \A u \in Uploads : upload[u].pc # "idle" =>
           /\ upload[u].of \in [cert : Pairs, key : Pairs]
           /\ upload[u].of.cert = upload[u].of.key
           /\ settled = NoPair
           /\ upload[u].alone => \A v \in Uploads \ {u} : upload[v].pc = "idle"
           /\ upload[u].pc = "key" /\ upload[u].alone => pair.cert = upload[u].of.cert

IInv ==
    /\ TypeOK /\ OwnIds /\ FilesFollow /\ Within /\ Undisturbed /\ AloneWrites
    /\ CertHasKey /\ OneCa /\ StartExplained /\ PairSettled

=============================================================================
