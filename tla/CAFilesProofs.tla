---------------------------- MODULE CAFilesProofs ----------------------------
(***************************************************************************)
(* The local CA and the static pair, for any number of handlers, commands, *)
(* uploads, CAs, crashes and failures: IInv is inductive, and with it every *)
(* safety property of CAFiles holds of Spec.  One lemma per action shows   *)
(* that it keeps each part of IInv; the first ones are about the types.    *)
(***************************************************************************)
EXTENDS CAFiles, TLAPS

LEMMA Typed ==
    ASSUME TypeOK
    PROVE  /\ Absent \in File
           /\ \A w \in Creators : /\ job[w].pc \in Pcs /\ job[w].id \in Nat
                                  /\ Torn(job[w].id) \in File /\ Whole(job[w].id) \in File
           /\ used.cas + 1 \in Nat
           /\ {Use(1, 0, 0), Use(0, 1, 0), Use(0, 0, 1), Use(0, 0, 2)} \subseteq Counts
<1>1. Absent \in File
  BY DEF Absent, File
<1>2. ASSUME NEW w \in Creators
      PROVE  /\ job[w].pc \in Pcs /\ job[w].id \in Nat
             /\ Torn(job[w].id) \in File /\ Whole(job[w].id) \in File
  BY DEF TypeOK, Job, Torn, Whole, File
<1>3. used \in Counts
  BY DEF TypeOK
<1>4. used.cas + 1 \in Nat /\ {Use(1, 0, 0), Use(0, 1, 0), Use(0, 0, 1), Use(0, 0, 2)} \subseteq Counts
  BY <1>3 DEF Counts, Use
<1> QED BY <1>1, <1>2, <1>4

\* Nobody writes a file beside whoever has created the key.
LEMMA OneWriter ==
    ASSUME IInv, NEW v \in Creators, NEW w \in Creators,
           {job[v].pc, job[w].pc} \subseteq Writing
    PROVE  v = w
<1>1. caKey.of = job[v].id /\ caKey.of = job[w].id
  BY DEF IInv, FilesFollow, NoneTold, Writing, Torn, Whole
<1> QED BY <1>1 DEF IInv, OwnIds

LEMMA GotoTyped ==
    ASSUME TypeOK, NEW w, NEW pc \in Pcs, NEW id \in Nat, Goto(w, pc, id)
    PROVE  job' \in [Creators -> Job]
  BY DEF TypeOK, Goto, Job

LEMMA LstatCertTyped ==
    ASSUME TypeOK, NEW w \in Creators, LstatCert(w)
    PROVE  TypeOK'
<1>1. job' \in [Creators -> Job]
  BY Typed, GotoTyped DEF TypeOK, Pcs, LstatCert, ca, rest, Refused
<1>2. caCert' \in File /\ caKey' \in File
  BY Typed DEF TypeOK, LstatCert, ca, rest, Refused
<1>3. used' \in Counts
  BY Typed DEF TypeOK, LstatCert, ca, rest, Refused
<1>4. /\ proc' \in {"down", "starting", "up", "failed"} /\ told' \subseteq Nat
      /\ undone' \subseteq Nat /\ excused' \in BOOLEAN
  BY Typed DEF TypeOK, LstatCert, ca, rest, Refused
<1>5. kind' = kind /\ serving' = serving /\ UNCHANGED static
  BY DEF LstatCert, ca, rest, Refused
<1> QED BY <1>1, <1>2, <1>3, <1>4, <1>5 DEF TypeOK, static


LEMMA LstatKeyTyped ==
    ASSUME TypeOK, NEW w \in Creators, LstatKey(w)
    PROVE  TypeOK'
<1>1. job' \in [Creators -> Job]
  BY Typed, GotoTyped DEF TypeOK, Pcs, LstatKey, ca, rest, Refused
<1>2. caCert' \in File /\ caKey' \in File
  BY Typed DEF TypeOK, LstatKey, ca, rest, Refused
<1>3. used' \in Counts
  BY Typed DEF TypeOK, LstatKey, ca, rest, Refused
<1>4. /\ proc' \in {"down", "starting", "up", "failed"} /\ told' \subseteq Nat
      /\ undone' \subseteq Nat /\ excused' \in BOOLEAN
  BY Typed DEF TypeOK, LstatKey, ca, rest, Refused
<1>5. kind' = kind /\ serving' = serving /\ UNCHANGED static
  BY DEF LstatKey, ca, rest, Refused
<1> QED BY <1>1, <1>2, <1>3, <1>4, <1>5 DEF TypeOK, static


LEMMA KeyOpenTyped ==
    ASSUME TypeOK, NEW w \in Creators, KeyOpen(w)
    PROVE  TypeOK'
<1>1. job' \in [Creators -> Job]
  BY Typed, GotoTyped DEF TypeOK, Pcs, KeyOpen, rest, Refused
<1>2. caCert' \in File /\ caKey' \in File
  BY Typed DEF TypeOK, KeyOpen, rest, Refused
<1>3. used' \in Counts
  BY Typed DEF TypeOK, KeyOpen, rest, Refused
<1>4. /\ proc' \in {"down", "starting", "up", "failed"} /\ told' \subseteq Nat
      /\ undone' \subseteq Nat /\ excused' \in BOOLEAN
  BY Typed DEF TypeOK, KeyOpen, rest, Refused
<1>5. kind' = kind /\ serving' = serving /\ UNCHANGED static
  BY DEF KeyOpen, rest, Refused
<1> QED BY <1>1, <1>2, <1>3, <1>4, <1>5 DEF TypeOK, static


LEMMA KeyWriteTyped ==
    ASSUME TypeOK, NEW w \in Creators, KeyWrite(w)
    PROVE  TypeOK'
<1>1. job' \in [Creators -> Job]
  BY Typed, GotoTyped DEF TypeOK, Pcs, KeyWrite, rest, Errs, Refused
<1>2. caCert' \in File /\ caKey' \in File
  BY Typed DEF TypeOK, KeyWrite, rest, Errs, Refused
<1>3. used' \in Counts
  BY Typed DEF TypeOK, KeyWrite, rest, Errs, Refused
<1>4. /\ proc' \in {"down", "starting", "up", "failed"} /\ told' \subseteq Nat
      /\ undone' \subseteq Nat /\ excused' \in BOOLEAN
  BY Typed DEF TypeOK, KeyWrite, rest, Errs, Refused
<1>5. kind' = kind /\ serving' = serving /\ UNCHANGED static
  BY DEF KeyWrite, rest, Errs, Refused
<1> QED BY <1>1, <1>2, <1>3, <1>4, <1>5 DEF TypeOK, static


LEMMA CertOpenTyped ==
    ASSUME TypeOK, NEW w \in Creators, CertOpen(w)
    PROVE  TypeOK'
<1>1. job' \in [Creators -> Job]
  BY Typed, GotoTyped DEF TypeOK, Pcs, CertOpen, rest, Errs
<1>2. caCert' \in File /\ caKey' \in File
  BY Typed DEF TypeOK, CertOpen, rest, Errs
<1>3. used' \in Counts
  BY Typed DEF TypeOK, CertOpen, rest, Errs
<1>4. /\ proc' \in {"down", "starting", "up", "failed"} /\ told' \subseteq Nat
      /\ undone' \subseteq Nat /\ excused' \in BOOLEAN
  BY Typed DEF TypeOK, CertOpen, rest, Errs
<1>5. kind' = kind /\ serving' = serving /\ UNCHANGED static
  BY DEF CertOpen, rest, Errs
<1> QED BY <1>1, <1>2, <1>3, <1>4, <1>5 DEF TypeOK, static


LEMMA CertWriteTyped ==
    ASSUME TypeOK, NEW w \in Creators, CertWrite(w)
    PROVE  TypeOK'
<1>1. job' \in [Creators -> Job]
  BY Typed, GotoTyped DEF TypeOK, Pcs, CertWrite, rest, Errs, Remove
<1>2. caCert' \in File /\ caKey' \in File
  BY Typed DEF TypeOK, CertWrite, rest, Errs, Remove
<1>3. used' \in Counts
  BY Typed DEF TypeOK, CertWrite, rest, Errs, Remove
<1>4. /\ proc' \in {"down", "starting", "up", "failed"} /\ told' \subseteq Nat
      /\ undone' \subseteq Nat /\ excused' \in BOOLEAN
  BY Typed DEF TypeOK, CertWrite, rest, Errs, Remove
<1>5. kind' = kind /\ serving' = serving /\ UNCHANGED static
  BY DEF CertWrite, rest, Errs, Remove
<1> QED BY <1>1, <1>2, <1>3, <1>4, <1>5 DEF TypeOK, static


LEMMA CertCloseTyped ==
    ASSUME TypeOK, NEW w \in Creators, CertClose(w)
    PROVE  TypeOK'
<1>1. job' \in [Creators -> Job]
  BY Typed, GotoTyped DEF TypeOK, Pcs, CertClose, rest, Errs, Remove, Created
<1>2. caCert' \in File /\ caKey' \in File
  BY Typed DEF TypeOK, CertClose, rest, Errs, Remove, Created
<1>3. used' \in Counts
  BY Typed DEF TypeOK, CertClose, rest, Errs, Remove, Created
<1>4. /\ proc' \in {"down", "starting", "up", "failed"} /\ told' \subseteq Nat
      /\ undone' \subseteq Nat /\ excused' \in BOOLEAN
  BY Typed DEF TypeOK, CertClose, rest, Errs, Remove, Created
<1>5. kind' = kind /\ serving' = serving /\ UNCHANGED static
  BY DEF CertClose, rest, Errs, Remove, Created
<1> QED BY <1>1, <1>2, <1>3, <1>4, <1>5 DEF TypeOK, static


LEMMA UndoTyped ==
    ASSUME TypeOK, NEW w \in Creators, Undo(w)
    PROVE  TypeOK'
<1>1. job' \in [Creators -> Job]
  BY Typed, GotoTyped DEF TypeOK, Pcs, Undo, rest, Errs, Refused
<1>2. caCert' \in File /\ caKey' \in File
  BY Typed DEF TypeOK, Undo, rest, Errs, Refused
<1>3. used' \in Counts
  BY Typed DEF TypeOK, Undo, rest, Errs, Refused
<1>4. /\ proc' \in {"down", "starting", "up", "failed"} /\ told' \subseteq Nat
      /\ undone' \subseteq Nat /\ excused' \in BOOLEAN
  BY Typed DEF TypeOK, Undo, rest, Errs, Refused
<1>5. kind' = kind /\ serving' = serving /\ UNCHANGED static
  BY DEF Undo, rest, Errs, Refused
<1> QED BY <1>1, <1>2, <1>3, <1>4, <1>5 DEF TypeOK, static


LEMMA LstatCertStep ==
    ASSUME IInv, NEW w \in Creators, LstatCert(w)
    PROVE  IInv'
<1> USE CAFilesAssumption DEF LstatCert, Creators, Absent, Torn, Whole, Idle,
        NoUpload, Goto, ca, static, rest, Use, Refused, Created, Errs, KeyFree
<1>1. TypeOK'
  BY LstatCertTyped DEF IInv
<1>2. OwnIds'
  BY DEF IInv, OwnIds, Writing, TypeOK, File, Job, Pcs, Counts, Upload, StaticPair,
     Kinds
<1>3. FilesFollow'
  BY DEF IInv, FilesFollow, NoneTold, TypeOK, File, Job, Pcs, Counts, Upload, StaticPair, Kinds
<1>4. Within'
  BY DEF IInv, Within, TypeOK, File, Job, Pcs, Counts, Upload, StaticPair, Kinds
<1>5. Undisturbed'
  BY DEF IInv, Undisturbed, Together, Writing, Readable, TypeOK, File, Job, Pcs,
     Counts, Upload, StaticPair, Kinds
<1>6. AloneWrites'
  BY DEF IInv, AloneWrites
<1>7. CertHasKey'
  BY DEF IInv, CertHasKey
<1>8. OneCa'
  BY DEF IInv, OneCa
<1>9. StartExplained'
  BY DEF IInv, StartExplained, Undisturbed, Together, Writing, Readable, Within,
     TypeOK, File, Job, Pcs, Counts, Upload, StaticPair, Kinds
<1>10. PairSettled'
  BY DEF IInv, PairSettled
<1> QED BY <1>1, <1>2, <1>3, <1>4, <1>5, <1>6, <1>7, <1>8, <1>9, <1>10 DEF IInv

LEMMA LstatKeyStep ==
    ASSUME IInv, NEW w \in Creators, LstatKey(w)
    PROVE  IInv'
<1> USE CAFilesAssumption DEF LstatKey, Creators, Absent, Torn, Whole, Idle,
        NoUpload, Goto, ca, static, rest, Use, Refused, Created, Errs, KeyFree
<1>1. TypeOK'
  BY LstatKeyTyped DEF IInv
<1>2. OwnIds'
  BY DEF IInv, OwnIds, Writing, TypeOK, File, Job, Pcs, Counts, Upload, StaticPair,
     Kinds
<1>3. FilesFollow'
  BY DEF IInv, FilesFollow, NoneTold, TypeOK, File, Job, Pcs, Counts, Upload, StaticPair, Kinds
<1>4. Within'
  BY DEF IInv, Within, TypeOK, File, Job, Pcs, Counts, Upload, StaticPair, Kinds
<1>5. Undisturbed'
  BY DEF IInv, Undisturbed, Together, Writing, Readable, TypeOK, File, Job, Pcs,
     Counts, Upload, StaticPair, Kinds
<1>6. AloneWrites'
  BY DEF IInv, AloneWrites
<1>7. CertHasKey'
  BY DEF IInv, CertHasKey
<1>8. OneCa'
  BY DEF IInv, OneCa
<1>9. StartExplained'
  BY DEF IInv, StartExplained, Undisturbed, Together, Writing, Readable, Within,
     TypeOK, File, Job, Pcs, Counts, Upload, StaticPair, Kinds
<1>10. PairSettled'
  BY DEF IInv, PairSettled
<1> QED BY <1>1, <1>2, <1>3, <1>4, <1>5, <1>6, <1>7, <1>8, <1>9, <1>10 DEF IInv

LEMMA KeyOpenStep ==
    ASSUME IInv, NEW w \in Creators, KeyOpen(w)
    PROVE  IInv'
<1> USE CAFilesAssumption DEF KeyOpen, Creators, Absent, Torn, Whole, Idle,
        NoUpload, Goto, ca, static, rest, Use, Refused, Created, Errs, KeyFree
<1>1. TypeOK'
  BY KeyOpenTyped DEF IInv
<1>2. OwnIds'
  BY DEF IInv, OwnIds, Writing, TypeOK, File, Job, Pcs, Counts, Upload, StaticPair,
     Kinds
<1>3. FilesFollow'
  BY DEF IInv, FilesFollow, NoneTold, CertHasKey, TypeOK, File, Job, Pcs, Counts, Upload,
     StaticPair, Kinds
<1>4. Within'
  BY DEF IInv, Within, TypeOK, File, Job, Pcs, Counts, Upload, StaticPair, Kinds
<1>5. Undisturbed'
  BY DEF IInv, Undisturbed, Together, Writing, Readable, Within, TypeOK, File, Job,
     Pcs, Counts, Upload, StaticPair, Kinds
<1>6. AloneWrites'
  BY DEF IInv, AloneWrites
<1>7. CertHasKey'
  BY DEF IInv, CertHasKey
<1>8. OneCa'
  BY DEF IInv, OneCa
<1>9. StartExplained'
  BY DEF IInv, StartExplained, Undisturbed, Together, Writing, Readable, Within,
     TypeOK, File, Job, Pcs, Counts, Upload, StaticPair, Kinds
<1>10. PairSettled'
  BY DEF IInv, PairSettled
<1> QED BY <1>1, <1>2, <1>3, <1>4, <1>5, <1>6, <1>7, <1>8, <1>9, <1>10 DEF IInv

LEMMA KeyWriteStep ==
    ASSUME IInv, NEW w \in Creators, KeyWrite(w)
    PROVE  IInv'
<1> USE CAFilesAssumption DEF KeyWrite, Creators, Absent, Torn, Whole, Idle,
        NoUpload, Goto, ca, static, rest, Use, Refused, Created, Errs, KeyFree
<1>1. TypeOK'
  BY KeyWriteTyped DEF IInv
<1>2. OwnIds'
  BY DEF IInv, OwnIds, Writing, TypeOK, File, Job, Pcs, Counts, Upload, StaticPair,
     Kinds
<1>3. FilesFollow'
  BY DEF IInv, FilesFollow, NoneTold, OwnIds, Writing, TypeOK, File, Job, Pcs, Counts, Upload,
     StaticPair, Kinds
<1>4. Within'
  BY DEF IInv, Within, TypeOK, File, Job, Pcs, Counts, Upload, StaticPair, Kinds
<1>5. Undisturbed'
  BY DEF IInv, Undisturbed, Together, Writing, Readable, Within, TypeOK, File, Job,
     Pcs, Counts, Upload, StaticPair, Kinds
<1>6. AloneWrites'
  BY DEF IInv, AloneWrites
<1>7. CertHasKey'
  BY DEF IInv, CertHasKey, FilesFollow, NoneTold, TypeOK, File, Job, Pcs, Counts, Upload,
     StaticPair, Kinds
<1>8. OneCa'
  <2>1. NoneTold /\ told' = told /\ undone' = undone
    BY DEF IInv, FilesFollow
  <2>2. told \ undone = {}
    BY <2>1 DEF IInv, OneCa, NoneTold
  <2> QED BY <2>1, <2>2 DEF OneCa
<1>9. StartExplained'
  BY DEF IInv, StartExplained
<1>10. PairSettled'
  BY DEF IInv, PairSettled
<1> QED BY <1>1, <1>2, <1>3, <1>4, <1>5, <1>6, <1>7, <1>8, <1>9, <1>10 DEF IInv

LEMMA CertOpenStep ==
    ASSUME IInv, NEW w \in Creators, CertOpen(w)
    PROVE  IInv'
<1> USE CAFilesAssumption DEF CertOpen, Creators, Absent, Torn, Whole, Idle,
        NoUpload, Goto, ca, static, rest, Use, Refused, Created, Errs, KeyFree
<1>1. TypeOK'
  BY CertOpenTyped DEF IInv
<1>2. OwnIds'
  BY DEF IInv, OwnIds, Writing, TypeOK, File, Job, Pcs, Counts, Upload, StaticPair,
     Kinds
<1>3. FilesFollow'
  BY DEF IInv, FilesFollow, NoneTold, OwnIds, Writing, TypeOK, File, Job, Pcs, Counts, Upload,
     StaticPair, Kinds
<1>4. Within'
  BY DEF IInv, Within, FilesFollow, CertHasKey, TypeOK, File, Job, Pcs, Counts,
     Upload, StaticPair, Kinds
<1>5. Undisturbed'
  BY DEF IInv, Undisturbed, Together, Writing, Readable, FilesFollow, CertHasKey,
     TypeOK, File, Job, Pcs, Counts, Upload, StaticPair, Kinds
<1>6. AloneWrites'
  BY DEF IInv, AloneWrites
<1>7. CertHasKey'
  BY DEF IInv, CertHasKey, FilesFollow, NoneTold, TypeOK, File, Job, Pcs, Counts, Upload,
     StaticPair, Kinds
<1>8. OneCa'
  BY DEF IInv, OneCa
<1>9. StartExplained'
  BY DEF IInv, StartExplained
<1>10. PairSettled'
  BY DEF IInv, PairSettled
<1> QED BY <1>1, <1>2, <1>3, <1>4, <1>5, <1>6, <1>7, <1>8, <1>9, <1>10 DEF IInv

LEMMA CertWriteStep ==
    ASSUME IInv, NEW w \in Creators, CertWrite(w)
    PROVE  IInv'
<1> USE CAFilesAssumption DEF CertWrite, Creators, Absent, Torn, Whole, Idle,
        NoUpload, Goto, ca, static, rest, Use, Refused, Created, Errs, Remove, KeyFree
<1>1. TypeOK'
  BY CertWriteTyped DEF IInv
<1>2. OwnIds'
  BY DEF IInv, OwnIds, Writing, TypeOK, File, Job, Pcs, Counts, Upload, StaticPair,
     Kinds
<1>3. FilesFollow'
  BY DEF IInv, FilesFollow, NoneTold, TypeOK, File, Job, Pcs, Counts, Upload, StaticPair,
     Kinds, OwnIds, Writing, Within, Undisturbed, Together, Readable, AloneWrites,
     CertHasKey, OneCa, StartExplained, PairSettled
<1>4. Within'
  <2>1. CASE job' = [job EXCEPT ![w] = [pc |-> "certclose", id |-> job[w].id]]
    BY <2>1 DEF IInv, Within, TypeOK
  <2>2. CASE job' = [job EXCEPT ![w] = [pc |-> "undo", id |-> job[w].id]]
    BY <2>2 DEF IInv, Within, TypeOK
  <2> QED BY <2>1, <2>2
<1>5. Undisturbed'
  <2> SUFFICES ASSUME ~excused' PROVE Undisturbed'
    BY DEF Undisturbed
  <2>1. /\ ~excused /\ caKey = Whole(job[w].id) /\ caCert = Torn(job[w].id)
        /\ kind' = kind /\ proc' = proc /\ job \in [Creators -> Job]
        /\ job[w].pc = "certwrite"
    BY DEF IInv, TypeOK, FilesFollow
  <2>2. Undisturbed
    BY DEF IInv
  <2>3. \A v \in Creators \ {w} : job'[v] = job[v]
    BY <2>1
  <2>4. job'[w].pc \in {"certclose", "undo"}
    BY <2>1
  <2>5. proc' = "starting" => \A c \in Commands : job'[c] = Idle
    BY <2>1, <2>2, <2>3 DEF Undisturbed
  <2>6. kind' = "local-ca" =>
            /\ job'["boot"].pc \notin {"lstatcert", "lstatkey", "keyopen"}
            /\ job'["boot"].pc \notin {"statkey", "load"}
    BY <2>1, <2>2, <2>3, <2>4 DEF Undisturbed, Together, Readable
  <2>7. job'[w].pc \in Writing
    BY <2>4 DEF Writing
  <2> QED BY <2>5, <2>6, <2>7 DEF Undisturbed
<1>6. AloneWrites'
  BY DEF IInv, AloneWrites
<1>7. CertHasKey'
  BY DEF IInv, CertHasKey, FilesFollow, NoneTold, TypeOK, File, Job, Pcs, Counts, Upload,
     StaticPair, Kinds
<1>8. OneCa'
  BY DEF IInv, OneCa, FilesFollow, NoneTold, CertHasKey, TypeOK, File, Job, Pcs, Counts,
     Upload, StaticPair, Kinds
<1>9. StartExplained'
  BY DEF IInv, StartExplained
<1>10. PairSettled'
  BY DEF IInv, PairSettled
<1> QED BY <1>1, <1>2, <1>3, <1>4, <1>5, <1>6, <1>7, <1>8, <1>9, <1>10 DEF IInv

LEMMA CertCloseStep ==
    ASSUME IInv, NEW w \in Creators, CertClose(w)
    PROVE  IInv'
<1> USE CAFilesAssumption DEF CertClose, Creators, Absent, Torn, Whole, Idle,
        NoUpload, Goto, ca, static, rest, Use, Refused, Created, Errs, Remove, KeyFree
<1>1. TypeOK'
  BY CertCloseTyped DEF IInv
<1>2. OwnIds'
  <2>1. /\ job \in [Creators -> Job] /\ used.cas \in Nat /\ used'.cas = used.cas
        /\ job[w].pc = "certclose"
    BY Typed DEF IInv, TypeOK, Counts
  <2>2. \A v \in Creators \ {w} : job'[v] = job[v]
    BY <2>1
  <2>3. \/ job'[w].pc \in {"idle", "load", "read"}
        \/ job'[w] = [pc |-> "undo", id |-> job[w].id]
    BY <2>1
  <2>4. OwnIds
    BY DEF IInv
  <2> HIDE DEF CertClose
  <2> QED BY <2>1, <2>2, <2>3, <2>4 DEF OwnIds, Writing
<1>3. FilesFollow'
  <2>1. /\ caKey = Whole(job[w].id) /\ caKey' = caKey /\ job \in [Creators -> Job]
        /\ job[w].pc = "certclose"
    BY DEF IInv, TypeOK, FilesFollow
  <2>2. \A v \in Creators \ {w} : job'[v] = job[v] /\ job[v].pc \notin Writing
    BY <2>1, OneWriter DEF Writing
  <2>3. \/ job'[w].pc \in {"idle", "load", "read"}
        \/ job'[w] = [pc |-> "undo", id |-> job[w].id] /\ NoneTold'
    <3>1. CASE Created(w)
      BY <2>1, <3>1
    <3>2. CASE Remove /\ Goto(w, "undo", job[w].id) /\ undone' = undone \cup {job[w].id}
      <4>1. caCert = Whole(job[w].id)
        BY DEF IInv, FilesFollow
      <4>2. NoneTold'
        BY <3>2, <4>1 DEF NoneTold
      <4> QED BY <2>1, <3>2, <4>2
    <3> QED BY <3>1, <3>2
  <2> QED BY <2>1, <2>2, <2>3 DEF FilesFollow, Writing
<1>4. Within'
  BY DEF IInv, Within, TypeOK, File, Job, Pcs, Counts, Upload, StaticPair, Kinds
<1>5. Undisturbed'
  <2> SUFFICES ASSUME ~excused' PROVE Undisturbed'
    BY DEF Undisturbed
  <2>1. /\ ~excused /\ caKey = Whole(job[w].id) /\ caCert = Whole(job[w].id)
        /\ caKey' = caKey /\ kind' = kind /\ proc' = proc
        /\ job \in [Creators -> Job] /\ job[w].pc = "certclose"
    BY DEF IInv, TypeOK, FilesFollow
  <2>2. Undisturbed
    BY DEF IInv
  <2>3. \A v \in Creators \ {w} : job'[v] = job[v] /\ job[v].pc \notin Writing
    BY <2>1, OneWriter DEF Writing
  <2>4. Together
    BY <2>1 DEF Together, Readable
  <2>5. w # "boot" => job["boot"].pc = "idle"
    <3>1. w \in Handlers => proc = "up"
      BY <2>1 DEF IInv, Within
    <3>2. w \in Commands => proc # "starting"
      BY <2>1, <2>2 DEF Undisturbed
    <3> QED BY <3>1, <3>2 DEF IInv, Within
  <2>6. \/ job'[w].pc \in {"read", "load"} /\ w \notin Commands /\ caCert' = caCert
        \/ job'[w] = Idle /\ caCert' = caCert
        \/ job'[w].pc = "undo"
    BY <2>1
  <2>7. proc' = "starting" => \A c \in Commands : job'[c] = Idle
    BY <2>1, <2>2, <2>3, <2>6 DEF Undisturbed
  <2>8. job'["boot"].pc \in {"idle", "read", "load", "undo"}
    BY <2>3, <2>5, <2>6
  <2>9. job'["boot"].pc = "load" => caCert' = caCert
    BY <2>3, <2>5, <2>6
  <2>10. job'[w].pc \in Writing \/ caCert' = caCert
    BY <2>6 DEF Writing
  <2>11. caCert' = caCert => Together'
    BY <2>1, <2>4 DEF Together, Readable
  <2> HIDE DEF CertClose
  <2> QED BY <2>7, <2>8, <2>9, <2>10, <2>11 DEF Undisturbed
<1>6. AloneWrites'
  BY DEF IInv, AloneWrites
<1>7. CertHasKey'
  BY DEF IInv, CertHasKey
<1>8. OneCa'
  <2>1. caCert = Whole(job[w].id) /\ caKey = Whole(job[w].id) /\ caKey' = caKey
    BY DEF IInv, FilesFollow, NoneTold
  <2>2. \A n \in told \ undone : n = job[w].id
    BY <2>1 DEF IInv, OneCa
  <2>3. CASE Created(w) /\ UNCHANGED <<caCert, used, undone, excused>>
    <3>1. told' \subseteq told \cup {job[w].id} /\ undone' = undone /\ caCert' = caCert
      BY <2>3
    <3> QED BY <2>1, <2>2, <3>1 DEF OneCa
  <2>4. CASE told' = told /\ undone' = undone \cup {job[w].id}
    BY <2>2, <2>4 DEF OneCa
  <2> QED BY <2>3, <2>4
<1>9. StartExplained'
  BY DEF IInv, StartExplained
<1>10. PairSettled'
  BY DEF IInv, PairSettled
<1> QED BY <1>1, <1>2, <1>3, <1>4, <1>5, <1>6, <1>7, <1>8, <1>9, <1>10 DEF IInv

LEMMA UndoStep ==
    ASSUME IInv, NEW w \in Creators, Undo(w)
    PROVE  IInv'
<1> USE CAFilesAssumption DEF Undo, Creators, Absent, Torn, Whole, Idle, NoUpload,
        Goto, ca, static, rest, Use, Refused, Created, Errs, KeyFree
<1>1. TypeOK'
  BY UndoTyped DEF IInv
<1>2. OwnIds'
  BY DEF IInv, OwnIds, Writing, TypeOK, File, Job, Pcs, Counts, Upload, StaticPair,
     Kinds
<1>3. FilesFollow'
  BY DEF IInv, FilesFollow, NoneTold, OwnIds, Writing, TypeOK, File, Job, Pcs, Counts, Upload,
     StaticPair, Kinds
<1>4. Within'
  BY DEF IInv, Within, TypeOK, File, Job, Pcs, Counts, Upload, StaticPair, Kinds
<1>5. Undisturbed'
  BY DEF IInv, Undisturbed, Together, Writing, Readable
<1>6. AloneWrites'
  BY DEF IInv, AloneWrites
<1>7. CertHasKey'
  BY DEF IInv, CertHasKey, FilesFollow, NoneTold, TypeOK, File, Job, Pcs, Counts, Upload,
     StaticPair, Kinds
<1>8. OneCa'
  BY DEF IInv, OneCa, FilesFollow, NoneTold, CertHasKey, TypeOK, File, Job, Pcs, Counts,
     Upload, StaticPair, Kinds
<1>9. StartExplained'
  BY DEF IInv, StartExplained, Undisturbed, Together, Writing, Readable, Within,
     TypeOK, File, Job, Pcs, Counts, Upload, StaticPair, Kinds
<1>10. PairSettled'
  BY DEF IInv, PairSettled
<1> QED BY <1>1, <1>2, <1>3, <1>4, <1>5, <1>6, <1>7, <1>8, <1>9, <1>10 DEF IInv

LEMMA CallFailsTyped ==
    ASSUME TypeOK, NEW w \in Creators, CallFails(w)
    PROVE  TypeOK'
<1>1. job' \in [Creators -> Job]
  BY Typed, GotoTyped DEF TypeOK, Pcs, CallFails, ca, rest, Errs, Refused
<1>2. caCert' \in File /\ caKey' \in File
  BY Typed DEF TypeOK, CallFails, ca
<1>3. used' \in Counts
  BY Typed DEF TypeOK, CallFails, Errs
<1>4. /\ proc' \in {"down", "starting", "up", "failed"} /\ told' \subseteq Nat
      /\ undone' \subseteq Nat /\ excused' \in BOOLEAN
  BY Typed DEF TypeOK, CallFails, Refused
<1>5. kind' = kind /\ serving' = serving /\ UNCHANGED static
  BY DEF CallFails, rest
<1> QED BY <1>1, <1>2, <1>3, <1>4, <1>5 DEF TypeOK, static


LEMMA CallFailsStep ==
    ASSUME IInv, NEW w \in Creators, CallFails(w)
    PROVE  IInv'
<1> USE CAFilesAssumption DEF CallFails, Creators, Absent, Torn, Whole, Idle,
        NoUpload, Goto, ca, static, rest, Use, Refused, Errs
<1>1. TypeOK'
  BY CallFailsTyped DEF IInv
<1>2. OwnIds'
  BY DEF IInv, OwnIds, Writing, TypeOK, File, Job, Pcs, Counts, Upload, StaticPair,
     Kinds
<1>3. FilesFollow'
  BY DEF IInv, FilesFollow, NoneTold, TypeOK, File, Job, Pcs, Counts, Upload,
     StaticPair, Kinds
<1>4. Within'
  BY DEF IInv, Within, TypeOK, File, Job, Pcs, Counts, Upload, StaticPair, Kinds
<1>5. Undisturbed'
  BY DEF IInv, Undisturbed, Together, Writing, Readable, Within, TypeOK, File, Job,
     Pcs, Counts, Upload, StaticPair, Kinds
<1>6. AloneWrites'
  BY DEF IInv, AloneWrites
<1>7. CertHasKey'
  BY DEF IInv, CertHasKey
<1>8. OneCa'
  BY DEF IInv, OneCa
<1>9. StartExplained'
  BY DEF IInv, StartExplained
<1>10. PairSettled'
  BY DEF IInv, PairSettled
<1> QED BY <1>1, <1>2, <1>3, <1>4, <1>5, <1>6, <1>7, <1>8, <1>9, <1>10 DEF IInv

LEMMA GenerateCAStep ==
    ASSUME IInv, NEW h \in Handlers, GenerateCA(h)
    PROVE  IInv'
<1> USE CAFilesAssumption DEF GenerateCA, Creators, Absent, Torn, Whole, Idle,
        NoUpload, Goto, ca, static, rest, Use
<1>1. TypeOK'
  BY DEF IInv, TypeOK, File, Job, Pcs, Counts, Upload, StaticPair, Kinds
<1>2. OwnIds'
  BY DEF IInv, OwnIds, Writing
<1>3. FilesFollow'
  BY DEF IInv, FilesFollow, NoneTold
<1>4. Within'
  BY DEF IInv, Within
<1>5. Undisturbed'
  BY DEF IInv, Undisturbed, Together, Writing, Readable
<1>6. AloneWrites'
  BY DEF IInv, AloneWrites
<1>7. CertHasKey'
  BY DEF IInv, CertHasKey
<1>8. OneCa'
  BY DEF IInv, OneCa
<1>9. StartExplained'
  BY DEF IInv, StartExplained
<1>10. PairSettled'
  BY DEF IInv, PairSettled
<1> QED BY <1>1, <1>2, <1>3, <1>4, <1>5, <1>6, <1>7, <1>8, <1>9, <1>10 DEF IInv

LEMMA ReadCAStep ==
    ASSUME IInv, NEW h \in Handlers, ReadCA(h)
    PROVE  IInv'
<1> USE CAFilesAssumption DEF ReadCA, Creators, Absent, Torn, Whole, Idle, NoUpload,
        Goto, ca, static, rest, Use, Readable
<1>1. TypeOK'
  <2>1. job' \in [Creators -> Job]
    BY Typed, GotoTyped DEF IInv, TypeOK, Pcs
  <2>2. told' \subseteq Nat
    BY DEF IInv, TypeOK, File
  <2> QED BY <2>1, <2>2 DEF IInv, TypeOK
<1>2. OwnIds'
  BY DEF IInv, OwnIds, Writing
<1>3. FilesFollow'
  BY DEF IInv, FilesFollow, NoneTold
<1>4. Within'
  BY DEF IInv, Within
<1>5. Undisturbed'
  BY DEF IInv, Undisturbed, Together, Writing, Readable
<1>6. AloneWrites'
  BY DEF IInv, AloneWrites
<1>7. CertHasKey'
  BY DEF IInv, CertHasKey
<1>8. OneCa'
  <2>1. ASSUME Readable(caCert), caCert.of \notin undone
        PROVE  caCert = Whole(caCert.of) /\ caKey = Whole(caCert.of)
    BY <2>1 DEF IInv, CertHasKey, TypeOK, File
  <2>2. told' \subseteq told \/ (Readable(caCert) /\ told' = told \cup {caCert.of})
    OBVIOUS
  <2>3. OneCa /\ UNCHANGED <<caCert, caKey, undone>>
    BY DEF IInv
  <2> QED BY <2>1, <2>2, <2>3 DEF OneCa
<1>9. StartExplained'
  BY DEF IInv, StartExplained
<1>10. PairSettled'
  BY DEF IInv, PairSettled
<1> QED BY <1>1, <1>2, <1>3, <1>4, <1>5, <1>6, <1>7, <1>8, <1>9, <1>10 DEF IInv

LEMMA RunCreateCAStep ==
    ASSUME IInv, NEW c \in Commands, RunCreateCA(c)
    PROVE  IInv'
<1> USE CAFilesAssumption DEF RunCreateCA, Creators, Absent, Torn, Whole, Idle,
        NoUpload, Goto, ca, static, rest, Use
<1>1. TypeOK'
  BY DEF IInv, TypeOK, File, Job, Pcs, Counts, Upload, StaticPair, Kinds
<1>2. OwnIds'
  BY DEF IInv, OwnIds, Writing
<1>3. FilesFollow'
  BY DEF IInv, FilesFollow, NoneTold
<1>4. Within'
  BY DEF IInv, Within
<1>5. Undisturbed'
  <2> SUFFICES ASSUME ~excused' PROVE Undisturbed'
    BY DEF Undisturbed
  <2>1. ~excused /\ proc # "starting" /\ UNCHANGED <<proc, kind, caCert, caKey>>
    BY DEF IInv, TypeOK
  <2>2. /\ c \in Creators /\ c # "boot" /\ job \in [Creators -> Job]
        /\ job[c] = Idle /\ job' = [job EXCEPT ![c] = [pc |-> "lstatcert", id |-> 0]]
    BY DEF IInv, TypeOK
  <2>3. \A w \in Creators \ {c} : job'[w] = job[w]
    BY <2>2
  <2>4. \A w \in Creators : job'[w].pc \in Writing <=> job[w].pc \in Writing
    BY <2>2, <2>3 DEF Writing
  <2>6. Undisturbed
    BY DEF IInv
  <2>7. job'["boot"] = job["boot"]
    BY <2>2
  <2> QED BY <2>1, <2>4, <2>6, <2>7 DEF Undisturbed, Together, Readable
<1>6. AloneWrites'
  BY DEF IInv, AloneWrites
<1>7. CertHasKey'
  BY DEF IInv, CertHasKey
<1>8. OneCa'
  BY DEF IInv, OneCa
<1>9. StartExplained'
  BY DEF IInv, StartExplained
<1>10. PairSettled'
  BY DEF IInv, PairSettled
<1> QED BY <1>1, <1>2, <1>3, <1>4, <1>5, <1>6, <1>7, <1>8, <1>9, <1>10 DEF IInv

LEMMA CommandEndsStep ==
    ASSUME IInv, NEW c \in Commands, CommandEnds(c)
    PROVE  IInv'
<1> USE CAFilesAssumption DEF CommandEnds, Creators, Absent, Torn, Whole, Idle,
        NoUpload, Goto, ca, static, rest, Use
<1>1. TypeOK'
  BY DEF IInv, TypeOK, File, Job, Pcs, Counts, Upload, StaticPair, Kinds
<1>2. OwnIds'
  BY DEF IInv, OwnIds, Writing, TypeOK, File, Job, Pcs, Counts, Upload, StaticPair,
     Kinds
<1>3. FilesFollow'
  BY DEF IInv, FilesFollow, NoneTold
<1>4. Within'
  BY DEF IInv, Within
<1>5. Undisturbed'
  BY DEF IInv, Undisturbed, Together, Writing, Readable
<1>6. AloneWrites'
  BY DEF IInv, AloneWrites
<1>7. CertHasKey'
  BY DEF IInv, CertHasKey
<1>8. OneCa'
  BY DEF IInv, OneCa
<1>9. StartExplained'
  BY DEF IInv, StartExplained
<1>10. PairSettled'
  BY DEF IInv, PairSettled
<1> QED BY <1>1, <1>2, <1>3, <1>4, <1>5, <1>6, <1>7, <1>8, <1>9, <1>10 DEF IInv

LEMMA DownloadCAStep ==
    ASSUME IInv, DownloadCA
    PROVE  IInv'
<1> USE CAFilesAssumption DEF DownloadCA, Creators, Absent, Torn, Whole, Idle,
        NoUpload, Goto, ca, static, rest, Use, Readable
<1>1. TypeOK'
  BY DEF IInv, TypeOK, File, Job, Pcs, Counts, Upload, StaticPair, Kinds
<1>2. OwnIds'
  BY DEF IInv, OwnIds, Writing
<1>3. FilesFollow'
  BY DEF IInv, FilesFollow, NoneTold
<1>4. Within'
  BY DEF IInv, Within
<1>5. Undisturbed'
  BY DEF IInv, Undisturbed, Together, Writing, Readable
<1>6. AloneWrites'
  BY DEF IInv, AloneWrites
<1>7. CertHasKey'
  BY DEF IInv, CertHasKey
<1>8. OneCa'
  BY DEF IInv, OneCa, FilesFollow, NoneTold, CertHasKey, TypeOK, File, Job, Pcs, Counts,
     Upload, StaticPair, Kinds
<1>9. StartExplained'
  BY DEF IInv, StartExplained
<1>10. PairSettled'
  BY DEF IInv, PairSettled
<1> QED BY <1>1, <1>2, <1>3, <1>4, <1>5, <1>6, <1>7, <1>8, <1>9, <1>10 DEF IInv

LEMMA StartStep ==
    ASSUME IInv, NEW k \in Starts, Start(k)
    PROVE  IInv'
<1> USE CAFilesAssumption DEF Start, Creators, Absent, Torn, Whole, Idle, NoUpload,
        Goto, ca, static, rest, Use
<1>1. TypeOK'
  <2>1. job' \in [Creators -> Job]
    BY Typed, GotoTyped DEF IInv, TypeOK, Pcs
  <2>2. proc' \in {"down", "starting", "up", "failed"} /\ kind' \in Kinds /\ serving' \in Nat
    BY DEF IInv, TypeOK
  <2>3. excused' \in BOOLEAN
    BY DEF IInv, TypeOK
  <2> QED BY <2>1, <2>2, <2>3 DEF IInv, TypeOK
<1>2. OwnIds'
  BY DEF IInv, OwnIds, Writing, TypeOK, File, Job, Pcs, Counts, Upload, StaticPair,
     Kinds
<1>3. FilesFollow'
  BY DEF IInv, FilesFollow, NoneTold, TypeOK, File, Job, Pcs, Counts, Upload, StaticPair, Kinds
<1>4. Within'
  BY DEF IInv, Within, TypeOK, File, Job, Pcs, Counts, Upload, StaticPair, Kinds
<1>5. Undisturbed'
  <2> SUFFICES ASSUME ~excused' PROVE Undisturbed'
    BY DEF Undisturbed
  <2>1. /\ ~excused /\ UNCHANGED <<caCert, caKey>> /\ "boot" \in Creators
        /\ job \in [Creators -> Job] /\ job["boot"].pc = "idle"
    BY DEF IInv, TypeOK, Within
  <2>2. Undisturbed
    BY DEF IInv
  <2>3. \A w \in Creators : job'[w].pc = job[w].pc \/ (w = "boot" /\ job'[w].pc = "statcert")
    <3>1. job' = job \/ job' = [job EXCEPT !["boot"] = [pc |-> "statcert", id |-> 0]]
      OBVIOUS
    <3>2. CASE job' = job
      BY <3>2
    <3>3. CASE job' = [job EXCEPT !["boot"] = [pc |-> "statcert", id |-> 0]]
      BY <2>1, <3>3
    <3> QED BY <3>1, <3>2, <3>3
  <2>4. /\ \A w \in Creators : job'[w].pc \in Writing <=> job[w].pc \in Writing
        /\ job'["boot"].pc \in {"idle", "statcert"}
    BY <2>1, <2>2, <2>3 DEF Undisturbed, Writing
  <2>5. \A c \in Commands : c \in Creators /\ c # "boot"
    OBVIOUS
  <2>6. excused' = excused \/ excused' = (excused \/ \E c \in Commands : job[c] # Idle)
    OBVIOUS
  <2>7. proc' = "starting" => \A c \in Commands : job[c] = Idle
    BY <2>1
  <2>8. proc' = "starting" => \A c \in Commands : job'[c] = Idle
    BY <2>1, <2>5, <2>7
  <2> QED BY <2>1, <2>2, <2>4, <2>8 DEF Undisturbed, Together, Readable
<1>6. AloneWrites'
  BY DEF IInv, AloneWrites
<1>7. CertHasKey'
  BY DEF IInv, CertHasKey
<1>8. OneCa'
  BY DEF IInv, OneCa
<1>9. StartExplained'
  BY DEF IInv, StartExplained
<1>10. PairSettled'
  BY DEF IInv, PairSettled
<1> QED BY <1>1, <1>2, <1>3, <1>4, <1>5, <1>6, <1>7, <1>8, <1>9, <1>10 DEF IInv

LEMMA StatCertStep ==
    ASSUME IInv, StatCert
    PROVE  IInv'
<1> USE CAFilesAssumption DEF StatCert, Creators, Absent, Torn, Whole, Idle,
        NoUpload, Goto, ca, static, rest, Use, Missing
<1>1. TypeOK'
  BY DEF IInv, TypeOK, File, Job, Pcs, Counts, Upload, StaticPair, Kinds
<1>2. OwnIds'
  BY DEF IInv, OwnIds, Writing
<1>3. FilesFollow'
  BY DEF IInv, FilesFollow, NoneTold
<1>4. Within'
  BY DEF IInv, Within
<1>5. Undisturbed'
  BY DEF IInv, Undisturbed, Together, Writing, Readable, Within, TypeOK, File, Job,
     Pcs, Counts, Upload, StaticPair, Kinds
<1>6. AloneWrites'
  BY DEF IInv, AloneWrites
<1>7. CertHasKey'
  BY DEF IInv, CertHasKey
<1>8. OneCa'
  BY DEF IInv, OneCa
<1>9. StartExplained'
  BY DEF IInv, StartExplained
<1>10. PairSettled'
  BY DEF IInv, PairSettled
<1> QED BY <1>1, <1>2, <1>3, <1>4, <1>5, <1>6, <1>7, <1>8, <1>9, <1>10 DEF IInv

LEMMA StatKeyStep ==
    ASSUME IInv, StatKey
    PROVE  IInv'
<1> USE CAFilesAssumption DEF StatKey, Creators, Absent, Torn, Whole, Idle,
        NoUpload, Goto, ca, static, rest, Use, Missing
<1>1. TypeOK'
  BY DEF IInv, TypeOK, File, Job, Pcs, Counts, Upload, StaticPair, Kinds
<1>2. OwnIds'
  BY DEF IInv, OwnIds, Writing
<1>3. FilesFollow'
  BY DEF IInv, FilesFollow, NoneTold
<1>4. Within'
  BY DEF IInv, Within
<1>5. Undisturbed'
  BY DEF IInv, Undisturbed, Together, Writing, Readable
<1>6. AloneWrites'
  BY DEF IInv, AloneWrites
<1>7. CertHasKey'
  BY DEF IInv, CertHasKey
<1>8. OneCa'
  BY DEF IInv, OneCa
<1>9. StartExplained'
  BY DEF IInv, StartExplained
<1>10. PairSettled'
  BY DEF IInv, PairSettled
<1> QED BY <1>1, <1>2, <1>3, <1>4, <1>5, <1>6, <1>7, <1>8, <1>9, <1>10 DEF IInv

LEMMA LoadCAStep ==
    ASSUME IInv, LoadCA
    PROVE  IInv'
<1> USE CAFilesAssumption DEF LoadCA, Creators, Absent, Torn, Whole, Idle, NoUpload,
        Goto, ca, static, rest, Use, Readable
<1>1. TypeOK'
  <2>1. job' \in [Creators -> Job]
    BY Typed, GotoTyped DEF IInv, TypeOK, Pcs
  <2>2. serving' \in Nat /\ told' \subseteq Nat /\ excused' \in BOOLEAN
    BY DEF IInv, TypeOK, File
  <2>3. proc' \in {"down", "starting", "up", "failed"}
    OBVIOUS
  <2> QED BY <2>1, <2>2, <2>3 DEF IInv, TypeOK
<1>2. OwnIds'
  BY DEF IInv, OwnIds, Writing
<1>3. FilesFollow'
  BY DEF IInv, FilesFollow, NoneTold
<1>4. Within'
  BY DEF IInv, Within, TypeOK, File, Job, Pcs, Counts, Upload, StaticPair, Kinds
<1>5. Undisturbed'
  BY DEF IInv, Undisturbed, Together, Writing, Readable, FilesFollow, CertHasKey,
     TypeOK, File, Job, Pcs, Counts, Upload, StaticPair, Kinds
<1>6. AloneWrites'
  BY DEF IInv, AloneWrites
<1>7. CertHasKey'
  BY DEF IInv, CertHasKey
<1>8. OneCa'
  BY DEF IInv, OneCa, TypeOK, File, Job, Pcs, Counts, Upload, StaticPair, Kinds
<1>9. StartExplained'
  BY DEF IInv, StartExplained, Undisturbed, Together, Writing, Readable, Within,
     TypeOK, File, Job, Pcs, Counts, Upload, StaticPair, Kinds
<1>10. PairSettled'
  BY DEF IInv, PairSettled
<1> QED BY <1>1, <1>2, <1>3, <1>4, <1>5, <1>6, <1>7, <1>8, <1>9, <1>10 DEF IInv

LEMMA EndsStep ==
    ASSUME IInv, Ends
    PROVE  IInv'
<1> USE CAFilesAssumption DEF Ends, Creators, Absent, Torn, Whole, Idle, NoUpload,
        Goto, ca, static, rest, Use, Creating
<1>1. TypeOK'
  BY DEF IInv, TypeOK, File, Job, Pcs, Counts, Upload, StaticPair, Kinds
<1>2. OwnIds'
  BY DEF IInv, OwnIds, Writing, TypeOK, File, Job, Pcs, Counts, Upload, StaticPair,
     Kinds
<1>3. FilesFollow'
  BY DEF IInv, FilesFollow, NoneTold
<1>4. Within'
  BY DEF IInv, Within
<1>5. Undisturbed'
  BY DEF IInv, Undisturbed, Together, Writing, Readable
<1>6. AloneWrites'
  BY DEF IInv, AloneWrites
<1>7. CertHasKey'
  BY DEF IInv, CertHasKey
<1>8. OneCa'
  BY DEF IInv, OneCa
<1>9. StartExplained'
  BY DEF IInv, StartExplained
<1>10. PairSettled'
  BY DEF IInv, PairSettled
<1> QED BY <1>1, <1>2, <1>3, <1>4, <1>5, <1>6, <1>7, <1>8, <1>9, <1>10 DEF IInv

LEMMA UploadWritesStep ==
    ASSUME IInv, NEW u \in Uploads, UploadWrites(u)
    PROVE  IInv'
<1> USE CAFilesAssumption DEF UploadWrites, Creators, Absent, Torn, Whole, Idle,
        NoUpload, Goto, ca, static, rest, Use, others, Errs
<1>1. TypeOK'
  <2> DEFINE file == upload[u].pc
             new == [pair EXCEPT ![file] = upload[u].of[file]]
  <2>1. /\ upload[u].of \in [cert : Pairs, key : Pairs] /\ file \in {"cert", "key"}
        /\ upload[u] \in Upload /\ pair \in StaticPair
    BY DEF IInv, AloneWrites, TypeOK
  <2>2. new \in StaticPair
    BY <2>1 DEF StaticPair
  <2>3. pair' \in StaticPair
    BY <2>1, <2>2
  <2>4. [pc |-> "key", of |-> upload[u].of, alone |-> upload[u].alone] \in Upload /\ NoUpload \in Upload
    BY <2>1 DEF Upload
  <2>5. upload' \in [Uploads -> Upload]
    BY <2>4 DEF IInv, TypeOK
  <2>6. settled' \in Pairs \cup {NoPair}
    BY <2>1 DEF IInv, TypeOK
  <2>7. used' \in Counts
    BY Typed DEF IInv, TypeOK
  <2> QED BY <2>3, <2>5, <2>6, <2>7 DEF IInv, TypeOK
<1>2. OwnIds'
  BY DEF IInv, OwnIds, Writing, TypeOK, File, Job, Pcs, Counts, Upload, StaticPair,
     Kinds
<1>3. FilesFollow'
  BY DEF IInv, FilesFollow, NoneTold
<1>4. Within'
  BY DEF IInv, Within
<1>5. Undisturbed'
  BY DEF IInv, Undisturbed, Together, Writing, Readable
<1>6. AloneWrites'
  BY DEF IInv, AloneWrites, TypeOK, File, Job, Pcs, Counts, Upload, StaticPair, Kinds
<1>7. CertHasKey'
  BY DEF IInv, CertHasKey
<1>8. OneCa'
  BY DEF IInv, OneCa
<1>9. StartExplained'
  BY DEF IInv, StartExplained
<1>10. PairSettled'
  BY DEF IInv, PairSettled, AloneWrites, TypeOK, File, Job, Pcs, Counts, Upload,
     StaticPair, Kinds
<1> QED BY <1>1, <1>2, <1>3, <1>4, <1>5, <1>6, <1>7, <1>8, <1>9, <1>10 DEF IInv

LEMMA UploadBeginsStep ==
    ASSUME IInv, NEW u \in Uploads, NEW cert \in Pairs, NEW key \in Pairs,
           UploadBegins(u, cert, key)
    PROVE  IInv'
<1> USE CAFilesAssumption DEF UploadBegins, Creators, Absent, Torn, Whole, Idle,
        NoUpload, Goto, ca, static, rest, Use, others, PairMatches
<1>1. TypeOK'
  BY DEF IInv, TypeOK, File, Job, Pcs, Counts, Upload, StaticPair, Kinds
<1>2. OwnIds'
  BY DEF IInv, OwnIds, Writing
<1>3. FilesFollow'
  BY DEF IInv, FilesFollow, NoneTold
<1>4. Within'
  BY DEF IInv, Within
<1>5. Undisturbed'
  BY DEF IInv, Undisturbed, Together, Writing, Readable
<1>6. AloneWrites'
  BY DEF IInv, AloneWrites
<1>7. CertHasKey'
  BY DEF IInv, CertHasKey
<1>8. OneCa'
  BY DEF IInv, OneCa
<1>9. StartExplained'
  BY DEF IInv, StartExplained
<1>10. PairSettled'
  BY DEF IInv, PairSettled
<1> QED BY <1>1, <1>2, <1>3, <1>4, <1>5, <1>6, <1>7, <1>8, <1>9, <1>10 DEF IInv

-----------------------------------------------------------------------------

\* At the start no file is there and nobody writes one.
LEMMA InitInvariant == Init => IInv
<1> SUFFICES ASSUME Init PROVE IInv
  OBVIOUS
<1> USE CAFilesAssumption DEF Init, Absent, Idle, NoUpload
<1>1. TypeOK
  <2>1. job \in [Creators -> Job]
    BY DEF Job, Pcs
  <2>2. upload \in [Uploads -> Upload]
    BY DEF Upload
  <2>3. caCert \in File /\ caKey \in File /\ used \in Counts /\ pair \in StaticPair
    BY DEF File, Counts, StaticPair
  <2> QED BY <2>1, <2>2, <2>3 DEF TypeOK, Kinds
<1>2. OwnIds /\ FilesFollow /\ Within /\ CertHasKey /\ OneCa /\ StartExplained
  BY DEF OwnIds, Writing, FilesFollow, NoneTold, Within, CertHasKey, OneCa, StartExplained, Creators
<1>3. Undisturbed
  BY DEF Undisturbed, Creators
<1>4. AloneWrites /\ PairSettled
  BY DEF AloneWrites, PairSettled
<1> QED BY <1>1, <1>2, <1>3, <1>4 DEF IInv

LEMMA StepInvariant == IInv /\ [Next]_vars => IInv'
<1> SUFFICES ASSUME IInv, [Next]_vars PROVE IInv'
  OBVIOUS
<1>1. ASSUME NEW w \in Creators, CreateCA(w) \/ CallFails(w) PROVE IInv'
  BY <1>1, CallFailsStep, LstatCertStep, LstatKeyStep, KeyOpenStep, KeyWriteStep, CertOpenStep,
     CertWriteStep, CertCloseStep, UndoStep DEF CreateCA
<1>2. ASSUME NEW h \in Handlers, GenerateCA(h) \/ ReadCA(h) PROVE IInv'
  BY <1>2, GenerateCAStep, ReadCAStep
<1>3. ASSUME NEW c \in Commands, RunCreateCA(c) \/ CommandEnds(c) PROVE IInv'
  BY <1>3, RunCreateCAStep, CommandEndsStep
<1>4. ASSUME NEW k \in Starts, Start(k) PROVE IInv'
  BY <1>4, StartStep
<1>5. CASE DownloadCA \/ StatCert \/ StatKey \/ LoadCA \/ Ends
  BY <1>5, DownloadCAStep, StatCertStep, StatKeyStep, LoadCAStep, EndsStep
<1>6. ASSUME NEW u \in Uploads,
             UploadWrites(u) \/ \E cert, key \in Pairs : UploadBegins(u, cert, key)
      PROVE  IInv'
  BY <1>6, UploadWritesStep, UploadBeginsStep
<1>7. CASE UNCHANGED vars
  <2> USE <1>7 DEF vars, ca, static
  <2>1. TypeOK'
    BY DEF IInv, TypeOK
  <2>2. OwnIds' /\ FilesFollow' /\ Within'
    BY DEF IInv, OwnIds, FilesFollow, NoneTold, Within
  <2>3. Undisturbed'
    BY DEF IInv, Undisturbed, Together
  <2>4. AloneWrites' /\ CertHasKey' /\ OneCa' /\ StartExplained' /\ PairSettled'
    BY DEF IInv, AloneWrites, CertHasKey, OneCa, StartExplained, PairSettled
  <2> QED BY <2>1, <2>2, <2>3, <2>4 DEF IInv
<1> QED BY <1>1, <1>2, <1>3, <1>4, <1>5, <1>6, <1>7 DEF Next

\* The inductive invariant: whoever has created the key is alone in writing either
\* file, and unless something was cut off both files are there or neither.
THEOREM Invariant == Spec => []IInv
BY InitInvariant, StepInvariant, PTL DEF Spec

\* The variables have their types in every reachable state.
THEOREM TypeCorrect == Spec => []TypeOK
<1>1. IInv => TypeOK
  BY DEF IInv
<1> QED BY <1>1, Invariant, PTL

\* The exclusive creation of the key and the cleanup of CreateCA (createca.go:68-103)
\* never leave a certificate without its own key, unless the removal of the
\* certificate of a failed creation fails as well (createca.go:89).
THEOREM KeyBesideCertificate == Spec => []CertHasKey
<1>1. IInv => CertHasKey
  BY DEF IInv
<1> QED BY <1>1, Invariant, PTL

\* No start, request, command, failure or crash replaces or removes a CA that
\* somebody was told of, unless its own creation failed after others saw it.
THEOREM CaStays == Spec => []OneCa
<1>1. IInv => OneCa
  BY DEF IInv
<1> QED BY <1>1, Invariant, PTL

\* A start fails for want of its CA only if a creation of it was cut off, has failed
\* or ran at the same time, or if it cannot read the files (app.go:151-189).
THEOREM FailureHasCause == Spec => []StartExplained
<1>1. IInv => StartExplained
  BY DEF IInv
<1> QED BY <1>1, Invariant, PTL

\* An upload that ran alone has left the pair it was sent (handleTLSUpload).
THEOREM UploadSettles == Spec => []PairSettled
<1>1. IInv => PairSettled
  BY DEF IInv
<1> QED BY <1>1, Invariant, PTL

=============================================================================
