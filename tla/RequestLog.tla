----------------------------- MODULE RequestLog -----------------------------
(***************************************************************************)
(* A public request from its body to its record in the log buffer: the     *)
(* capture, the answer, the access log, and what GET /api/logs shows.      *)
(*                                                                         *)
(* Requests share nothing but the configuration they start with and the    *)
(* ring, which they reach under its mutex: one request is followed, and    *)
(* the records of the others come in between.                              *)
(***************************************************************************)
EXTENDS LogRing, BodyCapture, Answer

CONSTANTS
    Configurations,  \* the live configurations a reload may install
    Requests,        \* the requests that may arrive
    MaxBody          \* limits.max_body_bytes, read once at the start

Info == 0
Error == 8

ASSUME RequestLogAssumption ==
    /\ {Info, Error} \subseteq Levels
    /\ Records = [level : Levels, about : {"request", "other"}]
    /\ MaxBody \in Nat

\* What Config.Validate lets through, and the packs that Merge knows.
ASSUME ConfigurationsAssumption ==
    \A c \in Configurations :
        /\ c.rules \in Seq(Rules) /\ c.packs \in Seq(DOMAIN Packs)
        /\ c.status \in 100..599 /\ c.beaconStatus \in 100..599
        /\ c.bodyLimit \in Nat

\* What the letters of a body and of a path are.
ASSUME RequestsAssumption ==
    \A r \in Requests :
        /\ r.body \in Seq(Bytes) /\ Marked(r.type, r.body)
        /\ r.path \in Seq(STRING)

VARIABLES
    conf,  \* the live configuration, and the level of the log with it
    req    \* the request that is followed

vars == <<ring, conf, req>>

None == [pc |-> "none"]

NoAnswer == [kind |-> "", rule |-> ""]

NoLog == [value |-> {}, omitted |-> "off", truncated |-> FALSE, redacted |-> FALSE]

Init == NewRing /\ conf \in Configurations /\ req = None

\* The handler of the ring is asked only for what the level lets through.
Logs(level, about) ==
    IF level >= conf.level THEN RingAppend([level |-> level, about |-> about])
    ELSE UNCHANGED ring

\* recoverMiddleware: the request keeps the configuration it finds.
Arrive(r) ==
    /\ req = None
    /\ req' = [pc |-> "method", r |-> r, conf |-> conf, capture |-> Capture("none", 0),
               read |-> 0, ended |-> "open", log |-> NoLog, decision |-> NoAnswer, status |-> 0,
               sent |-> [status |-> 200, type |-> "", body |-> ""]]
    /\ UNCHANGED <<ring, conf>>

\* http.Error: the first status that is written is the one that is sent.
Answers(status, kind) ==
    /\ req' = [req EXCEPT !.pc = "finish", !.status = status, !.decision.kind = kind,
                          !.sent = [status |-> status, type |-> "text", body |-> "error"]]
    /\ UNCHANGED <<ring, conf>>

Allowed == {"GET", "HEAD", "POST", "PUT", "PATCH", "DELETE", "OPTIONS"}
HasBody == {"POST", "PUT", "PATCH", "DELETE"}

\* rateLimitMiddleware and methodMiddleware refuse, or the body is prepared.
Method ==
    /\ req.pc = "method"
    /\ \/ Answers(429, "ratelimited")
       \/ req.r.method \notin Allowed /\ Answers(405, "badmethod")
       \/ /\ req.r.method \in Allowed
          /\ LET wanted == Wanted(req.conf, req.r) IN
             req' = IF req.r.method \notin HasBody
                    THEN [req EXCEPT !.pc = "select"]
                    ELSE IF wanted /\ Unfit(req.r) # ""
                    THEN [req EXCEPT !.pc = "body", !.log = Omit(Unfit(req.r), FALSE)]
                    ELSE IF wanted
                    THEN [req EXCEPT !.pc = "body",
                              !.capture = Capture(req.r.type, req.conf.bodyLimit)]
                    ELSE [req EXCEPT !.pc = "body"]
          /\ UNCHANGED <<ring, conf>>

Captures == req.capture.kind # "none"

\* io.Copy: a chunk of the body, up to the limit of the server.
ReadChunk(n) ==
    /\ req.pc = "body" /\ n > 0
    /\ req.read + n <= Len(req.r.body) /\ req.read + n <= MaxBody
    /\ LET data == SubSeq(req.r.body, req.read + 1, req.read + n) IN
       req' = [req EXCEPT !.read = @ + n,
                          !.capture = IF Captures THEN Write(@, data) ELSE @]
    /\ UNCHANGED <<ring, conf>>

\* The end of the body, or an error in place of it: what was captured is logged.
BodyEnds ==
    /\ req.pc = "body"
    /\ LET log == IF Captures THEN Finish(req.capture) ELSE req.log IN
       \/ /\ req.read = MaxBody /\ req.read < Len(req.r.body)
          /\ req' = [req EXCEPT !.pc = "finish", !.log = log, !.status = 413,
                         !.ended = "oversized", !.decision.kind = "oversized",
                         !.sent = [status |-> 413, type |-> "text", body |-> "error"]]
       \/ /\ req.read = Len(req.r.body)
          /\ req' = [req EXCEPT !.pc = "select", !.log = log,
                         !.ended = "whole"]
       \/ /\ req.read < Len(req.r.body)
          /\ req' = [req EXCEPT !.pc = "select", !.log = log,
                         !.ended = "cut"]
    /\ UNCHANGED <<ring, conf>>

\* respond: Select, ...
Respond ==
    /\ req.pc = "select"
    /\ req' = [req EXCEPT !.pc = "write",
                  !.decision = Select(Merge(req.conf.rules, req.conf.packs),
                                      req.r, req.conf)]
    /\ UNCHANGED <<ring, conf>>

\* ... wait for the delay, which the client may not outlast, and Write: the recorder
\* keeps the status it is given, which need not be the final one.
WriteAnswer ==
    /\ req.pc = "write"
    /\ \/ req.decision.delayed /\ req' = [req EXCEPT !.pc = "written"]
       \/ LET status == WrittenStatus(req.r, req.decision) IN
          \E final \in Finals(status) :
              req' = [req EXCEPT !.pc = "written", !.status = status,
                                 !.sent = Written(req.r, req.decision, final)]
    /\ UNCHANGED <<ring, conf>>

\* The handler panics: a response that has begun stays as it is.
Panic ==
    /\ req.pc \in {"method", "body", "select", "write", "written"}
    /\ req' = IF req.status # 0 THEN [req EXCEPT !.pc = "finish", !.decision.kind = "panic"]
              ELSE [req EXCEPT !.pc = "finish", !.decision.kind = "panic", !.status = 500,
                        !.sent = [status |-> 500, type |-> "text", body |-> "error"]]
    /\ Logs(Error, "other") /\ UNCHANGED conf

\* mutant: the status that was selected is logged
StatusSelected(q) == IF q.pc = "written" THEN q.decision.status ELSE q.status

\* finishRequest: nothing written is 200, as net/http has it.
Status(q) == IF q.status = 0 THEN 200 ELSE q.status

\* logAccess: with the configuration of the request, at the level of the moment.
FinishRequest ==
    /\ req.pc \in {"written", "finish"}
    /\ IF req.conf.accessLog THEN Logs(Info, "request") ELSE UNCHANGED ring
    /\ req' = None /\ UNCHANGED conf

\* The others.
OtherLogs(level) == Logs(level, "other") /\ UNCHANGED <<conf, req>>

Reload(c) == conf' = c /\ UNCHANGED <<ring, req>>

Next ==
    \/ \E r \in Requests : Arrive(r)
    \/ Method \/ BodyEnds \/ Respond \/ WriteAnswer \/ Panic \/ FinishRequest
    \/ \E n \in 1..MaxBody : ReadChunk(n)
    \/ \E level \in Levels : OtherLogs(level)
    \/ \E c \in Configurations : Reload(c)

Spec == Init /\ [][Next]_vars

-----------------------------------------------------------------------------
(* Properties *)

\* The ring holds the last records of the log in their order, full or not, whoever
\* appends to it.
RingIsWindow == Window!Spec

\* GET /api/logs shows the newest records of a level or above, newest first, and as
\* many of them as the ring holds up to the limit: those below the level do not
\* count.
LogsNewest ==
    \A level \in Levels : \A limit \in 0..(MaxLimit + 1) :
        LET shown == HandleLogs(level, limit)
            wanted == {i \in 1..size : Contents[i].level >= level}
            since(i) == Cardinality({j \in wanted : j >= i})
        IN  /\ Len(shown) = Min({MaxLimit, Max({limit, 1}), Cardinality(wanted)})
            /\ \A i \in wanted :
                   since(i) <= Len(shown) => shown[since(i)] = Contents[i]

\* However a body arrives in chunks, the log shows of it what it would if it came at
\* once; of a text, as much as the limit lets through without a broken rune, and
\* whether that is all of it.
CaptureExact ==
    req # None /\ req.ended = "whole" /\ Captures =>
        LET body == req.r.body
            limit == req.conf.bodyLimit
        IN
        /\ req.log = Finish(Write(Capture(req.r.type, limit), body))
        /\ req.r.type = "text" /\ Valid(body) =>
               req.log = [value |-> {<<<<>>, Readable(body, limit)>>}, omitted |-> "",
                          truncated |-> Len(body) > limit, redacted |-> FALSE]

\* Wherever a document or a form is cut, by the limits or by its client, nothing of
\* a value with a sensitive name is logged.
SecretsHidden == req # None /\ req.r.type \in {"json", "form"} => Hidden(req.log)

Intended(rule, r) ==
    \A c \in DOMAIN rule.match :
        IF c = "path_glob" THEN Fits(rule.match[c], r.path)
        ELSE Meets(c, rule.match[c], r)

\* The rule that answers is the first one, the user's before those of the packs in
\* the order in which they are enabled, that the request meets; none if none does.
FirstMatch ==
    req # None /\ req.pc = "write" =>
        LET met(rules) == {i \in 1..Len(rules) : Intended(rules[i], req.r)}
            first(rules) == rules[Min(met(rules))].name
            own == req.conf.rules
            names == Names(req.conf.packs)
            packs == {n \in 1..Len(names) : met(Packs[names[n]].rules) # {}}
        IN  req.decision.rule =
                IF met(own) # {} THEN first(own)
                ELSE IF packs # {} THEN first(Packs[names[Min(packs)]].rules)
                ELSE ""

\* A pack that is enabled by itself and as a member, or by two manifests, is there
\* once, and so it is counted once.
PacksOnce ==
    req # None /\ req.pc = "select" =>
        LET merged == Merge(req.conf.rules, req.conf.packs)
            own == Len(req.conf.rules)
            packs == SubSeq(merged, own + 1, Len(merged))
        IN  /\ SubSeq(merged, 1, own) = req.conf.rules
            /\ IsInjective(packs)
            /\ ToSet(packs) = UNION {ToSet(Packs[p].rules) : p \in ToSet(Names(req.conf.packs))}

\* The status in the access log is the final one the client is sent: of a refusal, an
\* oversized body, a preflight, a panic before or after the response has begun, or
\* of an answer that is never written.  The exception is a status below 200, which a
\* rule or the defaults may select: it is logged, and the client gets 200 after it.
LoggedAsSent ==
    req # None /\ req.pc \in {"written", "finish"} =>
        \/ Status(req) = req.sent.status
        \/ Status(req) \in Informational /\ req.sent.status = 200

\* Why they hold.  A request is answered with what its configuration selects, what is
\* sent is what net/http makes of the status it has written ...
Answering ==
    /\ req = [pc |-> req.pc, r |-> req.r, conf |-> req.conf, capture |-> req.capture,
              read |-> req.read, ended |-> req.ended, log |-> req.log,
              decision |-> req.decision, status |-> req.status, sent |-> req.sent]
    /\ req.pc \in {"method", "body", "select", "write", "written", "finish"}
    /\ req.r \in Requests /\ req.conf \in Configurations
    /\ req.pc = "write" =>
           req.decision = Select(Merge(req.conf.rules, req.conf.packs), req.r, req.conf)
    /\ req.sent.status \in Finals(Status(req))

\* ... and what is captured is what a single chunk of all that was read would be.
Capturing ==
    /\ req.read \in 0..Len(req.r.body)
    /\ Captures => req.capture = Write(Capture(req.r.type, req.conf.bodyLimit),
                                      SubSeq(req.r.body, 1, req.read))
    /\ req.pc = "method" => ~Captures /\ req.read = 0
    /\ req.pc \in {"method", "body"} => req.ended = "open"
    /\ req.ended = "whole" => req.read = Len(req.r.body)
    /\ IF Captures /\ req.ended # "open" THEN req.log = Finish(req.capture)
       ELSE req.log.value = {}

IInv ==
    /\ RingTypeOK /\ conf \in Configurations
    /\ req # None => Answering /\ Capturing

\* docs/observability.md:67-73: of "unreadable bodies" nothing is logged but that.
UnreadableOmitted ==
    req # None /\ req.ended = "cut" /\ Captures => req.log.omitted # ""

=============================================================================
