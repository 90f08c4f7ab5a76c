------------------------------- MODULE Answer -------------------------------
(***************************************************************************)
(* The answer to a public request: the rules of the configuration and of   *)
(* its rulepacks, the first one that matches, the generic answer, and what *)
(* is written of them.                                                     *)
(*                                                                         *)
(* A request is a record of what the criteria and the hints look at: its   *)
(* method, host, path (the segments), ext, dest (Sec-Fetch-Dest), accept   *)
(* (the media types its Accept names), query and headers (the first value  *)
(* of each), and whether it is a preflight.  A body is the name of where   *)
(* it comes from, a content type the kind it belongs to; "" is none.       *)
(***************************************************************************)
EXTENDS Integers, Sequences, SequencesExt, FiniteSetsExt

CONSTANTS
    Rules,  \* the rules there may be
    Packs   \* packFiles: the rules and the members of each pack

\* loadPacks and parsePack refuse any others, and no rule is in the embedded packs
\* twice.
ASSUME PacksAssumption ==
    /\ \A p \in DOMAIN Packs :
           /\ Packs[p].rules \in Seq(Rules) /\ Packs[p].members \in Seq(DOMAIN Packs)
           /\ (Packs[p].rules = <<>>) # (Packs[p].members = <<>>)
           /\ \A m \in ToSet(Packs[p].members) : Packs[m].members = <<>>
    /\ \A p, q \in DOMAIN Packs :
           \A i \in 1..Len(Packs[p].rules), j \in 1..Len(Packs[q].rules) :
               Packs[p].rules[i] = Packs[q].rules[j] => p = q /\ i = j

\* compileRule takes any status from 100 on, or 0 for none, and cuts a glob into its
\* segments.
ASSUME RulesAssumption ==
    \A rule \in Rules :
        /\ rule.status \in {0} \cup 100..599
        /\ "path_glob" \in DOMAIN rule.match => rule.match.path_glob \in Seq(STRING)

-----------------------------------------------------------------------------
(* rulepacks.Merge *)

\* The packs with rules that an enabled one stands for.
Content(name) ==
    IF Packs[name].members = <<>> THEN <<name>> ELSE Packs[name].members

\* Those of all that are enabled, one after the other.
Names(enabled) ==
    LET names[n \in 0..Len(enabled)] ==
            IF n = 0 THEN <<>> ELSE names[n - 1] \o Content(enabled[n])
    IN  names[Len(enabled)]

\* mutant: the name of the manifest is remembered in place of its members'
MergeManifest(user, enabled) ==
    LET merged[n \in 0..Len(enabled)] ==
            IF n = 0 THEN user
            ELSE IF \E j \in 1..(n - 1) : enabled[j] = enabled[n] THEN merged[n - 1]
            ELSE merged[n - 1]
                     \o FlattenSeq([k \in 1..Len(Content(enabled[n])) |->
                            Packs[Content(enabled[n])[k]].rules])
    IN  merged[Len(enabled)]

\* The rules of the user, then those of each pack when its name comes first.
Merge(user, enabled) ==
    LET names == Names(enabled)
        merged[n \in 0..Len(names)] ==
            IF n = 0 THEN user
            ELSE IF \E j \in 1..(n - 1) : names[j] = names[n] THEN merged[n - 1]
            ELSE merged[n - 1] \o Packs[names[n]].rules
    IN  merged[Len(names)]

-----------------------------------------------------------------------------
(* rules.Engine *)

\* path.Match of one segment.
SegmentMatches(pattern, segment) == pattern = "*" \/ pattern = segment

\* mutant: "**" matches one segment or more
GlobMatchesSome(pattern, name) ==
    LET rest[i \in 1..(Len(pattern) + 1)] ==
            IF i > Len(pattern) THEN {Len(name) + 1}
            ELSE IF pattern[i] = "**"
            THEN {j \in 1..(Len(name) + 1) : \E next \in rest[i + 1] : j < next}
            ELSE {j \in 1..Len(name) :
                      SegmentMatches(pattern[i], name[j]) /\ j + 1 \in rest[i + 1]}
    IN  1 \in rest[1]

\* matchSegments: the places of the name from which the rest of the pattern matches;
\* without "**" it is path.Match.
GlobMatches(pattern, name) ==
    LET rest[i \in 1..(Len(pattern) + 1)] ==
            IF i > Len(pattern) THEN {Len(name) + 1}
            ELSE IF pattern[i] = "**"
            THEN {j \in 1..(Len(name) + 1) : \E next \in rest[i + 1] : j <= next}
            ELSE {j \in 1..Len(name) :
                      SegmentMatches(pattern[i], name[j]) /\ j + 1 \in rest[i + 1]}
    IN  1 \in rest[1]

\* A parameter or header is there, with this first value unless any will do.
Present(wanted, given) ==
    \A key \in DOMAIN wanted :
        key \in DOMAIN given /\ (wanted[key] # "" => given[key] = wanted[key])

\* A criterion of a rule; a rule has the ones that are set.
Meets(criterion, value, r) ==
    CASE criterion = "host" -> r.host = value
      [] criterion = "host_glob" -> GlobMatches(value, <<r.host>>)
      [] criterion = "path_glob" -> GlobMatches(value, r.path)
      [] criterion = "method" -> r.method = value
      [] criterion = "sec_fetch_dest" -> r.dest = value
      [] criterion = "accept" -> value \in r.accept
      [] criterion = "query" -> Present(value, r.query)
      [] criterion = "headers" -> Present(value, r.headers)

Matches(rule, r) == \A c \in DOMAIN rule.match : Meets(c, rule.match[c], r)

\* Match: the first rule that does, as a sequence of one rule or none.
Match(rules, r) ==
    LET matching == {i \in 1..Len(rules) : Matches(rules[i], r)} IN
    IF matching = {} THEN <<>> ELSE <<rules[Min(matching)]>>

-----------------------------------------------------------------------------
(* respond.Select *)

DestKinds ==
    [image |-> "image", script |-> "script", worker |-> "script",
     sharedworker |-> "script", serviceworker |-> "script", audioworklet |-> "script",
     paintworklet |-> "script", style |-> "style", document |-> "document",
     iframe |-> "document", frame |-> "document", embed |-> "document",
     object |-> "document", font |-> "font", audio |-> "audio", track |-> "text",
     video |-> "video", manifest |-> "json", report |-> "json"]

\* In this order.
AcceptKinds ==
    <<<<"text/html", "document">>, <<"image/svg+xml", "svg">>, <<"image/", "image">>,
      <<"text/css", "style">>, <<"application/json", "json">>, <<"javascript", "script">>>>

ExtKinds ==
    [js |-> "script", mjs |-> "script", css |-> "style", json |-> "json", svg |-> "svg",
     gif |-> "image", png |-> "image", jpg |-> "image", jpeg |-> "image",
     webp |-> "image", avif |-> "image", html |-> "document", htm |-> "document",
     txt |-> "text", mp3 |-> "audio", wav |-> "audio", m4a |-> "audio", ogg |-> "audio",
     oga |-> "audio", mp4 |-> "video", webm |-> "video", mov |-> "video",
     m4v |-> "video", woff |-> "font", woff2 |-> "font", ttf |-> "font",
     otf |-> "font", eot |-> "font"]

\* What is asked for: by Sec-Fetch-Dest, else by Accept, else by the path.
SelectKind(r) ==
    LET accepted == {i \in 1..Len(AcceptKinds) : AcceptKinds[i][1] \in r.accept} IN
    IF r.dest \in DOMAIN DestKinds THEN DestKinds[r.dest]
    ELSE IF accepted # {} THEN AcceptKinds[Min(accepted)][2]
    ELSE IF r.ext \in DOMAIN ExtKinds THEN ExtKinds[r.ext]
    ELSE "beacon"

Bodiless == {204, 304}

WithoutForbiddenBody(d) ==
    IF d.status \in Bodiless THEN [d EXCEPT !.body = "", !.type = ""] ELSE d

\* selectGeneric: media has an asset or no content, a font never has one.
Generic(r, c) ==
    LET kind == SelectKind(r)
        asset == kind # "font" /\ (kind \in {"audio", "video"} => c.media = "asset")
    IN  WithoutForbiddenBody(
            [rule |-> "", kind |-> kind,
             status |-> IF ~asset THEN 204 ELSE IF kind = "beacon" THEN c.beaconStatus
                        ELSE c.status,
             type |-> IF asset THEN kind ELSE "", body |-> IF asset THEN kind ELSE "",
             headerType |-> "", delayed |-> FALSE])

\* applyJSONP; a name that is no callback is ignored.
ApplyJSONP(r, d, c) ==
    IF /\ c.jsonp \in DOMAIN r.query /\ r.query[c.jsonp] = "callback"
       /\ d.kind \in {"script", "json", "beacon"}
    THEN [d EXCEPT !.status = 200, !.type = "script", !.body = "jsonp"]
    ELSE d

\* Select: what a rule leaves out is generic.
Select(rules, r, c) ==
    LET generic == Generic(r, c)
        matched == Match(rules, r)
    IN
    IF matched = <<>> THEN ApplyJSONP(r, generic, c)
    ELSE LET rule == matched[1] IN
         WithoutForbiddenBody(
            [rule |-> rule.name, kind |-> generic.kind,
             status |-> IF rule.status # 0 THEN rule.status ELSE generic.status,
             type |-> IF rule.type # "" THEN rule.type ELSE generic.type,
             body |-> IF rule.body # "" THEN rule.body ELSE generic.body,
             headerType |-> rule.headerType, delayed |-> rule.delayed])

-----------------------------------------------------------------------------
(* respond.Write and net/http *)

\* A preflight is answered as such, whatever was selected.
WrittenStatus(r, d) == IF r.preflight THEN 204 ELSE d.status

Informational == 100..199

\* The final status net/http sends for the first one it is given: an informational one
\* is sent ahead, and 200 follows with the body or at the end of the handler; 101 is
\* final over HTTP/1.1 and informational over HTTP/2.
Finals(status) ==
    IF status = 101 THEN {101, 200}
    ELSE IF status \in Informational THEN {200}
    ELSE {status}

\* What a rule sets in the headers comes after the content type, and neither is sent
\* without a body.
Written(r, d, final) ==
    IF r.preflight THEN [status |-> final, type |-> "", body |-> ""]
    ELSE [status |-> final,
          type |-> IF final \in Bodiless THEN ""
                   ELSE IF d.headerType # "" THEN d.headerType ELSE d.type,
          body |-> IF final \in Bodiless \cup {101} \/ r.method = "HEAD" THEN "" ELSE d.body]

-----------------------------------------------------------------------------
(* What the rules are to mean *)

\* A pattern matches if the name can be cut so that each part matches its piece.
Fits(pattern, name) ==
    \E cut \in [0..Len(pattern) -> 0..Len(name)] :
        /\ cut[0] = 0 /\ cut[Len(pattern)] = Len(name)
        /\ \A i \in 1..Len(pattern) :
               IF pattern[i] = "**" THEN cut[i] >= cut[i - 1]
               ELSE /\ cut[i] = cut[i - 1] + 1
                    /\ pattern[i] \in {"*", name[cut[i]]}

=============================================================================
