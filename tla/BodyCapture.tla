---------------------------- MODULE BodyCapture ----------------------------
(***************************************************************************)
(* The capture of a request body for the access log: what is kept of it    *)
(* chunk by chunk, and what of that is logged.                             *)
(*                                                                         *)
(* A body is a sequence of bytes, each one of                              *)
(*   "k" "s" "v"          ASCII: of a plain name, of a sensitive name, and *)
(*                        of the values that belong to sensitive names     *)
(*   "=" "&" "%" "h"      ASCII: the syntax of a form                      *)
(*   "two" "three" "four" the first byte of a longer rune                  *)
(*   "more"               another byte of a longer rune                    *)
(* A JSON body is the names on the way to one scalar, and the scalar, "h"  *)
(* or "v".  What is logged is a set of parts, each with its name: the      *)
(* fields of a form, or one part without a name.                           *)
(***************************************************************************)
EXTENDS Integers, Sequences, SequencesExt, FiniteSetsExt

Bytes == {"k", "s", "v", "=", "&", "%", "h", "two", "three", "four", "more"}

Redacted == "[REDACTED]"

UTFMax == 4

RuneLength == [two |-> 2, three |-> 3, four |-> 4]

Length(byte) == IF byte \in DOMAIN RuneLength THEN RuneLength[byte] ELSE 1

\* utf8.Valid: whole runes from the first byte to the last, so that every first
\* byte has its others and every other byte is one of theirs.
Valid(data) ==
    \A i \in 1..Len(data) :
        IF data[i] = "more"
        THEN \E k \in 1..(UTFMax - 1) :
                 k < i /\ data[i - k] # "more" /\ k < Length(data[i - k])
        ELSE LET last == i + Length(data[i]) - 1 IN
             last <= Len(data) /\ \A j \in (i + 1)..last : data[j] = "more"

-----------------------------------------------------------------------------
(* boundedBodyCapture *)

\* A capture that has seen nothing.
Capture(kind, limit) ==
    [bytes |-> <<>>, limit |-> limit, truncated |-> FALSE, kind |-> kind]

Kept(c, bytes, truncated) ==
    [bytes |-> bytes, limit |-> c.limit, truncated |-> truncated, kind |-> c.kind]

\* mutant: a chunk that goes over the limit is dropped
WriteWhole(c, data) ==
    IF Len(data) > c.limit - Len(c.bytes) THEN Kept(c, c.bytes, TRUE)
    ELSE Kept(c, c.bytes \o data, c.truncated)

\* Write keeps what is left of the limit.
Write(c, data) ==
    LET remaining == c.limit - Len(c.bytes) IN
    IF remaining <= 0 THEN Kept(c, c.bytes, c.truncated \/ Len(data) > 0)
    ELSE IF Len(data) > remaining
    THEN Kept(c, c.bytes \o SubSeq(data, 1, remaining), TRUE)
    ELSE Kept(c, c.bytes \o data, c.truncated)

\* The body of this request is to be logged ...
Wanted(c, r) ==
    /\ c.logBody /\ r.method \in c.bodyMethods /\ c.accessLog

Omit(reason, truncated) ==
    [value |-> {}, omitted |-> reason, truncated |-> truncated, redacted |-> FALSE]

\* ... and is of a type that can be: the reason why it is not, or "".
Unfit(r) ==
    IF r.encoded THEN "encoded body"
    ELSE IF r.type = "multipart" THEN "multipart body"
    ELSE IF r.type = "binary" THEN "unsupported content type"
    ELSE ""

-----------------------------------------------------------------------------
(* finish *)

\* mutant: a rune that was cut is not removed
TrimNothing(data) == data

\* A rune that was cut off is removed, or as much of it as it can have.
Trim(data) ==
    LET short(n) == SubSeq(data, 1, Len(data) - n)
        most == IF Len(data) < UTFMax - 1 THEN Len(data) ELSE UTFMax - 1
    IN  short(Min({most} \cup {n \in 0..most : Valid(short(n))}))

\* sensitiveField
Sensitive(name) == "s" \in ToSet(name)

\* redactJSON: everything below the first sensitive name.
ValidJSON(data) ==
    /\ Len(data) > 0 /\ data[Len(data)] \in {"h", "v"}
    /\ \A i \in 1..(Len(data) - 1) : data[i] \in {"k", "s"}

RedactJSON(data) ==
    LET names == {i \in 1..(Len(data) - 1) : data[i] = "s"} IN
    IF names = {} THEN data
    ELSE Append(SubSeq(data, 1, Min(names)), Redacted)

\* url.ParseQuery: the values of each name, in any order.  "%hh" is the escape
\* of a sensitive letter.
ValidForm(data) ==
    \A i \in 1..Len(data) :
        data[i] = "%" => i + 2 <= Len(data) /\ data[i + 1] = "h" /\ data[i + 2] = "h"

Decode(data) ==
    LET decoded[i \in 0..Len(data)] ==
            IF i = 0 THEN <<>>
            ELSE IF data[i] = "h" THEN decoded[i - 1]
            ELSE Append(decoded[i - 1], IF data[i] = "%" THEN "s" ELSE data[i])
    IN  decoded[Len(data)]

Fields(data) ==
    LET cuts == {0, Len(data) + 1} \cup {i \in 1..Len(data) : data[i] = "&"}
    IN  {SubSeq(data, i + 1, Min({j \in cuts : j > i}) - 1) : i \in cuts \ {Len(data) + 1}}
            \ {<<>>}

Cut(field) == Min({Len(field) + 1} \cup {i \in 1..Len(field) : field[i] = "="})

\* mutant: names are compared before they are decoded
NameRaw(field) == SubSeq(field, 1, Cut(field) - 1)

Name(field) == Decode(SubSeq(field, 1, Cut(field) - 1))

Value(field) == Decode(SubSeq(field, Cut(field) + 1, Len(field)))

\* redactForm
RedactForm(data) ==
    {<<Name(f), IF Sensitive(Name(f)) THEN <<Redacted>> ELSE Value(f)>> : f \in Fields(data)}

\* finish: what is logged of what was kept.
Finish(c) ==
    LET data == IF ~Valid(c.bytes) /\ c.truncated THEN Trim(c.bytes) ELSE c.bytes
        log(value, redacted) ==
            [value |-> value, omitted |-> "", truncated |-> c.truncated,
             redacted |-> redacted]
    IN
    IF ~Valid(data) THEN Omit("non-UTF-8 body", c.truncated)
    ELSE IF c.kind = "json"
    THEN IF c.truncated THEN Omit("truncated JSON body", TRUE)
         ELSE IF ~ValidJSON(data) THEN Omit("invalid JSON body", FALSE)
         ELSE log({<<<<>>, RedactJSON(data)>>}, RedactJSON(data) # data)
    ELSE IF c.kind = "form"
    THEN IF ~ValidForm(data) THEN Omit("invalid form body", c.truncated)
         ELSE log(RedactForm(data), \E f \in Fields(data) : Sensitive(Name(f)))
    ELSE log({<<<<>>, data>>}, FALSE)

-----------------------------------------------------------------------------
(* What a log is to show of a body *)

\* The longest part of a body within the limit that ends with a whole rune.
Readable(body, limit) ==
    SubSeq(body, 1, Max({n \in 0..Len(body) : n <= limit /\ Valid(SubSeq(body, 1, n))}))

\* Where a "v" can be: below a sensitive name of a document, after the first "=" of
\* a field of a form with a sensitive letter before it.
Marked(kind, body) ==
    \A p \in 1..Len(body) : body[p] = "v" =>
        /\ kind = "json" => \E n \in 1..(p - 1) : body[n] = "s"
        /\ kind = "form" =>
             \E n \in 1..(p - 1), e \in 1..(p - 1) :
                 /\ n < e /\ body[n] \in {"s", "%"} /\ body[e] = "="
                 /\ \A i \in n..p : body[i] # "&"
                 /\ \A i \in 1..n : body[i] = "=" => \E j \in i..n : body[j] = "&"

\* No byte of a value that belongs to a sensitive name.
Hidden(log) == \A part \in log.value : "v" \notin ToSet(part[1] \o part[2])

=============================================================================
