------------------------------ MODULE LruCache ------------------------------
(***************************************************************************)
(* What a leaf cache promises: it holds at most Capacity names, each once, *)
(* and to make room the name that has gone unserved for longest gives way. *)
(* Every handshake that is served has its name at the front.               *)
(***************************************************************************)
EXTENDS Sequences, SequencesExt

CONSTANTS Conns, Names, None, Capacity

VARIABLES
    recent,  \* the names held, the one served last first
    serving  \* the name each handshake is being served, or None

Init == recent = <<>> /\ serving = [c \in Conns |-> None]

Serve(c, n) == serving[c] = None /\ serving' = [serving EXCEPT ![c] = n]

Touch(c, n) ==
    /\ Serve(c, n)
    /\ \E i \in DOMAIN recent : recent[i] = n /\ recent' = <<n>> \o RemoveAt(recent, i)

Add(c, n) ==
    /\ Serve(c, n)
    /\ \A i \in DOMAIN recent : recent[i] # n
    /\ recent' = <<n>> \o (IF Len(recent) < Capacity THEN recent ELSE Front(recent))

\* A name may be forgotten at any time, the end of its leaf for one.
Forget(n) ==
    /\ \E i \in DOMAIN recent : recent[i] = n /\ recent' = RemoveAt(recent, i)
    /\ UNCHANGED serving

Done(c) ==
    /\ serving[c] # None
    /\ serving' = [serving EXCEPT ![c] = None]
    /\ UNCHANGED recent

Next ==
    \/ \E c \in Conns : Done(c) \/ \E n \in Names : Touch(c, n) \/ Add(c, n)
    \/ \E n \in Names : Forget(n)

Spec == Init /\ [][Next]_<<recent, serving>>

=============================================================================
