------------------------------ MODULE LogRing ------------------------------
(***************************************************************************)
(* logbuf.Ring: the newest records of the log in a circular buffer.  Every *)
(* operation holds the ring's mutex from its first step to its last.       *)
(***************************************************************************)
EXTENDS Integers, Sequences, SequencesExt

CONSTANTS
    Capacity,  \* Ring.capacity
    MaxLimit,  \* maxLogLimit
    Levels,    \* the levels of records
    Records,   \* the records: [level, ...]
    NoRecord   \* an entry that was never set

ASSUME LogRingAssumption ==
    /\ Capacity \in Nat \ {0} /\ MaxLimit \in Nat \ {0}
    /\ Levels \subseteq Int
    /\ \A r \in Records : r.level \in Levels
    /\ NoRecord \notin Records

VARIABLES
    entries,  \* Ring.entries
    start,    \* Ring.start: the index of the oldest record
    size      \* Ring.size

ring == <<entries, start, size>>

Indices == 0..(Capacity - 1)

NewRing ==
    /\ entries = [i \in Indices |-> NoRecord]
    /\ start = 0 /\ size = 0

\* mutant: the oldest record is overwritten and stays the oldest
RingAppendStuck(item) ==
    /\ entries' = [entries EXCEPT ![(start + size) % Capacity] = item]
    /\ size' = IF size = Capacity THEN size ELSE size + 1
    /\ UNCHANGED start

\* append: a full ring gives up its oldest record.
RingAppend(item) ==
    \/ /\ size = Capacity
       /\ entries' = [entries EXCEPT ![start] = item]
       /\ start' = (start + 1) % Capacity
       /\ UNCHANGED size
    \/ /\ size # Capacity
       /\ entries' = [entries EXCEPT ![(start + size) % Capacity] = item]
       /\ size' = size + 1
       /\ UNCHANGED start

\* mutant: the records are counted before they are filtered
SnapshotCounted(minLevel, limit) ==
    LET item(n) == entries[(start + size - n) % Capacity]
        seen[n \in 0..size] ==
            IF n = 0 THEN <<>>
            ELSE IF n <= limit /\ item(n).level >= minLevel
                 THEN Append(seen[n - 1], item(n))
                 ELSE seen[n - 1]
    IN  seen[size]

\* Snapshot: from the newest record to the oldest, until there are enough.
Snapshot(minLevel, limit) ==
    LET item(n) == entries[(start + size - n) % Capacity]
        seen[n \in 0..size] ==
            IF n = 0 THEN <<>>
            ELSE IF Len(seen[n - 1]) < limit /\ item(n).level >= minLevel
                 THEN Append(seen[n - 1], item(n))
                 ELSE seen[n - 1]
    IN  seen[size]

\* handleLogs: the limit of the query, brought between 1 and MaxLimit.
HandleLogs(minLevel, limit) ==
    Snapshot(minLevel, IF limit < 1 THEN 1 ELSE IF limit > MaxLimit THEN MaxLimit ELSE limit)

-----------------------------------------------------------------------------
\* The records of the ring, oldest first, and what they are to be.
Contents == [i \in 1..size |-> entries[(start + i - 1) % Capacity]]

Window == INSTANCE LogWindow WITH window <- Contents

RingTypeOK ==
    /\ entries \in [Indices -> Records \cup {NoRecord}]
    /\ start \in Indices /\ size \in 0..Capacity
    /\ \A i \in 1..size : entries[(start + i - 1) % Capacity] \in Records

=============================================================================
