----------------------------- MODULE LogWindow -----------------------------
(***************************************************************************)
(* What the log buffer promises: the last Capacity records of the log, in  *)
(* their order.                                                            *)
(***************************************************************************)
EXTENDS Naturals, Sequences

CONSTANTS
    Capacity,  \* the records that are kept
    Records    \* the records there are

VARIABLE window

Init == window = <<>>

Record(r) ==
    window' = Append(IF Len(window) < Capacity THEN window ELSE Tail(window), r)

Next == \E r \in Records : Record(r)

Spec == Init /\ [][Next]_window

=============================================================================
