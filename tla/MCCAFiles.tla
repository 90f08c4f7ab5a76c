----------------------------- MODULE MCCAFiles -----------------------------
(* Requests, uploads and pairs are interchangeable: the properties are       *)
(* invariants that name none of them.                                        *)
EXTENDS CAFiles, TLC

Symmetry == Permutations(Handlers) \cup Permutations(Uploads) \cup Permutations(Pairs)

=============================================================================
