----------------------------- MODULE MCRequests -----------------------------
(* Requests, clients and rates are interchangeable.                         *)
EXTENDS Requests, TLC

Interchangeable == Permutations(Handlers) \cup Permutations(Clients) \cup Permutations(Rates)

=============================================================================
