---------------------------- MODULE MCAdminAuth ----------------------------
(* Requests are interchangeable; passwords are not, startup is given one.   *)
EXTENDS AdminAuth, TLC

Interchangeable == Permutations(Handlers)

=============================================================================
