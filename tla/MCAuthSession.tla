---------------------------- MODULE MCAuthSession ----------------------------
(* The signed-in session on small instances.                               *)
EXTENDS AuthSession, TLC

Interchangeable == Permutations(Requests)
=============================================================================
