---------------------------- MODULE MCCredentials ----------------------------
(* Two requests at a time on the sessions of one account. *)
EXTENDS Credentials, TLC

Symmetry == Permutations(Requests) \cup Permutations(Sessions)
=============================================================================
