---------------------------- MODULE MCCredentials ---------------------------
(* Instances of Credentials for TLC. *)
EXTENDS Credentials, TLC

(* Objects and polls are interchangeable.                                  *)
Symmetry == Permutations(Objects) \cup Permutations(Polls)
=============================================================================
