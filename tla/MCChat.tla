------------------------------- MODULE MCChat -------------------------------
(* Instances of Chat for TLC. *)
EXTENDS Chat, TLC

(* Requests are interchangeable, and so are accounts.                      *)
Symmetry == Permutations(Requests) \cup Permutations(Accounts)
=============================================================================
