----------------------------- MODULE MCSession -----------------------------
(* Instances of Session for TLC. *)
EXTENDS Session, TLC

(* Requests are interchangeable, and so are accounts.  Not used where a    *)
(* liveness property is checked.                                           *)
Symmetry == Permutations(Requests) \cup Permutations(Accounts)
=============================================================================
