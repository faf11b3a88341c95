---------------------------- MODULE MCAdminConfig ----------------------------
(* Instances of AdminConfig for TLC. *)
EXTENDS AdminConfig, TLC

MCSymmetry == Permutations(Admins) \cup Permutations(Allowlists)
=============================================================================
