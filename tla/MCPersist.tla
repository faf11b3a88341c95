----------------------------- MODULE MCPersist -----------------------------
(* Instances of PoolPersist for TLC. *)
EXTENDS PoolPersist, TLC

(* Accounts are interchangeable.  Not used where a liveness property is    *)
(* checked.                                                                *)
Symmetry == Permutations(Accounts)
=============================================================================
