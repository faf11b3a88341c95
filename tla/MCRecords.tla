----------------------------- MODULE MCRecords ------------------------------
(* Instances of Records for TLC. *)
EXTENDS Records, TLC
CONSTANTS a1, a2, k1, m1, m2

\* Two accounts that serve the same key, the second one only with errors.
MCCalls == {[uid |-> a1, key |-> k1, model |-> m1, err |-> FALSE],
            [uid |-> a2, key |-> k1, model |-> m2, err |-> TRUE]}
MCBoots == {{a1}, {a1, a2}}
MCLegacy == {[uid |-> Nil, key |-> Nil, model |-> m1, err |-> FALSE]}
MCSymmetry == Permutations(Workers)
=============================================================================
