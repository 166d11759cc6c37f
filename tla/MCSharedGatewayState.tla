------------------------ MODULE MCSharedGatewayState ------------------------
(* Small instances: one or two keys, of one user. *)
EXTENDS SharedGatewayState, TLC

CONSTANTS u1, k1, k2

OneOwner == [k \in Keys |-> u1]
GrantOrClawback == {1, -1}
Symmetry == Permutations(Tasks) \cup Permutations(Keys) \cup Permutations(Providers)
=============================================================================
