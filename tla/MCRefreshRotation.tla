-------------------------- MODULE MCRefreshRotation --------------------------
(* Instances of RefreshRotation for TLC. *)
EXTENDS RefreshRotationInv, TLC

Symmetry == Permutations(Users) \cup Permutations(Tokens)
                \cup Permutations(SessionIds) \cup Permutations(Requests)
=============================================================================
