--------------------------- MODULE MCLockingCRUD ---------------------------
(* Instances of LockingCRUD for TLC. *)
EXTENDS LockingCRUD, TLC

CONSTANTS c1, c2, c3, k1, k2

Symmetry == Permutations(Client) \cup Permutations(Key)
=============================================================================
