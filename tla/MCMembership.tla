---------------------------- MODULE MCMembership ----------------------------
(* Instances of Membership for TLC. *)
EXTENDS Membership, TLC

Alike == Permutations(Request) \cup Permutations(User \ Permanent)
=============================================================================
