----------------------------- MODULE MCLockstep -----------------------------
(* Instances of Lockstep for TLC. *)
EXTENDS Lockstep

=============================================================================
