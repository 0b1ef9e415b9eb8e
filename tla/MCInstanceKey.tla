---------------------------- MODULE MCInstanceKey ----------------------------
(* Instances of InstanceKey for TLC. *)
EXTENDS InstanceKey

CONSTANTS p1, p2, k1, k2

=============================================================================
