--------------------------- MODULE MCInstanceCache ---------------------------
(* Instances of InstanceCache for TLC. *)
EXTENDS InstanceCache
=============================================================================
