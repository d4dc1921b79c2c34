----------------------------- MODULE MCFreelist -----------------------------
(* Model values for Freelist.                                               *)
EXTENDS Freelist
=============================================================================
