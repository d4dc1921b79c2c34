----------------------------- MODULE MCConfdata -----------------------------
(* Instances of Confdata for TLC: a key without dots, and a key with two   *)
(* dots that a predefined wildcard covers.                                 *)
EXTENDS Confdata

CONSTANTS plain, a_b_c,    \* keys "plain" and "a.b.c"
          wild, a_b, a     \* sections "a.b.c" with the wildcard, "a.b." and "a."

MCSectionsOf == [k \in Dotted |-> <<wild, a_b, a>>]
=============================================================================
