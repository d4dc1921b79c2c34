------------------------ MODULE MCInterProcessMutex ------------------------
(* Instances of InterProcessMutex.                                          *)
EXTENDS InterProcessMutex, TLC

Symmetry == Permutations(Proc)
=============================================================================
