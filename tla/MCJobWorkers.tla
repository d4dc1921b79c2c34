---------------------------- MODULE MCJobWorkers ----------------------------
(* Small instances of JobWorkers for TLC.                                   *)
EXTENDS JobWorkersInv, TLC

CONSTANTS g1, j1, j2, m1, m2, m3, m4, m5, b1

\* One client and one job worker.
PairProc == {g1, j1}
PairJobWorker == {j1}
PairBudget == [p \in PairProc |-> IF p = g1 THEN 2 ELSE 0]

\* Two job workers compete for the jobs of one client.
TrioProc == {g1, j1, j2}
TrioJobWorker == {j1, j2}
TrioBudget == [p \in TrioProc |-> IF p = g1 THEN 2 ELSE 0]

\* A job starts a job of its own.
NestedBudget == [p \in PairProc |-> 1]

TwoMsg == {m1, m2}
ThreeMsg == {m1, m2, m3}
FourMsg == {m1, m2, m3, m4}
FiveMsg == {m1, m2, m3, m4, m5}

NoBuffer == {}
OneBuffer == {b1}
OneGroup == [b \in Buffer |-> 1]

MsgSymmetry == Permutations(Msg)

\* The two job workers are alike.
TrioSymmetry == Permutations(Msg) \cup Permutations(JobWorker)
=============================================================================
