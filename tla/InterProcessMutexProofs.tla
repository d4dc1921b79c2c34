---------------------- MODULE InterProcessMutexProofs ----------------------
(***************************************************************************)
(* The inter-process mutex for any number of processes and of deaths: the  *)
(* only way to two holders is a process that, in handle_lock_error, reads  *)
(* the word of a live owner; on the other ways no futex call fails with an *)
(* error that the code does not expect, and try_lock gives up only on a    *)
(* mutex that it saw taken.  Three processes, or any number of them of     *)
(* which none dies with the mutex, never read the word of a live owner.    *)
(***************************************************************************)
EXTENDS InterProcessMutex, TLAPS

USE MutexAssumption

\* The word names the holder, if the holder is alive.
WordNamesHolder ==
  /\ \A p \in Proc : Holds(p) => word.owner = p
  /\ \A p \in Proc : word.owner = p /\ Alive(p) => Holds(p)

\* Sleepers are asleep, and while there is one the mutex has a live owner.
SleepersOK ==
  /\ \A p \in Proc : p \in sleepers <=> pc[p] = "asleep"
  /\ sleepers # {} => word.owner \in Proc /\ Alive(word.owner) /\ word.waiters

CtlTypeOK ==
  /\ word \in Word
  /\ sleepers \subseteq Proc
  /\ pc \in [Proc -> Point]
  /\ seen \in [Proc -> Word]
  /\ \A p \in Proc : pc[p] = "clear" => seen[p].owner \in Proc

MutexInv == CtlTypeOK /\ WordNamesHolder /\ SleepersOK

\* The word 0 is a word without an owner.
LEMMA FreeWord == Free \in Word /\ Free.owner = Nobody
BY DEF Free, Word

\* At first the word is 0 and nobody is inside.
LEMMA MutexInit == Init => MutexInv
BY DEF Init, MutexInv, CtlTypeOK, WordNamesHolder, SleepersOK, Word, Free, Point, Holds, Alive

\* A step that leaves the word and the sleepers alone and moves p between points
\* that are neither sleeping, nor holding, nor dead.
LEMMA MutexMove ==
  ASSUME MutexInv, NEW p \in Proc, NEW x, pc' = [pc EXCEPT ![p] = x],
         x \in {"idle", "cas", "trylock_pi", "lock_pi", "read", "clear"},
         pc[p] \in {"idle", "cas", "trylock_pi", "lock_pi", "read", "clear"},
         word' \in Word, word'.owner = word.owner, word.waiters => word'.waiters,
         UNCHANGED sleepers,
         seen' \in [Proc -> Word],
         \A q \in Proc : pc'[q] = "clear" => seen'[q].owner \in Proc
  PROVE  MutexInv'
BY ZenonT(60) DEF MutexInv, CtlTypeOK, WordNamesHolder, SleepersOK, Point, Holds, Alive

\* After an attempt a process starts the next one or returns.
LEMMA NextAttemptMoves ==
  ASSUME NEW p \in Proc, NextAttempt(p)
  PROVE  \E x \in {"idle", "cas"} : pc' = [pc EXCEPT ![p] = x]
BY DEF NextAttempt, Goto

\* p gets the mutex that nobody holds.
LEMMA MutexAcquired ==
  ASSUME MutexInv, NEW p \in Proc, pc' = [pc EXCEPT ![p] = "locked"],
         pc[p] \in {"cas", "trylock_pi", "lock_pi"},
         word.owner = Nobody, word' \in Word, word'.owner = p, UNCHANGED <<sleepers, seen>>
  PROVE  MutexInv'
<1>1. sleepers = {} /\ \A q \in Proc : ~Holds(q)
  BY DEF MutexInv, WordNamesHolder, SleepersOK
<1> QED
  BY <1>1 DEF MutexInv, CtlTypeOK, WordNamesHolder, SleepersOK, Point, Holds, Alive

\* The kernel hands the mutex of p to a sleeper.
LEMMA MutexHandedOver ==
  ASSUME MutexInv, NEW p \in Proc, NEW r \in sleepers, NEW d \in BOOLEAN, HandOver(r, d),
         NEW x \in {"idle", "dead"}, pc' = [pc EXCEPT ![p] = x, ![r] = "locked"],
         word.owner = p, seen' \in [Proc -> Word],
         \A q \in Proc \ {p} : seen'[q] = seen[q]
  PROVE  MutexInv'
<1>1. r \in Proc /\ r # p /\ pc[r] = "asleep" /\ Holds(p)
  BY DEF MutexInv, CtlTypeOK, WordNamesHolder, SleepersOK, Holds, Alive
<1>2. word' \in Word /\ word'.owner = r /\ word'.waiters /\ sleepers' = sleepers \ {r}
  BY <1>1 DEF HandOver, Word
<1> QED
  BY ZenonT(60), <1>1, <1>2
  DEF MutexInv, CtlTypeOK, WordNamesHolder, SleepersOK, Point, Holds, Alive

\* Every step that clears no live owner keeps the holder in the word.
LEMMA MutexStep ==
  ASSUME MutexInv, OnlyDeadOwnersCleared, NEW p \in Proc,
         StartLock(p) \/ StartTryLock(p) \/ Run(p) \/ Die(p)
  PROVE  MutexInv'
<1>0. CtlTypeOK /\ WordNamesHolder /\ SleepersOK
  BY DEF MutexInv
<1>1. CASE StartLock(p) \/ StartTryLock(p)
  BY <1>0, <1>1, MutexMove DEF StartLock, StartTryLock, Goto, CtlTypeOK
<1>2. CASE CasFails(p)
  <2>1. PICK x \in {"trylock_pi", "lock_pi"} : pc' = [pc EXCEPT ![p] = x]
    BY ZenonT(60), <1>2 DEF CasFails, Goto
  <2> QED
    BY ZenonT(60), <1>0, <1>2, <2>1, MutexMove DEF CasFails, CtlTypeOK
<1>3. CASE Cas(p)
  <2>1. word.owner = Nobody /\ word' \in Word /\ word'.owner = p
    BY <1>3 DEF Cas, Free, HeldBy, Word
  <2> QED
    BY ZenonT(60), <1>3, <2>1, MutexAcquired DEF Cas, Acquired, Goto
<1>4. CASE FutexGrants(p)
  <2>1. word' \in Word /\ word'.owner = p
    BY <1>0, <1>4 DEF FutexGrants, CtlTypeOK, Word
  <2> QED
    BY ZenonT(60), <1>4, <2>1, MutexAcquired DEF FutexGrants, Acquired, Goto, InFutex
<1>5. CASE FutexFindsDead(p)
  <2>1. word' \in Word /\ word'.owner = word.owner /\ word'.waiters
    BY ZenonT(60), <1>0, <1>5 DEF FutexFindsDead, CtlTypeOK, Word
  <2> QED
    BY ZenonT(60), <1>0, <1>5, <2>1, MutexMove DEF FutexFindsDead, InFutex, Goto, CtlTypeOK
<1>6. CASE TryLockFails(p)
  <2>1. word' \in Word /\ word'.owner = word.owner /\ word'.waiters
    BY ZenonT(60), <1>0, <1>6 DEF TryLockFails, CtlTypeOK, Word
  <2>2. PICK x \in {"idle", "cas"} : pc' = [pc EXCEPT ![p] = x]
    BY <1>6, NextAttemptMoves DEF TryLockFails
  <2> QED
    BY ZenonT(60), <1>0, <1>6, <2>1, <2>2, MutexMove DEF TryLockFails, CtlTypeOK
<1>7. CASE Sleep(p)
  <2>1. word' \in Word /\ word'.owner = word.owner /\ word'.waiters
    BY ZenonT(60), <1>0, <1>7 DEF Sleep, CtlTypeOK, Word
  <2> QED
    BY <1>0, <1>7, <2>1
    DEF Sleep, OwnerIsAlive, Goto, MutexInv, CtlTypeOK, WordNamesHolder, SleepersOK, Point,
        Holds, Alive
<1>8. CASE ReadDeadOwner(p)
  <2>1. CASE IsAbandoned
    <3>1. word.owner \in Proc /\ seen' = [seen EXCEPT ![p] = word]
      BY <1>0, <1>8, <2>1 DEF ReadDeadOwner, IsAbandoned, CtlTypeOK, Word
    <3> QED
      BY <1>0, <1>8, <2>1, <3>1, MutexMove DEF ReadDeadOwner, Goto, CtlTypeOK
  <2>2. CASE ~IsAbandoned
    <3>1. PICK x \in {"idle", "cas"} : pc' = [pc EXCEPT ![p] = x]
      BY <1>8, <2>2, NextAttemptMoves DEF ReadDeadOwner
    <3> QED
      BY ZenonT(60), <1>0, <1>8, <2>2, <3>1, MutexMove DEF ReadDeadOwner, CtlTypeOK
  <2> QED
    BY <2>1, <2>2
<1>9. CASE ClearDeadOwner(p)
  <2>1. PICK x \in {"idle", "cas"} : pc' = [pc EXCEPT ![p] = x]
    BY <1>9, NextAttemptMoves DEF ClearDeadOwner
  <2>2. seen' \in [Proc -> Word] /\ \A q \in Proc \ {p} : seen'[q] = seen[q]
    BY <1>0, <1>9 DEF ClearDeadOwner, CtlTypeOK, Free, Word
  <2>3. CASE word # seen[p]
    BY ZenonT(60), <1>0, <1>9, <2>1, <2>2, <2>3, MutexMove DEF ClearDeadOwner, Cleared, CtlTypeOK
  <2>4. CASE word = seen[p]
    <3>1. ~Alive(word.owner) /\ word.owner \in Proc
      BY <1>0, <1>9, <2>4 DEF OnlyDeadOwnersCleared, ClearDeadOwner, CtlTypeOK
    <3>2. sleepers = {} /\ \A q \in Proc : ~Holds(q)
      BY <1>0, <3>1 DEF WordNamesHolder, SleepersOK, Holds, Alive
    <3>3. word' \in Word /\ word'.owner = Nobody /\ sleepers' = sleepers
      BY <1>9, <2>4 DEF ClearDeadOwner, Cleared, Free, Word
    <3> QED
      BY <1>0, <1>9, <2>1, <2>2, <3>2, <3>3
      DEF ClearDeadOwner, MutexInv, CtlTypeOK, WordNamesHolder, SleepersOK, Point, Holds, Alive
  <2> QED
    BY <2>3, <2>4
<1>10. CASE Unlock(p)
  <2>1. CASE word = HeldBy(p)
    <3>1. sleepers = {} /\ word.owner = p
      BY <1>0, <2>1 DEF SleepersOK, HeldBy
    <3>2. word' \in Word /\ word'.owner = Nobody /\ pc' = [pc EXCEPT ![p] = "idle"]
      BY <1>10, <2>1, FreeWord DEF Unlock, Goto
    <3> QED
      BY <1>0, <1>10, <3>1, <3>2
      DEF Unlock, MutexInv, CtlTypeOK, WordNamesHolder, SleepersOK, Point, Holds, Alive
  <2>2. CASE word # HeldBy(p)
    BY <1>0, <1>10, <2>2
    DEF Unlock, Goto, MutexInv, CtlTypeOK, WordNamesHolder, SleepersOK, Point, Holds, Alive
  <2> QED
    BY <2>1, <2>2
<1>11. CASE UnlockPi(p)
  <2>1. CASE sleepers = {}
    <3>1. word' \in Word /\ word'.owner = Nobody /\ pc' = [pc EXCEPT ![p] = "idle"]
          /\ UNCHANGED <<sleepers, seen>> /\ word.owner = p
      BY <1>11, <2>1, FreeWord DEF UnlockPi, Goto
    <3> QED
      BY <1>0, <2>1, <3>1
      DEF MutexInv, CtlTypeOK, WordNamesHolder, SleepersOK, Point, Holds, Alive
  <2>2. CASE sleepers # {}
    BY ZenonT(60), <1>0, <1>11, <2>2, MutexHandedOver DEF UnlockPi, CtlTypeOK
  <2> QED
    BY <2>1, <2>2
<1>12. CASE Die(p)
  <2>1. seen' \in [Proc -> Word] /\ \A q \in Proc \ {p} : seen'[q] = seen[q]
    BY <1>0, <1>12 DEF Die, CtlTypeOK, Free, Word
  <2>2. CASE word.owner = p /\ sleepers # {}
    BY ZenonT(60), <1>0, <1>12, <2>1, <2>2, MutexHandedOver DEF Die
  <2>3. CASE ~(word.owner = p /\ sleepers # {})
    <3>1. /\ pc' = [pc EXCEPT ![p] = "dead"] /\ sleepers' = sleepers \ {p} /\ word' = word
          /\ word.owner = p => sleepers = {}
      BY ZenonT(60), <1>12, <2>3 DEF Die, Goto
    <3> QED
      BY <1>0, <2>1, <3>1
      DEF MutexInv, CtlTypeOK, WordNamesHolder, SleepersOK, Point, Holds, Alive
  <2> QED
    BY <2>2, <2>3
<1> QED
  BY <1>1, <1>2, <1>3, <1>4, <1>5, <1>6, <1>7, <1>8, <1>9, <1>10, <1>11, <1>12 DEF Run

\* Hence a holder is always the owner in the word, if only the dead are cleared.
LEMMA MutexInvariant == Spec /\ []OnlyDeadOwnersCleared => []MutexInv
<1>1. ASSUME MutexInv, OnlyDeadOwnersCleared, [Next]_vars PROVE MutexInv'
  <2>1. CASE UNCHANGED vars
    BY <1>1, <2>1
    DEF vars, MutexInv, CtlTypeOK, WordNamesHolder, SleepersOK, Holds, Alive
  <2> QED
    BY <1>1, <2>1, MutexStep DEF Next
<1> QED
  BY <1>1, MutexInit, PTL DEF Spec

\* For any number of processes and of deaths with the mutex held, two live processes
\* hold it at once only after a process read a live owner in handle_lock_error: the
\* check that is missing there is the only one that is missing.
THEOREM ClearingTheDeadIsSafe == Spec /\ []OnlyDeadOwnersCleared => []MutualExclusion
<1>1. MutexInv => MutualExclusion
  BY DEF MutexInv, WordNamesHolder, MutualExclusion
<1> QED
  BY <1>1, MutexInvariant, PTL

-----------------------------------------------------------------------------
(* What holds whichever word handle_lock_error clears: the types, and what  *)
(* try_lock may find while no live process holds the mutex.                 *)

\* The local variables of a process, point by point.
LocalsOK ==
  \A p \in Proc :
    /\ pc[p] \in {"idle", "locked", "unlock_pi", "dead"} => counter[p] = 0 /\ ~in_try[p]
    /\ pc[p] \in {"lock_pi", "asleep"} => ~in_try[p]
    /\ p \in sleepers => pc[p] = "asleep"
    /\ pc[p] = "clear" => seen[p].owner \in Proc /\ seen[p].waiters

\* A word that names a live process names a holder; without an owner it is 0.
WordOK ==
  /\ word.owner \in Proc /\ Alive(word.owner) => Holds(word.owner)
  /\ word.owner = Nobody => word = Free

\* A try_lock during which no live process held the mutex is past the dead holder
\* after its first attempt.
TryOKFor(p) ==
  in_try[p] /\ ~contended[p] =>
    /\ \A q \in Proc : ~Holds(q)
    /\ counter[p] # 0 => pc[p] = "cas" /\ word = Free
    /\ pc[p] = "read" => word = Free \/ (OwnerIsDead /\ word.waiters)
    /\ pc[p] = "clear" => word \in {Free, seen[p]}

TryOK == \A p \in Proc : TryOKFor(p)

TryInv == TypeOK /\ LocalsOK /\ WordOK /\ TryOK

\* At first no try_lock is under way.
LEMMA TryInit == Init => TryInv
BY DEF Init, TryInv, TypeOK, LocalsOK, WordOK, TryOK, TryOKFor, Word, Free, Point, Holds, Alive

\* The count of futex calls between two FUTEX_LOCK_PI comes round.
LEMMA NextRound ==
  ASSUME NEW c \in Nat, c < Rounds
  PROVE  (c + 1) % Rounds \in Nat /\ (c + 1) % Rounds < Rounds
<1>1. CASE c + 1 < Rounds
  BY <1>1
<1>2. CASE c + 1 = Rounds
  BY <1>2
<1> QED
  BY <1>1, <1>2

\* The end of a failed attempt.
LEMMA NextAttemptOK ==
  ASSUME TypeOK, LocalsOK, NEW p \in Proc, NextAttempt(p),
         pc[p] \in {"trylock_pi", "read", "clear"},
         UNCHANGED sleepers,
         word' \in Word, seen' \in [Proc -> Word], \A q \in Proc \ {p} : seen'[q] = seen[q],
         UNCHANGED <<deaths, contended>>
  PROVE  /\ TypeOK' /\ LocalsOK'
         /\ pc'[p] \in {"idle", "cas"} /\ \A q \in Proc \ {p} : pc'[q] = pc[q]
         /\ in_try'[p] => pc'[p] = "cas"
<1>1. CASE ~in_try[p]
  BY ZenonT(60), <1>1 DEF NextAttempt, Goto, TypeOK, LocalsOK, Point
<1>2. CASE in_try[p] /\ counter[p] + 1 < Attempts
  <2>1. /\ counter' = [counter EXCEPT ![p] = @ + 1] /\ pc' = [pc EXCEPT ![p] = "cas"]
        /\ in_try' = in_try
    BY <1>2 DEF NextAttempt, Goto
  <2>2. \A q \in Proc : counter'[q] \in Nat /\ counter'[q] < IF in_try'[q] THEN Attempts ELSE Rounds
    BY <1>2, <2>1 DEF TypeOK
  <2>3. TypeOK'
    BY <2>1, <2>2 DEF TypeOK, Point
  <2>4. LocalsOK'
    BY <2>1, <2>2, <1>2 DEF TypeOK, LocalsOK
  <2> QED
    BY <2>1, <2>3, <2>4 DEF TypeOK
<1>3. CASE in_try[p] /\ ~(counter[p] + 1 < Attempts)
  <2>1. /\ counter' = [counter EXCEPT ![p] = 0] /\ pc' = [pc EXCEPT ![p] = "idle"]
        /\ in_try' = [in_try EXCEPT ![p] = FALSE]
    BY <1>3 DEF NextAttempt, Goto
  <2>2. \A q \in Proc : counter'[q] \in Nat /\ counter'[q] < IF in_try'[q] THEN Attempts ELSE Rounds
    BY <1>3, <2>1 DEF TypeOK
  <2>3. TypeOK'
    BY <2>1, <2>2 DEF TypeOK, Point
  <2>4. LocalsOK'
    BY <2>1, <2>2, <1>3 DEF TypeOK, LocalsOK
  <2> QED
    BY <2>1, <2>3, <2>4 DEF TypeOK
<1> QED
  BY <1>1, <1>2, <1>3

\* Every step keeps the types, and the counters where the point says.
LEMMA LocalsStep ==
  ASSUME TypeOK, LocalsOK, WordOK, NEW p \in Proc,
         StartLock(p) \/ StartTryLock(p) \/ Run(p) \/ Die(p)
  PROVE  TypeOK' /\ LocalsOK'
<1>1. CASE StartLock(p) \/ StartTryLock(p)
  <2>1. \A q \in Proc : counter'[q] \in Nat /\ counter'[q] < IF in_try'[q] THEN Attempts ELSE Rounds
    BY <1>1 DEF StartLock, StartTryLock, TypeOK, LocalsOK
  <2>2. TypeOK'
    BY ZenonT(60), <1>1, <2>1 DEF StartLock, StartTryLock, Goto, TypeOK, Point
  <2>3. LocalsOK'
    BY <1>1 DEF StartLock, StartTryLock, Goto, TypeOK, LocalsOK
  <2> QED
    BY <2>2, <2>3
<1>2. CASE CasFails(p)
  <2>1. ~in_try[p] => (counter[p] + 1) % Rounds \in Nat /\ (counter[p] + 1) % Rounds < Rounds
    BY NextRound DEF TypeOK
  <2> QED
    BY <1>2, <2>1 DEF CasFails, Goto, TypeOK, LocalsOK, Point
<1>3. CASE Cas(p)
  BY <1>3 DEF Cas, Acquired, Goto, HeldBy, Word, TypeOK, LocalsOK, Point
<1>4. CASE FutexGrants(p)
  BY <1>4 DEF FutexGrants, Acquired, InFutex, Goto, Word, TypeOK, LocalsOK, Point
<1>5. CASE FutexFindsDead(p)
  BY ZenonT(60), <1>5 DEF FutexFindsDead, InFutex, Goto, Word, TypeOK, LocalsOK, Point
<1>6. CASE TryLockFails(p)
  <2>1. word' \in Word
    BY ZenonT(60), <1>6 DEF TryLockFails, Word, TypeOK
  <2> QED
    BY ZenonT(60), <1>6, <2>1, NextAttemptOK DEF TryLockFails, TypeOK
<1>7. CASE Sleep(p)
  BY ZenonT(60), <1>7 DEF Sleep, Goto, Word, TypeOK, LocalsOK, Point
<1>8. CASE ReadDeadOwner(p)
  <2>1. CASE IsAbandoned
    BY <1>8, <2>1 DEF ReadDeadOwner, IsAbandoned, Goto, Word, TypeOK, LocalsOK, Point
  <2>2. CASE ~IsAbandoned
    BY <1>8, <2>2, NextAttemptOK DEF ReadDeadOwner, TypeOK
  <2> QED
    BY <2>1, <2>2
<1>9. CASE ClearDeadOwner(p)
  <2>1. word' \in Word /\ seen' \in [Proc -> Word] /\ \A q \in Proc \ {p} : seen'[q] = seen[q]
    BY <1>9 DEF ClearDeadOwner, Cleared, TypeOK, Free, Word
  <2> QED
    BY <1>9, <2>1, NextAttemptOK DEF ClearDeadOwner
<1>10. CASE Unlock(p)
  BY <1>10, FreeWord DEF Unlock, Goto, TypeOK, LocalsOK, Point
<1>11. CASE UnlockPi(p)
  <2>1. CASE sleepers = {}
    BY <1>11, <2>1, FreeWord DEF UnlockPi, Goto, TypeOK, LocalsOK, Point
  <2>2. CASE sleepers # {}
    <3>1. PICK r \in sleepers :
            /\ HandOver(r, FALSE)
            /\ pc' = [pc EXCEPT ![p] = "idle", ![r] = "locked"]
            /\ contended' = [q \in Proc |-> contended[q] \/ in_try[q]]
      BY ZenonT(60), <1>11, <2>2 DEF UnlockPi
    <3>2. r \in Proc /\ r # p /\ word' \in Word /\ sleepers' = sleepers \ {r}
      BY <1>11, <3>1 DEF UnlockPi, HandOver, Word, TypeOK, LocalsOK
    <3>3. \A q \in Proc : counter'[q] = IF q = r THEN 0 ELSE counter[q]
      BY <1>11, <3>1, <3>2 DEF UnlockPi, TypeOK, LocalsOK
    <3>4. TypeOK'
      BY SMTT(60), <1>11, <3>1, <3>2, <3>3 DEF UnlockPi, TypeOK, Point
    <3>5. LocalsOK'
      BY <1>11, <3>1, <3>2, <3>3 DEF UnlockPi, TypeOK, LocalsOK
    <3> QED
      BY <3>4, <3>5
  <2> QED
    BY <2>1, <2>2
<1>12. CASE Die(p)
  <2>1. /\ in_try' = [in_try EXCEPT ![p] = FALSE] /\ seen' = [seen EXCEPT ![p] = Free]
        /\ counter' = [q \in Proc |-> IF pc'[q] \in {"locked", "dead"} THEN 0 ELSE counter[q]]
        /\ deaths' \in 0 .. MaxDeaths
    BY <1>12 DEF Die, TypeOK
  <2>2. /\ pc' \in [Proc -> Point] /\ pc'[p] = "dead" /\ p \notin sleepers'
        /\ \A q \in Proc \ {p} :
             pc'[q] = pc[q] \/ (pc'[q] = "locked" /\ q \in sleepers \ sleepers')
        /\ word' \in Word /\ sleepers' \subseteq sleepers /\ contended' \in [Proc -> BOOLEAN]
    <3>1. CASE word.owner = p /\ sleepers # {}
      <4>1. PICK r \in sleepers :
              /\ HandOver(r, TRUE) /\ pc' = [pc EXCEPT ![p] = "dead", ![r] = "locked"]
              /\ contended' = [q \in Proc |-> q # p /\ (contended[q] \/ in_try[q])]
        BY ZenonT(60), <1>12, <3>1 DEF Die
      <4>2. r \in Proc /\ r # p /\ p \notin sleepers
        BY <1>12, <3>1 DEF Die, TypeOK, LocalsOK, WordOK, Holds
      <4>3. word' \in Word /\ sleepers' = sleepers \ {r}
        BY <4>1, <4>2 DEF HandOver, Word
      <4>4. contended' \in [Proc -> BOOLEAN]
        BY ZenonT(60), <4>1
      <4>5. pc' \in [Proc -> Point] /\ pc'[p] = "dead"
        BY <4>1, <4>2 DEF TypeOK, Point
      <4>6. /\ p \notin sleepers' /\ sleepers' \subseteq sleepers
            /\ \A q \in Proc \ {p} :
             pc'[q] = pc[q] \/ (pc'[q] = "locked" /\ q \in sleepers \ sleepers')
        BY <4>1, <4>2, <4>3 DEF TypeOK
      <4> QED
        BY ZenonT(60), <4>3, <4>4, <4>5, <4>6
    <3>2. CASE ~(word.owner = p /\ sleepers # {})
      <4>1. /\ pc' = [pc EXCEPT ![p] = "dead"] /\ sleepers' = sleepers \ {p} /\ word' = word
            /\ contended' = [contended EXCEPT ![p] = FALSE]
        BY ZenonT(60), <1>12, <3>2 DEF Die, Goto
      <4>2. contended' \in [Proc -> BOOLEAN]
        BY ZenonT(60), <4>1 DEF TypeOK
      <4>3. pc' \in [Proc -> Point] /\ pc'[p] = "dead" /\ \A q \in Proc \ {p} : pc'[q] = pc[q]
        BY <4>1 DEF TypeOK, Point
      <4>4. p \notin sleepers' /\ sleepers' \subseteq sleepers /\ word' \in Word
        BY <4>1 DEF TypeOK
      <4> QED
        BY ZenonT(60), <4>2, <4>3, <4>4
    <3> QED
      BY <3>1, <3>2
  <2>3. \A q \in Proc : counter'[q] \in Nat /\ counter'[q] < IF in_try'[q] THEN Attempts ELSE Rounds
    BY <2>1, <2>2 DEF TypeOK
  <2>4. TypeOK'
    BY ZenonT(60), <2>1, <2>2, <2>3, FreeWord DEF TypeOK
  <2>5. LocalsOK'
    BY <2>1, <2>2 DEF TypeOK, LocalsOK
  <2> QED
    BY <2>4, <2>5
<1> QED
  BY <1>1, <1>2, <1>3, <1>4, <1>5, <1>6, <1>7, <1>8, <1>9, <1>10, <1>11, <1>12 DEF Run

\* Nobody holds the mutex during a try_lock that is not contended.
LEMMA NobodyHolds ==
  ASSUME TryInv, NEW p \in Proc, in_try[p], ~contended[p]
  PROVE  /\ \A q \in Proc : ~Holds(q) /\ (q = word.owner => ~Alive(q))
         /\ pc[p] \in {"cas", "trylock_pi", "read", "clear"}
<1>1. TypeOK /\ LocalsOK /\ WordOK /\ TryOKFor(p)
  BY DEF TryInv, TryOK
<1>2. \A q \in Proc : ~Holds(q)
  BY ZenonT(60), <1>1 DEF TryOKFor
<1>3. pc[p] \in Point
  BY <1>1 DEF TypeOK
<1> QED
  BY <1>1, <1>2, <1>3 DEF LocalsOK, WordOK, Point, Holds

\* A step of another process that takes the mutex from nobody.
LEMMA TryUndisturbed ==
  ASSUME TryInv, NEW q \in Proc, in_try[q], ~contended[q],
         pc'[q] = pc[q], counter'[q] = counter[q], seen'[q] = seen[q],
         \A r \in Proc : ~Holds(r)',
         \A r \in Proc : ~Alive(r) => ~Alive(r)',
         \/ word' \in {word, Free}
         \/ word' = [word EXCEPT !.waiters = TRUE] /\ word.owner \in Proc
  PROVE  TryOKFor(q)'
<1>1. TypeOK /\ LocalsOK /\ WordOK /\ TryOKFor(q)
  BY DEF TryInv, TryOK
<1>2. word' \in {word, Free} \/ word' = [owner |-> word.owner, waiters |-> TRUE, died |-> word.died]
  BY <1>1 DEF TypeOK, Word
<1>3. CASE word' = word
  BY <1>1, <1>3 DEF TryOKFor, OwnerIsDead
<1>4. CASE word' = Free
  BY <1>1, <1>4 DEF TryOKFor
<1>5. CASE word' # word /\ word' # Free
  <2>1. word' = [owner |-> word.owner, waiters |-> TRUE, died |-> word.died]
    BY <1>2, <1>5
  <2>2. word.owner \in Proc /\ word # Free
    BY <1>5 DEF Free
  <2>3. word.waiters # TRUE
    BY ZenonT(60), <1>1, <1>5, <2>1 DEF TypeOK, Word
  <2>4. ~word.waiters
    BY ZenonT(60), <1>1, <2>3 DEF TypeOK, Word
  <2> QED
    BY <1>1, <2>1, <2>2, <2>4 DEF TryOKFor, LocalsOK, OwnerIsDead
<1> QED
  BY <1>3, <1>4, <1>5

\* A step of p that neither takes nor has the mutex.
LEMMA TryOthers ==
  ASSUME TryInv, NEW p \in Proc, ~Holds(p), ~Holds(p)',
         \A q \in Proc \ {p} : /\ pc'[q] = pc[q] /\ counter'[q] = counter[q]
                               /\ seen'[q] = seen[q] /\ in_try'[q] = in_try[q]
                               /\ contended'[q] = contended[q],
         ~Alive(p) => ~Alive(p)',
         \/ word' \in {word, Free}
         \/ word' = [word EXCEPT !.waiters = TRUE] /\ word.owner \in Proc,
         TryOKFor(p)'
  PROVE  TryOK'
<1> SUFFICES ASSUME NEW q \in Proc, q # p, in_try[q], ~contended[q] PROVE TryOKFor(q)'
  BY ZenonT(60) DEF TryOK, TryOKFor
<1>1. \A r \in Proc : ~Holds(r)'
  BY NobodyHolds DEF Holds
<1>2. \A r \in Proc : ~Alive(r) => ~Alive(r)'
  BY DEF Alive
<1> QED
  BY <1>1, <1>2, TryUndisturbed

\* After it, every try_lock that runs is contended.
LEMMA TryAllContended ==
  ASSUME \A q \in Proc : in_try'[q] => contended'[q]
  PROVE  TryOK'
BY DEF TryOK, TryOKFor

\* The end of an attempt keeps what is known of the try_locks, if it leaves the word free
\* for a process that met no live holder.
LEMMA NextAttemptTry ==
  ASSUME TryInv, NEW p \in Proc, NextAttempt(p), pc[p] \in {"trylock_pi", "read", "clear"},
         TypeOK', LocalsOK', UNCHANGED <<sleepers, deaths, contended>>,
         \A q \in Proc \ {p} : seen'[q] = seen[q],
         \/ word' \in {word, Free}
         \/ word' = [word EXCEPT !.waiters = TRUE] /\ word.owner \in Proc,
         in_try[p] /\ ~contended[p] => word' = Free
  PROVE  TryOK'
<1>1. TypeOK /\ LocalsOK /\ WordOK /\ TryOKFor(p)
  BY DEF TryInv, TryOK
<1>2. /\ pc'[p] \in {"idle", "cas"}
      /\ in_try'[p] => in_try[p] /\ pc'[p] = "cas"
      /\ \A q \in Proc \ {p} : /\ pc'[q] = pc[q] /\ counter'[q] = counter[q]
                               /\ in_try'[q] = in_try[q]
  BY <1>1 DEF NextAttempt, Goto, TypeOK
<1>3. TryOKFor(p)'
  <2> SUFFICES ASSUME in_try'[p], ~contended'[p] 
               PROVE  (\A q \in Proc : ~Holds(q)') /\ pc'[p] = "cas" /\ word' = Free
    BY <1>2 DEF TryOKFor
  <2> QED
    BY <1>2, NobodyHolds DEF Holds
<1> QED
  BY <1>2, <1>3, TryOthers DEF Holds, Alive

\* Every step keeps what is known of the try_locks under way.
LEMMA TryStep ==
  ASSUME TryInv, NEW p \in Proc,
         StartLock(p) \/ StartTryLock(p) \/ Run(p) \/ Die(p)
  PROVE  TryInv'
<1>0. TypeOK /\ LocalsOK /\ WordOK /\ TryOKFor(p)
  BY DEF TryInv, TryOK
<1>t. TypeOK' /\ LocalsOK'
  BY <1>0, LocalsStep
<1> SUFFICES WordOK' /\ TryOK'
  BY <1>t DEF TryInv
<1>1. CASE StartLock(p)
  <2>1. WordOK'
    BY <1>0, <1>1 DEF StartLock, Goto, WordOK, TypeOK, Holds, Alive
  <2>2. TryOKFor(p)'
    BY <1>0, <1>1 DEF StartLock, Goto, LocalsOK, TryOKFor
  <2> QED
    BY <1>0, <1>1, <2>1, <2>2, TryOthers DEF StartLock, Goto, TypeOK, Holds, Alive
<1>2. CASE StartTryLock(p)
  <2>1. WordOK'
    BY <1>0, <1>2 DEF StartTryLock, Goto, WordOK, TypeOK, Holds, Alive
  <2>2. TryOKFor(p)'
    BY <1>0, <1>2 DEF StartTryLock, Goto, LocalsOK, TypeOK, TryOKFor, Holds
  <2> QED
    BY ZenonT(60), <1>0, <1>2, <2>1, <2>2, TryOthers DEF StartTryLock, Goto, TypeOK, Holds, Alive
<1>3. CASE CasFails(p)
  <2>1. WordOK'
    BY <1>0, <1>3 DEF CasFails, Goto, WordOK, TypeOK, Holds, Alive
  <2>2. TryOKFor(p)'
    BY <1>0, <1>3 DEF CasFails, Goto, LocalsOK, TypeOK, TryOKFor, Holds
  <2> QED
    BY <1>0, <1>3, <2>1, <2>2, TryOthers DEF CasFails, Goto, TypeOK, Holds, Alive
<1>4. CASE Cas(p) \/ FutexGrants(p)
  <2>1. word'.owner = p /\ pc' = [pc EXCEPT ![p] = "locked"]
    BY <1>0, <1>4 DEF Cas, FutexGrants, Acquired, Goto, HeldBy, TypeOK, Word
  <2>2. WordOK'
    BY <1>0, <2>1 DEF WordOK, TypeOK, Holds
  <2>3. \A q \in Proc : in_try'[q] => contended'[q]
    BY <1>0, <1>4 DEF Cas, FutexGrants, Acquired, TypeOK
  <2> QED
    BY <2>2, <2>3, TryAllContended
<1>5. CASE FutexFindsDead(p)
  <2>0. /\ word' = [owner |-> word.owner, waiters |-> TRUE, died |-> word.died]
        /\ word.owner \in Proc
    BY ZenonT(60), <1>0, <1>5 DEF FutexFindsDead, OwnerIsDead, TypeOK, Word
  <2>1. WordOK'
    BY <1>0, <1>5, <2>0 DEF FutexFindsDead, OwnerIsDead, InFutex, Goto, WordOK, TypeOK, Holds, Alive
  <2>2. TryOKFor(p)'
    BY <1>0, <1>5, <2>0
    DEF FutexFindsDead, OwnerIsDead, InFutex, Goto, LocalsOK, TypeOK, TryOKFor, Holds, Alive
  <2>3. /\ ~Holds(p) /\ ~Holds(p)' /\ Alive(p)
        /\ \A q \in Proc \ {p} : pc'[q] = pc[q]
    BY <1>0, <1>5 DEF FutexFindsDead, InFutex, Goto, TypeOK, Holds, Alive
  <2> QED
    BY <1>5, <2>0, <2>1, <2>2, <2>3, TryOthers DEF FutexFindsDead
<1>6. CASE TryLockFails(p)
  <2>1. /\ word' = [owner |-> word.owner, waiters |-> TRUE, died |-> word.died]
        /\ word.owner \in Proc \ {p} /\ Holds(word.owner)
    BY ZenonT(60), <1>0, <1>6 DEF TryLockFails, OwnerIsAlive, WordOK, TypeOK, Word
  <2>2. PICK x \in {"idle", "cas"} : pc' = [pc EXCEPT ![p] = x]
    BY <1>6, NextAttemptMoves DEF TryLockFails
  <2>3. WordOK'
    BY <1>0, <2>1, <2>2 DEF WordOK, TypeOK, Holds, Alive
  <2>4. in_try[p] => contended[p]
    BY <2>1, NobodyHolds
  <2> QED
    BY <1>6, <1>t, <2>1, <2>3, <2>4, NextAttemptTry DEF TryLockFails
<1>7. CASE Sleep(p)
  <2>0. /\ word' = [owner |-> word.owner, waiters |-> TRUE, died |-> word.died]
        /\ word.owner \in Proc
    BY ZenonT(60), <1>0, <1>7 DEF Sleep, OwnerIsAlive, TypeOK, Word
  <2>1. WordOK'
    BY <1>0, <1>7, <2>0 DEF Sleep, OwnerIsAlive, Goto, WordOK, TypeOK, Holds, Alive
  <2>2. TryOKFor(p)'
    BY <1>0, <1>7 DEF Sleep, LocalsOK, TryOKFor
  <2>3. /\ ~Holds(p) /\ ~Holds(p)' /\ Alive(p)
        /\ \A q \in Proc \ {p} : pc'[q] = pc[q]
    BY <1>0, <1>7 DEF Sleep, Goto, TypeOK, Holds, Alive
  <2> QED
    BY <1>7, <2>0, <2>1, <2>2, <2>3, TryOthers DEF Sleep
<1>8. CASE ReadDeadOwner(p)
  <2>1. CASE IsAbandoned
    <3>1. WordOK'
      BY <1>0, <1>8, <2>1 DEF ReadDeadOwner, Goto, WordOK, TypeOK, Holds, Alive
    <3>2. TryOKFor(p)'
      BY <1>0, <1>8, <2>1 DEF ReadDeadOwner, Goto, TypeOK, TryOKFor, Holds
    <3>3. /\ ~Holds(p) /\ ~Holds(p)' /\ Alive(p)
          /\ \A q \in Proc \ {p} : pc'[q] = pc[q] /\ seen'[q] = seen[q]
      BY <1>0, <1>8, <2>1 DEF ReadDeadOwner, Goto, TypeOK, Holds, Alive
    <3> QED
      BY <1>8, <2>1, <3>1, <3>2, <3>3, TryOthers DEF ReadDeadOwner
  <2>2. CASE ~IsAbandoned
    <3>1. PICK x \in {"idle", "cas"} : pc' = [pc EXCEPT ![p] = x]
      BY <1>8, <2>2, NextAttemptMoves DEF ReadDeadOwner
    <3>2. WordOK'
      BY <1>0, <1>8, <2>2, <3>1 DEF ReadDeadOwner, WordOK, TypeOK, Holds, Alive
    <3>3. in_try[p] /\ ~contended[p] => word = Free
      BY <1>0, <1>8, <2>2 DEF ReadDeadOwner, IsAbandoned, TryOKFor, OwnerIsDead
    <3> QED
      BY <1>8, <1>t, <2>2, <3>2, <3>3, NextAttemptTry DEF ReadDeadOwner
  <2> QED
    BY <2>1, <2>2
<1>9. CASE ClearDeadOwner(p)
  <2>1. PICK x \in {"idle", "cas"} : pc' = [pc EXCEPT ![p] = x]
    BY <1>9, NextAttemptMoves DEF ClearDeadOwner
  <2>2. word' \in {word, Free} /\ \A q \in Proc \ {p} : seen'[q] = seen[q]
    BY <1>0, <1>9 DEF ClearDeadOwner, Cleared, TypeOK
  <2>3. WordOK'
    BY <1>0, <1>9, <2>1, <2>2 DEF ClearDeadOwner, WordOK, TypeOK, Free, Holds, Alive
  <2>4. in_try[p] /\ ~contended[p] => word' = Free
    BY <1>0, <1>9 DEF ClearDeadOwner, Cleared, TryOKFor
  <2> QED
    BY <1>9, <1>t, <2>2, <2>3, <2>4, NextAttemptTry DEF ClearDeadOwner
<1>10. CASE Unlock(p) \/ UnlockPi(p)
  <2>1. Holds(p)
    BY ZenonT(60), <1>10 DEF Unlock, UnlockPi, Holds
  <2>2. \A q \in Proc : in_try[q] => contended[q]
    BY <2>1, NobodyHolds
  <2>3. \A q \in Proc : in_try'[q] => contended'[q]
    BY ZenonT(60), <1>10, <2>2 DEF Unlock, UnlockPi
  <2>4. WordOK'
    <3>1. CASE word' = Free
      BY <3>1 DEF WordOK, Free
    <3>2. CASE Unlock(p) /\ word' # Free
      BY <1>0, <3>2 DEF Unlock, Goto, WordOK, TypeOK, Holds, Alive
    <3>3. CASE UnlockPi(p) /\ word' # Free
      BY <1>0, <3>3 DEF UnlockPi, HandOver, WordOK, TypeOK, Holds
    <3> QED
      BY <1>10, <3>1, <3>2, <3>3
  <2> QED
    BY <2>3, <2>4, TryAllContended
<1>11. CASE Die(p)
  <2>1. CASE word.owner = p /\ sleepers # {}
    <3>1. Holds(p)
      BY <1>0, <1>11, <2>1 DEF Die, WordOK
    <3>2. PICK r \in sleepers :
            /\ HandOver(r, TRUE) /\ pc' = [pc EXCEPT ![p] = "dead", ![r] = "locked"]
            /\ contended' = [q \in Proc |-> q # p /\ (contended[q] \/ in_try[q])]
      BY ZenonT(60), <1>11, <2>1 DEF Die
    <3>3. WordOK'
      BY SMTT(60), <1>0, <3>2 DEF HandOver, WordOK, TypeOK, Holds
    <3>4. \A q \in Proc : in_try'[q] => contended'[q]
      BY SMTT(60), <1>0, <1>11, <3>2 DEF Die, TypeOK
    <3> QED
      BY SMTT(60), <3>3, <3>4, TryAllContended
  <2>2. CASE ~(word.owner = p /\ sleepers # {})
    <3>1. /\ pc' = [pc EXCEPT ![p] = "dead"] /\ word' = word
          /\ contended' = [contended EXCEPT ![p] = FALSE]
          /\ in_try' = [in_try EXCEPT ![p] = FALSE]
          /\ seen' = [seen EXCEPT ![p] = Free]
          /\ counter' = [q \in Proc |-> IF pc'[q] \in {"locked", "dead"} THEN 0 ELSE counter[q]]
      BY ZenonT(60), <1>11, <2>2 DEF Die, Goto
    <3>2. WordOK'
      BY <1>0, <3>1 DEF WordOK, TypeOK, Holds, Alive
    <3>3. ASSUME NEW q \in Proc, in_try'[q], ~contended'[q] PROVE TryOKFor(q)'
      <4>1. /\ q # p /\ in_try[q] /\ ~contended[q] /\ pc'[q] = pc[q] /\ seen'[q] = seen[q]
        BY <1>0, <3>1, <3>3 DEF TypeOK
      <4>2. counter'[q] = counter[q]
        BY <3>1, <4>1, NobodyHolds
      <4>3. /\ \A r \in Proc : ~Holds(r)'
            /\ \A r \in Proc : ~Alive(r) => ~Alive(r)'
        BY <1>0, <3>1, <4>1, NobodyHolds DEF TypeOK, Holds, Alive
      <4> QED
        BY <3>1, <4>1, <4>2, <4>3, TryUndisturbed
    <3> QED
      BY <3>2, <3>3 DEF TryOK, TryOKFor
  <2> QED
    BY <2>1, <2>2
<1> QED
  BY <1>1, <1>2, <1>3, <1>4, <1>5, <1>6, <1>7, <1>8, <1>9, <1>10, <1>11 DEF Run

\* It holds in every state, whatever handle_lock_error clears.
LEMMA TryInvariant == Spec => []TryInv
<1>1. ASSUME TryInv, [Next]_vars PROVE TryInv'
  <2>1. CASE UNCHANGED vars
    BY <1>1, <2>1
    DEF vars, TryInv, TypeOK, LocalsOK, WordOK, TryOK, TryOKFor, OwnerIsDead, Holds, Alive
  <2> QED
    BY <1>1, <2>1, TryStep DEF Next
<1> QED
  BY <1>1, TryInit, PTL DEF Spec

\* Only a failed last attempt ends a try_lock.
LEMMA TryLockEnds ==
  ASSUME TryInv, NEW p \in Proc, in_try[p], [Next]_vars, pc'[p] = "idle"
  PROVE  /\ pc[p] \in {"trylock_pi", "read", "clear"}
         /\ counter[p] + 1 >= Attempts
<1>0. TypeOK /\ LocalsOK /\ pc[p] \notin {"idle", "unlock_pi", "locked"}
  BY DEF TryInv, LocalsOK
<1>1. PICK q \in Proc : StartLock(q) \/ StartTryLock(q) \/ Run(q) \/ Die(q)
  BY <1>0 DEF Next, vars
<1>2. CASE q # p
  <2>1. pc'[p] # "idle"
    <3>1. CASE StartLock(q) \/ StartTryLock(q) \/ Cas(q) \/ CasFails(q) \/ FutexGrants(q)
               \/ FutexFindsDead(q) \/ Sleep(q) \/ Unlock(q)
      BY ZenonT(60), <1>0, <1>2, <3>1
      DEF StartLock, StartTryLock, Cas, Acquired, CasFails, FutexGrants, FutexFindsDead, Sleep,
          Unlock, Goto, TypeOK
    <3>2. CASE TryLockFails(q) \/ ReadDeadOwner(q) \/ ClearDeadOwner(q)
      BY ZenonT(60), <1>0, <1>2, <3>2
      DEF TryLockFails, ReadDeadOwner, ClearDeadOwner, NextAttempt, Goto, TypeOK
    <3>3. CASE UnlockPi(q) \/ Die(q)
      BY ZenonT(60), <1>0, <1>2, <3>3 DEF UnlockPi, Die, Goto, TypeOK
    <3> QED
      BY <1>1, <3>1, <3>2, <3>3 DEF Run
  <2> QED
    BY <2>1
<1>3. CASE q = p
  <2>1. TryLockFails(p) \/ ReadDeadOwner(p) \/ ClearDeadOwner(p)
    BY ZenonT(60), <1>0, <1>1, <1>3
    DEF Run, StartLock, StartTryLock, Cas, Acquired, CasFails, FutexGrants, FutexFindsDead,
        Sleep, Unlock, UnlockPi, Die, Goto, TypeOK
  <2>2. NextAttempt(p) /\ pc[p] \in {"trylock_pi", "read", "clear"}
    BY <1>0, <2>1 DEF TryLockFails, ReadDeadOwner, ClearDeadOwner, Goto, TypeOK
  <2> QED
    BY <1>0, <2>2 DEF NextAttempt, Goto, TypeOK
<1> QED
  BY <1>2, <1>3

\* The word, the flags of the kernel and the counters keep their types, and the
\* counters stay below Rounds in lock and below Attempts in try_lock.
THEOREM MutexTypeCorrect == Spec => []TypeOK
BY TryInvariant, PTL DEF TryInv

\* With the two attempts of the code, or more, and for any number of processes and of
\* deaths, try_lock returns false only if a live process held the mutex meanwhile.
\* This needs nothing of handle_lock_error: it holds whichever word is cleared.
THEOREM TryLockFailsHonestly ==
  ASSUME Attempts >= 2
  PROVE  Spec => TryLockIsHonest
<1>1. ASSUME TryInv, [Next]_vars, NEW p \in Proc, in_try[p], pc'[p] = "idle"
      PROVE  contended[p]
  BY <1>1, TryLockEnds DEF TryInv, TryOK, TryOKFor, TypeOK
<1>2. TryInv /\ [Next]_vars
      => [\A p \in Proc : in_try[p] /\ pc'[p] = "idle" => contended[p]]_vars
  BY <1>1
<1> QED
  BY <1>2, TryInvariant, PTL DEF Spec, TryLockIsHonest

\* As long as handle_lock_error clears the words of dead processes only, no futex call
\* of lock, try_lock or unlock ends in runtime_critical_error.
THEOREM NoFutexCallFails == Spec /\ []OnlyDeadOwnersCleared => []NoFutexError
<1>1. MutexInv => NoFutexError
  BY ZenonT(60) DEF MutexInv, WordNamesHolder, SleepersOK, NoFutexError, InFutex, Holds, Alive
<1> QED
  BY <1>1, MutexInvariant, PTL

-----------------------------------------------------------------------------
(* What it takes to clear the word of a live process.                       *)

\* At most one process is between the ESRCH of the kernel and its compare and swap.
OneClearer ==
  \A p, q \in Proc : pc[p] \in {"read", "clear"} /\ pc[q] \in {"read", "clear"} => p = q

ReadsDeadOwner == \A p \in Proc : pc[p] = "read" => OwnerIsDead

\* What the steps do to the points of the processes: the dead stay dead, and only the
\* kernel leads into handle_lock_error.
LEMMA PointsStep ==
  ASSUME MutexInv, NEW p \in Proc, StartLock(p) \/ StartTryLock(p) \/ Run(p) \/ Die(p),
         NEW q \in Proc
  PROVE  /\ ~Alive(q) => ~Alive(q)'
         /\ pc'[q] = "read" => pc[q] = "read" \/ FutexFindsDead(q)
         /\ pc'[q] = "clear" => \/ pc[q] = "clear" /\ seen'[q] = seen[q]
                                \/ pc[q] = "read" /\ IsAbandoned /\ seen'[q] = word
<1>0. /\ pc \in [Proc -> Point] /\ seen \in [Proc -> Word]
      /\ \A r \in sleepers : r \in Proc /\ pc[r] = "asleep"
  BY DEF MutexInv, CtlTypeOK, SleepersOK
<1>1. CASE StartLock(p) \/ StartTryLock(p) \/ Cas(p) \/ CasFails(p) \/ FutexGrants(p)
           \/ FutexFindsDead(p) \/ Sleep(p) \/ Unlock(p)
  BY ZenonT(60), <1>0, <1>1
  DEF StartLock, StartTryLock, Cas, Acquired, CasFails, FutexGrants, FutexFindsDead, InFutex,
      Sleep, Unlock, Goto, Alive
<1>2. CASE TryLockFails(p) \/ ClearDeadOwner(p) \/ (ReadDeadOwner(p) /\ ~IsAbandoned)
  <2>1. PICK x \in {"idle", "cas"} : pc' = [pc EXCEPT ![p] = x]
    BY <1>2, NextAttemptMoves DEF TryLockFails, ClearDeadOwner, ReadDeadOwner
  <2> QED
    BY ZenonT(60), <1>0, <1>2, <2>1 DEF TryLockFails, ClearDeadOwner, ReadDeadOwner, Alive
<1>3. CASE ReadDeadOwner(p) /\ IsAbandoned
  BY ZenonT(60), <1>0, <1>3 DEF ReadDeadOwner, Goto, Alive
<1>4. CASE UnlockPi(p)
  BY ZenonT(60), <1>0, <1>4 DEF UnlockPi, Goto, Alive
<1>5. CASE Die(p)
  BY ZenonT(60), <1>0, <1>5 DEF Die, Goto, Alive
<1> QED
  BY <1>1, <1>2, <1>3, <1>4, <1>5 DEF Run

\* The word of a dead process stays until handle_lock_error clears it: all other steps
\* of lock, try_lock and unlock leave it to its owner.
LEMMA DeadOwnerStays ==
  ASSUME MutexInv, OwnerIsDead, NEW p \in Proc, ~ClearDeadOwner(p),
         StartLock(p) \/ StartTryLock(p) \/ Run(p) \/ Die(p)
  PROVE  word'.owner = word.owner
<1>0. word \in Word /\ word.owner \in Proc /\ ~Alive(word.owner) /\ word # Free
  BY DEF MutexInv, CtlTypeOK, OwnerIsDead, Free
<1>1. CASE StartLock(p) \/ StartTryLock(p) \/ CasFails(p) \/ ReadDeadOwner(p)
  BY ZenonT(60), <1>1 DEF StartLock, StartTryLock, CasFails, ReadDeadOwner
<1>2. CASE FutexFindsDead(p) \/ TryLockFails(p) \/ Sleep(p)
  <2>1. word' = [word EXCEPT !.waiters = TRUE]
    BY ZenonT(60), <1>2 DEF FutexFindsDead, TryLockFails, Sleep
  <2> QED
    BY <1>0, <2>1 DEF Word
<1>3. CASE Cas(p) \/ FutexGrants(p)
  BY <1>0, <1>3 DEF Cas, FutexGrants
<1>4. CASE Unlock(p)
  <2>1. word # HeldBy(p)
    BY <1>0, <1>4 DEF Unlock, HeldBy, Alive
  <2> QED
    BY ZenonT(60), <1>4, <2>1 DEF Unlock
<1>5. CASE UnlockPi(p) \/ Die(p)
  <2>1. word.owner # p
    BY <1>0, <1>5 DEF UnlockPi, Die, Alive
  <2> QED
    BY ZenonT(60), <1>5, <2>1 DEF UnlockPi, Die
<1> QED
  BY <1>1, <1>2, <1>3, <1>4, <1>5 DEF Run

\* A process that is alone in handle_lock_error reads and clears the word of the dead
\* process that the kernel met.
LEMMA OneClearerStep ==
  ASSUME MutexInv, ReadsDeadOwner, OnlyDeadOwnersCleared, OneClearer, NEW p \in Proc,
         StartLock(p) \/ StartTryLock(p) \/ Run(p) \/ Die(p)
  PROVE  ReadsDeadOwner' /\ OnlyDeadOwnersCleared'
<1>0. word \in Word /\ \A d \in Proc : ~Alive(d) => ~Alive(d)'
  BY PointsStep DEF MutexInv, CtlTypeOK
<1>1. ASSUME NEW q \in Proc, pc'[q] = "read" PROVE OwnerIsDead'
  <2>1. OwnerIsDead /\ word'.owner = word.owner
    <3>1. CASE FutexFindsDead(q)
      BY <1>0, <3>1 DEF FutexFindsDead, Word
    <3>2. CASE pc[q] = "read"
      <4>1. OwnerIsDead /\ ~ClearDeadOwner(p)
        BY <3>2 DEF ReadsDeadOwner, OneClearer, ClearDeadOwner
      <4> QED
        BY <4>1, DeadOwnerStays
    <3> QED
      BY <1>1, <3>1, <3>2, PointsStep
  <2> QED
    BY <1>0, <2>1 DEF OwnerIsDead
<1>2. ASSUME NEW q \in Proc, pc'[q] = "clear" PROVE pc'[seen'[q].owner] = "dead"
  <2>1. CASE pc[q] = "clear" /\ seen'[q] = seen[q]
    <3>1. seen[q].owner \in Proc /\ ~Alive(seen[q].owner)
      BY <2>1 DEF OnlyDeadOwnersCleared, MutexInv, CtlTypeOK
    <3>2. pc'[seen[q].owner] = "dead"
      BY <3>1, PointsStep DEF Alive
    <3> QED
      BY <2>1, <3>2
  <2>2. CASE pc[q] = "read" /\ IsAbandoned /\ seen'[q] = word
    <3>1. word.owner \in Proc /\ ~Alive(word.owner)
      BY <2>2 DEF ReadsDeadOwner, OwnerIsDead
    <3>2. pc'[word.owner] = "dead"
      BY <3>1, PointsStep DEF Alive
    <3> QED
      BY <2>2, <3>2
  <2> QED
    BY <1>2, <2>1, <2>2, PointsStep
<1> QED
  BY <1>1, <1>2 DEF ReadsDeadOwner, OnlyDeadOwnersCleared, Alive

\* For any number of processes and of deaths at any point: a second holder, or a futex
\* call that ends in runtime_critical_error, takes two processes that are in
\* handle_lock_error at the same time.  One that is alone there clears the word of the
\* dead process it was told of, although it reads the word anew.
THEOREM OneClearerIsSafe ==
  Spec /\ []OneClearer => []MutualExclusion /\ []NoFutexError
<1> DEFINE Inv == MutexInv /\ ReadsDeadOwner /\ OnlyDeadOwnersCleared
<1>1. Inv => OnlyDeadOwnersCleared
  OBVIOUS
<1>2. ASSUME Inv, OneClearer, [Next]_vars PROVE Inv'
  <2>1. CASE UNCHANGED vars
    BY <1>2, <2>1
    DEF vars, MutexInv, CtlTypeOK, WordNamesHolder, SleepersOK, ReadsDeadOwner, OwnerIsDead,
        OnlyDeadOwnersCleared, Holds, Alive
  <2>2. ASSUME NEW p \in Proc, StartLock(p) \/ StartTryLock(p) \/ Run(p) \/ Die(p)
        PROVE  Inv'
    BY <1>2, <2>2, MutexStep, OneClearerStep
  <2> QED
    BY <1>2, <2>1, <2>2 DEF Next
<1>3. Init => Inv
  BY MutexInit DEF Init, ReadsDeadOwner, OnlyDeadOwnersCleared
<1>4. Spec /\ []OneClearer => []OnlyDeadOwnersCleared
  <2> HIDE DEF Inv
  <2> QED
    BY <1>1, <1>2, <1>3, PTL DEF Spec
<1> QED
  BY <1>4, ClearingTheDeadIsSafe, NoFutexCallFails, PTL
=============================================================================
