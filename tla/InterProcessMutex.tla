-------------------------- MODULE InterProcessMutex --------------------------
(***************************************************************************)
(* inter_process_mutex (runtime/inter-process-mutex.cpp): a word of shared *)
(* memory with the thread id of the holder.  A process takes it by compare *)
(* and swap, falls back to the priority-inheritance futex of the kernel,   *)
(* and clears the word itself when the kernel says that the holder is      *)
(* dead.  The word carries two flags of the kernel: FUTEX_WAITERS and      *)
(* FUTEX_OWNER_DIED.                                                       *)
(*                                                                         *)
(* A process is a thread id: one that dies does not come back, and its id  *)
(* is not given to another process.                                        *)
(***************************************************************************)
EXTENDS Integers

CONSTANTS Proc,
          Nobody,
          Rounds,      \* futex calls from one FUTEX_LOCK_PI to the next: 4 in the code
          Attempts,    \* attempts of try_lock: 2 in the code
          MaxDeaths    \* bound on the number of processes that are killed

ASSUME MutexAssumption ==
  /\ Nobody \notin Proc
  /\ Rounds \in Nat \ {0}
  /\ Attempts \in Nat \ {0}
  /\ MaxDeaths \in Nat

VARIABLES word,      \* lock_
          sleepers,  \* the processes that sleep in FUTEX_LOCK_PI
          pc,        \* where a process is
          counter,   \* counter of lock in futex calls, or attempts of try_lock
          in_try,    \* in_try[p]: p is in try_lock
          seen,      \* dead_owner of handle_lock_error
          deaths,
          contended  \* history: a live process held the mutex during try_lock of p

vars == <<word, sleepers, pc, counter, in_try, seen, deaths, contended>>

Word == [owner : Proc \cup {Nobody}, waiters : BOOLEAN, died : BOOLEAN]
Free == [owner |-> Nobody, waiters |-> FALSE, died |-> FALSE]
HeldBy(p) == [owner |-> p, waiters |-> FALSE, died |-> FALSE]

Point == {"idle", "cas", "trylock_pi", "lock_pi", "asleep", "locked", "unlock_pi",
          "read", "clear", "dead"}

TypeOK ==
  /\ word \in Word
  /\ sleepers \subseteq Proc
  /\ pc \in [Proc -> Point]
  /\ counter \in [Proc -> Nat]
  /\ in_try \in [Proc -> BOOLEAN]
  /\ \A p \in Proc : counter[p] < IF in_try[p] THEN Attempts ELSE Rounds
  /\ seen \in [Proc -> Word]
  /\ deaths \in 0 .. MaxDeaths
  /\ contended \in [Proc -> BOOLEAN]

Init ==
  /\ word = Free
  /\ sleepers = {}
  /\ pc = [p \in Proc |-> "idle"]
  /\ counter = [p \in Proc |-> 0]
  /\ in_try = [p \in Proc |-> FALSE]
  /\ seen = [p \in Proc |-> Free]
  /\ deaths = 0
  /\ contended = [p \in Proc |-> FALSE]

Alive(p) == pc[p] # "dead"
Holds(p) == pc[p] \in {"locked", "unlock_pi"}

Goto(p, to) == pc' = [pc EXCEPT ![p] = to]

\* p has the mutex: its local variables are gone, and every try_lock that runs now
\* is one that met a live holder.
Acquired(p) ==
  /\ Goto(p, "locked")
  /\ counter' = [counter EXCEPT ![p] = 0]
  /\ in_try' = [in_try EXCEPT ![p] = FALSE]
  /\ contended' = [q \in Proc |-> q # p /\ (contended[q] \/ in_try[q])]

\* The process that the kernel hands the mutex to returns from FUTEX_LOCK_PI.
HandOver(r, died) ==
  /\ word' = [owner |-> r, waiters |-> TRUE, died |-> died]
  /\ sleepers' = sleepers \ {r}

-----------------------------------------------------------------------------
(* lock and try_lock.                                                       *)

StartLock(p) ==
  /\ pc[p] = "idle"
  /\ Goto(p, "cas")
  /\ UNCHANGED <<word, sleepers, counter, in_try, seen, deaths, contended>>

StartTryLock(p) ==
  /\ pc[p] = "idle"
  /\ in_try' = [in_try EXCEPT ![p] = TRUE]
  /\ contended' = [contended EXCEPT ![p] = \E q \in Proc : Holds(q)]
  /\ Goto(p, "cas")
  /\ UNCHANGED <<word, sleepers, counter, seen, deaths>>

Cas(p) ==
  /\ pc[p] = "cas"
  /\ word = Free
  /\ word' = HeldBy(p)
  /\ Acquired(p)
  /\ UNCHANGED <<sleepers, seen, deaths>>

\* The 512 compare and swaps before a futex call of lock; the one of try_lock.
CasFails(p) ==
  /\ pc[p] = "cas"
  /\ word # Free
  /\ counter' = [counter EXCEPT ![p] = IF in_try[p] THEN @ ELSE (@ + 1) % Rounds]
  /\ Goto(p, IF in_try[p] \/ counter'[p] # 0 THEN "trylock_pi" ELSE "lock_pi")
  /\ UNCHANGED <<word, sleepers, in_try, seen, deaths, contended>>

\* Mutant: try_lock gives up after its first attempt.
NextAttemptNever(p) ==
  /\ Goto(p, IF in_try[p] THEN "idle" ELSE "cas")
  /\ in_try' = [in_try EXCEPT ![p] = FALSE]
  /\ UNCHANGED counter

\* Mutant: one attempt too many.
NextAttemptExtra(p) ==
  /\ counter' = [counter EXCEPT ![p] = IF in_try[p] /\ @ < Attempts THEN @ + 1 ELSE 0]
  /\ in_try' = [in_try EXCEPT ![p] = @ /\ counter[p] < Attempts]
  /\ Goto(p, IF in_try[p] /\ counter[p] >= Attempts THEN "idle" ELSE "cas")

\* A failed futex call was handled: lock goes on, try_lock has Attempts attempts.
NextAttempt(p) ==
  IF ~in_try[p] THEN
    Goto(p, "cas") /\ UNCHANGED <<counter, in_try>>
  ELSE IF counter[p] + 1 < Attempts THEN
    /\ counter' = [counter EXCEPT ![p] = @ + 1]
    /\ Goto(p, "cas")
    /\ UNCHANGED in_try
  ELSE
    /\ counter' = [counter EXCEPT ![p] = 0]
    /\ in_try' = [in_try EXCEPT ![p] = FALSE]
    /\ Goto(p, "idle")

\* The answers of the kernel to FUTEX_TRYLOCK_PI and FUTEX_LOCK_PI.  The others
\* (EDEADLK, EINVAL) end in runtime_critical_error: NoFutexError says that they are
\* not given, and a process that would get one takes no step.
OwnerIsDead == word.owner \in Proc /\ ~Alive(word.owner)

OwnerIsAlive(p) == word.owner \in Proc \ {p} /\ Alive(word.owner)

InFutex(p) == pc[p] \in {"trylock_pi", "lock_pi"}

FutexGrants(p) ==
  /\ InFutex(p)
  /\ word.owner = Nobody /\ sleepers = {}
  /\ word' = [word EXCEPT !.owner = p]
  /\ Acquired(p)
  /\ UNCHANGED <<sleepers, seen, deaths>>

\* ESRCH; the kernel has set FUTEX_WAITERS before it looked for the owner.
FutexFindsDead(p) ==
  /\ InFutex(p)
  /\ OwnerIsDead
  /\ word' = [word EXCEPT !.waiters = TRUE]
  /\ Goto(p, "read")
  /\ UNCHANGED <<sleepers, counter, in_try, seen, deaths, contended>>

\* EAGAIN.
TryLockFails(p) ==
  /\ pc[p] = "trylock_pi"
  /\ OwnerIsAlive(p)
  /\ word' = [word EXCEPT !.waiters = TRUE]
  /\ NextAttempt(p)
  /\ UNCHANGED <<sleepers, seen, deaths, contended>>

Sleep(p) ==
  /\ pc[p] = "lock_pi"
  /\ OwnerIsAlive(p)
  /\ word' = [word EXCEPT !.waiters = TRUE]
  /\ sleepers' = sleepers \cup {p}
  /\ Goto(p, "asleep")
  /\ UNCHANGED <<counter, in_try, seen, deaths, contended>>

-----------------------------------------------------------------------------
(* handle_lock_error after ESRCH.                                           *)

\* What tells an abandoned word, in the eyes of handle_lock_error.
IsAbandoned == word.owner # Nobody /\ word.waiters

ReadDeadOwner(p) ==
  /\ pc[p] = "read"
  /\ IF IsAbandoned THEN
       /\ seen' = [seen EXCEPT ![p] = word]
       /\ Goto(p, "clear")
       /\ UNCHANGED <<counter, in_try>>
     ELSE
       /\ NextAttempt(p)
       /\ UNCHANGED seen
  /\ UNCHANGED <<word, sleepers, deaths, contended>>

\* Mutants: the word is stored without a comparison; it is not cleared at all.
ClearedBlindly(p) == Free

NotCleared(p) == word

\* The compare and swap of the word with 0.
Cleared(p) == IF word = seen[p] THEN Free ELSE word

ClearDeadOwner(p) ==
  /\ pc[p] = "clear"
  /\ word' = Cleared(p)
  /\ seen' = [seen EXCEPT ![p] = Free]
  /\ NextAttempt(p)
  /\ UNCHANGED <<sleepers, deaths, contended>>

-----------------------------------------------------------------------------
(* unlock.                                                                  *)

\* Mutant: unlock stores 0 in any case.
UnlockAlways(p) ==
  /\ pc[p] = "locked"
  /\ word' = Free
  /\ Goto(p, "idle")
  /\ UNCHANGED <<sleepers, counter, in_try, seen, deaths, contended>>

Unlock(p) ==
  /\ pc[p] = "locked"
  /\ IF word = HeldBy(p) THEN word' = Free /\ Goto(p, "idle")
                         ELSE Goto(p, "unlock_pi") /\ UNCHANGED word
  /\ UNCHANGED <<sleepers, counter, in_try, seen, deaths, contended>>

\* FUTEX_UNLOCK_PI of the owner hands the mutex to a sleeper or clears the word.
UnlockPi(p) ==
  /\ pc[p] = "unlock_pi"
  /\ word.owner = p
  /\ \/ /\ sleepers = {}
        /\ word' = Free
        /\ Goto(p, "idle")
        /\ UNCHANGED <<sleepers, contended>>
     \/ \E r \in sleepers :
          /\ HandOver(r, FALSE)
          /\ pc' = [pc EXCEPT ![p] = "idle", ![r] = "locked"]
          /\ contended' = [q \in Proc |-> contended[q] \/ in_try[q]]
  /\ counter' = [q \in Proc |-> IF pc'[q] = "locked" THEN 0 ELSE counter[q]]
  /\ UNCHANGED <<in_try, seen, deaths>>

-----------------------------------------------------------------------------
\* SIGKILL at any point.  The kernel hands what p owns to a process that sleeps on it;
\* without a sleeper the word keeps the id of p.
Die(p) ==
  /\ Alive(p)
  /\ deaths < MaxDeaths
  /\ deaths' = deaths + 1
  /\ \/ /\ word.owner = p
        /\ \E r \in sleepers :
             /\ HandOver(r, TRUE)
             /\ pc' = [pc EXCEPT ![p] = "dead", ![r] = "locked"]
             /\ contended' = [q \in Proc |-> q # p /\ (contended[q] \/ in_try[q])]
     \/ /\ word.owner = p => sleepers = {}
        /\ sleepers' = sleepers \ {p}
        /\ Goto(p, "dead")
        /\ contended' = [contended EXCEPT ![p] = FALSE]
        /\ UNCHANGED word
  /\ counter' = [q \in Proc |-> IF pc'[q] \in {"locked", "dead"} THEN 0 ELSE counter[q]]
  /\ in_try' = [in_try EXCEPT ![p] = FALSE]
  /\ seen' = [seen EXCEPT ![p] = Free]

\* What a process does once it has called lock, try_lock or unlock; a holder unlocks.
Run(p) ==
  \/ Cas(p) \/ CasFails(p)
  \/ FutexGrants(p) \/ FutexFindsDead(p)
  \/ TryLockFails(p) \/ Sleep(p)
  \/ ReadDeadOwner(p) \/ ClearDeadOwner(p)
  \/ Unlock(p) \/ UnlockPi(p)

Next == \E p \in Proc : StartLock(p) \/ StartTryLock(p) \/ Run(p) \/ Die(p)

Spec == Init /\ [][Next]_vars

\* The kernel runs every process; a holder leaves its critical section.
FairSpec == Spec /\ \A p \in Proc : WF_vars(Run(p))

-----------------------------------------------------------------------------
(* Properties.                                                              *)

\* Two live processes never hold the mutex at once, whoever dies with it and whoever
\* clears the word after that.
MutualExclusion == \A p, q \in Proc : Holds(p) /\ Holds(q) => p = q

\* handle_lock_error is about to clear the word of a dead process only.  The code does not
\* ensure it: the word is read anew after the kernel found its owner dead, and with four
\* processes it may be that of a live one by then.  A hypothesis of the proofs.
OnlyDeadOwnersCleared == \A p \in Proc : pc[p] = "clear" => ~Alive(seen[p].owner)

\* No futex call ends in runtime_critical_error: the word and the sleepers agree when
\* the kernel looks at them, and only the owner unlocks.
NoFutexError ==
  \A p \in Proc :
    /\ InFutex(p) => word.owner # p /\ (word.owner = Nobody => sleepers = {})
    /\ pc[p] = "unlock_pi" => word.owner = p

\* try_lock returns false only if a live process held the mutex meanwhile; two
\* attempts are enough to get past a dead holder.
TryLockIsHonest ==
  [][\A p \in Proc : in_try[p] /\ pc'[p] = "idle" => contended[p]]_vars

Waits(p) ==
  /\ ~in_try[p]
  /\ pc[p] \in {"cas", "trylock_pi", "lock_pi", "asleep", "read", "clear"}

\* A process that waits in lock does not wait for a dead holder: somebody gets the
\* mutex, or every waiter dies.
SomebodyLocks ==
  (\E p \in Proc : Waits(p)) ~> (\E p \in Proc : Holds(p)) \/ ~(\E p \in Proc : Waits(p))
=============================================================================
