---------------------------- MODULE MutexProofs ----------------------------
(***************************************************************************)
(* For any set of threads: the mutex keeps mutual exclusion, never loses a *)
(* wake-up, and implements the abstract lock.                              *)
(***************************************************************************)
EXTENDS Mutex, TLAPS

\* The inductive invariant.  MutualExclusion needs nothing but the types;
\* NoLostWakeup needs that a sleeper is inside futex_wait, since the thread a
\* wake picks must then count among the Movers.
Inv ==
  /\ TypeOK
  /\ MutualExclusion
  /\ SleepersAreAsleep
  /\ NoLostWakeup

\* It holds before any thread has called.
LEMMA InitInv == Init => Inv
  BY DEF Init, Inv, TypeOK, Labels, MutualExclusion, Holders, SleepersAreAsleep,
         NoLostWakeup

\* Every step keeps the types.
LEMMA StepTypeOK == TypeOK /\ MutualExclusion /\ [Next]_vars => TypeOK'
<1> SUFFICES ASSUME TypeOK, MutualExclusion, [Next]_vars PROVE TypeOK'
  OBVIOUS
<1> USE DEF TypeOK, Labels, Goto
<1>1. ASSUME NEW t \in Threads, Lock(t) PROVE TypeOK'
  BY <1>1 DEF Lock, Acquire
<1>2. ASSUME NEW t \in Threads, Trylock(t) PROVE TypeOK'
  BY <1>2 DEF Trylock, Acquire
<1>3. ASSUME NEW t \in Threads, LockExchange(t) PROVE TypeOK'
  BY <1>3 DEF LockExchange
<1>4. ASSUME NEW t \in Threads, LockWait(t) PROVE TypeOK'
  BY <1>4 DEF LockWait, FutexSleep
<1>5. ASSUME NEW t \in Threads, LockReturn(t) PROVE TypeOK'
  BY <1>5 DEF LockReturn, FutexAbandon
<1>6. ASSUME NEW t \in Threads, Unlock(t) PROVE TypeOK'
  <2>1. state \in {1, 2}
    BY <1>6 DEF Unlock, MutualExclusion, Holders
  <2>. QED
    BY <1>6, <2>1 DEF Unlock
<1>7. ASSUME NEW t \in Threads, UnlockStore(t) PROVE TypeOK'
  BY <1>7 DEF UnlockStore
<1>8. ASSUME NEW t \in Threads, UnlockWake(t) PROVE TypeOK'
  BY <1>8 DEF UnlockWake, FutexWakeOne
<1>9. CASE UNCHANGED vars
  BY <1>9 DEF vars
<1>. QED
  BY <1>1, <1>2, <1>3, <1>4, <1>5, <1>6, <1>7, <1>8, <1>9
  DEF Next, Call, Step, LockRest, UnlockRest

\* Every step keeps mutual exclusion.
LEMMA StepMutualExclusion == TypeOK /\ MutualExclusion /\ [Next]_vars => MutualExclusion'
<1> SUFFICES ASSUME TypeOK, MutualExclusion, [Next]_vars PROVE MutualExclusion'
  OBVIOUS
<1> USE DEF TypeOK, Labels, Goto, MutualExclusion, Holders
<1>1. ASSUME NEW t \in Threads, Lock(t) PROVE MutualExclusion'
  BY <1>1 DEF Lock, Acquire
<1>2. ASSUME NEW t \in Threads, Trylock(t) PROVE MutualExclusion'
  BY <1>2 DEF Trylock, Acquire
<1>3. ASSUME NEW t \in Threads, LockExchange(t) PROVE MutualExclusion'
  BY <1>3 DEF LockExchange
<1>4. ASSUME NEW t \in Threads, LockWait(t) PROVE MutualExclusion'
  BY <1>4 DEF LockWait
<1>5. ASSUME NEW t \in Threads, LockReturn(t) PROVE MutualExclusion'
  BY <1>5 DEF LockReturn
<1>6. ASSUME NEW t \in Threads, Unlock(t) PROVE MutualExclusion'
  <2>1. state \in {1, 2} /\ \A u \in Threads : pc[u] \in {"in", "store"} => u = t
    BY <1>6 DEF Unlock
  <2>. QED
    BY <1>6, <2>1 DEF Unlock
<1>7. ASSUME NEW t \in Threads, UnlockStore(t) PROVE MutualExclusion'
  BY <1>7 DEF UnlockStore
<1>8. ASSUME NEW t \in Threads, UnlockWake(t) PROVE MutualExclusion'
  BY <1>8 DEF UnlockWake
<1>9. CASE UNCHANGED vars
  BY <1>9 DEF vars
<1>. QED
  BY <1>1, <1>2, <1>3, <1>4, <1>5, <1>6, <1>7, <1>8, <1>9
  DEF Next, Call, Step, LockRest, UnlockRest

\* A thread sleeps on the word only from inside futex_wait.
LEMMA StepSleepersAreAsleep == TypeOK /\ SleepersAreAsleep /\ [Next]_vars => SleepersAreAsleep'
<1> SUFFICES ASSUME TypeOK, SleepersAreAsleep, [Next]_vars PROVE SleepersAreAsleep'
  OBVIOUS
<1> USE DEF TypeOK, Labels, Goto, SleepersAreAsleep
<1>1. ASSUME NEW t \in Threads, Call(t) PROVE SleepersAreAsleep'
  BY <1>1 DEF Call, Lock, Trylock, Acquire
<1>2. ASSUME NEW t \in Threads, LockExchange(t) PROVE SleepersAreAsleep'
  BY <1>2 DEF LockExchange
<1>3. ASSUME NEW t \in Threads, LockWait(t) PROVE SleepersAreAsleep'
  BY <1>3 DEF LockWait, FutexSleep
<1>4. ASSUME NEW t \in Threads, LockReturn(t) PROVE SleepersAreAsleep'
  BY <1>4 DEF LockReturn, FutexAbandon
<1>5. ASSUME NEW t \in Threads, Unlock(t) PROVE SleepersAreAsleep'
  BY <1>5 DEF Unlock
<1>6. ASSUME NEW t \in Threads, UnlockRest(t) PROVE SleepersAreAsleep'
  BY <1>6 DEF UnlockRest, UnlockStore, UnlockWake, FutexWakeOne
<1>7. CASE UNCHANGED vars
  BY <1>7 DEF vars
<1>. QED
  BY <1>1, <1>2, <1>3, <1>4, <1>5, <1>6, <1>7 DEF Next, Step, LockRest

\* A step loses no wake-up.  The steps that matter: an unlock that takes the
\* 2 away becomes a mover itself; a mover stops being one only by publishing
\* the 2, by falling asleep under a 2, or by waking a thread that is a mover
\* from then on.
LEMMA StepNoLostWakeup == Inv /\ [Next]_vars => NoLostWakeup'
<1> SUFFICES ASSUME Inv, [Next]_vars PROVE NoLostWakeup'
  OBVIOUS
<1> USE DEF Inv, TypeOK, Labels, Goto, NoLostWakeup, Movers, SleepersAreAsleep
<1>1. ASSUME NEW t \in Threads, Call(t) PROVE NoLostWakeup'
  BY <1>1 DEF Call, Lock, Trylock, Acquire
<1>2. ASSUME NEW t \in Threads, LockExchange(t) PROVE NoLostWakeup'
  BY <1>2 DEF LockExchange
<1>3. ASSUME NEW t \in Threads, LockWait(t) PROVE NoLostWakeup'
  BY <1>3 DEF LockWait, FutexSleep
<1>4. ASSUME NEW t \in Threads, LockReturn(t) PROVE NoLostWakeup'
  BY <1>4 DEF LockReturn, FutexAbandon
<1>5. ASSUME NEW t \in Threads, Unlock(t) PROVE NoLostWakeup'
  <2>1. CASE state = 1
    <3>1. waiters # {} => \E u \in Movers : u # t
      BY <1>5, <2>1 DEF Unlock
    <3>. QED
      BY <1>5, <2>1, <3>1 DEF Unlock
  <2>2. CASE state # 1
    BY <1>5, <2>2 DEF Unlock
  <2>. QED
    BY <2>1, <2>2
<1>6. ASSUME NEW t \in Threads, UnlockStore(t) PROVE NoLostWakeup'
  BY <1>6 DEF UnlockStore
<1>7. ASSUME NEW t \in Threads, UnlockWake(t) PROVE NoLostWakeup'
  <2>1. CASE waiters = {} /\ UNCHANGED waiters
    BY <2>1
  <2>2. ASSUME NEW u \in waiters, waiters' = waiters \ {u} PROVE NoLostWakeup'
    <3>1. u # t /\ pc'[u] = "asleep" /\ u \notin waiters'
      BY <1>7, <2>2 DEF UnlockWake
    <3>. QED
      BY <2>2, <3>1
  <2>. QED
    BY <1>7, <2>1, <2>2 DEF UnlockWake, FutexWakeOne
<1>8. CASE UNCHANGED vars
  BY <1>8 DEF vars
<1>. QED
  BY <1>1, <1>2, <1>3, <1>4, <1>5, <1>6, <1>7, <1>8 DEF Next, Step, LockRest, UnlockRest

-----------------------------------------------------------------------------
\* It holds in every state of every behaviour.
LEMMA Invariance == Spec => []Inv
<1>1. Inv /\ [Next]_vars => Inv'
  BY StepTypeOK, StepMutualExclusion, StepSleepersAreAsleep, StepNoLostWakeup DEF Inv
<1>. QED
  BY InitInv, <1>1, PTL DEF Spec

\* The variables of the mutex stay in their types, for any set of threads.
THEOREM TypeCorrect == Spec => []TypeOK
  BY Invariance, PTL DEF Inv

\* pthread_mutex_lock and _trylock never let two threads in at once, and the
\* word is 0 exactly when nobody is in.
THEOREM MutexIsExclusive == Spec => []MutualExclusion
  BY Invariance, PTL DEF Inv

\* The futex protocol of lines 49-80 never leaves a sleeper behind with no
\* wake-up under way and an unlock that would not send one.
THEOREM MutexLosesNoWakeup == Spec => []NoLostWakeup
  BY Invariance, PTL DEF Inv
-----------------------------------------------------------------------------
\* A step of the code is a step of the abstract lock or leaves it alone.
LEMMA StepRefines == Inv /\ [Next]_vars => [L!Next]_Holders
<1> SUFFICES ASSUME Inv, [Next]_vars PROVE [L!Next]_Holders
  OBVIOUS
<1> USE DEF Inv, TypeOK, Labels, Goto, MutualExclusion, Holders
<1>1. ASSUME NEW t \in Threads, state = 0, pc' = [pc EXCEPT ![t] = "in"] PROVE L!Take(t)
  BY <1>1 DEF L!Take
<1>2. ASSUME NEW t \in Threads, t \in Holders, pc'[t] \notin {"in", "store"},
             \A u \in Threads : u # t => pc'[u] = pc[u]
      PROVE  L!Give(t)
  BY <1>2 DEF L!Give
<1>3. ASSUME NEW t \in Threads, Call(t) PROVE [L!Next]_Holders
  <2>1. CASE Acquire(t)
    BY <1>1, <2>1 DEF Acquire, L!Next
  <2>2. CASE pc[t] = "out" /\ pc' = [pc EXCEPT ![t] = IF state = 2 THEN "wait" ELSE "xchg"]
    BY <2>2
  <2>. QED
    BY <1>3, <2>1, <2>2 DEF Call, Lock, Trylock
<1>4. ASSUME NEW t \in Threads, LockExchange(t) PROVE [L!Next]_Holders
  <2>1. CASE state = 0
    BY <1>1, <1>4, <2>1 DEF LockExchange, L!Next
  <2>2. CASE state # 0
    BY <1>4, <2>2 DEF LockExchange
  <2>. QED
    BY <2>1, <2>2
<1>5. ASSUME NEW t \in Threads, LockWait(t) \/ LockReturn(t) PROVE [L!Next]_Holders
  BY <1>5 DEF LockWait, LockReturn
<1>6. ASSUME NEW t \in Threads, Unlock(t) PROVE [L!Next]_Holders
  <2>1. CASE state = 1
    BY <1>2, <1>6, <2>1 DEF Unlock, L!Next
  <2>2. CASE state # 1
    BY <1>6, <2>2 DEF Unlock
  <2>. QED
    BY <2>1, <2>2
<1>7. ASSUME NEW t \in Threads, UnlockStore(t) PROVE [L!Next]_Holders
  BY <1>2, <1>7 DEF UnlockStore, L!Next
<1>8. ASSUME NEW t \in Threads, UnlockWake(t) PROVE [L!Next]_Holders
  BY <1>8 DEF UnlockWake
<1>9. CASE UNCHANGED vars
  BY <1>9 DEF vars
<1>. QED
  BY <1>3, <1>4, <1>5, <1>6, <1>7, <1>8, <1>9 DEF Next, Step, LockRest, UnlockRest

\* The mutex implements the abstract lock for any set of threads: the window
\* between the fetch_sub and the store of a contended unlock still belongs to
\* the thread that unlocks.
THEOREM MutexImplementsLock == Spec => ImplementsLock
<1>1. Init => L!Init
  BY DEF Init, L!Init, Holders
<1>. QED
  BY <1>1, StepRefines, Invariance, PTL DEF Spec, ImplementsLock, L!Spec

=============================================================================
