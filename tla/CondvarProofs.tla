--------------------------- MODULE CondvarProofs ---------------------------
(***************************************************************************)
(* The condition variable over the futex mutex, for any consumers and      *)
(* producers: a wait returns with the mutex held, and no signal is lost.   *)
(***************************************************************************)
EXTENDS Condvar, FiniteSetTheorems, TLAPS

\* What MutexProofs establishes of the mutex the waits release and take again.
P == INSTANCE MutexProofs

\* Where a thread is in the mutex, given where it is in its program.
Places(t) ==
  /\ at[t] \in {"lock", "relock"} => pc[t] \in {"out", "xchg", "wait", "asleep"}
  /\ at[t] \in {"test", "put"} => pc[t] = "in"
  /\ at[t] \in {"release", "unlockput", "unlock"} => pc[t] \in {"in", "store", "wake"}
  /\ at[t] \in {"block", "asleep", "done"} => pc[t] = "out"
  /\ at[t] \in {"bump", "wake"} => pc[t] \in {"in", "out"}

\* A thread stays in its own program, sleeps on seq only from inside the wait,
\* and has timed out only on the way from that wait to the end of its round.
Roles(t) ==
  /\ t \in Consumers => at[t] \notin {"put", "unlockput", "bump", "wake"}
  /\ t \in Producers => at[t] \notin {"test", "release", "block", "asleep", "relock"}
  /\ at[t] = "done" \/ round[t] < Rounds
  /\ t \in cwaiters => at[t] = "asleep"
  /\ t \in timedout => at[t] \in {"relock", "unlock"}

Base ==
  /\ P!Inv
  /\ TypeOK
  /\ \A t \in Threads : Places(t) /\ Roles(t)

-----------------------------------------------------------------------------
\* What the steps of a lock call do to the caller.
LEMMA LockMoves ==
  ASSUME NEW t \in Threads, M!Lock(t) \/ M!LockRest(t)
  PROVE  /\ pc[t] \in {"out", "xchg", "wait", "asleep"}
         /\ \E l \in {"xchg", "wait", "asleep", "in"} : pc' = [pc EXCEPT ![t] = l]
  BY DEF M!Lock, M!Acquire, M!LockRest, M!LockExchange, M!LockWait, M!LockReturn, M!Goto

\* What the steps of an unlock call do to the caller.
LEMMA UnlockMoves ==
  ASSUME NEW t \in Threads, M!Unlock(t) \/ M!UnlockRest(t)
  PROVE  /\ pc[t] \in {"in", "store", "wake"}
         /\ \E l \in {"out", "store", "wake"} : pc' = [pc EXCEPT ![t] = l]
  BY DEF M!Unlock, M!UnlockRest, M!UnlockStore, M!UnlockWake, M!Goto

\* A step of the program is a step of the mutex or leaves it alone.
LEMMA MutexHolds ==
  ASSUME P!Inv, [Next]_vars PROVE P!Inv'
  <1>1. ASSUME NEW t \in Threads, M!Lock(t) \/ M!LockRest(t) \/ M!Unlock(t) \/ M!UnlockRest(t)
        PROVE  P!Next
    <2>1. P!Lock(t) \/ P!LockRest(t) \/ P!Unlock(t) \/ P!UnlockRest(t)
      BY <1>1
      DEF M!Lock, M!Acquire, M!LockRest, M!LockExchange, M!LockWait, M!LockReturn, M!Goto,
          M!Unlock, M!UnlockRest, M!UnlockStore, M!UnlockWake,
          M!FutexSleep, M!FutexAbandon, M!FutexWakeOne,
          P!Lock, P!Acquire, P!LockRest, P!LockExchange, P!LockWait, P!LockReturn, P!Goto,
          P!Unlock, P!UnlockRest, P!UnlockStore, P!UnlockWake,
          P!FutexSleep, P!FutexAbandon, P!FutexWakeOne
    <2> QED
      BY <2>1 DEF P!Next, P!Call, P!Step
  <1>2. P!Next \/ UNCHANGED << waiters, state, pc >>
    BY <1>1
    DEF Next, Step, Terminated, vars, mutex, ProgramLock, TakeItem, PutItems,
        UnlockBeforeSignal, ProgramUnlock, CondWait, Release, Block, Woken, TimesOut,
        Relock, Bump, Wake, Locking, Unlocking
  <1>3. [P!Next]_(P!vars)
    BY <1>2 DEF P!vars
  <1> QED
    BY <1>3, P!StepTypeOK, P!StepMutualExclusion, P!StepSleepersAreAsleep, P!StepNoLostWakeup
    DEF P!Inv

-----------------------------------------------------------------------------
\* A step of t that keeps t's round, in whatever way it moves on.
LEMMA BaseHolds ==
  ASSUME Base, NEW t \in Threads, Step(t) PROVE Base'
  <1> USE DEF Base, TypeOK, Goto
  <1>0. P!Inv' /\ M!TypeOK'
    <2>1. P!Inv'
      BY MutexHolds DEF Next
    <2> QED
      BY <2>1 DEF P!Inv, P!TypeOK, P!Labels, M!TypeOK, M!Labels
  <1>1. /\ pc \in [Threads -> M!Labels] /\ at \in [Threads -> Labels]
        /\ round \in [Threads -> 0 .. Rounds] /\ Places(t) /\ Roles(t)
    BY DEF M!TypeOK
  <1>2. SUFFICES /\ TypeOK'
                 /\ \A u \in Threads : Places(u)' /\ Roles(u)'
    BY <1>0
  <1>3. CASE ProgramLock(t)
    BY <1>0, <1>1, <1>3, LockMoves, CondvarAssumption DEF ProgramLock, Locking, Places, Roles, Labels, cond, Threads
  <1>4. CASE TakeItem(t)
    BY <1>0, <1>1, <1>4 DEF TakeItem, Places, Roles, Labels, cond, mutex
  <1>5. CASE PutItems(t)
    <2>1. Share(t) \in Nat
      BY CondvarAssumption, FS_CardinalityType DEF Share
    <2> QED
      BY <1>0, <1>1, <1>5, <2>1 DEF PutItems, Places, Roles, Labels, cond, mutex
  <1>6. CASE UnlockBeforeSignal(t)
    BY <1>0, <1>1, <1>6, UnlockMoves DEF UnlockBeforeSignal, Unlocking, Places, Roles, Labels, cond
  <1>7. CASE ProgramUnlock(t)
    BY <1>0, <1>1, <1>7, UnlockMoves, CondvarAssumption DEF ProgramUnlock, EndRound, Places, Roles, Labels, cond
  <1>8. CASE CondWait(t)
    BY <1>0, <1>1, <1>8 DEF CondWait, Places, Roles, Labels, mutex
  <1>9. CASE Release(t)
    BY <1>0, <1>1, <1>9, UnlockMoves DEF Release, Unlocking, Places, Roles, Labels, cond
  <1>10. CASE Block(t)
    BY <1>0, <1>1, <1>10 DEF Block, C!FutexSleep, Places, Roles, Labels, mutex
  <1>11. CASE Woken(t)
    BY <1>0, <1>1, <1>11 DEF Woken, C!FutexAbandon, Places, Roles, Labels, mutex
  <1>12. CASE TimesOut(t)
    BY <1>0, <1>1, <1>12 DEF TimesOut, C!FutexAbandon, Places, Roles, Labels, mutex
  <1>13. CASE Relock(t)
    BY <1>0, <1>1, <1>13, LockMoves DEF Relock, Locking, Places, Roles, Labels, cond
  <1>14. CASE Bump(t)
    BY <1>0, <1>1, <1>14, CondvarAssumption DEF Bump, Places, Roles, Labels, mutex
  <1>15. CASE Wake(t)
    BY <1>0, <1>1, <1>15, CondvarAssumption
    DEF Wake, C!FutexWakeOne, C!FutexWakeAll, EndRound, Places, Roles, Labels, mutex
  <1> QED
    BY <1>3, <1>4, <1>5, <1>6, <1>7, <1>8, <1>9, <1>10, <1>11, <1>12, <1>13, <1>14, <1>15 DEF Step

\* Base holds in every state.
LEMMA BaseInvariance == Spec => []Base
  <1>1. Init => Base
    <2> SUFFICES ASSUME Init PROVE Base
      OBVIOUS
    <2>1. P!Inv
      BY P!InitInv DEF Init, M!Init, P!Init
    <2>2. M!TypeOK
      BY <2>1 DEF P!Inv, P!TypeOK, P!Labels, M!TypeOK, M!Labels
    <2>3. TypeOK
      BY <2>2, CondvarAssumption DEF Init, TypeOK, Labels
    <2>4. \A t \in Threads : Places(t) /\ Roles(t)
      BY CondvarAssumption DEF Init, M!Init, Places, Roles
    <2> QED
      BY <2>1, <2>3, <2>4 DEF Base
  <1>2. Base /\ [Next]_vars => Base'
    <2> SUFFICES ASSUME Base, [Next]_vars PROVE Base'
      OBVIOUS
    <2>1. ASSUME NEW t \in Threads, Step(t) PROVE Base'
      BY <2>1, BaseHolds
    <2>2. CASE UNCHANGED vars
      <3>1. P!Inv'
        BY MutexHolds DEF Base
      <3>2. TypeOK' /\ \A t \in Threads : Places(t)' /\ Roles(t)'
        BY <2>2 DEF vars, mutex, cond, Base, TypeOK, M!TypeOK, Places, Roles
      <3> QED
        BY <3>1, <3>2 DEF Base
    <2> QED
      BY <2>1, <2>2 DEF Next, Terminated
  <1> QED
    BY <1>1, <1>2, PTL DEF Spec

\* pthread_cond_wait and _timedwait_relative come back with the mutex held,
\* whether they were woken, interrupted, timed out or did not sleep at all,
\* and the critical sections they interrupt exclude each other: for any
\* consumers and producers, any number of rounds and any width of seq.
THEOREM WaitsReturnWithMutex == Spec => []ReturnsWithMutex
  <1>1. Base => ReturnsWithMutex
    BY DEF Base, Places, ReturnsWithMutex, P!Inv, P!MutualExclusion, P!Holders,
           M!MutualExclusion, M!Holders
  <1> QED
    BY <1>1, BaseInvariance, PTL

-----------------------------------------------------------------------------
(* No signal is lost.                                                      *)

\* Consumers that have found the counter at 0, have yet to sleep, and will if
\* seq stays what it is.
Committed == {c \in Consumers : at[c] \in {"release", "block"} /\ snap[c] = seq}

\* Producers that have put items and not yet moved seq.
Owing == {p \in Producers : at[p] \in {"unlockput", "bump"}}

\* NoLostSignal is not inductive: a consumer that has read seq after the
\* increment of a signal, and is not asleep yet when the futex_wake comes, is
\* not helped by that wake.  For the committed consumers only the signals that
\* are still to move seq count.
Covered ==
  \/ Committed = {}
  \/ Owing \cap Broadcasters # {}
  \/ items <= Cardinality(Owing) + Cardinality(Looking)

SignalInv == Covered /\ NoLostSignal

\* An increment never takes seq back, after 2^32 of them, to what a consumer
\* read that has not yet compared it again in its futex_wait.
SeqNotReused ==
  (\E p \in Producers : Bump(p)) =>
    \A c \in Consumers : at[c] \in {"release", "block"} => snap[c] # seq'

\* Counting within a finite set.
LEMMA Finite ==
  /\ \A S \in {Announcing, Owing, Looking} : IsFiniteSet(S) /\ Cardinality(S) \in Nat
  /\ \A S \in {Announcing', Owing', Looking'} : IsFiniteSet(S) /\ Cardinality(S) \in Nat
  <1>1. /\ {Announcing, Owing, Announcing', Owing'} \subseteq SUBSET Producers
        /\ {Looking, Looking'} \subseteq SUBSET Consumers
    BY DEF Announcing, Owing, Looking
  <1> QED
    BY <1>1, CondvarAssumption, FS_Subset, FS_CardinalityType

\* How the sizes of two sets compare that differ in a thread at most.
LEMMA Counting ==
  ASSUME NEW S, NEW T, IsFiniteSet(S), IsFiniteSet(T)
  PROVE  /\ S \subseteq T => Cardinality(S) <= Cardinality(T)
         /\ \A x : S \ {x} \subseteq T => Cardinality(S) - 1 <= Cardinality(T)
         /\ \A x \in T : S \subseteq T \ {x} => Cardinality(S) + 1 <= Cardinality(T)
  <1>1. S \subseteq T => Cardinality(S) <= Cardinality(T)
    BY FS_Subset
  <1>2. Cardinality(S) \in Nat /\ Cardinality(T) \in Nat
    BY FS_CardinalityType
  <1>3. ASSUME NEW x, S \ {x} \subseteq T PROVE Cardinality(S) - 1 <= Cardinality(T)
    <2>1. Cardinality(S \ {x}) <= Cardinality(T)
      BY <1>3, FS_Subset
    <2> QED
      BY <1>2, <2>1, FS_RemoveElement
  <1>4. ASSUME NEW x \in T, S \subseteq T \ {x} PROVE Cardinality(S) + 1 <= Cardinality(T)
    <2>1. Cardinality(T \ {x}) = Cardinality(T) - 1 /\ IsFiniteSet(T \ {x})
      BY FS_RemoveElement
    <2>2. Cardinality(S) <= Cardinality(T \ {x})
      BY <1>4, <2>1, FS_Subset
    <2> QED
      BY <1>2, <2>1, <2>2
  <1> QED
    BY <1>1, <1>3, <1>4

\* Steps that add to those who signal and to those who look, and to nobody
\* else.
LEMMA SignalKept ==
  ASSUME SignalInv, items \in Nat, items' \in Nat, items' <= items,
         cwaiters' \subseteq cwaiters, Committed' \subseteq Committed,
         Announcing \subseteq Announcing', Owing \subseteq Owing', Looking \subseteq Looking'
  PROVE  SignalInv'
  <1>1. /\ Cardinality(Announcing) <= Cardinality(Announcing')
        /\ Cardinality(Owing) <= Cardinality(Owing')
        /\ Cardinality(Looking) <= Cardinality(Looking')
    BY Finite, Counting
  <1> QED
    BY <1>1, Finite DEF SignalInv, Covered, NoLostSignal

\* What the sets are made of.
LEMMA SetsOf ==
  /\ \A p : p \in Announcing <=> p \in Producers /\ at[p] \in {"unlockput", "bump", "wake"}
  /\ \A p : p \in Owing <=> p \in Producers /\ at[p] \in {"unlockput", "bump"}
  /\ \A p : p \in Announcing' <=> p \in Producers /\ at'[p] \in {"unlockput", "bump", "wake"}
  /\ \A p : p \in Owing' <=> p \in Producers /\ at'[p] \in {"unlockput", "bump"}
  BY DEF Announcing, Owing

\* Every step keeps the balance of signals and waiters, unless seq comes round.
LEMMA SignalHolds ==
  ASSUME Base, SignalInv, SeqNotReused, NEW t \in Threads, Step(t) PROVE SignalInv'
  <1>1. /\ at \in [Threads -> Labels] /\ snap \in [Threads -> 0 .. SeqMod - 1]
        /\ items \in Nat /\ Roles(t) /\ Consumers \cap Producers = {}
        /\ Consumers \subseteq Threads /\ Producers \subseteq Threads
    BY CondvarAssumption DEF Base, TypeOK, Threads
  <1>2. items' \in Nat
    BY BaseHolds DEF Base, TypeOK
  <1> USE <1>1, <1>2 DEF Goto, Roles
  <1>3. CASE ProgramLock(t) \/ UnlockBeforeSignal(t) \/ Release(t) \/ Relock(t)
    <2>1. /\ UNCHANGED << cond, items >>
          /\ \/ at' = at
             \/ at[t] = "lock" /\ t \in Consumers /\ at' = [at EXCEPT ![t] = "test"]
             \/ at[t] = "lock" /\ t \in Producers /\ at' = [at EXCEPT ![t] = "put"]
             \/ at[t] = "unlockput" /\ at' = [at EXCEPT ![t] = "bump"]
             \/ at[t] = "release" /\ at' = [at EXCEPT ![t] = "block"]
             \/ at[t] = "relock" /\ t \in timedout /\ at' = [at EXCEPT ![t] = "unlock"]
             \/ at[t] = "relock" /\ t \notin timedout /\ at' = [at EXCEPT ![t] = "test"]
      BY <1>3 DEF ProgramLock, UnlockBeforeSignal, Release, Relock, Locking, Unlocking, Threads
    <2>2. UNCHANGED << seq, cwaiters, snap, timedout, items >>
      BY <2>1 DEF cond
    <2>3. Committed' = Committed /\ Looking' = Looking
      BY <2>1, <2>2 DEF Committed, Looking
    <2>4. Announcing' = Announcing /\ Owing' = Owing
      BY <2>1, <2>2 DEF Announcing, Owing
    <2> QED
      BY <2>2, <2>3, <2>4, SignalKept
  <1>4. CASE ProgramUnlock(t)
    <2>1. /\ UNCHANGED << seq, cwaiters, snap, items >> /\ timedout' \subseteq timedout
          /\ at[t] = "unlock" /\ \E l \in {"unlock", "lock", "done"} : at' = [at EXCEPT ![t] = l]
      BY <1>4 DEF ProgramUnlock, EndRound
    <2>2. Committed' = Committed /\ Looking \subseteq Looking'
      BY <2>1 DEF Committed, Looking
    <2>3. Announcing' = Announcing /\ Owing' = Owing
      BY <2>1 DEF Announcing, Owing
    <2> QED
      BY <2>1, <2>2, <2>3, SignalKept
  <1>5. CASE Woken(t) \/ TimesOut(t)
    <2>1. /\ UNCHANGED << seq, snap, items >> /\ cwaiters' \subseteq cwaiters
          /\ at[t] = "asleep" /\ at' = [at EXCEPT ![t] = "relock"]
          /\ timedout' = timedout \/ (timedout' = timedout \cup {t} /\ t \in cwaiters)
          /\ cwaiters \ {t} \subseteq cwaiters'
      BY <1>5 DEF Woken, TimesOut, C!FutexAbandon
    <2>2. Committed' = Committed
      BY <2>1 DEF Committed
    <2>3. Looking \subseteq Looking'
      BY <2>1 DEF Looking
    <2>4. Announcing' = Announcing /\ Owing' = Owing
      BY <2>1 DEF Announcing, Owing
    <2> QED
      BY <2>1, <2>2, <2>3, <2>4, SignalKept
  <1>6. CASE Block(t)
    <2>1. /\ UNCHANGED << seq, snap, items, timedout >> /\ at[t] = "block"
          /\ t \in Consumers /\ t \notin timedout /\ t \notin cwaiters
      BY <1>6 DEF Block, Threads
    <2>2. Announcing' = Announcing /\ Owing' = Owing
      BY <1>6, <2>1 DEF Block, Announcing, Owing
    <2>3. CASE seq # snap[t]
      <3>1. at' = [at EXCEPT ![t] = "relock"] /\ UNCHANGED cwaiters
        BY <1>6, <2>3 DEF Block
      <3>2. Committed' \subseteq Committed /\ Looking \subseteq Looking'
        BY <2>1, <3>1 DEF Committed, Looking
      <3> QED
        BY <2>1, <2>2, <3>1, <3>2, SignalKept
    <2>4. CASE seq = snap[t]
      <3>1. at' = [at EXCEPT ![t] = "asleep"] /\ cwaiters' = cwaiters \cup {t}
        BY <1>6, <2>4 DEF Block, C!FutexSleep
      <3>2. Committed' \subseteq Committed /\ Looking' = Looking /\ t \in Committed
        BY <2>1, <2>4, <3>1 DEF Committed, Looking
      <3>3. Owing \subseteq Announcing
        BY SetsOf
      <3>4. Cardinality(Owing) <= Cardinality(Announcing)
        BY <3>3, Finite, Counting
      <3>5. Covered'
        BY <2>1, <2>2, <3>2 DEF SignalInv, Covered
      <3>6. NoLostSignal'
        BY <2>1, <2>2, <3>2, <3>3, <3>4, Finite DEF SignalInv, Covered, NoLostSignal
      <3> QED
        BY <3>5, <3>6 DEF SignalInv
    <2> QED
      BY <2>3, <2>4
  <1>7. CASE CondWait(t)
    <2>1. items' = 0
      BY <1>7 DEF CondWait
    <2> QED
      BY <2>1, Finite DEF SignalInv, Covered, NoLostSignal
  <1>8. CASE TakeItem(t)
    <2>1. /\ UNCHANGED << seq, cwaiters, snap, timedout >> /\ items' = items - 1
          /\ at[t] = "test" /\ at' = [at EXCEPT ![t] = "unlock"]
      BY <1>8 DEF TakeItem, cond
    <2>2. Committed' = Committed /\ Looking \ {t} \subseteq Looking'
      BY <2>1 DEF Committed, Looking
    <2>3. Announcing' = Announcing /\ Owing' = Owing
      BY <2>1 DEF Announcing, Owing
    <2>4. Cardinality(Looking) - 1 <= Cardinality(Looking')
      BY <2>2, Finite, Counting
    <2> QED
      BY <2>1, <2>2, <2>3, <2>4, Finite DEF SignalInv, Covered, NoLostSignal
  <1>9. CASE PutItems(t)
    <2>1. /\ UNCHANGED << seq, cwaiters, snap, timedout >> /\ items' = items + Share(t)
          /\ at[t] = "put" /\ \E l \in {"unlockput", "bump"} : at' = [at EXCEPT ![t] = l]
          /\ t \in Producers
      BY <1>9 DEF PutItems, cond, Threads
    <2>2. Committed' = Committed /\ Looking' = Looking
      BY <2>1 DEF Committed, Looking
    <2>3. /\ Announcing \subseteq Announcing' \ {t} /\ t \in Announcing'
          /\ Owing \subseteq Owing' \ {t} /\ t \in Owing'
      BY <2>1, SetsOf
    <2>4. CASE t \in Broadcasters
      BY <2>3, <2>4 DEF SignalInv, Covered, NoLostSignal
    <2>5. CASE t \notin Broadcasters
      <3>1. items' = items + 1
        BY <2>1, <2>5 DEF Share
      <3>2. /\ Cardinality(Announcing) + 1 <= Cardinality(Announcing')
            /\ Cardinality(Owing) + 1 <= Cardinality(Owing')
        BY <2>3, Finite, Counting
      <3> QED
        BY <2>1, <2>2, <2>3, <3>1, <3>2, Finite DEF SignalInv, Covered, NoLostSignal
    <2> QED
      BY <2>4, <2>5
  <1>10. CASE Bump(t)
    <2>1. /\ UNCHANGED << cwaiters, snap, timedout, items >>
          /\ at[t] = "bump" /\ at' = [at EXCEPT ![t] = "wake"] /\ t \in Producers
      BY <1>10 DEF Bump, Threads
    <2>2. \A c \in Consumers : at[c] \in {"release", "block"} => snap[c] # seq'
      BY <1>10, <2>1 DEF SeqNotReused
    <2>3. Committed' = {}
      BY <2>1, <2>2 DEF Committed
    <2>4. Looking \subseteq Looking'
      BY <2>1, <2>2 DEF Looking
    <2>5. Announcing' = Announcing
      BY <2>1 DEF Announcing
    <2>6. Cardinality(Looking) <= Cardinality(Looking')
      BY <2>4, Finite, Counting
    <2> QED
      BY <2>1, <2>3, <2>5, <2>6, Finite DEF SignalInv, Covered, NoLostSignal
  <1>11. CASE Wake(t)
    <2>1. /\ UNCHANGED << seq, snap, timedout, items >> /\ at[t] = "wake" /\ t \in Producers
          /\ \E l \in {"unlock", "lock", "done"} : at' = [at EXCEPT ![t] = l]
      BY <1>11 DEF Wake, EndRound, Threads
    <2>2. Committed' = Committed /\ Owing' = Owing
      BY <2>1 DEF Committed, Owing
    <2>3. Announcing \ {t} \subseteq Announcing'
      BY <2>1, SetsOf
    <2>4. cwaiters' \subseteq cwaiters
      BY <1>11 DEF Wake, C!FutexWakeOne, C!FutexWakeAll
    <2>5. Looking \subseteq Looking'
      BY <2>1, <2>4 DEF Looking
    <2>6. Cardinality(Looking) <= Cardinality(Looking')
      BY <2>5, Finite, Counting
    <2>7. Covered'
      BY <2>1, <2>2, <2>6, Finite DEF SignalInv, Covered
    <2>8. NoLostSignal'
      <3>1. CASE cwaiters' = {}
        BY <3>1 DEF NoLostSignal
      <3>2. CASE cwaiters' # {}
        <4>1. t \notin Broadcasters /\ \E u \in cwaiters : cwaiters' = cwaiters \ {u}
          BY <1>11, <3>2 DEF Wake, C!FutexWakeOne, C!FutexWakeAll
        <4>2. PICK u \in cwaiters : cwaiters' = cwaiters \ {u}
          BY <4>1
        <4>3. u \in Consumers /\ at[u] = "asleep" /\ u # t
          BY <2>1 DEF Base, TypeOK, Threads
        <4>4. Looking \subseteq Looking' \ {u} /\ u \in Looking'
          BY <2>1, <4>2, <4>3 DEF Looking
        <4>5. Cardinality(Looking) + 1 <= Cardinality(Looking')
          BY <4>4, Finite, Counting
        <4>6. Cardinality(Announcing) - 1 <= Cardinality(Announcing')
          BY <2>3, Finite, Counting
        <4>7. Announcing \cap Broadcasters \subseteq Announcing' \cap Broadcasters
          BY <2>3, <4>1
        <4> QED
          BY <2>1, <4>2, <4>5, <4>6, <4>7, Finite DEF SignalInv, NoLostSignal
      <3> QED
        BY <3>1, <3>2
    <2> QED
      BY <2>7, <2>8 DEF SignalInv
  <1> QED
    BY <1>3, <1>4, <1>5, <1>6, <1>7, <1>8, <1>9, <1>10, <1>11 DEF Step

\* NoLostSignal for any consumers and producers and any number of signals, on
\* the one condition the code's counter needs: no waiter is caught between its
\* read of seq and its futex_wait while seq runs through all of its values.
THEOREM NoSignalLost == Spec /\ [][SeqNotReused]_vars => []NoLostSignal
  <1>1. Init => SignalInv
    BY Finite DEF Init, SignalInv, Covered, NoLostSignal
  <1>2. Base /\ SignalInv /\ [Next]_vars /\ [SeqNotReused]_vars => SignalInv'
    <2> SUFFICES ASSUME Base, SignalInv, [Next]_vars, [SeqNotReused]_vars PROVE SignalInv'
      OBVIOUS
    <2>1. CASE UNCHANGED vars
      <3>1. UNCHANGED << seq, cwaiters, snap, timedout, items, at >>
        BY <2>1 DEF vars, cond
      <3>2. /\ Committed' = Committed /\ Looking' = Looking
            /\ Announcing' = Announcing /\ Owing' = Owing
        BY <3>1 DEF Committed, Looking, Announcing, Owing
      <3> QED
        BY <3>1, <3>2 DEF SignalInv, Covered, NoLostSignal
    <2>2. ASSUME NEW t \in Threads, Step(t), SeqNotReused PROVE SignalInv'
      BY <2>2, SignalHolds
    <2> QED
      BY <2>1, <2>2 DEF Next, Terminated
  <1>3. SignalInv => NoLostSignal
    BY DEF SignalInv
  <1> QED
    BY <1>1, <1>2, <1>3, BaseInvariance, PTL DEF Spec

\* The signals sent so far: a producer and the round it sent one in.
Sent ==
  {x \in Producers \X (1 .. Rounds) :
     x[2] <= round[x[1]] \/ (x[2] = round[x[1]] + 1 /\ at[x[1]] \in {"wake", "unlock"})}

\* As long as there are fewer than seq has values, seq is their number.
SeqCounts == seq = Cardinality(Sent) /\ \A c \in Consumers : snap[c] <= seq

\* No more signals are sent than the producers have rounds.
LEMMA SentBounded ==
  /\ IsFiniteSet(Sent) /\ Cardinality(Sent) \in Nat
  /\ IsFiniteSet(Sent') /\ Cardinality(Sent') \in Nat
  /\ Cardinality(Sent') <= Cardinality(Producers) * Rounds
  <1>1. IsFiniteSet(1 .. Rounds) /\ Cardinality(1 .. Rounds) = Rounds
    BY CondvarAssumption, FS_Interval
  <1>2. /\ IsFiniteSet(Producers \X (1 .. Rounds))
        /\ Cardinality(Producers \X (1 .. Rounds)) = Cardinality(Producers) * Rounds
    BY <1>1, CondvarAssumption, FS_Product
  <1>3. {Sent, Sent'} \subseteq SUBSET (Producers \X (1 .. Rounds))
    BY DEF Sent
  <1> QED
    BY <1>2, <1>3, FS_Subset, FS_CardinalityType

\* Then seq goes on counting, and never comes round.
LEMMA SeqCountsHolds ==
  ASSUME Cardinality(Producers) * Rounds < SeqMod,
         Base, SeqCounts, NEW t \in Threads, Step(t)
  PROVE  SeqCounts' /\ SeqNotReused
  <1>1. /\ at \in [Threads -> Labels] /\ snap \in [Threads -> 0 .. SeqMod - 1]
        /\ round \in [Threads -> 0 .. Rounds] /\ seq \in Nat
        /\ \A u \in Threads : Roles(u)
        /\ Producers \subseteq Threads /\ Consumers \subseteq Threads
        /\ Consumers \cap Producers = {} /\ Rounds \in Nat /\ SeqMod \in Nat
    BY CondvarAssumption DEF Base, TypeOK, Threads
  <1> USE <1>1 DEF Goto
  <1>2. ASSUME NEW p \in Producers, Bump(p) PROVE SeqCounts' /\ SeqNotReused
    <2> DEFINE new == << p, round[p] + 1 >>
    <2>1. /\ at[p] = "bump" /\ at' = [at EXCEPT ![p] = "wake"]
          /\ UNCHANGED << round, snap >> /\ seq' = (seq + 1) % SeqMod
      BY <1>2 DEF Bump
    <2>2. round[p] \in 0 .. Rounds - 1
      BY <2>1 DEF Roles
    <2>3. new \notin Sent /\ Sent' = Sent \cup {new}
      <3>1. new \in Producers \X (1 .. Rounds)
        BY <2>2
      <3>2. new \notin Sent
        BY <2>1, <2>2 DEF Sent
      <3>3. ASSUME NEW x \in Producers \X (1 .. Rounds)
            PROVE  x \in Sent' <=> x \in Sent \/ x = new
        BY <2>1, <2>2 DEF Sent
      <3> QED
        BY <3>1, <3>2, <3>3 DEF Sent
    <2>4. Cardinality(Sent') = seq + 1
      BY <2>3, SentBounded, FS_AddElement DEF SeqCounts
    <2>5. seq + 1 < SeqMod
      BY <2>4, SentBounded, CondvarAssumption, FS_CardinalityType
    <2>6. seq' = seq + 1
      BY <2>1, <2>5
    <2>7. SeqCounts'
      BY <2>1, <2>4, <2>6 DEF SeqCounts
    <2>8. SeqNotReused
      BY <2>6 DEF SeqNotReused, SeqCounts
    <2> QED
      BY <2>7, <2>8
  <1>3. ASSUME ~ \E p \in Producers : Bump(p) PROVE SeqCounts' /\ SeqNotReused
    <2>1. seq' = seq
      BY <1>3 DEF Step, ProgramLock, TakeItem, PutItems, UnlockBeforeSignal, ProgramUnlock,
                  CondWait, Release, Block, Woken, TimesOut, Relock, Wake, cond, Bump, Roles, Threads
    <2>2. snap' = snap \/ snap' = [snap EXCEPT ![t] = seq]
      BY DEF Step, ProgramLock, TakeItem, PutItems, UnlockBeforeSignal, ProgramUnlock,
             CondWait, Release, Block, Woken, TimesOut, Relock, Wake, cond, Bump
    <2>3. \A c \in Consumers : snap'[c] <= seq'
      BY <2>1, <2>2 DEF SeqCounts
    <2>4. Sent' = Sent
      <3>1. CASE ProgramUnlock(t) \/ Wake(t)
        <4>1. /\ at[t] \in {"wake", "unlock"}
              /\ \/ round' = round /\ \E l \in {"wake", "unlock"} : at' = [at EXCEPT ![t] = l]
                 \/ /\ round' = [round EXCEPT ![t] = @ + 1]
                    /\ \E l \in {"lock", "done"} : at' = [at EXCEPT ![t] = l]
          BY <3>1 DEF ProgramUnlock, Wake, EndRound
        <4>2. round[t] \in 0 .. Rounds - 1
          BY <4>1 DEF Roles
        <4>3. ASSUME NEW x \in Producers \X (1 .. Rounds) PROVE x \in Sent' <=> x \in Sent
          BY <4>1, <4>2 DEF Sent
        <4> QED
          BY <4>3 DEF Sent
      <3>2. CASE ~ (ProgramUnlock(t) \/ Wake(t))
        <4>1. /\ round' = round
              /\ \/ at' = at
                 \/ \E l \in Labels : /\ at' = [at EXCEPT ![t] = l]
                                      /\ at[t] \notin {"wake", "unlock"}
                                      /\ t \in Producers => l \notin {"wake", "unlock"}
          BY <1>3, <3>2
          DEF Step, ProgramLock, TakeItem, PutItems, UnlockBeforeSignal, CondWait, Release,
              Block, Woken, TimesOut, Relock, Locking, Unlocking, Labels, Bump, Roles, Threads
        <4>2. \A p \in Producers : at'[p] \in {"wake", "unlock"} <=> at[p] \in {"wake", "unlock"}
          BY <4>1
        <4> QED
          BY <4>1, <4>2 DEF Sent
      <3> QED
        BY <3>1, <3>2
    <2> QED
      BY <1>3, <2>1, <2>3, <2>4 DEF SeqCounts, SeqNotReused
  <1> QED
    BY <1>2, <1>3

\* In particular NoLostSignal holds as long as fewer signals are sent than seq
\* has values, which is 2^32 in the code.
THEOREM FewSignalsNotLost ==
  ASSUME Cardinality(Producers) * Rounds < SeqMod
  PROVE  Spec => []NoLostSignal
  <1>1. Init => SeqCounts
    <2> SUFFICES ASSUME Init PROVE SeqCounts
      OBVIOUS
    <2>1. Sent = {}
      BY CondvarAssumption DEF Init, Sent, Threads
    <2> QED
      BY <2>1, FS_EmptySet DEF Init, SeqCounts, Threads
  <1>2. Base /\ SeqCounts /\ [Next]_vars => SeqCounts' /\ [SeqNotReused]_vars
    <2> SUFFICES ASSUME Base, SeqCounts, [Next]_vars PROVE SeqCounts' /\ [SeqNotReused]_vars
      OBVIOUS
    <2>1. CASE UNCHANGED vars
      BY <2>1 DEF vars, cond, SeqCounts, Sent
    <2>2. ASSUME NEW t \in Threads, Step(t) PROVE SeqCounts' /\ SeqNotReused
      BY <2>2, SeqCountsHolds
    <2> QED
      BY <2>1, <2>2 DEF Next, Terminated
  <1> QED
    BY <1>1, <1>2, BaseInvariance, NoSignalLost, PTL DEF Spec
=============================================================================
