------------------------------- MODULE Mutex -------------------------------
(***************************************************************************)
(* pthread_mutex_lock, _trylock and _unlock (src/src/pthread.c): the       *)
(* three-state futex mutex.  One action is one atomic instruction or one   *)
(* system call of one thread, so every interleaving the code allows is a   *)
(* behaviour.                                                              *)
(*                                                                         *)
(*   pc       the thread is about to execute                               *)
(*   "out"    nothing: it neither holds the mutex nor is inside a call     *)
(*   "xchg"   c = atomic_exchange(&m->state, 2)           lines 59 and 66  *)
(*   "wait"   futex_wait(&m->state, 2)                    line 65          *)
(*   "asleep" (inside futex_wait)                         line 65          *)
(*   "in"     its critical section: it holds the mutex                     *)
(*   "store"  atomic_store(&m->state, 0) of the unlock    line 76          *)
(*   "wake"   futex_wake(&m->state, 1) of the unlock      line 77          *)
(*                                                                         *)
(* Only the holder unlocks, as POSIX demands of the caller; the argument   *)
(* checks (a null mutex is -EINVAL) change no state and are left out.      *)
(***************************************************************************)
EXTENDS Naturals, Futex

VARIABLES
  state,    \* m->state: 0 unlocked, 1 locked, 2 locked with possible sleepers
  pc        \* [Threads -> Labels]

vars == <<waiters, state, pc>>

Labels == {"out", "xchg", "wait", "asleep", "in", "store", "wake"}

\* pthread_mutex_init / PTHREAD_MUTEX_INITIALIZER, before any thread uses it.
Init ==
  /\ state = 0
  /\ waiters = {}
  /\ pc = [t \in Threads |-> "out"]

Goto(t, label) == pc' = [pc EXCEPT ![t] = label]

-----------------------------------------------------------------------------
(* Variants of the operations below with a plausible slip each; the        *)
(* properties must tell them from the code.                                *)

\* _trylock accepts any word but 2.
TrylockAnyButContended(t) ==
  pc[t] = "out" /\ state # 2 /\ state' = 1 /\ Goto(t, "in") /\ UNCHANGED waiters

\* while (c == 2) where the code has while (c != 0).
LockExchangeLoose(t) ==
  /\ pc[t] = "xchg"
  /\ state' = 2
  /\ Goto(t, IF state # 2 THEN "in" ELSE "wait")
  /\ UNCHANGED waiters

\* A woken thread takes the free mutex as uncontended.
LockExchangeOne(t) ==
  /\ pc[t] = "xchg"
  /\ state' = IF state = 0 THEN 1 ELSE 2
  /\ Goto(t, IF state = 0 THEN "in" ELSE "wait")
  /\ UNCHANGED waiters

\* The wake of a contended unlock is forgotten.
UnlockStoreOnly(t) ==
  pc[t] = "store" /\ state' = 0 /\ Goto(t, "out") /\ UNCHANGED waiters

-----------------------------------------------------------------------------
\* The compare-exchange both entry points open with: 0 becomes 1 at once.
Acquire(t) ==
  /\ state = 0
  /\ state' = 1
  /\ Goto(t, "in")

\* A failed compare-exchange reports the state it saw; only a 2 lets the
\* caller go straight to the futex, a 1 must be turned into a 2 first.
Lock(t) ==
  /\ pc[t] = "out"
  /\ \/ Acquire(t)
     \/ /\ state # 0
        /\ Goto(t, IF state = 2 THEN "wait" ELSE "xchg")
        /\ UNCHANGED state
  /\ UNCHANGED waiters

\* -EBUSY leaves everything as it was.
Trylock(t) ==
  /\ pc[t] = "out"
  /\ Acquire(t)
  /\ UNCHANGED waiters

\* Publish the 2; whoever reads 0 in exchange has the mutex.
LockExchange(t) ==
  /\ pc[t] = "xchg"
  /\ state' = 2
  /\ Goto(t, IF state = 0 THEN "in" ELSE "wait")
  /\ UNCHANGED waiters

\* The kernel compares the word with 2: sleep, or -EAGAIN and look again.
LockWait(t) ==
  /\ pc[t] = "wait"
  /\ \/ state = 2 /\ FutexSleep(t) /\ Goto(t, "asleep")
     \/ state # 2 /\ Goto(t, "xchg") /\ UNCHANGED waiters
  /\ UNCHANGED state

\* futex_wait returns, woken or interrupted; its result is not looked at.
LockReturn(t) ==
  /\ pc[t] = "asleep"
  /\ \/ t \notin waiters /\ UNCHANGED waiters
     \/ FutexAbandon(t)
  /\ Goto(t, "xchg")
  /\ UNCHANGED state

\* fetch_sub: only a 1 says that nobody can be asleep.
Unlock(t) ==
  /\ pc[t] = "in"
  /\ state' = state - 1
  /\ Goto(t, IF state = 1 THEN "out" ELSE "store")
  /\ UNCHANGED waiters

UnlockStore(t) ==
  /\ pc[t] = "store"
  /\ state' = 0
  /\ Goto(t, "wake")
  /\ UNCHANGED waiters

UnlockWake(t) ==
  /\ pc[t] = "wake"
  /\ FutexWakeOne
  /\ Goto(t, "out")
  /\ UNCHANGED state

\* What is left of a call of pthread_mutex_lock, and of one of _unlock.
LockRest(t)   == LockExchange(t) \/ LockWait(t) \/ LockReturn(t)
UnlockRest(t) == UnlockStore(t) \/ UnlockWake(t)

Call(t) == Lock(t) \/ Trylock(t)
Step(t) == LockRest(t) \/ Unlock(t) \/ UnlockRest(t)

Next == \E t \in Threads : Call(t) \/ Step(t)

Spec == Init /\ [][Next]_vars

\* A thread inside a call keeps running, a sleeper that was woken gets the
\* processor, and a holder leaves its critical section.  No thread has to
\* call lock, and no signal has to interrupt a sleeper.
Fairness == \A t \in Threads : WF_vars(Step(t) /\ ~ (t \in waiters))

FairSpec == Spec /\ Fairness

-----------------------------------------------------------------------------
\* The word has one of the three values of lines 6-19, and sleepers are threads.
TypeOK ==
  /\ state \in {0, 1, 2}
  /\ waiters \subseteq Threads
  /\ pc \in [Threads -> Labels]

\* The threads between a successful lock and the instruction that frees it.
Holders == {t \in Threads : pc[t] \in {"in", "store"}}

\* At most one thread holds the mutex, and the word says 0 exactly when no
\* thread does.
MutualExclusion ==
  /\ \A t, u \in Holders : t = u
  /\ state = 0 <=> Holders = {}

\* The threads that will look at the word again, or will wake a sleeper,
\* whatever the other threads do.
Movers ==
  {t \in Threads : \/ pc[t] \in {"xchg", "wait", "store", "wake"}
                   \/ pc[t] = "asleep" /\ t \notin waiters}

\* No wake-up is lost: while a thread sleeps, either the word says 2, so that
\* the holder's unlock is obliged to wake someone, or some thread is already
\* on its way to wake a sleeper or to publish a 2 (comment at lines 20-25 and
\* 61-64).
NoLostWakeup == waiters # {} => state = 2 \/ Movers # {}

\* Whoever sleeps is inside futex_wait; with NoLostWakeup and MutualExclusion
\* this is the whole inductive invariant.
SleepersAreAsleep == \A t \in waiters : pc[t] = "asleep"

L == INSTANCE AbstractLock WITH holders <- Holders

\* The mutex implements the abstract lock: ownership passes at the successful
\* compare-exchange or exchange, and ends at the fetch_sub of an uncontended
\* unlock or at the store of a contended one, never in the window between.
ImplementsLock == L!Spec

\* If the threads stop calling lock at some point, every thread that is still
\* inside a call gets the mutex and gets out again: nobody is left asleep.
EventuallyIdle ==
  <>[][~ \E t \in Threads : Call(t)]_vars => <>[](\A t \in Threads : pc[t] = "out")

=============================================================================
