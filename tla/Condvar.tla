------------------------------ MODULE Condvar ------------------------------
(***************************************************************************)
(* pthread_cond_wait, _timedwait_relative, _signal and _broadcast          *)
(* (src/src/pthread.c) composed with the futex mutex they release and take *)
(* again, under the program the pair is made for: consumers that wait for  *)
(* a shared counter to become positive, producers that raise it and then   *)
(* signal or broadcast, inside or outside the mutex.                       *)
(*                                                                         *)
(*   at          the thread is                                             *)
(*   "lock"      in the program's pthread_mutex_lock                       *)
(*   "test"      in the mutex, about to look at the counter (consumer)     *)
(*   "put"       in the mutex, about to raise it (producer)                *)
(*   "release"   in the mutex_unlock of cond_wait_common         line 120  *)
(*   "block"     about to make the futex_wait on seq             line 121  *)
(*   "asleep"    inside that futex_wait                          line 121  *)
(*   "relock"    in the mutex_lock of cond_wait_common           line 123  *)
(*   "unlockput" in the unlock that precedes a signal (producer)           *)
(*   "bump"      about to increment seq                lines 144 and 151   *)
(*   "wake"      about to make the futex_wake          lines 145 and 154   *)
(*   "unlock"    in the program's last pthread_mutex_unlock                *)
(*   "done"      at the end of its program                                 *)
(***************************************************************************)
EXTENDS Naturals, FiniteSets

CONSTANTS
  Consumers, Producers,
  Timed,          \* the consumers that use the timed wait
  Broadcasters,   \* the producers that serve every consumer with one broadcast
  Rounds,         \* bound: how often each thread runs its program
  SeqMod          \* the number of values seq takes (2^32)

ASSUME CondvarAssumption ==
  /\ IsFiniteSet(Consumers) /\ IsFiniteSet(Producers)
  /\ Consumers \cap Producers = {}
  /\ Timed \subseteq Consumers
  /\ Broadcasters \subseteq Producers
  /\ Rounds \in Nat \ {0}
  /\ SeqMod \in Nat \ {0}

Threads == Consumers \cup Producers

VARIABLES
  waiters, state, pc,   \* the mutex, see Mutex
  seq,        \* c->seq
  cwaiters,   \* the kernel's queue of the futex on seq
  at,         \* where each thread is, see above
  snap,       \* the local seq of cond_wait_common
  timedout,   \* the threads whose futex_wait returned -ETIMEDOUT
  items,      \* the counter the mutex protects
  round       \* rounds each thread has finished

M == INSTANCE Mutex
C == INSTANCE Futex WITH waiters <- cwaiters

mutex == <<waiters, state, pc>>
cond  == <<seq, cwaiters, snap, timedout>>
vars  == <<mutex, cond, at, items, round>>

Labels == {"lock", "test", "put", "release", "block", "asleep", "relock",
           "unlockput", "bump", "wake", "unlock", "done"}

Init ==
  /\ M!Init
  /\ seq = 0
  /\ cwaiters = {}
  /\ at = [t \in Threads |-> "lock"]
  /\ snap = [t \in Threads |-> 0]
  /\ timedout = {}
  /\ items = 0
  /\ round = [t \in Threads |-> 0]

Goto(t, label) == at' = [at EXCEPT ![t] = label]

-----------------------------------------------------------------------------
(* Variants of the operations below with a plausible slip each; the        *)
(* properties must tell them from the code.                                *)

\* seq is read after the mutex has been released.
BlockLateRead(t) ==
  /\ at[t] = "block"
  /\ C!FutexSleep(t)
  /\ Goto(t, "asleep")
  /\ UNCHANGED <<mutex, seq, snap, timedout, items, round>>

\* A wait that has timed out comes back without the mutex.
TimesOutKeepsOut(t) ==
  /\ at[t] = "asleep"
  /\ t \in Timed
  /\ C!FutexAbandon(t)
  /\ timedout' = timedout \cup {t}
  /\ Goto(t, "unlock")
  /\ UNCHANGED <<mutex, seq, snap, items, round>>

\* The wake comes first, the increment never.
BumpForgotten(t) ==
  /\ at[t] = "bump"
  /\ Goto(t, "wake")
  /\ UNCHANGED <<mutex, cond, items, round>>

-----------------------------------------------------------------------------
\* t runs one step of a pthread_mutex_lock call, or of an _unlock call; when
\* the call returns it goes on at next.
Locking(t, next) ==
  /\ M!Lock(t) \/ M!LockRest(t)
  /\ IF pc'[t] = "in" THEN Goto(t, next) ELSE UNCHANGED at

Unlocking(t, next) ==
  /\ M!Unlock(t) \/ M!UnlockRest(t)
  /\ IF pc'[t] = "out" THEN Goto(t, next) ELSE UNCHANGED at

\* cond_wait_common, entered with the mutex held: seq is read first.
CondWait(t) ==
  /\ at[t] = "test"
  /\ items = 0
  /\ snap' = [snap EXCEPT ![t] = seq]
  /\ Goto(t, "release")
  /\ UNCHANGED <<mutex, seq, cwaiters, timedout, items, round>>

Release(t) ==
  /\ at[t] = "release"
  /\ Unlocking(t, "block")
  /\ UNCHANGED <<cond, items, round>>

\* The kernel compares seq with what was read: sleep, or -EAGAIN.
Block(t) ==
  /\ at[t] = "block"
  /\ \/ seq = snap[t] /\ C!FutexSleep(t) /\ Goto(t, "asleep")
     \/ seq # snap[t] /\ UNCHANGED cwaiters /\ Goto(t, "relock")
  /\ UNCHANGED <<mutex, seq, snap, timedout, items, round>>

\* futex_wait returns 0 or -EINTR, which cond_wait_common does not tell apart.
Woken(t) ==
  /\ at[t] = "asleep"
  /\ \/ t \notin cwaiters /\ UNCHANGED cwaiters
     \/ C!FutexAbandon(t)
  /\ Goto(t, "relock")
  /\ UNCHANGED <<mutex, seq, snap, timedout, items, round>>

TimesOut(t) ==
  /\ at[t] = "asleep"
  /\ t \in Timed
  /\ C!FutexAbandon(t)
  /\ timedout' = timedout \cup {t}
  /\ Goto(t, "relock")
  /\ UNCHANGED <<mutex, seq, snap, items, round>>

\* The mutex is taken again whatever the wait returned; the program gives up
\* on -ETIMEDOUT and tests its condition again otherwise.
Relock(t) ==
  /\ at[t] = "relock"
  /\ Locking(t, IF t \in timedout THEN "unlock" ELSE "test")
  /\ UNCHANGED <<cond, items, round>>

\* _signal and _broadcast: increment seq, then wake one sleeper or all.
Bump(t) ==
  /\ at[t] = "bump"
  /\ seq' = (seq + 1) % SeqMod
  /\ Goto(t, "wake")
  /\ UNCHANGED <<mutex, cwaiters, snap, timedout, items, round>>

EndRound(t) ==
  /\ round' = [round EXCEPT ![t] = @ + 1]
  /\ Goto(t, IF round[t] + 1 = Rounds THEN "done" ELSE "lock")

Wake(t) ==
  /\ at[t] = "wake"
  /\ IF t \in Broadcasters THEN C!FutexWakeAll ELSE C!FutexWakeOne
  /\ IF pc[t] = "in" THEN Goto(t, "unlock") /\ UNCHANGED round ELSE EndRound(t)
  /\ UNCHANGED <<mutex, seq, snap, timedout, items>>

-----------------------------------------------------------------------------
(* The program around the condition variable.                              *)

ProgramLock(t) ==
  /\ at[t] = "lock"
  /\ Locking(t, IF t \in Consumers THEN "test" ELSE "put")
  /\ UNCHANGED <<cond, items, round>>

TakeItem(t) ==
  /\ at[t] = "test"
  /\ items > 0
  /\ items' = items - 1
  /\ Goto(t, "unlock")
  /\ UNCHANGED <<mutex, cond, round>>

Share(t) == IF t \in Broadcasters THEN Cardinality(Consumers) ELSE 1

PutItems(t) ==
  /\ at[t] = "put"
  /\ items' = items + Share(t)
  /\ \E label \in {"unlockput", "bump"} : Goto(t, label)
  /\ UNCHANGED <<mutex, cond, round>>

UnlockBeforeSignal(t) ==
  /\ at[t] = "unlockput"
  /\ Unlocking(t, "bump")
  /\ UNCHANGED <<cond, items, round>>

ProgramUnlock(t) ==
  /\ at[t] = "unlock"
  /\ M!Unlock(t) \/ M!UnlockRest(t)
  /\ IF pc'[t] = "out"
       THEN EndRound(t) /\ timedout' = timedout \ {t}
       ELSE UNCHANGED <<at, round, timedout>>
  /\ UNCHANGED <<seq, cwaiters, snap, items>>

Step(t) ==
  \/ ProgramLock(t) \/ TakeItem(t) \/ PutItems(t)
  \/ UnlockBeforeSignal(t) \/ ProgramUnlock(t)
  \/ CondWait(t) \/ Release(t) \/ Block(t) \/ Woken(t) \/ TimesOut(t) \/ Relock(t)
  \/ Bump(t) \/ Wake(t)

AllDone == \A t \in Threads : at[t] = "done"

Terminated == AllDone /\ UNCHANGED vars

Next == (\E t \in Threads : Step(t)) \/ Terminated

Spec == Init /\ [][Next]_vars

\* Every thread keeps running its program; a sleeper runs once it was woken,
\* and neither signals nor timeouts have to come.
FairSpec ==
  /\ Spec
  /\ \A t \in Threads : WF_vars(Step(t) /\ t \notin waiters \cup cwaiters)

-----------------------------------------------------------------------------
\* The mutex is well typed, seq stays in its width, only timed waits time out.
TypeOK ==
  /\ M!TypeOK
  /\ seq \in 0 .. SeqMod - 1
  /\ cwaiters \subseteq Threads
  /\ at \in [Threads -> Labels]
  /\ snap \in [Threads -> 0 .. SeqMod - 1]
  /\ timedout \subseteq Timed
  /\ items \in Nat
  /\ round \in [Threads -> 0 .. Rounds]

\* The wait returns with the mutex held, whatever ended it: at "test" after a
\* wake-up, an interruption or -EAGAIN, at "unlock" after a timeout, where the
\* program has the mutex until its own unlock call has freed it.  The critical
\* sections exclude each other although cond_wait opens them halfway.
ReturnsWithMutex ==
  /\ M!MutualExclusion
  /\ \A t \in Threads : at[t] \in {"test", "put"} => pc[t] = "in"
  /\ \A t \in Threads :
       at[t] \in {"release", "unlockput", "unlock"} => pc[t] \in {"in", "store", "wake"}
  /\ \A t \in Threads : at[t] \in {"block", "asleep"} => pc[t] = "out"

\* Producers whose items have not been announced by a futex_wake yet.
Announcing == {p \in Producers : at[p] \in {"unlockput", "bump", "wake"}}

\* Consumers that will look at the counter before they sleep.
Looking ==
  {c \in Consumers : \/ at[c] \in {"lock", "test"}
                     \/ at[c] \in {"release", "block"} /\ snap[c] # seq
                     \/ at[c] = "asleep" /\ c \notin cwaiters
                     \/ at[c] = "relock" /\ c \notin timedout}

\* No signal is lost (comment at lines 84-88 and 115-117): while a consumer
\* sleeps, every item is matched by a producer that has yet to wake someone or
\* by a consumer that is on its way to look; a broadcast still to come is
\* good for any number.
NoLostSignal ==
  \/ cwaiters = {}
  \/ Announcing \cap Broadcasters # {}
  \/ items <= Cardinality(Announcing) + Cardinality(Looking)

\* A signal of the operating system ends a wait on seq early (-EINTR).
Interrupted == \E t \in cwaiters : Woken(t)

\* With items for everybody, everybody finishes, provided operating-system
\* signals do not interrupt the waits for ever: the mutex is unfair, and an
\* endless storm of them lets the consumers keep the producers out of it.
EverybodyFinishes == <>[][~ Interrupted]_vars => <>AllDone

=============================================================================
