----------------------------- MODULE Semaphore -----------------------------
(***************************************************************************)
(* sem_init, sem_wait, sem_timedwait_relative, sem_trywait and sem_post    *)
(* (src/src/semaphore.c).  The count is the futex word.  One action is one *)
(* atomic instruction or one system call of one thread.                    *)
(*                                                                         *)
(*   pc       the thread is about to execute                               *)
(*   "out"    nothing: it is outside every call                            *)
(*   "load"   v = atomic_load(&sem->value)                lines 25 and 49  *)
(*   "cas"    compare_exchange(&sem->value, &v, v - 1)    lines 30 and 51  *)
(*   "wait"   futex_wait(&sem->value, 0)                  line 58          *)
(*   "asleep" (inside futex_wait)                         line 58          *)
(*   "wake"   futex_wake(&sem->value, 1) of a post        line 85          *)
(*                                                                         *)
(* The compare-exchange is weak, but on the x86-64 the library is built    *)
(* for it fails only when the values differ.  sem_getvalue and the         *)
(* argument checks change no state and are left out.                       *)
(***************************************************************************)
EXTENDS Integers, FiniteSets, Futex

CONSTANTS
  IntMax,       \* the largest int
  InitValue,    \* the unsigned argument of sem_init
  MaxPosts      \* bound: calls of sem_post in a behaviour

ASSUME SemaphoreAssumption ==
  /\ IsFiniteSet(Threads)
  /\ IntMax \in Nat
  /\ InitValue \in 0 .. 2 * IntMax + 1
  /\ MaxPosts \in Nat

VARIABLES
  value,    \* sem->value
  pc,       \* [Threads -> Labels]
  op,       \* which call the thread is in: "wait", "timed" or "try"
  v,        \* the local v of the call
  posted,   \* history: how often sem_post has added one
  taken     \* history: how often a wait has taken one

local == <<pc, op, v>>
vars  == <<waiters, value, local, posted, taken>>

Labels == {"out", "load", "cas", "wait", "asleep", "wake"}
Ops    == {"wait", "timed", "try"}

\* Conversion to a signed int of the width of IntMax.
ToInt(n) == IF n > IntMax THEN n - 2 * (IntMax + 1) ELSE n

\* sem_init, before any other thread uses the semaphore.
Init ==
  /\ value = ToInt(InitValue)
  /\ waiters = {}
  /\ pc = [t \in Threads |-> "out"]
  /\ op = [t \in Threads |-> "wait"]
  /\ v = [t \in Threads |-> 0]
  /\ posted = 0
  /\ taken = 0

Goto(t, label) == pc' = [pc EXCEPT ![t] = label]

-----------------------------------------------------------------------------
(* Variants of the operations below with a plausible slip each; the        *)
(* properties must tell them from the code.                                *)

\* The count is stored back without comparing.
TakeUnchecked(t) ==
  /\ pc[t] = "cas"
  /\ value' = v[t] - 1
  /\ taken' = taken + 1
  /\ Goto(t, "out")
  /\ UNCHANGED <<waiters, op, v, posted>>

\* The sleep does not compare the word with 0.
WaitUnchecked(t) ==
  /\ pc[t] = "wait"
  /\ FutexSleep(t)
  /\ Goto(t, "asleep")
  /\ UNCHANGED <<value, op, v, posted, taken>>

\* A post wakes only when it raised the count from 0.
PostOnlyFromZero(t) ==
  /\ pc[t] = "out"
  /\ posted < MaxPosts
  /\ value' = ToInt(value + 1)
  /\ posted' = posted + 1
  /\ Goto(t, IF value = 0 THEN "wake" ELSE "out")
  /\ UNCHANGED <<waiters, op, v, taken>>

-----------------------------------------------------------------------------
\* sem_wait, sem_timedwait_relative or sem_trywait is called.
Begin(t, o) ==
  /\ pc[t] = "out"
  /\ op' = [op EXCEPT ![t] = o]
  /\ Goto(t, "load")
  /\ UNCHANGED <<waiters, value, v, posted, taken>>

\* A count has been read: try to take one if it is positive; otherwise
\* sem_trywait returns -EAGAIN and the others go to the futex.
Read(t) ==
  /\ v' = [v EXCEPT ![t] = value]
  /\ Goto(t, IF value > 0 THEN "cas" ELSE IF op[t] = "try" THEN "out" ELSE "wait")

Load(t) ==
  /\ pc[t] = "load"
  /\ Read(t)
  /\ UNCHANGED <<waiters, value, op, posted, taken>>

\* The compare-exchange finds the count it expects and the call returns 0.
Take(t) ==
  /\ pc[t] = "cas"
  /\ value = v[t]
  /\ value' = v[t] - 1
  /\ taken' = taken + 1
  /\ Goto(t, "out")
  /\ UNCHANGED <<waiters, op, v, posted>>

\* It does not: sem_trywait goes on with the count it was handed back, the
\* wait loop loads the count anew.
TakeFails(t) ==
  /\ pc[t] = "cas"
  /\ value # v[t]
  /\ \/ op[t] = "try" /\ Read(t)
     \/ op[t] # "try" /\ Goto(t, "load") /\ UNCHANGED v
  /\ UNCHANGED <<waiters, value, op, posted, taken>>

\* The kernel compares the word with 0: sleep, or -EAGAIN and look again.
Wait(t) ==
  /\ pc[t] = "wait"
  /\ \/ value = 0 /\ FutexSleep(t) /\ Goto(t, "asleep")
     \/ value # 0 /\ Goto(t, "load") /\ UNCHANGED waiters
  /\ UNCHANGED <<value, op, v, posted, taken>>

\* futex_wait returns 0 or -EINTR: both mean look again.
WaitReturns(t) ==
  /\ pc[t] = "asleep"
  /\ \/ t \notin waiters /\ UNCHANGED waiters
     \/ FutexAbandon(t)
  /\ Goto(t, "load")
  /\ UNCHANGED <<value, op, v, posted, taken>>

\* -ETIMEDOUT is the one result that ends the call without a unit.
TimesOut(t) ==
  /\ pc[t] = "asleep"
  /\ op[t] = "timed"
  /\ FutexAbandon(t)
  /\ Goto(t, "out")
  /\ UNCHANGED <<value, op, v, posted, taken>>

Post(t) ==
  /\ pc[t] = "out"
  /\ posted < MaxPosts
  /\ value' = ToInt(value + 1)
  /\ posted' = posted + 1
  /\ Goto(t, "wake")
  /\ UNCHANGED <<waiters, op, v, taken>>

PostWakes(t) ==
  /\ pc[t] = "wake"
  /\ FutexWakeOne
  /\ Goto(t, "out")
  /\ UNCHANGED <<value, op, v, posted, taken>>

Call(t) == Post(t) \/ \E o \in Ops : Begin(t, o)

Step(t) == \/ Load(t) \/ Take(t) \/ TakeFails(t)
           \/ Wait(t) \/ WaitReturns(t) \/ TimesOut(t)
           \/ PostWakes(t)

Next == \E t \in Threads : Call(t) \/ Step(t)

Spec == Init /\ [][Next]_vars

\* A thread inside a call keeps running and a woken sleeper gets the
\* processor; nobody has to call, and no signal or timeout has to come.
Fairness == \A t \in Threads : WF_vars(Step(t) /\ t \notin waiters)

FairSpec == Spec /\ Fairness

-----------------------------------------------------------------------------
\* The count and its copies stay in an int; the history counters count.
TypeOK ==
  /\ value \in -(IntMax + 1) .. IntMax
  /\ waiters \subseteq Threads
  /\ pc \in [Threads -> Labels]
  /\ op \in [Threads -> Ops]
  /\ v \in [Threads -> -(IntMax + 1) .. IntMax]
  /\ posted \in 0 .. MaxPosts
  /\ taken \in Nat

\* The posts a behaviour may make do not overflow the count.
Fits == InitValue + MaxPosts <= IntMax

\* No unit is created or lost: the count is what sem_init put there, plus
\* every post, minus every wait that returned 0, and it is not negative, so
\* no more waits succeed than there were units.
Conservation == value >= 0 /\ value = InitValue + posted - taken

\* Threads that have added a unit and not yet made their futex_wake.
Posters == {t \in Threads : pc[t] = "wake"}

\* Threads of the wait loop that will read the count before they sleep again.
Seekers ==
  {t \in Threads : /\ op[t] # "try"
                   /\ \/ pc[t] \in {"load", "cas", "wait"}
                      \/ pc[t] = "asleep" /\ t \notin waiters}

\* Only a positive count is taken from, and only the wait loop sleeps.
LocalsAgree ==
  /\ \A t \in Threads : pc[t] = "cas" => v[t] > 0
  /\ \A t \in Threads : pc[t] \in {"wait", "asleep"} => op[t] # "try"
  /\ \A t \in waiters : pc[t] = "asleep"

\* No post is lost (comment at lines 38-45): while anybody sleeps, every unit
\* in the count is accounted for by a wake-up still to be sent or by a thread
\* that is about to look for it.
NoLostPost ==
  waiters # {} => value <= Cardinality(Posters) + Cardinality(Seekers)

\* A thread is not left asleep for ever while the count stays positive.
NobodySleepsBesideAUnit ==
  \A t \in Threads : []<>(~ (t \in waiters /\ value > 0))

=============================================================================
