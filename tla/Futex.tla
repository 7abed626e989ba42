------------------------------- MODULE Futex -------------------------------
(***************************************************************************)
(* The kernel side of one futex word, as the library uses it.  The kernel  *)
(* is not part of this repository: what is stated here is what             *)
(* include/futex.h relies on.  The comparison of FUTEX_WAIT and the        *)
(* enqueueing of the caller are one step, excluded against every wake; a   *)
(* wake removes threads from the queue; a sleeper may also leave the queue *)
(* because a signal arrived (-EINTR) or its timeout ran out.  No order of  *)
(* wake-ups is assumed: FUTEX_WAKE picks any sleeper.                      *)
(*                                                                         *)
(* A thread whose program counter says "asleep" and that is no longer in   *)
(* waiters has been woken and has yet to run.                              *)
(***************************************************************************)
CONSTANT Threads

VARIABLE waiters        \* the threads the kernel holds asleep on the word

\* FUTEX_WAIT whose comparison succeeded: t is queued in the same step.
FutexSleep(t) == waiters' = waiters \cup {t}

\* futex_wake(word, 1): at most one sleeper, any of them; none is no error.
FutexWakeOne ==
  \/ waiters = {} /\ UNCHANGED waiters
  \/ \E t \in waiters : waiters' = waiters \ {t}

\* futex_wake(word, INT_MAX).
FutexWakeAll == waiters' = {}

\* A sleeper leaves without a wake: -EINTR, or -ETIMEDOUT if it had a timeout.
FutexAbandon(t) == t \in waiters /\ waiters' = waiters \ {t}

=============================================================================
