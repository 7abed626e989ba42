-------------------------- MODULE SemaphoreProofs --------------------------
(***************************************************************************)
(* For any finite set of threads, any initial count and any number of      *)
(* posts that fits the int: no unit is created or lost, and no post is     *)
(* missed by a sleeper.                                                    *)
(***************************************************************************)
EXTENDS Semaphore, FiniteSetTheorems, TLAPS

\* The inductive invariant.  LocalsAgree ties the locals of a call to its
\* label; the count stays in its type because Conservation bounds it.
Inv ==
  /\ TypeOK
  /\ Conservation
  /\ LocalsAgree
  /\ NoLostPost

\* It holds before any thread has called.
LEMMA InitInv == Fits /\ Init => Inv
  BY SemaphoreAssumption
  DEF Fits, Init, Inv, TypeOK, Labels, Ops, ToInt, Conservation, LocalsAgree, NoLostPost

\* Types, the balance of units and the locals are kept by every step.
LEMMA StepSequential ==
  ASSUME Fits, TypeOK, Conservation, LocalsAgree, [Next]_vars
  PROVE  TypeOK' /\ Conservation' /\ LocalsAgree'
<1> DEFINE Goal == TypeOK' /\ Conservation' /\ LocalsAgree'
<1> USE SemaphoreAssumption
    DEF Fits, TypeOK, Labels, Ops, Conservation, LocalsAgree, Goto, Goal
<1>1. ASSUME NEW t \in Threads, NEW o \in Ops, Begin(t, o) PROVE Goal
  BY <1>1 DEF Begin
<1>2. ASSUME NEW t \in Threads, Load(t) PROVE Goal
  BY <1>2 DEF Load, Read
<1>3. ASSUME NEW t \in Threads, Take(t) PROVE Goal
  <2>1. v[t] = value /\ value > 0 /\ value' = value - 1 /\ taken' = taken + 1
    BY <1>3 DEF Take
  <2>2. TypeOK'
    BY <1>3, <2>1 DEF Take
  <2>3. Conservation'
    BY <1>3, <2>1 DEF Take
  <2>4. LocalsAgree'
    BY <1>3 DEF Take
  <2>. QED
    BY <2>2, <2>3, <2>4
<1>4. ASSUME NEW t \in Threads, TakeFails(t) PROVE Goal
  BY <1>4 DEF TakeFails, Read
<1>5. ASSUME NEW t \in Threads, Wait(t) PROVE Goal
  BY <1>5 DEF Wait, FutexSleep
<1>6. ASSUME NEW t \in Threads, WaitReturns(t) PROVE Goal
  BY <1>6 DEF WaitReturns, FutexAbandon
<1>7. ASSUME NEW t \in Threads, TimesOut(t) PROVE Goal
  BY <1>7 DEF TimesOut, FutexAbandon
<1>8. ASSUME NEW t \in Threads, Post(t) PROVE Goal
  <2>1. value + 1 <= IntMax
    BY <1>8 DEF Post
  <2>. QED
    BY <1>8, <2>1 DEF Post, ToInt
<1>9. ASSUME NEW t \in Threads, PostWakes(t) PROVE Goal
  BY <1>9 DEF PostWakes, FutexWakeOne
<1>10. CASE UNCHANGED vars
  BY <1>10 DEF vars, local
<1>. QED
  BY <1>1, <1>2, <1>3, <1>4, <1>5, <1>6, <1>7, <1>8, <1>9, <1>10 DEF Next, Call, Step

\* Posters and Seekers are finite, so that their sizes are numbers.
LEMMA Counts ==
  /\ IsFiniteSet(Posters) /\ Cardinality(Posters) \in Nat
  /\ IsFiniteSet(Seekers) /\ Cardinality(Seekers) \in Nat
<1>1. IsFiniteSet(Posters) /\ IsFiniteSet(Seekers)
  BY SemaphoreAssumption, FS_Subset DEF Posters, Seekers
<1>. QED
  BY <1>1, FS_CardinalityType

\* Every step keeps the account of units and of threads that will see them.
\* A unit that arrives brings a poster; a poster leaves a seeker behind if
\* anyone sleeps; a seeker leaves with a unit; and a thread falls asleep only
\* on a count of 0.
LEMMA StepNoLostPost ==
  ASSUME Fits, Inv, [Next]_vars
  PROVE  NoLostPost'
<1> USE SemaphoreAssumption, Counts DEF Inv, TypeOK, Labels, Ops, LocalsAgree, Goto
<1> DEFINE P == Posters
           S == Seekers
<1>0. ASSUME waiters' # {} => waiters # {}, value' = value, Posters' = P,
             IsFiniteSet(Seekers'), S \subseteq Seekers'
      PROVE  NoLostPost'
  <2>1. Cardinality(S) <= Cardinality(Seekers') /\ Cardinality(Seekers') \in Nat
    BY <1>0, FS_Subset, FS_CardinalityType
  <2>. QED
    BY <1>0, <2>1 DEF NoLostPost
<1>a. IsFiniteSet(Seekers') /\ IsFiniteSet(Posters')
  BY FS_Subset DEF Posters, Seekers
<1>1. ASSUME NEW t \in Threads, NEW o \in Ops, Begin(t, o) PROVE NoLostPost'
  <2>1. value' = value /\ waiters' = waiters /\ Posters' = P /\ S \subseteq Seekers'
    BY <1>1 DEF Begin, Posters, Seekers
  <2>. QED
    BY <1>0, <1>a, <2>1 DEF NoLostPost
<1>2. ASSUME NEW t \in Threads, Load(t) PROVE NoLostPost'
  <2>1. value' = value /\ waiters' = waiters /\ Posters' = P /\ S \subseteq Seekers'
    BY <1>2 DEF Load, Read, Posters, Seekers
  <2>. QED
    BY <1>0, <1>a, <2>1 DEF NoLostPost
<1>3. ASSUME NEW t \in Threads, Take(t) PROVE NoLostPost'
  <2>1. value' = value - 1 /\ waiters' = waiters /\ Posters' = P
    BY <1>3 DEF Take, Posters
  <2>2. Seekers' = S \ {t}
    BY <1>3 DEF Take, Seekers
  <2>3. Cardinality(Seekers') >= Cardinality(S) - 1
    <3>1. Cardinality(S \ {t}) = IF t \in S THEN Cardinality(S) - 1 ELSE Cardinality(S)
      BY FS_RemoveElement
    <3>. QED
      BY <2>2, <3>1
  <2>4. Cardinality(Seekers') \in Nat
    BY <1>a, FS_CardinalityType
  <2>. QED
    BY <2>1, <2>3, <2>4 DEF NoLostPost
<1>4. ASSUME NEW t \in Threads, TakeFails(t) PROVE NoLostPost'
  <2>1. value' = value /\ waiters' = waiters /\ Posters' = P /\ S \subseteq Seekers'
    BY <1>4 DEF TakeFails, Read, Posters, Seekers
  <2>. QED
    BY <1>0, <1>a, <2>1 DEF NoLostPost
<1>5. ASSUME NEW t \in Threads, Wait(t) PROVE NoLostPost'
  <2>1. CASE value = 0
    <3>1. value' = 0
      BY <1>5, <2>1 DEF Wait
    <3>2. Cardinality(Seekers') \in Nat /\ Cardinality(Posters') \in Nat
      BY <1>a, FS_CardinalityType
    <3>. QED
      BY <3>1, <3>2 DEF NoLostPost
  <2>2. CASE value # 0
    <3>1. value' = value /\ waiters' = waiters /\ Posters' = P /\ S \subseteq Seekers'
      BY <1>5, <2>2 DEF Wait, Posters, Seekers
    <3>. QED
      BY <1>0, <1>a, <3>1 DEF NoLostPost
  <2>. QED
    BY <2>1, <2>2
<1>6. ASSUME NEW t \in Threads, WaitReturns(t) PROVE NoLostPost'
  <2>1. value' = value /\ waiters' \subseteq waiters /\ Posters' = P /\ S \subseteq Seekers'
    BY <1>6 DEF WaitReturns, FutexAbandon, Posters, Seekers
  <2>. QED
    BY <1>0, <1>a, <2>1 DEF NoLostPost
<1>7. ASSUME NEW t \in Threads, TimesOut(t) PROVE NoLostPost'
  <2>1. value' = value /\ waiters' \subseteq waiters /\ Posters' = P /\ S \subseteq Seekers'
    BY <1>7 DEF TimesOut, FutexAbandon, Posters, Seekers
  <2>. QED
    BY <1>0, <1>a, <2>1 DEF NoLostPost
<1>8. ASSUME NEW t \in Threads, Post(t) PROVE NoLostPost'
  <2>1. value' = value + 1 /\ waiters' = waiters /\ Seekers' = S
    BY <1>8 DEF Post, ToInt, Fits, Conservation, Seekers
  <2>2. Posters' = P \cup {t} /\ t \notin P
    BY <1>8 DEF Post, Posters
  <2>3. Cardinality(Posters') = Cardinality(P) + 1
    BY <2>2, FS_AddElement
  <2>. QED
    BY <2>1, <2>3 DEF NoLostPost
<1>9. ASSUME NEW t \in Threads, PostWakes(t) PROVE NoLostPost'
  <2>1. CASE waiters = {} /\ UNCHANGED waiters
    BY <2>1 DEF NoLostPost
  <2>2. ASSUME NEW u \in waiters, waiters' = waiters \ {u} PROVE NoLostPost'
    <3>1. value' = value /\ Posters' = P \ {t} /\ t \in P
      BY <1>9 DEF PostWakes, Posters
    <3>2. Seekers' = S \cup {u} /\ u \notin S
      BY <1>9, <2>2 DEF PostWakes, Seekers
    <3>3. Cardinality(Posters') = Cardinality(P) - 1
      BY <3>1, FS_RemoveElement
    <3>4. Cardinality(Seekers') = Cardinality(S) + 1
      BY <3>2, FS_AddElement
    <3>. QED
      BY <2>2, <3>1, <3>3, <3>4 DEF NoLostPost
  <2>. QED
    BY <1>9, <2>1, <2>2 DEF PostWakes, FutexWakeOne
<1>10. CASE UNCHANGED vars
  BY <1>10 DEF vars, local, NoLostPost, Posters, Seekers
<1>. QED
  BY <1>1, <1>2, <1>3, <1>4, <1>5, <1>6, <1>7, <1>8, <1>9, <1>10 DEF Next, Call, Step

-----------------------------------------------------------------------------
\* It holds in every state of every behaviour.
LEMMA Invariance == ASSUME Fits PROVE Spec => []Inv
<1>1. Inv /\ [Next]_vars => Inv'
  BY StepSequential, StepNoLostPost DEF Inv
<1>. QED
  BY InitInv, <1>1, PTL DEF Spec

\* As long as the posts fit an int, the count is the initial value plus the
\* posts minus the successful waits and never negative, whatever the number
\* of threads: no wait of any kind succeeds without a unit of its own.
THEOREM SemaphoreConservesUnits == ASSUME Fits PROVE Spec => []Conservation
  BY Invariance, PTL DEF Inv

\* The wait loop and sem_post never lose a post to a sleeper (the claim of the
\* comment at lines 38-45), timeouts and signals included.
THEOREM SemaphoreLosesNoPost == ASSUME Fits PROVE Spec => []NoLostPost
  BY Invariance, PTL DEF Inv

=============================================================================
