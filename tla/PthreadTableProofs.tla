------------------------ MODULE PthreadTableProofs ------------------------
(***************************************************************************)
(* The table of pthread.c, for any number of threads and any sizes.  The   *)
(* entries of pt_slots follow a thread from the pthread_create that picked *)
(* one to the pthread_join that frees it: Tabled says whose each entry in  *)
(* use is and what is in it, Conducted what the kernel, the trampolines    *)
(* and the joins keep to meanwhile.  Both stand on IInv, the invariant of  *)
(* the start slots.                                                        *)
(***************************************************************************)
EXTENDS PthreadProofs, NaturalsInduction

\* A set of numbers that is not empty has a least element.
LEMMA Least ==
  ASSUME NEW T \in SUBSET Nat, T # {} PROVE \E x \in T : \A y \in T : x <= y
  <1>1. IsWellFoundedOn(OpToRel(<, Nat), Nat)
    BY NatLessThanWellFounded, Zenon
  <1>2. PICK x \in T : \A y \in T : << y, x >> \notin OpToRel(<, Nat)
    BY <1>1, WFMin, Zenon
  <1>3. \A y \in T : ~ (y < x)
    BY <1>2, Zenon DEF OpToRel
  <1> QED
    BY <1>3

\* The scans of pt_slots find an entry if there is one.
LEMMA FirstFound ==
  ASSUME NEW T, T \subseteq PtSlots, T # {} PROVE First(T) \in T
  <1>1. \E x \in T : \A y \in T : x <= y
    BY Least, PthreadAssumption DEF PtSlots
  <1> QED
    BY <1>1 DEF First

-----------------------------------------------------------------------------
\* The types after the end of a thread_create.
LEMMA CreateFailsTypes ==
  ASSUME TypeOK, NEW t \in Threads, Back(t) \/ CreateFails(t)
  PROVE  /\ pc' \in [Threads -> Labels]
         /\ i' \in [Threads -> 1 .. MAX_THREAD_SLOTS + 1]
         /\ s' \in [Threads -> 0 .. PTHREAD_MAX]
  BY PthreadAssumption DEF TypeOK, Back, CreateFails, Goto, Labels

\* What the table is made of.
Entry == [in_use : BOOLEAN, tid : 0 .. MaxThreads, finished : BOOLEAN, retval : 0 .. MaxThreads]

Table == [PtSlots -> Entry]

\* The table after a store to one of its entries.
LEMMA StoreTypes ==
  ASSUME pt_slots \in Table, NEW k \in PtSlots, NEW v \in 0 .. MaxThreads
  PROVE  /\ [pt_slots EXCEPT ![k].tid = v] \in Table
         /\ [pt_slots EXCEPT ![k].retval = v] \in Table
         /\ [pt_slots EXCEPT ![k].finished = TRUE] \in Table
         /\ [pt_slots EXCEPT ![k].retval = v, ![k].finished = TRUE] \in Table
         /\ [pt_slots EXCEPT ![k].in_use = FALSE] \in Table
         /\ pt_slots[k].retval \in 0 .. MaxThreads
  BY Zenon DEF Table, Entry

\* Every step keeps the types, if the indices it uses are in bounds.
LEMMA TypesHold ==
  ASSUME TypeOK, NEW t \in Threads, Call(t) \/ Step(t),
         pc[t] \in {"tid", "finish"} => job[t].slot # 0,
         pc[t] = "unpick" => s[t] # 0, pc[t] = "sys" => i[t] \in StartSlots
  PROVE  TypeOK'
  <1> USE DEF TypeOK, Goto
  <1>0. /\ 1 \in Threads /\ Threads \subseteq 0 .. MaxThreads
        /\ 1 \in 1 .. MAX_THREAD_SLOTS + 1 /\ 0 \in 0 .. PTHREAD_MAX
        /\ PtSlots = (0 .. PTHREAD_MAX) \ {0}
    <2>1. 1 \in Threads /\ Threads \subseteq 0 .. MaxThreads
      BY PthreadAssumption DEF Threads
    <2>2. 1 \in 1 .. MAX_THREAD_SLOTS + 1 /\ 0 \in 0 .. PTHREAD_MAX
      BY PthreadAssumption
    <2>3. PtSlots = (0 .. PTHREAD_MAX) \ {0}
      BY PthreadAssumption DEF PtSlots
    <2> QED
      BY <2>1, <2>2, <2>3
  <1>a. pt_slots \in Table
    BY DEF Table, Entry
  <1>b. SUFFICES /\ slots_used' \subseteq StartSlots /\ slots_job' \in [StartSlots -> Jobs]
                 /\ pt_slots' \in Table /\ holders' \subseteq Threads /\ born' \in Threads
                 /\ zombies' \subseteq Threads /\ entry' \in [Threads -> StartSlots]
                 /\ pc' \in [Threads -> Labels] /\ i' \in [Threads -> 1 .. MAX_THREAD_SLOTS + 1]
                 /\ s' \in [Threads -> 0 .. PTHREAD_MAX] /\ target' \in [Threads -> Threads]
                 /\ job' \in [Threads -> Jobs] /\ meant' \in [Threads -> Jobs]
                 /\ stillborn' \subseteq Threads /\ delivered' \subseteq Threads \X (0 .. MaxThreads)
    BY DEF Table, Entry
  <1> USE <1>a
  <1>c. job[t] \in Jobs /\ job[t].slot \in 0 .. PTHREAD_MAX
    BY DEF Jobs
  <1>1. CASE \E a, b \in Labels : LockPt(t, a, b)
    BY <1>1 DEF LockPt, PtLock!Take, slots, kernel, locals, history
  <1>2. CASE ThreadCreate(t)
    BY <1>0, <1>2 DEF ThreadCreate, Labels, slots, kernel, history
  <1>3. CASE Return(t)
    <2>1. CASE job[t].slot = 0
      BY <1>3, <2>1 DEF Return, Labels, slots, kernel, locals, history
    <2>2. CASE job[t].slot # 0
      <3>1. job[t].slot \in PtSlots /\ t \in 0 .. MaxThreads
        BY <1>0, <1>c, <2>2
      <3>2. pt_slots' = [pt_slots EXCEPT ![job[t].slot].retval = t]
        BY <1>3, <2>2 DEF Return
      <3>3. pt_slots' \in Table
        BY <3>1, <3>2, StoreTypes, Zenon
      <3> QED
        BY <1>3, <2>2, <3>3 DEF Return, Labels, slots, kernel, locals, history
    <2> QED
      BY <2>1, <2>2
  <1>4. CASE \E u \in Threads : Join(t, u)
    BY <1>4 DEF Join, Labels, slots, kernel, history
  <1>5. CASE CreatePick(t)
    <2> DEFINE free == {k \in PtSlots : ~ pt_slots[k].in_use}
    <2>1. pt_slots' \in Table /\ s' \in [Threads -> 0 .. PTHREAD_MAX]
      <3>1. CASE free = {}
        BY <1>5, <3>1 DEF CreatePick
      <3>2. CASE free # {}
        <4>1. free \subseteq PtSlots /\ First(free) \in PtSlots
          <5>1. free \subseteq PtSlots
            OBVIOUS
          <5> QED
            BY <3>2, <5>1, FirstFound, Zenon
        <4>2. [in_use |-> TRUE, tid |-> 0, finished |-> FALSE, retval |-> 0] \in Entry
          BY PthreadAssumption DEF Entry
        <4>3. pt_slots' = [pt_slots EXCEPT ![First(free)] =
                             [in_use |-> TRUE, tid |-> 0, finished |-> FALSE, retval |-> 0]]
          BY <1>5, <3>2 DEF CreatePick
        <4>4. s' = [s EXCEPT ![t] = First(free)]
          BY <1>5, <3>2 DEF CreatePick
        <4>5. First(free) \in 0 .. PTHREAD_MAX
          BY <1>0, <4>1
        <4> QED
          BY <4>2, <4>3, <4>4, <4>5, Zenon DEF Table
      <3> QED
        BY <3>1, <3>2
    <2>2. pc' \in [Threads -> Labels] /\ i' \in [Threads -> 1 .. MAX_THREAD_SLOTS + 1]
      BY <1>0, <1>5 DEF CreatePick, Labels
    <2> QED
      BY <1>5, <2>1, <2>2 DEF CreatePick, PtLock!Give, slots, kernel, history
  <1>6. CASE Scan(t)
    <2>1. CASE CreateFails(t) /\ UNCHANGED slots
      BY <1>6, <2>1, CreateFailsTypes DEF Scan, slots, kernel, history
    <2>2. CASE i[t] <= MAX_THREAD_SLOTS /\ UNCHANGED s
      <3>1. i[t] \in StartSlots /\ i[t] + 1 \in 1 .. MAX_THREAD_SLOTS + 1
        BY <2>2, PthreadAssumption DEF StartSlots
      <3>2. UNCHANGED << pt_slots, holders, born, zombies, entry, target, job,
                         meant, stillborn, delivered >>
        BY <1>6 DEF Scan, kernel, history
      <3>3. \/ i' = [i EXCEPT ![t] = @ + 1] /\ UNCHANGED << slots_used, slots_job, pc >>
            \/ /\ slots_used' = slots_used \cup {i[t]} /\ UNCHANGED << slots_job, i >>
               /\ pc' = [pc EXCEPT ![t] = "fill"]
            \/ CreateFails(t) /\ UNCHANGED slots
        BY <1>6 DEF Scan, slots
      <3> QED
        BY <2>1, <2>2, <3>1, <3>2, <3>3 DEF Labels
    <2> QED
      BY <1>6, <2>1, <2>2 DEF Scan
  <1>7. CASE Fill(t)
    BY <1>7, Zenon DEF Fill, Jobs, Labels, kernel, locals, history
  <1>8. CASE SysCreate(t)
    <2>1. born + 1 \in Threads
      BY <1>8, PthreadAssumption DEF SysCreate, Threads
    <2>2. i[t] \in StartSlots /\ [slot |-> s[t], by |-> t] \in Jobs
      BY <1>8 DEF Jobs, SysCreate
    <2> QED
      BY <1>0, <1>8, <2>1, <2>2 DEF SysCreate, Labels, slots
  <1>9. CASE SysCreateFails(t)
    BY <1>9 DEF SysCreateFails, Labels, slots, kernel, locals, history
  <1>10. CASE Unslot(t)
    BY <1>10, CreateFailsTypes DEF Unslot, kernel, history
  <1>11. CASE Unpick(t)
    BY <1>0, <1>11, CreateFailsTypes, StoreTypes, Zenon DEF Unpick, PtLock!Give, slots, kernel, history
  <1>12. CASE ReadStart(t)
    BY <1>12 DEF ReadStart, Labels, slots, kernel, history
  <1>13. CASE FreeStart(t)
    BY <1>13 DEF FreeStart, Labels, kernel, locals, history
  <1>14. CASE SetupTls(t)
    BY <1>14 DEF SetupTls, Labels, slots, kernel, locals
  <1>15. CASE StoreTid(t)
    BY <1>0, <1>c, <1>15, StoreTypes, Zenon DEF StoreTid, Labels, slots, kernel, locals, history
  <1>16. CASE Finish(t)
    BY <1>0, <1>c, <1>16, StoreTypes, Zenon DEF Finish, Labels, slots, kernel, locals, history
  <1>17. CASE Exit(t)
    BY <1>17 DEF Exit, Labels, slots, locals, history
  <1>18. CASE ExitFind(t)
    <2>1. slot_for_tid(t) # {} => First(slot_for_tid(t)) \in PtSlots
      <3>1. slot_for_tid(t) \subseteq PtSlots
        BY DEF slot_for_tid
      <3> QED
        BY <3>1, FirstFound, Zenon
    <2>2. pt_slots' \in Table
      <3>1. CASE slot_for_tid(t) = {}
        BY <1>18, <3>1 DEF ExitFind
      <3>2. CASE slot_for_tid(t) # {}
        <4>1. t \in 0 .. MaxThreads /\ First(slot_for_tid(t)) \in PtSlots
          BY <1>0, <2>1, <3>2
        <4> QED
          BY <1>18, <3>2, <4>1, StoreTypes, Zenon DEF ExitFind
      <3> QED
        BY <3>1, <3>2
    <2> QED
      BY <1>18, <2>2 DEF ExitFind, PtLock!Give, Labels, slots, kernel, locals, history
  <1>19. CASE JoinWaits(t)
    BY <1>19 DEF JoinWaits, Labels, slots, locals, history
  <1>20. CASE JoinLookup(t)
    <2> DEFINE found == slot_for_tid(target[t])
    <2>1. found # {} => First(found) \in PtSlots
      <3>1. found \subseteq PtSlots
        BY DEF slot_for_tid
      <3> QED
        BY <3>1, FirstFound, Zenon
    <2>2. CASE found = {}
      <3>1. delivered' = delivered \cup {<< target[t], 0 >>} /\ UNCHANGED pt_slots
        BY <1>20, <2>2 DEF JoinLookup
      <3>2. delivered' \subseteq Threads \X (0 .. MaxThreads)
        BY <3>1, PthreadAssumption
      <3> QED
        BY <1>20, <3>1, <3>2 DEF JoinLookup, PtLock!Give, Labels, slots, kernel, locals
    <2>3. CASE found # {}
      <3>1. /\ pt_slots' = [pt_slots EXCEPT ![First(found)].in_use = FALSE]
            /\ delivered' = delivered \cup {<< target[t], pt_slots[First(found)].retval >>}
        BY <1>20, <2>3 DEF JoinLookup
      <3>2. pt_slots' \in Table /\ pt_slots[First(found)].retval \in 0 .. MaxThreads
        BY <1>0, <2>1, <2>3, <3>1, StoreTypes, Zenon
      <3>3. delivered' \subseteq Threads \X (0 .. MaxThreads)
        BY <3>1, <3>2
      <3> QED
        BY <1>20, <3>2, <3>3 DEF JoinLookup, PtLock!Give, Labels, slots, kernel, locals
    <2> QED
      BY <2>2, <2>3
  <1> QED
    BY <1>1, <1>2, <1>3, <1>4, <1>5, <1>6, <1>7, <1>8, <1>9, <1>10, <1>11, <1>12, <1>13, <1>14,
       <1>15, <1>16, <1>17, <1>18, <1>19, <1>20, Zenon DEF Call, Step, Labels

-----------------------------------------------------------------------------
\* A join that has reaped its target and not looked for its entry yet.
Reaping(t) == pc[t] \in {"joined", "lookup"}

\* What the kernel, the trampolines and the joins keep to: who is gone, who has
\* an entry to write to, and that one join at most reaps a thread.
Conduct(t) ==
  /\ t \in zombies => pc[t] = "gone"
  /\ Reaping(t) => pc[target[t]] = "gone" /\ target[t] \notin zombies
  /\ t \in stillborn => pc[t] \in {"exit", "gone"}
  /\ pc[t] \in {"tid", "finish"} => job[t].slot # 0
  /\ pc[t] \in {"failed", "unpick"} => s[t] # 0
  /\ t = 1 => meant[t].slot = 0 /\ job[t].slot = 0 /\ pc[t] \notin {"read", "free", "tls", "tid", "finish"}

Conducted ==
  /\ \A t \in Threads : Conduct(t)
  /\ \A t, u \in Threads : Reaping(t) /\ Reaping(u) /\ target[t] = target[u] => t = u
  /\ \A d \in delivered : pc[d[1]] = "gone"

\* The invariant so far, with the types of everything.
Sound == IInv /\ TypeOK /\ Conducted

\* What the steps below need of it.
LEMMA Facts ==
  ASSUME Sound
  PROVE  /\ TypeOK /\ Conducted /\ Born /\ 1 \in Threads
         /\ pc \in [Threads -> Labels] /\ job \in [Threads -> Jobs] /\ s \in [Threads -> 0 .. PTHREAD_MAX]
         /\ meant \in [Threads -> Jobs] /\ target \in [Threads -> Threads]
         /\ zombies \subseteq Threads /\ stillborn \subseteq Threads
         /\ delivered \subseteq Threads \X (0 .. MaxThreads)
  <1>1. 1 \in Threads
    BY PthreadAssumption DEF Threads
  <1> QED
    BY <1>1 DEF Sound, IInv, TypeOK

\* A thread moves on, and perhaps exits, reaps its target or gets no TLS.
LEMMA Moves ==
  ASSUME Sound, NEW t \in Threads, NEW l, pc' = [pc EXCEPT ![t] = l], pc[t] # "gone", meant' = meant,
         \A u \in Threads \ {t} : s'[u] = s[u] /\ target'[u] = target[u] /\ job'[u] = job[u],
         zombies' \subseteq zombies \union {t}, t \in zombies' => l = "gone",
         stillborn' \subseteq stillborn \union {t}, t \in stillborn' => l \in {"exit", "gone"},
         \A d \in delivered' \ delivered : pc[d[1]] = "gone" /\ d[1] \in Threads,
         l \in {"failed", "unpick"} => s'[t] # 0, l \in {"tid", "finish"} => job'[t].slot # 0,
         t = 1 => job'[t] = job[t] /\ l \notin {"read", "free", "tls", "tid", "finish"},
         l = "joined" => target' = target /\ pc[target[t]] = "gone" /\ target[t] \in zombies \ zombies',
         l = "lookup" => target' = target /\ pc[t] = "joined"
  PROVE  Conducted'
  <1> USE DEF Conducted, Conduct, Reaping
  <1>1. \A u \in Threads : pc'[u] = IF u = t THEN l ELSE pc[u]
    BY Facts
  <1>2. Conduct(t)'
    BY Facts, <1>1
  <1>3. ASSUME NEW u \in Threads \ {t} PROVE Conduct(u)'
    BY Facts, <1>1, <1>3
  <1>4. ASSUME NEW u \in Threads, NEW v \in Threads, Reaping(u)', Reaping(v)', target'[u] = target'[v]
        PROVE  u = v
    BY Facts, <1>1, <1>4
  <1>5. \A d \in delivered' : pc'[d[1]] = "gone"
    BY Facts, <1>1
  <1> QED
    BY <1>2, <1>3, <1>4, <1>5

\* Every step keeps to it.
LEMMA ConductHolds ==
  ASSUME Sound, NEW t \in Threads, Call(t) \/ Step(t) PROVE Conducted'
  <1> USE DEF Goto
  <1>0. Conduct(t)
    BY Facts DEF Conducted
  <1>1. ASSUME NEW a, NEW b, LockPt(t, a, b), a \notin {"unborn", "exit", "gone"},
               b \notin {"tid", "finish", "read", "free", "tls", "joined"}, b \in {"failed", "unpick"} => a = "failed",
               b = "lookup" => a = "joined"
        PROVE  Conducted'
    <2>1. /\ pc[t] = a /\ pc' = [pc EXCEPT ![t] = b]
          /\ UNCHANGED << meant, s, target, job, zombies, stillborn, delivered >>
      BY <1>1 DEF LockPt, kernel, locals, history
    <2> QED
      BY <1>0, <1>1, <2>1, Moves, Zenon DEF Conduct
  <1>2. CASE ThreadCreate(t)
    <2>1. /\ pc[t] = "run" /\ pc' = [pc EXCEPT ![t] = "scan"] /\ s' = [s EXCEPT ![t] = 0]
          /\ UNCHANGED << meant, target, job, zombies, stillborn, delivered >>
      BY <1>2 DEF ThreadCreate, kernel, history
    <2> QED
      BY Facts, <1>0, <2>1, Moves, Zenon DEF Conduct
  <1>3. CASE Return(t)
    <2>1. /\ pc[t] = "run" /\ t # 1
          /\ \/ job[t].slot = 0 /\ pc' = [pc EXCEPT ![t] = "exit"]
             \/ job[t].slot # 0 /\ pc' = [pc EXCEPT ![t] = "finish"]
          /\ UNCHANGED << meant, s, target, job, zombies, stillborn, delivered >>
      BY <1>3 DEF Return, kernel, locals, history
    <2> QED
      BY <1>0, <2>1, Moves DEF Conduct
  <1>4. ASSUME NEW u \in Threads, Join(t, u) PROVE Conducted'
    <2>1. /\ pc[t] = "run" /\ pc' = [pc EXCEPT ![t] = "join"] /\ target' = [target EXCEPT ![t] = u]
          /\ UNCHANGED << meant, s, job, zombies, stillborn, delivered >>
      BY <1>4 DEF Join, kernel, history
    <2> QED
      BY Facts, <1>0, <2>1, Moves, Zenon DEF Conduct
  <1>5. CASE CreatePick(t)
    <2>1. /\ pc[t] = "pick" /\ \E l \in {"run", "scan"} : pc' = [pc EXCEPT ![t] = l]
          /\ \E k : s' = [s EXCEPT ![t] = k]
          /\ UNCHANGED << meant, target, job, zombies, stillborn, delivered >>
      BY Facts, <1>5 DEF CreatePick, kernel, history
    <2> QED
      <3>1. PICK l \in {"run", "scan"} : pc' = [pc EXCEPT ![t] = l]
        BY <2>1
      <3>2. \A u \in Threads \ {t} : s'[u] = s[u]
        BY Facts, <2>1
      <3>3. t \notin zombies /\ t \notin stillborn
        BY <1>0, <2>1 DEF Conduct
      <3> QED
        BY <2>1, <3>1, <3>2, <3>3, Moves
  \* The ends of thread_create.
  <1>6. ASSUME CreateFails(t), pc[t] \in {"scan", "unslot"},
               UNCHANGED << meant, target, job, zombies, stillborn, delivered >>
        PROVE  Conducted'
    <2>1. CASE s[t] = 0
      <3>1. pc' = [pc EXCEPT ![t] = "run"] /\ s' = [s EXCEPT ![t] = 0]
        BY <1>6, <2>1 DEF CreateFails, Back
      <3> QED
        BY Facts, <1>0, <1>6, <3>1, Moves, Zenon DEF Conduct
    <2>2. CASE s[t] # 0
      <3>1. pc' = [pc EXCEPT ![t] = "failed"] /\ s' = s
        BY <1>6, <2>2 DEF CreateFails
      <3> QED
        BY <1>0, <1>6, <2>2, <3>1, Moves, Zenon DEF Conduct
    <2> QED
      BY <2>1, <2>2
  <1>7. CASE Scan(t)
    <2>1. pc[t] = "scan" /\ UNCHANGED << meant, target, job, zombies, stillborn, delivered >>
      BY <1>7 DEF Scan, kernel, history
    <2>2. \/ CreateFails(t)
          \/ s' = s /\ pc' = pc
          \/ s' = s /\ pc' = [pc EXCEPT ![t] = "fill"]
      BY <1>7 DEF Scan
    <2>3. pc' = pc => pc' = [pc EXCEPT ![t] = "scan"]
      BY Facts, <2>1
    <2> QED
      BY <1>0, <1>6, <2>1, <2>2, <2>3, Moves DEF Conduct
  <1>8. CASE Fill(t) \/ SysCreateFails(t) \/ FreeStart(t) \/ StoreTid(t) \/ Finish(t) \/ ExitFind(t)
    <2>1. /\ << pc[t], pc'[t] >> \in {<< "fill", "sys" >>, << "sys", "unslot" >>, << "free", "tls" >>,
                                    << "tid", "run" >>, << "finish", "exit" >>, << "find", "exit" >>}
          /\ \E l \in {"sys", "unslot", "tls", "run", "exit"} : pc' = [pc EXCEPT ![t] = l]
          /\ UNCHANGED << meant, s, target, job, zombies, stillborn, delivered >>
      BY Facts, <1>8 DEF Fill, SysCreateFails, FreeStart, StoreTid, Finish, ExitFind, kernel, locals, history
    <2> QED
      BY <1>0, <2>1, Moves, Zenon DEF Conduct
  <1>9. CASE Unslot(t)
    BY <1>6, <1>9 DEF Unslot, kernel, history
  <1>10. CASE Unpick(t)
    <2>1. /\ pc[t] = "unpick" /\ pc' = [pc EXCEPT ![t] = "run"] /\ s' = [s EXCEPT ![t] = 0]
          /\ UNCHANGED << meant, target, job, zombies, stillborn, delivered >>
      BY <1>10 DEF Unpick, Back, kernel, history
    <2> QED
      BY Facts, <1>0, <2>1, Moves, Zenon DEF Conduct
  <1>11. CASE ReadStart(t)
    <2>1. /\ pc[t] = "read" /\ pc' = [pc EXCEPT ![t] = "free"] /\ \E j : job' = [job EXCEPT ![t] = j]
          /\ UNCHANGED << meant, s, target, zombies, stillborn, delivered >>
      BY <1>11, Zenon DEF ReadStart, kernel, history
    <2>2. t # 1
      BY <2>1, <1>0 DEF Conduct
    <2> QED
      BY Facts, <1>0, <2>1, <2>2, Moves, Zenon DEF Conduct
  <1>12. CASE SetupTls(t)
    <2>1. /\ pc[t] = "tls" /\ UNCHANGED << meant, s, target, job, zombies, delivered >>
          /\ \/ pc' = [pc EXCEPT ![t] = IF job[t].slot = 0 THEN "run" ELSE "tid"] /\ UNCHANGED stillborn
             \/ pc' = [pc EXCEPT ![t] = "exit"] /\ stillborn' = stillborn \cup {t}
      BY <1>12 DEF SetupTls, kernel, locals
    <2>2. t # 1
      BY <2>1, <1>0 DEF Conduct
    <2>3. CASE pc' = [pc EXCEPT ![t] = IF job[t].slot = 0 THEN "run" ELSE "tid"] /\ UNCHANGED stillborn
      BY <1>0, <2>1, <2>2, <2>3, Moves, Zenon DEF Conduct
    <2>4. CASE pc' = [pc EXCEPT ![t] = "exit"] /\ stillborn' = stillborn \cup {t}
      BY <1>0, <2>1, <2>2, <2>4, Moves, Zenon DEF Conduct
    <2> QED
      BY <2>1, <2>3, <2>4
  <1>13. CASE Exit(t)
    <2>1. /\ pc[t] = "exit" /\ pc' = [pc EXCEPT ![t] = "gone"] /\ zombies' = zombies \cup {t}
          /\ UNCHANGED << meant, s, target, job, stillborn, delivered >>
      BY <1>13 DEF Exit, locals, history
    <2> QED
      BY <1>0, <2>1, Moves, Zenon DEF Conduct
  <1>14. CASE JoinWaits(t)
    <2>1. /\ pc[t] = "join" /\ pc[target[t]] = "gone"
          /\ UNCHANGED << meant, s, target, job, stillborn, delivered >>
          /\ \/ target[t] \in zombies /\ zombies' = zombies \ {target[t]} /\ pc' = [pc EXCEPT ![t] = "joined"]
             \/ zombies' = zombies /\ pc' = [pc EXCEPT ![t] = "run"]
      BY <1>14 DEF JoinWaits, locals, history
    <2> QED
      BY <1>0, <2>1, Moves DEF Conduct
  <1>15. CASE JoinLookup(t)
    <2>1. /\ pc[t] = "lookup" /\ pc' = [pc EXCEPT ![t] = "run"]
          /\ \E v : delivered' = delivered \cup {<< target[t], v >>}
          /\ UNCHANGED << meant, s, target, job, zombies, stillborn >>
      BY <1>15, Zenon DEF JoinLookup, kernel, locals
    <2>2. pc[target[t]] = "gone"
      BY <1>0, <2>1 DEF Conduct, Reaping
    <2>3. \A d \in delivered' \ delivered : pc[d[1]] = "gone" /\ d[1] \in Threads
      BY Facts, <2>1, <2>2
    <2> QED
      BY <1>0, <2>1, <2>3, Moves, Zenon DEF Conduct
  <1>16. CASE SysCreate(t)
    <2>1. PICK n \in Threads : n = born + 1
      BY Facts, <1>16, PthreadAssumption DEF SysCreate, TypeOK, Threads
    <2>2. n # t /\ n # 1 /\ pc[t] = "sys" /\ pc[n] = "unborn"
      BY Facts, <1>16, <2>1 DEF SysCreate, TypeOK, Born, Threads
    <2>3. /\ pc' = [pc EXCEPT ![t] = "run", ![n] = "read"] /\ s' = [s EXCEPT ![t] = 0]
          /\ \E j : meant' = [meant EXCEPT ![n] = j]
          /\ UNCHANGED << target, job, zombies, stillborn, delivered >>
      BY <1>16, <2>1, Zenon DEF SysCreate
    <2>4. \A u \in Threads : pc'[u] = IF u = t THEN "run" ELSE IF u = n THEN "read" ELSE pc[u]
      BY Facts, <2>2, <2>3
    <2>5. \A u \in Threads : /\ u # t => s'[u] = s[u]
                             /\ u # n => meant'[u] = meant[u]
      BY <2>3
    <2> USE DEF Conducted, Conduct, Reaping
    <2>6. ASSUME NEW u \in Threads PROVE Conduct(u)'
      BY Facts, <2>2, <2>3, <2>4, <2>5
    <2>7. ASSUME NEW u \in Threads, NEW v \in Threads, Reaping(u)', Reaping(v)', target'[u] = target'[v]
          PROVE  u = v
      BY Facts, <2>3, <2>4, <2>7
    <2>8. \A d \in delivered' : pc'[d[1]] = "gone"
      BY Facts, <2>2, <2>3, <2>4
    <2> QED
      BY <2>6, <2>7, <2>8
  <1> QED
    BY <1>1, <1>2, <1>3, <1>4, <1>5, <1>7, <1>8, <1>9, <1>10, <1>11, <1>12, <1>13, <1>14, <1>15, <1>16
    DEF Call, Step

-----------------------------------------------------------------------------
\* Who has an entry of pt_slots: a pthread_create under way, and a thread of
\* pthread_create until a join has looked for its entry.
Creates(t) == pc[t] \in Creating /\ s[t] # 0

Live(t) ==
  /\ pc[t] # "unborn" /\ meant[t].slot # 0
  /\ \/ pc[t] # "gone" \/ t \in zombies \cup stillborn
     \/ \E u \in Threads : Reaping(u) /\ target[u] = t

\* Whether the thread has stored its tid, and whether it has ended.
Known(t) == pc[t] \notin {"unborn", "read", "free", "tls", "tid"} /\ t \notin stillborn
Ended(t) == pc[t] \in {"finish", "exit", "gone"}

\* The entry of a thread: its tid once it is known, its value once it has ended.
Writes(t) ==
  LET e == pt_slots[meant[t].slot]
  IN  /\ e.in_use
      /\ e.tid = IF Known(t) THEN t ELSE 0
      /\ Known(t) /\ Ended(t) => e.retval = t

\* The entries in use are those of the creations and of the threads that have
\* one, each its own.
CreatorsHold ==
  \A t \in Threads : Creates(t) => pt_slots[s[t]].in_use /\ pt_slots[s[t]].tid = 0

LivesWrite == \A t \in Threads : Live(t) => Writes(t)

CreatorsApart == \A t, u \in Threads : Creates(t) /\ Creates(u) /\ s[t] = s[u] => t = u

LivesApart ==
  \A t, u \in Threads : Live(t) /\ Live(u) /\ meant[t].slot = meant[u].slot => t = u

BothApart == \A t, u \in Threads : Creates(t) /\ Live(u) => s[t] # meant[u].slot

AllHeld ==
  \A k \in PtSlots : pt_slots[k].in_use =>
    \/ \E t \in Threads : Creates(t) /\ s[t] = k
    \/ \E t \in Threads : Live(t) /\ meant[t].slot = k

Tabled ==
  /\ CreatorsHold /\ LivesWrite
  /\ CreatorsApart /\ LivesApart /\ BothApart
  /\ AllHeld

\* An entry that somebody has is one of the table.
LEMMA SlotsInside ==
  ASSUME TypeOK, NEW t \in Threads
  PROVE  /\ Creates(t) => s[t] \in PtSlots
         /\ Live(t) => meant[t].slot \in PtSlots
         /\ meant[t].slot = 0 \/ meant[t].slot \in PtSlots
         /\ job[t].slot = 0 \/ job[t].slot \in PtSlots
  <1>1. /\ s[t] \in 0 .. PTHREAD_MAX /\ meant[t] \in Jobs /\ job[t] \in Jobs
    BY DEF TypeOK
  <1>2. meant[t].slot \in 0 .. PTHREAD_MAX /\ job[t].slot \in 0 .. PTHREAD_MAX
    BY <1>1 DEF Jobs
  <1>3. \A k \in 0 .. PTHREAD_MAX : k = 0 \/ k \in PtSlots
    BY PthreadAssumption DEF PtSlots
  <1> QED
    BY <1>1, <1>2, <1>3 DEF Creates, Live

\* Steps after which everybody has the entry it had, and a thread that ends
\* has left its value there.
LEMMA TableKept ==
  ASSUME TypeOK, Tabled,
         \A u \in Threads : (Creates(u)' <=> Creates(u)) /\ (Creates(u) => s'[u] = s[u]),
         \A u \in Threads : Live(u)' <=> Live(u),
         \A u \in Threads : Live(u) => /\ meant'[u] = meant[u]
                                       /\ Known(u)' <=> Known(u)
                                       /\ Known(u)' /\ Ended(u)' => pt_slots'[meant[u].slot].retval = u,
         \A k \in PtSlots : pt_slots'[k].in_use = pt_slots[k].in_use /\ pt_slots'[k].tid = pt_slots[k].tid
  PROVE  Tabled'
  <1>1. \A t \in Threads : Creates(t)' => pt_slots'[s'[t]].in_use /\ pt_slots'[s'[t]].tid = 0
    BY SlotsInside DEF Tabled, CreatorsHold
  <1>2. \A t \in Threads : Live(t)' => Writes(t)'
    BY SlotsInside DEF Tabled, LivesWrite, Writes
  <1>3. \A t, u \in Threads : Creates(t)' /\ Creates(u)' /\ s'[t] = s'[u] => t = u
    BY DEF Tabled, CreatorsApart
  <1>4. \A t, u \in Threads : Live(t)' /\ Live(u)' /\ meant'[t].slot = meant'[u].slot => t = u
    BY DEF Tabled, LivesApart
  <1>5. \A t, u \in Threads : Creates(t)' /\ Live(u)' => s'[t] # meant'[u].slot
    BY DEF Tabled, BothApart
  <1>6. ASSUME NEW k \in PtSlots, pt_slots'[k].in_use
        PROVE  \/ \E t \in Threads : Creates(t)' /\ s'[t] = k
               \/ \E t \in Threads : Live(t)' /\ meant'[t].slot = k
    BY <1>6 DEF Tabled, AllHeld
  <1> QED
    BY <1>1, <1>2, <1>3, <1>4, <1>5, <1>6
       DEF Tabled, CreatorsHold, LivesWrite, CreatorsApart, LivesApart, BothApart, AllHeld

\* What slot_for_tid finds: the entry of the thread while it has one.
LEMMA Found ==
  ASSUME Sound, Tabled, NEW u \in Threads
  PROVE  slot_for_tid(u) = IF Live(u) /\ Known(u) THEN {meant[u].slot} ELSE {}
  <1>1. TypeOK /\ u # 0
    BY Facts, PthreadAssumption DEF Threads
  <1>2. ASSUME NEW k \in slot_for_tid(u) PROVE Live(u) /\ Known(u) /\ k = meant[u].slot
    <2>1. k \in PtSlots /\ pt_slots[k].in_use /\ pt_slots[k].tid = u
      BY DEF slot_for_tid
    <2> QED
      BY <1>1, <2>1 DEF Tabled, LivesWrite, CreatorsHold, AllHeld, Writes
  <1>3. ASSUME Live(u), Known(u) PROVE meant[u].slot \in slot_for_tid(u)
    BY <1>1, <1>3, SlotsInside DEF Tabled, LivesWrite, Writes, slot_for_tid
  <1> QED
    BY <1>2, <1>3

\* A scan for what is in one place finds it there.
LEMMA FirstOfOne ==
  ASSUME NEW k \in PtSlots PROVE First({k}) = k
  BY FirstFound

-----------------------------------------------------------------------------
\* A step of t alone that neither ends it, nor starts or ends a creation or
\* the reaping of another thread.
LEMMA QuietTable ==
  ASSUME Sound, Tabled, NEW t \in Threads, NEW l,
         pc' = [pc EXCEPT ![t] = l], pc[t] \notin {"unborn", "gone"}, l \notin {"unborn", "gone"},
         UNCHANGED << meant, zombies >>, Reaping(t) <=> l \in {"joined", "lookup"},
         \A u \in Threads \ {t} : s'[u] = s[u] /\ target'[u] = target[u],
         Reaping(t) => target'[t] = target[t],
         l \in Creating /\ s'[t] # 0 <=> Creates(t), Creates(t) => s'[t] = s[t],
         stillborn \subseteq stillborn', stillborn' \subseteq stillborn \union {t},
         Live(t) => (Known(t)' <=> Known(t)),
         Live(t) /\ Known(t) /\ l \in {"finish", "exit"} => pt_slots'[meant[t].slot].retval = t,
         \A k \in PtSlots : /\ pt_slots'[k].in_use = pt_slots[k].in_use
                            /\ pt_slots'[k].tid = pt_slots[k].tid
                            /\ ~ (Live(t) /\ k = meant[t].slot) => pt_slots'[k].retval = pt_slots[k].retval
  PROVE  Tabled'
  <1>1. \A u \in Threads : pc'[u] = IF u = t THEN l ELSE pc[u]
    BY Facts
  <1>2. \A u \in Threads : (Reaping(u)' <=> Reaping(u)) /\ (Reaping(u) => target'[u] = target[u])
    BY <1>1 DEF Reaping
  <1>3. ASSUME NEW u \in Threads PROVE Live(u)' <=> Live(u)
    <2>1. (\E v \in Threads : Reaping(v)' /\ target'[v] = u) <=> (\E v \in Threads : Reaping(v) /\ target[v] = u)
      BY <1>2
    <2> QED
      BY <1>1, <2>1 DEF Live
  <1>4. ASSUME NEW u \in Threads
        PROVE  (Creates(u)' <=> Creates(u)) /\ (Creates(u) => s'[u] = s[u])
    BY <1>1, <1>4 DEF Creates
  <1>5. ASSUME NEW u \in Threads, Live(u)
        PROVE  /\ meant'[u] = meant[u] /\ Known(u)' <=> Known(u)
               /\ Known(u)' /\ Ended(u)' => pt_slots'[meant[u].slot].retval = u
    <2>1. CASE u = t
      BY <1>1, <1>5, <2>1 DEF Ended
    <2>2. CASE u # t
      <3>1. (Known(u)' <=> Known(u)) /\ (Ended(u)' <=> Ended(u))
        BY <1>1, <2>2 DEF Known, Ended
      <3>2. ~ (Live(t) /\ meant[u].slot = meant[t].slot) /\ meant[u].slot \in PtSlots
        BY Facts, <1>5, <2>2, SlotsInside DEF Tabled, LivesApart
      <3> QED
        BY <1>5, <3>1, <3>2 DEF Tabled, LivesWrite, Writes
    <2> QED
      BY <2>1, <2>2
  <1> QED
    BY Facts, <1>3, <1>4, <1>5, TableKept

\* The thread exits.
LEMMA ExitTable ==
  ASSUME Sound, Tabled, NEW t \in Threads, Exit(t) PROVE Tabled'
  <1>0. /\ pc[t] = "exit" /\ pc' = [pc EXCEPT ![t] = "gone"] /\ zombies' = zombies \cup {t}
        /\ UNCHANGED << pt_slots, s, target, meant, stillborn >>
    BY DEF Exit, Goto, locals, history
  <1>1. \A u \in Threads : pc'[u] = IF u = t THEN "gone" ELSE pc[u]
    BY Facts, <1>0
  <1>2. \A u \in Threads : Reaping(u)' <=> Reaping(u)
    BY <1>0, <1>1 DEF Reaping
  <1>3. ASSUME NEW u \in Threads PROVE Live(u)' <=> Live(u)
    <2>1. (\E v \in Threads : Reaping(v)' /\ target'[v] = u) <=> (\E v \in Threads : Reaping(v) /\ target[v] = u)
      BY <1>0, <1>2
    <2> QED
      BY <1>0, <1>1, <2>1 DEF Live
  <1>4. \A u \in Threads : (Creates(u)' <=> Creates(u)) /\ s'[u] = s[u]
    BY <1>0, <1>1 DEF Creates, Creating
  <1>5. \A u \in Threads : (Known(u)' <=> Known(u)) /\ (Ended(u)' <=> Ended(u))
    BY <1>0, <1>1 DEF Known, Ended
  <1>6. \A u \in Threads : Live(u) /\ Known(u) /\ Ended(u) => pt_slots[meant[u].slot].retval = u
    BY DEF Tabled, LivesWrite, Writes
  <1> QED
    BY Facts, <1>0, <1>3, <1>4, <1>5, <1>6, TableKept

\* The kernel hands a join its target, or says that somebody else has it.
LEMMA JoinWaitsTable ==
  ASSUME Sound, Tabled, NEW t \in Threads, JoinWaits(t) PROVE Tabled'
  <1>0. /\ pc[t] = "join" /\ pc[target[t]] = "gone" /\ UNCHANGED << pt_slots, s, target, meant, stillborn >>
        /\ \/ target[t] \in zombies /\ zombies' = zombies \ {target[t]} /\ pc' = [pc EXCEPT ![t] = "joined"]
           \/ zombies' = zombies /\ pc' = [pc EXCEPT ![t] = "run"]
    BY DEF JoinWaits, Goto, locals, history
  <1>1. PICK l \in {"joined", "run"} : pc' = [pc EXCEPT ![t] = l]
    BY <1>0
  <1>2. \A u \in Threads : pc'[u] = IF u = t THEN l ELSE pc[u]
    BY Facts, <1>1
  <1>3. ASSUME NEW u \in Threads PROVE Live(u)' <=> Live(u)
    <2>1. CASE target[t] \in zombies /\ zombies' = zombies \ {target[t]} /\ pc' = [pc EXCEPT ![t] = "joined"]
      <3>1. pc'[t] = "joined" /\ l = "joined"
        BY Facts, <1>2, <2>1
      <3>2. \A v \in Threads : Reaping(v)' <=> Reaping(v) \/ v = t
        BY <1>2, <3>1 DEF Reaping
      <3>3. (\E v \in Threads : Reaping(v)' /\ target'[v] = u)
            <=> (\E v \in Threads : Reaping(v) /\ target[v] = u) \/ u = target[t]
        BY <1>0, <3>2
      <3>4. target[t] # t
        BY <1>0
      <3> QED
        BY <1>0, <1>2, <2>1, <3>1, <3>3, <3>4 DEF Live
    <2>2. CASE zombies' = zombies /\ pc' = [pc EXCEPT ![t] = "run"]
      <3>1. \A v \in Threads : pc'[v] = IF v = t THEN "run" ELSE pc[v]
        BY Facts, <2>2
      <3>2. \A v \in Threads : Reaping(v)' <=> Reaping(v)
        BY <1>0, <3>1 DEF Reaping
      <3>3. (\E v \in Threads : Reaping(v)' /\ target'[v] = u)
            <=> (\E v \in Threads : Reaping(v) /\ target[v] = u)
        BY <1>0, <3>2
      <3> QED
        BY <1>0, <2>2, <3>1, <3>3 DEF Live
    <2> QED
      BY <1>0, <2>1, <2>2
  <1>4. \A u \in Threads : (Creates(u)' <=> Creates(u)) /\ s'[u] = s[u]
    BY <1>0, <1>2 DEF Creates, Creating
  <1>5. \A u \in Threads : (Known(u)' <=> Known(u)) /\ (Ended(u)' <=> Ended(u))
    BY <1>0, <1>2 DEF Known, Ended
  <1>6. \A u \in Threads : Live(u) /\ Known(u) /\ Ended(u) => pt_slots[meant[u].slot].retval = u
    BY DEF Tabled, LivesWrite, Writes
  <1> QED
    BY Facts, <1>0, <1>3, <1>4, <1>5, <1>6, TableKept

\* pthread_create takes a free entry.
LEMMA PickTable ==
  ASSUME Sound, Tabled, NEW t \in Threads, pc[t] = "pick", NEW k \in PtSlots, ~ pt_slots[k].in_use,
         pt_slots' = [pt_slots EXCEPT ![k] = [in_use |-> TRUE, tid |-> 0, finished |-> FALSE, retval |-> 0]],
         s' = [s EXCEPT ![t] = k], pc' = [pc EXCEPT ![t] = "scan"],
         UNCHANGED << target, meant, zombies, stillborn >>
  PROVE  Tabled'
  <1>1. \A u \in Threads : pc'[u] = IF u = t THEN "scan" ELSE pc[u]
    BY Facts
  <1>2. \A u \in Threads : s'[u] = IF u = t THEN k ELSE s[u]
    BY Facts
  <1>3. k # 0
    BY PthreadAssumption DEF PtSlots
  <1>4. \A u \in Threads : Reaping(u)' <=> Reaping(u)
    BY <1>1 DEF Reaping
  <1>5. ASSUME NEW u \in Threads PROVE Live(u)' <=> Live(u)
    <2>1. (\E v \in Threads : Reaping(v)' /\ target'[v] = u) <=> (\E v \in Threads : Reaping(v) /\ target[v] = u)
      BY <1>4
    <2> QED
      BY <1>1, <2>1 DEF Live
  <1>6. \A u \in Threads : (Creates(u)' <=> Creates(u) \/ u = t) /\ ~ Creates(t)
    BY <1>1, <1>2, <1>3 DEF Creates, Creating
  <1>7. \A u \in Threads : (Known(u)' <=> Known(u)) /\ (Ended(u)' <=> Ended(u))
    BY <1>1 DEF Known, Ended
  <1>8. /\ \A m \in PtSlots \ {k} : pt_slots'[m] = pt_slots[m]
        /\ pt_slots'[k].in_use /\ pt_slots'[k].tid = 0
    BY Facts DEF TypeOK
  <1>9. /\ \A u \in Threads : Creates(u) => s[u] # k /\ s[u] \in PtSlots
        /\ \A u \in Threads : Live(u) => meant[u].slot # k /\ meant[u].slot \in PtSlots
    BY Facts, SlotsInside DEF Tabled, CreatorsHold, LivesWrite, Writes
  <1>10. \A u \in Threads : Creates(u)' => pt_slots'[s'[u]].in_use /\ pt_slots'[s'[u]].tid = 0
    <2>1. ASSUME NEW u \in Threads, Creates(u)' PROVE pt_slots'[s'[u]].in_use /\ pt_slots'[s'[u]].tid = 0
      <3>1. CASE u = t
        BY <1>2, <1>8, <3>1
      <3>2. CASE u # t
        BY <1>2, <1>6, <1>8, <1>9, <2>1, <3>2 DEF Tabled, CreatorsHold
      <3> QED
        BY <3>1, <3>2
    <2> QED
      BY <2>1
  <1>11. \A u \in Threads : Live(u)' => Writes(u)'
    BY Facts, <1>5, <1>7, <1>8, <1>9 DEF Tabled, LivesWrite, Writes
  <1>12. \A u, v \in Threads : Creates(u)' /\ Creates(v)' /\ s'[u] = s'[v] => u = v
    BY <1>2, <1>6, <1>9 DEF Tabled, CreatorsApart
  <1>13. \A u, v \in Threads : Live(u)' /\ Live(v)' /\ meant'[u].slot = meant'[v].slot => u = v
    BY <1>5 DEF Tabled, LivesApart
  <1>14. \A u, v \in Threads : Creates(u)' /\ Live(v)' => s'[u] # meant'[v].slot
    BY <1>2, <1>5, <1>6, <1>9 DEF Tabled, BothApart
  <1>15. ASSUME NEW m \in PtSlots, pt_slots'[m].in_use
         PROVE  \/ \E u \in Threads : Creates(u)' /\ s'[u] = m
                \/ \E u \in Threads : Live(u)' /\ meant'[u].slot = m
    BY <1>2, <1>5, <1>6, <1>8, <1>15 DEF Tabled, AllHeld
  <1> QED
    BY <1>10, <1>11, <1>12, <1>13, <1>14, <1>15
       DEF Tabled, CreatorsHold, LivesWrite, CreatorsApart, LivesApart, BothApart, AllHeld

\* pthread_create gives its entry back.
LEMMA UnpickTable ==
  ASSUME Sound, Tabled, NEW t \in Threads, Unpick(t) PROVE Tabled'
  <1>0. /\ pc[t] = "unpick" /\ pc' = [pc EXCEPT ![t] = "run"] /\ s' = [s EXCEPT ![t] = 0]
        /\ pt_slots' = [pt_slots EXCEPT ![s[t]].in_use = FALSE]
        /\ UNCHANGED << target, meant, zombies, stillborn >>
    BY DEF Unpick, Back, Goto, kernel, history
  <1>1. \A u \in Threads : pc'[u] = IF u = t THEN "run" ELSE pc[u]
    BY Facts, <1>0
  <1>2. \A u \in Threads : u # t => s'[u] = s[u]
    BY <1>0
  <1>3. Creates(t) /\ s[t] \in PtSlots
    BY Facts, <1>0, SlotsInside DEF Creates, Creating, Conducted, Conduct
  <1>4. \A u \in Threads : Reaping(u)' <=> Reaping(u)
    BY <1>0, <1>1 DEF Reaping
  <1>5. ASSUME NEW u \in Threads PROVE Live(u)' <=> Live(u)
    <2>1. (\E v \in Threads : Reaping(v)' /\ target'[v] = u) <=> (\E v \in Threads : Reaping(v) /\ target[v] = u)
      BY <1>0, <1>4
    <2> QED
      BY <1>0, <1>1, <2>1 DEF Live
  <1>6. \A u \in Threads : Creates(u)' <=> Creates(u) /\ u # t
    BY <1>1, <1>2 DEF Creates, Creating
  <1>7. \A u \in Threads : (Known(u)' <=> Known(u)) /\ (Ended(u)' <=> Ended(u))
    BY <1>0, <1>1 DEF Known, Ended
  <1>8. /\ \A m \in PtSlots \ {s[t]} : pt_slots'[m] = pt_slots[m]
        /\ ~ pt_slots'[s[t]].in_use
    BY Facts, <1>0, <1>3 DEF TypeOK
  <1>9. /\ \A u \in Threads \ {t} : Creates(u) => s[u] # s[t] /\ s[u] \in PtSlots
        /\ \A u \in Threads : Live(u) => meant[u].slot # s[t] /\ meant[u].slot \in PtSlots
    BY Facts, <1>3, SlotsInside DEF Tabled, CreatorsApart, BothApart
  <1>10. \A u \in Threads : Creates(u)' => pt_slots'[s'[u]].in_use /\ pt_slots'[s'[u]].tid = 0
    BY <1>2, <1>6, <1>8, <1>9 DEF Tabled, CreatorsHold
  <1>11. \A u \in Threads : Live(u)' => Writes(u)'
    BY <1>0, <1>5, <1>7, <1>8, <1>9 DEF Tabled, LivesWrite, Writes
  <1>12. \A u, v \in Threads : Creates(u)' /\ Creates(v)' /\ s'[u] = s'[v] => u = v
    BY <1>2, <1>6 DEF Tabled, CreatorsApart
  <1>13. \A u, v \in Threads : Live(u)' /\ Live(v)' /\ meant'[u].slot = meant'[v].slot => u = v
    BY <1>0, <1>5 DEF Tabled, LivesApart
  <1>14. \A u, v \in Threads : Creates(u)' /\ Live(v)' => s'[u] # meant'[v].slot
    BY <1>0, <1>2, <1>5, <1>6 DEF Tabled, BothApart
  <1>15. ASSUME NEW m \in PtSlots, pt_slots'[m].in_use
         PROVE  \/ \E u \in Threads : Creates(u)' /\ s'[u] = m
                \/ \E u \in Threads : Live(u)' /\ meant'[u].slot = m
    <2>1. m # s[t] /\ pt_slots[m].in_use
      BY <1>8, <1>15
    <2>2. CASE \E u \in Threads : Creates(u) /\ s[u] = m
      BY <1>2, <1>6, <2>1, <2>2
    <2>3. CASE \E u \in Threads : Live(u) /\ meant[u].slot = m
      BY <1>0, <1>5, <2>3
    <2> QED
      BY <2>1, <2>2, <2>3 DEF Tabled, AllHeld
  <1> QED
    BY <1>10, <1>11, <1>12, <1>13, <1>14, <1>15
       DEF Tabled, CreatorsHold, LivesWrite, CreatorsApart, LivesApart, BothApart, AllHeld

-----------------------------------------------------------------------------
\* The entry of a creation becomes that of the thread it created.
LEMMA SysCreateTable ==
  ASSUME Sound, Tabled, NEW t \in Threads, SysCreate(t) PROVE Tabled'
  <1>0. PICK n \in Threads : n = born + 1
    BY Facts, PthreadAssumption DEF SysCreate, TypeOK, Threads
  <1>1. /\ n # t /\ pc[t] = "sys" /\ pc[n] = "unborn"
    BY Facts, <1>0 DEF SysCreate, TypeOK, Born, Threads
  <1>2. /\ pc' = [pc EXCEPT ![t] = "run", ![n] = "read"] /\ s' = [s EXCEPT ![t] = 0]
        /\ meant' = [meant EXCEPT ![n] = [slot |-> s[t], by |-> t]]
        /\ UNCHANGED << pt_slots, target, zombies, stillborn >>
    BY <1>0 DEF SysCreate
  <1>3. \A u \in Threads : pc'[u] = IF u = t THEN "run" ELSE IF u = n THEN "read" ELSE pc[u]
    BY Facts, <1>1, <1>2
  <1>4. /\ \A u \in Threads \ {t} : s'[u] = s[u]
        /\ \A u \in Threads \ {n} : meant'[u] = meant[u]
        /\ meant'[n].slot = s[t]
    BY Facts, <1>2
  <1>5. \A u \in Threads : Reaping(u)' <=> Reaping(u)
    BY <1>1, <1>3 DEF Reaping
  <1>6. ASSUME NEW u \in Threads \ {n} PROVE Live(u)' <=> Live(u)
    <2>1. (\E v \in Threads : Reaping(v)' /\ target'[v] = u) <=> (\E v \in Threads : Reaping(v) /\ target[v] = u)
      BY <1>2, <1>5
    <2> QED
      BY Facts, <1>1, <1>2, <1>3, <1>4, <2>1 DEF Live
  <1>7. ~ Live(n) /\ (Live(n)' <=> Creates(t)) /\ ~ Known(n)'
    BY Facts, <1>1, <1>2, <1>3, <1>4 DEF Live, Creates, Creating, Known
  <1>8. \A u \in Threads : Creates(u)' <=> Creates(u) /\ u # t
    BY <1>1, <1>3, <1>4 DEF Creates, Creating
  <1>9. \A u \in Threads \ {n} : (Known(u)' <=> Known(u)) /\ (Ended(u)' <=> Ended(u))
    BY Facts, <1>1, <1>2, <1>3 DEF Known, Ended
  <1>10. \A u \in Threads : Creates(u)' => pt_slots'[s'[u]].in_use /\ pt_slots'[s'[u]].tid = 0
    BY <1>2, <1>4, <1>8 DEF Tabled, CreatorsHold
  <1>11. ASSUME NEW u \in Threads, Live(u)' PROVE Writes(u)'
    <2>1. CASE u = n
      BY <1>2, <1>4, <1>7, <1>11, <2>1 DEF Tabled, CreatorsHold, Writes
    <2>2. CASE u # n
      BY <1>2, <1>4, <1>6, <1>9, <1>11, <2>2 DEF Tabled, LivesWrite, Writes
    <2> QED
      BY <2>1, <2>2
  <1>12. \A u, v \in Threads : Creates(u)' /\ Creates(v)' /\ s'[u] = s'[v] => u = v
    BY <1>4, <1>8 DEF Tabled, CreatorsApart
  <1>13. ASSUME NEW u \in Threads, NEW v \in Threads, Live(u)', Live(v)', meant'[u].slot = meant'[v].slot
         PROVE  u = v
    BY <1>4, <1>6, <1>7, <1>13 DEF Tabled, LivesApart, BothApart
  <1>14. ASSUME NEW u \in Threads, NEW v \in Threads, Creates(u)', Live(v)' PROVE s'[u] # meant'[v].slot
    BY <1>4, <1>6, <1>7, <1>8, <1>14 DEF Tabled, CreatorsApart, BothApart
  <1>15. ASSUME NEW m \in PtSlots, pt_slots'[m].in_use
         PROVE  \/ \E u \in Threads : Creates(u)' /\ s'[u] = m
                \/ \E u \in Threads : Live(u)' /\ meant'[u].slot = m
    <2>1. pt_slots[m].in_use
      BY <1>2, <1>15
    <2>2. CASE \E u \in Threads : Creates(u) /\ s[u] = m
      BY <1>4, <1>7, <1>8, <2>2
    <2>3. CASE \E u \in Threads : Live(u) /\ meant[u].slot = m
      BY <1>4, <1>6, <1>7, <2>3
    <2> QED
      BY <2>1, <2>2, <2>3 DEF Tabled, AllHeld
  <1> QED
    BY <1>10, <1>11, <1>12, <1>13, <1>14, <1>15
       DEF Tabled, CreatorsHold, LivesWrite, CreatorsApart, LivesApart, BothApart, AllHeld

\* The new thread makes itself known.
LEMMA StoreTidTable ==
  ASSUME Sound, Tabled, NEW t \in Threads, StoreTid(t) PROVE Tabled'
  <1>0. /\ pc[t] = "tid" /\ pc' = [pc EXCEPT ![t] = "run"]
        /\ pt_slots' = [pt_slots EXCEPT ![job[t].slot].tid = t]
        /\ UNCHANGED << s, target, meant, zombies, stillborn >>
    BY DEF StoreTid, Goto, kernel, locals, history
  <1>1. \A u \in Threads : pc'[u] = IF u = t THEN "run" ELSE pc[u]
    BY Facts, <1>0
  <1>2. job[t].slot = meant[t].slot /\ job[t].slot # 0 /\ t \notin stillborn
    BY <1>0, Zenon DEF Sound, IInv, Carried, Conducted, Conduct
  <1>3. Live(t) /\ meant[t].slot \in PtSlots
    BY Facts, <1>0, <1>2, SlotsInside DEF Live
  <1>4. \A u \in Threads : Reaping(u)' <=> Reaping(u)
    BY <1>0, <1>1 DEF Reaping
  <1>5. ASSUME NEW u \in Threads PROVE Live(u)' <=> Live(u)
    <2>1. (\E v \in Threads : Reaping(v)' /\ target'[v] = u) <=> (\E v \in Threads : Reaping(v) /\ target[v] = u)
      BY <1>0, <1>4
    <2> QED
      BY <1>0, <1>1, <2>1 DEF Live
  <1>6. \A u \in Threads : Creates(u)' <=> Creates(u)
    BY <1>0, <1>1 DEF Creates, Creating
  <1>7. /\ \A u \in Threads \ {t} : (Known(u)' <=> Known(u)) /\ (Ended(u)' <=> Ended(u))
        /\ Known(t)' /\ ~ Ended(t)'
    BY <1>0, <1>1, <1>2 DEF Known, Ended
  <1>8. /\ \A m \in PtSlots : pt_slots'[m].in_use = pt_slots[m].in_use /\ pt_slots'[m].retval = pt_slots[m].retval
        /\ \A m \in PtSlots \ {meant[t].slot} : pt_slots'[m].tid = pt_slots[m].tid
        /\ pt_slots'[meant[t].slot].tid = t
    BY Facts, <1>0, <1>2, <1>3 DEF TypeOK
  <1>9. /\ \A u \in Threads : Creates(u) => s[u] # meant[t].slot /\ s[u] \in PtSlots
        /\ \A u \in Threads \ {t} : Live(u) => meant[u].slot # meant[t].slot /\ meant[u].slot \in PtSlots
    BY Facts, <1>3, SlotsInside DEF Tabled, LivesApart, BothApart
  <1>10. \A u \in Threads : Creates(u)' => pt_slots'[s'[u]].in_use /\ pt_slots'[s'[u]].tid = 0
    BY <1>0, <1>6, <1>8, <1>9 DEF Tabled, CreatorsHold
  <1>11. ASSUME NEW u \in Threads, Live(u)' PROVE Writes(u)'
    <2>1. CASE u = t
      BY <1>0, <1>3, <1>7, <1>8, <2>1 DEF Tabled, LivesWrite, Writes
    <2>2. CASE u # t
      BY <1>0, <1>5, <1>7, <1>8, <1>9, <1>11, <2>2 DEF Tabled, LivesWrite, Writes
    <2> QED
      BY <2>1, <2>2
  <1>12. \A u, v \in Threads : Creates(u)' /\ Creates(v)' /\ s'[u] = s'[v] => u = v
    BY <1>0, <1>6 DEF Tabled, CreatorsApart
  <1>13. \A u, v \in Threads : Live(u)' /\ Live(v)' /\ meant'[u].slot = meant'[v].slot => u = v
    BY <1>0, <1>5 DEF Tabled, LivesApart
  <1>14. \A u, v \in Threads : Creates(u)' /\ Live(v)' => s'[u] # meant'[v].slot
    BY <1>0, <1>5, <1>6 DEF Tabled, BothApart
  <1>15. ASSUME NEW m \in PtSlots, pt_slots'[m].in_use
         PROVE  \/ \E u \in Threads : Creates(u)' /\ s'[u] = m
                \/ \E u \in Threads : Live(u)' /\ meant'[u].slot = m
    <2>1. pt_slots[m].in_use
      BY <1>8, <1>15
    <2>2. CASE \E u \in Threads : Creates(u) /\ s[u] = m
      BY <1>0, <1>6, <2>2
    <2>3. CASE \E u \in Threads : Live(u) /\ meant[u].slot = m
      BY <1>0, <1>5, <2>3
    <2> QED
      BY <2>1, <2>2, <2>3 DEF Tabled, AllHeld
  <1> QED
    BY <1>10, <1>11, <1>12, <1>13, <1>14, <1>15
       DEF Tabled, CreatorsHold, LivesWrite, CreatorsApart, LivesApart, BothApart, AllHeld

\* A join frees the entry of its target.
LEMMA ReleaseTable ==
  ASSUME Sound, Tabled, NEW t \in Threads, pc[t] = "lookup", Live(target[t]), Known(target[t]),
         pc' = [pc EXCEPT ![t] = "run"], pt_slots' = [pt_slots EXCEPT ![meant[target[t]].slot].in_use = FALSE],
         UNCHANGED << s, target, meant, zombies, stillborn >>
  PROVE  Tabled'
  <1> DEFINE g == target[t]
             k == meant[g].slot
  <1>1. \A u \in Threads : pc'[u] = IF u = t THEN "run" ELSE pc[u]
    BY Facts
  <1>2. /\ g \in Threads /\ k \in PtSlots /\ pc[g] = "gone" /\ g \notin zombies /\ g \notin stillborn /\ g # t
    BY Facts, SlotsInside DEF Conducted, Conduct, Reaping, Known
  <1>3. \A u \in Threads : Reaping(u)' <=> Reaping(u) /\ u # t
    BY <1>1 DEF Reaping
  <1>4. \A u \in Threads : Reaping(u) /\ target[u] = g => u = t
    BY Facts DEF Conducted, Reaping
  <1>5. ASSUME NEW u \in Threads PROVE Live(u)' <=> Live(u) /\ u # g
    <2>1. CASE u = g
      <3>1. ~ \E v \in Threads : Reaping(v)' /\ target'[v] = u
        BY <1>3, <1>4, <2>1
      <3> QED
        BY <1>1, <1>2, <2>1, <3>1 DEF Live
    <2>2. CASE u # g
      <3>1. (\E v \in Threads : Reaping(v)' /\ target'[v] = u) <=> (\E v \in Threads : Reaping(v) /\ target[v] = u)
        BY <1>3, <2>2
      <3> QED
        BY <1>1, <2>2, <3>1 DEF Live
    <2> QED
      BY <2>1, <2>2
  <1>6. \A u \in Threads : Creates(u)' <=> Creates(u)
    BY <1>1 DEF Creates, Creating
  <1>7. \A u \in Threads : (Known(u)' <=> Known(u)) /\ (Ended(u)' <=> Ended(u))
    BY <1>1 DEF Known, Ended
  <1>8. /\ \A m \in PtSlots \ {k} : pt_slots'[m] = pt_slots[m]
        /\ ~ pt_slots'[k].in_use
    BY Facts, <1>2 DEF TypeOK
  <1>9. /\ \A u \in Threads : Creates(u) => s[u] # k /\ s[u] \in PtSlots
        /\ \A u \in Threads \ {g} : Live(u) => meant[u].slot # k /\ meant[u].slot \in PtSlots
    BY Facts, <1>2, SlotsInside DEF Tabled, LivesApart, BothApart
  <1> HIDE DEF g, k
  <1>10. \A u \in Threads : Creates(u)' => pt_slots'[s'[u]].in_use /\ pt_slots'[s'[u]].tid = 0
    BY Facts, <1>6, <1>8, <1>9 DEF Tabled, CreatorsHold
  <1>11. ASSUME NEW u \in Threads, Live(u)' PROVE Writes(u)'
    <2>1. u # g /\ Live(u) /\ meant[u].slot # k /\ meant[u].slot \in PtSlots
      BY <1>5, <1>9, <1>11
    <2>2. pt_slots'[meant'[u].slot] = pt_slots[meant[u].slot]
      BY <1>8, <2>1, Zenon
    <2>3. Writes(u)
      BY <2>1 DEF Tabled, LivesWrite
    <2> QED
      BY <1>7, <2>2, <2>3, Zenon DEF Writes
  <1>12. \A u, v \in Threads : Creates(u)' /\ Creates(v)' /\ s'[u] = s'[v] => u = v
    BY <1>6 DEF Tabled, CreatorsApart
  <1>13. \A u, v \in Threads : Live(u)' /\ Live(v)' /\ meant'[u].slot = meant'[v].slot => u = v
    BY <1>5 DEF Tabled, LivesApart
  <1>14. \A u, v \in Threads : Creates(u)' /\ Live(v)' => s'[u] # meant'[v].slot
    BY <1>5, <1>6 DEF Tabled, BothApart
  <1>15. ASSUME NEW m \in PtSlots, pt_slots'[m].in_use
         PROVE  \/ \E u \in Threads : Creates(u)' /\ s'[u] = m
                \/ \E u \in Threads : Live(u)' /\ meant'[u].slot = m
    <2>1. m # k /\ pt_slots[m].in_use
      BY <1>8, <1>15
    <2>2. CASE \E u \in Threads : Creates(u) /\ s[u] = m
      BY <1>6, <2>2
    <2>3. CASE \E u \in Threads : Live(u) /\ meant[u].slot = m
      <3>1. PICK u \in Threads : Live(u) /\ meant[u].slot = m
        BY <2>3
      <3>2. u # g
        BY <2>1, <3>1 DEF k
      <3> QED
        BY <1>5, <3>1, <3>2
    <2> QED
      BY <2>1, <2>2, <2>3 DEF Tabled, AllHeld
  <1> QED
    BY <1>10, <1>11, <1>12, <1>13, <1>14, <1>15
       DEF Tabled, CreatorsHold, LivesWrite, CreatorsApart, LivesApart, BothApart, AllHeld

-----------------------------------------------------------------------------
\* Every step keeps the table in order.
LEMMA TableHolds ==
  ASSUME Sound, Tabled, NEW t \in Threads, Call(t) \/ Step(t) PROVE Tabled'
  <1> USE DEF Goto
  <1>0. Conduct(t) /\ Carried /\ job \in [Threads -> Jobs]
    BY Facts DEF Conducted, Sound, IInv
  \* A step that leaves the table alone.
  <1>1. ASSUME NEW l, pc' = [pc EXCEPT ![t] = l], pc[t] \notin {"unborn", "gone", "tid"},
               l \notin {"unborn", "read", "free", "tls", "tid", "finish", "exit", "gone"},
               pc[t] \notin {"read", "free", "tls"} \/ ~ Live(t),
               UNCHANGED << pt_slots, meant, zombies, stillborn >>, Reaping(t) <=> l \in {"joined", "lookup"},
               \A u \in Threads \ {t} : s'[u] = s[u] /\ target'[u] = target[u],
               Reaping(t) => target'[t] = target[t],
               l \in Creating /\ s'[t] # 0 <=> Creates(t), Creates(t) => s'[t] = s[t]
        PROVE  Tabled'
    <2>1. pc'[t] = l
      BY Facts, <1>1
    <2>2. Live(t) => (Known(t)' <=> Known(t))
      BY <1>1, <2>1 DEF Known
    <2> QED
      BY <1>1, <2>2, QuietTable, Zenon
  <1>2. ASSUME NEW a, NEW b, LockPt(t, a, b),
               << a, b >> \in {<< "run", "pick" >>, << "run", "find" >>, << "failed", "unpick" >>, << "joined", "lookup" >>}
        PROVE  Tabled'
    <2>1. /\ pc[t] = a /\ pc' = [pc EXCEPT ![t] = b]
          /\ UNCHANGED << pt_slots, meant, zombies, stillborn, s, target >>
      BY <1>2 DEF LockPt, kernel, locals, history
    <2> QED
      BY <1>1, <1>2, <2>1, Zenon DEF Reaping, Creates, Creating
  <1>3. CASE ThreadCreate(t)
    <2>1. /\ pc[t] = "run" /\ pc' = [pc EXCEPT ![t] = "scan"] /\ s' = [s EXCEPT ![t] = 0]
          /\ UNCHANGED << pt_slots, meant, target, zombies, stillborn >>
      BY <1>3 DEF ThreadCreate, kernel, history
    <2> QED
      BY Facts, <1>1, <2>1 DEF Reaping, Creates, Creating
  <1>4. CASE Return(t)
    <2>1. /\ pc[t] = "run" /\ t # 1 /\ UNCHANGED << meant, s, target, zombies, stillborn >>
      BY <1>4 DEF Return, kernel, locals, history
    <2>2. job[t] = meant[t]
      BY <1>0, <2>1, Zenon DEF Carried
    <2>3. CASE job[t].slot = 0
      <3>1. pc' = [pc EXCEPT ![t] = "exit"] /\ pt_slots' = pt_slots /\ ~ Live(t)
        BY <1>4, <2>2, <2>3 DEF Return, Live
      <3> QED
        BY <2>1, <3>1, QuietTable, Zenon DEF Reaping, Creates, Creating
    <2>4. CASE job[t].slot # 0
      <3>1. pc' = [pc EXCEPT ![t] = "finish"] /\ pt_slots' = [pt_slots EXCEPT ![meant[t].slot].retval = t]
        BY <1>4, <2>2, <2>4 DEF Return
      <3>2. Live(t) /\ meant[t].slot \in PtSlots
        BY Facts, <2>1, <2>2, <2>4, SlotsInside DEF Live
      <3>3. /\ \A k \in PtSlots : pt_slots'[k].in_use = pt_slots[k].in_use /\ pt_slots'[k].tid = pt_slots[k].tid
            /\ \A k \in PtSlots \ {meant[t].slot} : pt_slots'[k].retval = pt_slots[k].retval
            /\ pt_slots'[meant[t].slot].retval = t
        BY Facts, <3>1, <3>2 DEF TypeOK
      <3>4. Known(t)' <=> Known(t)
        BY <2>1, <3>1 DEF Known
      <3>5. /\ ~ Reaping(t) /\ ~ Creates(t) /\ "finish" \notin Creating \cup {"joined", "lookup", "unborn", "gone"}
            /\ pc[t] \notin {"unborn", "gone"}
        BY <2>1 DEF Reaping, Creates, Creating
      <3> QED
        BY <2>1, <3>1, <3>2, <3>3, <3>4, <3>5, QuietTable, Zenon
    <2> QED
      BY <2>3, <2>4
  <1>5. ASSUME NEW u \in Threads, Join(t, u) PROVE Tabled'
    <2>1. /\ pc[t] = "run" /\ pc' = [pc EXCEPT ![t] = "join"] /\ target' = [target EXCEPT ![t] = u]
          /\ UNCHANGED << pt_slots, meant, s, zombies, stillborn >>
      BY <1>5 DEF Join, kernel, history
    <2> QED
      BY Facts, <1>1, <2>1 DEF Reaping, Creates, Creating
  <1>6. CASE CreatePick(t)
    <2> DEFINE free == {k \in PtSlots : ~ pt_slots[k].in_use}
    <2>1. pc[t] = "pick" /\ UNCHANGED << target, meant, zombies, stillborn >>
      BY <1>6 DEF CreatePick, kernel, history
    <2>2. CASE free = {}
      <3>1. pc' = [pc EXCEPT ![t] = "run"] /\ UNCHANGED << pt_slots, s >>
        BY <1>6, <2>2 DEF CreatePick
      <3> QED
        BY <1>1, <2>1, <3>1 DEF Reaping, Creates, Creating
    <2>3. CASE free # {}
      <3>1. free \subseteq PtSlots
        OBVIOUS
      <3>2. First(free) \in free
        BY <2>3, <3>1, FirstFound, Zenon
      <3>3. /\ pt_slots' = [pt_slots EXCEPT ![First(free)] =
                              [in_use |-> TRUE, tid |-> 0, finished |-> FALSE, retval |-> 0]]
            /\ s' = [s EXCEPT ![t] = First(free)] /\ pc' = [pc EXCEPT ![t] = "scan"]
        BY <1>6, <2>3 DEF CreatePick
      <3>4. First(free) \in PtSlots /\ ~ pt_slots[First(free)].in_use
        BY <3>2
      <3> QED
        BY <2>1, <3>3, <3>4, PickTable, Zenon
    <2> QED
      BY <2>2, <2>3
  <1>7. ASSUME CreateFails(t), pc[t] \in {"scan", "unslot"},
               UNCHANGED << pt_slots, meant, target, zombies, stillborn >>
        PROVE  Tabled'
    <2>1. CASE s[t] = 0
      <3>1. pc' = [pc EXCEPT ![t] = "run"] /\ s' = [s EXCEPT ![t] = 0]
        BY <1>7, <2>1 DEF CreateFails, Back
      <3> QED
        BY Facts, <1>1, <1>7, <2>1, <3>1 DEF Reaping, Creates, Creating
    <2>2. CASE s[t] # 0
      <3>1. pc' = [pc EXCEPT ![t] = "failed"] /\ s' = s
        BY <1>7, <2>2 DEF CreateFails
      <3> QED
        BY <1>1, <1>7, <2>2, <3>1 DEF Reaping, Creates, Creating
    <2> QED
      BY <2>1, <2>2
  <1>8. CASE Scan(t)
    <2>1. pc[t] = "scan" /\ UNCHANGED << pt_slots, meant, target, zombies, stillborn >>
      BY <1>8 DEF Scan, kernel, history
    <2>2. \/ CreateFails(t)
          \/ s' = s /\ pc' = pc
          \/ s' = s /\ pc' = [pc EXCEPT ![t] = "fill"]
      BY <1>8 DEF Scan
    <2>3. pc' = pc => pc' = [pc EXCEPT ![t] = "scan"]
      BY Facts, <2>1
    <2> QED
      BY <1>1, <1>7, <2>1, <2>2, <2>3 DEF Reaping, Creates, Creating
  <1>9. CASE Fill(t) \/ SysCreateFails(t)
    <2>1. /\ pc[t] \in {"fill", "sys"} /\ \E l \in {"sys", "unslot"} : pc' = [pc EXCEPT ![t] = l]
          /\ UNCHANGED << pt_slots, meant, s, target, zombies, stillborn >>
      BY <1>9 DEF Fill, SysCreateFails, kernel, locals, history
    <2> QED
      BY <1>1, <2>1, Zenon DEF Reaping, Creates, Creating
  <1>10. CASE Unslot(t)
    BY <1>7, <1>10 DEF Unslot, kernel, history
  \* The steps of a thread that is not known yet and stays so, or never will be.
  <1>11. ASSUME NEW l, pc' = [pc EXCEPT ![t] = l], pc[t] \in {"read", "free", "tls"},
                \/ l \in {"free", "tls", "tid"} /\ stillborn' = stillborn
                \/ l = "exit" /\ stillborn' = stillborn \cup {t},
                UNCHANGED << pt_slots, meant, zombies, s, target >>
         PROVE  Tabled'
    <2>1. ~ Known(t) /\ ~ Known(t)'
      BY <1>11 DEF Known
    <2> QED
      BY <1>11, <2>1, QuietTable, Zenon DEF Reaping, Creates, Creating
  <1>12. CASE ReadStart(t) \/ FreeStart(t)
    <2>1. /\ pc[t] \in {"read", "free"} /\ \E l \in {"free", "tls"} : pc' = [pc EXCEPT ![t] = l]
          /\ UNCHANGED << pt_slots, meant, zombies, s, target, stillborn >>
      BY <1>12 DEF ReadStart, FreeStart, kernel, locals, history
    <2> QED
      BY <1>11, <2>1, Zenon
  <1>13. CASE SetupTls(t)
    <2>1. pc[t] = "tls" /\ UNCHANGED << pt_slots, meant, s, target, zombies >>
      BY <1>13 DEF SetupTls, kernel, locals
    <2>2. job[t] = meant[t]
      BY <1>0, <2>1, Zenon DEF Carried, Conduct
    <2>3. CASE pc' = [pc EXCEPT ![t] = "exit"] /\ stillborn' = stillborn \cup {t}
      BY <1>11, <2>1, <2>3
    <2>4. CASE job[t].slot # 0 /\ pc' = [pc EXCEPT ![t] = "tid"] /\ stillborn' = stillborn
      BY <1>11, <2>1, <2>4
    <2>5. CASE job[t].slot = 0 /\ pc' = [pc EXCEPT ![t] = "run"] /\ stillborn' = stillborn
      <3>1. ~ Live(t)
        BY <2>2, <2>5 DEF Live
      <3> QED
        BY <1>1, <2>1, <2>5, <3>1 DEF Reaping, Creates, Creating
    <2> QED
      BY <1>13, <2>3, <2>4, <2>5 DEF SetupTls
  <1>14. CASE Finish(t)
    <2>1. /\ pc[t] = "finish" /\ pc' = [pc EXCEPT ![t] = "exit"]
          /\ pt_slots' = [pt_slots EXCEPT ![job[t].slot].finished = TRUE]
          /\ UNCHANGED << meant, s, target, zombies, stillborn >>
      BY <1>14 DEF Finish, kernel, locals, history
    <2>2. job[t].slot \in PtSlots
      BY Facts, <1>0, <2>1, SlotsInside DEF Conduct
    <2>3. \A k \in PtSlots : /\ pt_slots'[k].in_use = pt_slots[k].in_use
                             /\ pt_slots'[k].tid = pt_slots[k].tid
                             /\ pt_slots'[k].retval = pt_slots[k].retval
      BY <2>1, <2>2 DEF TypeOK
    <2>4. Known(t)' <=> Known(t)
      BY <2>1 DEF Known
    <2>5. Live(t) /\ Known(t) => pt_slots'[meant[t].slot].retval = t
      BY <2>1, <2>3, SlotsInside DEF Tabled, LivesWrite, Writes, Ended
    <2> QED
      BY <2>1, <2>3, <2>4, <2>5, QuietTable, Zenon DEF Reaping, Creates, Creating
  <1>15. CASE ExitFind(t)
    <2>1. /\ pc[t] = "find" /\ pc' = [pc EXCEPT ![t] = "exit"]
          /\ UNCHANGED << meant, s, target, zombies, stillborn >>
      BY <1>15 DEF ExitFind, kernel, locals, history
    <2>2. Known(t) /\ Known(t)'
      BY <1>0, <2>1 DEF Known, Conduct
    <2>3. CASE Live(t)
      <3>1. slot_for_tid(t) = {meant[t].slot} /\ meant[t].slot \in PtSlots
        BY Facts, <2>2, <2>3, Found, SlotsInside
      <3>2. First(slot_for_tid(t)) = meant[t].slot /\ slot_for_tid(t) # {}
        BY <3>1, FirstOfOne
      <3>3. pt_slots' = [pt_slots EXCEPT ![meant[t].slot].retval = t, ![meant[t].slot].finished = TRUE]
        BY <1>15, <3>2 DEF ExitFind
      <3>4. /\ \A k \in PtSlots : pt_slots'[k].in_use = pt_slots[k].in_use /\ pt_slots'[k].tid = pt_slots[k].tid
            /\ \A k \in PtSlots \ {meant[t].slot} : pt_slots'[k].retval = pt_slots[k].retval
            /\ pt_slots'[meant[t].slot].retval = t
        BY Facts, <3>1, <3>3 DEF TypeOK
      <3>5. /\ ~ Reaping(t) /\ ~ Creates(t) /\ "exit" \notin Creating \cup {"joined", "lookup", "unborn", "gone"}
            /\ pc[t] \notin {"unborn", "gone"}
        BY <2>1 DEF Reaping, Creates, Creating
      <3> QED
        BY <2>1, <2>2, <2>3, <3>4, <3>5, QuietTable, Zenon
    <2>4. CASE ~ Live(t)
      <3>1. slot_for_tid(t) = {}
        BY <2>4, Found
      <3>2. pt_slots' = pt_slots
        BY <1>15, <3>1 DEF ExitFind
      <3> QED
        BY <2>1, <2>4, <3>2, QuietTable, Zenon DEF Reaping, Creates, Creating
    <2> QED
      BY <2>3, <2>4
  <1>16. CASE JoinLookup(t)
    <2> DEFINE g == target[t]
    <2>1. /\ pc[t] = "lookup" /\ pc' = [pc EXCEPT ![t] = "run"]
          /\ UNCHANGED << meant, s, target, zombies, stillborn >> /\ g \in Threads
      BY Facts, <1>16 DEF JoinLookup, kernel, locals
    <2>2. CASE Live(g) /\ Known(g)
      <3>1. slot_for_tid(g) = {meant[g].slot} /\ meant[g].slot \in PtSlots
        BY Facts, <2>1, <2>2, Found, SlotsInside
      <3>2. First(slot_for_tid(g)) = meant[g].slot /\ slot_for_tid(g) # {}
        BY <3>1, FirstOfOne
      <3>3. pt_slots' = [pt_slots EXCEPT ![meant[g].slot].in_use = FALSE]
        BY <1>16, <3>2 DEF JoinLookup
      <3> QED
        BY <2>1, <2>2, <3>3, ReleaseTable, Zenon
    <2>3. CASE ~ (Live(g) /\ Known(g))
      <3>1. slot_for_tid(g) = {}
        BY <2>1, <2>3, Found
      <3>2. pt_slots' = pt_slots
        BY <1>16, <3>1 DEF JoinLookup
      <3>3. pc[g] = "gone" /\ Reaping(t) /\ g # t
        BY <1>0, <2>1 DEF Conduct, Reaping
      <3>4. Live(g) => g \in stillborn
        BY <2>3, <3>3 DEF Known
      <3>5. meant[g].slot = 0 \/ g \in stillborn
        BY <2>1, <3>3, <3>4 DEF Live
      <3> QED
        <4>1. \A u \in Threads : pc'[u] = IF u = t THEN "run" ELSE pc[u]
          BY Facts, <2>1
        <4>2. \A u \in Threads : Reaping(u)' <=> Reaping(u) /\ u # t
          BY <4>1 DEF Reaping
        <4>3. ASSUME NEW u \in Threads PROVE Live(u)' <=> Live(u)
          <5>1. CASE u = g
            BY <2>1, <3>3, <3>5, <4>1, <5>1 DEF Live
          <5>2. CASE u # g
            <6>1. (\E v \in Threads : Reaping(v)' /\ target'[v] = u)
                  <=> (\E v \in Threads : Reaping(v) /\ target[v] = u)
              BY <2>1, <4>2, <5>2
            <6>2. /\ pc'[u] = "gone" <=> pc[u] = "gone"
                  /\ pc'[u] = "unborn" <=> pc[u] = "unborn"
              BY <2>1, <4>1
            <6> QED
              BY <2>1, <6>1, <6>2 DEF Live
          <5> QED
            BY <5>1, <5>2
        <4>4. \A u \in Threads : (Creates(u)' <=> Creates(u)) /\ s'[u] = s[u]
          BY <2>1, <4>1 DEF Creates, Creating
        <4>5. \A u \in Threads : (Known(u)' <=> Known(u)) /\ (Ended(u)' <=> Ended(u))
          BY <2>1, <4>1 DEF Known, Ended
        <4>6. \A u \in Threads : Live(u) /\ Known(u) /\ Ended(u) => pt_slots[meant[u].slot].retval = u
          BY DEF Tabled, LivesWrite, Writes
        <4> QED
          BY Facts, <2>1, <3>2, <4>3, <4>4, <4>5, <4>6, TableKept
    <2> QED
      BY <2>2, <2>3
  <1> QED
    BY <1>2, <1>3, <1>4, <1>5, <1>6, <1>8, <1>9, <1>10, <1>12, <1>13, <1>14, <1>15, <1>16,
       ExitTable, JoinWaitsTable, UnpickTable, SysCreateTable, StoreTidTable
    DEF Call, Step

-----------------------------------------------------------------------------
\* A join reads what its target left.
LEMMA DeliveryHolds ==
  ASSUME Sound, Tabled, JoinDelivers, NEW t \in Threads, Call(t) \/ Step(t) PROVE JoinDelivers'
  <1>1. \A u \in Threads : pc[u] = "gone" => meant'[u] = meant[u] /\ (u \in stillborn' <=> u \in stillborn)
    <2>1. CASE SysCreate(t)
      <3>1. PICK n \in Threads : n = born + 1
        BY Facts, <2>1, PthreadAssumption DEF SysCreate, TypeOK, Threads
      <3>2. pc[n] = "unborn"
        BY Facts, <2>1, <3>1 DEF SysCreate, TypeOK, Born, Threads
      <3>3. meant' = [meant EXCEPT ![n] = [slot |-> s[t], by |-> t]] /\ stillborn' = stillborn
        BY <2>1, <3>1 DEF SysCreate
      <3> QED
        BY <3>2, <3>3
    <2>2. CASE SetupTls(t)
      BY <2>2 DEF SetupTls
    <2>3. CASE ~ SysCreate(t) /\ ~ SetupTls(t)
      <3>1. meant' = meant /\ stillborn' = stillborn
        BY <2>3, Zenon DEF Call, Step, LockPt, ThreadCreate, Return, Join, CreatePick, Scan, Fill, SysCreateFails, Unslot,
           Unpick, ReadStart, FreeStart, StoreTid, Finish, Exit, ExitFind, JoinWaits, JoinLookup, history
      <3> QED
        BY <3>1
    <2> QED
      BY <2>1, <2>2, <2>3
  <1>2. \A d \in delivered : d[1] \in Threads /\ pc[d[1]] = "gone"
    BY Facts DEF Conducted
  <1>3. \A d \in delivered : d[2] = IF meant'[d[1]].slot = 0 \/ d[1] \in stillborn' THEN 0 ELSE d[1]
    BY <1>1, <1>2 DEF JoinDelivers
  <1>4. CASE delivered' = delivered
    BY <1>3, <1>4 DEF JoinDelivers
  <1>5. CASE JoinLookup(t)
    <2> DEFINE g == target[t]
    <2>1. pc[t] = "lookup" /\ g \in Threads /\ pc[g] = "gone" /\ Reaping(t)
      BY Facts, <1>5 DEF JoinLookup, Conducted, Conduct, Reaping
    <2>2. Live(g) <=> meant[g].slot # 0
      BY <2>1 DEF Live
    <2>3. Known(g) <=> g \notin stillborn
      BY <2>1 DEF Known
    <2>0. (meant'[g].slot = 0 <=> meant[g].slot = 0) /\ (g \in stillborn' <=> g \in stillborn)
      BY <1>1, <2>1
    <2>4. CASE Live(g) /\ Known(g)
      <3>1. slot_for_tid(g) = {meant[g].slot} /\ meant[g].slot \in PtSlots
        BY Facts, <2>1, <2>4, Found, SlotsInside
      <3>2. First(slot_for_tid(g)) = meant[g].slot /\ slot_for_tid(g) # {}
        BY <3>1, FirstOfOne
      <3>3. pt_slots[meant[g].slot].retval = g
        BY <2>1, <2>4 DEF Tabled, LivesWrite, Writes, Ended
      <3>4. delivered' = delivered \cup {<< g, g >>}
        BY <1>5, <3>2, <3>3 DEF JoinLookup
      <3> QED
        <4>1. meant[g].slot # 0 /\ g \notin stillborn
          BY <2>2, <2>3, <2>4
        <4>2. ASSUME NEW d \in delivered'
              PROVE  d[2] = IF meant'[d[1]].slot = 0 \/ d[1] \in stillborn' THEN 0 ELSE d[1]
          <5>1. CASE d \in delivered
            BY <1>3, <5>1
          <5>2. CASE d = << g, g >>
            BY <2>0, <4>1, <5>2
          <5> QED
            BY <3>4, <5>1, <5>2
        <4> QED
          BY <4>2 DEF JoinDelivers
    <2>5. CASE ~ (Live(g) /\ Known(g))
      <3>1. slot_for_tid(g) = {}
        BY <2>1, <2>5, Found
      <3>2. delivered' = delivered \cup {<< g, 0 >>}
        BY <1>5, <3>1 DEF JoinLookup
      <3> QED
        <4>1. meant[g].slot = 0 \/ g \in stillborn
          BY <2>2, <2>3, <2>5
        <4>2. ASSUME NEW d \in delivered'
              PROVE  d[2] = IF meant'[d[1]].slot = 0 \/ d[1] \in stillborn' THEN 0 ELSE d[1]
          <5>1. CASE d \in delivered
            BY <1>3, <5>1
          <5>2. CASE d = << g, 0 >>
            BY <2>0, <4>1, <5>2
          <5> QED
            BY <3>2, <5>1, <5>2
        <4> QED
          BY <4>2 DEF JoinDelivers
    <2> QED
      BY <2>4, <2>5
  <1>6. CASE ~ JoinLookup(t)
    <2>1. delivered' = delivered
      BY <1>6, Zenon DEF Call, Step, LockPt, ThreadCreate, Return, Join, CreatePick, Scan, Fill, SysCreate, SysCreateFails,
         Unslot, Unpick, ReadStart, FreeStart, SetupTls, StoreTid, Finish, Exit, ExitFind, JoinWaits, history
    <2> QED
      BY <1>4, <2>1
  <1> QED
    BY <1>5, <1>6

\* The invariant of both tables.
TInv == Sound /\ Tabled /\ JoinDelivers

\* It holds in every state.
LEMMA TableInvariance == Spec => []TInv
  <1>1. Init => TInv
    <2> SUFFICES ASSUME Init PROVE TInv
      OBVIOUS
    <2>1. \A t \in Threads : pc[t] = IF t = 1 THEN "run" ELSE "unborn"
      BY DEF Init
    <2>2. TypeOK
      <3>1. 1 \in Threads /\ 1 \in StartSlots /\ 1 \in 1 .. MAX_THREAD_SLOTS + 1
            /\ 0 \in 0 .. PTHREAD_MAX /\ 0 \in 0 .. MaxThreads
        BY PthreadAssumption DEF Threads, StartSlots
      <3>2. NoJob \in Jobs
        BY <3>1 DEF NoJob, Jobs
      <3> QED
        BY <3>1, <3>2 DEF Init, TypeOK, PtLock!Init, Labels
    <2>3. Conducted
      BY <2>1 DEF Init, Conducted, Conduct, Reaping, NoJob
    <2>4. Tabled
      <3>1. \A t \in Threads : ~ Creates(t) /\ ~ Live(t)
        BY <2>1 DEF Init, Creates, Creating, Live, NoJob
      <3>2. \A k \in PtSlots : ~ pt_slots[k].in_use
        BY DEF Init
      <3> QED
        BY <3>1, <3>2
       DEF Tabled, CreatorsHold, LivesWrite, CreatorsApart, LivesApart, BothApart, AllHeld
    <2>5. JoinDelivers
      BY DEF Init, JoinDelivers
    <2>6. IInv
      BY InitHolds
    <2> QED
      BY <2>2, <2>3, <2>4, <2>5, <2>6 DEF TInv, Sound
  <1>2. IInv' /\ TInv /\ [Next]_vars => TInv'
    <2> SUFFICES ASSUME IInv', TInv, [Next]_vars PROVE TInv'
      OBVIOUS
    <2>1. CASE UNCHANGED vars
      <3>1. UNCHANGED << slots_used, slots_job, pt_slots, holders, born, zombies, entry, pc, i, s, target, job,
                         meant, stillborn, delivered >>
        BY <2>1 DEF vars, slots, kernel, locals, history
      <3>2. TypeOK'
        BY <3>1 DEF TInv, Sound, TypeOK
      <3>3. Conducted'
        BY <3>1 DEF TInv, Sound, Conducted, Conduct, Reaping
      <3>4. Tabled'
        <4>1. \A t \in Threads : /\ (Creates(t)' <=> Creates(t)) /\ (Live(t)' <=> Live(t))
                                 /\ Writes(t)' <=> Writes(t)
          BY <3>1 DEF Creates, Live, Reaping, Writes, Known, Ended
        <4> QED
          BY <3>1, <4>1
             DEF TInv, Tabled, CreatorsHold, LivesWrite, CreatorsApart, LivesApart, BothApart, AllHeld
      <3>5. JoinDelivers'
        BY <3>1 DEF TInv, JoinDelivers
      <3> QED
        BY <3>2, <3>3, <3>4, <3>5 DEF TInv, Sound
    <2>2. ASSUME NEW t \in Threads, Call(t) \/ Step(t) PROVE TInv'
      <3>1. Sound /\ Tabled /\ JoinDelivers /\ TypeOK /\ IInv /\ Conduct(t)
        BY DEF TInv, Sound, Conducted
      <3>2. pc[t] = "sys" => i[t] \in StartSlots
        BY <3>1 DEF IInv, Types, Owned, Owning, Slot, Claiming
      <3>3. TypeOK'
        BY <2>2, <3>1, <3>2, TypesHold DEF Conduct
      <3> QED
        BY <2>2, <3>1, <3>3, ConductHolds, TableHolds, DeliveryHolds DEF TInv, Sound
    <2> QED
      BY <2>1, <2>2 DEF Next
  <1> QED
    BY <1>1, <1>2, Invariance, PTL DEF Spec

\* TypeOK for tables of any size and any number of threads: no call ever holds
\* or uses an index outside slots or pt_slots.
THEOREM IndicesInBounds == Spec => []TypeOK
  <1>1. TInv => TypeOK
    BY DEF TInv, Sound
  <1> QED
    BY <1>1, TableInvariance, PTL

\* EntryOwnership for any number of threads and of entries: an entry of
\* pt_slots has one owner while it is in use and none otherwise, whatever
\* creations, exits and joins run at once.
THEOREM NoEntrySharedOrLost == Spec => []EntryOwnership
  <1>1. ASSUME TInv, NEW k \in PtSlots
        PROVE  Cardinality(Owners(k)) = IF pt_slots[k].in_use THEN 1 ELSE 0
    <2>0. Sound /\ Tabled /\ TypeOK /\ Born /\ Conducted /\ k # 0
      BY <1>1, Facts, PthreadAssumption DEF TInv, PtSlots
    <2>1. 2 .. born = {t \in Threads : pc[t] # "unborn" /\ t # 1}
      <3>1. 2 .. born = {t \in Threads : ~ (t > born) /\ t # 1}
        <4>1. born \in Nat /\ MaxThreads \in Nat /\ born <= MaxThreads
          BY <2>0, PthreadAssumption DEF TypeOK, Threads
        <4>2. \A t : t \in 2 .. born <=> t \in 1 .. MaxThreads /\ ~ (t > born) /\ t # 1
          BY <4>1
        <4> QED
          BY <4>2 DEF Threads
      <3> QED
        BY <2>0, <3>1 DEF Born
    <2>2. \A x : x \in Owners(k) <=>
            \/ \E t \in Threads : Creates(t) /\ s[t] = k /\ x = << "creation", t >>
            \/ \E t \in Threads : Live(t) /\ meant[t].slot = k /\ x = << "thread", t >>
      <3>1. \A t : t \in 2 .. born /\ meant[t].slot = k <=> t \in Threads /\ pc[t] # "unborn" /\ meant[t].slot = k
        BY <2>0, <2>1 DEF Conducted, Conduct
      <3>2. \A t \in Threads : s[t] = k /\ pc[t] \in Creating <=> Creates(t) /\ s[t] = k
        BY <2>0 DEF Creates
      <3>3. \A t : t \in {u \in 2 .. born :
                        /\ meant[u].slot = k
                        /\ \/ pc[u] # "gone" \/ u \in zombies \cup stillborn
                           \/ \E v \in Threads : pc[v] \in {"joined", "lookup"} /\ target[v] = u}
                   <=> t \in Threads /\ Live(t) /\ meant[t].slot = k
        BY <2>0, <3>1 DEF Live, Reaping
      <3> QED
        BY <3>2, <3>3 DEF Owners
    <2>3. CASE pt_slots[k].in_use
      <3>1. CASE \E t \in Threads : Creates(t) /\ s[t] = k
        <4>1. PICK t \in Threads : Creates(t) /\ s[t] = k
          BY <3>1
        <4>2. Owners(k) = {<< "creation", t >>}
          BY <2>0, <2>2, <4>1 DEF Tabled, CreatorsApart, BothApart
        <4> QED
          BY <2>3, <4>2, FS_Singleton, Zenon
      <3>2. CASE \E t \in Threads : Live(t) /\ meant[t].slot = k
        <4>1. PICK t \in Threads : Live(t) /\ meant[t].slot = k
          BY <3>2
        <4>2. Owners(k) = {<< "thread", t >>}
          BY <2>0, <2>2, <4>1 DEF Tabled, LivesApart, BothApart
        <4> QED
          BY <2>3, <4>2, FS_Singleton, Zenon
      <3> QED
        BY <2>0, <2>3, <3>1, <3>2 DEF Tabled, AllHeld
    <2>4. CASE ~ pt_slots[k].in_use
      <3>1. Owners(k) = {}
        BY <2>0, <2>2, <2>4 DEF Tabled, CreatorsHold, LivesWrite, Writes
      <3> QED
        BY <2>4, <3>1, FS_EmptySet
    <2> QED
      BY <2>3, <2>4
  <1>2. TInv => EntryOwnership
    BY <1>1 DEF EntryOwnership
  <1> QED
    BY <1>2, TableInvariance, PTL

\* JoinDelivers for any number of threads and of entries: however joins, exits
\* and creations interleave and entries are used again, a join yields the
\* value its own target ended with.
THEOREM JoinsDeliver == Spec => []JoinDelivers
  <1>1. TInv => JoinDelivers
    BY DEF TInv
  <1> QED
    BY <1>1, TableInvariance, PTL
=============================================================================
