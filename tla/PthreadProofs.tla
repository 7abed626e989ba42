--------------------------- MODULE PthreadProofs ---------------------------
(***************************************************************************)
(* The start slots of thread.c hand every new thread its own function, for *)
(* any number of threads and of slots, and none is shared or lost.         *)
(***************************************************************************)
EXTENDS Pthread, FiniteSetTheorems, TLAPS

\* A thread that has a start slot reserved for it, and which.
Claiming  == {"fill", "sys", "unslot"}
Starting  == {"read", "free"}
Owning(t) == pc[t] \in Claiming \union Starting
Slot(t)   == IF pc[t] \in Claiming THEN i[t] ELSE entry[t]

\* The types the argument needs; what fn and arg are does not matter to it.
Types ==
  /\ slots_used \subseteq StartSlots
  /\ slots_job = [k \in StartSlots |-> slots_job[k]]
  /\ pc \in [Threads -> Labels]
  /\ born \in Threads
  /\ i \in [Threads -> Nat \ {0}]
  /\ entry \in [Threads -> StartSlots]
  /\ s = [t \in Threads |-> s[t]]
  /\ job = [t \in Threads |-> job[t]]
  /\ meant = [t \in Threads |-> meant[t]]

\* The tids the kernel has given out.
Born ==
  /\ \A t \in Threads : pc[t] = "unborn" <=> t > born
  /\ pc[1] \notin Starting

\* One owner for every slot in use, and one slot for every owner.
Owned ==
  /\ \A t \in Threads : Owning(t) => Slot(t) \in slots_used
  /\ \A t, u \in Threads : Owning(t) /\ Owning(u) /\ Slot(t) = Slot(u) => t = u
  /\ \A k \in slots_used : \E t \in Threads : Owning(t) /\ Slot(t) = k

\* What was meant for a new thread is on its way to it.
Carried ==
  \A t \in Threads :
    /\ pc[t] = "sys" => slots_job[i[t]] = [slot |-> s[t], by |-> t]
    /\ pc[t] = "read" => slots_job[entry[t]] = meant[t]
    /\ t # 1 /\ pc[t] \notin {"unborn", "read"} => job[t] = meant[t]

IInv == Types /\ Born /\ Owned /\ Carried

-----------------------------------------------------------------------------
\* Nobody is heard of before the kernel starts it.
LEMMA BornHolds ==
  ASSUME IInv, NEW t \in Threads, NEW l \in Labels \ {"unborn", "read"},
         pc[t] # "unborn", l = "free" => pc[t] = "read",
         pc' = [pc EXCEPT ![t] = l], born' = born
  PROVE  Born'
  <1>1. \A u \in Threads : pc'[u] = IF u = t THEN l ELSE pc[u]
    BY DEF IInv, Types
  <1>2. 1 \in Threads
    BY PthreadAssumption DEF Threads
  <1> QED
    BY <1>1, <1>2 DEF IInv, Born, Starting

\* A thread that owns no slot before or after its step, and creates nobody.
LEMMA ElsewhereHolds ==
  ASSUME IInv, NEW t \in Threads, NEW l \in Labels \ (Claiming \union Starting \union {"unborn"}),
         pc[t] \notin Claiming \union Starting \union {"unborn"},
         pc' = [pc EXCEPT ![t] = l],
         UNCHANGED << slots_used, slots_job, entry, meant, job, born >>,
         i' \in [Threads -> Nat \ {0}], s' = [u \in Threads |-> s'[u]],
         \A u \in Threads \ {t} : i'[u] = i[u] /\ s'[u] = s[u]
  PROVE  IInv'
  <1>1. \A u \in Threads : pc'[u] = IF u = t THEN l ELSE pc[u]
    BY DEF IInv, Types
  <1>2. Types'
    BY Zenon DEF IInv, Types, Claiming, Starting
  <1>3. \A u \in Threads : /\ Owning(u)' <=> Owning(u)
                           /\ Owning(u) => Slot(u)' = Slot(u)
    BY <1>1 DEF Owning, Slot
  <1>4. Born'
    BY BornHolds, Zenon DEF Starting
  <1>5. Owned'
    BY <1>3 DEF IInv, Owned
  <1>6. Carried'
    <2> SUFFICES ASSUME NEW u \in Threads
                 PROVE  /\ pc'[u] = "sys" => slots_job[i'[u]] = [slot |-> s'[u], by |-> u]
                        /\ pc'[u] = "read" => slots_job[entry[u]] = meant[u]
                        /\ u # 1 /\ pc'[u] \notin {"unborn", "read"} => job[u] = meant[u]
      BY Zenon DEF Carried
    <2>1. CASE u = t
      BY <1>1, <2>1, Zenon DEF IInv, Carried, Claiming, Starting
    <2>2. CASE u # t
      <3>1. pc'[u] = pc[u] /\ i'[u] = i[u] /\ s'[u] = s[u]
        BY <1>1, <2>2
      <3> QED
        BY <3>1 DEF IInv, Carried
    <2> QED
      BY <2>1, <2>2
  <1> QED
    BY <1>2, <1>4, <1>5, <1>6 DEF IInv

\* The compare-exchange of thread_create succeeds: the slot was nobody's.
LEMMA ClaimHolds ==
  ASSUME IInv, NEW t \in Threads, pc[t] = "scan", i[t] <= MAX_THREAD_SLOTS,
         i[t] \notin slots_used, slots_used' = slots_used \cup {i[t]},
         pc' = [pc EXCEPT ![t] = "fill"], UNCHANGED << slots_job, i, s, entry, meant, job, born >>
  PROVE  IInv'
  <1>1. \A u \in Threads : pc'[u] = IF u = t THEN "fill" ELSE pc[u]
    BY DEF IInv, Types
  <1>2. i[t] \in StartSlots
    BY PthreadAssumption DEF IInv, Types, StartSlots
  <1>3. Types'
    BY <1>2 DEF IInv, Types, Labels
  <1>4. Born'
    BY BornHolds, Zenon DEF Labels
  <1>5. \A u \in Threads : u # t => (Owning(u)' <=> Owning(u)) /\ Slot(u)' = Slot(u)
    BY <1>1 DEF Owning, Slot
  <1>6. Owning(t)' /\ Slot(t)' = i[t] /\ ~ Owning(t)
    BY <1>1 DEF Owning, Slot, Claiming, Starting
  <1>7. Owned'
    BY <1>5, <1>6 DEF IInv, Owned
  <1>8. Carried'
    BY <1>1 DEF IInv, Carried
  <1> QED
    BY <1>3, <1>4, <1>7, <1>8 DEF IInv

\* A step of an owner that keeps its slot, and may write what is in it.
LEMMA KeepHolds ==
  ASSUME IInv, NEW t \in Threads, NEW l \in Labels,
         \/ pc[t] = "fill" /\ l = "sys" /\ job' = job
            /\ slots_job' = [slots_job EXCEPT ![i[t]] = [slot |-> s[t], by |-> t]]
         \/ pc[t] = "sys" /\ l = "unslot" /\ UNCHANGED << slots_job, job >>
         \/ pc[t] = "read" /\ l = "free" /\ slots_job' = slots_job
            /\ job' = [job EXCEPT ![t] = slots_job[entry[t]]],
         pc' = [pc EXCEPT ![t] = l], UNCHANGED << slots_used, i, s, entry, meant, born >>
  PROVE  IInv'
  <1>1. \A u \in Threads : pc'[u] = IF u = t THEN l ELSE pc[u]
    BY DEF IInv, Types
  <1>2. Types'
    BY DEF IInv, Types
  <1>3. Born'
    BY BornHolds, Zenon
  <1>4. \A u \in Threads : (Owning(u)' <=> Owning(u)) /\ Slot(u)' = Slot(u)
    BY <1>1 DEF Owning, Slot, Claiming, Starting
  <1>5. Owned'
    BY <1>4 DEF IInv, Owned
  <1>6. Carried'
    <2>1. CASE pc[t] = "fill"
      <3>1. \A u \in Threads : u # t /\ Owning(u) => Slot(u) # i[t] /\ Slot(u) \in StartSlots
        BY <2>1 DEF IInv, Types, Owned, Owning, Slot, Claiming
      <3>2. \A u \in Threads : u # t /\ Owning(u) => slots_job'[Slot(u)] = slots_job[Slot(u)]
        BY <2>1, <3>1 DEF IInv, Types
      <3>3. i[t] \in StartSlots
        BY <2>1 DEF IInv, Types, Owned, Owning, Slot, Claiming
      <3>4. slots_job'[i[t]] = [slot |-> s[t], by |-> t]
        BY <2>1, <3>3 DEF IInv, Types
      <3> QED
        <4>1. \A u \in Threads : u # t /\ pc[u] = "sys" => slots_job'[i[u]] = slots_job[i[u]]
          BY <3>2 DEF Owning, Slot, Claiming
        <4>2. \A u \in Threads : u # t /\ pc[u] = "read" => slots_job'[entry[u]] = slots_job[entry[u]]
          BY <3>2 DEF Owning, Slot, Claiming, Starting
        <4>3. pc'[t] = "sys" /\ job' = job
          BY <1>1, <2>1
        <4> QED
          BY <1>1, <2>1, <3>4, <4>1, <4>2, <4>3 DEF IInv, Carried
    <2>2. CASE pc[t] = "sys"
      BY <1>1, <2>2 DEF IInv, Carried
    <2>3. CASE pc[t] = "read"
      BY <1>1, <2>3 DEF IInv, Types, Carried
    <2> QED
      BY <2>1, <2>2, <2>3
  <1> QED
    BY <1>2, <1>3, <1>5, <1>6 DEF IInv

\* An owner frees its slot.
LEMMA FreeHolds ==
  ASSUME IInv, NEW t \in Threads, NEW l \in Labels \ (Claiming \union Starting \union {"unborn"}),
         pc[t] \in {"unslot", "free"}, slots_used' = slots_used \ {Slot(t)},
         pc' = [pc EXCEPT ![t] = l], UNCHANGED << slots_job, entry, meant, job, born >>,
         i' \in [Threads -> Nat \ {0}], s' = [u \in Threads |-> s'[u]],
         \A u \in Threads \ {t} : i'[u] = i[u] /\ s'[u] = s[u]
  PROVE  IInv'
  <1>1. \A u \in Threads : pc'[u] = IF u = t THEN l ELSE pc[u]
    BY DEF IInv, Types
  <1>2. Types'
    BY Zenon DEF IInv, Types
  <1>3. Born'
    BY BornHolds, Zenon DEF Starting
  <1>4. \A u \in Threads : u # t => (Owning(u)' <=> Owning(u)) /\ Slot(u)' = Slot(u)
    BY <1>1 DEF Owning, Slot
  <1>5. ~ Owning(t)' /\ Owning(t)
    BY <1>1 DEF Owning, Claiming, Starting
  <1>6. Owned'
    BY <1>4, <1>5 DEF IInv, Owned
  <1>7. Carried'
    <2> SUFFICES ASSUME NEW u \in Threads
                 PROVE  /\ pc'[u] = "sys" => slots_job[i'[u]] = [slot |-> s'[u], by |-> u]
                        /\ pc'[u] = "read" => slots_job[entry[u]] = meant[u]
                        /\ u # 1 /\ pc'[u] \notin {"unborn", "read"} => job[u] = meant[u]
      BY Zenon DEF Carried
    <2>1. CASE u = t
      BY <1>1, <2>1, Zenon DEF IInv, Carried, Claiming, Starting
    <2>2. CASE u # t
      <3>1. pc'[u] = pc[u] /\ i'[u] = i[u] /\ s'[u] = s[u]
        BY <1>1, <2>2
      <3> QED
        BY <3>1 DEF IInv, Carried
    <2> QED
      BY <2>1, <2>2
  <1> QED
    BY <1>2, <1>3, <1>6, <1>7 DEF IInv

\* The kernel starts a thread, and its creator's slot becomes the thread's.
LEMMA SysCreateHolds ==
  ASSUME IInv, NEW t \in Threads, SysCreate(t) PROVE IInv'
  <1>0. PICK n \in Threads : n = born + 1
    <2>1. born < MaxThreads
      BY DEF SysCreate
    <2>2. born + 1 \in Threads
      BY <2>1, PthreadAssumption DEF IInv, Types, Threads
    <2> QED
      BY <2>2
  <1>1. pc[n] = "unborn" /\ n # t /\ n # 1 /\ pc[t] = "sys"
    BY <1>0 DEF IInv, Types, Born, Threads, SysCreate
  <1>2. /\ pc' = [pc EXCEPT ![t] = "run", ![n] = "read"] /\ born' = n
        /\ entry' = [entry EXCEPT ![n] = i[t]]
        /\ meant' = [meant EXCEPT ![n] = [slot |-> s[t], by |-> t]]
        /\ i' = [i EXCEPT ![t] = 1] /\ s' = [s EXCEPT ![t] = 0]
        /\ UNCHANGED << slots_used, slots_job, job >>
    BY <1>0 DEF SysCreate, slots
  <1>3. \A u \in Threads : pc'[u] = IF u = t THEN "run" ELSE IF u = n THEN "read" ELSE pc[u]
    BY <1>1, <1>2 DEF IInv, Types
  <1>4. Owning(t) /\ Slot(t) = i[t] /\ i[t] \in StartSlots /\ ~ Owning(n)
    BY <1>1 DEF IInv, Types, Owned, Owning, Slot, Claiming, Starting
  <1>5. Types'
    <2>1. pc' \in [Threads -> Labels]
      BY <1>2 DEF IInv, Types, Labels
    <2>2. entry' \in [Threads -> StartSlots] /\ i' \in [Threads -> Nat \ {0}]
      BY <1>2, <1>4 DEF IInv, Types
    <2>3. /\ s' = [u \in Threads |-> s'[u]] /\ meant' = [u \in Threads |-> meant'[u]]
          /\ job' = [u \in Threads |-> job'[u]]
      BY <1>2, Zenon DEF IInv, Types
    <2> QED
      BY <1>2, <2>1, <2>2, <2>3 DEF IInv, Types
  <1>6. Born'
    <2>1. \A u \in Threads : u > n <=> u > born /\ u # n
      BY <1>0 DEF IInv, Types, Threads
    <2>2. 1 \in Threads
      BY PthreadAssumption DEF Threads
    <2> QED
      BY <1>0, <1>1, <1>2, <1>3, <2>1, <2>2, Zenon DEF IInv, Types, Born, Starting, Threads
  <1>7. /\ \A u \in Threads \ {t, n} : (Owning(u)' <=> Owning(u)) /\ Slot(u)' = Slot(u)
        /\ ~ Owning(t)' /\ Owning(n)' /\ Slot(n)' = Slot(t)
    <2>1. \A u \in Threads : /\ u # t => i'[u] = i[u]
                             /\ entry'[u] = IF u = n THEN i[t] ELSE entry[u]
      BY <1>2 DEF IInv, Types
    <2> QED
      BY <1>1, <1>3, <1>4, <2>1 DEF Owning, Slot, Claiming, Starting
  <1>8. Owned'
    BY <1>1, <1>2, <1>4, <1>7 DEF IInv, Owned
  <1>9. Carried'
    <2> SUFFICES ASSUME NEW u \in Threads
                 PROVE  /\ pc'[u] = "sys" => slots_job[i'[u]] = [slot |-> s'[u], by |-> u]
                        /\ pc'[u] = "read" => slots_job[entry'[u]] = meant'[u]
                        /\ u # 1 /\ pc'[u] \notin {"unborn", "read"} => job[u] = meant'[u]
      BY <1>2, Zenon DEF Carried
    <2>1. CASE u = t
      <3>1. pc'[u] = "run" /\ meant'[u] = meant[u]
        BY <1>1, <1>2, <1>3, <2>1 DEF IInv, Types
      <3> QED
        BY <1>1, <2>1, <3>1, Zenon DEF IInv, Carried
    <2>2. CASE u = n
      <3>1. pc'[u] = "read" /\ entry'[u] = i[t] /\ meant'[u] = [slot |-> s[t], by |-> t]
        BY <1>1, <1>2, <1>3, <2>2 DEF IInv, Types
      <3> QED
        BY <1>1, <3>1 DEF IInv, Carried
    <2>3. CASE u \notin {t, n}
      <3>1. /\ pc'[u] = pc[u] /\ i'[u] = i[u] /\ s'[u] = s[u]
            /\ entry'[u] = entry[u] /\ meant'[u] = meant[u]
        BY <1>2, <1>3, <2>3 DEF IInv, Types
      <3> QED
        BY <3>1 DEF IInv, Carried
    <2> QED
      BY <2>1, <2>2, <2>3
  <1> QED
    BY <1>5, <1>6, <1>8, <1>9 DEF IInv

-----------------------------------------------------------------------------
\* An updated function is one, and the same elsewhere.
LEMMA UpdateHolds ==
  ASSUME NEW S, NEW f, f = [x \in S |-> f[x]], NEW a \in S, NEW v,
         NEW g, g = [f EXCEPT ![a] = v]
  PROVE  g = [x \in S |-> g[x]] /\ \A x \in S \ {a} : g[x] = f[x]
  OBVIOUS

\* What the ends of thread_create do to its caller.
LEMMA BackMoves ==
  ASSUME IInv, NEW t \in Threads, Back(t) \/ CreateFails(t)
  PROVE  /\ \E l \in {"run", "failed"} : pc' = [pc EXCEPT ![t] = l]
         /\ i' \in [Threads -> Nat \ {0}] /\ s' = [u \in Threads |-> s'[u]]
         /\ \A u \in Threads \ {t} : i'[u] = i[u] /\ s'[u] = s[u]
  BY DEF IInv, Types, Back, CreateFails, Goto

\* The program's calls.
LEMMA CallHolds ==
  ASSUME IInv, NEW t \in Threads, Call(t) PROVE IInv'
  <1>1. /\ pc[t] = "run" /\ \E l \in {"pick", "scan", "exit", "finish", "find", "join"} :
                              pc' = [pc EXCEPT ![t] = l]
        /\ UNCHANGED << slots_used, slots_job, entry, meant, job, born >>
    BY DEF Call, LockPt, ThreadCreate, Return, Join, Goto, slots, kernel, locals, history
  <1>2. /\ i' \in [Threads -> Nat \ {0}] /\ s' = [u \in Threads |-> s'[u]]
        /\ \A u \in Threads \ {t} : i'[u] = i[u] /\ s'[u] = s[u]
    BY DEF IInv, Types, Call, LockPt, ThreadCreate, Return, Join, locals
  <1>3. PICK l \in {"pick", "scan", "exit", "finish", "find", "join"} :
             pc' = [pc EXCEPT ![t] = l]
    BY <1>1, Zenon
  <1>4. /\ l \in Labels \ (Claiming \union Starting \union {"unborn"})
        /\ pc[t] \notin Claiming \union Starting \union {"unborn"}
    BY <1>1 DEF Labels, Claiming, Starting
  <1> QED
    BY <1>1, <1>2, <1>3, <1>4, ElsewhereHolds, Zenon

\* The steps inside a call that keep away from the start slots.
LEMMA QuietHolds ==
  ASSUME IInv, NEW t \in Threads,
         \/ CreatePick(t) \/ LockPt(t, "failed", "unpick") \/ Unpick(t)
         \/ SetupTls(t) \/ StoreTid(t) \/ Finish(t) \/ Exit(t) \/ ExitFind(t)
         \/ JoinWaits(t) \/ LockPt(t, "joined", "lookup") \/ JoinLookup(t)
  PROVE  IInv'
  <1>1. /\ pc[t] \in {"pick", "failed", "unpick", "tls", "tid", "finish", "exit", "find",
                      "join", "joined", "lookup"}
        /\ \E l \in {"run", "scan", "unpick", "tid", "exit", "gone", "joined", "lookup"} :
             pc' = [pc EXCEPT ![t] = l]
        /\ UNCHANGED << slots_used, slots_job, entry, meant, job, born >>
    BY DEF CreatePick, LockPt, Unpick, Back, SetupTls, StoreTid, Finish, Exit, ExitFind,
           JoinWaits, JoinLookup, Goto, slots, kernel, locals, history
  <1>2. /\ i' \in [Threads -> Nat \ {0}] /\ s' = [u \in Threads |-> s'[u]]
        /\ \A u \in Threads \ {t} : i'[u] = i[u] /\ s'[u] = s[u]
    <2>1. \/ UNCHANGED << i, s >>
          \/ i' = [i EXCEPT ![t] = 1] /\ \E k : s' = [s EXCEPT ![t] = k]
      BY DEF CreatePick, LockPt, Unpick, Back, SetupTls, StoreTid, Finish, Exit,
             ExitFind, JoinWaits, JoinLookup, locals
    <2>2. CASE UNCHANGED << i, s >>
      BY <2>2 DEF IInv, Types
    <2>3. ASSUME i' = [i EXCEPT ![t] = 1], NEW k, s' = [s EXCEPT ![t] = k]
          PROVE  /\ i' \in [Threads -> Nat \ {0}] /\ s' = [u \in Threads |-> s'[u]]
                 /\ \A u \in Threads \ {t} : i'[u] = i[u] /\ s'[u] = s[u]
      <3>1. i' \in [Threads -> Nat \ {0}] /\ \A u \in Threads \ {t} : i'[u] = i[u]
        BY <2>3 DEF IInv, Types
      <3>2. s = [u \in Threads |-> s[u]]
        BY DEF IInv, Types
      <3> QED
        BY <2>3, <3>1, <3>2, UpdateHolds
    <2> QED
      BY <2>1, <2>2, <2>3
  <1>3. PICK l \in {"run", "scan", "unpick", "tid", "exit", "gone", "joined", "lookup"} :
             pc' = [pc EXCEPT ![t] = l]
    BY <1>1, Zenon
  <1>4. /\ l \in Labels \ (Claiming \union Starting \union {"unborn"})
        /\ pc[t] \notin Claiming \union Starting \union {"unborn"}
    BY <1>1 DEF Labels, Claiming, Starting
  <1> QED
    BY <1>1, <1>2, <1>3, <1>4, ElsewhereHolds, Zenon

\* The scan goes on, claims a slot, or gives up at the end of the table.
LEMMA ScanHolds ==
  ASSUME IInv, NEW t \in Threads, Scan(t) PROVE IInv'
  <1>1. pc[t] = "scan" /\ UNCHANGED << entry, meant, job, born >>
    BY DEF Scan, kernel, history
  <1>2. CASE CreateFails(t) /\ UNCHANGED slots
    <2>1. PICK l \in {"run", "failed"} : pc' = [pc EXCEPT ![t] = l]
      BY <1>2, BackMoves
    <2>2. /\ i' \in [Threads -> Nat \ {0}] /\ s' = [u \in Threads |-> s'[u]]
          /\ \A u \in Threads \ {t} : i'[u] = i[u] /\ s'[u] = s[u]
      BY <1>2, BackMoves
    <2>3. /\ l \in Labels \ (Claiming \union Starting \union {"unborn"})
          /\ pc[t] \notin Claiming \union Starting \union {"unborn"}
      BY <1>1 DEF Labels, Claiming, Starting
    <2>4. UNCHANGED << slots_used, slots_job >>
      BY <1>2 DEF slots
    <2> QED
      BY <1>1, <2>1, <2>2, <2>3, <2>4, ElsewhereHolds, Zenon
  <1>3. CASE i' = [i EXCEPT ![t] = @ + 1] /\ UNCHANGED << slots, pc, s >>
    <2>1. pc' = [pc EXCEPT ![t] = "scan"]
      BY <1>1, <1>3 DEF IInv, Types
    <2>2. i' \in [Threads -> Nat \ {0}] /\ \A u \in Threads \ {t} : i'[u] = i[u]
      BY <1>3 DEF IInv, Types
    <2>3. s' = [u \in Threads |-> s'[u]]
      BY <1>3 DEF IInv, Types
    <2>4. /\ "scan" \in Labels \ (Claiming \union Starting \union {"unborn"})
          /\ pc[t] \notin Claiming \union Starting \union {"unborn"}
      BY <1>1 DEF Labels, Claiming, Starting
    <2>5. UNCHANGED << slots_used, slots_job, s >>
      BY <1>3 DEF slots
    <2> QED
      BY <1>1, <2>1, <2>2, <2>3, <2>4, <2>5, ElsewhereHolds, Zenon
  <1>4. CASE /\ i[t] <= MAX_THREAD_SLOTS /\ i[t] \notin slots_used
             /\ slots_used' = slots_used \cup {i[t]} /\ UNCHANGED slots_job
             /\ Goto(t, "fill") /\ UNCHANGED << i, s >>
    BY <1>1, <1>4, ClaimHolds, Zenon DEF Goto
  <1> QED
    BY <1>2, <1>3, <1>4 DEF Scan

\* The steps that end the reservation of a slot.
LEMMA EndHolds ==
  ASSUME IInv, NEW t \in Threads, Unslot(t) \/ FreeStart(t) PROVE IInv'
  <1>1. CASE Unslot(t)
    <2>1. /\ pc[t] = "unslot" /\ slots_used' = slots_used \ {i[t]} /\ CreateFails(t)
          /\ UNCHANGED << slots_job, entry, meant, job, born >>
      BY <1>1 DEF Unslot, kernel, history
    <2>2. Slot(t) = i[t]
      BY <2>1 DEF Slot, Claiming
    <2> QED
      <3>1. PICK l \in {"run", "failed"} : pc' = [pc EXCEPT ![t] = l]
        BY <2>1, BackMoves
      <3>2. /\ i' \in [Threads -> Nat \ {0}] /\ s' = [u \in Threads |-> s'[u]]
            /\ \A u \in Threads \ {t} : i'[u] = i[u] /\ s'[u] = s[u]
        BY <2>1, BackMoves
      <3>3. l \in Labels \ (Claiming \union Starting \union {"unborn"})
        BY DEF Labels, Claiming, Starting
      <3> QED
        BY <2>1, <2>2, <3>1, <3>2, <3>3, FreeHolds, Zenon
  <1>2. CASE FreeStart(t)
    <2>1. /\ pc[t] = "free" /\ slots_used' = slots_used \ {entry[t]}
          /\ pc' = [pc EXCEPT ![t] = "tls"]
          /\ UNCHANGED << slots_job, entry, meant, job, born, i, s >>
      BY <1>2 DEF FreeStart, Goto, kernel, locals, history
    <2>2. Slot(t) = entry[t]
      BY <2>1 DEF Slot, Claiming
    <2>3. i' \in [Threads -> Nat \ {0}] /\ s' = [u \in Threads |-> s'[u]]
      BY <2>1 DEF IInv, Types
    <2> QED
      <3>1. "tls" \in Labels \ (Claiming \union Starting \union {"unborn"})
        BY DEF Labels, Claiming, Starting
      <3> QED
        BY <2>1, <2>2, <2>3, <3>1, FreeHolds, Zenon
  <1> QED
    BY <1>1, <1>2

-----------------------------------------------------------------------------
\* It holds at first.
LEMMA InitHolds == ASSUME Init PROVE IInv
  <1>1. \A t \in Threads : pc[t] = IF t = 1 THEN "run" ELSE "unborn"
    BY DEF Init
  <1>2. Types
    BY PthreadAssumption DEF Init, Types, Threads, StartSlots, Labels
  <1>3. Born
    BY <1>1, PthreadAssumption DEF Init, Born, Threads, Starting
  <1>4. Owned
    BY <1>1 DEF Init, Owned, Owning, Claiming, Starting
  <1>5. Carried
    BY <1>1 DEF Carried
  <1> QED
    BY <1>2, <1>3, <1>4, <1>5 DEF IInv

\* The invariant holds in every state.
LEMMA Invariance == Spec => []IInv
  <1>1. Init => IInv
    BY InitHolds
  <1>2. IInv /\ [Next]_vars => IInv'
    <2> SUFFICES ASSUME IInv, [Next]_vars PROVE IInv'
      OBVIOUS
    <2>1. CASE UNCHANGED vars
      <3>1. UNCHANGED << slots_used, slots_job, pc, born, i, entry, s, job, meant >>
        BY <2>1 DEF vars, slots, kernel, locals, history
      <3>2. Types'
        BY <3>1 DEF IInv, Types
      <3>3. Born'
        BY <3>1 DEF IInv, Born
      <3>4. Owned'
        <4>1. \A t \in Threads : (Owning(t)' <=> Owning(t)) /\ Slot(t)' = Slot(t)
          BY <3>1 DEF Owning, Slot
        <4> QED
          BY <3>1, <4>1 DEF IInv, Owned
      <3>5. Carried'
        BY <3>1 DEF IInv, Carried
      <3> QED
        BY <3>2, <3>3, <3>4, <3>5 DEF IInv
    <2>2. ASSUME NEW t \in Threads, Call(t) PROVE IInv'
      BY <2>2, CallHolds
    <2>3. ASSUME NEW t \in Threads, Step(t) PROVE IInv'
      <3>1. CASE Fill(t) \/ SysCreateFails(t) \/ ReadStart(t)
        <4>1. UNCHANGED << slots_used, i, s, entry, meant, born >>
          BY <3>1 DEF Fill, SysCreateFails, ReadStart, slots, kernel, locals, history
        <4> QED
          BY <3>1, <4>1, KeepHolds
          DEF Fill, SysCreateFails, ReadStart, Goto, Labels, slots, locals
      <3>2. CASE SysCreate(t)
        BY <3>2, SysCreateHolds
      <3>3. CASE Scan(t)
        BY <3>3, ScanHolds
      <3>4. CASE Unslot(t) \/ FreeStart(t)
        BY <3>4, EndHolds
      <3> QED
        BY <2>3, <3>1, <3>2, <3>3, <3>4, QuietHolds DEF Step
    <2> QED
      BY <2>1, <2>2, <2>3 DEF Next
  <1> QED
    BY <1>1, <1>2, PTL DEF Spec

\* StartsOwnRoutine for any number of threads and of start slots: whatever
\* creations run at once, each new thread runs what its own creator passed to
\* thread_create.
THEOREM EachRunsItsOwn == Spec => []StartsOwnRoutine
  <1>1. IInv => StartsOwnRoutine
    <2>1. IInv => \A t \in 2 .. born : t \in Threads /\ t # 1 /\ pc[t] # "unborn"
      BY PthreadAssumption DEF IInv, Types, Born, Threads
    <2> QED
      BY <2>1, Zenon DEF IInv, Carried, StartsOwnRoutine
  <1> QED
    BY <1>1, Invariance, PTL

\* StartSlotOwnership for any number of threads and of start slots: a slot has
\* one owner while it is in use, and no way through thread_create and the
\* trampoline leaves one in use with no owner.
THEOREM NoSlotSharedOrLost == Spec => []StartSlotOwnership
  <1>1. ASSUME IInv, NEW k \in StartSlots
        PROVE  Cardinality(StartOwners(k)) = IF k \in slots_used THEN 1 ELSE 0
    <2>1. \A t \in Threads : pc[t] \in Starting => t \in 2 .. born
      BY <1>1 DEF IInv, Types, Born, Threads, Starting
    <2>2. 2 .. born \subseteq Threads
      BY <1>1, PthreadAssumption DEF IInv, Types, Threads
    <2>3. \A x : x \in StartOwners(k) <=>
            \E t \in Threads : /\ Owning(t) /\ Slot(t) = k
                               /\ x = << IF pc[t] \in Claiming THEN "creation" ELSE "thread", t >>
      BY <2>1, <2>2 DEF StartOwners, Owning, Slot, Claiming, Starting
    <2>4. CASE k \in slots_used
      <3>1. PICK t \in Threads : Owning(t) /\ Slot(t) = k
        BY <1>1, <2>4 DEF IInv, Owned
      <3>2. \A u \in Threads : Owning(u) /\ Slot(u) = k => u = t
        BY <1>1, <3>1 DEF IInv, Owned
      <3>3. StartOwners(k) = {<< IF pc[t] \in Claiming THEN "creation" ELSE "thread", t >>}
        BY <2>3, <3>1, <3>2
      <3> QED
        BY <2>4, <3>3, FS_Singleton, Zenon
    <2>5. CASE k \notin slots_used
      <3>1. StartOwners(k) = {}
        BY <1>1, <2>3, <2>5 DEF IInv, Owned
      <3> QED
        BY <2>5, <3>1, FS_EmptySet
    <2> QED
      BY <2>4, <2>5
  <1>2. IInv => StartSlotOwnership
    BY <1>1 DEF StartSlotOwnership
  <1> QED
    BY <1>2, Invariance, PTL
=============================================================================
