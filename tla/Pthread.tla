------------------------------ MODULE Pthread ------------------------------
(***************************************************************************)
(* Threads: thread_create and its trampoline (src/src/thread.c) under      *)
(* pthread_create, pthread_join and pthread_exit (src/src/pthread.c).      *)
(* thread.c hands fn and arg to the new thread through a table of start    *)
(* slots claimed with a compare-exchange; pthread.c keeps the return value *)
(* in a second table, guarded by the mutex pt_lock, which is taken here as *)
(* the abstract lock that Mutex implements.                                *)
(*                                                                         *)
(*   pc        the thread is                                               *)
(*   "unborn"  a tid the kernel has not given out yet                      *)
(*   "run"     in the program                                              *)
(*   "pick"    in pthread_create, holding pt_lock        pthread.c 209-220 *)
(*   "scan"    in thread_create, looking for a slot      thread.c 58-66    *)
(*   "fill"    about to write fn and arg to it           thread.c 67-68    *)
(*   "sys"     about to make the system call             thread.c 70       *)
(*   "unslot"  about to free the slot after a failure    thread.c 72       *)
(*   "failed"  back in pthread_create, before the lock   pthread.c 225     *)
(*   "unpick"  there, holding pt_lock                    pthread.c 226-227 *)
(*   "read"    new: about to copy fn and arg             thread.c 34-35    *)
(*   "free"    new: about to free the start slot         thread.c 38       *)
(*   "tls"     new: in __tls_setup_self                  thread.c 46       *)
(*   "tid"     new: about to store its tid               pthread.c 196     *)
(*   "finish"  about to store finished                   pthread.c 199     *)
(*   "find"    in pthread_exit, holding pt_lock          pthread.c 259-264 *)
(*   "exit"    about to leave for good                   thread.c 49, 77   *)
(*   "join"    in the system call of thread_join         pthread.c 238     *)
(*   "joined"  in pthread_join, before the lock          pthread.c 241     *)
(*   "lookup"  there, holding pt_lock                    pthread.c 242-252 *)
(*   "gone"    exited                                                      *)
(*                                                                         *)
(* Under pt_lock the code between lock and unlock is one step: what other  *)
(* threads write without the lock meanwhile is their own tid, retval and   *)
(* finished, and nobody looks for the tid of a thread that has yet to      *)
(* write it.  A thread of pthread_create ends by returning or through      *)
(* pthread_exit, with a value of its own, here its tid; 0 is the null      *)
(* pointer.                                                                *)
(***************************************************************************)
EXTENDS Naturals, FiniteSets

CONSTANTS
  PTHREAD_MAX,        \* entries of pt_slots (16)
  MAX_THREAD_SLOTS,   \* entries of slots (1024)
  MaxThreads          \* bound: tids the kernel gives out, never the same twice

ASSUME PthreadAssumption ==
  /\ PTHREAD_MAX \in Nat \ {0}
  /\ MAX_THREAD_SLOTS \in Nat \ {0}
  /\ MaxThreads \in Nat \ {0}

Threads    == 1 .. MaxThreads       \* 1 is the main thread
PtSlots    == 1 .. PTHREAD_MAX
StartSlots == 1 .. MAX_THREAD_SLOTS

VARIABLES
  slots_used, \* thread.c: the start slots whose in_use is set
  slots_job,  \* thread.c: what fn and arg of each start slot stand for
  pt_slots,   \* pthread.c: in_use, tid, finished, retval
  holders,    \* who holds pt_lock
  born,       \* kernel: the tids 1 .. born exist or have existed
  zombies,    \* kernel: exited and not yet joined
  entry,      \* kernel: the start slot passed to each new thread
  pc,         \* see above
  i,          \* the local i of thread_create, then the slot it took
  s,          \* the local s of pthread_create, 0 under a bare thread_create
  target,     \* the argument of pthread_join
  job,        \* what the thread found to run
  meant,      \* history: what its creator wanted it to run
  stillborn,  \* history: the threads that got no TLS
  delivered   \* history: <<tid, value>> for every join that returned 0

kernel  == <<born, zombies, entry>>
locals  == <<i, s, target, job>>
history == <<meant, stillborn, delivered>>
slots   == <<slots_used, slots_job>>
vars    == <<slots, pt_slots, holders, kernel, pc, locals, history>>

Labels == {"unborn", "run", "pick", "scan", "fill", "sys", "unslot", "failed", "unpick",
           "read", "free", "tls", "tid", "finish", "find", "exit", "join",
           "joined", "lookup", "gone"}

\* What fn and arg name: pthread_trampoline with an entry of pt_slots, or, with
\* slot 0, a function of the program's; and whose idea it was.
Jobs  == [slot : 0 .. PTHREAD_MAX, by : Threads]
NoJob == [slot |-> 0, by |-> 1]

PtLock == INSTANCE AbstractLock

Init ==
  /\ slots_used = {}
  /\ slots_job = [k \in StartSlots |-> NoJob]
  /\ pt_slots = [k \in PtSlots |-> [in_use |-> FALSE, tid |-> 0, finished |-> FALSE, retval |-> 0]]
  /\ PtLock!Init
  /\ born = 1
  /\ zombies = {}
  /\ entry = [t \in Threads |-> 1]
  /\ pc = [t \in Threads |-> IF t = 1 THEN "run" ELSE "unborn"]
  /\ i = [t \in Threads |-> 1]
  /\ s = [t \in Threads |-> 0]
  /\ target = [t \in Threads |-> 1]
  /\ job = [t \in Threads |-> NoJob]
  /\ meant = [t \in Threads |-> NoJob]
  /\ stillborn = {}
  /\ delivered = {}

Goto(t, label) == pc' = [pc EXCEPT ![t] = label]

\* What a scan from 0 upwards comes to first.
First(set) == CHOOSE k \in set : \A l \in set : k <= l

\* thread_create, or the pthread_create around it, returns: the locals are dead.
Back(t) ==
  /\ Goto(t, "run")
  /\ i' = [i EXCEPT ![t] = 1]
  /\ s' = [s EXCEPT ![t] = 0]

\* thread_create returns an error, to the program or to pthread_create.
CreateFails(t) ==
  IF s[t] = 0 THEN Back(t) ELSE Goto(t, "failed") /\ UNCHANGED <<i, s>>

\* pthread_mutex_lock(&pt_lock) on the way from one label to another.
LockPt(t, from, to) ==
  /\ pc[t] = from
  /\ PtLock!Take(t)
  /\ Goto(t, to)
  /\ UNCHANGED <<slots, pt_slots, kernel, locals, history>>

-----------------------------------------------------------------------------
(* Variants of the operations below with a plausible slip each; the        *)
(* properties must tell them from the code.                                *)

\* A slot whose thread has finished is taken for free before it is joined.
PickFinished(t) ==
  /\ pc[t] = "pick"
  /\ LET free == {k \in PtSlots : ~ pt_slots[k].in_use \/ pt_slots[k].finished}
     IN  IF free = {}
           THEN Goto(t, "run") /\ UNCHANGED <<pt_slots, i, s>>
           ELSE /\ pt_slots' = [pt_slots EXCEPT ![First(free)] =
                                  [in_use |-> TRUE, tid |-> 0, finished |-> FALSE, retval |-> 0]]
                /\ s' = [s EXCEPT ![t] = First(free)]
                /\ i' = [i EXCEPT ![t] = 1]
                /\ Goto(t, "scan")
  /\ PtLock!Give(t)
  /\ UNCHANGED <<slots, kernel, target, job, history>>

\* The slot is tested but not marked as taken.
ScanUnclaimed(t) ==
  /\ pc[t] = "scan"
  /\ \/ /\ i[t] > MAX_THREAD_SLOTS
        /\ CreateFails(t)
     \/ /\ i[t] <= MAX_THREAD_SLOTS
        /\ IF i[t] \in slots_used
             THEN i' = [i EXCEPT ![t] = @ + 1] /\ UNCHANGED pc
             ELSE Goto(t, "fill") /\ UNCHANGED i
        /\ UNCHANGED s
  /\ UNCHANGED <<slots, pt_slots, holders, kernel, target, job, history>>

\* The scan does not stop at the end of the table.
ScanPastTheEnd(t) ==
  /\ pc[t] = "scan"
  /\ IF i[t] > MAX_THREAD_SLOTS \/ i[t] \in slots_used
       THEN i' = [i EXCEPT ![t] = @ + 1] /\ UNCHANGED <<slots, pc>>
       ELSE /\ slots_used' = slots_used \cup {i[t]} /\ UNCHANGED slots_job
            /\ Goto(t, "fill")
            /\ UNCHANGED i
  /\ UNCHANGED <<pt_slots, holders, kernel, s, target, job, history>>

\* A failed system call leaves the start slot taken.
SysCreateLeaks(t) ==
  /\ pc[t] = "sys"
  /\ CreateFails(t)
  /\ UNCHANGED <<slots, pt_slots, holders, kernel, target, job, history>>

\* pthread_create gives up without freeing its entry of pt_slots.
UnpickForgotten(t) ==
  /\ pc[t] = "unpick"
  /\ PtLock!Give(t)
  /\ Back(t)
  /\ UNCHANGED <<slots, pt_slots, kernel, target, job, history>>

-----------------------------------------------------------------------------
(* pthread_create and thread_create, in the creating thread.               *)

\* The first entry that is not in use is reset and taken; -EAGAIN if none is.
CreatePick(t) ==
  /\ pc[t] = "pick"
  /\ LET free == {k \in PtSlots : ~ pt_slots[k].in_use}
     IN  IF free = {}
           THEN Goto(t, "run") /\ UNCHANGED <<pt_slots, i, s>>
           ELSE /\ pt_slots' = [pt_slots EXCEPT ![First(free)] =
                                  [in_use |-> TRUE, tid |-> 0, finished |-> FALSE, retval |-> 0]]
                /\ s' = [s EXCEPT ![t] = First(free)]
                /\ i' = [i EXCEPT ![t] = 1]
                /\ Goto(t, "scan")
  /\ PtLock!Give(t)
  /\ UNCHANGED <<slots, kernel, target, job, history>>

\* The program calls thread_create itself.
ThreadCreate(t) ==
  /\ pc[t] = "run"
  /\ s' = [s EXCEPT ![t] = 0]
  /\ i' = [i EXCEPT ![t] = 1]
  /\ Goto(t, "scan")
  /\ UNCHANGED <<slots, pt_slots, holders, kernel, target, job, history>>

\* One compare-exchange of the scan; -EAGAIN at the end of the table.
Scan(t) ==
  /\ pc[t] = "scan"
  /\ \/ /\ i[t] > MAX_THREAD_SLOTS
        /\ CreateFails(t)
        /\ UNCHANGED slots
     \/ /\ i[t] <= MAX_THREAD_SLOTS
        /\ IF i[t] \in slots_used
             THEN i' = [i EXCEPT ![t] = @ + 1] /\ UNCHANGED <<slots, pc>>
             ELSE /\ slots_used' = slots_used \cup {i[t]} /\ UNCHANGED slots_job
                  /\ Goto(t, "fill")
                  /\ UNCHANGED i
        /\ UNCHANGED s
  /\ UNCHANGED <<pt_slots, holders, kernel, target, job, history>>

Fill(t) ==
  /\ pc[t] = "fill"
  /\ slots_job' = [slots_job EXCEPT ![i[t]] = [slot |-> s[t], by |-> t]]
  /\ UNCHANGED slots_used
  /\ Goto(t, "sys")
  /\ UNCHANGED <<pt_slots, holders, kernel, locals, history>>

\* The kernel starts the trampoline on a new thread, and the tid is returned.
SysCreate(t) ==
  /\ pc[t] = "sys"
  /\ born < MaxThreads
  /\ born' = born + 1
  /\ entry' = [entry EXCEPT ![born + 1] = i[t]]
  /\ pc' = [pc EXCEPT ![t] = "run", ![born + 1] = "read"]
  /\ i' = [i EXCEPT ![t] = 1]
  /\ s' = [s EXCEPT ![t] = 0]
  /\ meant' = [meant EXCEPT ![born + 1] = [slot |-> s[t], by |-> t]]
  /\ UNCHANGED <<slots, pt_slots, holders, zombies, target, job, stillborn, delivered>>

\* The kernel refuses; the start slot is freed next.
SysCreateFails(t) ==
  /\ pc[t] = "sys"
  /\ Goto(t, "unslot")
  /\ UNCHANGED <<slots, pt_slots, holders, kernel, locals, history>>

Unslot(t) ==
  /\ pc[t] = "unslot"
  /\ slots_used' = slots_used \ {i[t]} /\ UNCHANGED slots_job
  /\ CreateFails(t)
  /\ UNCHANGED <<pt_slots, holders, kernel, target, job, history>>

Unpick(t) ==
  /\ pc[t] = "unpick"
  /\ pt_slots' = [pt_slots EXCEPT ![s[t]].in_use = FALSE]
  /\ PtLock!Give(t)
  /\ Back(t)
  /\ UNCHANGED <<slots, kernel, target, job, history>>

-----------------------------------------------------------------------------
(* thread_trampoline and pthread_trampoline, in the new thread.            *)

ReadStart(t) ==
  /\ pc[t] = "read"
  /\ job' = [job EXCEPT ![t] = slots_job[entry[t]]]
  /\ Goto(t, "free")
  /\ UNCHANGED <<slots, pt_slots, holders, kernel, i, s, target, history>>

FreeStart(t) ==
  /\ pc[t] = "free"
  /\ slots_used' = slots_used \ {entry[t]} /\ UNCHANGED slots_job
  /\ Goto(t, "tls")
  /\ UNCHANGED <<pt_slots, holders, kernel, locals, history>>

\* Without TLS the thread exits at once (code 127) and never runs fn.
SetupTls(t) ==
  /\ pc[t] = "tls"
  /\ \/ Goto(t, IF job[t].slot = 0 THEN "run" ELSE "tid") /\ UNCHANGED stillborn
     \/ Goto(t, "exit") /\ stillborn' = stillborn \cup {t}
  /\ UNCHANGED <<slots, pt_slots, holders, kernel, locals, meant, delivered>>

StoreTid(t) ==
  /\ pc[t] = "tid"
  /\ pt_slots' = [pt_slots EXCEPT ![job[t].slot].tid = t]
  /\ Goto(t, "run")
  /\ UNCHANGED <<slots, holders, kernel, locals, history>>

\* fn returns; under pthread_trampoline its value is stored, then finished.
Return(t) ==
  /\ pc[t] = "run"
  /\ t # 1
  /\ IF job[t].slot = 0
       THEN Goto(t, "exit") /\ UNCHANGED pt_slots
       ELSE /\ pt_slots' = [pt_slots EXCEPT ![job[t].slot].retval = t]
            /\ Goto(t, "finish")
  /\ UNCHANGED <<slots, holders, kernel, locals, history>>

Finish(t) ==
  /\ pc[t] = "finish"
  /\ pt_slots' = [pt_slots EXCEPT ![job[t].slot].finished = TRUE]
  /\ Goto(t, "exit")
  /\ UNCHANGED <<slots, holders, kernel, locals, history>>

Exit(t) ==
  /\ pc[t] = "exit"
  /\ zombies' = zombies \cup {t}
  /\ Goto(t, "gone")
  /\ UNCHANGED <<slots, pt_slots, holders, born, entry, locals, history>>

-----------------------------------------------------------------------------
(* pthread_exit and pthread_join.                                          *)

\* The entries slot_for_tid can return: the first of them.
slot_for_tid(tid) == {k \in PtSlots : pt_slots[k].in_use /\ pt_slots[k].tid = tid}

ExitFind(t) ==
  /\ pc[t] = "find"
  /\ pt_slots' = IF slot_for_tid(t) = {}
                   THEN pt_slots
                   ELSE [pt_slots EXCEPT ![First(slot_for_tid(t))].retval = t,
                                         ![First(slot_for_tid(t))].finished = TRUE]
  /\ PtLock!Give(t)
  /\ Goto(t, "exit")
  /\ UNCHANGED <<slots, kernel, locals, history>>

\* The program joins a thread whose creation has returned; -EDEADLK if it is
\* the caller.
Join(t, u) ==
  /\ pc[t] = "run"
  /\ u \in 1 .. born
  /\ u # t
  /\ target' = [target EXCEPT ![t] = u]
  /\ Goto(t, "join")
  /\ UNCHANGED <<slots, pt_slots, holders, kernel, i, s, job, history>>

\* The kernel waits for target to exit and reaps it, or returns -ESRCH when
\* somebody else has reaped it.
JoinWaits(t) ==
  /\ pc[t] = "join"
  /\ pc[target[t]] = "gone"
  /\ IF target[t] \in zombies
       THEN zombies' = zombies \ {target[t]} /\ Goto(t, "joined")
       ELSE UNCHANGED zombies /\ Goto(t, "run")
  /\ UNCHANGED <<slots, pt_slots, holders, born, entry, locals, history>>

\* The value is read and the entry freed; a null pointer if there is no entry.
JoinLookup(t) ==
  /\ pc[t] = "lookup"
  /\ LET found == slot_for_tid(target[t])
     IN  IF found = {}
           THEN delivered' = delivered \cup {<<target[t], 0>>} /\ UNCHANGED pt_slots
           ELSE /\ delivered' = delivered \cup {<<target[t], pt_slots[First(found)].retval>>}
                /\ pt_slots' = [pt_slots EXCEPT ![First(found)].in_use = FALSE]
  /\ PtLock!Give(t)
  /\ Goto(t, "run")
  /\ UNCHANGED <<slots, kernel, locals, meant, stillborn>>

-----------------------------------------------------------------------------
\* What the program decides, and what the library does of its own accord.
Call(t) ==
  \/ LockPt(t, "run", "pick")               \* pthread_create
  \/ ThreadCreate(t)
  \/ Return(t)
  \/ LockPt(t, "run", "find")               \* pthread_exit
  \/ \E u \in Threads : Join(t, u)

Step(t) ==
  \/ CreatePick(t) \/ Scan(t) \/ Fill(t) \/ SysCreate(t) \/ SysCreateFails(t)
  \/ Unslot(t) \/ LockPt(t, "failed", "unpick") \/ Unpick(t)
  \/ ReadStart(t) \/ FreeStart(t) \/ SetupTls(t) \/ StoreTid(t)
  \/ Finish(t) \/ Exit(t) \/ ExitFind(t)
  \/ JoinWaits(t) \/ LockPt(t, "joined", "lookup") \/ JoinLookup(t)

Next == \E t \in Threads : Call(t) \/ Step(t)

Spec == Init /\ [][Next]_vars

-----------------------------------------------------------------------------
\* The tables keep their layout and every index a call holds stays in bounds.
TypeOK ==
  /\ slots_used \subseteq StartSlots
  /\ slots_job \in [StartSlots -> Jobs]
  /\ pt_slots \in [PtSlots -> [in_use : BOOLEAN, tid : 0 .. MaxThreads,
                               finished : BOOLEAN, retval : 0 .. MaxThreads]]
  /\ holders \subseteq Threads
  /\ born \in Threads
  /\ zombies \subseteq Threads
  /\ entry \in [Threads -> StartSlots]
  /\ pc \in [Threads -> Labels]
  /\ i \in [Threads -> 1 .. MAX_THREAD_SLOTS + 1]
  /\ s \in [Threads -> 0 .. PTHREAD_MAX]
  /\ target \in [Threads -> Threads]
  /\ job \in [Threads -> Jobs]
  /\ meant \in [Threads -> Jobs]
  /\ stillborn \subseteq Threads
  /\ delivered \subseteq Threads \X (0 .. MaxThreads)

\* Every thread runs the function its own creator passed, with its own
\* argument, however many creations run at once (comment at thread.c 53-56).
StartsOwnRoutine ==
  \A t \in 2 .. born : pc[t] # "read" => job[t] = meant[t]

\* Those that a start slot is reserved for: a thread_create under way, or a new
\* thread that has yet to copy fn and arg and to say so.
StartOwners(k) ==
  ({"creation"} \X {t \in Threads : i[t] = k /\ pc[t] \in {"fill", "sys", "unslot"}})
  \cup
  ({"thread"} \X {t \in 2 .. born : entry[t] = k /\ pc[t] \in {"read", "free"}})

\* A start slot is in use exactly while one creation or one new thread needs it
\* (comment at thread.c 13-14): it is handed over without a gap, and no way out
\* of thread_create or of the trampoline keeps it.
StartSlotOwnership ==
  \A k \in StartSlots : Cardinality(StartOwners(k)) = IF k \in slots_used THEN 1 ELSE 0

\* Those that an entry of pt_slots is reserved for: a pthread_create under way,
\* a thread not yet reaped, or a join that has reaped it and not looked yet.  A
\* thread that died for want of TLS keeps its entry for ever.
Creating == {"scan", "fill", "sys", "unslot", "failed", "unpick"}

Owners(k) ==
  ({"creation"} \X {t \in Threads : s[t] = k /\ pc[t] \in Creating})
  \cup
  ({"thread"} \X {t \in 2 .. born :
     /\ meant[t].slot = k
     /\ \/ pc[t] # "gone" \/ t \in zombies \cup stillborn
        \/ \E u \in Threads : pc[u] \in {"joined", "lookup"} /\ target[u] = t})

\* An entry of pt_slots is in use exactly while one creation or one thread
\* owns it: none is shared between two threads, and none is lost for good but
\* those of threads without TLS.
EntryOwnership ==
  \A k \in PtSlots : Cardinality(Owners(k)) = IF pt_slots[k].in_use THEN 1 ELSE 0

\* A join of a thread of pthread_create that got to run yields the value that
\* thread ended with, and a join of any other thread a null pointer.
JoinDelivers ==
  \A d \in delivered :
    d[2] = IF meant[d[1]].slot = 0 \/ d[1] \in stillborn THEN 0 ELSE d[1]

=============================================================================
