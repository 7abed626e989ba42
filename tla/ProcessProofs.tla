--------------------------- MODULE ProcessProofs ---------------------------
(***************************************************************************)
(* Two independent arguments about Process, for any number of threads.     *)
(*                                                                         *)
(* printf_out's unguarded descriptor does no harm but the one LinesLand    *)
(* names, however many lines are printed and however often the compiled    *)
(* code reads kmsg_fd (invariant IInv).                                    *)
(*                                                                         *)
(* Thread-local storage is where the linker takes it to be, and no two     *)
(* threads share any (invariant TlsInv): the two walks over the entry      *)
(* stack are functions that yield what stands at the first stop, so the    *)
(* template found is the segment's; rounding up keeps a block within its   *)
(* mapping; and each mapping begins above all earlier ones.                *)
(***************************************************************************)
EXTENDS Process, NaturalsInduction, WellFoundedInduction, TLAPS

\* The types the argument needs.
Types ==
  /\ pc \in [Threads -> Labels]
  /\ kmsg_fd \in Int
  /\ local \in [Threads -> Int]
  /\ opened \in Seq(Threads)
  /\ lines \in [Threads -> Seq(Int)]
  /\ kmsg \in BOOLEAN /\ refused \in SUBSET Threads

\* An answer open has given: a descriptor, or an error with its cause.
Given(fd) ==
  \/ fd \in 3 .. Len(opened) + 2
  \/ fd = -ENFILE /\ refused # {}
  \/ fd = -ENOENT /\ ~kmsg

\* What the test of kmsg_fd may choose: a descriptor, or standard output for
\* a cause.
Chosen(fd) ==
  \/ fd \in 3 .. Len(opened) + 2
  \/ fd = STDOUT_FILENO /\ (refused # {} \/ ~kmsg)

\* What a line may have been written to: also the error code of a refused
\* open, but only if another open succeeded.
Landed(fd) ==
  \/ fd - 2 \in DOMAIN opened
  \/ fd = STDOUT_FILENO /\ (refused # {} \/ ~kmsg)
  \/ fd = -ENFILE /\ refused # {} /\ 1 \in DOMAIN opened

\* A thread with an answer from the device either has still to store it, or
\* was killed before it did, or kmsg_fd no longer says "unopened".
Answered(u) ==
  /\ kmsg
  /\ pc[u] # "open"
  /\ pc[u] \in {"store", "gone"} \/ kmsg_fd # -2

\* kmsg_fd says "unopened" or holds an answer; a thread past its open has an
\* answer of its own, and past the store it finds one in kmsg_fd as well.
IInv ==
  /\ Types
  /\ kmsg_fd = -2 \/ Given(kmsg_fd)
  /\ \A t \in Threads :
       /\ pc[t] = "store" => Given(local[t])
       /\ pc[t] = "choose" => Given(local[t]) /\ Given(kmsg_fd)
       /\ pc[t] = "write" => Chosen(local[t]) /\ Given(kmsg_fd)
       /\ \A i \in DOMAIN lines[t] : Landed(lines[t][i])
  /\ \A i \in DOMAIN opened : Answered(opened[i])
  /\ \A u \in refused : Answered(u)
  /\ OpenedOncePerThread

-----------------------------------------------------------------------------
\* Steps that leave printf_out's state alone, and move threads that are not
\* in it, or end them.
LEMMA ElsewhereHolds ==
  ASSUME IInv, UNCHANGED << kmsg, console >>, pc' \in [Threads -> Labels],
         \A t \in Threads : \/ pc'[t] = pc[t] \/ pc'[t] = "gone"
                            \/ pc[t] \notin {"store", "gone"} /\ pc'[t] \in {"tls", "run"}
  PROVE  IInv'
  <1>1. Types'
    BY DEF IInv, Types, console
  <1>2. \A t \in Threads :
          /\ pc'[t] = "store" => pc[t] = "store"
          /\ pc'[t] = "choose" => pc[t] = "choose"
          /\ pc'[t] = "write" => pc[t] = "write"
          /\ pc'[t] = "open" => pc[t] = "open"
          /\ pc[t] \in {"store", "gone"} => pc'[t] \in {"store", "gone"}
    OBVIOUS
  <1>3. /\ \A i \in DOMAIN opened : opened[i] \in Threads
        /\ \A u \in refused : u \in Threads
    BY DEF IInv, Types
  <1>4. \A u \in Threads : Answered(u) => Answered(u)'
    BY <1>2 DEF Answered, console
  <1> QED
    BY <1>1, <1>2, <1>3, <1>4 DEF IInv, Given, Chosen, Landed, console, OpenedOncePerThread

\* The main thread on its way through _start.
LEMMA StartHolds ==
  ASSUME IInv, Start PROVE IInv'
  <1>1. UNCHANGED << kmsg, console >> /\ pc[1] = "entry" /\ pc' = [pc EXCEPT ![1] = "tls"]
    BY DEF Start, Goto
  <1> QED
    BY <1>1, ElsewhereHolds, Zenon DEF IInv, Types, Labels

\* The steps of a thread outside printf_out.
LEMMA ThreadHolds ==
  ASSUME IInv, NEW t \in Threads,
         \/ TlsNone(t) \/ TlsSetup(t) \/ TlsFails(t) \/ Exit(t)
         \/ \E u \in Threads : ThreadStarts(t, u)
  PROVE  IInv'
  <1>0. pc \in [Threads -> Labels]
    BY DEF IInv, Types
  <1>1. CASE TlsNone(t) \/ TlsSetup(t)
    <2>1. UNCHANGED << kmsg, console >> /\ pc[t] = "tls" /\ pc' = [pc EXCEPT ![t] = "run"]
      BY <1>1 DEF TlsNone, TlsSetup, Goto
    <2> QED
      BY <1>0, <2>1, ElsewhereHolds DEF Labels
  <1>2. CASE TlsFails(t) \/ Exit(t)
    <2>1. UNCHANGED << kmsg, console >> /\ Ends(t)
      BY <1>2 DEF TlsFails, Exit
    <2>2. pc' \in [Threads -> Labels] /\ \A u \in Threads : pc'[u] = pc[u] \/ pc'[u] = "gone"
      BY <1>0, <2>1 DEF Ends, Goto, Labels
    <2> QED
      BY <2>1, <2>2, ElsewhereHolds
  <1>3. CASE \E u \in Threads : ThreadStarts(t, u)
    <2>1. PICK u \in Threads : ThreadStarts(t, u)
      BY <1>3
    <2>2. UNCHANGED << kmsg, console >> /\ pc[u] = "unborn" /\ pc' = [pc EXCEPT ![u] = "tls"]
      BY <2>1 DEF ThreadStarts, Goto
    <2> QED
      BY <1>0, <2>2, ElsewhereHolds DEF Labels
  <1> QED
    BY <1>1, <1>2, <1>3

\* What Append does to the descriptors that are open.
LEMMA AppendGrows ==
  ASSUME NEW q \in Seq(Threads), NEW t \in Threads
  PROVE  /\ q \in Seq(Threads) /\ Len(q) \in Nat /\ DOMAIN q = 1 .. Len(q)
         /\ Append(q, t) \in Seq(Threads) /\ Len(Append(q, t)) = Len(q) + 1
         /\ DOMAIN Append(q, t) = 1 .. Len(q) + 1
         /\ Append(q, t)[Len(q) + 1] = t
         /\ \A i \in 1 .. Len(q) : Append(q, t)[i] = q[i] /\ q[i] \in Threads
  OBVIOUS

\* A descriptor stays open when another is opened.
LEMMA DescriptorsStay ==
  ASSUME NEW q \in Seq(Threads), NEW t \in Threads, NEW p, p = q \/ p = Append(q, t)
  PROVE  /\ p \in Seq(Threads) /\ DOMAIN q \subseteq DOMAIN p
         /\ 3 .. Len(q) + 2 \subseteq 3 .. Len(p) + 2
  <1>1. CASE p = q
    BY <1>1
  <1>2. CASE p = Append(q, t)
    BY <1>2, AppendGrows
  <1> QED
    BY <1>1, <1>2

\* Answers, choices and landed lines stay such when there are more answers.
LEMMA AnswersStay ==
  ASSUME Types, NEW t \in Threads, kmsg' = kmsg, refused \subseteq refused',
         opened' = opened \/ opened' = Append(opened, t)
  PROVE  /\ opened' \in Seq(Threads)
         /\ \A fd \in Int :
              /\ Given(fd) => Given(fd)'
              /\ Chosen(fd) => Chosen(fd)'
              /\ Landed(fd) => Landed(fd)'
  <1>1. opened \in Seq(Threads)
    BY DEF Types
  <1>2. /\ opened' \in Seq(Threads) /\ DOMAIN opened \subseteq DOMAIN opened'
        /\ 3 .. Len(opened) + 2 \subseteq 3 .. Len(opened') + 2
    BY <1>1, DescriptorsStay, Zenon
  <1>3. refused # {} => refused' # {}
    OBVIOUS
  <1> QED
    BY <1>2, <1>3, Zenon DEF Given, Chosen, Landed

\* printf_out looks at kmsg_fd.
LEMMA PrintfHolds ==
  ASSUME IInv, NEW t \in Threads, Printf(t) PROVE IInv'
  <1>1. Types'
    BY DEF IInv, Types, Printf, Goto, Labels
  <1>2. /\ UNCHANGED << kmsg, kmsg_fd, opened, refused, lines >>
        /\ pc[t] = "run" /\ local' = [local EXCEPT ![t] = kmsg_fd]
        /\ pc' = [pc EXCEPT ![t] = IF kmsg_fd = -2 THEN "open" ELSE "choose"]
    BY DEF Printf, Goto
  <1>3. /\ \A i \in DOMAIN opened : opened[i] \in Threads
        /\ \A u \in refused : u \in Threads
    BY DEF IInv, Types
  <1>4. \A u \in Threads :
          /\ pc'[u] = "store" => Given(local[u])'
          /\ pc'[u] = "choose" => Given(local[u])' /\ Given(kmsg_fd)'
          /\ pc'[u] = "write" => Chosen(local[u])' /\ Given(kmsg_fd)'
    BY <1>2 DEF IInv, Types, Given, Chosen
  <1>5. \A u \in Threads : Answered(u) => Answered(u)'
    BY <1>2 DEF IInv, Types, Answered
  <1> QED
    BY <1>1, <1>2, <1>3, <1>4, <1>5 DEF IInv, Given, Landed, OpenedOncePerThread

\* The open of printf_out: a new descriptor or an error code.
LEMMA OpenHolds ==
  ASSUME IInv, NEW t \in Threads, OpenKmsg(t) PROVE IInv'
  <1>1. /\ UNCHANGED << kmsg, kmsg_fd, lines >> /\ Types
        /\ pc[t] = "open" /\ pc' = [pc EXCEPT ![t] = "store"]
    BY DEF OpenKmsg, Goto, IInv
  <1>2. PICK fd \in Int :
          /\ local' = [local EXCEPT ![t] = fd]
          /\ \/ kmsg /\ fd = Len(opened) + 3 /\ opened' = Append(opened, t) /\ refused' = refused
             \/ kmsg /\ opened' = opened /\ fd = -ENFILE /\ refused' = refused \union {t}
             \/ ~kmsg /\ opened' = opened /\ fd = -ENOENT /\ refused' = refused
    <2>1. Len(opened) + 3 \in Int /\ -ENFILE \in Int /\ -ENOENT \in Int
      BY <1>1 DEF Types, ENFILE, ENOENT
    <2> QED
      BY <2>1, Zenon DEF OpenKmsg
  <1>3. /\ opened' \in Seq(Threads) /\ refused \subseteq refused'
        /\ \A x \in Int :
             /\ Given(x) => Given(x)'
             /\ Chosen(x) => Chosen(x)'
             /\ Landed(x) => Landed(x)'
    <2>1. refused \subseteq refused' /\ (opened' = opened \/ opened' = Append(opened, t))
      BY <1>2
    <2> QED
      BY <1>1, <2>1, AnswersStay
  <1>4. Types'
    BY <1>1, <1>2, <1>3 DEF Types, Labels
  <1>5. Given(fd)'
    <2>1. opened' = Append(opened, t) => Len(opened) + 3 \in 3 .. Len(opened') + 2
      BY <1>1, AppendGrows DEF Types
    <2>2. refused' = refused \union {t} => refused' # {}
      OBVIOUS
    <2> QED
      BY <1>1, <1>2, <2>1, <2>2, Zenon DEF Given
  <1>6. kmsg_fd' = -2 \/ Given(kmsg_fd)'
    BY <1>1, <1>3 DEF IInv, Types
  <1>7. ASSUME NEW u \in Threads
        PROVE  /\ pc'[u] = "store" => Given(local[u])'
               /\ pc'[u] = "choose" => Given(local[u])' /\ Given(kmsg_fd)'
               /\ pc'[u] = "write" => Chosen(local[u])' /\ Given(kmsg_fd)'
    <2>1. CASE u = t
      BY <1>1, <1>2, <1>5, <2>1 DEF Types
    <2>2. CASE u # t
      <3>1. pc'[u] = pc[u] /\ local'[u] = local[u] /\ local[u] \in Int
        BY <1>1, <1>2, <2>2 DEF Types
      <3> QED
        BY <1>1, <1>3, <3>1 DEF IInv, Types
    <2> QED
      BY <2>1, <2>2
  <1>8. \A u \in Threads : \A i \in DOMAIN lines'[u] : Landed(lines[u][i])'
    BY <1>1, <1>3 DEF IInv, Types
  <1>9. \A i \in DOMAIN opened' :
          \/ i \in DOMAIN opened /\ opened'[i] = opened[i] /\ opened[i] \in Threads
          \/ kmsg /\ i = Len(opened) + 1 /\ opened'[i] = t /\ refused' = refused
    <2>1. opened \in Seq(Threads)
      BY <1>1 DEF Types
    <2>2. CASE opened' = opened
      BY <2>1, <2>2
    <2>3. CASE kmsg /\ opened' = Append(opened, t) /\ refused' = refused
      BY <2>1, <2>3, AppendGrows
    <2> QED
      BY <1>2, <2>2, <2>3
  <1>10. (\A i \in DOMAIN opened : opened[i] # t) /\ t \notin refused
    BY <1>1 DEF IInv, Answered
  <1>11. /\ \A u \in Threads : Answered(u) => Answered(u)'
         /\ kmsg => Answered(t)'
    BY <1>1 DEF Answered, Types
  <1>12. /\ \A i \in DOMAIN opened' : Answered(opened[i])'
         /\ \A u \in refused' : Answered(u)'
    <2>1. \A u \in refused' : u \in refused \/ (kmsg /\ u = t)
      BY <1>2, Zenon
    <2>2. \A u \in refused' : Answered(u)'
      BY <1>1, <1>11, <2>1 DEF IInv, Types
    <2>3. \A i \in DOMAIN opened' : Answered(opened[i])'
      BY <1>9, <1>11 DEF IInv, Answered
    <2> QED
      BY <2>2, <2>3
  <1>13. OpenedOncePerThread'
    <2>1. \A u \in refused' : u \in refused \/ u = t
      BY <1>2
    <2> QED
      BY <1>9, <1>10, <2>1 DEF IInv, OpenedOncePerThread
  <1> QED
    BY <1>4, <1>6, <1>7, <1>8, <1>12, <1>13 DEF IInv

\* The store into kmsg_fd, which may replace another thread's.
LEMMA StoreHolds ==
  ASSUME IInv, NEW t \in Threads, Store(t) PROVE IInv'
  <1>1. /\ UNCHANGED << kmsg, local, opened, refused, lines >> /\ Types
        /\ pc[t] = "store" /\ pc' = [pc EXCEPT ![t] = "choose"] /\ kmsg_fd' = local[t]
    BY DEF Store, Goto, IInv
  <1>2. Types'
    BY <1>1 DEF Types, Labels
  <1>3. Given(local[t]) /\ Given(kmsg_fd)'
    BY <1>1 DEF IInv, Given
  <1>4. \A u \in Threads :
          /\ pc'[u] = "store" => Given(local[u])'
          /\ pc'[u] = "choose" => Given(local[u])'
          /\ pc'[u] = "write" => Chosen(local[u])'
    BY <1>1, <1>3 DEF IInv, Types, Given, Chosen
  <1>5. kmsg => kmsg_fd' # -2
    BY <1>1, <1>3 DEF Given, ENFILE, ENOENT, Types
  <1>6. \A u \in Threads : Answered(u) => Answered(u)'
    BY <1>1, <1>5 DEF Types, Answered
  <1>7. /\ \A i \in DOMAIN opened : opened[i] \in Threads
        /\ \A u \in refused : u \in Threads
    BY <1>1 DEF Types
  <1> QED
    BY <1>1, <1>2, <1>3, <1>4, <1>6, <1>7 DEF IInv, Landed, OpenedOncePerThread

\* The test of kmsg_fd, of the value at hand or of the one read again.
LEMMA ChooseHolds ==
  ASSUME IInv, NEW t \in Threads, Choose(t) PROVE IInv'
  <1>1. /\ UNCHANGED << kmsg, kmsg_fd, opened, refused, lines >> /\ Types
        /\ pc[t] = "choose" /\ pc' = [pc EXCEPT ![t] = "write"]
    BY DEF Choose, Goto, IInv
  <1>2. PICK fd \in Int :
          Given(fd) /\ local' = [local EXCEPT ![t] = IF fd >= 0 THEN fd ELSE STDOUT_FILENO]
    BY <1>1, Zenon DEF Choose, IInv, Types
  <1>3. PICK to \in Int : Chosen(to) /\ local' = [local EXCEPT ![t] = to]
    <2>1. CASE fd >= 0
      <3>1. Chosen(fd)
        BY <1>2, <2>1 DEF Given, Chosen, ENFILE, ENOENT
      <3> QED
        BY <1>2, <2>1, <3>1, Zenon
    <2>2. CASE ~(fd >= 0)
      <3>1. ~(fd \in 3 .. Len(opened) + 2)
        BY <1>1, <2>2 DEF Types
      <3>2. Chosen(STDOUT_FILENO) /\ STDOUT_FILENO \in Int
        BY <1>2, <3>1 DEF Given, Chosen, STDOUT_FILENO
      <3> QED
        BY <1>2, <2>2, <3>2, Zenon
    <2> QED
      BY <2>1, <2>2
  <1>4. Types'
    BY <1>1, <1>3 DEF Types, Labels
  <1>5. \A u \in Threads :
          /\ pc'[u] = "store" => Given(local[u])'
          /\ pc'[u] = "choose" => Given(local[u])' /\ Given(kmsg_fd)'
          /\ pc'[u] = "write" => Chosen(local[u])' /\ Given(kmsg_fd)'
    BY <1>1, <1>3 DEF IInv, Types, Given, Chosen
  <1>6. \A u \in Threads : Answered(u) => Answered(u)'
    BY <1>1 DEF Types, Answered
  <1>7. /\ \A i \in DOMAIN opened : opened[i] \in Threads
        /\ \A u \in refused : u \in Threads
    BY <1>1 DEF Types
  <1> QED
    BY <1>1, <1>4, <1>5, <1>6, <1>7 DEF IInv, Given, Landed, OpenedOncePerThread

\* The write, to what was chosen or, where kmsg_fd was, to its present value.
LEMMA WriteHolds ==
  ASSUME IInv, NEW t \in Threads, Write(t) PROVE IInv'
  <1>1. /\ UNCHANGED << kmsg, kmsg_fd, opened, refused >> /\ Types
        /\ pc[t] = "write" /\ pc' = [pc EXCEPT ![t] = "run"]
        /\ local' = [local EXCEPT ![t] = -2]
    BY DEF Write, Goto, IInv
  <1>2. PICK fd \in Int :
          /\ lines' = [lines EXCEPT ![t] = Append(@, fd)]
          /\ fd = local[t] \/ (fd = kmsg_fd /\ local[t] # STDOUT_FILENO)
    <2>1. local[t] \in Int /\ kmsg_fd \in Int
      BY <1>1 DEF Types
    <2> QED
      BY <2>1, Zenon DEF Write
  <1>3. Landed(fd)
    <2>1. Chosen(local[t]) /\ Given(kmsg_fd) /\ local[t] \in Int /\ kmsg_fd \in Int
      BY <1>1 DEF IInv, Types
    <2>2. opened \in Seq(Threads) /\ (1 \in DOMAIN opened => kmsg)
      BY <1>1 DEF IInv, Types, Answered
    <2>3. CASE fd = local[t]
      BY <2>1, <2>2, <2>3 DEF Chosen, Landed
    <2>4. CASE fd = kmsg_fd /\ local[t] # STDOUT_FILENO
      <3>1. 1 \in DOMAIN opened
        BY <2>1, <2>2, <2>4 DEF Chosen
      <3> QED
        BY <2>1, <2>2, <2>4, <3>1 DEF Given, Landed
    <2> QED
      BY <1>2, <2>3, <2>4
  <1>4. lines[t] \in Seq(Int) /\ lines'[t] = Append(lines[t], fd)
    BY <1>1, <1>2 DEF Types
  <1>5. \A i \in DOMAIN lines'[t] :
          (i \in DOMAIN lines[t] /\ lines'[t][i] = lines[t][i]) \/ lines'[t][i] = fd
    BY <1>4
  <1>6. \A u \in Threads : \A i \in DOMAIN lines'[u] : Landed(lines[u][i])'
    <2>1. \A i \in DOMAIN lines'[t] : Landed(lines'[t][i])
      BY <1>3, <1>5 DEF IInv
    <2>2. \A u \in Threads : u # t => lines'[u] = lines[u]
      BY <1>1, <1>2 DEF Types
    <2> QED
      BY <1>1, <2>1, <2>2 DEF IInv, Landed
  <1>7. Types'
    BY <1>1, <1>2, <1>4 DEF Types, Labels
  <1>8. \A u \in Threads :
          /\ pc'[u] = "store" => Given(local[u])'
          /\ pc'[u] = "choose" => Given(local[u])' /\ Given(kmsg_fd)'
          /\ pc'[u] = "write" => Chosen(local[u])' /\ Given(kmsg_fd)'
    BY <1>1 DEF IInv, Types, Given, Chosen
  <1>9. \A u \in Threads : Answered(u) => Answered(u)'
    BY <1>1 DEF Types, Answered
  <1>10. /\ \A i \in DOMAIN opened : opened[i] \in Threads
         /\ \A u \in refused : u \in Threads
    BY <1>1 DEF Types
  <1> QED
    BY <1>1, <1>6, <1>7, <1>8, <1>9, <1>10 DEF IInv, Given, OpenedOncePerThread

-----------------------------------------------------------------------------
\* The invariant holds in every state.
LEMMA Invariance == Spec => []IInv
  <1>1. Init => IInv
    <2> SUFFICES ASSUME Init PROVE IInv
      OBVIOUS
    <2>1. /\ DOMAIN opened = {} /\ \A t \in Threads : DOMAIN lines[t] = {}
          /\ \A t \in Threads : pc[t] \in {"entry", "unborn"}
      BY DEF Init
    <2>2. kmsg \in BOOLEAN /\ refused = {}
      BY Zenon DEF Init
    <2>3. /\ pc \in [Threads -> Labels] /\ local \in [Threads -> Int] /\ kmsg_fd \in Int
          /\ opened \in Seq(Threads)
      BY DEF Init, Labels
    <2>4. lines \in [Threads -> Seq(Int)]
      BY DEF Init
    <2> QED
      BY <2>1, <2>2, <2>3, <2>4 DEF Init, IInv, Types, OpenedOncePerThread
  <1>2. IInv /\ [Next]_vars => IInv'
    <2> SUFFICES ASSUME IInv, [Next]_vars PROVE IInv'
      OBVIOUS
    <2>1. CASE UNCHANGED vars
      BY <2>1, ElsewhereHolds DEF vars, IInv, Types
    <2> QED
      BY <2>1, StartHolds, ThreadHolds, PrintfHolds, OpenHolds, StoreHolds, ChooseHolds, WriteHolds
         DEF Next
  <1> QED
    BY <1>1, <1>2, PTL DEF Spec

\* Once a good descriptor is in place, a step leaves it there and prints to it.
LEMMA StaysSettled ==
  ASSUME IInv, Settled, [Next]_vars
  PROVE  /\ Settled'
         /\ \A t \in Threads : lines'[t] # lines[t] => OnKmsg(lines'[t][Len(lines'[t])])
  <1>1. Types /\ kmsg_fd \in 3 .. Len(opened) + 2 /\ opened \in Seq(Threads)
    BY DEF IInv, Types, Settled, Given, ENFILE, ENOENT
  <1>2. CASE UNCHANGED << kmsg_fd, local, lines >> /\
             \A t \in Threads : pc'[t] = pc[t] \/ pc'[t] \in {"tls", "run", "gone"}
    BY <1>2 DEF Settled
  <1>3. CASE UNCHANGED vars
    BY <1>2, <1>3 DEF vars, console
  <1>4. CASE Start
    BY <1>1, <1>2, <1>4 DEF Start, Goto, console, Types
  <1>5. ASSUME NEW t \in Threads,
               \/ TlsNone(t) \/ TlsSetup(t) \/ TlsFails(t) \/ Exit(t)
               \/ \E u \in Threads : ThreadStarts(t, u)
        PROVE  /\ UNCHANGED << kmsg_fd, local, lines >>
               /\ \A u \in Threads : pc'[u] = pc[u] \/ pc'[u] \in {"tls", "run", "gone"}
    <2>1. UNCHANGED << kmsg_fd, local, lines >>
      BY <1>5 DEF TlsNone, TlsSetup, TlsFails, Exit, ThreadStarts, console
    <2>2. CASE TlsFails(t) \/ Exit(t)
      BY <1>1, <2>1, <2>2 DEF TlsFails, Exit, Ends, Goto, Types
    <2>3. CASE TlsNone(t) \/ TlsSetup(t) \/ \E u \in Threads : ThreadStarts(t, u)
      BY <1>1, <2>1, <2>3 DEF TlsNone, TlsSetup, ThreadStarts, Goto, Types
    <2> QED
      BY <1>5, <2>2, <2>3
  <1>6. ASSUME NEW t \in Threads, Printf(t) \/ Choose(t)
        PROVE  Settled' /\ lines' = lines
    <2>1. PICK fd \in Int :
            fd >= 0 /\ fd # STDOUT_FILENO /\ local' = [local EXCEPT ![t] = fd]
      <3>1. CASE Printf(t)
        <4>1. kmsg_fd \in Int /\ kmsg_fd >= 0 /\ kmsg_fd # STDOUT_FILENO
          BY <1>1 DEF Types, STDOUT_FILENO
        <4> QED
          BY <3>1, <4>1, Zenon DEF Printf
      <3>2. CASE Choose(t)
        <4>1. PICK fd \in {local[t], kmsg_fd} :
                local' = [local EXCEPT ![t] = IF fd >= 0 THEN fd ELSE STDOUT_FILENO]
          BY <3>2 DEF Choose
        <4>2. pc[t] = "choose" /\ local[t] \in Int
          BY <1>1, <3>2 DEF Choose, Types
        <4>3. fd \in Int /\ fd >= 0 /\ fd # STDOUT_FILENO
          BY <1>1, <4>1, <4>2 DEF Settled, STDOUT_FILENO
        <4> QED
          BY <4>1, <4>3
      <3> QED
        BY <1>6, <3>1, <3>2
    <2>2. kmsg_fd' = kmsg_fd /\ lines' = lines
      BY <1>6 DEF Printf, Choose
    <2>3. PICK l \in {"choose", "write"} : pc' = [pc EXCEPT ![t] = l]
      BY <1>1, <1>6 DEF Printf, Choose, Goto
    <2> QED
      BY <1>1, <2>1, <2>2, <2>3 DEF Settled, Types
  <1>7. ASSUME NEW t \in Threads, Write(t)
        PROVE  /\ Settled'
               /\ \A u \in Threads : lines'[u] # lines[u] => OnKmsg(lines'[u][Len(lines'[u])])
    <2>1. /\ kmsg_fd' = kmsg_fd /\ pc[t] = "write" /\ pc' = [pc EXCEPT ![t] = "run"]
          /\ local' = [local EXCEPT ![t] = -2]
      BY <1>7 DEF Write, Goto
    <2>2. Settled'
      BY <1>1, <2>1 DEF Settled, Types
    <2>3. local[t] \in 3 .. Len(opened) + 2
      BY <1>1, <2>1 DEF IInv, Chosen, Settled
    <2>4. PICK fd \in {local[t], kmsg_fd} : lines' = [lines EXCEPT ![t] = Append(@, fd)]
      BY <1>7 DEF Write
    <2>5. lines[t] \in Seq(Int) /\ fd \in Int /\ fd - 2 \in DOMAIN opened
      BY <1>1, <2>3, <2>4 DEF Types
    <2>6. lines'[t][Len(lines'[t])] = fd
      BY <1>1, <2>4, <2>5 DEF Types
    <2>7. \A u \in Threads : u # t => lines'[u] = lines[u]
      BY <1>1, <2>4 DEF Types
    <2> QED
      BY <2>2, <2>5, <2>6, <2>7 DEF OnKmsg
  <1>8. ASSUME NEW t \in Threads PROVE ~ OpenKmsg(t) /\ ~ Store(t)
    BY DEF Settled, OpenKmsg, Store
  <1> QED
    BY <1>2, <1>3, <1>4, <1>5, <1>6, <1>7, <1>8 DEF Next

\* OffTheConsole for any number of threads: no line goes to the console while
\* /dev/kmsg can be opened, even if several threads race to open it, and none
\* after a good descriptor has come to stay, even if opens were refused.
THEOREM StaysOffTheConsole == Spec => OffTheConsole
  <1> DEFINE Kept == kmsg /\ refused = {} =>
                \A t \in Threads : \A i \in DOMAIN lines[t] : lines[t][i] # STDOUT_FILENO
             Stays == Settled =>
                /\ Settled'
                /\ \A t \in Threads : lines'[t] # lines[t] => OnKmsg(lines'[t][Len(lines'[t])])
  <1>1. IInv => Kept
    BY DEF IInv, Types, Landed, STDOUT_FILENO, ENFILE
  <1>2. IInv /\ [Next]_vars => [Stays]_vars
    BY StaysSettled
  <1>3. Spec => []Kept /\ [][Stays]_vars
    BY <1>1, <1>2, Invariance, PTL DEF Spec
  <1> QED
    BY <1>3 DEF OffTheConsole

\* LinesLand for any number of threads: an error code that one thread stores
\* in kmsg_fd becomes the descriptor another writes to only if it replaced a
\* descriptor that an open had given.
THEOREM EveryLineLands == Spec => []LinesLand
  <1>1. IInv => LinesLand
    <2> SUFFICES ASSUME IInv, NEW t \in Threads, NEW i \in DOMAIN lines[t]
                 PROVE  \/ lines[t][i] = STDOUT_FILENO
                        \/ OnKmsg(lines[t][i])
                        \/ lines[t][i] = -ENFILE /\ \E u \in refused, j \in DOMAIN opened : opened[j] # u
      BY DEF LinesLand
    <2>1. Landed(lines[t][i])
      BY DEF IInv
    <2>2. refused # {} /\ 1 \in DOMAIN opened =>
            \E u \in refused, j \in DOMAIN opened : opened[j] # u
      BY DEF IInv, OpenedOncePerThread
    <2> QED
      BY <2>1, <2>2 DEF Landed, OnKmsg
  <1> QED
    BY <1>1, Invariance, PTL

\* OpenedOncePerThread for any number of threads: the race costs at most one
\* descriptor for each of them.
THEOREM OneOpenEach == Spec => []OpenedOncePerThread
  <1>1. IInv => OpenedOncePerThread
    BY DEF IInv
  <1> QED
    BY <1>1, Invariance, PTL

-----------------------------------------------------------------------------
\* A set of numbers that is not empty has a least element.
LEMMA Least ==
  ASSUME NEW T \in SUBSET Nat, T # {} PROVE \E x \in T : \A y \in T : x <= y
  <1>1. IsWellFoundedOn(OpToRel(<, Nat), Nat)
    BY NatLessThanWellFounded, Zenon
  <1>2. PICK x \in T : \A y \in T : << y, x >> \notin OpToRel(<, Nat)
    BY <1>1, WFMin, Zenon
  <1>3. \A y \in T : ~ (y < x)
    BY <1>2, Zenon DEF OpToRel
  <1> QED
    BY <1>3

-----------------------------------------------------------------------------
\* The loops of FindAuxv and getauxval go up in steps of one or two words
\* until a stop.
Steps == {1, 2}
Walks(g, stop, val, step) == g = [p \in Nat |-> IF p \in stop THEN val[p] ELSE g[p + step]]

\* A loop like that is a function, even where it would not end.
LEMMA WalkExists ==
  ASSUME NEW stop \in SUBSET Nat, NEW val, NEW step \in Steps
  PROVE  \E g : Walks(g, stop, val, step)
  <1> USE DEF Steps
  <1> DEFINE Ks(p) == {k \in Nat : p + k * step \in stop}
             IsMin(p, k) == k \in Ks(p) /\ \A j \in Ks(p) : k <= j
             first(p) == CHOOSE k \in Nat : IsMin(p, k)
             g == [p \in Nat |-> IF Ks(p) = {} THEN 0 ELSE val[p + first(p) * step]]
  <1>1. ASSUME NEW p \in Nat, Ks(p) # {} PROVE first(p) \in Nat /\ IsMin(p, first(p))
    <2>1. Ks(p) \in SUBSET Nat
      OBVIOUS
    <2>2. \E k \in Ks(p) : \A j \in Ks(p) : k <= j
      BY <1>1, <2>1, Least, Zenon
    <2> QED
      BY <2>2, Zenon
  <1>2. ASSUME NEW p \in Nat, NEW k \in Nat, IsMin(p, k) PROVE first(p) = k
    <2>1. first(p) \in Nat /\ IsMin(p, first(p))
      BY <1>1, <1>2, Zenon
    <2> QED
      BY <1>2, <2>1
  <1> HIDE DEF first
  <1>3. ASSUME NEW p \in Nat PROVE g[p] = IF p \in stop THEN val[p] ELSE g[p + step]
    <2>1. CASE p \in stop
      <3>1. IsMin(p, 0) /\ p + 0 * step = p
        BY <2>1
      <3>2. first(p) = 0 /\ Ks(p) # {}
        BY <1>2, <3>1, Zenon
      <3> QED
        BY <2>1, <3>1, <3>2
    <2>2. CASE p \notin stop
      <3>1. p + step \in Nat
        OBVIOUS
      <3>2. \A k \in Nat : k \in Ks(p) <=> k # 0 /\ k - 1 \in Ks(p + step)
        BY <2>2
      <3>3. \A k \in Nat : k \in Ks(p + step) <=> k + 1 \in Ks(p)
        BY <2>2
      <3>4. CASE Ks(p) = {}
        <4>1. Ks(p + step) = {}
          BY <3>3, <3>4, Zenon
        <4>2. g[p] = 0 /\ g[p + step] = 0
          BY <3>1, <3>4, <4>1
        <4> QED
          BY <2>2, <4>2
      <3>5. CASE Ks(p) # {}
        <4>1. first(p) \in Nat /\ IsMin(p, first(p))
          BY <1>1, <3>5
        <4>2. first(p) - 1 \in Nat /\ IsMin(p + step, first(p) - 1)
          <5>1. first(p) # 0 /\ first(p) - 1 \in Ks(p + step) /\ first(p) - 1 \in Nat
            BY <3>2, <4>1
          <5>2. \A j \in Ks(p + step) : first(p) <= j + 1
            BY <3>3, <4>1
          <5> QED
            BY <4>1, <5>1, <5>2
        <4>3. first(p + step) = first(p) - 1
          BY <1>2, <3>1, <4>2, Zenon
        <4>4. (p + step) + (first(p) - 1) * step = p + first(p) * step
          BY <4>1
        <4> QED
          BY <2>2, <3>1, <3>5, <4>2, <4>3, <4>4
      <3> QED
        BY <3>4, <3>5
    <2> QED
      BY <2>1, <2>2
  <1>4. Walks(g, stop, val, step)
    <2> HIDE DEF Ks
    <2>1. g = [p \in Nat |-> g[p]]
      OBVIOUS
    <2> HIDE DEF g
    <2> QED
      BY <1>3, <2>1 DEF Walks
  <1> QED
    BY <1>4

\* From p, it stops first after n steps.
StopsAt(stop, step, p, n) ==
  p + n * step \in stop /\ \A j \in 0 .. n - 1 : p + j * step \notin stop

\* Such a loop yields the value at the first stop.
LEMMA WalkFinds ==
  ASSUME NEW stop, NEW val, NEW step \in Steps, NEW g, Walks(g, stop, val, step),
         NEW p \in Nat, NEW n \in Nat, StopsAt(stop, step, p, n)
  PROVE  g[p] = val[p + n * step]
  <1> USE DEF Steps
  <1> DEFINE Bad == {k \in 0 .. n : g[p + (n - k) * step] # val[p + n * step]}
  <1>0. \A q \in Nat : g[q] = IF q \in stop THEN val[q] ELSE g[q + step]
    BY DEF Walks
  <1>1. CASE Bad = {}
    <2>1. n \in 0 .. n /\ p + (n - n) * step = p
      OBVIOUS
    <2> QED
      BY <1>1, <2>1, Zenon
  <1>2. CASE Bad # {}
    <2>1. Bad \in SUBSET Nat
      OBVIOUS
    <2>2. PICK k \in Bad : \A j \in Bad : k <= j
      BY <1>2, <2>1, Least, Zenon
    <2> DEFINE q == p + (n - k) * step
    <2>3. k \in 0 .. n /\ g[q] # val[p + n * step] /\ q \in Nat
      BY <2>2
    <2>4. CASE k = 0
      BY <1>0, <2>3, <2>4 DEF StopsAt
    <2>5. CASE k # 0
      <3>1. k - 1 \in 0 .. n /\ ~ (k <= k - 1) /\ n - k \in 0 .. n - 1
        BY <2>3, <2>5
      <3>2. k - 1 \notin Bad
        BY <2>2, <3>1
      <3>3. q + step = p + (n - (k - 1)) * step
        BY <2>3
      <3>4. g[q] = g[q + step]
        BY <1>0, <2>3, <3>1, Zenon DEF StopsAt
      <3> QED
        BY <2>3, <3>1, <3>2, <3>3, <3>4
    <2> QED
      BY <2>4, <2>5
  <1> QED
    BY <1>1, <1>2

-----------------------------------------------------------------------------
\* Where the parts of two sequences lie in their concatenation.
Joined(r, s, n, t, m) ==
  /\ r \in Seq(Nat) /\ Len(r) = n + m
  /\ \A i \in 1 .. n : r[i] = s[i]
  /\ \A i \in 1 .. m : r[n + i] = t[i]

\* Concatenation joins two sequences.
LEMMA Concat ==
  ASSUME NEW s \in Seq(Nat), NEW t \in Seq(Nat), NEW n, NEW m, n = Len(s), m = Len(t),
         NEW r, r = s \o t
  PROVE  Joined(r, s, n, t, m)
  BY DEF Joined

\* A sequence that is one value throughout.
LEMMA Constantly ==
  ASSUME NEW n \in Nat
  PROVE  /\ [i \in 1 .. n |-> 9] \in Seq(Nat) /\ Len([i \in 1 .. n |-> 9]) = n
         /\ \A i \in 1 .. n : [j \in 1 .. n |-> 9][i] = 9
  OBVIOUS

\* What the kernel leaves on the stack, as one sequence and by position.
Laid(stack, argc, envc, auxv) ==
  stack = << argc >> \o [i \in 1 .. argc |-> 9] \o << 0 >>
          \o [i \in 1 .. envc |-> 9] \o << 0 >> \o auxv \o << 0, 0 >>

Parts(stack, argc, envc, auxv) ==
  /\ stack[1] = argc
  /\ \A i \in 1 .. envc : stack[argc + 2 + i] = 9
  /\ stack[argc + envc + 3] = 0
  /\ \A i \in 1 .. Len(auxv) : stack[argc + envc + 3 + i] = auxv[i]

\* The words of the entry stack are where the layout says.
LEMMA Words ==
  ASSUME NEW argc \in Nat, NEW envc \in Nat, NEW auxv \in Seq(Nat), NEW stack,
         Laid(stack, argc, envc, auxv)
  PROVE  Parts(stack, argc, envc, auxv)
  <1>1. PICK args : args = [i \in 1 .. argc |-> 9]
    BY Zenon
  <1>2. PICK envs : envs = [i \in 1 .. envc |-> 9]
    BY Zenon
  <1>3. args \in Seq(Nat) /\ Len(args) = argc
    BY <1>1, Constantly
  <1>4. envs \in Seq(Nat) /\ Len(envs) = envc /\ \A i \in 1 .. envc : envs[i] = 9
    BY <1>2, Constantly
  <1>5. PICK A : A = << argc >>
    BY Zenon
  <1>6. PICK B : B = A \o args
    BY Zenon
  <1>7. PICK Z : Z = << 0 >>
    BY Zenon
  <1>8. PICK C : C = B \o Z
    BY Zenon
  <1>9. PICK D : D = C \o envs
    BY Zenon
  <1>10. PICK E : E = D \o Z
    BY Zenon
  <1>11. PICK F : F = E \o auxv
    BY Zenon
  <1>12. PICK Y : Y = << 0, 0 >>
    BY Zenon
  <1>13. stack = F \o Y
    BY <1>1, <1>2, <1>5, <1>6, <1>7, <1>8, <1>9, <1>10, <1>11, <1>12 DEF Laid
  <1>14. A \in Seq(Nat) /\ Len(A) = 1 /\ A[1] = argc
    BY <1>5
  <1>15. Z \in Seq(Nat) /\ Len(Z) = 1 /\ Z[1] = 0
    BY <1>7
  <1>16. Y \in Seq(Nat) /\ Len(Y) = 2 /\ Y[1] = 0
    BY <1>12
  <1>17. B \in Seq(Nat) /\ Len(B) = 1 + argc /\ B[1] = argc
    <2>1. Joined(B, A, 1, args, argc)
      BY <1>3, <1>6, <1>14, Concat, Zenon
    <2> QED
      BY <1>14, <2>1 DEF Joined
  <1>18. C \in Seq(Nat) /\ Len(C) = argc + 2 /\ C[1] = argc
    <2>1. Joined(C, B, 1 + argc, Z, 1)
      BY <1>8, <1>15, <1>17, Concat, Zenon
    <2> QED
      BY <1>17, <2>1 DEF Joined
  <1>19. /\ D \in Seq(Nat) /\ Len(D) = argc + 2 + envc /\ D[1] = argc
         /\ \A i \in 1 .. envc : D[argc + 2 + i] = 9
    <2>1. Joined(D, C, argc + 2, envs, envc)
      BY <1>4, <1>9, <1>18, Concat, Zenon
    <2> QED
      <3>1. D \in Seq(Nat) /\ Len(D) = argc + 2 + envc /\ D[1] = C[1]
        BY <2>1 DEF Joined
      <3>2. \A i \in 1 .. envc : D[argc + 2 + i] = envs[i]
        BY <2>1, Zenon DEF Joined
      <3> QED
        BY <1>4, <1>18, <3>1, <3>2, Zenon
  <1>20. /\ E \in Seq(Nat) /\ Len(E) = argc + envc + 3 /\ E[1] = argc
         /\ \A i \in 1 .. envc : E[argc + 2 + i] = 9
         /\ E[argc + envc + 3] = 0
    <2>1. Joined(E, D, argc + 2 + envc, Z, 1)
      BY <1>10, <1>15, <1>19, Concat, Zenon
    <2> QED
      <3>1. /\ E \in Seq(Nat) /\ Len(E) = argc + 2 + envc + 1
            /\ \A i \in 1 .. argc + 2 + envc : E[i] = D[i]
            /\ \A i \in 1 .. 1 : E[argc + 2 + envc + i] = Z[i]
        BY <2>1, Zenon DEF Joined
      <3>2. /\ argc + 2 + envc + 1 = argc + envc + 3 /\ 1 \in 1 .. 1 /\ 1 \in 1 .. argc + 2 + envc
            /\ \A i \in 1 .. envc : argc + 2 + i \in 1 .. argc + 2 + envc
        OBVIOUS
      <3> QED
        BY <1>15, <1>19, <3>1, <3>2, Zenon
  <1>21. PICK n \in Nat : n = Len(auxv)
    OBVIOUS
  <1>22. /\ F \in Seq(Nat) /\ Len(F) = argc + envc + 3 + n
         /\ \A i \in 1 .. argc + envc + 3 : F[i] = E[i]
         /\ \A i \in 1 .. n : F[argc + envc + 3 + i] = auxv[i]
    <2>1. Joined(F, E, argc + envc + 3, auxv, n)
      BY <1>11, <1>20, <1>21, Concat, Zenon
    <2> QED
      BY <2>1 DEF Joined
  <1>23. \A i \in 1 .. argc + envc + 3 + n : stack[i] = F[i]
    <2>1. Joined(stack, F, argc + envc + 3 + n, Y, 2)
      BY <1>13, <1>16, <1>22, Concat, Zenon
    <2> QED
      BY <2>1 DEF Joined
  <1>24. \A i \in 1 .. argc + envc + 3 : stack[i] = E[i]
    <2>1. \A i \in 1 .. argc + envc + 3 : i \in 1 .. argc + envc + 3 + n
      OBVIOUS
    <2> QED
      BY <1>22, <1>23, <2>1, Zenon
  <1>25. stack[1] = argc /\ stack[argc + envc + 3] = 0
    BY <1>20, <1>24
  <1>26. \A i \in 1 .. envc : stack[argc + 2 + i] = 9
    <2>1. \A i \in 1 .. envc : argc + 2 + i \in 1 .. argc + envc + 3
      OBVIOUS
    <2> QED
      BY <1>20, <1>24, <2>1, Zenon
  <1>27. \A i \in 1 .. n : stack[argc + envc + 3 + i] = auxv[i]
    <2>1. \A i \in 1 .. n : argc + envc + 3 + i \in 1 .. argc + envc + 3 + n
      OBVIOUS
    <2> QED
      BY <1>22, <1>23, <2>1, Zenon
  <1> QED
    BY <1>21, <1>25, <1>26, <1>27, Zenon DEF Parts

\* The vector begins behind the argument count, the arguments, the
\* environment and their two null pointers.
VectorAt == image.argc + image.envc + 4

\* The walk of _start ends where the vector begins.
LEMMA VectorFound ==
  ASSUME image \in Images PROVE FindAuxv = VectorAt
  <1>1. PICK argc \in Nat, envc \in Nat, auxv \in Seq(Nat) :
          argc = image.argc /\ envc = image.envc /\ auxv = image.auxv
    BY ImagesAssumption, Zenon
  <1>2. PICK E : E = EntryStack
    OBVIOUS
  <1>3. /\ E[1] = argc /\ E[argc + envc + 3] = 0
        /\ \A i \in 1 .. envc : E[argc + 2 + i] = 9
    <2>1. Laid(E, argc, envc, auxv)
      BY <1>1, <1>2, Zenon DEF EntryStack, AT_NULL, Laid
    <2>2. Parts(E, argc, envc, auxv)
      BY <1>1, <2>1, Words, Zenon
    <2> QED
      BY <2>2, Zenon DEF Parts
  <1>4. PICK scan : scan = CHOOSE g : g = [p \in Nat |-> IF E[p] = 0 THEN p + 1 ELSE g[p + 1]]
    OBVIOUS
  <1>5. FindAuxv = scan[argc + 3]
    BY <1>2, <1>3, <1>4 DEF FindAuxv
  <1>6. PICK stop \in SUBSET Nat : stop = {p \in Nat : E[p] = 0}
    BY Zenon
  <1>7. PICK val : val = [p \in Nat |-> p + 1]
    BY Zenon
  <1>8. \E g : Walks(g, stop, val, 1)
    BY WalkExists, Zenon DEF Steps
  <1>9. \A g : Walks(g, stop, val, 1) <=> g = [p \in Nat |-> IF E[p] = 0 THEN p + 1 ELSE g[p + 1]]
    BY <1>6, <1>7 DEF Walks
  <1>10. Walks(scan, stop, val, 1)
    BY <1>4, <1>8, <1>9, Zenon
  <1>11. PICK from \in Nat : from = argc + 3
    OBVIOUS
  <1>12. from + envc * 1 = argc + envc + 3
    BY <1>11
  <1>13. from + envc * 1 \in stop
    BY <1>3, <1>6, <1>12
  <1>14. \A j \in 0 .. envc - 1 : from + j * 1 \notin stop
    <2> TAKE j \in 0 .. envc - 1
    <2>1. j + 1 \in 1 .. envc /\ from + j * 1 = argc + 2 + (j + 1)
      BY <1>11
    <2>2. E[argc + 2 + (j + 1)] = 9
      BY <1>3, <2>1, Zenon
    <2> QED
      BY <1>6, <2>1, <2>2
  <1>15. scan[from] = val[from + envc * 1]
    <2>1. PICK step \in Steps : step = 1
      BY DEF Steps
    <2>2. StopsAt(stop, 1, from, envc)
      BY <1>13, <1>14, Zenon DEF StopsAt
    <2>3. stop \in SUBSET Nat /\ from \in Nat /\ envc \in Nat
      BY <1>1, <1>6, <1>11
    <2>4. step \in Steps /\ Walks(scan, stop, val, step) /\ StopsAt(stop, step, from, envc)
      BY <1>10, <2>1, <2>2
    <2>5. scan[from] = val[from + envc * step]
      <3>1. envc \in Nat /\ from \in Nat
        BY <2>3
      <3>2. Walks(scan, stop, val, step) /\ StopsAt(stop, step, from, envc) /\ step \in Steps
            => scan[from] = val[from + envc * step]
        BY <3>1, WalkFinds
      <3> QED
        BY <2>4, <3>2
    <2> QED
      BY <2>1, <2>5
  <1>16. val[argc + envc + 3] = argc + envc + 4
    BY <1>7
  <1> QED
    BY <1>1, <1>5, <1>11, <1>12, <1>15, <1>16 DEF VectorAt

\* What getauxval finds: an entry of the type, or 0 where there is none.
LEMMA EntryFound ==
  ASSUME image \in Images, NEW n \in Nat, Len(image.auxv) = 2 * n,
         \A k \in 1 .. n : image.auxv[2 * k - 1] # AT_NULL,
         NEW type \in Nat, NEW i \in 1 .. n, image.auxv[2 * i - 1] = type
  PROVE  \E k \in 1 .. n : /\ image.auxv[2 * k - 1] = type
                          /\ getauxval(VectorAt, type) = image.auxv[2 * k]
  <1>1. PICK argc \in Nat, envc \in Nat, auxv \in Seq(Nat) :
          argc = image.argc /\ envc = image.envc /\ auxv = image.auxv
    BY ImagesAssumption, Zenon
  <1>2. PICK E : E = EntryStack
    OBVIOUS
  <1>3. PICK at \in Nat : at = argc + envc + 4
    OBVIOUS
  <1>4. VectorAt = at
    BY <1>1, <1>3 DEF VectorAt
  <1>5. \A k \in 1 .. 2 * n : E[at + k - 1] = auxv[k]
    <2>1. Laid(E, argc, envc, auxv)
      BY <1>1, <1>2, Zenon DEF EntryStack, AT_NULL, Laid
    <2>2. \A k \in 1 .. Len(auxv) : E[argc + envc + 3 + k] = auxv[k]
      <3>1. Parts(E, argc, envc, auxv)
        BY <1>1, <2>1, Words, Zenon
      <3> QED
        BY <3>1, Zenon DEF Parts
    <2>3. \A k \in 1 .. 2 * n : argc + envc + 3 + k = at + k - 1
      BY <1>3
    <2> QED
      BY <1>1, <2>2, <2>3, Zenon
  <1>6. \A k \in 1 .. n : E[at + (k - 1) * 2] = auxv[2 * k - 1] /\ E[at + (k - 1) * 2 + 1] = auxv[2 * k]
    <2> TAKE k \in 1 .. n
    <2>1. /\ 2 * k - 1 \in 1 .. 2 * n /\ 2 * k \in 1 .. 2 * n
          /\ at + (k - 1) * 2 = at + (2 * k - 1) - 1 /\ at + (k - 1) * 2 + 1 = at + 2 * k - 1
      OBVIOUS
    <2> QED
      BY <1>5, <2>1, Zenon
  <1>7. PICK from : from = CHOOSE g : g = [p \in Nat |-> IF E[p] = AT_NULL THEN 0
                                                    ELSE IF E[p] = type THEN E[p + 1] ELSE g[p + 2]]
    OBVIOUS
  <1>8. getauxval(VectorAt, type) = from[at]
    BY <1>2, <1>4, <1>7 DEF getauxval
  <1>9. PICK stop \in SUBSET Nat : stop = {p \in Nat : E[p] = AT_NULL \/ E[p] = type}
    BY Zenon
  <1>10. PICK val : val = [p \in Nat |-> IF E[p] = AT_NULL THEN 0 ELSE E[p + 1]]
    BY Zenon
  <1>11. \E g : Walks(g, stop, val, 2)
    BY WalkExists, Zenon DEF Steps
  <1>12. \A g : Walks(g, stop, val, 2)
                  <=> g = [p \in Nat |-> IF E[p] = AT_NULL THEN 0
                                         ELSE IF E[p] = type THEN E[p + 1] ELSE g[p + 2]]
    <2>1. \A g : [p \in Nat |-> IF p \in stop THEN val[p] ELSE g[p + 2]]
                  = [p \in Nat |-> IF E[p] = AT_NULL THEN 0
                                   ELSE IF E[p] = type THEN E[p + 1] ELSE g[p + 2]]
      BY <1>9, <1>10
    <2> QED
      BY <2>1, Zenon DEF Walks
  <1>13. Walks(from, stop, val, 2)
    BY <1>7, <1>11, <1>12, Zenon
  <1>14. \A k \in 1 .. n : at + (k - 1) * 2 \in stop <=> auxv[2 * k - 1] = type
    <2> TAKE k \in 1 .. n
    <2>1. at + (k - 1) * 2 \in Nat
      BY <1>3
    <2>2. E[at + (k - 1) * 2] = auxv[2 * k - 1] /\ auxv[2 * k - 1] # AT_NULL
      BY <1>1, <1>6, Zenon
    <2> QED
      BY <1>9, <2>1, <2>2, Zenon
  <1>15. PICK k \in 1 .. n : /\ auxv[2 * k - 1] = type
                             /\ \A j \in 1 .. n : auxv[2 * j - 1] = type => k <= j
    <2> DEFINE T == {k \in 1 .. n : auxv[2 * k - 1] = type}
    <2>1. T \in SUBSET Nat /\ i \in T
      BY <1>1
    <2>2. \E k \in T : \A j \in T : k <= j
      BY <2>1, Least, Zenon
    <2> QED
      BY <2>2
  <1>16. PICK m \in Nat : m = k - 1
    OBVIOUS
  <1>17. at + m * 2 \in stop
    BY <1>14, <1>15, <1>16
  <1>18. \A j \in 0 .. m - 1 : at + j * 2 \notin stop
    <2> TAKE j \in 0 .. m - 1
    <2>1. j + 1 \in 1 .. n /\ ~ (k <= j + 1) /\ (j + 1) - 1 = j
      BY <1>16
    <2>2. auxv[2 * (j + 1) - 1] # type
      BY <1>15, <2>1, Zenon
    <2> QED
      BY <1>14, <2>1, <2>2, Zenon
  <1>19. from[at] = val[at + m * 2]
    <2>1. PICK step \in Steps : step = 2
      BY DEF Steps
    <2>2. StopsAt(stop, 2, at, m)
      BY <1>17, <1>18, Zenon DEF StopsAt
    <2>3. stop \in SUBSET Nat /\ at \in Nat /\ m \in Nat
      BY <1>3, <1>9, <1>16
    <2>4. step \in Steps /\ Walks(from, stop, val, step) /\ StopsAt(stop, step, at, m)
      BY <1>13, <2>1, <2>2
    <2>5. from[at] = val[at + m * step]
      <3>1. m \in Nat /\ at \in Nat
        BY <2>3
      <3>2. Walks(from, stop, val, step) /\ StopsAt(stop, step, at, m) /\ step \in Steps
            => from[at] = val[at + m * step]
        BY <3>1, WalkFinds
      <3> QED
        BY <2>4, <3>2
    <2> QED
      BY <2>1, <2>5
  <1>20. val[at + m * 2] = auxv[2 * k]
    <2>1. at + m * 2 \in Nat /\ at + (k - 1) * 2 = at + m * 2
      BY <1>16
    <2>2. E[at + m * 2] = type /\ E[at + m * 2 + 1] = auxv[2 * k] /\ type # AT_NULL
      BY <1>1, <1>6, <1>15, <2>1, Zenon
    <2> QED
      BY <1>10, <2>1, <2>2
  <1> QED
    BY <1>1, <1>8, <1>15, <1>19, <1>20

-----------------------------------------------------------------------------
\* Alignment.

\* An alignment that divides 8 or is divided by it.
Fits(a) == a \in Nat \ {0} /\ (8 % a = 0 \/ a % 8 = 0)

\* AlignUp yields the multiple that is not below v and less than a above it.
LEMMA Multiple ==
  ASSUME NEW v \in Nat, NEW a \in Nat \ {0}
  PROVE  \E q \in Nat : AlignUp(v, a) = q * a /\ v <= q * a /\ q * a < v + a
  <1>1. PICK x \in Nat : x = v + a - 1
    OBVIOUS
  <1>2. PICK q \in Nat : q = x \div a
    OBVIOUS
  <1>3. q * a <= x /\ x < q * a + a
    BY <1>2
  <1>4. q * a \in Nat
    OBVIOUS
  <1>5. AlignUp(v, a) = q * a
    BY <1>1, <1>2 DEF AlignUp
  <1> QED
    BY <1>1, <1>3, <1>4, <1>5

\* There are four alignments below 8 to consider, and the multiples of 8.
LEMMA Alignments ==
  ASSUME NEW a, Fits(a)
  PROVE  a \in Nat \ {0} /\ (a \in {1, 2, 4} \/ (a >= 8 /\ \E c \in Nat : a = c * 8))
  <1>1. CASE a < 8
    <2>1. a \in {1, 2, 3, 4, 5, 6, 7} /\ 8 % a = 0
      BY <1>1 DEF Fits
    <2>2. 8 % 3 = 2 /\ 8 % 5 = 3 /\ 8 % 6 = 2 /\ 8 % 7 = 1
      OBVIOUS
    <2>3. a # 3 /\ a # 5 /\ a # 6 /\ a # 7
      BY <2>1, <2>2
    <2>4. a \in Nat \ {0} /\ a \in {1, 2, 4}
      BY <2>1, <2>3
    <2> QED
      BY <2>4
  <1>2. CASE a = 8
    BY <1>2
  <1>3. CASE a > 8
    <2>1. 8 % a = 8
      BY <1>3 DEF Fits
    <2>2. a % 8 = 0
      BY <2>1 DEF Fits
    <2> QED
      BY <1>3, <2>2 DEF Fits
  <1> QED
    BY <1>1, <1>2, <1>3 DEF Fits

\* align_up moves v up to a multiple of the alignment and of 8, at most by
\* their sum.
LEMMA Aligned ==
  ASSUME NEW v \in Nat, NEW a, Fits(a)
  PROVE  /\ align_up(v, a) \in Nat /\ v <= align_up(v, a) /\ align_up(v, a) < v + a + 8
         /\ align_up(v, a) % a = 0 /\ align_up(v, a) % 8 = 0
  <1>1. a \in Nat \ {0} /\ (a \in {1, 2, 4} \/ (a >= 8 /\ \E c \in Nat : a = c * 8))
    BY Alignments
  <1>2. CASE a \in {1, 2, 4}
    <2>1. align_up(v, a) = AlignUp(v, 8)
      BY <1>2 DEF align_up
    <2>2. PICK q \in Nat : AlignUp(v, 8) = q * 8 /\ v <= q * 8 /\ q * 8 < v + 8
      <3>1. 8 \in Nat \ {0}
        OBVIOUS
      <3> QED
        BY <3>1, Multiple, Zenon
    <2>3. (q * 8) % a = 0 /\ (q * 8) % 8 = 0
      BY <1>2
    <2> QED
      BY <1>2, <2>1, <2>2, <2>3
  <1>3. CASE a >= 8 /\ \E c \in Nat : a = c * 8
    <2>1. PICK c \in Nat : a = c * 8
      BY <1>3
    <2>2. align_up(v, a) = AlignUp(v, a)
      BY <1>1, <1>3 DEF align_up
    <2>3. PICK q \in Nat : AlignUp(v, a) = q * a /\ v <= q * a /\ q * a < v + a
      BY <1>1, Multiple, Zenon
    <2>4. q * a \in Nat /\ (q * a) % a = 0
      BY <1>1
    <2>5. q * a = (q * c) * 8 /\ q * c \in Nat
      BY <2>1
    <2>6. ((q * c) * 8) % 8 = 0
      BY <2>5
    <2> QED
      <3>1. PICK x \in Nat : x = q * a
        BY <2>4
      <3>2. align_up(v, a) = x /\ v <= x /\ x < v + a /\ x % a = 0 /\ x % 8 = 0
        BY <2>2, <2>3, <2>4, <2>5, <2>6, <3>1
      <3> QED
        BY <1>1, <3>1, <3>2
  <1> QED
    BY <1>1, <1>2, <1>3

\* Where the segment is aligned to 8 or a multiple of 8 long, the room that
\* __tls_setup_self makes is the room the linker took.
LEMMA SameRoom ==
  ASSUME NEW memsz \in Nat, NEW align \in Nat, NEW a, a = IF align # 0 THEN align ELSE 8, Fits(a),
         align >= 8 \/ memsz % 8 = 0
  PROVE  align_up(memsz, a) = AlignUp(memsz, IF align = 0 THEN 1 ELSE align)
  <1>1. a \in Nat \ {0} /\ (a \in {1, 2, 4} \/ a >= 8)
    BY Alignments
  <1>2. CASE align >= 8
    BY <1>2 DEF align_up
  <1>3. CASE align < 8
    <2>1. align_up(memsz, a) = AlignUp(memsz, 8)
      BY <1>1, <1>3 DEF align_up
    <2>2. PICK c \in Nat : memsz = c * 8
      BY <1>3
    <2>3. PICK q \in Nat : AlignUp(memsz, 8) = q * 8 /\ memsz <= q * 8 /\ q * 8 < memsz + 8
      <3>1. 8 \in Nat \ {0}
        OBVIOUS
      <3> QED
        BY <3>1, Multiple, Zenon
    <2>4. AlignUp(memsz, 8) = memsz
      BY <2>2, <2>3
    <2>5. PICK b \in {1, 2, 4} : b = IF align = 0 THEN 1 ELSE align
      BY <1>1, <1>3
    <2>6. PICK r \in Nat : AlignUp(memsz, b) = r * b /\ memsz <= r * b /\ r * b < memsz + b
      <3>1. b \in Nat \ {0}
        BY <2>5
      <3> QED
        BY <3>1, Multiple, Zenon
    <2>7. AlignUp(memsz, b) = memsz
      BY <2>2, <2>6
    <2> QED
      BY <2>1, <2>4, <2>5, <2>7
  <1> QED
    BY <1>2, <1>3

-----------------------------------------------------------------------------
\* What the program knows of its template.

Header == [type : Nat, filesz : Nat, memsz : Nat, align : Nat]

TakenAlign(ph) == IF ph.align # 0 THEN ph.align ELSE 8

Template(ph) ==
  [filesz |-> ph.filesz, align |-> TakenAlign(ph), size |-> align_up(ph.memsz, TakenAlign(ph))]

\* The template is the segment's, if there is one.
Found ==
  \/ Segments = {} /\ tls = NoTls
  \/ \E ph \in Header : Segments = {ph} /\ Fits(TakenAlign(ph)) /\ tls = Template(ph)

\* The entries tls_find_template asks for are those of the headers.
LEMMA HeadersFound ==
  ASSUME image \in Images
  PROVE  /\ getauxval(VectorAt, AT_PHDR) # 0 /\ getauxval(VectorAt, AT_PHENT) # 0
         /\ getauxval(VectorAt, AT_PHNUM) = Len(image.phdrs)
  <1>1. PICK n \in Nat :
          /\ Len(image.auxv) = 2 * n
          /\ \A k \in 1 .. n :
               /\ image.auxv[2 * k - 1] # AT_NULL
               /\ image.auxv[2 * k - 1] \in {AT_PHDR, AT_PHENT} => image.auxv[2 * k] # 0
               /\ image.auxv[2 * k - 1] = AT_PHNUM => image.auxv[2 * k] = Len(image.phdrs)
          /\ \A type \in {AT_PHDR, AT_PHENT, AT_PHNUM} : \E k \in 1 .. n : image.auxv[2 * k - 1] = type
    <2>1. Len(image.auxv) \in Nat
      BY ImagesAssumption
    <2>2. \A n \in 0 .. Len(image.auxv) : n \in Nat
      BY <2>1
    <2> QED
      BY <2>2, ImagesAssumption, Zenon
  <1>2. ASSUME NEW type \in {AT_PHDR, AT_PHENT, AT_PHNUM}
        PROVE  \E k \in 1 .. n : /\ image.auxv[2 * k - 1] = type
                                 /\ getauxval(VectorAt, type) = image.auxv[2 * k]
    <2>1. PICK i \in 1 .. n : image.auxv[2 * i - 1] = type
      BY <1>1, Zenon
    <2>2. type \in Nat
      BY DEF AT_PHDR, AT_PHENT, AT_PHNUM
    <2>3. Len(image.auxv) = 2 * n /\ \A k \in 1 .. n : image.auxv[2 * k - 1] # AT_NULL
      BY <1>1, Zenon
    <2> QED
      BY <1>1, <2>1, <2>2, <2>3, EntryFound, Zenon
  <1> QED
    BY <1>1, <1>2, Zenon

\* What tls_find_template makes of the places where it meets PT_TLS.
First(S) == CHOOSE i \in S : \A j \in S : i <= j
Taken(S) ==
  IF \/ getauxval(VectorAt, AT_PHDR) = 0 \/ getauxval(VectorAt, AT_PHNUM) = 0
     \/ getauxval(VectorAt, AT_PHENT) = 0 \/ S = {}
    THEN NoTls ELSE Template(image.phdrs[First(S)])

\* tls_find_template finds the template.
LEMMA TemplateFound ==
  ASSUME image \in Images, tls' = tls_find_template(FindAuxv), image' = image
  PROVE  Found'
  <1>1. FindAuxv = VectorAt
    BY VectorFound
  <1>2. /\ getauxval(VectorAt, AT_PHDR) # 0 /\ getauxval(VectorAt, AT_PHENT) # 0
        /\ getauxval(VectorAt, AT_PHNUM) = Len(image.phdrs)
    BY HeadersFound
  <1>3. PICK phdrs \in Seq(Header) : phdrs = image.phdrs
    BY ImagesAssumption DEF Header
  <1>4. Len(phdrs) \in Nat /\ DOMAIN phdrs = 1 .. Len(phdrs) /\ \A i \in DOMAIN phdrs : phdrs[i] \in Header
    BY <1>3
  <1>5. PICK found : found = {i \in 1 .. Len(phdrs) : phdrs[i].type = PT_TLS}
    BY Zenon
  <1>6. PICK at : at = First(found)
    OBVIOUS
  <1> DEFINE ph == phdrs[at]
  <1>7. tls' = IF Len(phdrs) = 0 \/ found = {} THEN NoTls ELSE Template(ph)
    <2>1. found = {i \in 1 .. getauxval(VectorAt, AT_PHNUM) : image.phdrs[i].type = PT_TLS}
      BY <1>2, <1>3, <1>5, Zenon
    <2>2. tls_find_template(VectorAt)
          = Taken({i \in 1 .. getauxval(VectorAt, AT_PHNUM) : image.phdrs[i].type = PT_TLS})
      BY Zenon DEF tls_find_template, Taken, First, Template, TakenAlign
    <2>3. tls_find_template(VectorAt) = Taken(found)
      BY <2>1, <2>2, Zenon
    <2> QED
      BY <1>1, <1>2, <1>3, <1>6, <2>3 DEF Taken
  <1>8. Segments' = {phdrs[i] : i \in found}
    BY <1>3, <1>4, <1>5 DEF Segments
  <1>9. CASE found = {}
    BY <1>7, <1>8, <1>9 DEF Found
  <1>10. CASE found # {}
    <2>1. PICK i : i \in found
      BY <1>10
    <2>2. i \in DOMAIN phdrs /\ phdrs[i].type = PT_TLS /\ phdrs[i] \in Header
      BY <1>4, <1>5, <2>1
    <2>3. \A j \in found : j = i
      BY <1>3, <1>4, <1>5, <2>2, ImagesAssumption, Zenon
    <2>4. First(found) = i
      <3>1. \A j \in found : i <= j
        BY <2>2, <2>3, <1>4
      <3> QED
        BY <2>1, <2>3, <3>1 DEF First
    <2>5. ph = phdrs[i] /\ ph \in Header
      BY <1>6, <2>2, <2>4, Zenon
    <2>6. Segments' = {ph}
      BY <1>8, <2>1, <2>3, <2>5
    <2>7. ph.align = 0 \/ 8 % ph.align = 0 \/ ph.align % 8 = 0
      BY <1>3, <2>2, <2>5, ImagesAssumption
    <2>8. Fits(TakenAlign(ph))
      BY <2>5, <2>7 DEF Fits, TakenAlign, Header
    <2>9. Len(phdrs) # 0
      BY <1>4, <2>2
    <2> QED
      BY <1>7, <1>10, <2>5, <2>6, <2>8, <2>9 DEF Found
  <1> QED
    BY <1>9, <1>10

-----------------------------------------------------------------------------
\* The invariant.

Numbers ==
  /\ image \in Images /\ pc \in [Threads -> Labels] /\ top \in Nat \ {0}
  /\ base \in [Threads -> Nat] /\ fs \in [Threads -> Nat]

\* Until main has left _start no other thread is born and none has a block;
\* from then on the template is known.
Begun ==
  \/ pc[1] = "entry" /\ \A t \in Threads : fs[t] = 0 /\ (t # 1 => pc[t] = "unborn")
  \/ pc[1] # "entry" /\ Found

\* A thread runs with a block if there is a template.
Equipped == \A t \in Threads : Running(t) => tls.size = 0 \/ fs[t] # 0

\* The block, the self-pointer above it, and the mapping around both, all
\* below the addresses that mmap has still to give out.
Inside(t) ==
  /\ fs[t] = base[t] + tls.size /\ base[t] % tls.align = 0 /\ fs[t] % 8 = 0 /\ fs[t] + 8 <= top
  /\ \E m \in blocks : m.owner = t /\ m.raw <= base[t] /\ fs[t] + 8 <= m.raw + m.need

Housed == \A t \in Threads : fs[t] # 0 => Inside(t)

Apart ==
  \A t, u \in Threads : fs[t] # 0 /\ fs[u] # 0 /\ t # u => fs[t] + 8 <= base[u] \/ fs[u] + 8 <= base[t]

TlsInv == Numbers /\ Begun /\ Equipped /\ Housed /\ Apart

\* What is known of the sizes once the template is.
LEMMA Sizes ==
  ASSUME Found, tls.size # 0
  PROVE  Fits(tls.align) /\ tls.align \in Nat \ {0} /\ tls.size \in Nat \ {0} /\ tls.size % 8 = 0
  <1>1. PICK ph \in Header : Fits(TakenAlign(ph)) /\ tls = Template(ph)
    BY DEF Found, NoTls
  <1>2. PICK a : a = TakenAlign(ph)
    OBVIOUS
  <1>3. tls.align = a /\ tls.size = align_up(ph.memsz, a)
    BY <1>1, <1>2 DEF Template
  <1>4. ph.memsz \in Nat /\ Fits(a)
    BY <1>1, <1>2 DEF Header
  <1>5. align_up(ph.memsz, a) \in Nat /\ align_up(ph.memsz, a) % 8 = 0
    BY <1>4, Aligned
  <1> QED
    BY <1>3, <1>4, <1>5 DEF Fits

\* A block fits its mapping, and the next mapping begins above it.
LEMMA Room ==
  ASSUME NEW raw \in Nat, NEW align, Fits(align), NEW size \in Nat \ {0}, size % 8 = 0,
         NEW b, b = align_up(raw, align), NEW n, n = size + align + 64
  PROVE  /\ b \in Nat /\ raw <= b /\ b % align = 0 /\ (b + size) % 8 = 0
         /\ n \in Nat /\ b + size + 8 <= raw + n
         /\ AlignUp(raw + n, PageSize) \in Nat /\ raw + n <= AlignUp(raw + n, PageSize)
  <1>1. align \in Nat \ {0} /\ n \in Nat
    BY DEF Fits
  <1>2. b \in Nat /\ raw <= b /\ b < raw + align + 8 /\ b % align = 0 /\ b % 8 = 0
    BY Aligned, Zenon
  <1>3. PICK v \in Nat : v = raw + n
    BY <1>1
  <1>4. AlignUp(v, PageSize) \in Nat /\ v <= AlignUp(v, PageSize)
    <2>1. PageSize \in Nat \ {0} /\ v \in Nat
      BY <1>3, ProcessAssumption
    <2>2. PICK q \in Nat : AlignUp(v, PageSize) = q * PageSize /\ v <= q * PageSize
      BY <2>1, Multiple, Zenon
    <2>3. q * PageSize \in Nat
      BY <2>1
    <2> QED
      BY <2>2, <2>3, Zenon
  <1>5. (b + size) % 8 = 0 /\ b + size + 8 <= raw + n
    BY <1>1, <1>2
  <1> QED
    BY <1>1, <1>2, <1>3, <1>4, <1>5, Zenon

\* The template stays known.
LEMMA FoundStays ==
  ASSUME Found, UNCHANGED << image, tls >> PROVE Found'
  BY DEF Found, Segments

\* Steps that leave the blocks alone, main on its way through _start apart.
LEMMA BlocksStay ==
  ASSUME TlsInv, UNCHANGED << image, tls, base, fs >>, pc[1] # "entry", pc'[1] # "entry",
         pc' \in [Threads -> Labels], top' \in Nat, top <= top', blocks \subseteq blocks',
         \A t \in Threads : Running(t)' => Running(t) \/ tls.size = 0
  PROVE  TlsInv'
  <1>1. Numbers'
    BY DEF TlsInv, Numbers
  <1>2. Begun'
    BY FoundStays DEF TlsInv, Begun
  <1>3. Equipped'
    BY DEF TlsInv, Equipped
  <1>4. Housed'
    <2> SUFFICES ASSUME NEW t \in Threads, fs[t] # 0 PROVE Inside(t)'
      BY DEF Housed
    <2>1. Inside(t) /\ fs[t] \in Nat /\ top \in Nat
      BY DEF TlsInv, Housed, Numbers
    <2>2. fs[t] + 8 <= top'
      BY <2>1 DEF Inside
    <2> QED
      BY <2>1, <2>2, Zenon DEF Inside
  <1>5. Apart'
    BY DEF TlsInv, Apart
  <1> QED
    BY <1>1, <1>2, <1>3, <1>4, <1>5 DEF TlsInv

\* _start and __libc_start find the template.
LEMMA TemplateHolds ==
  ASSUME TlsInv, Start PROVE TlsInv'
  <1>1. /\ Numbers /\ pc[1] = "entry" /\ pc' = [pc EXCEPT ![1] = "tls"]
        /\ tls' = tls_find_template(FindAuxv) /\ UNCHANGED << image, blocks, base, fs, top >>
    BY DEF TlsInv, Start, Goto
  <1>2. 1 \in Threads
    BY ProcessAssumption DEF Threads
  <1>3. \A t \in Threads : fs[t] = 0 /\ (t # 1 => pc[t] = "unborn")
    BY <1>1 DEF TlsInv, Begun
  <1>4. pc'[1] = "tls" /\ pc' \in [Threads -> Labels]
    BY <1>1, <1>2 DEF Numbers, Labels
  <1>5. \A t \in Threads : ~ Running(t)' /\ fs'[t] = 0
    BY <1>1, <1>2, <1>3, <1>4 DEF Numbers, Running
  <1>6. Numbers'
    BY <1>1, <1>4 DEF Numbers
  <1>7. Begun'
    <2>1. Found'
      BY <1>1, TemplateFound DEF Numbers
    <2> QED
      BY <1>4, <2>1 DEF Begun
  <1>8. Equipped'
    BY <1>5, Zenon DEF Equipped
  <1>9. Housed' /\ Apart'
    BY <1>5, Zenon DEF Housed, Apart
  <1> QED
    BY <1>6, <1>7, <1>8, <1>9 DEF TlsInv

\* Only main is at _start, and no other thread is born before it has left.
LEMMA PastEntry ==
  ASSUME TlsInv, NEW t \in Threads, pc[t] \notin {"entry", "unborn"} PROVE pc[1] # "entry" /\ Found
  BY DEF TlsInv, Begun

\* The new block lies above all others.
LEMMA SetupHolds ==
  ASSUME TlsInv, NEW t \in Threads, TlsSetup(t) PROVE TlsInv'
  <1>1. /\ Numbers /\ pc[t] = "tls" /\ tls.size # 0 /\ UNCHANGED << image, tls >>
        /\ pc' = [pc EXCEPT ![t] = "run"]
    BY DEF TlsInv, TlsSetup, Goto
  <1>2. pc[1] # "entry" /\ Found
    BY <1>1, PastEntry
  <1>3. Fits(tls.align) /\ tls.align \in Nat \ {0} /\ tls.size \in Nat \ {0} /\ tls.size % 8 = 0
    BY <1>1, <1>2, Sizes
  <1>4. PICK raw \in {top, top + PageSize} :
          /\ Mapped(t, raw)
          /\ base' = [base EXCEPT ![t] = align_up(raw, tls.align)]
          /\ fs' = [fs EXCEPT ![t] = align_up(raw, tls.align) + tls.size]
    BY Zenon DEF TlsSetup
  <1>5. raw \in Nat /\ top <= raw /\ top \in Nat
    BY <1>1, <1>4, ProcessAssumption DEF Numbers
  <1>6. PICK b, n, size : b = align_up(raw, tls.align) /\ n = need /\ size = tls.size
    OBVIOUS
  <1>7. /\ b \in Nat /\ n \in Nat /\ size \in Nat \ {0} /\ raw <= b /\ b % tls.align = 0
        /\ (b + size) % 8 = 0 /\ b + size + 8 <= raw + n
        /\ top' \in Nat /\ raw + n <= top'
    <2>1. top' = AlignUp(raw + n, PageSize)
      BY <1>4, <1>6 DEF Mapped
    <2>2. n = size + tls.align + 64 /\ size \in Nat \ {0} /\ size % 8 = 0
      BY <1>3, <1>6 DEF need
    <2>3. PICK align : align = tls.align
      OBVIOUS
    <2>4. raw \in Nat /\ Fits(align) /\ b = align_up(raw, align) /\ n = size + align + 64
      BY <1>3, <1>5, <1>6, <2>2, <2>3
    <2>5. /\ b \in Nat /\ raw <= b /\ b % align = 0 /\ (b + size) % 8 = 0
          /\ n \in Nat /\ b + size + 8 <= raw + n
          /\ AlignUp(raw + n, PageSize) \in Nat /\ raw + n <= AlignUp(raw + n, PageSize)
      <3>1. size \in Nat \ {0} /\ size % 8 = 0
        BY <2>2
      <3> HIDE <2>3
      <3> QED
        BY <2>4, <3>1, Room
    <2> QED
      BY <2>1, <2>2, <2>3, <2>5
  <1>8. /\ base'[t] = b /\ fs'[t] = b + size
        /\ \A u \in Threads : u # t => base'[u] = base[u] /\ fs'[u] = fs[u] /\ pc'[u] = pc[u]
        /\ pc' \in [Threads -> Labels] /\ pc'[t] = "run" /\ pc'[1] # "entry"
        /\ base' \in [Threads -> Nat] /\ fs' \in [Threads -> Nat]
    BY <1>1, <1>2, <1>4, <1>6, <1>7 DEF Numbers, Labels
  <1>9. top <= top' /\ top' \in Nat \ {0}
    BY <1>1, <1>5, <1>6, <1>7 DEF Numbers
  <1>10. \A u \in Threads : u # t /\ fs[u] # 0 => fs[u] + 8 <= b /\ fs[u] + 8 <= top'
    <2> SUFFICES ASSUME NEW u \in Threads, fs[u] # 0 PROVE fs[u] + 8 <= b /\ fs[u] + 8 <= top'
      OBVIOUS
    <2>1. fs[u] \in Nat /\ fs[u] + 8 <= top
      BY <1>1 DEF TlsInv, Housed, Inside, Numbers
    <2> QED
      BY <1>5, <1>6, <1>7, <1>9, <2>1
  <1>11. Numbers'
    BY <1>1, <1>8, <1>9 DEF Numbers
  <1>12. Begun'
    BY <1>1, <1>2, <1>8, FoundStays DEF Begun
  <1>13. Equipped'
    <2> SUFFICES ASSUME NEW u \in Threads, Running(u)' PROVE tls.size = 0 \/ fs'[u] # 0
      BY <1>1 DEF Equipped
    <2>1. CASE u = t
      BY <1>7, <1>8, <2>1
    <2>2. CASE u # t
      BY <1>8, <2>2 DEF TlsInv, Equipped, Running
    <2> QED
      BY <2>1, <2>2
  <1>14. Housed'
    <2> SUFFICES ASSUME NEW u \in Threads, fs'[u] # 0 PROVE Inside(u)'
      BY DEF Housed
    <2>1. CASE u = t
      <3>1. fs'[t] = base'[t] + tls.size /\ base'[t] % tls.align = 0 /\ fs'[t] % 8 = 0
        BY <1>6, <1>7, <1>8
      <3>2. fs'[t] + 8 <= top'
        BY <1>5, <1>6, <1>7, <1>8
      <3>3. [owner |-> t, raw |-> raw, need |-> n] \in blocks'
        BY <1>4, <1>6 DEF Mapped
      <3>4. \E m \in blocks' : m.owner = t /\ m.raw <= base'[t] /\ fs'[t] + 8 <= m.raw + m.need
        BY <1>7, <1>8, <3>3
      <3> QED
        BY <1>1, <2>1, <3>1, <3>2, <3>4 DEF Inside
    <2>2. CASE u # t
      <3>1. Inside(u) /\ fs[u] + 8 <= top' /\ base'[u] = base[u] /\ fs'[u] = fs[u]
        BY <1>8, <1>10, <2>2 DEF TlsInv, Housed
      <3>2. blocks \subseteq blocks'
        BY <1>4 DEF Mapped
      <3> QED
        BY <1>1, <3>1, <3>2, Zenon DEF Inside
    <2> QED
      BY <2>1, <2>2
  <1>15. Apart'
    <2> SUFFICES ASSUME NEW u \in Threads, NEW w \in Threads, fs'[u] # 0, fs'[w] # 0, u # w
                 PROVE  fs'[u] + 8 <= base'[w] \/ fs'[w] + 8 <= base'[u]
      BY DEF Apart
    <2>1. CASE u = t
      BY <1>8, <1>10, <2>1
    <2>2. CASE w = t
      BY <1>8, <1>10, <2>2
    <2>3. CASE u # t /\ w # t
      BY <1>8, <2>3 DEF TlsInv, Apart
    <2> QED
      BY <2>1, <2>2, <2>3
  <1> QED
    BY <1>11, <1>12, <1>13, <1>14, <1>15 DEF TlsInv

\* The end of a thread, or with main's of all of them.
LEMMA EndsStop ==
  ASSUME Numbers, NEW t \in Threads, Ends(t), pc[1] # "entry"
  PROVE  /\ pc' \in [Threads -> Labels] /\ pc'[1] # "entry"
         /\ \A u \in Threads : Running(u)' => Running(u)
  <1>1. 1 \in Threads
    BY ProcessAssumption DEF Threads
  <1>2. CASE t = 1
    <2>1. pc' = [u \in Threads |-> "gone"]
      BY <1>2 DEF Ends
    <2> QED
      BY <1>1, <2>1 DEF Labels, Running
  <1>3. CASE t # 1
    <2>1. pc' = [pc EXCEPT ![t] = "gone"]
      BY <1>3 DEF Ends, Goto
    <2> QED
      BY <1>1, <2>1 DEF Numbers, Labels, Running
  <1> QED
    BY <1>2, <1>3

\* A failing __tls_setup_self leaves at most a mapping nobody uses.
LEMMA FailureHolds ==
  ASSUME TlsInv, NEW t \in Threads, TlsFails(t) PROVE TlsInv'
  <1>1. /\ Numbers /\ pc[t] = "tls" /\ tls.size # 0 /\ UNCHANGED << image, tls, base, fs >> /\ Ends(t)
    BY DEF TlsInv, TlsFails
  <1>2. pc[1] # "entry" /\ Found
    BY <1>1, PastEntry
  <1>3. top' \in Nat /\ top <= top' /\ blocks \subseteq blocks'
    <2>1. CASE UNCHANGED << blocks, top >>
      BY <1>1, <2>1 DEF Numbers
    <2>2. CASE Mapped(t, top)
      <3>1. top \in Nat /\ Fits(tls.align) /\ tls.size \in Nat \ {0} /\ tls.size % 8 = 0
        BY <1>1, <1>2, Sizes DEF Numbers
      <3>2. PICK n \in Nat : n = need
        BY <3>1 DEF need, Fits
      <3>3. AlignUp(top + n, PageSize) \in Nat /\ top + n <= AlignUp(top + n, PageSize)
        <4>1. PICK align, size, b : align = tls.align /\ size = tls.size /\ b = align_up(top, align)
          OBVIOUS
        <4>2. Fits(align) /\ size \in Nat \ {0} /\ size % 8 = 0 /\ n = size + align + 64
          BY <3>1, <3>2, <4>1 DEF need
        <4>3. top \in Nat /\ b = align_up(top, align)
          BY <3>1, <4>1
        <4> QED
          BY <4>2, <4>3, Room
      <3> QED
        BY <2>2, <3>1, <3>2, <3>3 DEF Mapped
    <2> QED
      BY <2>1, <2>2 DEF TlsFails
  <1> QED
    BY <1>1, <1>2, <1>3, EndsStop, BlocksStay

\* The other steps of a thread leave the blocks alone.
LEMMA OthersHold ==
  ASSUME TlsInv, NEW t \in Threads,
         \/ TlsNone(t) \/ Exit(t) \/ Printf(t) \/ OpenKmsg(t) \/ Store(t)
         \/ Choose(t) \/ Write(t) \/ \E u \in Threads : ThreadStarts(t, u)
  PROVE  TlsInv'
  <1>1. Numbers /\ UNCHANGED << image, tls, base, fs, blocks, top >>
    BY DEF TlsInv, TlsNone, Exit, Printf, OpenKmsg, Store, Choose, Write, ThreadStarts, tlsvars
  <1>2. top' \in Nat /\ top <= top' /\ blocks \subseteq blocks'
    BY <1>1 DEF Numbers
  <1>3. pc[t] \in {"tls", "run", "open", "store", "choose", "write"}
    BY Zenon DEF TlsNone, Exit, Printf, OpenKmsg, Store, Choose, Write, ThreadStarts
  <1>4. pc[1] # "entry"
    BY <1>3, PastEntry
  <1>5. CASE Exit(t)
    BY <1>1, <1>2, <1>4, <1>5, EndsStop, BlocksStay DEF Exit
  <1>6. CASE ~ Exit(t)
    <2>1. PICK u \in Threads, l \in Labels \ {"entry"} :
            /\ pc' = [pc EXCEPT ![u] = l]
            /\ Running(u) \/ tls.size = 0 \/ l = "tls"
      <3>1. CASE \E u \in Threads : ThreadStarts(t, u)
        BY <3>1, Zenon DEF ThreadStarts, Goto, Labels
      <3>2. CASE TlsNone(t)
        BY <3>2, Zenon DEF TlsNone, Goto, Labels
      <3>3. CASE Printf(t) \/ OpenKmsg(t) \/ Store(t) \/ Choose(t) \/ Write(t)
        <4>1. PICK l \in {"run", "open", "store", "choose", "write"} : pc' = [pc EXCEPT ![t] = l]
          BY <3>3, Zenon DEF Printf, OpenKmsg, Store, Choose, Write, Goto
        <4>2. Running(t)
          BY <3>3 DEF Printf, OpenKmsg, Store, Choose, Write, Running
        <4>3. l \in Labels \ {"entry"}
          BY <4>1 DEF Labels
        <4> QED
          BY <4>1, <4>2, <4>3, Zenon
      <3> QED
        BY <1>6, <3>1, <3>2, <3>3
    <2>2. pc' \in [Threads -> Labels] /\ pc'[1] # "entry"
      BY <1>1, <1>4, <2>1 DEF Numbers
    <2>3. \A w \in Threads : Running(w)' => Running(w) \/ tls.size = 0
      BY <1>1, <2>1 DEF Numbers, Running
    <2> QED
      BY <1>1, <1>2, <1>4, <2>2, <2>3, BlocksStay
  <1> QED
    BY <1>5, <1>6

-----------------------------------------------------------------------------
\* The invariant of the blocks holds in every state.
LEMMA TlsInvariance == Spec => []TlsInv
  <1>1. Init => TlsInv
    <2> SUFFICES ASSUME Init PROVE TlsInv
      OBVIOUS
    <2>1. /\ \A t \in Threads : fs[t] = 0 /\ pc[t] \in {"entry", "unborn"} /\ (t # 1 => pc[t] = "unborn")
          /\ image \in Images /\ base \in [Threads -> Nat] /\ fs \in [Threads -> Nat]
      BY DEF Init
    <2>2. top \in Nat \ {0} /\ pc \in [Threads -> Labels] /\ pc[1] = "entry"
      BY ProcessAssumption DEF Init, Labels, Threads
    <2> QED
      BY <2>1, <2>2 DEF TlsInv, Numbers, Begun, Equipped, Housed, Apart, Running
  <1>2. TlsInv /\ [Next]_vars => TlsInv'
    <2> SUFFICES ASSUME TlsInv, [Next]_vars PROVE TlsInv'
      OBVIOUS
    <2>1. CASE UNCHANGED vars
      <3>1. UNCHANGED << image, pc, tls, blocks, base, fs, top >>
        BY <2>1, Zenon DEF vars, tlsvars
      <3>2. Numbers' /\ Begun'
        BY <3>1, FoundStays, Zenon DEF TlsInv, Numbers, Begun
      <3>3. Equipped'
        BY <3>1, Zenon DEF TlsInv, Equipped, Running
      <3>4. Housed' /\ Apart'
        <4>1. Housed'
          BY <3>1, Zenon DEF TlsInv, Housed, Inside
        <4>2. Apart'
          BY <3>1, Zenon DEF TlsInv, Apart
        <4> QED
          BY <4>1, <4>2
      <3> QED
        BY <3>2, <3>3, <3>4, Zenon DEF TlsInv
    <2> QED
      BY <2>1, TemplateHolds, SetupHolds, FailureHolds, OthersHold DEF Next
  <1> QED
    BY <1>1, <1>2, PTL DEF Spec

\* BlocksApart for any number of threads, any page size and any image: the
\* blocks that __tls_setup_self builds are aligned, lie with their self-pointer
\* in their own mapping, and never overlap.
THEOREM BlocksStayApart == Spec => []BlocksApart
  <1>1. TlsInv => BlocksApart
    BY DEF TlsInv, Housed, Inside, Apart, BlocksApart
  <1> QED
    BY <1>1, TlsInvariance, PTL

\* Every template is aligned to 8 or a multiple of 8 long.
WholeWords ==
  \A im \in Images : \A i \in DOMAIN im.phdrs :
     im.phdrs[i].type = PT_TLS => im.phdrs[i].align >= 8 \/ im.phdrs[i].memsz % 8 = 0

\* VariablesInPlace for any number of threads, arguments, variables of the
\* environment and entries of the vector: what _start and tls_find_template
\* find, and what __tls_setup_self builds of it, is what the linker took for
\* granted.  The hypothesis is needed: a template of four bytes aligned to four
\* is placed four bytes too low.
THEOREM VariablesStayInPlace ==
  ASSUME WholeWords PROVE Spec => []VariablesInPlace
  <1>1. TlsInv => VariablesInPlace
    <2> SUFFICES ASSUME TlsInv, NEW t \in Threads, NEW ph \in Segments, Running(t), ph.memsz > 0
                 PROVE  /\ fs[t] # 0
                        /\ \A o \in 0 .. ph.memsz - 1 :
                             Byte(t, fs[t] - LinkedBelow(ph) + o) = Initially(ph, o)
      BY DEF VariablesInPlace
    <2>1. Found
      BY PastEntry DEF Running
    <2>2. ph \in Header /\ Fits(TakenAlign(ph)) /\ tls = Template(ph)
      BY <2>1 DEF Found
    <2>3. ph.memsz \in Nat /\ ph.filesz \in Nat /\ ph.align \in Nat
      BY <2>2 DEF Header
    <2>4. ph.align >= 8 \/ ph.memsz % 8 = 0
      BY DEF WholeWords, Segments, TlsInv, Numbers
    <2>5. tls.size = LinkedBelow(ph) /\ tls.filesz = ph.filesz
      <3>1. align_up(ph.memsz, TakenAlign(ph)) = AlignUp(ph.memsz, IF ph.align = 0 THEN 1 ELSE ph.align)
        BY <2>2, <2>3, <2>4, SameRoom DEF TakenAlign
      <3> QED
        BY <2>2, <3>1 DEF Template, LinkedBelow
    <2>6. tls.size \in Nat /\ tls.size # 0
      <3>1. tls.size = align_up(ph.memsz, TakenAlign(ph))
        BY <2>2 DEF Template
      <3> QED
        BY <2>2, <2>3, <3>1, Aligned
    <2>7. fs[t] # 0
      BY <2>6 DEF TlsInv, Equipped
    <2>8. fs[t] = base[t] + tls.size /\ base[t] \in Nat
      BY <2>7 DEF TlsInv, Housed, Inside, Numbers
    <2>9. ASSUME NEW o \in 0 .. ph.memsz - 1
          PROVE  Byte(t, fs[t] - LinkedBelow(ph) + o) = Initially(ph, o)
      <3>1. fs[t] - LinkedBelow(ph) + o = base[t] + o /\ o \in Nat
        BY <2>3, <2>5, <2>6, <2>8
      <3>2. Byte(t, base[t] + o) = Initially(ph, o)
        BY <2>3, <2>5, <2>8, <3>1 DEF Byte, Initially
      <3> QED
        BY <3>1, <3>2
    <2> QED
      BY <2>7, <2>9
  <1> QED
    BY <1>1, TlsInvariance, PTL

=============================================================================
