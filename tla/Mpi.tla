-------------------------------- MODULE Mpi --------------------------------
(***************************************************************************)
(* The message layer of src/src/mpi.c after MPI_Init: MPI_Send, MPI_Recv   *)
(* with its unexpected-message queue, the collectives built on them, and   *)
(* MPI_Finalize.  Every rank runs a program, a sequence of MPI calls.      *)
(*                                                                         *)
(* A call is unfolded, when it starts, into the sends and receives its     *)
(* loops make for this rank, in their order (todo); the first error ends   *)
(* the call and drops the rest.  A send is one datagram into the queue of  *)
(* the destination's socket, in order and without loss while that socket   *)
(* is open (UDP over the loopback); a receive takes one datagram per step. *)
(*                                                                         *)
(* A buffer is the sequence of contributions folded into it; its size and  *)
(* a message's are counted in elements.  Tags are the code's own integers. *)
(***************************************************************************)
EXTENDS Pending, FiniteSets

CONSTANTS
  Size,           \* mpi_size
  MPI_MAX_MESSAGE,
  TagSeqs,        \* the values the sequence number in a tag takes (2^24)
  Programs,       \* the programs to run: a sequence of calls for every rank
  MaxResidue      \* bound: HELLOs the rendezvous left in rank 0's socket

Ranks == 0 .. Size - 1

\* The parts of a tag of the library: bit 30, and the operation above the low
\* 24 bits.
TagBit  == 1073741824
TagSpan == 16777216

ASSUME MpiAssumption ==
  /\ Size \in Nat \ {0}
  /\ PENDING_SLOTS \in Nat
  /\ MPI_MAX_MESSAGE \in Nat \ {0}
  /\ TagSeqs \in 1 .. TagSpan
  /\ MaxResidue \in Nat

Calls == [op : {"send", "recv", "barrier", "bcast", "reduce", "allreduce", "finalize"},
          peer : Int, tag : Int, type : STRING, count : Nat]

ASSUME ProgramsAssumption == Programs \subseteq [Ranks -> Seq(Calls)]

VARIABLES
  prog,       \* the program being run
  ip,         \* per rank: the call it is at
  calling,    \* the ranks inside a call
  todo,       \* per rank: the sends and receives left of that call
  coll_seq,   \* per rank
  buf,        \* per rank: the buffer of the call
  rc,         \* per rank: what the call will return
  open,       \* the ranks whose socket is open
  sock,       \* per rank: the queue of its socket
  queue,      \* per rank: the unexpected-message queue
  sends,      \* history, per rank: frames sent
  dropped,    \* history: the ranks that found their unexpected queue full
  log,        \* history, per rank: what each call returned
  got         \* history, per rank: the frame last received, and for what

call == <<prog, ip, calling, todo, coll_seq, buf, rc>>
net  == <<open, sock, queue, sends, dropped>>
vars == <<call, net, log, got>>

-----------------------------------------------------------------------------
MPI_TAG_UB == 1073741823     \* 0x3FFFFFFF
TAG_HELLO  == 2130706437     \* 0x7F000005

COLL_BARRIER_IN  == 1
COLL_BARRIER_OUT == 2
COLL_BCAST       == 3
COLL_REDUCE      == 4

\* Variants of coll_tag: no sequence number, one fixed tag per operation; bit
\* 30 not set.
coll_tag_fixed(base, seq) == TagBit + base * TagSpan
coll_tag_low(base, seq) == base * TagSpan + (seq % TagSeqs)

\* 0x40000000 | base << 24 | coll_seq & 0x00FFFFFF
coll_tag(base, seq) == TagBit + base * TagSpan + (seq % TagSeqs)

\* The test of MPI_Send on the tag; Bit30 is tag & 0x40000000.
Bit30(tag) == (tag \div TagBit) % 2

TagRefused(tag) == tag < 0 \/ (tag > MPI_TAG_UB /\ Bit30(tag) = 0)

\* What rank r contributes to its collective number seq.
Own(r, seq) == <<[from |-> r, at |-> seq]>>

\* reduce_apply folds a contribution into the buffer, element by element; bytes
\* and chars ("raw") have no arithmetic and are MPI_ERR_TYPE.
HasArithmetic(type) == type # "raw"

reduce_apply(inout, in) == inout \o in

-----------------------------------------------------------------------------
(* The calls of a program, and the sends and receives they come to.        *)

SendTo(dest, tag) == [do |-> "send", peer |-> dest, tag |-> tag, how |-> "none"]

\* how: what the caller does with the frame.  "keep" into the buffer, "fold"
\* into the buffer with reduce_apply, "refuse" when reduce_apply returns
\* MPI_ERR_TYPE (bytes and chars), "token" when the data does not matter.
RecvFrom(source, tag, how) == [do |-> "recv", peer |-> source, tag |-> tag, how |-> how]

SendOthers(root, tag) ==
  [i \in 1 .. Size - 1 |-> SendTo(IF i - 1 < root THEN i - 1 ELSE i, tag)]

RecvOthers(tag, how) ==
  [i \in 1 .. Size - 1 |-> RecvFrom(MPI_ANY_SOURCE, tag, how)]

\* Variant of MPI_Barrier: rank 0 waits for one arrival too few.
MPI_Barrier_short(r, seq) ==
  IF r = 0
    THEN SubSeq(RecvOthers(coll_tag(COLL_BARRIER_IN, seq), "token"), 1, Size - 2)
         \o SendOthers(0, coll_tag(COLL_BARRIER_OUT, seq))
    ELSE << SendTo(0, coll_tag(COLL_BARRIER_IN, seq)),
            RecvFrom(0, coll_tag(COLL_BARRIER_OUT, seq), "token") >>

MPI_Barrier(r, seq) ==
  IF r = 0
    THEN RecvOthers(coll_tag(COLL_BARRIER_IN, seq), "token")
         \o SendOthers(0, coll_tag(COLL_BARRIER_OUT, seq))
    ELSE << SendTo(0, coll_tag(COLL_BARRIER_IN, seq)),
            RecvFrom(0, coll_tag(COLL_BARRIER_OUT, seq), "token") >>

MPI_Bcast(r, root, seq) ==
  IF r = root THEN SendOthers(root, coll_tag(COLL_BCAST, seq))
              ELSE << RecvFrom(root, coll_tag(COLL_BCAST, seq), "keep") >>

MPI_Reduce(r, root, type, seq) ==
  IF r = root
    THEN RecvOthers(coll_tag(COLL_REDUCE, seq), IF HasArithmetic(type) THEN "fold" ELSE "refuse")
    ELSE << SendTo(root, coll_tag(COLL_REDUCE, seq)) >>

\* The MPI_Bcast that MPI_Allreduce calls once its MPI_Reduce has succeeded.
ThenBcast == [do |-> "bcast", peer |-> 0, tag |-> 0, how |-> "none"]

\* Calls as records: op, and peer, tag, type and count where they mean something.
Call(op, peer, tag, type, count) ==
  [op |-> op, peer |-> peer, tag |-> tag, type |-> type, count |-> count]

Send(dest, tag)         == Call("send", dest, tag, "raw", 1)
SendLong(dest, tag, n)  == Call("send", dest, tag, "raw", n)
Recv(source, tag)       == Call("recv", source, tag, "raw", 1)
Barrier                 == Call("barrier", 0, 0, "raw", 1)
Bcast(root)             == Call("bcast", root, 0, "raw", 1)
Reduce(root, type)      == Call("reduce", root, 0, type, 1)
ReduceOf(root, type, n) == Call("reduce", root, 0, type, n)
Allreduce(type)         == Call("allreduce", 0, 0, type, 1)
Finalize                == Call("finalize", 0, 0, "raw", 1)

\* The arguments a call refuses before it does anything; what MPI_Send refuses
\* is in MPI_Send.
Refused(c) ==
  \/ c.op = "recv" /\ c.peer \notin Ranks \cup {MPI_ANY_SOURCE}
  \/ c.op \in {"bcast", "reduce"} /\ c.peer \notin Ranks
  \/ c.op \in {"reduce", "allreduce"} /\ c.count > MPI_MAX_MESSAGE

\* Whether the call advances coll_seq; a barrier of one rank returns first.
Counts(c) == c.op \in {"bcast", "reduce", "allreduce"} \/ (c.op = "barrier" /\ Size > 1)

Unfold(r, c, seq) ==
  CASE c.op = "send"      -> << SendTo(c.peer, c.tag) >>
    [] c.op = "recv"      -> << RecvFrom(c.peer, c.tag, "keep") >>
    [] c.op = "barrier"   -> IF Size = 1 THEN <<>> ELSE MPI_Barrier(r, seq)
    [] c.op = "bcast"     -> MPI_Bcast(r, c.peer, seq)
    [] c.op = "reduce"    -> MPI_Reduce(r, c.peer, c.type, seq)
    [] c.op = "allreduce" -> MPI_Reduce(r, 0, c.type, seq) \o << ThenBcast >>

-----------------------------------------------------------------------------
\* HELLOs said again while rank 0 was already counting the last ones stay in
\* its socket when MPI_Init is over (see MpiInit).
Residues ==
  UNION {[1 .. n -> [src : Ranks \ {0}, tag : {TAG_HELLO}, data : {<<>>},
                     bytes : {1}, n : {0}, lib : {TRUE}]] : n \in 0 .. MaxResidue}

Init ==
  /\ prog \in Programs
  /\ ip = [r \in Ranks |-> 1]
  /\ calling = {}
  /\ todo = [r \in Ranks |-> <<>>]
  /\ coll_seq = [r \in Ranks |-> 0]
  /\ buf = [r \in Ranks |-> <<>>]
  /\ rc = [r \in Ranks |-> "ok"]
  /\ open = Ranks
  /\ \E left \in Residues : sock = [r \in Ranks |-> IF r = 0 THEN left ELSE <<>>]
  /\ queue = [r \in Ranks |-> EmptyQueue]
  /\ sends = [r \in Ranks |-> 0]
  /\ dropped = {}
  /\ log = [r \in Ranks |-> <<>>]
  /\ got = [r \in Ranks |-> <<>>]

\* The call r is about to make or is in.
NextCall(r) == prog[r][ip[r]]

Ready(r) == r \notin calling /\ ip[r] <= Len(prog[r])

\* A call starts with good arguments; coll_seq advances if it is a collective.
Begin(r) ==
  /\ Ready(r)
  /\ r \in open
  /\ NextCall(r).op # "finalize" /\ ~ Refused(NextCall(r))
  /\ LET c   == NextCall(r)
         seq == IF Counts(c) THEN coll_seq[r] + 1 ELSE coll_seq[r]
     IN  /\ coll_seq' = [coll_seq EXCEPT ![r] = seq]
         /\ todo' = [todo EXCEPT ![r] = Unfold(r, c, seq)]
         /\ buf' = [buf EXCEPT ![r] = Own(r, IF Counts(c) THEN seq ELSE 0)]
  /\ calling' = calling \cup {r}
  /\ rc' = [rc EXCEPT ![r] = "ok"]
  /\ UNCHANGED <<prog, ip, net, log, got>>

\* The socket is closed and what it held is gone; the unexpected queue stays.
MPI_Finalize(r) ==
  /\ Ready(r)
  /\ r \in open
  /\ NextCall(r).op = "finalize"
  /\ open' = open \ {r}
  /\ sock' = [sock EXCEPT ![r] = <<>>]
  /\ calling' = calling \cup {r}
  /\ rc' = [rc EXCEPT ![r] = "ok"]
  /\ UNCHANGED <<prog, ip, todo, coll_seq, buf, queue, sends, dropped, log, got>>

\* Every call tests mpi_ready first, which MPI_Finalize resets, and then its
\* arguments.
Rejected(r) ==
  /\ Ready(r)
  /\ r \notin open \/ Refused(NextCall(r))
  /\ calling' = calling \cup {r}
  /\ rc' = [rc EXCEPT ![r] = "error"]
  /\ UNCHANGED <<prog, ip, todo, coll_seq, buf, net, log, got>>

\* The call returns to the program.
Return(r) ==
  /\ r \in calling
  /\ todo[r] = <<>>
  /\ calling' = calling \ {r}
  /\ ip' = [ip EXCEPT ![r] = @ + 1]
  /\ log' = [log EXCEPT ![r] = Append(@, [at |-> coll_seq[r], buf |-> buf[r], rc |-> rc[r]])]
  /\ UNCHANGED <<prog, todo, coll_seq, buf, rc, net, got>>

\* The next thing r's call does is of kind k.
Doing(r, k) == r \in calling /\ todo[r] # <<>> /\ Head(todo[r]).do = k

\* The step is done, or it is an error that ends the call.
StepDone(r)   == todo' = [todo EXCEPT ![r] = Tail(@)] /\ UNCHANGED rc
CallFails(r)  == todo' = [todo EXCEPT ![r] = <<>>] /\ rc' = [rc EXCEPT ![r] = "error"]

\* MPI_Send and send_raw, for programs and collectives alike.
MPI_Send(r) ==
  /\ Doing(r, "send")
  /\ LET s     == Head(todo[r])
         frame == [src |-> r, tag |-> s.tag, data |-> buf[r], n |-> sends[r] + 1,
                   bytes |-> NextCall(r).count, lib |-> NextCall(r).op # "send"]
     IN  IF s.peer \notin Ranks \/ TagRefused(s.tag) \/ frame.bytes > MPI_MAX_MESSAGE
           THEN CallFails(r) /\ UNCHANGED <<sock, sends>>
           ELSE /\ StepDone(r)
                /\ sends' = [sends EXCEPT ![r] = @ + 1]
                /\ sock' = IF s.peer \in open
                             THEN [sock EXCEPT ![s.peer] = Append(@, frame)]
                             ELSE sock
  /\ UNCHANGED <<prog, ip, calling, coll_seq, buf, open, queue, dropped, log, got>>

\* The frame does not fit: too long for MPI_Recv's buffer, or not of MPI_Reduce's
\* size.  It is gone all the same.
Misfit(want, frame, count) ==
  \/ want.how = "keep" /\ frame.bytes > count
  \/ want.how \in {"fold", "refuse"} /\ frame.bytes # count

\* recv_match hands a frame to the receive at the head of todo.
Accept(r, frame) ==
  LET want == Head(todo[r])
      bad  == Misfit(want, frame, NextCall(r).count)
  IN  /\ got' = [got EXCEPT ![r] = <<[frame |-> frame, peer |-> want.peer, tag |-> want.tag,
                                      user |-> NextCall(r).op = "recv"]>>]
      /\ buf' = [buf EXCEPT ![r] = CASE want.how = "keep" /\ ~bad -> frame.data
                                     [] want.how = "fold" /\ ~bad -> reduce_apply(@, frame.data)
                                     [] OTHER -> @]
      /\ IF bad \/ want.how = "refuse" THEN CallFails(r) ELSE StepDone(r)

Wanted(r, frame) == matches(frame, Head(todo[r]).peer, Head(todo[r]).tag)

\* The place on the unexpected queue of the first frame r is waiting for, or 0.
FirstPending(r) == Place(queue[r], Head(todo[r]).peer, Head(todo[r]).tag)

\* The queue is searched before the socket; the frame is copied out and its
\* slot released.
TakePending(r) ==
  /\ Doing(r, "recv")
  /\ FirstPending(r) # 0
  /\ LET i == FirstPending(r)
         s == list(queue[r])[i]
     IN  /\ Accept(r, queue[r].cell[s].frame)
         /\ queue' = [queue EXCEPT ![r] = pending_release(pending_take(@, i), s)]
  /\ UNCHANGED <<prog, ip, calling, coll_seq, open, sock, sends, dropped, log>>

\* The loop of recv_match reads a frame that matches ...
TakeSocket(r) ==
  /\ Doing(r, "recv")
  /\ FirstPending(r) = 0
  /\ sock[r] # <<>>
  /\ Wanted(r, Head(sock[r]))
  /\ Accept(r, Head(sock[r]))
  /\ sock' = [sock EXCEPT ![r] = Tail(@)]
  /\ UNCHANGED <<prog, ip, calling, coll_seq, open, queue, sends, dropped, log>>

\* Variant of Shelve: the frame is thrown away.
ShelveNothing(r) ==
  /\ Doing(r, "recv")
  /\ FirstPending(r) = 0
  /\ sock[r] # <<>>
  /\ ~ Wanted(r, Head(sock[r]))
  /\ sock' = [sock EXCEPT ![r] = Tail(@)]
  /\ UNCHANGED <<call, open, queue, sends, dropped, log, got>>

\* ... or one that does not: it goes to the end of the unexpected queue, and
\* when the pool is used up it is dropped.
Shelve(r) ==
  /\ Doing(r, "recv")
  /\ FirstPending(r) = 0
  /\ sock[r] # <<>>
  /\ ~ Wanted(r, Head(sock[r]))
  /\ sock' = [sock EXCEPT ![r] = Tail(@)]
  /\ LET s == pending_alloc(queue[r])
     IN  \/ /\ s # 0
            /\ queue' = [queue EXCEPT ![r] = pending_push(@, s, Head(sock[r]))]
            /\ UNCHANGED dropped
         \/ /\ s = 0
            /\ dropped' = dropped \cup {r}
            /\ UNCHANGED queue
  /\ UNCHANGED <<call, open, sends, log, got>>

\* MPI_Allreduce goes on with its MPI_Bcast, a collective of its own.
AllreduceBcast(r) ==
  /\ Doing(r, "bcast")
  /\ coll_seq' = [coll_seq EXCEPT ![r] = @ + 1]
  /\ todo' = [todo EXCEPT ![r] = MPI_Bcast(r, 0, coll_seq[r] + 1)]
  /\ UNCHANGED <<prog, ip, calling, buf, rc, net, log, got>>

InCall(r) ==
  \/ Begin(r) \/ MPI_Finalize(r) \/ Rejected(r) \/ Return(r)
  \/ MPI_Send(r) \/ TakePending(r) \/ TakeSocket(r) \/ Shelve(r)
  \/ AllreduceBcast(r)

AllFinished == \A r \in Ranks : ip[r] > Len(prog[r])

Next == \E r \in Ranks : InCall(r)

Spec == Init /\ [][Next]_vars

\* Every rank is a process of its own that the scheduler keeps running.
FairSpec == Spec /\ \A r \in Ranks : WF_vars(InCall(r))

-----------------------------------------------------------------------------
Frames == [src : Ranks, tag : Nat, data : Seq([from : Ranks, at : Nat]),
           bytes : 0 .. MPI_MAX_MESSAGE, n : Nat, lib : BOOLEAN]

\* Sockets and queues hold frames, the unexpected queue in the slots of its pool.
TypeOK ==
  /\ ip \in [Ranks -> Nat]
  /\ calling \subseteq Ranks
  /\ coll_seq \in [Ranks -> Nat]
  /\ rc \in [Ranks -> {"ok", "error"}]
  /\ open \subseteq Ranks
  /\ dropped \subseteq Ranks
  /\ \A r \in Ranks : /\ sock[r] \in Seq(Frames)
                      /\ DOMAIN queue[r].cell \subseteq Slots
                      /\ \A s \in DOMAIN queue[r].cell : queue[r].cell[s].frame \in Frames
                      /\ buf[r] \in Seq([from : Ranks, at : Nat])

\* One contribution of every rank to collective number seq, in any order.
OneOfEach(b, seq) ==
  /\ Len(b) = Size
  /\ \A r \in Ranks : \E i \in DOMAIN b : b[i] = [from |-> r, at |-> seq]

\* What rank r's call number i returned, as a call of kind op that succeeded.
Succeeded(r, i, op) == prog[r][i].op = op /\ log[r][i].rc = "ok"

\* The root of a reduce has folded in one contribution of each rank, all of
\* this very call (comment at lines 42-55).
ReduceResults ==
  \A r \in Ranks : \A i \in DOMAIN log[r] :
    Succeeded(r, i, "reduce") /\ prog[r][i].peer = r => OneOfEach(log[r][i].buf, log[r][i].at)

\* A broadcast has delivered the root's buffer.
BcastResults ==
  \A r \in Ranks : \A i \in DOMAIN log[r] :
    Succeeded(r, i, "bcast") => log[r][i].buf = Own(prog[r][i].peer, log[r][i].at)

\* An allreduce has left the same, complete result everywhere.
AllreduceResults ==
  \A r \in Ranks : \A i \in DOMAIN log[r] : Succeeded(r, i, "allreduce") =>
    /\ OneOfEach(log[r][i].buf, log[r][i].at - 1)
    /\ \A q \in Ranks : \A j \in DOMAIN log[q] :
         Succeeded(q, j, "allreduce") /\ log[q][j].at = log[r][i].at => log[q][j].buf = log[r][i].buf

\* Every collective that returned MPI_SUCCESS did its job, however far the
\* ranks have run ahead of each other.
CollectiveResults == ReduceResults /\ BcastResults /\ AllreduceResults

\* No rank leaves a barrier before every rank has entered it.
BarrierHolds ==
  \A r \in Ranks : \A i \in DOMAIN log[r] :
    Succeeded(r, i, "barrier") => \A q \in Ranks : coll_seq[q] >= log[r][i].at

\* The frames r has not been handed yet.
Mail(r) == Messages(queue[r]) \o sock[r]

Waiting(r) == {Mail(r)[i] : i \in DOMAIN Mail(r)}

\* Every call of every rank returns (include/mpi.h:17 says "Every function
\* returns MPI_SUCCESS or an MPI_ERR_* code"), unless an unexpected queue has
\* overflowed, which the code reports and does not survive.
EveryCallReturns == <>AllFinished \/ <>(dropped # {})

\* A slot of the pool is marked used exactly while its message is on the list,
\* once: no slot is ever lost to the pool or handed out twice, so the queue is
\* full only when PENDING_SLOTS messages really wait.
SlotsAccounted ==
  \A r \in Ranks : LET l == list(queue[r])
                   IN  /\ {l[i] : i \in DOMAIN l} = DOMAIN queue[r].cell
                       /\ Len(l) = Cardinality(DOMAIN queue[r].cell)

-----------------------------------------------------------------------------
\* The program's messages and the library's are kept apart by their tags, as
\* long as the program does not ask for MPI_ANY_TAG and stays below the bound:
\* no receive of a program is handed a frame of a collective or a leftover
\* HELLO, and no collective takes a message of a program for a contribution.
TrafficKeptApart ==
  \A r \in Ranks : \A i \in DOMAIN got[r] :
    got[r][i].tag # MPI_ANY_TAG => got[r][i].user = ~ got[r][i].frame.lib

Box == INSTANCE Mailbox WITH
         Owners <- Ranks, Capacity <- PENDING_SLOTS, mail <- [r \in Ranks |-> Mail(r)],
         want <- [r \in Ranks |-> IF Doing(r, "recv")
                                    THEN << Head(todo[r]).peer, Head(todo[r]).tag >> ELSE <<>>]

\* Linked list, pool, socket and the order in which recv_match looks at them
\* come to one mailbox per rank: a receive takes the first message it asks for
\* of all that have arrived, so messages of one sender do not overtake each
\* other (comment at line 383), and only an overflow loses one.
OneMailbox == Box!Spec

\* Lines 39-40 say "MPI_Send rejects anything above the bound, so this is a
\* guarantee rather than a convention".
SendRejectsReservedTags ==
  \A r \in Ranks : \A frame \in Waiting(r) : ~ frame.lib => frame.tag <= MPI_TAG_UB

=============================================================================
