------------------------------ MODULE MpiInit ------------------------------
(***************************************************************************)
(* The start of an MPI job (src/src/mpi.c): MPI_Launch spawns the ranks    *)
(* one after the other; in MPI_Init every rank binds its UDP port, the     *)
(* others say HELLO to rank 0 until they are told GO, and rank 0 sends the *)
(* GOs once it has heard from everybody.  A rank that has left MPI_Init    *)
(* sends messages of its own.  How a rank learns its number from its       *)
(* arguments is in Numerals.                                               *)
(*                                                                         *)
(*   pc         the rank is                                                *)
(*   "unborn"   not spawned                                                *)
(*   "start"    before the bind of its socket                              *)
(*   "setup"    at the fcntl that unblocks the socket        lines 220-222 *)
(*   "gather"   in the loop of rank 0 that counts HELLOs     lines 237-246 *)
(*   "release"  in the loop of rank 0 that sends the GOs     lines 249-251 *)
(*   "say"      at the top of the loop of the others         line 260      *)
(*   "poll"     at the receive of that loop                  line 268      *)
(*   "restore"  at the fcntl that undoes it                  line 275      *)
(*   "up"       past MPI_Init                                              *)
(*   "unbound"  returned an error from socket or bind                      *)
(*   "failed"   returned an error after the bind; its socket is closed     *)
(*                                                                         *)
(* The kernel: a datagram to a port nobody has bound vanishes; one to a    *)
(* bound port joins the end of that socket's queue.                        *)
(***************************************************************************)
EXTENDS Naturals, Sequences, FiniteSets

CONSTANTS
  Size,         \* mpi_size
  HelloPeriod,  \* passes of the loop from one HELLO to the next (64)
  QueueCap,     \* bound: the datagrams of one sender a socket's queue holds
  MayFail,      \* the ranks whose system calls may fail
  SpawnMayFail  \* the ranks whose spawn may fail

Ranks == 0 .. Size - 1

ASSUME MpiInitAssumption ==
  /\ Size \in Nat \ {0, 1}
  /\ HelloPeriod \in Nat \ {0}
  /\ QueueCap \in Nat \ {0}
  /\ MayFail \subseteq Ranks /\ SpawnMayFail \subseteq Ranks

VARIABLES
  launcher,     \* the rank MPI_Launch is about to spawn, Size when it is done
  launch_rc,    \* "none" until MPI_Launch returns, then "ok" or "error"
  pc,           \* see above
  bound,        \* the ranks whose socket is bound
  sock,         \* the queue of each socket: frames [src, tag]
  seen,         \* seen[] of rank 0; remaining counts the ranks not in it
  next_go,      \* the loop variable r of rank 0's second loop
  since_hello,  \* per rank
  sent,         \* history: the program messages sent, as <<from, to>>
  discarded     \* history: the program messages the rendezvous threw away

launch == <<launcher, launch_rc>>
vars == <<launch, pc, bound, sock, seen, next_go, since_hello, sent, discarded>>

Tags == {"HELLO", "GO", "program"}
Labels == {"unborn", "start", "setup", "gather", "release", "say", "poll", "restore",
           "up", "unbound", "failed"}

Init ==
  /\ launcher = 0
  /\ launch_rc = "none"
  /\ pc = [r \in Ranks |-> "unborn"]
  /\ bound = {}
  /\ sock = [r \in Ranks |-> <<>>]
  /\ seen = {0}
  /\ next_go = 1
  /\ since_hello = [r \in Ranks |-> 0]
  /\ sent = {}
  /\ discarded = {}

Goto(r, label) == pc' = [pc EXCEPT ![r] = label]

\* The queue of dest takes another datagram of r.  The cap is per sender, so
\* that the HELLOs of one rank never crowd out those of another; all it does
\* to the model is to bound how many duplicates pile up.
HasRoom(r, dest) ==
  Cardinality({i \in DOMAIN sock[dest] : sock[dest][i].src = r}) < QueueCap

\* send_raw: one datagram, lost unless dest is bound.
send_raw(r, dest, tag) ==
  sock' = IF dest \in bound /\ HasRoom(r, dest)
            THEN [sock EXCEPT ![dest] = Append(@, [src |-> r, tag |-> tag])]
            ELSE sock

-----------------------------------------------------------------------------
(* Variants of the operations below with a plausible slip each; the        *)
(* properties must tell them from the code.                                *)

\* HELLOs are counted in total: a second one of a rank stands for another.
GatherInTotal ==
  /\ pc[0] = "gather"
  /\ sock[0] # <<>>
  /\ seen' = IF Head(sock[0]).src \notin seen
               THEN seen \cup {Head(sock[0]).src}
               ELSE seen \cup {CHOOSE q \in Ranks : q \notin seen}
  /\ sock' = [sock EXCEPT ![0] = Tail(@)]
  /\ Goto(0, IF seen' = Ranks THEN "release" ELSE "gather")
  /\ UNCHANGED <<bound, next_go, since_hello, sent, discarded, launch>>

\* The HELLO is said once and never again.
SayHelloOnce(r) ==
  /\ pc[r] = "say"
  /\ IF since_hello[r] = 0 THEN send_raw(r, 0, "HELLO") ELSE UNCHANGED sock
  /\ since_hello' = [since_hello EXCEPT ![r] = 1]
  /\ Goto(r, "poll")
  /\ UNCHANGED <<bound, seen, next_go, sent, discarded, launch>>

-----------------------------------------------------------------------------
\* MPI_Launch spawns the next rank, and returns after the last.
Spawn ==
  /\ launch_rc = "none"
  /\ pc' = [pc EXCEPT ![launcher] = "start"]
  /\ launcher' = launcher + 1
  /\ launch_rc' = IF launcher + 1 = Size THEN "ok" ELSE "none"
  /\ UNCHANGED <<bound, sock, seen, next_go, since_hello, sent, discarded>>

\* A spawn fails: MPI_Launch returns at once, and the ranks it has spawned are
\* left to themselves.
SpawnFails ==
  /\ launch_rc = "none"
  /\ launcher \in SpawnMayFail
  /\ launch_rc' = "error"
  /\ UNCHANGED <<launcher, pc, bound, sock, seen, next_go, since_hello, sent, discarded>>

\* MPI_Init up to the rendezvous: the socket is bound from here on.
Bind(r) ==
  /\ pc[r] = "start"
  /\ bound' = bound \cup {r}
  /\ Goto(r, "setup")
  /\ UNCHANGED <<sock, seen, next_go, since_hello, sent, discarded, launch>>

\* socket or bind fails.
BindFails(r) ==
  /\ pc[r] = "start"
  /\ r \in MayFail
  /\ Goto(r, "unbound")
  /\ UNCHANGED <<bound, sock, seen, next_go, since_hello, sent, discarded, launch>>

\* The fcntls around the rendezvous make its receives non-blocking; rank 0
\* goes to one loop, the others to the other.
SetNonBlocking(r) ==
  /\ pc[r] = "setup"
  /\ Goto(r, IF r = 0 THEN "gather" ELSE "say")
  /\ UNCHANGED <<bound, sock, seen, next_go, since_hello, sent, discarded, launch>>

RestoreFlags(r) ==
  /\ pc[r] = "restore"
  /\ Goto(r, "up")
  /\ UNCHANGED <<bound, sock, seen, next_go, since_hello, sent, discarded, launch>>

\* recvfrom or fcntl fails in the rendezvous: MPI_Init closes the socket.
RendezvousFails(r) ==
  /\ pc[r] \in {"setup", "gather", "poll", "restore"}
  /\ r \in MayFail
  /\ bound' = bound \ {r}
  /\ sock' = [sock EXCEPT ![r] = <<>>]
  /\ Goto(r, "failed")
  /\ UNCHANGED <<seen, next_go, since_hello, sent, discarded, launch>>

\* Rank 0 reads one frame; a HELLO counts if it is the rank's first.
Gather ==
  /\ pc[0] = "gather"
  /\ sock[0] # <<>>
  /\ seen' = IF Head(sock[0]).tag = "HELLO" THEN seen \cup {Head(sock[0]).src} ELSE seen
  /\ sock' = [sock EXCEPT ![0] = Tail(@)]
  /\ Goto(0, IF seen' = Ranks THEN "release" ELSE "gather")
  /\ UNCHANGED <<bound, next_go, since_hello, sent, discarded, launch>>

SendGo ==
  /\ pc[0] = "release"
  /\ send_raw(0, next_go, "GO")
  /\ next_go' = next_go + 1
  /\ Goto(0, IF next_go + 1 = Size THEN "restore" ELSE "release")
  /\ UNCHANGED <<bound, seen, since_hello, sent, discarded, launch>>

SayHello(r) ==
  /\ pc[r] = "say"
  /\ IF since_hello[r] = 0 THEN send_raw(r, 0, "HELLO") ELSE UNCHANGED sock
  /\ since_hello' = [since_hello EXCEPT ![r] = (@ + 1) % HelloPeriod]
  /\ Goto(r, "poll")
  /\ UNCHANGED <<bound, seen, next_go, sent, discarded, launch>>

\* One frame is read if there is one.  A GO ends the loop; any other frame
\* is overwritten by the next pass.
Poll(r) ==
  /\ pc[r] = "poll"
  /\ IF sock[r] = <<>>
       THEN Goto(r, "say") /\ UNCHANGED <<sock, discarded, launch>>
       ELSE LET frame == Head(sock[r])
            IN  /\ Goto(r, IF frame.tag = "GO" THEN "restore" ELSE "say")
                /\ sock' = [sock EXCEPT ![r] = Tail(@)]
                /\ discarded' = IF frame.tag = "program"
                                  THEN discarded \cup {<<frame.src, r>>}
                                  ELSE discarded
  /\ UNCHANGED <<bound, seen, next_go, since_hello, sent, launch>>

\* The program of a rank that is past MPI_Init sends to another rank, once.
\* A full queue is not what this module is about: it waits.
ProgramSend(r, dest) ==
  /\ pc[r] = "up"
  /\ dest # r
  /\ <<r, dest>> \notin sent
  /\ HasRoom(r, dest)
  /\ send_raw(r, dest, "program")
  /\ sent' = sent \cup {<<r, dest>>}
  /\ UNCHANGED <<pc, bound, seen, next_go, since_hello, discarded, launch>>

InInit(r) ==
  \/ Bind(r) \/ SetNonBlocking(r) \/ RestoreFlags(r)
  \/ r = 0 /\ (Gather \/ SendGo)
  \/ SayHello(r) \/ Poll(r)

Next ==
  \/ Spawn \/ SpawnFails
  \/ \E r \in Ranks : InInit(r) \/ BindFails(r) \/ RendezvousFails(r)
  \/ \E r, dest \in Ranks : ProgramSend(r, dest)

Spec == Init /\ [][Next]_vars

\* The launcher and every rank inside MPI_Init keep running: the loops yield,
\* they never block.
FairSpec == Spec /\ WF_vars(Spawn) /\ \A r \in Ranks : WF_vars(InInit(r))

-----------------------------------------------------------------------------
\* since_hello wraps at its period, and only what was sent is discarded.
TypeOK ==
  /\ launcher \in 0 .. Size
  /\ launch_rc \in {"none", "ok", "error"}
  /\ pc \in [Ranks -> Labels]
  /\ bound \subseteq Ranks
  /\ sock \in [Ranks -> Seq([src : Ranks, tag : Tags])]
  /\ seen \subseteq Ranks
  /\ next_go \in 1 .. Size
  /\ since_hello \in [Ranks -> 0 .. HelloPeriod - 1]
  /\ sent \subseteq Ranks \X Ranks
  /\ discarded \subseteq sent

\* Lines 194-195, "no rank may send anything of its own until every rank is
\* bound": when the first rank leaves MPI_Init every rank has bound its port,
\* even if some of them have failed since.  So no rank of a job that was only
\* launched in part ever computes.
NobodyUpBeforeAllBound ==
  (\E r \in Ranks : pc[r] = "up") => \A q \in Ranks : pc[q] \notin {"unborn", "start", "unbound"}

\* Although HELLOs may fall on an unbound port, every rank gets out of
\* MPI_Init unless a system call or a spawn fails: the retries find rank 0 in
\* the end, and a single GO each is enough.
EverybodyComesUp ==
  \/ <>(\A r \in Ranks : pc[r] = "up")
  \/ <>(\E r \in Ranks : pc[r] \in {"unbound", "failed"})
  \/ <>(launch_rc = "error")

\* Lines 247-248 say, when every rank is bound: "there is no longer anywhere
\* for a datagram to be dropped."
NothingIsDiscarded == discarded = {}

=============================================================================
