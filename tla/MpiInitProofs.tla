--------------------------- MODULE MpiInitProofs ---------------------------
(***************************************************************************)
(* The rendezvous of MPI_Init lets nobody through before every rank is     *)
(* bound: for any number of ranks, whatever calls and spawns fail.         *)
(***************************************************************************)
EXTENDS MpiInit, TLAPS

Frames == [src : Ranks, tag : Tags]

\* The types the argument needs.
Types ==
  /\ launcher \in 0 .. Size
  /\ pc \in [Ranks -> Labels]
  /\ sock \in [Ranks -> Seq(Frames)]
  /\ seen \subseteq Ranks
  /\ bound \subseteq Ranks

\* r has bound its port at some time.
Past(r) == pc[r] \notin {"unborn", "start", "unbound"}

\* What a frame in a socket tells: its sender is bound, and a GO is only sent
\* when rank 0 has heard from everybody.
Tells(frame) == Past(frame.src) /\ (frame.tag = "GO" => seen = Ranks)

\* The ranks are spawned in order; a rank that rank 0 has heard from is bound,
\* and so is rank 0 itself once it has heard from anybody; whoever is through
\* the rendezvous, or sends the GOs, knows that all have been heard.
IInv ==
  /\ Types
  /\ launch_rc = "none" => launcher < Size
  /\ \A r \in Ranks : r >= launcher => pc[r] = "unborn"
  /\ 0 \in seen /\ (\A r \in seen \ {0} : Past(r)) /\ (seen # {0} => Past(0))
  /\ \A d \in Ranks : \A i \in DOMAIN sock[d] : Tells(sock[d][i])
  /\ \A r \in Ranks : pc[r] \in {"release", "restore", "up"} => seen = Ranks

-----------------------------------------------------------------------------
\* What a queue holds after Append.
LEMMA AppendHolds ==
  ASSUME NEW q \in Seq(Frames), NEW f \in Frames
  PROVE  /\ Append(q, f) \in Seq(Frames)
         /\ \A i \in DOMAIN Append(q, f) :
              (i \in DOMAIN q /\ Append(q, f)[i] = q[i]) \/ Append(q, f)[i] = f
  OBVIOUS

\* What a queue holds after Tail.
LEMMA TailHolds ==
  ASSUME NEW q \in Seq(Frames), q # <<>>
  PROVE  /\ Tail(q) \in Seq(Frames) /\ Head(q) \in Frames
         /\ 1 \in DOMAIN q /\ Head(q) = q[1]
         /\ \A i \in DOMAIN Tail(q) : i + 1 \in DOMAIN q /\ Tail(q)[i] = q[i + 1]
  OBVIOUS

\* send_raw leaves every socket with frames it had or with the new one.
LEMMA SendHolds ==
  ASSUME Types, NEW r \in Ranks, NEW dest, NEW tag \in Tags, send_raw(r, dest, tag)
  PROVE  /\ sock' \in [Ranks -> Seq(Frames)]
         /\ \A d \in Ranks : \A i \in DOMAIN sock'[d] :
              \/ i \in DOMAIN sock[d] /\ sock'[d][i] = sock[d][i]
              \/ sock'[d][i] = [src |-> r, tag |-> tag]
  <1> DEFINE f == [src |-> r, tag |-> tag]
  <1>1. f \in Frames
    BY DEF Frames
  <1>2. CASE sock' = sock
    BY <1>2 DEF Types
  <1>3. CASE dest \in Ranks /\ sock' = [sock EXCEPT ![dest] = Append(@, f)]
    <2>1. sock[dest] \in Seq(Frames)
      BY <1>3 DEF Types
    <2>2. sock'[dest] = Append(sock[dest], f) /\ \A d \in Ranks : d # dest => sock'[d] = sock[d]
      BY <1>3 DEF Types
    <2>3. sock' \in [Ranks -> Seq(Frames)]
      BY <1>1, <1>3, <2>1, AppendHolds DEF Types
    <2>4. ASSUME NEW d \in Ranks, NEW i \in DOMAIN sock'[d]
          PROVE  \/ i \in DOMAIN sock[d] /\ sock'[d][i] = sock[d][i]
                 \/ sock'[d][i] = f
      <3>1. CASE d = dest
        <4>1. i \in DOMAIN Append(sock[dest], f)
          BY <2>2, <2>4, <3>1
        <4>2. (i \in DOMAIN sock[dest] /\ Append(sock[dest], f)[i] = sock[dest][i])
              \/ Append(sock[dest], f)[i] = f
          BY <1>1, <2>1, <4>1, AppendHolds
        <4> QED
          BY <2>2, <3>1, <4>2
      <3>2. CASE d # dest
        BY <2>2, <2>4, <3>2
      <3> QED
        BY <3>1, <3>2
    <2> QED
      BY <2>3, <2>4
  <1> QED
    BY <1>2, <1>3 DEF send_raw, Types

\* Reading the first frame leaves every socket with frames it had.
LEMMA ReadHolds ==
  ASSUME Types, NEW r \in Ranks, sock[r] # <<>>, sock' = [sock EXCEPT ![r] = Tail(@)]
  PROVE  /\ sock' \in [Ranks -> Seq(Frames)]
         /\ Head(sock[r]) \in Frames /\ \E i \in DOMAIN sock[r] : Head(sock[r]) = sock[r][i]
         /\ \A d \in Ranks : \A i \in DOMAIN sock'[d] :
              \E j \in DOMAIN sock[d] : sock'[d][i] = sock[d][j]
  <1>1. sock[r] \in Seq(Frames)
    BY DEF Types
  <1>2. sock'[r] = Tail(sock[r]) /\ \A d \in Ranks : d # r => sock'[d] = sock[d]
    BY DEF Types
  <1>3. sock' \in [Ranks -> Seq(Frames)]
    BY <1>1, TailHolds DEF Types
  <1> QED
    BY <1>1, <1>2, <1>3, TailHolds

-----------------------------------------------------------------------------
\* A step that takes r from one label to another keeps IInv, if r does not fall
\* back before its bind, and gets through the rendezvous only when all have
\* been heard.
LEMMA MoveHolds ==
  ASSUME IInv, NEW r \in Ranks, pc[r] # "unborn",
         NEW l \in Labels \ {"unborn"}, Goto(r, l),
         Past(r) => l \notin {"start", "unbound"},
         l \in {"release", "restore", "up"} => seen' = Ranks,
         seen \subseteq seen', seen' \subseteq Ranks,
         \A q \in seen' \ {0} : Past(q), seen' # {0} => Past(0),
         UNCHANGED launch, bound' \subseteq Ranks,
         sock' \in [Ranks -> Seq(Frames)],
         \A d \in Ranks : \A i \in DOMAIN sock'[d] :
            /\ sock'[d][i] \in Frames /\ Past(sock'[d][i].src)
            /\ sock'[d][i].tag = "GO" => seen = Ranks
  PROVE  IInv'
  <1>1. \A q \in Ranks : Past(q) => Past(q)'
    BY DEF IInv, Types, Past, Goto
  <1>2. Types'
    BY DEF IInv, Types, Goto, launch
  <1>3. \A d \in Ranks : \A i \in DOMAIN sock'[d] : Tells(sock[d][i])'
    BY <1>1 DEF Tells, Frames
  <1>4. /\ launch_rc' = "none" => launcher' < Size
        /\ \A q \in Ranks : q >= launcher' => pc'[q] = "unborn"
    BY DEF IInv, Types, Goto, launch
  <1>5. 0 \in seen' /\ (\A q \in seen' \ {0} : Past(q)') /\ (seen' # {0} => Past(0)')
    BY <1>1 DEF IInv, Types
  <1>6. \A q \in Ranks : pc'[q] \in {"release", "restore", "up"} => seen' = Ranks
    BY DEF IInv, Types, Goto
  <1> QED
    BY <1>2, <1>3, <1>4, <1>5, <1>6 DEF IInv

\* Every frame in a socket is one, and its sender is bound.
LEMMA FramesTell ==
  ASSUME IInv
  PROVE  /\ \A d \in Ranks : sock[d] \in Seq(Frames)
         /\ \A d \in Ranks : \A i \in DOMAIN sock[d] :
            /\ sock[d][i] \in Frames /\ Past(sock[d][i].src)
            /\ sock[d][i].tag = "GO" => seen = Ranks
  BY DEF IInv, Types, Tells

\* The steps of one rank in MPI_Init, with their failures, and its program's.
LEMMA RankHolds ==
  ASSUME IInv, NEW r \in Ranks,
         \/ InInit(r) \/ BindFails(r) \/ RendezvousFails(r)
         \/ \E dest \in Ranks : ProgramSend(r, dest)
  PROVE  IInv'
  <1> USE FramesTell
  <1>1. seen \subseteq Ranks /\ Types /\ (\A q \in seen \ {0} : Past(q)) /\ (seen # {0} => Past(0))
    BY DEF IInv, Types
  <1>2. CASE Bind(r) \/ BindFails(r) \/ SetNonBlocking(r) \/ RestoreFlags(r)
    <2>1. /\ sock' = sock /\ seen' = seen /\ UNCHANGED launch
          /\ sock \in [Ranks -> Seq(Frames)] /\ bound' \subseteq Ranks
      BY <1>1, <1>2 DEF Bind, BindFails, SetNonBlocking, RestoreFlags, Types
    <2>2. CASE Bind(r)
      BY <1>1, <2>1, <2>2, MoveHolds DEF Bind, Labels, Past
    <2>3. CASE BindFails(r)
      BY <1>1, <2>1, <2>3, MoveHolds DEF BindFails, Labels, Past
    <2>4. CASE SetNonBlocking(r)
      BY <1>1, <2>1, <2>4, MoveHolds DEF SetNonBlocking, Labels, Past
    <2>5. CASE RestoreFlags(r)
      <3>1. seen = Ranks
        BY <2>5 DEF RestoreFlags, IInv
      <3> QED
        BY <1>1, <2>1, <2>5, <3>1, MoveHolds DEF RestoreFlags, Labels, Past
    <2> QED
      BY <1>2, <2>2, <2>3, <2>4, <2>5
  <1>3. CASE RendezvousFails(r)
    <2>1. sock' \in [Ranks -> Seq(Frames)] /\ seen' = seen /\ UNCHANGED launch /\ bound' \subseteq Ranks
      BY <1>1, <1>3 DEF RendezvousFails, Types
    <2>2. \A d \in Ranks : sock'[d] = sock[d] \/ sock'[d] = <<>>
      BY <1>1, <1>3 DEF RendezvousFails, Types
    <2>3. \A d \in Ranks : \A i \in DOMAIN sock'[d] :
            /\ sock'[d][i] \in Frames /\ Past(sock'[d][i].src)
            /\ sock'[d][i].tag = "GO" => seen = Ranks
      BY <2>2
    <2> QED
      BY <1>1, <1>3, <2>1, <2>3, MoveHolds DEF RendezvousFails, Labels, Past
  <1>4. CASE r = 0 /\ Gather
    <2> DEFINE f == Head(sock[0])
    <2>1. /\ sock' \in [Ranks -> Seq(Frames)] /\ f \in Frames /\ Past(f.src)
          /\ \A d \in Ranks : \A i \in DOMAIN sock'[d] :
               /\ sock'[d][i] \in Frames /\ Past(sock'[d][i].src)
               /\ sock'[d][i].tag = "GO" => seen = Ranks
      <3>1. sock[0] # <<>> /\ sock' = [sock EXCEPT ![0] = Tail(@)] /\ 0 \in Ranks
        BY <1>4 DEF Gather
      <3>2. /\ sock' \in [Ranks -> Seq(Frames)] /\ f \in Frames
            /\ \E i \in DOMAIN sock[0] : f = sock[0][i]
            /\ \A d \in Ranks : \A i \in DOMAIN sock'[d] :
                 \E j \in DOMAIN sock[d] : sock'[d][i] = sock[d][j]
        BY <1>1, <3>1, ReadHolds
      <3> QED
        BY <3>1, <3>2
    <2>2. seen \subseteq seen' /\ seen' \subseteq seen \cup {f.src} /\ f.src \in Ranks
      BY <1>4, <2>1 DEF Gather, Frames
    <2>3. Past(0) /\ \A q \in seen' \ {0} : Past(q)
      BY <1>1, <1>4, <2>1, <2>2 DEF Gather, Past
    <2>4. seen' \subseteq Ranks /\ UNCHANGED launch /\ bound' \subseteq Ranks /\ pc[r] # "unborn"
      BY <1>1, <1>4, <2>2 DEF Gather, launch, Types
    <2>5. CASE seen' = Ranks
      <3>1. Goto(r, "release")
        BY <1>4, <2>5 DEF Gather
      <3> QED
        BY <2>1, <2>2, <2>3, <2>4, <2>5, <3>1, MoveHolds DEF Labels
    <2>6. CASE seen' # Ranks
      <3>1. Goto(r, "gather")
        BY <1>4, <2>6 DEF Gather
      <3> QED
        BY <2>1, <2>2, <2>3, <2>4, <3>1, MoveHolds DEF Labels
    <2> QED
      BY <2>5, <2>6
  <1>5. ASSUME NEW dest, NEW tag \in Tags, send_raw(r, dest, tag), Past(r),
               tag = "GO" => seen = Ranks
        PROVE  /\ sock' \in [Ranks -> Seq(Frames)]
               /\ \A d \in Ranks : \A i \in DOMAIN sock'[d] :
                    /\ sock'[d][i] \in Frames /\ Past(sock'[d][i].src)
                    /\ sock'[d][i].tag = "GO" => seen = Ranks
    <2> DEFINE f == [src |-> r, tag |-> tag]
    <2>1. f \in Frames /\ Past(f.src) /\ (f.tag = "GO" => seen = Ranks)
      BY <1>5 DEF Frames
    <2>2. /\ sock' \in [Ranks -> Seq(Frames)]
          /\ \A d \in Ranks : \A i \in DOMAIN sock'[d] :
               (i \in DOMAIN sock[d] /\ sock'[d][i] = sock[d][i]) \/ sock'[d][i] = f
      BY <1>1, <1>5, SendHolds
    <2> HIDE DEF f
    <2> QED
      BY <2>1, <2>2
  <1>6. CASE r = 0 /\ SendGo
    <2>1. seen = Ranks /\ Past(r) /\ pc[r] # "unborn"
      BY <1>6 DEF SendGo, IInv, Past
    <2>2. seen' = seen /\ UNCHANGED launch /\ bound' \subseteq Ranks
      BY <1>1, <1>6 DEF SendGo, launch, Types
    <2>3. PICK l \in {"restore", "release"} : Goto(r, l)
      BY <1>6 DEF SendGo
    <2>4. send_raw(r, next_go, "GO") /\ "GO" \in Tags
      BY <1>6 DEF SendGo, Tags
    <2> QED
      BY <1>1, <1>5, <2>1, <2>2, <2>3, <2>4, MoveHolds DEF Labels
  <1>7. CASE SayHello(r)
    <2>1. Past(r) /\ pc[r] # "unborn" /\ Goto(r, "poll")
      BY <1>7 DEF SayHello, Past
    <2>2. seen' = seen /\ UNCHANGED launch /\ bound' \subseteq Ranks
      BY <1>1, <1>7 DEF SayHello, launch, Types
    <2>3. CASE send_raw(r, 0, "HELLO")
      BY <1>1, <1>5, <2>1, <2>2, <2>3, MoveHolds DEF Labels, Tags
    <2>4. CASE UNCHANGED sock
      BY <1>1, <2>1, <2>2, <2>4, MoveHolds DEF Labels, Types
    <2> QED
      BY <1>7, <2>3, <2>4 DEF SayHello
  <1>8. CASE Poll(r)
    <2>1. Past(r) /\ pc[r] # "unborn"
      BY <1>8 DEF Poll, Past
    <2>2. seen' = seen /\ UNCHANGED launch /\ bound' \subseteq Ranks
      BY <1>1, <1>8 DEF Poll, launch, Types
    <2>3. CASE sock[r] = <<>>
      <3>1. Goto(r, "say") /\ sock' = sock
        BY <1>8, <2>3 DEF Poll
      <3> QED
        BY <1>1, <2>1, <2>2, <3>1, MoveHolds DEF Labels, Types
    <2>4. CASE sock[r] # <<>>
      <3>1. sock' = [sock EXCEPT ![r] = Tail(@)]
        BY <1>8, <2>4 DEF Poll
      <3>2. /\ sock' \in [Ranks -> Seq(Frames)]
            /\ Head(sock[r]).tag = "GO" => seen = Ranks
            /\ \A d \in Ranks : \A i \in DOMAIN sock'[d] :
                 /\ sock'[d][i] \in Frames /\ Past(sock'[d][i].src)
                 /\ sock'[d][i].tag = "GO" => seen = Ranks
        <4> DEFINE f == Head(sock[r])
        <4>1. /\ sock' \in [Ranks -> Seq(Frames)]
              /\ \E i \in DOMAIN sock[r] : f = sock[r][i]
              /\ \A d \in Ranks : \A i \in DOMAIN sock'[d] :
                   \E j \in DOMAIN sock[d] : sock'[d][i] = sock[d][j]
          BY <1>1, <2>4, <3>1, ReadHolds
        <4> HIDE DEF f
        <4>2. f.tag = "GO" => seen = Ranks
          BY <4>1
        <4>3. ASSUME NEW d \in Ranks, NEW i \in DOMAIN sock'[d]
              PROVE  /\ sock'[d][i] \in Frames /\ Past(sock'[d][i].src)
                     /\ sock'[d][i].tag = "GO" => seen = Ranks
          <5>1. PICK j \in DOMAIN sock[d] : sock'[d][i] = sock[d][j]
            BY <4>1, <4>3
          <5> QED
            BY <5>1
        <4> QED
          BY <4>1, <4>2, <4>3 DEF f
      <3>3. PICK l \in {"restore", "say"} : Goto(r, l) /\ (l = "restore" => seen = Ranks)
        BY <1>8, <2>4, <3>2 DEF Poll
      <3> QED
        BY <1>1, <2>1, <2>2, <3>2, <3>3, MoveHolds DEF Labels
    <2> QED
      BY <2>3, <2>4
  <1>9. CASE \E dest \in Ranks : ProgramSend(r, dest)
    <2>1. PICK dest \in Ranks : ProgramSend(r, dest)
      BY <1>9
    <2>2. /\ send_raw(r, dest, "program") /\ "program" \in Tags
          /\ Past(r) /\ pc[r] = "up" /\ seen = Ranks
      BY <2>1 DEF ProgramSend, Tags, Past, IInv
    <2>3. seen' = seen /\ UNCHANGED launch /\ bound' \subseteq Ranks /\ Goto(r, "up")
      BY <1>1, <2>1 DEF ProgramSend, launch, Types, Goto
    <2> QED
      BY <1>1, <1>5, <2>2, <2>3, MoveHolds DEF Labels
  <1> QED
    BY <1>2, <1>3, <1>4, <1>6, <1>7, <1>8, <1>9 DEF InInit

\* The steps of the launcher: a spawned rank was unborn, so nobody has heard
\* from it.
LEMMA LaunchHolds ==
  ASSUME IInv, Spawn \/ SpawnFails
  PROVE  IInv'
  <1>1. CASE SpawnFails
    BY <1>1 DEF SpawnFails, IInv, Types, Past, Tells
  <1>2. CASE Spawn
    <2>1. launcher \in Ranks /\ pc[launcher] = "unborn" /\ pc' = [pc EXCEPT ![launcher] = "start"]
      BY <1>2, MpiInitAssumption DEF Spawn, IInv, Types, Ranks
    <2>2. \A q \in Ranks : Past(q) = Past(q)'
      BY <2>1 DEF IInv, Types, Past
    <2>3. sock' = sock /\ seen' = seen /\ bound' = bound /\ launcher' = launcher + 1
      BY <1>2 DEF Spawn
    <2>4. Types'
      BY <1>2, <2>1, <2>3, MpiInitAssumption DEF IInv, Types, Labels, Ranks
    <2>5. \A d \in Ranks : \A i \in DOMAIN sock'[d] : Tells(sock[d][i])'
      BY <2>2, <2>3, FramesTell DEF Tells, Frames
    <2>6. launch_rc' = "none" => launcher' < Size
      BY <1>2, <2>1, MpiInitAssumption DEF Spawn, Ranks
    <2>7. \A q \in Ranks : q >= launcher' => pc'[q] = "unborn"
      BY <2>1, <2>3, MpiInitAssumption DEF IInv, Types, Ranks
    <2>8. 0 \in seen' /\ (\A q \in seen' \ {0} : Past(q)') /\ (seen' # {0} => Past(0)')
      BY <2>2, <2>3, MpiInitAssumption DEF IInv, Types
    <2>9. \A q \in Ranks : pc'[q] \in {"release", "restore", "up"} => seen' = Ranks
      BY <2>1, <2>3 DEF IInv, Types
    <2> QED
      BY <2>4, <2>5, <2>6, <2>7, <2>8, <2>9 DEF IInv
  <1> QED
    BY <1>1, <1>2

-----------------------------------------------------------------------------
\* NobodyUpBeforeAllBound for every number of ranks: MPI_Init lets nobody out
\* before all ranks have bound their ports, whichever spawns, binds and
\* receives fail, and whatever HELLOs are lost or repeated on the way.
THEOREM RendezvousHolds == Spec => []NobodyUpBeforeAllBound
  <1>1. Init => IInv
    BY MpiInitAssumption DEF Init, IInv, Types, Frames, Ranks, Labels, Past, Tells
  <1>2. IInv /\ [Next]_vars => IInv'
    <2> SUFFICES ASSUME IInv, [Next]_vars PROVE IInv'
      OBVIOUS
    <2>1. CASE Spawn \/ SpawnFails
      BY <2>1, LaunchHolds
    <2>2. CASE \E r \in Ranks : InInit(r) \/ BindFails(r) \/ RendezvousFails(r)
      BY <2>2, RankHolds
    <2>3. CASE \E r, dest \in Ranks : ProgramSend(r, dest)
      BY <2>3, RankHolds
    <2>4. CASE UNCHANGED vars
      BY <2>4 DEF vars, launch, IInv, Types, Past, Tells
    <2> QED
      BY <2>1, <2>2, <2>3, <2>4 DEF Next
  <1>3. IInv => NobodyUpBeforeAllBound
    BY MpiInitAssumption DEF IInv, Types, Past, NobodyUpBeforeAllBound, Ranks
  <1> QED
    BY <1>1, <1>2, <1>3, PTL DEF Spec

=============================================================================
