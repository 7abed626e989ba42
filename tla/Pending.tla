------------------------------ MODULE Pending ------------------------------
(***************************************************************************)
(* The unexpected-message queue of src/src/mpi.c: a linked list through a  *)
(* fixed pool.  q.head is pending_head and q.cell the slots in use, with   *)
(* their next pointer and their message; 0 is the null pointer.  What a    *)
(* free slot still holds is never read.                                    *)
(***************************************************************************)
EXTENDS Integers, Sequences

CONSTANT PENDING_SLOTS  \* slots of the pool (16)

Slots == 1 .. PENDING_SLOTS

EmptyQueue == [head |-> 0, cell |-> << >>]

MPI_ANY_SOURCE == -1
MPI_ANY_TAG    == -1

matches(frame, source, tag) ==
  /\ source # MPI_ANY_SOURCE => frame.src = source
  /\ tag # MPI_ANY_TAG => frame.tag = tag

\* The slots on the list, in its order.
list(q) ==
  LET walk[s \in {0} \cup DOMAIN q.cell] ==
        IF s = 0 THEN << >> ELSE << s >> \o walk[q.cell[s].next]
  IN  walk[q.head]

\* What a loop that counts up finds first of S, or 0.
First(S) == IF S = {} THEN 0 ELSE CHOOSE x \in S : \A y \in S : x <= y

\* Where pending_take finds its message on the list, or 0.
Place(q, source, tag) ==
  First({i \in DOMAIN list(q) : matches(q.cell[list(q)[i]].frame, source, tag)})

\* pending_take unlinks the slot at place i.
pending_take(q, i) ==
  LET after == q.cell[list(q)[i]].next
  IN  IF i = 1 THEN [q EXCEPT !.head = after]
               ELSE [q EXCEPT !.cell[list(q)[i - 1]].next = after]

\* Variant of pending_alloc: the loop runs one slot too far.
pending_alloc_beyond(q) == First((1 .. PENDING_SLOTS + 1) \ DOMAIN q.cell)

pending_alloc(q) == First(Slots \ DOMAIN q.cell)

\* Variant of pending_release: the loop stops one slot too early.
pending_release_short(q, s) ==
  [q EXCEPT !.cell = [u \in {v \in DOMAIN q.cell : v # s \/ v = PENDING_SLOTS} |-> q.cell[u]]]

pending_release(q, s) == [q EXCEPT !.cell = [u \in DOMAIN q.cell \ {s} |-> q.cell[u]]]

\* Slot s with its next pointer and the frame recv_match fills in, in use.
Filled(cell, s, next, frame) ==
  [u \in DOMAIN cell \cup {s} |-> IF u = s THEN [next |-> next, frame |-> frame] ELSE cell[u]]

\* Variant of pending_push: onto the front.
pending_push_front(q, s, frame) == [head |-> s, cell |-> Filled(q.cell, s, q.head, frame)]

\* pending_push walks to the last slot of the list and links s behind it.
pending_push(q, s, frame) ==
  IF q.head = 0
    THEN [head |-> s, cell |-> Filled(q.cell, s, 0, frame)]
    ELSE [head |-> q.head,
          cell |-> Filled([q.cell EXCEPT ![list(q)[Len(list(q))]].next = s], s, 0, frame)]

\* The messages waiting, oldest first.
Messages(q) == [i \in DOMAIN list(q) |-> q.cell[list(q)[i]].frame]

=============================================================================
