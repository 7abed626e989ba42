------------------------------ MODULE Mailbox ------------------------------
(***************************************************************************)
(* What receive matching promises every rank: one mailbox, in which        *)
(* messages wait in the order of their arrival, and from which a receive   *)
(* takes the first one it is asking for.  A mailbox may lose a message     *)
(* only when Capacity others that nobody is asking for are waiting before  *)
(* it.                                                                     *)
(***************************************************************************)
EXTENDS Integers, Sequences

CONSTANTS Owners, Capacity, matches(_, _, _)

VARIABLES mail,   \* per owner: the messages, oldest first
          want    \* per owner: source and tag of the receive under way, or << >>

Wants(r, i) == matches(mail[r][i], want[r][1], want[r][2])

Without(s, i) == SubSeq(s, 1, i - 1) \o SubSeq(s, i + 1, Len(s))

Arrive(r) ==
  Len(mail'[r]) = Len(mail[r]) + 1 /\ SubSeq(mail'[r], 1, Len(mail[r])) = mail[r]

Take(r) ==
  /\ want[r] # << >>
  /\ \E i \in DOMAIN mail[r] : /\ Wants(r, i) /\ \A j \in 1 .. i - 1 : ~Wants(r, j)
                               /\ mail'[r] = Without(mail[r], i)

Overflow(r) ==
  /\ want[r] # << >> /\ want'[r] = want[r]
  /\ Len(mail[r]) > Capacity
  /\ \A j \in 1 .. Capacity + 1 : ~Wants(r, j)
  /\ mail'[r] = Without(mail[r], Capacity + 1)

Close(r) ==
  /\ want[r] = << >>
  /\ \E n \in 0 .. Capacity : n <= Len(mail[r]) /\ mail'[r] = SubSeq(mail[r], 1, n)

Ask(r) == mail'[r] = mail[r]

Next == \A r \in Owners : Ask(r) \/ Arrive(r) \/ Take(r) \/ Overflow(r) \/ Close(r)

vars == << mail, want >>

Spec == [][Next]_vars

=============================================================================
