------------------------------- MODULE MCMpi -------------------------------
(***************************************************************************)
(* Programs for Mpi.  In each of them the ranks call the same collectives  *)
(* in the same order, and nothing else keeps them together.                *)
(***************************************************************************)
EXTENDS Mpi, TLC

All(calls) == [r \in Ranks |-> calls]

\* Back-to-back collectives; the second is the sequence the comment at lines
\* 50-53 tells of, with the fast ranks one reduce ahead.
Collectives == {
  All(<< Barrier, Barrier, Finalize >>),
  All(<< Reduce(0, "int"), Allreduce("int") >>),
  All(<< Reduce(1, "int"), Bcast(2), Reduce(1, "int") >>),
  All(<< Bcast(0), Barrier, Bcast(1) >>),
  All(<< Reduce(0, "raw"), Barrier, Reduce(0, "int") >>) }

\* Ranks 1 and 2 send to rank 0 in one order, which receives in another, by
\* sender, by tag, and by neither; a barrier in between.
Exchanges == {
  0 :> << Recv(2, 7), Recv(1, MPI_ANY_TAG), Barrier, Recv(MPI_ANY_SOURCE, 5), Recv(1, 6) >>
  @@ 1 :> << Send(0, 5), Send(0, 5), Barrier, Send(0, 6) >>
  @@ 2 :> << Send(0, 7), Barrier >>,
  0 :> << Send(1, 5), Recv(1, 6), Finalize, Send(1, 5) >>
  @@ 1 :> << Send(0, 6), Recv(0, 5), Send(2, 3), Send(2, 4), Send(2, 4) >>
  @@ 2 :> << Send(0, -3), Recv(1, 4), Recv(MPI_ANY_SOURCE, 4), Recv(1, 3) >>,
  0 :> << Barrier, Recv(MPI_ANY_SOURCE, 2^24 + 1), Recv(1, 5), Recv(1, 5) >>
  @@ 1 :> << Send(0, 2^24 + 1), SendLong(0, 5, 2), SendLong(0, 5, 3), Barrier, Send(0, 5) >>
  @@ 2 :> << Send(7, 1), Recv(7, 1), Bcast(7), Barrier >> }

\* One rank contributes a message of another size, or everybody one too large.
Sizes == {
  0 :> << Reduce(0, "int"), Reduce(0, "int") >>
  @@ 1 :> << ReduceOf(0, "int", 2), Reduce(0, "int") >>
  @@ 2 :> << Reduce(0, "int"), Reduce(0, "int") >>,
  All(<< ReduceOf(0, "int", 3), Barrier >>) }

CorrectPrograms == Collectives \cup Exchanges \cup Sizes

\* Rank 1 sends with the tag of the first reduce.
ReservedTag == {
  0 :> << Reduce(0, "int") >>
  @@ 1 :> << Send(0, coll_tag(COLL_REDUCE, 1)), Reduce(0, "int") >> }

=============================================================================
