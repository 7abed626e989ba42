----------------------------- MODULE MCLibrary -----------------------------
(***************************************************************************)
(* The inputs of the Library run.                                          *)
(***************************************************************************)
EXTENDS Library, FiniteSets

\* Six bytes that all differ, and every range inside them.
Ranges == {x \in [d : 1 .. 6, s : 1 .. 6, n : 0 .. 6] : x.d + x.n <= 7 /\ x.s + x.n <= 7}
Overlap(x) == x.s < x.d /\ x.d < x.s + x.n

MemoryCallsMC ==
  {[op |-> "memmove", mem |-> << 11, 12, 13, 14, 15, 16 >>, d |-> x.d, s |-> x.s, n |-> x.n] :
     x \in Ranges}
  \union {[op |-> "memcpy", mem |-> << 11, 12, 13, 14, 15, 16 >>, d |-> x.d, s |-> x.s, n |-> x.n] :
     x \in {y \in Ranges : ~Overlap(y)}}
  \union {[op |-> "memset", mem |-> << 11, 12, 13, 14, 15, 16 >>, d |-> x.d, c |-> c, n |-> x.n] :
     x \in {y \in Ranges : y.s = 1}, c \in {0, 255, 256, 511, -1}}

\* Strings of up to two bytes; what follows their NUL differs.
Texts == UNION {[1 .. k -> {1, 127, 128, 255}] : k \in 0 .. 2}
Shorter(x, y) == IF Len(x) < Len(y) THEN Len(x) ELSE Len(y)

CompareCalls ==
  UNION {{[op |-> "compare", mem |-> x \o << 0, 7 >> \o y \o << 0, 9 >>,
           a |-> 1, b |-> Len(x) + 3, n |-> n] : n \in 0 .. Shorter(x, y) + 2} :
         x \in Texts, y \in Texts}

\* The parts of an address, with the number meant or -1.
Parts == {[text |-> << 48 >>, value |-> 0],        [text |-> << 50, 53, 53 >>, value |-> 255],
          [text |-> << 48, 48, 55 >>, value |-> 7], [text |-> << 50, 53, 54 >>, value |-> -1],
          [text |-> << >>, value |-> -1],           [text |-> << 48, 48, 48, 49 >>, value |-> -1],
          [text |-> << 49, 97 >>, value |-> -1]}
Quads == UNION {[1 .. k -> Parts] : k \in {1, 3, 4}}
         \union {q \in [1 .. 5 -> Parts] : q[2] = q[1] /\ q[3] = q[1] /\ q[4] = q[1]}
QuadText(q) == LET text[k \in 1 .. Len(q)] ==
                     IF k = 1 THEN q[1].text ELSE text[k - 1] \o << DOT >> \o q[k].text
               IN  text[Len(q)]
Octets == {0, 9, 10, 100, 109, 255}

InetCalls ==
  {[op |-> "inet_addr", text |-> QuadText(q), octets |-> [i \in DOMAIN q |-> q[i].value]] : q \in Quads}
  \union {[op |-> "inet_ntoa_r", addr |-> a] : a \in [1 .. 4 -> Octets]}

\* Pieces of a format, their arguments and the text meant.
Piece(fmt, args, meant) == [fmt |-> fmt, args |-> args, meant |-> meant]
Pieces == {Piece(<< 97 >>, << >>, << 97 >>),                        \* a
           Piece(<< 37, 115 >>, << << >> >>, << >>),                \* %s, ""
           Piece(<< 37, 115 >>, << << 98, 99 >> >>, << 98, 99 >>),  \* %s, "bc"
           Piece(<< 37, 100 >>, << 0 >>, << 48 >>),                 \* %d, 0
           Piece(<< 37, 100 >>, << -70 >>, << 45, 55, 48 >>),       \* %d, -70
           Piece(<< 37, 117 >>, << 109 >>, << 49, 48, 57 >>),       \* %u, 109
           Piece(<< 37, 120 >>, << 2748 >>, << 97, 98, 99 >>),      \* %x, 0xabc
           Piece(<< 37, 99 >>, << 113 >>, << 113 >>),               \* %c, 'q'
           Piece(<< 37, 37 >>, << >>, << 37 >>),                    \* %%
           Piece(<< 37, 122 >>, << >>, << 37, 122 >>)}              \* %z
LastPieces == Pieces \union {Piece(<< 37 >>, << >>, << 37 >>)}      \* a lone %

PrintfCalls ==
  {[op |-> "printf", fmt |-> p.fmt \o q.fmt \o r.fmt, args |-> p.args \o q.args \o r.args,
    meant |-> p.meant \o q.meant \o r.meant] : p \in Pieces, q \in Pieces, r \in LastPieces}

\* Argument texts with the number they spell, or -1.  No digits spell 0.  The
\* last two do not fit an int: one wraps to a negative number, one to 3.
Spelt == {[text |-> << >>, value |-> 0], [text |-> << 48 >>, value |-> 0],
          [text |-> << 49 >>, value |-> 1], [text |-> << 49, 54 >>, value |-> 16],
          [text |-> << 49, 55 >>, value |-> 17], [text |-> << 49, 120 >>, value |-> -1],
          [text |-> << 50, 48, 53, 48 >>, value |-> 2050], [text |-> << 52, 48, 57, 57 >>, value |-> 4099]}
Name == << 112 >>
LaunchCalls ==
  {[op |-> "launch", path |-> Name, rank |-> r, size |-> n] :
     << r, n >> \in {x \in (0 .. MPI_MAX_RANKS - 1) \X (1 .. MPI_MAX_RANKS) : x[1] < x[2]}}
  \union {[op |-> "rank_args", path |-> Name, rank |-> r, size |-> n, own |-> own] :
            r \in Spelt, n \in Spelt, own \in {<< >>, << << 45 >> >>, << << 45 >>, << 122 >>, << >> >>}}

\* The kernel says 0 for a terminal or an error.
SyscallCalls ==
  {[op |-> "syscall", name |-> name, kernel |-> k] : name \in DOMAIN Wrapper, k \in {-14, 0}}
  \union {[op |-> "syscall", name |-> name, kernel |-> 8192] : name \in DOMAIN Wrapper \ {"isatty"}}

\* Series of three sigactions, with and without either pointer; 22 is EINVAL.
Action(handler, flags, mask) == [handler |-> handler, flags |-> flags, mask |-> mask]
Garbage == Action("garbage", {}, 7)
Sigactions ==
  [act : {<< >>, << Action("SIG_DFL", {}, 0) >>, << Action("h", {"SA_SIGINFO"}, 2) >>},
   old : {<< >>, << Garbage >>}, rc : {0, -22}]
SigactionCalls == {[op |-> "sigaction", calls |-> c] : c \in [1 .. 3 -> Sigactions]}

MCCalls == MemoryCallsMC \union CompareCalls \union InetCalls \union PrintfCalls
           \union LaunchCalls \union SyscallCalls \union SigactionCalls
=============================================================================
