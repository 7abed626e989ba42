------------------------------ MODULE Numerals ------------------------------
(***************************************************************************)
(* Where the library turns numbers and text into each other: byte order    *)
(* and dotted addresses (src/src/socket.c), printf's formatting            *)
(* (src/src/stdio.c), and the rank and size that MPI_Launch puts into argv *)
(* and MPI_Init takes out again (src/src/mpi.c).                           *)
(*                                                                         *)
(* Text is a sequence of character codes without its final NUL.  A         *)
(* uint32_t is its four bytes, the most significant first.                 *)
(***************************************************************************)
EXTENDS Integers, Sequences

LOCAL INSTANCE SequencesExt

CONSTANTS PRINTF_BUFFER_SIZE,   \* 512
          MPI_MAX_RANKS,        \* 16
          INT_MAX               \* 2^31 - 1

NUL     == 0
NULL    == << NUL >>   \* the null pointer that ends argv; no text holds a NUL
MINUS   == 45
DOT     == 46
PERCENT == 37
Code(d) == IF d < 10 THEN 48 + d ELSE 87 + d   \* "0123456789abcdef"[d]
IsDigit(c) == c \in 48 .. 57

\* The character at position i of a NUL-terminated text.
At(s, i) == IF i <= Len(s) THEN s[i] ELSE NUL

\* What the loop over decimal digits computes, v = v * 10 + digit.
Decimal(s) == FoldLeft(LAMBDA v, c : v * 10 + (c - 48), 0, s)

\* The same in an int, which wraps around in the build.
DecimalInt(s) ==
  LET Wrap(v) == ((v + INT_MAX + 1) % (2 * (INT_MAX + 1))) - (INT_MAX + 1)
  IN  FoldLeft(LAMBDA v, c : Wrap(v * 10 + (c - 48)), 0, s)

\* The digits of v as the loops over v % base and v / base find them, the
\* lowest first.
DigitsUp(v, base) ==
  LET tmp[u \in Nat] ==
        IF u < base THEN << Code(u) >> ELSE << Code(u % base) >> \o tmp[u \div base]
  IN  tmp[v]

-----------------------------------------------------------------------------
\* Byte order.

htonl(v) == << v[4], v[3], v[2], v[1] >>

INADDR_NONE == << 255, 255, 255, 255 >>

\* The number of digits in s from position i on.
RunLength(s, i) ==
  LET run[n \in Nat] == IF IsDigit(At(s, i + n)) THEN run[n + 1] ELSE n
  IN  run[0]

\* inet_addr reads the part n of four at position st.at.
ReadPart(s, st, n) ==
  LET len == RunLength(s, st.at)
      v   == Decimal(SubSeq(s, st.at, st.at + len - 1))
  IN  IF /\ st.ok
         /\ len \in 1 .. 3 /\ v <= 255
         /\ At(s, st.at + len) = IF n < 4 THEN DOT ELSE NUL
        THEN [ok |-> TRUE, at |-> st.at + len + 1, parts |-> Append(st.parts, v)]
        ELSE [st EXCEPT !.ok = FALSE]

\* Variant of inet_addr: what follows the fourth part is not looked at.
inet_addr_open_end(s) ==
  LET end == FoldLeft(LAMBDA st, n : ReadPart(s, st, n),
                      [ok |-> TRUE, at |-> 1, parts |-> << >>], << 1, 2, 3 >>)
      len == RunLength(s, end.at)
      v   == Decimal(SubSeq(s, end.at, end.at + len - 1))
  IN  IF end.ok /\ len \in 1 .. 3 /\ v <= 255 THEN htonl(Append(end.parts, v)) ELSE INADDR_NONE

inet_addr(s) ==
  LET end == FoldLeft(LAMBDA st, n : ReadPart(s, st, n),
                      [ok |-> TRUE, at |-> 1, parts |-> << >>], << 1, 2, 3, 4 >>)
  IN  IF end.ok THEN htonl(end.parts) ELSE INADDR_NONE

OctetText(o) ==
  (IF o >= 100 THEN << Code(o \div 100) >> ELSE << >>)
  \o (IF o >= 10 THEN << Code((o \div 10) % 10) >> ELSE << >>)
  \o << Code(o % 10) >>

inet_ntoa_r(addr) ==
  LET h == htonl(addr)
  IN  OctetText(h[1]) \o << DOT >> \o OctetText(h[2]) \o << DOT >>
      \o OctetText(h[3]) \o << DOT >> \o OctetText(h[4])

-----------------------------------------------------------------------------
\* printf.  buf holds the pos characters written so far.

\* Variant of append_char: the last byte of the buffer is used as well.
append_char_full(buf, c) == IF Len(buf) < PRINTF_BUFFER_SIZE THEN Append(buf, c) ELSE buf

append_char(buf, c) == IF Len(buf) < PRINTF_BUFFER_SIZE - 1 THEN Append(buf, c) ELSE buf

append_string(buf, s) == FoldLeft(append_char, buf, s)

append_uint(buf, value, base) == append_string(buf, Reverse(DigitsUp(value, base)))

append_int(buf, value) ==
  IF value < 0 THEN append_uint(append_char(buf, MINUS), -value, 10)
               ELSE append_uint(buf, value, 10)

\* The switch on the character after a %; st.args are the arguments left.
Directive(st, c) ==
  LET arg  == Head(st.args)
      Took(buf) == [buf |-> buf, args |-> Tail(st.args), percent |-> FALSE]
      Put(buf)  == [st EXCEPT !.buf = buf, !.percent = FALSE]
  IN  CASE c = 115 -> Took(append_string(st.buf, arg))       \* s
        [] c = 100 -> Took(append_int(st.buf, arg))          \* d
        [] c = 117 -> Took(append_uint(st.buf, arg, 10))     \* u
        [] c = 120 -> Took(append_uint(st.buf, arg, 16))     \* x
        [] c = 99  -> Took(append_char(st.buf, arg))         \* c
        [] c = PERCENT -> Put(append_char(st.buf, PERCENT))
        [] OTHER   -> Put(append_char(append_char(st.buf, PERCENT), c))

\* What printf writes; its length is what it returns.
printf(fmt, args) ==
  LET Step(st, c) == IF st.percent THEN Directive(st, c)
                     ELSE IF c = PERCENT THEN [st EXCEPT !.percent = TRUE]
                     ELSE [st EXCEPT !.buf = append_char(@, c)]
      end == FoldLeft(Step, [buf |-> << >>, args |-> args, percent |-> FALSE], fmt)
  IN  IF end.percent THEN append_char(end.buf, PERCENT) ELSE end.buf

-----------------------------------------------------------------------------
\* Rank and size on the command line.

int_to_str(v) == Reverse(DigitsUp(v, 10))

\* The argv that MPI_Launch gives rank r.
LaunchArgv(path, r, size) == << path, int_to_str(r), int_to_str(size), NULL >>

\* rank and size, or << >> for MPI_ERR_OTHER.  argv[0] is argv[1] here.  An
\* overflow of r is undefined, so the compiler may take r < 0 for impossible:
\* tested says whether the build kept that test.
parse_rank_args(argc, argv, tested) ==
  LET r == DecimalInt(argv[2])
      n == DecimalInt(argv[3])
  IN  IF /\ argc >= 3
         /\ \A i \in DOMAIN argv[2] : IsDigit(argv[2][i])
         /\ \A i \in DOMAIN argv[3] : IsDigit(argv[3][i])
         /\ n \in 1 .. MPI_MAX_RANKS
         /\ tested => r >= 0
         /\ r < n
        THEN << r, n >>
        ELSE << >>

\* Variant of DropRankArgs: the null pointer at the end is left behind.
DropRankArgs_short(argc, argv) ==
  FoldLeft(LAMBDA v, i : [v EXCEPT ![i - 1] = v[i + 1]],
           [argv EXCEPT ![2] = argv[1]], [k \in 1 .. argc - 3 |-> k + 2])

\* MPI_Init takes its two arguments out of argv.
DropRankArgs(argc, argv) ==
  FoldLeft(LAMBDA v, i : [v EXCEPT ![i - 1] = v[i + 1]],
           [argv EXCEPT ![2] = argv[1]], [k \in 1 .. argc - 2 |-> k + 2])

=============================================================================
