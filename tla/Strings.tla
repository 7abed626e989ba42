------------------------------ MODULE Strings ------------------------------
(***************************************************************************)
(* The memory and string functions of src/src/string.c.  Memory is a       *)
(* function from addresses to bytes, a pointer is an address, and a loop   *)
(* is a fold over the values of its counter, in the loop's order.          *)
(***************************************************************************)
EXTENDS Integers, Sequences

LOCAL INSTANCE SequencesExt

Up(n)   == [k \in 1 .. n |-> k - 1]
Down(n) == [k \in 1 .. n |-> n - k]

\* One byte at a time, read from memory as the bytes before it left it.
CopyBytes(mem, d, s, order) ==
  FoldLeft(LAMBDA m, i : [m EXCEPT ![d + i] = m[s + i]], mem, order)

memcpy(mem, d, s, n) == CopyBytes(mem, d, s, Up(n))

\* Variant of memmove: always upwards.
memmove_upwards(mem, d, s, n) == CopyBytes(mem, d, s, Up(n))

memmove(mem, d, s, n) ==
  IF d < s THEN CopyBytes(mem, d, s, Up(n)) ELSE CopyBytes(mem, d, s, Down(n))

\* c is an int; the byte stored is its lowest.
memset(mem, s, c, n) ==
  FoldLeft(LAMBDA m, i : [m EXCEPT ![s + i] = c % 256], mem, Up(n))

strlen(mem, s) ==
  LET from[n \in Nat] == IF mem[s + n] = 0 THEN n ELSE from[n + 1]
  IN  from[0]

\* Variant of strcmp: char as the compiler has it, signed.
strcmp_signed(mem, a, b) ==
  LET char(x) == IF x > 127 THEN x - 256 ELSE x
      from[i \in Nat] ==
        IF mem[a + i] # 0 /\ mem[a + i] = mem[b + i]
          THEN from[i + 1] ELSE char(mem[a + i]) - char(mem[b + i])
  IN  from[0]

strcmp(mem, a, b) ==
  LET from[i \in Nat] ==
        IF mem[a + i] # 0 /\ mem[a + i] = mem[b + i]
          THEN from[i + 1] ELSE mem[a + i] - mem[b + i]
  IN  from[0]

strncmp(mem, a, b, n) ==
  LET from[i \in Nat] ==
        IF i = n THEN 0
        ELSE IF mem[a + i] # mem[b + i] THEN mem[a + i] - mem[b + i]
        ELSE IF mem[a + i] = 0 THEN 0
        ELSE from[i + 1]
  IN  from[0]

memcmp(mem, a, b, n) ==
  LET from[i \in Nat] ==
        IF i = n THEN 0
        ELSE IF mem[a + i] # mem[b + i] THEN mem[a + i] - mem[b + i]
        ELSE from[i + 1]
  IN  from[0]

=============================================================================
