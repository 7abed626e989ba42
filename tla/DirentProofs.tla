---------------------------- MODULE DirentProofs ----------------------------
(***************************************************************************)
(* Proofs about Dirent, for any number of streams, any directories and any *)
(* record lengths that fit the buffer.  What the kernel writes is a run of *)
(* records; the inductive invariant IInv says where in its directory the   *)
(* batch in a stream's buffer begins, and that next is the offset of the   *)
(* record after those handed out.                                          *)
(***************************************************************************)
EXTENDS Dirent, FiniteSetTheorems, NaturalsInduction, TLAPS

\* A set of numbers that is not empty has a least element.
LEMMA Least ==
  ASSUME NEW T \in SUBSET Nat, T # {} PROVE \E x \in T : \A y \in T : x <= y
  <1>1. IsWellFoundedOn(OpToRel(<, Nat), Nat)
    BY NatLessThanWellFounded, Zenon
  <1>2. PICK x \in T : \A y \in T : << y, x >> \notin OpToRel(<, Nat)
    BY <1>1, WFMin, Zenon
  <1>3. \A y \in T : ~ (y < x)
    BY <1>2, Zenon DEF OpToRel
  <1> QED
    BY <1>3

Sums(f, n, len) == \A k \in 0 .. n : f[k] = IF k = 0 THEN 0 ELSE f[k - 1] + len[k]

\* There is a table of the sums of the first lengths.
LEMMA SumsExist ==
  ASSUME NEW n \in Nat, NEW len \in [1 .. n -> Nat]
  PROVE  \E f \in [0 .. n -> Nat] : Sums(f, n, len)
  <1> DEFINE Good(m) == \E f \in [0 .. m -> Nat] : Sums(f, m, len)
             Bad == {m \in 0 .. n : ~ Good(m)}
  <1>1. CASE Bad = {}
    <2>1. n \in 0 .. n
      OBVIOUS
    <2> QED
      BY <1>1, <2>1, Zenon
  <1>2. CASE Bad # {}
    <2>1. Bad \in SUBSET Nat
      OBVIOUS
    <2>2. PICK x \in Bad : \A y \in Bad : x <= y
      BY <1>2, <2>1, Least, Zenon
    <2>3. x \in 0 .. n /\ ~ Good(x)
      BY <2>2, Zenon
    <2>4. CASE x = 0
      <3>1. [k \in 0 .. 0 |-> 0] \in [0 .. 0 -> Nat] /\ Sums([k \in 0 .. 0 |-> 0], 0, len)
        BY DEF Sums
      <3> QED
        BY <2>3, <2>4, <3>1
    <2>5. CASE x # 0
      <3>1. x - 1 \in 0 .. n /\ ~ (x <= x - 1)
        BY <2>3, <2>5
      <3>2. Good(x - 1)
        BY <2>2, <3>1, Zenon
      <3>3. PICK g \in [0 .. x - 1 -> Nat] : Sums(g, x - 1, len)
        BY <3>2
      <3> DEFINE f == [k \in 0 .. x |-> IF k = x THEN g[x - 1] + len[x] ELSE g[k]]
      <3>4. x \in 1 .. n /\ x - 1 \in 0 .. x - 1
        BY <2>3, <2>5
      <3>5. f \in [0 .. x -> Nat]
        BY <2>3, <3>4
      <3>6. ASSUME NEW k \in 0 .. x PROVE f[k] = IF k = 0 THEN 0 ELSE f[k - 1] + len[k]
        <4>1. CASE k = x
          BY <2>3, <2>5, <3>4, <4>1
        <4>2. CASE k # x
          <5>1. k \in 0 .. x - 1 /\ f[k] = g[k]
            BY <2>3, <4>2
          <5>2. k # 0 => k - 1 \in 0 .. x - 1 /\ f[k - 1] = g[k - 1]
            BY <2>3, <5>1
          <5> QED
            BY <3>3, <5>1, <5>2 DEF Sums
        <4> QED
          BY <4>1, <4>2
      <3>7. Sums(f, x, len)
        BY <3>6 DEF Sums
      <3> QED
        BY <2>3, <3>5, <3>7, Zenon
    <2> QED
      BY <2>4, <2>5, Zenon
  <1> QED
    BY <1>1, <1>2

\* What Before is.
LEMMA BeforeSums ==
  ASSUME NEW p \in DOMAIN Content
  PROVE  /\ Before(p) \in [0 .. Len(Content[p]) -> Nat]
         /\ Before(p)[0] = 0
         /\ \A k \in 1 .. Len(Content[p]) : Before(p)[k] = Before(p)[k - 1] + RecLen[Content[p][k]]
  <1> DEFINE n == Len(Content[p])
             len == [k \in 1 .. n |-> RecLen[Content[p][k]]]
  <1>1. Content[p] \in Seq(Names) /\ n \in Nat
    BY DirentAssumption
  <1>2. len \in [1 .. n -> Nat]
    BY <1>1, DirentAssumption
  <1>3. PICK f \in [0 .. n -> Nat] : Sums(f, n, len)
    BY <1>1, <1>2, SumsExist, Zenon
  <1>4. \A k \in 1 .. n : len[k] = RecLen[Content[p][k]]
    OBVIOUS
  <1> DEFINE Is(g) == g = [k \in 0 .. n |-> IF k = 0 THEN 0 ELSE g[k - 1] + RecLen[Content[p][k]]]
  <1>5. \A k \in 0 .. n : f[k] = IF k = 0 THEN 0 ELSE f[k - 1] + RecLen[Content[p][k]]
    BY <1>1, <1>3, <1>4 DEF Sums
  <1>6. Is(f)
    BY <1>5
  <1>7. Before(p) = CHOOSE g : Is(g)
    BY DEF Before
  <1>8. Is(Before(p))
    BY <1>6, <1>7, Zenon
  <1> DEFINE g == Before(p)
  <1>9. \A k \in 0 .. n : g[k] = IF k = 0 THEN 0 ELSE g[k - 1] + RecLen[Content[p][k]]
    BY <1>8
  <1>10. g = [k \in 0 .. n |-> g[k]]
    BY <1>8
  <1> HIDE DEF g, n, len, Is
  <1>11. \A k \in 0 .. n : g[k] = f[k]
    <2> DEFINE Bad == {k \in 0 .. n : g[k] # f[k]}
    <2>1. SUFFICES ASSUME Bad # {} PROVE FALSE
      OBVIOUS
    <2>2. Bad \in SUBSET Nat
      BY <1>1
    <2>3. PICK x \in Bad : \A y \in Bad : x <= y
      BY <2>1, <2>2, Least, Zenon
    <2>4. x \in 0 .. n /\ g[x] # f[x]
      BY <2>3
    <2>5. x # 0
      BY <1>5, <1>9, <2>4
    <2>6. x - 1 \in 0 .. n /\ ~ (x <= x - 1)
      BY <1>1, <2>4, <2>5
    <2>7. g[x - 1] = f[x - 1]
      BY <2>3, <2>6
    <2> QED
      BY <1>5, <1>9, <2>4, <2>5, <2>7
  <1>12. g \in [0 .. n -> Nat]
    BY <1>10, <1>11
  <1>13. g[0] = 0 /\ \A k \in 1 .. n : g[k] = g[k - 1] + RecLen[Content[p][k]]
    BY <1>1, <1>9
  <1> QED
    BY <1>12, <1>13 DEF g, n

\* A record further on begins further on.
LEMMA BeforeGrows ==
  ASSUME NEW p \in DOMAIN Content, NEW a \in 0 .. Len(Content[p]), NEW b \in 0 .. Len(Content[p]), a < b
  PROVE  Before(p)[a] < Before(p)[b]
  <1> DEFINE n == Len(Content[p])
             g == Before(p)
             Bad == {k \in a + 1 .. n : ~ (g[a] < g[k])}
  <1>1. Content[p] \in Seq(Names) /\ n \in Nat
    BY DirentAssumption
  <1>2. /\ g \in [0 .. n -> Nat]
        /\ \A k \in 1 .. n : g[k] = g[k - 1] + RecLen[Content[p][k]]
    BY BeforeSums
  <1>3. \A k \in 1 .. n : RecLen[Content[p][k]] \in Nat \ {0}
    BY <1>1, DirentAssumption
  <1> HIDE DEF n, g
  <1>4. SUFFICES Bad = {}
    BY <1>1 DEF n, g
  <1>5. SUFFICES ASSUME Bad # {} PROVE FALSE
    OBVIOUS
  <1>6. a \in 0 .. n
    BY DEF n
  <1>7. Bad \in SUBSET Nat
    BY <1>1, <1>6
  <1>8. PICK x \in Bad : \A y \in Bad : x <= y
    BY <1>5, <1>7, Least, Zenon
  <1>9. x \in a + 1 .. n /\ ~ (g[a] < g[x])
    BY <1>8
  <1>10. x \in 1 .. n /\ x - 1 \in 0 .. n /\ ~ (x <= x - 1)
    BY <1>1, <1>6, <1>9
  <1>11. x - 1 \notin Bad
    BY <1>8, <1>10
  <1>12. x - 1 = a \/ g[a] < g[x - 1]
    BY <1>6, <1>9, <1>10, <1>11
  <1>13. g[a] \in Nat /\ g[x] \in Nat /\ g[x - 1] \in Nat
    BY <1>2, <1>6, <1>10
  <1>14. g[x] = g[x - 1] + RecLen[Content[p][x]] /\ RecLen[Content[p][x]] \in Nat \ {0}
    BY <1>2, <1>3, <1>10
  <1>15. PICK l \in Nat \ {0} : g[x] = g[x - 1] + l
    BY <1>14
  <1> QED
    BY <1>9, <1>12, <1>13, <1>15

-----------------------------------------------------------------------------
\* A directory stream, and a descriptor of the kernel's.
Bufs == [Offsets -> Names \union {Inside}]

DIR == [in_use : BOOLEAN, fd : Int, buf : Bufs,
        valid : Int, next : Int, at_end : BOOLEAN]

Desc == [path : DOMAIN Content \union Files, pos : Nat]

\* A descriptor of a directory, somewhere in it.
Listing(f) == f \in Desc /\ f.path \in DOMAIN Content /\ f.pos <= Len(Content[f.path])

\* Bytes of a range of records.
LEMMA BytesFacts ==
  ASSUME NEW p \in DOMAIN Content, NEW a \in Nat, NEW b \in Nat, a <= b, b <= Len(Content[p])
  PROVE  /\ Bytes(p, a, b) \in Nat /\ Bytes(p, a, a) = 0
         /\ a < b => Bytes(p, a, b) > 0
         /\ \A c \in b .. Len(Content[p]) : Bytes(p, a, b) <= Bytes(p, a, c)
         /\ \A c \in b + 1 .. Len(Content[p]) : Bytes(p, a, b) < Bytes(p, a, c)
         /\ b < Len(Content[p]) => /\ Content[p][b + 1] \in Names
                                   /\ Bytes(p, a, b + 1) = Bytes(p, a, b) + RecLen[Content[p][b + 1]]
  <1> DEFINE n == Len(Content[p])
             g == Before(p)
  <1>1. Content[p] \in Seq(Names) /\ n \in Nat
    BY DirentAssumption
  <1>2. /\ g \in [0 .. n -> Nat]
        /\ \A k \in 1 .. n : g[k] = g[k - 1] + RecLen[Content[p][k]]
    BY BeforeSums
  <1>3. \A k \in 1 .. n : Content[p][k] \in Names /\ RecLen[Content[p][k]] \in Nat
    BY <1>1, DirentAssumption
  <1>4. \A j, k \in 0 .. n : j < k => g[j] < g[k]
    BY BeforeGrows
  <1> HIDE DEF n, g
  <1>5. a \in 0 .. n /\ b \in 0 .. n /\ g[a] \in Nat /\ g[b] \in Nat /\ (a < b => g[a] < g[b])
    <2>1. a \in 0 .. n /\ b \in 0 .. n
      BY <1>1 DEF n
    <2> QED
      BY <1>2, <1>4, <2>1
  <1>6. \A c \in b .. n : c \in 0 .. n /\ g[c] \in Nat /\ (b < c => g[b] < g[c])
    BY <1>1, <1>2, <1>4, <1>5
  <1>7. b < n => /\ b + 1 \in 1 .. n /\ Content[p][b + 1] \in Names
                 /\ g[b + 1] = g[b] + RecLen[Content[p][b + 1]] /\ RecLen[Content[p][b + 1]] \in Nat
    <2>1. b < n => b + 1 \in 1 .. n /\ b + 1 - 1 = b
      BY <1>1, <1>5
    <2> QED
      BY <1>2, <1>3, <2>1
  <1>8. Bytes(p, a, b) \in Nat /\ Bytes(p, a, a) = 0 /\ (a < b => Bytes(p, a, b) > 0)
    BY <1>5 DEF Bytes, g
  <1>9. \A c \in b .. n : Bytes(p, a, b) <= Bytes(p, a, c) /\ (b < c => Bytes(p, a, b) < Bytes(p, a, c))
    BY <1>5, <1>6 DEF Bytes, g
  <1>10. b < n => Bytes(p, a, b + 1) = Bytes(p, a, b) + RecLen[Content[p][b + 1]]
    BY <1>5, <1>7 DEF Bytes, g
  <1> QED
    BY <1>1, <1>5, <1>7, <1>8, <1>9, <1>10 DEF n

\* getdents reads complete records, as many as fit, and none only at the end.
LEMMA BatchFacts ==
  ASSUME NEW f, Listing(f)
  PROVE  /\ BatchEnd(f) \in f.pos .. Len(Content[f.path])
         /\ BatchBytes(f) \in 0 .. DIRENT_BUF_SIZE
         /\ NothingLeft(f) => f.pos = Len(Content[f.path])
  <1> DEFINE p == f.path
             a == f.pos
             n == Len(Content[p])
             fits == {b \in a .. n : Bytes(p, a, b) <= DIRENT_BUF_SIZE}
             T == {n - b : b \in fits}
  <1>1. p \in DOMAIN Content /\ a \in Nat /\ n \in Nat /\ a <= n /\ DIRENT_BUF_SIZE \in Nat
    BY DirentAssumption DEF Listing, Desc
  <1>2. BatchEnd(f) = CHOOSE b \in fits : \A c \in fits : c <= b
    BY DEF BatchEnd
  <1> HIDE DEF p, a, n
  <1>3. a \in fits
    BY <1>1, BytesFacts DEF n
  <1>4. T \in SUBSET Nat /\ T # {}
    BY <1>1, <1>3
  <1>5. PICK x \in T : \A y \in T : x <= y
    BY <1>4, Least, Zenon
  <1>6. PICK b \in fits : x = n - b
    BY <1>5
  <1>7. \A c \in fits : c <= b
    <2> TAKE c \in fits
    <2>1. n - b <= n - c
      BY <1>5, <1>6
    <2> QED
      BY <1>1, <2>1
  <1>8. BatchEnd(f) \in fits /\ \A c \in fits : c <= BatchEnd(f)
    BY <1>2, <1>7
  <1>9. BatchEnd(f) \in a .. n /\ Bytes(p, a, BatchEnd(f)) <= DIRENT_BUF_SIZE
    BY <1>8
  <1>10. Bytes(p, a, BatchEnd(f)) \in Nat
    BY <1>1, <1>9, BytesFacts DEF n
  <1>11. BatchEnd(f) = a => a = n
    <2> SUFFICES ASSUME a < n PROVE a + 1 \in fits
      BY <1>1, <1>8, <1>9
    <2>1. Bytes(p, a, a) = 0 /\ Content[p][a + 1] \in Names /\ Bytes(p, a, a + 1) = 0 + RecLen[Content[p][a + 1]]
      BY <1>1, BytesFacts DEF n
    <2>2. RecLen[Content[p][a + 1]] \in 1 .. DIRENT_BUF_SIZE
      BY <2>1, DirentAssumption
    <2> QED
      BY <1>1, <2>1, <2>2
  <1> QED
    BY <1>1, <1>9, <1>10, <1>11 DEF BatchBytes, NothingLeft, p, a, n

\* What the buffer holds after it.
LEMMA WrittenFacts ==
  ASSUME NEW f, Listing(f), NEW buf \in Bufs
  PROVE  /\ Written(buf, f) \in Bufs
         /\ \A k \in f.pos + 1 .. BatchEnd(f) :
              Written(buf, f)[Bytes(f.path, f.pos, k - 1)] = Content[f.path][k]
  <1> DEFINE p == f.path
             a == f.pos
             n == Len(Content[p])
             b == BatchEnd(f)
             starts(o) == {k \in a + 1 .. b : Bytes(p, a, k - 1) = o}
             w == Written(buf, f)
  <1>1. /\ p \in DOMAIN Content /\ a \in Nat /\ n \in Nat /\ a <= n /\ Content[p] \in Seq(Names)
        /\ DIRENT_BUF_SIZE \in Nat
    BY DirentAssumption DEF Listing, Desc
  <1>2. b \in a .. n /\ BatchBytes(f) = Bytes(p, a, b) /\ BatchBytes(f) \in 0 .. DIRENT_BUF_SIZE
    BY BatchFacts DEF BatchBytes
  <1>3. w = [o \in Offsets |-> IF o >= BatchBytes(f) THEN buf[o]
                               ELSE IF starts(o) = {} THEN Inside ELSE Content[p][CHOOSE k \in starts(o) : TRUE]]
    BY DEF Written
  <1> HIDE DEF p, a, n, b, w
  <1>4. \A o : starts(o) # {} => (CHOOSE k \in starts(o) : TRUE) \in starts(o)
    OBVIOUS
  <1>5. \A k \in a + 1 .. b : k \in 1 .. n /\ Content[p][k] \in Names
    BY <1>1, <1>2 DEF n
  <1>6. w \in Bufs
    <2>1. ASSUME NEW o \in Offsets PROVE w[o] \in Names \union {Inside}
      <3>1. CASE o >= BatchBytes(f) \/ starts(o) = {}
        BY <1>3, <3>1 DEF Bufs
      <3>2. CASE ~ (o >= BatchBytes(f)) /\ starts(o) # {}
        <4>1. w[o] = Content[p][CHOOSE k \in starts(o) : TRUE]
          BY <1>3, <3>2
        <4>2. (CHOOSE k \in starts(o) : TRUE) \in a + 1 .. b
          BY <1>4, <3>2
        <4> QED
          BY <1>5, <4>1, <4>2
      <3> QED
        BY <3>1, <3>2
    <2>2. w = [o \in Offsets |-> w[o]]
      BY <1>3
    <2> QED
      BY <2>1, <2>2 DEF Bufs
  <1>7. ASSUME NEW k \in a + 1 .. b PROVE w[Bytes(p, a, k - 1)] = Content[p][k]
    <2> DEFINE o == Bytes(p, a, k - 1)
    <2>1. k - 1 \in Nat /\ a <= k - 1 /\ k - 1 < b /\ b <= n
      BY <1>1, <1>2
    <2>2. o \in Nat /\ o < Bytes(p, a, b)
      <3>1. k - 1 <= Len(Content[p]) /\ b \in (k - 1) + 1 .. Len(Content[p])
        BY <1>1, <1>2, <2>1 DEF n
      <3> QED
        BY <1>1, <2>1, <3>1, BytesFacts
    <2>3. o \in Offsets /\ ~ (o >= BatchBytes(f))
      BY <1>1, <1>2, <2>2 DEF Offsets
    <2>4. k \in starts(o)
      OBVIOUS
    <2>5. ASSUME NEW j \in starts(o) PROVE j = k
      <3>1. j \in a + 1 .. b /\ Bytes(p, a, j - 1) = o
        OBVIOUS
      <3>2. j - 1 \in Nat /\ a <= j - 1 /\ j - 1 < b /\ j - 1 <= Len(Content[p]) /\ k - 1 <= Len(Content[p])
        BY <1>1, <1>2, <2>1, <3>1 DEF n
      <3>3. CASE j < k
        <4>1. k - 1 \in (j - 1) + 1 .. Len(Content[p])
          BY <1>1, <2>1, <3>1, <3>2, <3>3
        <4>2. Bytes(p, a, j - 1) < Bytes(p, a, k - 1)
          BY <1>1, <3>2, <4>1, BytesFacts, Zenon
        <4> QED
          BY <2>2, <3>1, <4>2
      <3>4. CASE k < j
        <4>1. j - 1 \in (k - 1) + 1 .. Len(Content[p])
          BY <1>1, <2>1, <3>1, <3>2, <3>4
        <4>2. Bytes(p, a, k - 1) < Bytes(p, a, j - 1)
          BY <1>1, <2>1, <3>2, <4>1, BytesFacts, Zenon
        <4> QED
          BY <2>2, <3>1, <4>2
      <3> QED
        BY <1>1, <3>1, <3>3, <3>4
    <2>6. (CHOOSE j \in starts(o) : TRUE) = k
      BY <2>4, <2>5
    <2> QED
      BY <1>3, <2>3, <2>4, <2>6
  <1> QED
    BY <1>6, <1>7 DEF p, a, b, w

-----------------------------------------------------------------------------
\* The buffer of stream s holds the records after the a-th of the directory,
\* up to the position of its descriptor f; the next one to hand out is the one
\* after the h-th.
At(s, f, a, h) ==
  /\ a \in Nat /\ h \in a .. f.pos
  /\ s.valid = Bytes(f.path, a, f.pos) /\ s.valid <= DIRENT_BUF_SIZE
  /\ s.next = Bytes(f.path, a, h)
  /\ \A k \in a + 1 .. f.pos : s.buf[Bytes(f.path, a, k - 1)] = Content[f.path][k]

\* A stream that is At some place has its offsets in the buffer, and has a
\* record left exactly if it has not handed out all of the batch.
LEMMA AtOffsets ==
  ASSUME NEW s, NEW f, Listing(f), NEW a, NEW h, At(s, f, a, h)
  PROVE  /\ s.valid \in 0 .. DIRENT_BUF_SIZE /\ s.next \in 0 .. s.valid
         /\ s.next < s.valid <=> h < f.pos
         /\ \A k \in a + 1 .. f.pos : Bytes(f.path, a, k - 1) \in Offsets
  <1>1. /\ f.path \in DOMAIN Content /\ f.pos \in Nat /\ f.pos <= Len(Content[f.path])
        /\ Len(Content[f.path]) \in Nat /\ DIRENT_BUF_SIZE \in Nat
    BY DirentAssumption DEF Listing, Desc
  <1>2. /\ a \in Nat /\ h \in Nat /\ a <= h /\ h <= f.pos
        /\ s.valid = Bytes(f.path, a, f.pos) /\ s.valid <= DIRENT_BUF_SIZE
        /\ s.next = Bytes(f.path, a, h)
    BY <1>1 DEF At
  <1>3. Bytes(f.path, a, f.pos) \in Nat /\ Bytes(f.path, a, h) \in Nat
    BY <1>1, <1>2, BytesFacts
  <1>4. h < f.pos => Bytes(f.path, a, h) < Bytes(f.path, a, f.pos)
    <2>1. h <= Len(Content[f.path]) /\ (h < f.pos => f.pos \in h + 1 .. Len(Content[f.path]))
      BY <1>1, <1>2
    <2> QED
      BY <1>1, <1>2, <2>1, BytesFacts
  <1>5. s.valid \in 0 .. DIRENT_BUF_SIZE /\ s.next \in 0 .. s.valid /\ (s.next < s.valid <=> h < f.pos)
    <2>1. CASE h < f.pos
      BY <1>1, <1>2, <1>3, <1>4, <2>1
    <2>2. CASE h = f.pos
      BY <1>1, <1>2, <1>3, <2>2
    <2> QED
      BY <1>1, <1>2, <2>1, <2>2
  <1>6. ASSUME NEW k \in a + 1 .. f.pos PROVE Bytes(f.path, a, k - 1) \in Offsets
    <2>1. /\ k - 1 \in Nat /\ a <= k - 1 /\ k - 1 <= Len(Content[f.path])
          /\ f.pos \in (k - 1) + 1 .. Len(Content[f.path])
      BY <1>1, <1>2
    <2>2. Bytes(f.path, a, k - 1) \in Nat /\ Bytes(f.path, a, k - 1) < Bytes(f.path, a, f.pos)
      BY <1>1, <1>2, <2>1, BytesFacts
    <2> QED
      BY <1>1, <1>2, <1>3, <2>2 DEF Offsets
  <1> QED
    BY <1>5, <1>6

\* HandOut takes such a stream to the following record, and the record it
\* hands out is the directory's next.
LEMMA HandOutSteps ==
  ASSUME NEW s \in DIR, NEW f, Listing(f), NEW a, NEW h, At(s, f, a, h), h < f.pos
  PROVE  /\ s.buf[s.next] = Content[f.path][h + 1] /\ s.buf[s.next] \in Names
         /\ LET t == [s EXCEPT !.next = @ + (IF s.buf[s.next] = Inside THEN 1 ELSE RecLen[s.buf[s.next]])]
            IN t \in DIR /\ At(t, f, a, h + 1)
  <1> DEFINE e == s.buf[s.next]
             t == [s EXCEPT !.next = @ + (IF e = Inside THEN 1 ELSE RecLen[e])]
  <1>1. /\ f.path \in DOMAIN Content /\ f.pos \in Nat /\ f.pos <= Len(Content[f.path])
        /\ Len(Content[f.path]) \in Nat
    BY DirentAssumption DEF Listing, Desc
  <1>2. /\ a \in Nat /\ h \in Nat /\ a <= h /\ h <= Len(Content[f.path])
        /\ h + 1 \in a + 1 .. f.pos /\ (h + 1) - 1 = h /\ h < Len(Content[f.path])
        /\ h + 1 \in a .. f.pos
    BY <1>1 DEF At
  <1>3. s.next = Bytes(f.path, a, h)
    BY DEF At
  <1>4. e = Content[f.path][h + 1]
    <2>1. s.buf[Bytes(f.path, a, (h + 1) - 1)] = Content[f.path][h + 1]
      BY <1>2 DEF At
    <2> QED
      BY <1>2, <1>3, <2>1
  <1>5. /\ Bytes(f.path, a, h) \in Nat /\ Content[f.path][h + 1] \in Names
        /\ Bytes(f.path, a, h + 1) = Bytes(f.path, a, h) + RecLen[Content[f.path][h + 1]]
    BY <1>1, <1>2, BytesFacts
  <1>6. e \in Names /\ e # Inside /\ RecLen[e] \in Nat
    BY <1>4, <1>5, DirentAssumption
  <1>7. t = [s EXCEPT !.next = Bytes(f.path, a, h + 1)]
    BY <1>3, <1>4, <1>5, <1>6
  <1>8. Bytes(f.path, a, h + 1) \in Int
    BY <1>4, <1>5, <1>6
  <1> HIDE DEF t
  <1>9. t \in DIR /\ t.valid = s.valid /\ t.buf = s.buf /\ t.next = Bytes(f.path, a, h + 1)
    BY <1>7, <1>8 DEF DIR
  <1>10. At(t, f, a, h + 1)
    BY <1>2, <1>9 DEF At
  <1> QED
    BY <1>4, <1>6, <1>9, <1>10 DEF t

\* A refill takes a stream to the beginning of the next batch.
LEMMA RefillSteps ==
  ASSUME NEW s \in DIR, NEW f, Listing(f)
  PROVE  /\ Listing(Advanced(f)) /\ Advanced(f).path = f.path
         /\ Advanced(f).pos = BatchEnd(f) /\ f.pos <= BatchEnd(f)
         /\ Refilled(s, f) \in DIR /\ At(Refilled(s, f), Advanced(f), f.pos, f.pos)
         /\ Refilled(s, f).fd = s.fd /\ Refilled(s, f).in_use = s.in_use
         /\ Refilled(s, f).at_end = s.at_end
  <1> DEFINE p == f.path
             a == f.pos
             g == Advanced(f)
             r == Refilled(s, f)
             w == Written(s.buf, f)
  <1>1. /\ p \in DOMAIN Content /\ a \in Nat /\ a <= Len(Content[p]) /\ f \in Desc
        /\ Len(Content[p]) \in Nat /\ DIRENT_BUF_SIZE \in Nat
    BY DirentAssumption DEF Listing, Desc
  <1>2. /\ BatchEnd(f) \in a .. Len(Content[p])
        /\ BatchBytes(f) \in 0 .. DIRENT_BUF_SIZE /\ BatchBytes(f) = Bytes(p, a, BatchEnd(f))
    BY BatchFacts DEF BatchBytes
  <1>3. g \in Desc /\ g.path = p /\ g.pos = BatchEnd(f)
    BY <1>1, <1>2 DEF Advanced, Desc
  <1>4. Listing(g)
    BY <1>1, <1>2, <1>3 DEF Listing
  <1>5. s.buf \in Bufs
    BY DEF DIR
  <1>6. /\ w \in Bufs
        /\ \A k \in a + 1 .. BatchEnd(f) : w[Bytes(p, a, k - 1)] = Content[p][k]
    BY <1>5, WrittenFacts
  <1>7. r = [s EXCEPT !.buf = w, !.valid = BatchBytes(f), !.next = 0]
    BY DEF Refilled
  <1> HIDE DEF w, r, g
  <1>8. /\ r \in DIR /\ r.buf = w /\ r.valid = BatchBytes(f) /\ r.next = 0
        /\ r.fd = s.fd /\ r.in_use = s.in_use /\ r.at_end = s.at_end
    <2>1. BatchBytes(f) \in Int /\ w \in Bufs
      BY <1>1, <1>2, <1>6
    <2>2. r = [in_use |-> s.in_use, fd |-> s.fd, buf |-> w, valid |-> BatchBytes(f), next |-> 0,
               at_end |-> s.at_end]
      BY <1>7, Zenon DEF DIR
    <2> QED
      BY <2>1, <2>2 DEF DIR
  <1>9. Bytes(p, a, a) = 0
    BY <1>1, BytesFacts
  <1>10. a \in a .. BatchEnd(f) /\ a <= BatchEnd(f) /\ BatchBytes(f) <= DIRENT_BUF_SIZE
    BY <1>1, <1>2
  <1>11. At(r, g, a, a)
    BY <1>1, <1>2, <1>3, <1>6, <1>8, <1>9, <1>10 DEF At
  <1> QED
    BY <1>3, <1>4, <1>8, <1>10, <1>11 DEF r, g

-----------------------------------------------------------------------------
\* The inductive invariant.  A stream in use is At the place its listing has
\* come to: the batch in its buffer begins somewhere before, and reaches up to
\* the position of its descriptor.

Lasts == -1 .. DIRENT_BUF_SIZE - 1

Shape ==
  /\ dirs \in [Streams -> DIR]
  /\ path \in [Streams -> DOMAIN Content \union {""}]
  /\ got \in [Streams -> Seq(Names)]
  /\ last \in [Streams -> Lasts]
  /\ failed \subseteq Streams
  /\ DOMAIN fds \subseteq Nat /\ \A n \in DOMAIN fds : fds[n] \in Desc
  /\ opening \subseteq [d : Streams, fd : DOMAIN fds]
  /\ \A o \in opening : fds[o.fd].pos = 0
  /\ \A o, q \in opening : o = q
  /\ \A d \in Streams : ~ dirs[d].in_use => dirs[d].valid = 0 /\ dirs[d].next = 0

\* What stream d has handed out, h records, and the record handed out last.
Placed(d, f, h) ==
  \E a \in Nat : /\ At(dirs[d], f, a, h)
                 /\ h # 0 => a < h /\ last[d] = Bytes(f.path, a, h - 1)

Follows(d) ==
  LET f == fds[dirs[d].fd]
  IN /\ Listing(f) /\ f.path = path[d]
     /\ Placed(d, f, Len(got[d]))
     /\ Len(got[d]) <= f.pos
     /\ \A k \in 1 .. Len(got[d]) : got[d][k] = Content[path[d]][k]
     /\ dirs[d].at_end /\ d \notin failed => f.pos = Len(Content[path[d]])

IInv == Shape /\ DescriptorOwnership /\ \A d \in InUse : Follows(d)

\* A step that leaves a stream and its descriptor alone.
LEMMA FollowsOn ==
  ASSUME NEW d, Follows(d), dirs'[d] = dirs[d], fds'[dirs[d].fd] = fds[dirs[d].fd],
         path'[d] = path[d], got'[d] = got[d], last'[d] = last[d], d \in failed => d \in failed'
  PROVE  Follows(d)'
  BY DEF Follows, Placed

\* There is a free descriptor for an opendir that has found a free stream.
LEMMA FreeFdIsFree ==
  ASSUME Shape, DescriptorOwnership, opening = {}
  PROVE  FreeFd \in Nat /\ FreeFd \notin DOMAIN fds
  <1> DEFINE N == 0 .. MAX_OPEN_DIRS
             T == {n \in N : n \notin DOMAIN fds}
  <1>1. MAX_OPEN_DIRS \in Nat
    BY DirentAssumption
  <1>2. T # {}
    <2> SUFFICES ASSUME T = {} PROVE FALSE
      OBVIOUS
    <2> DEFINE g == [n \in N |-> CHOOSE d \in InUse : dirs[d].fd = n]
    <2>1. \A n \in N : n \in DOMAIN fds
      OBVIOUS
    <2>2. \A n \in N : \E d \in InUse : dirs[d].fd = n
      BY <2>1 DEF DescriptorOwnership
    <2>3. \A n \in N : g[n] \in InUse /\ dirs[g[n]].fd = n
      BY <2>2
    <2>4. g \in [N -> Streams]
      BY <2>3 DEF InUse
    <2>5. IsFiniteSet(N) /\ Cardinality(N) = MAX_OPEN_DIRS + 1
      BY <1>1, FS_Interval
    <2>6. IsFiniteSet(Streams) /\ Cardinality(Streams) = MAX_OPEN_DIRS
      BY <1>1, FS_Interval DEF Streams
    <2> HIDE DEF N, g
    <2>7. \E x, y \in N : x # y /\ g[x] = g[y]
      BY <1>1, <2>4, <2>5, <2>6, FS_PigeonHole
    <2> QED
      BY <2>3, <2>7
  <1>3. PICK n \in T : \A m \in T : n <= m
    <2>1. T \in SUBSET Nat
      BY <1>1
    <2> QED
      BY <1>2, <2>1, Least, Zenon
  <1>4. \A m \in 0 .. n - 1 : m \in DOMAIN fds
    BY <1>1, <1>3
  <1>5. \E m \in N : m \notin DOMAIN fds /\ \A j \in 0 .. m - 1 : j \in DOMAIN fds
    BY <1>3, <1>4
  <1> QED
    BY <1>1, <1>5 DEF FreeFd

-----------------------------------------------------------------------------
\* A stream in use has its own descriptor, and an opendir another one.
LEMMA Apart ==
  ASSUME Shape, DescriptorOwnership, NEW d \in InUse
  PROVE  /\ d \in Streams /\ dirs[d] \in DIR /\ dirs[d].in_use /\ dirs[d].fd \in DOMAIN fds
         /\ \A c \in InUse : c # d => dirs[c].fd # dirs[d].fd
         /\ \A o \in opening : o.d # d /\ o.fd # dirs[d].fd
  BY Zenon DEF Shape, DescriptorOwnership, InUse

\* opendir: a free stream and a free descriptor, that nobody else has.
LEMMA OpenHolds ==
  ASSUME IInv, NEW d \in Streams, NEW p \in DOMAIN Content \union Files, opendir(d, p)
  PROVE  IInv'
  <1> DEFINE F == FreeFd
  <1>1. Shape /\ DescriptorOwnership /\ opening = {} /\ ~ dirs[d].in_use
    BY DEF IInv, opendir, IsFirstFree
  <1>2. F \in Nat /\ F \notin DOMAIN fds
    BY <1>1, FreeFdIsFree
  <1> HIDE DEF F
  <1>3. /\ opening' = {[d |-> d, fd |-> F]}
        /\ fds' = [n \in DOMAIN fds \cup {F} |-> IF n = F THEN [path |-> p, pos |-> 0] ELSE fds[n]]
        /\ dirs' = dirs /\ path' = path /\ got' = got /\ last' = last /\ failed' = failed
    BY DEF opendir, history, F
  <1>4. /\ DOMAIN fds' = DOMAIN fds \cup {F} /\ fds'[F] = [path |-> p, pos |-> 0]
        /\ \A n \in DOMAIN fds : fds'[n] = fds[n]
    BY <1>2, <1>3
  <1>5. InUse' = InUse /\ d \notin InUse
    BY <1>1, <1>3 DEF InUse
  <1>6. [path |-> p, pos |-> 0] \in Desc
    BY DEF Desc
  <1>7. Shape'
    <2>1. DOMAIN fds' \subseteq Nat /\ \A n \in DOMAIN fds' : fds'[n] \in Desc
      BY <1>1, <1>2, <1>4, <1>6, Zenon DEF Shape
    <2>2. /\ opening' \subseteq [d : Streams, fd : DOMAIN fds']
          /\ \A o \in opening' : fds'[o.fd].pos = 0
          /\ \A o, q \in opening' : o = q
      BY <1>3, <1>4
    <2> QED
      BY <1>1, <1>3, <2>1, <2>2, Zenon DEF Shape
  <1>8. DescriptorOwnership'
    <2>1. \A c \in InUse : dirs[c].fd \in DOMAIN fds /\ dirs[c].fd # F
      BY <1>1, <1>2, Apart
    <2>2. DOMAIN fds = {dirs[c].fd : c \in InUse}
      BY <1>1 DEF DescriptorOwnership
    <2>3. {o.fd : o \in opening'} = {F}
      BY <1>3
    <2>4. DOMAIN fds' = {dirs'[c].fd : c \in InUse'} \cup {o.fd : o \in opening'}
      BY <1>3, <1>4, <1>5, <2>2, <2>3
    <2>5. \A o \in opening', c \in InUse' : o.d # c /\ o.fd # dirs'[c].fd
      BY <1>3, <1>5, <2>1
    <2>6. \A b, c \in InUse' : dirs'[b].fd = dirs'[c].fd => b = c
      BY <1>1, <1>3, <1>5 DEF DescriptorOwnership
    <2> QED
      BY <2>4, <2>5, <2>6 DEF DescriptorOwnership
  <1>9. ASSUME NEW c \in InUse' PROVE Follows(c)'
    <2>1. c \in InUse /\ Follows(c) /\ dirs[c].fd \in DOMAIN fds
      BY <1>1, <1>5, Apart DEF IInv
    <2> QED
      BY <1>3, <1>4, <2>1, FollowsOn
  <1> QED
    BY <1>7, <1>8, <1>9 DEF IInv

\* opendir closes what it has opened.
LEMMA RejectHolds ==
  ASSUME IInv, NEW o \in opening, opendir_rejects(o)
  PROVE  IInv'
  <1>1. Shape /\ DescriptorOwnership /\ opening = {o} /\ o.fd \in DOMAIN fds
    BY Zenon DEF IInv, Shape
  <1>2. /\ opening' = {} /\ fds' = [n \in DOMAIN fds \ {o.fd} |-> fds[n]]
        /\ dirs' = dirs /\ path' = path /\ got' = got /\ last' = last /\ failed' = failed
    BY DEF opendir_rejects, Closed, history
  <1>3. DOMAIN fds' = DOMAIN fds \ {o.fd} /\ \A n \in DOMAIN fds \ {o.fd} : fds'[n] = fds[n]
    BY <1>2
  <1>4. InUse' = InUse
    BY <1>2 DEF InUse
  <1>5. \A c \in InUse : dirs[c].fd \in DOMAIN fds \ {o.fd}
    BY <1>1, Apart
  <1>6. Shape'
    BY <1>1, <1>2, <1>3, Zenon DEF Shape
  <1>7. DescriptorOwnership'
    <2>1. DOMAIN fds = {dirs[c].fd : c \in InUse} \cup {o.fd}
      BY <1>1 DEF DescriptorOwnership
    <2>2. DOMAIN fds' = {dirs'[c].fd : c \in InUse'} \cup {q.fd : q \in opening'}
      BY <1>2, <1>3, <1>4, <1>5, <2>1
    <2>3. \A b, c \in InUse' : dirs'[b].fd = dirs'[c].fd => b = c
      BY <1>1, <1>2, <1>4 DEF DescriptorOwnership
    <2> QED
      BY <1>2, <2>2, <2>3 DEF DescriptorOwnership
  <1>8. ASSUME NEW c \in InUse' PROVE Follows(c)'
    <2>1. Follows(c) /\ fds'[dirs[c].fd] = fds[dirs[c].fd]
      BY <1>3, <1>4, <1>5 DEF IInv
    <2> QED
      BY <1>2, <2>1, FollowsOn
  <1> QED
    BY <1>6, <1>7, <1>8 DEF IInv

\* closedir: stream and descriptor go together.
LEMMA CloseHolds ==
  ASSUME IInv, NEW d \in Streams, closedir(d)
  PROVE  IInv'
  <1>1. Shape /\ DescriptorOwnership /\ opening = {} /\ d \in InUse
    BY DEF IInv, closedir, InUse
  <1>2. dirs[d] \in DIR /\ dirs[d].fd \in DOMAIN fds /\ dirs \in [Streams -> DIR]
    BY <1>1, Apart, Zenon DEF Shape
  <1> DEFINE s == [in_use |-> FALSE, fd |-> -1, buf |-> dirs[d].buf, valid |-> 0, next |-> 0, at_end |-> FALSE]
  <1>3. /\ opening' = {} /\ fds' = [n \in DOMAIN fds \ {dirs[d].fd} |-> fds[n]]
        /\ dirs' = [dirs EXCEPT ![d] = s] /\ path' = path /\ got' = got /\ last' = last /\ failed' = failed
    BY <1>1, <1>2 DEF closedir, Closed, history
  <1>4. s \in DIR /\ ~ s.in_use /\ s.valid = 0 /\ s.next = 0
    BY <1>2 DEF DIR
  <1> HIDE DEF s
  <1>5. DOMAIN fds' = DOMAIN fds \ {dirs[d].fd} /\ \A n \in DOMAIN fds \ {dirs[d].fd} : fds'[n] = fds[n]
    BY <1>3
  <1>6. /\ dirs' \in [Streams -> DIR] /\ dirs'[d] = s
        /\ \A c \in Streams : c # d => dirs'[c] = dirs[c]
    BY <1>2, <1>3, <1>4
  <1>7. InUse' = InUse \ {d}
    BY <1>4, <1>6 DEF InUse
  <1>8. \A c \in InUse' : /\ c \in InUse /\ c # d /\ dirs'[c] = dirs[c]
                          /\ dirs[c].fd \in DOMAIN fds \ {dirs[d].fd}
    BY <1>1, <1>6, <1>7, Apart
  <1>9. Shape'
    <2>1. \A c \in Streams : ~ dirs'[c].in_use => dirs'[c].valid = 0 /\ dirs'[c].next = 0
      BY <1>1, <1>4, <1>6, Zenon DEF Shape
    <2> QED
      BY <1>1, <1>3, <1>5, <1>6, <2>1, Zenon DEF Shape
  <1>10. DescriptorOwnership'
    <2>1. DOMAIN fds = {dirs[c].fd : c \in InUse}
      BY <1>1 DEF DescriptorOwnership
    <2>2. ASSUME NEW n PROVE n \in DOMAIN fds' <=> \E c \in InUse' : n = dirs'[c].fd
      BY <1>5, <1>7, <1>8, <2>1
    <2>3. DOMAIN fds' = {dirs'[c].fd : c \in InUse'} \cup {q.fd : q \in opening'}
      BY <1>3, <2>2
    <2>4. \A b, c \in InUse' : dirs'[b].fd = dirs'[c].fd => b = c
      BY <1>1, <1>8 DEF DescriptorOwnership
    <2> QED
      BY <1>3, <2>3, <2>4 DEF DescriptorOwnership
  <1>11. ASSUME NEW c \in InUse' PROVE Follows(c)'
    <2>1. Follows(c) /\ dirs'[c] = dirs[c] /\ fds'[dirs[c].fd] = fds[dirs[c].fd]
      BY <1>5, <1>8 DEF IInv
    <2> QED
      BY <1>3, <2>1, FollowsOn
  <1> QED
    BY <1>9, <1>10, <1>11 DEF IInv

\* The end of readdir, on a stream s that has a record left in its buffer.
LEMMA HandOutHolds ==
  ASSUME IInv, NEW d \in InUse, NEW s \in DIR, NEW f, Listing(f), f.path = path[d],
         NEW a \in Nat, NEW h, h = Len(got[d]), At(s, f, a, h), h < f.pos,
         s.in_use, s.fd = dirs[d].fd, s.at_end /\ d \notin failed => f.pos = Len(Content[path[d]]),
         HandOut(d, s), DOMAIN fds' = DOMAIN fds, fds'[dirs[d].fd] = f,
         \A n \in DOMAIN fds : n # dirs[d].fd => fds'[n] = fds[n]
  PROVE  IInv'
  <1> DEFINE e == s.buf[s.next]
             t == [s EXCEPT !.next = @ + (IF e = Inside THEN 1 ELSE RecLen[e])]
             p == path[d]
  <1>1. Shape /\ DescriptorOwnership /\ Follows(d) /\ d \in Streams /\ dirs[d].fd \in DOMAIN fds
    BY Apart DEF IInv
  <1>2. /\ dirs' = [dirs EXCEPT ![d] = t] /\ got' = [got EXCEPT ![d] = Append(@, e)]
        /\ last' = [last EXCEPT ![d] = s.next] /\ opening' = opening /\ path' = path /\ failed' = failed
    BY DEF HandOut
  <1>3. e = Content[p][h + 1] /\ e \in Names /\ t \in DIR /\ At(t, f, a, h + 1)
    BY HandOutSteps
  <1>4. t.in_use = s.in_use /\ t.fd = s.fd /\ t.at_end = s.at_end
    BY Zenon DEF DIR
  <1>5. s.next \in 0 .. DIRENT_BUF_SIZE - 1 /\ s.next = Bytes(f.path, a, h)
    <2>1. s.valid \in 0 .. DIRENT_BUF_SIZE /\ s.next \in 0 .. s.valid /\ s.next < s.valid
      BY AtOffsets
    <2> QED
      BY <2>1, DirentAssumption DEF At
  <1> HIDE DEF e, t
  <1>6. got[d] \in Seq(Names) /\ h \in Nat /\ a <= h
    <2>1. got[d] \in Seq(Names)
      BY <1>1, Zenon DEF Shape
    <2>2. h \in a .. f.pos /\ f.pos \in Nat
      BY DEF At, Listing, Desc
    <2> QED
      BY <2>1, <2>2
  <1>7. /\ dirs' \in [Streams -> DIR] /\ dirs'[d] = t
        /\ \A c \in Streams : c # d => dirs'[c] = dirs[c]
    BY <1>1, <1>2, <1>3, Zenon DEF Shape
  <1>8. Append(got[d], e) \in Seq(Names)
    BY <1>3, <1>6
  <1>9. /\ got' \in [Streams -> Seq(Names)] /\ got'[d] = Append(got[d], e)
        /\ \A c \in Streams : c # d => got'[c] = got[c]
    BY <1>1, <1>2, <1>8, Zenon DEF Shape
  <1>10. /\ last' \in [Streams -> Lasts] /\ last'[d] = s.next
         /\ \A c \in Streams : c # d => last'[c] = last[c]
    <2>1. s.next \in Lasts
      BY <1>5, DirentAssumption DEF Lasts
    <2> QED
      BY <1>1, <1>2, <2>1, Zenon DEF Shape
  <1>11. InUse' = InUse /\ \A c \in Streams : dirs'[c].fd = dirs[c].fd
    BY <1>1, <1>4, <1>7, Zenon DEF InUse
  <1>12. \A o \in opening : fds'[o.fd] = fds[o.fd]
    BY <1>1, Apart, Zenon DEF Shape
  <1>13. Shape'
    <2>1. DOMAIN fds' \subseteq Nat /\ \A n \in DOMAIN fds' : fds'[n] \in Desc
      BY <1>1, Zenon DEF Shape, Listing
    <2>2. \A c \in Streams : ~ dirs'[c].in_use => dirs'[c].valid = 0 /\ dirs'[c].next = 0
      BY <1>1, <1>4, <1>7, Zenon DEF Shape
    <2> QED
      <3>1. /\ path' \in [Streams -> DOMAIN Content \union {""}] /\ failed' \subseteq Streams
            /\ opening' \subseteq [d : Streams, fd : DOMAIN fds'] /\ \A o, q \in opening' : o = q
        BY <1>1, <1>2, Zenon DEF Shape
      <3>2. \A o \in opening' : fds'[o.fd].pos = 0
        BY <1>1, <1>2, <1>12, Zenon DEF Shape
      <3> QED
        BY <1>7, <1>9, <1>10, <2>1, <2>2, <3>1, <3>2, Zenon DEF Shape
  <1>14. DescriptorOwnership'
    <2>1. \A c \in InUse : dirs'[c].fd = dirs[c].fd
      BY <1>11 DEF InUse
    <2>2. {dirs'[c].fd : c \in InUse'} = {dirs[c].fd : c \in InUse}
      BY <1>11, <2>1
    <2>3. DOMAIN fds' = {dirs'[c].fd : c \in InUse'} \cup {o.fd : o \in opening'}
      BY <1>1, <1>2, <2>2 DEF DescriptorOwnership
    <2>4. \A b, c \in InUse' : dirs'[b].fd = dirs'[c].fd => b = c
      BY <1>1, <1>11, <2>1 DEF DescriptorOwnership
    <2>5. \A o \in opening', c \in InUse' : o.d # c /\ o.fd # dirs'[c].fd
      <3>1. \A o \in opening, c \in InUse : o.d # c /\ o.fd # dirs[c].fd
        BY <1>1 DEF DescriptorOwnership
      <3>2. opening' = opening /\ InUse' = InUse
        BY <1>2, <1>11
      <3> QED
        BY <2>1, <3>1, <3>2
    <2> QED
      BY <2>3, <2>4, <2>5 DEF DescriptorOwnership
  <1>15. ASSUME NEW c \in InUse', c # d PROVE Follows(c)'
    <2>1. Follows(c) /\ c \in Streams /\ dirs[c].fd # dirs[d].fd /\ dirs[c].fd \in DOMAIN fds
      BY <1>1, <1>11, <1>15, Apart DEF IInv
    <2> QED
      BY <1>2, <1>7, <1>9, <1>10, <1>15, <2>1, FollowsOn
  <1>16. Follows(d)'
    <2>0. e \in Names /\ got'[d] = Append(got[d], e)
      BY <1>3, <1>9
    <2>1. Len(got'[d]) = h + 1 /\ (h + 1) - 1 = h /\ a < h + 1
      BY <1>6, <2>0
    <2>2. At(dirs'[d], f, a, h + 1) /\ last'[d] = Bytes(f.path, a, h)
      BY <1>3, <1>5, <1>7, <1>10
    <2>3. Placed(d, f, h + 1)'
      BY <2>1, <2>2 DEF Placed
    <2>4. h + 1 <= f.pos
      BY <1>6 DEF Listing, Desc
    <2>5. ASSUME NEW k \in 1 .. h + 1 PROVE got'[d][k] = Content[p][k]
      <3>1. CASE k = h + 1
        <4>1. got'[d][h + 1] = e
          BY <1>6, <2>0
        <4> QED
          BY <1>3, <3>1, <4>1
      <3>2. CASE k \in 1 .. h
        <4>1. got[d][k] = Content[p][k]
          BY <1>1, <3>2 DEF Follows
        <4> QED
          BY <1>6, <1>9, <3>2, <4>1
      <3> QED
        BY <1>6, <3>1, <3>2
    <2>6. fds'[dirs'[d].fd] = f
      BY <1>4, <1>7
    <2>7. dirs'[d].at_end /\ d \notin failed' => f.pos = Len(Content[p])
      BY <1>2, <1>4, <1>7
    <2> QED
      BY <1>2, <2>1, <2>3, <2>4, <2>5, <2>6, <2>7, Zenon DEF Follows
  <1> QED
    BY <1>11, <1>13, <1>14, <1>15, <1>16 DEF IInv

\* What Follows says of a stream in use.
LEMMA Reached ==
  ASSUME IInv, NEW d \in InUse
  PROVE  LET f == fds[dirs[d].fd]
             h == Len(got[d])
         IN /\ Listing(f) /\ f.path = path[d]
            /\ \E a \in Nat : At(dirs[d], f, a, h)
            /\ dirs[d].next < dirs[d].valid <=> h < f.pos
            /\ ~ (dirs[d].next < dirs[d].valid) => h = f.pos
            /\ dirs[d].next >= dirs[d].valid <=> ~ (dirs[d].next < dirs[d].valid)
  <1> DEFINE f == fds[dirs[d].fd]
             h == Len(got[d])
  <1>1. Follows(d) /\ dirs[d] \in DIR /\ d \in Streams
    BY Apart DEF IInv
  <1>2. Listing(f) /\ f.path = path[d] /\ Placed(d, f, h) /\ h <= f.pos
    BY <1>1 DEF Follows
  <1>3. PICK a \in Nat : At(dirs[d], f, a, h)
    BY <1>2 DEF Placed
  <1>4. dirs[d].next < dirs[d].valid <=> h < f.pos
    BY <1>2, <1>3, AtOffsets
  <1>5. h \in Nat /\ f.pos \in Nat
    <2>1. got[d] \in Seq(Names)
      BY <1>1, Zenon DEF IInv, Shape
    <2>2. f.pos \in Nat
      BY <1>2 DEF Listing, Desc
    <2> QED
      BY <2>1, <2>2
  <1>6. dirs[d].next >= dirs[d].valid <=> ~ (dirs[d].next < dirs[d].valid)
    BY <1>1 DEF DIR
  <1>7. ~ (h < f.pos) => h = f.pos
    BY <1>2, <1>5
  <1> HIDE DEF f, h
  <1>8. ~ (dirs[d].next < dirs[d].valid) => h = f.pos
    BY <1>4, <1>7
  <1> QED
    BY <1>2, <1>3, <1>4, <1>6, <1>8 DEF f, h

\* readdir from the batch in the buffer.
LEMMA ReadHolds ==
  ASSUME IInv, NEW d \in Streams, readdir(d)
  PROVE  IInv'
  <1> DEFINE f == fds[dirs[d].fd]
             h == Len(got[d])
  <1>1. d \in InUse /\ dirs[d].next < dirs[d].valid /\ HandOut(d, dirs[d]) /\ fds' = fds
    BY DEF readdir, InUse
  <1>2. Follows(d) /\ dirs[d] \in DIR /\ dirs[d].in_use
    BY <1>1, Apart DEF IInv
  <1>3. Listing(f) /\ f.path = path[d] /\ h < f.pos
    BY <1>1, Reached
  <1>4. PICK a \in Nat : At(dirs[d], f, a, h)
    BY <1>1, Reached
  <1>5. dirs[d].at_end /\ d \notin failed => f.pos = Len(Content[path[d]])
    BY <1>2 DEF Follows
  <1>6. /\ DOMAIN fds' = DOMAIN fds /\ fds'[dirs[d].fd] = f
        /\ \A n \in DOMAIN fds : n # dirs[d].fd => fds'[n] = fds[n]
    BY <1>1
  <1> HIDE DEF f, h
  <1> QED
    BY <1>1, <1>2, <1>3, <1>4, <1>5, <1>6, HandOutHolds DEF h

\* readdir that begins another batch, where the last one ended.
LEMMA RefillHolds ==
  ASSUME IInv, NEW d \in Streams, readdir_refills(d)
  PROVE  IInv'
  <1> DEFINE f == fds[dirs[d].fd]
             h == Len(got[d])
             s == Refilled(dirs[d], f)
             g == Advanced(f)
  <1>1. /\ d \in InUse /\ dirs[d].next >= dirs[d].valid /\ ~ dirs[d].at_end /\ ~ NothingLeft(f)
        /\ fds' = [fds EXCEPT ![dirs[d].fd] = g] /\ HandOut(d, s)
    BY DEF readdir_refills, InUse
  <1>2. dirs[d] \in DIR /\ dirs[d].in_use /\ dirs[d].fd \in DOMAIN fds
    BY <1>1, Apart DEF IInv
  <1>3. Listing(f) /\ f.path = path[d] /\ h = f.pos
    BY <1>1, Reached
  <1>4. /\ Listing(g) /\ g.path = f.path /\ g.pos = BatchEnd(f) /\ f.pos <= BatchEnd(f)
        /\ s \in DIR /\ At(s, g, f.pos, f.pos)
        /\ s.fd = dirs[d].fd /\ s.in_use = dirs[d].in_use /\ s.at_end = dirs[d].at_end
    <2>1. PICK c : c = dirs[d]
      OBVIOUS
    <2>2. PICK e : e = f
      OBVIOUS
    <2>3. /\ Listing(Advanced(e)) /\ Advanced(e).path = e.path
          /\ Advanced(e).pos = BatchEnd(e) /\ e.pos <= BatchEnd(e)
          /\ Refilled(c, e) \in DIR /\ At(Refilled(c, e), Advanced(e), e.pos, e.pos)
          /\ Refilled(c, e).fd = c.fd /\ Refilled(c, e).in_use = c.in_use
          /\ Refilled(c, e).at_end = c.at_end
      BY <1>2, <1>3, <2>1, <2>2, RefillSteps
    <2> QED
      BY <2>1, <2>2, <2>3
  <1>5. h < g.pos /\ h \in Nat
    <2>1. f.pos \in Nat /\ g.pos \in Nat
      BY <1>3, <1>4, Zenon DEF Listing, Desc
    <2>2. f.pos # BatchEnd(f)
      BY <1>1 DEF NothingLeft
    <2>3. h = f.pos /\ g.pos = BatchEnd(f) /\ f.pos <= BatchEnd(f)
      BY <1>3, <1>4, Zenon
    <2> HIDE DEF f, h, g
    <2> QED
      BY <2>1, <2>2, <2>3
  <1>6. /\ DOMAIN fds' = DOMAIN fds /\ fds'[dirs[d].fd] = g
        /\ \A n \in DOMAIN fds : n # dirs[d].fd => fds'[n] = fds[n]
    BY <1>1, <1>2
  <1> HIDE DEF f, h, s, g
  <1>7. At(s, g, h, h) /\ g.path = path[d] /\ s.in_use /\ ~ s.at_end
    BY <1>1, <1>2, <1>3, <1>4
  <1> QED
    BY <1>1, <1>4, <1>5, <1>6, <1>7, HandOutHolds DEF h

\* readdir at the end, or at an error.
LEMMA EndsHolds ==
  ASSUME IInv, NEW d \in Streams, readdir_ends(d)
  PROVE  IInv'
  <1> DEFINE f == fds[dirs[d].fd]
             h == Len(got[d])
             s == [dirs[d] EXCEPT !.at_end = TRUE]
  <1>1. /\ d \in InUse /\ dirs[d].next >= dirs[d].valid
        /\ dirs' = [dirs EXCEPT ![d] = s] /\ opening' = opening /\ fds' = fds
        /\ path' = path /\ got' = got /\ last' = last
        /\ failed \subseteq failed' /\ failed' \subseteq failed \union {d}
        /\ NothingLeft(f) \/ d \in failed'
    BY DEF readdir_ends, InUse
  <1>2. Shape /\ DescriptorOwnership /\ Follows(d) /\ dirs[d] \in DIR /\ dirs[d].in_use
    BY <1>1, Apart DEF IInv
  <1>3. /\ s \in DIR /\ s.in_use /\ s.fd = dirs[d].fd
        /\ s.valid = dirs[d].valid /\ s.next = dirs[d].next /\ s.buf = dirs[d].buf
    BY <1>2, Zenon DEF DIR
  <1> HIDE DEF s
  <1>4. /\ dirs' \in [Streams -> DIR] /\ dirs'[d] = s
        /\ \A c \in Streams : c # d => dirs'[c] = dirs[c]
    BY <1>1, <1>2, <1>3, Zenon DEF Shape
  <1>5. InUse' = InUse /\ \A c \in Streams : dirs'[c].fd = dirs[c].fd
    BY <1>1, <1>3, <1>4 DEF InUse
  <1>6. Shape'
    <2>1. \A c \in Streams : ~ dirs'[c].in_use => dirs'[c].valid = 0 /\ dirs'[c].next = 0
      BY <1>2, <1>3, <1>4, Zenon DEF Shape
    <2>2. failed' \subseteq Streams
      BY <1>1, <1>2, Zenon DEF Shape
    <2> QED
      BY <1>1, <1>2, <1>4, <2>1, <2>2, Zenon DEF Shape
  <1>7. DescriptorOwnership'
    <2>1. \A c \in InUse : dirs'[c].fd = dirs[c].fd
      BY <1>5 DEF InUse
    <2>2. {dirs'[c].fd : c \in InUse'} = {dirs[c].fd : c \in InUse}
      BY <1>5, <2>1
    <2>3. DOMAIN fds' = {dirs'[c].fd : c \in InUse'} \cup {o.fd : o \in opening'}
      BY <1>1, <1>2, <2>2 DEF DescriptorOwnership
    <2>4. \A b, c \in InUse' : dirs'[b].fd = dirs'[c].fd => b = c
      BY <1>2, <1>5, <2>1 DEF DescriptorOwnership
    <2>5. \A o \in opening', c \in InUse' : o.d # c /\ o.fd # dirs'[c].fd
      BY <1>1, <1>2, <1>5, <2>1 DEF DescriptorOwnership
    <2> QED
      BY <2>3, <2>4, <2>5 DEF DescriptorOwnership
  <1>8. ASSUME NEW c \in InUse', c # d PROVE Follows(c)'
    <2>1. Follows(c) /\ c \in Streams
      BY <1>5 DEF IInv, InUse
    <2> QED
      BY <1>1, <1>4, <1>8, <2>1, FollowsOn
  <1>9. Follows(d)'
    <2>1. Listing(f) /\ f.path = path[d]
      BY <1>1, Reached
    <2>2. Placed(d, f, h)'
      <3>1. PICK a \in Nat : At(dirs[d], f, a, h) /\ (h # 0 => a < h /\ last[d] = Bytes(f.path, a, h - 1))
        BY <1>2 DEF Follows, Placed
      <3>2. At(s, f, a, h)
        BY <1>3, <3>1, Zenon DEF At
      <3>3. f' = f /\ h' = h
        BY <1>1, <1>3, <1>4
      <3> QED
        BY <1>1, <1>4, <3>1, <3>2, <3>3 DEF Placed
    <2>3. d \notin failed' => f.pos = Len(Content[path[d]])
      BY <1>1, <2>1, BatchFacts
    <2>4. f' = f
      BY <1>1, <1>3, <1>4
    <2> QED
      BY <1>1, <1>2, <1>4, <2>1, <2>2, <2>3, <2>4, Zenon DEF Follows
  <1> QED
    BY <1>5, <1>6, <1>7, <1>8, <1>9 DEF IInv

\* opendir: the stream begins with the first batch.
LEMMA SucceedHolds ==
  ASSUME IInv, NEW o \in opening, opendir_succeeds(o)
  PROVE  IInv'
  <1>a. PICK d : d = o.d
    OBVIOUS
  <1>b. PICK f : f = fds[o.fd]
    OBVIOUS
  <1>c. PICK g : g = Advanced(f)
    OBVIOUS
  <1> DEFINE r == Refilled(dirs[d], f)
             s == [in_use |-> TRUE, fd |-> o.fd, buf |-> Written(dirs[d].buf, f),
                   valid |-> BatchBytes(f), next |-> 0, at_end |-> NothingLeft(f)]
  <1>1. /\ Shape /\ DescriptorOwnership /\ opening = {o} /\ o.fd \in DOMAIN fds /\ d \in Streams
        /\ f \in Desc /\ f.pos = 0 /\ dirs[d] \in DIR
    BY <1>a, <1>b, Zenon DEF IInv, Shape
  <1>2. /\ f.path \notin Files /\ fds' = [fds EXCEPT ![o.fd] = g] /\ dirs' = [dirs EXCEPT ![d] = s]
        /\ opening' = {} /\ path' = [path EXCEPT ![d] = f.path]
        /\ got' = [got EXCEPT ![d] = << >>] /\ last' = [last EXCEPT ![d] = -1] /\ failed' = failed \ {d}
    BY <1>a, <1>b, <1>c DEF opendir_succeeds
  <1>3. Listing(f)
    <2>1. f.path \in DOMAIN Content
      BY <1>1, <1>2 DEF Desc
    <2>2. Len(Content[f.path]) \in Nat
      BY <2>1, DirentAssumption
    <2> QED
      BY <1>1, <2>1, <2>2 DEF Listing
  <1>4. /\ Listing(g) /\ g.path = f.path /\ g.pos = BatchEnd(f) /\ 0 <= BatchEnd(f)
        /\ r \in DIR /\ At(r, g, 0, 0)
    BY <1>1, <1>3, <1>c, RefillSteps
  <1>5. r.buf = Written(dirs[d].buf, f) /\ r.valid = BatchBytes(f) /\ r.next = 0
    BY <1>1 DEF Refilled, DIR
  <1>6. s \in DIR /\ s.in_use /\ s.fd = o.fd /\ s.at_end = NothingLeft(f) /\ At(s, g, 0, 0)
    <2>1. Written(dirs[d].buf, f) \in Bufs /\ BatchBytes(f) \in Int
      BY <1>4, <1>5, Zenon DEF DIR
    <2>2. NothingLeft(f) \in BOOLEAN
      BY DEF NothingLeft
    <2>3. s \in DIR
      <3>1. o.fd \in Int
        <4>1. DOMAIN fds \subseteq Nat
          BY <1>1, Zenon DEF Shape
        <4> QED
          BY <1>1, <4>1
      <3>2. PICK w \in Bufs : w = Written(dirs[d].buf, f)
        BY <2>1
      <3>3. PICK b \in Int : b = BatchBytes(f)
        BY <2>1
      <3>4. PICK e \in BOOLEAN : e = NothingLeft(f)
        BY <2>2
      <3>5. s = [in_use |-> TRUE, fd |-> o.fd, buf |-> w, valid |-> b, next |-> 0, at_end |-> e]
        BY <3>2, <3>3, <3>4
      <3> HIDE DEF s
      <3> QED
        BY <3>1, <3>5 DEF DIR
    <2>4. s.buf = r.buf /\ s.valid = r.valid /\ s.next = r.next
      BY <1>5
    <2>5. At(s, g, 0, 0)
      BY <1>4, <2>4, Zenon DEF At
    <2> QED
      BY <2>3, <2>5
  <1>7. NothingLeft(f) => g.pos = Len(Content[f.path])
    BY <1>3, <1>4, BatchFacts DEF NothingLeft
  <1> HIDE DEF r, s
  <1>8. /\ dirs' \in [Streams -> DIR] /\ dirs'[d] = s
        /\ \A c \in Streams : c # d => dirs'[c] = dirs[c]
    BY <1>1, <1>2, <1>6, Zenon DEF Shape
  <1>9. /\ got' \in [Streams -> Seq(Names)] /\ got'[d] = << >>
        /\ \A c \in Streams : c # d => got'[c] = got[c]
    <2>1. << >> \in Seq(Names)
      OBVIOUS
    <2> QED
      BY <1>1, <1>2, <2>1, Zenon DEF Shape
  <1>10. /\ last' \in [Streams -> Lasts]
         /\ \A c \in Streams : c # d => last'[c] = last[c]
    <2>1. -1 \in Lasts
      BY DirentAssumption DEF Lasts
    <2> QED
      BY <1>1, <1>2, <2>1, Zenon DEF Shape
  <1>11. /\ path' \in [Streams -> DOMAIN Content \union {""}] /\ path'[d] = f.path
         /\ \A c \in Streams : c # d => path'[c] = path[c]
    BY <1>1, <1>2, <1>3, Zenon DEF Shape, Listing
  <1>12. /\ DOMAIN fds' = DOMAIN fds /\ fds'[o.fd] = g
         /\ \A n \in DOMAIN fds : n # o.fd => fds'[n] = fds[n]
    BY <1>1, <1>2
  <1>13. InUse' = InUse \union {d} /\ d \notin InUse
    <2>1. d \notin InUse
      BY <1>1, <1>a DEF DescriptorOwnership
    <2> QED
      BY <1>1, <1>6, <1>8, <2>1 DEF InUse
  <1>14. \A c \in InUse : c \in Streams /\ c # d /\ dirs'[c] = dirs[c] /\ dirs[c].fd \in DOMAIN fds /\ dirs[c].fd # o.fd
    BY <1>1, <1>8, <1>13, Apart
  <1>15. Shape'
    <2>1. DOMAIN fds' \subseteq Nat /\ \A n \in DOMAIN fds' : fds'[n] \in Desc
      BY <1>1, <1>4, <1>12, Zenon DEF Shape, Listing
    <2>2. \A c \in Streams : ~ dirs'[c].in_use => dirs'[c].valid = 0 /\ dirs'[c].next = 0
      BY <1>1, <1>6, <1>8, Zenon DEF Shape
    <2>3. failed' \subseteq Streams /\ opening' = {}
      BY <1>1, <1>2, Zenon DEF Shape
    <2> QED
      BY <1>8, <1>9, <1>10, <1>11, <2>1, <2>2, <2>3, Zenon DEF Shape
  <1>16. DescriptorOwnership'
    <2>1. DOMAIN fds = {dirs[c].fd : c \in InUse} \cup {o.fd}
      BY <1>1 DEF DescriptorOwnership
    <2>2. dirs'[d].fd = o.fd
      BY <1>6, <1>8
    <2>3. ASSUME NEW n PROVE n \in DOMAIN fds' <=> \E c \in InUse' : n = dirs'[c].fd
      BY <1>12, <1>13, <1>14, <2>1, <2>2
    <2>4. DOMAIN fds' = {dirs'[c].fd : c \in InUse'} \cup {q.fd : q \in opening'}
      BY <1>2, <2>3, Zenon
    <2>5. ASSUME NEW b \in InUse', NEW c \in InUse', dirs'[b].fd = dirs'[c].fd PROVE b = c
      <3>1. CASE b = d \/ c = d
        BY <1>13, <1>14, <2>2, <2>5, <3>1
      <3>2. CASE b \in InUse /\ c \in InUse
        BY <1>1, <1>14, <2>5, <3>2 DEF DescriptorOwnership
      <3> QED
        BY <1>13, <3>1, <3>2
    <2> QED
      BY <1>2, <2>4, <2>5 DEF DescriptorOwnership
  <1>17. ASSUME NEW c \in InUse PROVE Follows(c)'
    <2>1. Follows(c) /\ c \in Streams /\ c # d /\ fds'[dirs[c].fd] = fds[dirs[c].fd]
      BY <1>12, <1>14 DEF IInv
    <2> QED
      BY <1>2, <1>9, <1>10, <1>11, <1>14, <2>1, FollowsOn, Zenon
  <1>18. Follows(d)'
    <2>1. Len(got'[d]) = 0 /\ fds'[dirs'[d].fd] = g
      BY <1>6, <1>8, <1>9, <1>12
    <2>2. Placed(d, g, 0)'
      BY <1>6, <1>8 DEF Placed
    <2>3. 0 <= g.pos
      BY <1>4
    <2>4. dirs'[d].at_end => g.pos = Len(Content[path'[d]])
      BY <1>6, <1>7, <1>8, <1>11, Zenon
    <2>5. \A k \in 1 .. Len(got'[d]) : FALSE
      BY <2>1
    <2> QED
      BY <1>4, <1>11, <2>1, <2>2, <2>3, <2>4, <2>5, Zenon DEF Follows
  <1> QED
    BY <1>13, <1>15, <1>16, <1>17, <1>18 DEF IInv

-----------------------------------------------------------------------------
\* At first nothing is open.
LEMMA InitHolds == Init => IInv
  <1> SUFFICES ASSUME Init PROVE IInv
    OBVIOUS
  <1>1. \A d \in Streams : ~ dirs[d].in_use
    BY Zenon DEF Init
  <1>2. InUse = {} /\ opening = {} /\ DOMAIN fds = {}
    <2>1. DOMAIN << >> = {}
      OBVIOUS
    <2> QED
      BY <1>1, <2>1, Zenon DEF Init, InUse
  <1>3. dirs \in [Streams -> DIR]
    <2> DEFINE z == [in_use |-> FALSE, fd |-> 0, buf |-> [o \in Offsets |-> Inside],
                     valid |-> 0, next |-> 0, at_end |-> FALSE]
    <2>1. [o \in Offsets |-> Inside] \in Bufs
      BY DEF Bufs
    <2>2. z \in DIR
      BY <2>1 DEF DIR
    <2>3. dirs = [d \in Streams |-> z]
      BY Zenon DEF Init
    <2> HIDE DEF z
    <2> QED
      BY <2>2, <2>3
  <1>4. last \in [Streams -> Lasts]
    <2>1. -1 \in Lasts
      BY DirentAssumption DEF Lasts
    <2> QED
      BY <2>1, Zenon DEF Init
  <1>5. got \in [Streams -> Seq(Names)] /\ path \in [Streams -> DOMAIN Content \union {""}] /\ failed = {}
    <2>1. << >> \in Seq(Names)
      OBVIOUS
    <2> QED
      BY <2>1, Zenon DEF Init
  <1>6. \A d \in Streams : dirs[d].valid = 0 /\ dirs[d].next = 0
    BY Zenon DEF Init
  <1> QED
    BY <1>2, <1>3, <1>4, <1>5, <1>6, Zenon DEF IInv, Shape, DescriptorOwnership

\* Every step keeps the invariant.
LEMMA NextHolds == IInv /\ [Next]_vars => IInv'
  <1> SUFFICES ASSUME IInv, [Next]_vars PROVE IInv'
    OBVIOUS
  <1>1. CASE UNCHANGED vars
    <2>1. /\ dirs' = dirs /\ opening' = opening /\ fds' = fds /\ path' = path
          /\ got' = got /\ last' = last /\ failed' = failed
      BY <1>1 DEF vars
    <2>2. Shape'
      BY <2>1, Zenon DEF IInv, Shape
    <2>3. DescriptorOwnership' /\ InUse' = InUse
      BY <2>1 DEF IInv, DescriptorOwnership, InUse
    <2>4. ASSUME NEW d \in InUse PROVE Follows(d)'
      BY <2>1, FollowsOn DEF IInv
    <2> QED
      BY <2>2, <2>3, <2>4 DEF IInv
  <1>2. ASSUME NEW d \in Streams, NEW p \in DOMAIN Content \union Files, opendir(d, p) PROVE IInv'
    BY <1>2, OpenHolds
  <1>3. ASSUME NEW o \in opening, opendir_rejects(o) PROVE IInv'
    BY <1>3, RejectHolds
  <1>4. ASSUME NEW o \in opening, opendir_succeeds(o) PROVE IInv'
    BY <1>4, SucceedHolds
  <1>5. ASSUME NEW d \in Streams, readdir(d) PROVE IInv'
    BY <1>5, ReadHolds
  <1>6. ASSUME NEW d \in Streams, readdir_refills(d) PROVE IInv'
    BY <1>6, RefillHolds
  <1>7. ASSUME NEW d \in Streams, readdir_ends(d) PROVE IInv'
    BY <1>7, EndsHolds
  <1>8. ASSUME NEW d \in Streams, closedir(d) PROVE IInv'
    BY <1>8, CloseHolds
  <1> QED
    BY <1>1, <1>2, <1>3, <1>4, <1>5, <1>6, <1>7, <1>8 DEF Next

\* The invariant holds throughout.
LEMMA Invariance == Spec => []IInv
  BY InitHolds, NextHolds, PTL DEF Spec

-----------------------------------------------------------------------------
\* The offsets of a stream stay in its buffer, next never beyond what the
\* kernel filled (TypeOK), for any number of streams, directories and names.
THEOREM OffsetsInBounds == Spec => []TypeOK
  <1>1. IInv => TypeOK
    <2> SUFFICES ASSUME IInv PROVE TypeOK
      OBVIOUS
    <2>1. Shape
      BY DEF IInv
    <2>2. ASSUME NEW n \in DOMAIN fds
          PROVE  fds[n].path \in DOMAIN Content \cup Files /\ fds[n].pos \in Nat
      BY <2>1, Zenon DEF Shape, Desc
    <2>3. ASSUME NEW d \in Streams
          PROVE  /\ dirs[d].in_use \in BOOLEAN /\ dirs[d].at_end \in BOOLEAN
                 /\ dirs[d].fd \in Int
                 /\ dirs[d].buf \in [Offsets -> Names \cup {Inside}]
                 /\ last[d] \in -1 .. DIRENT_BUF_SIZE - 1
      <3>1. dirs[d] \in DIR /\ last[d] \in Lasts
        BY <2>1, Zenon DEF Shape
      <3>2. /\ dirs[d].in_use \in BOOLEAN /\ dirs[d].at_end \in BOOLEAN /\ dirs[d].fd \in Int
            /\ dirs[d].buf \in Bufs
        BY <3>1 DEF DIR
      <3> QED
        <4>1. last[d] \in -1 .. DIRENT_BUF_SIZE - 1
          BY <3>1 DEF Lasts
        <4>2. dirs[d].buf \in [Offsets -> Names \cup {Inside}]
          BY <3>2, Zenon DEF Bufs
        <4> QED
          BY <3>2, <4>1, <4>2
    <2>4. ASSUME NEW d \in Streams
          PROVE  dirs[d].valid \in 0 .. DIRENT_BUF_SIZE /\ dirs[d].next \in 0 .. dirs[d].valid
      <3>1. CASE dirs[d].in_use
        <4>1. d \in InUse
          BY <3>1 DEF InUse
        <4>2. PICK a \in Nat : At(dirs[d], fds[dirs[d].fd], a, Len(got[d]))
          BY <4>1, Reached
        <4>3. Listing(fds[dirs[d].fd])
          BY <4>1, Reached
        <4>4. PICK f : f = fds[dirs[d].fd]
          OBVIOUS
        <4>5. Listing(f) /\ At(dirs[d], f, a, Len(got[d]))
          BY <4>2, <4>3, <4>4
        <4> QED
          BY <4>5, AtOffsets
      <3>2. CASE ~ dirs[d].in_use
        <4>1. dirs[d].valid = 0 /\ dirs[d].next = 0
          BY <2>1, <3>2, Zenon DEF Shape
        <4> QED
          BY <4>1, DirentAssumption
      <3> QED
        BY <3>1, <3>2
    <2> QED
      BY <2>1, <2>2, <2>3, <2>4, Zenon DEF TypeOK, Shape
  <1> QED
    BY <1>1, Invariance, PTL

\* Each open descriptor belongs to one stream or to the opendir under way, and
\* to no other (DescriptorOwnership).
THEOREM NoDescriptorSharedOrLost == Spec => []DescriptorOwnership
  <1>1. IInv => DescriptorOwnership
    BY DEF IInv
  <1> QED
    BY <1>1, Invariance, PTL

\* A listing is the directory's, in order, across the ends of batches and
\* whatever the other streams do (ListsInOrder).
THEOREM ListingsInOrder == Spec => []ListsInOrder
  <1>1. IInv => ListsInOrder
    <2> SUFFICES ASSUME IInv, NEW d \in InUse PROVE \E n \in 0 .. Len(Content[path[d]]) : got[d] = SubSeq(Content[path[d]], 1, n)
      BY DEF ListsInOrder
    <2> DEFINE f == fds[dirs[d].fd]
               c == Content[path[d]]
    <2>1. /\ Listing(f) /\ f.path = path[d] /\ Len(got[d]) <= f.pos
          /\ \A k \in 1 .. Len(got[d]) : got[d][k] = c[k]
      BY DEF IInv, Follows
    <2>2. got[d] \in Seq(Names)
      BY Apart, Zenon DEF IInv, Shape
    <2>3. c \in Seq(Names) /\ f.pos \in Nat /\ f.pos <= Len(c)
      BY <2>1, DirentAssumption DEF Listing, Desc
    <2> HIDE DEF f, c
    <2>4. Len(got[d]) \in 0 .. Len(c)
      BY <2>1, <2>2, <2>3
    <2>5. SubSeq(c, 1, Len(got[d])) = got[d]
      BY <2>1, <2>2, <2>3, <2>4
    <2> QED
      BY <2>4, <2>5 DEF c
  <1> QED
    BY <1>1, Invariance, PTL

\* A stream at its end has handed out the whole directory, unless one of its
\* getdents failed (EndMeansAll).
THEOREM EndedListingsWhole == Spec => []EndMeansAll
  <1>1. IInv => EndMeansAll
    <2> SUFFICES ASSUME IInv, NEW d \in InUse \ failed, dirs[d].at_end, dirs[d].next >= dirs[d].valid
                 PROVE  got[d] = Content[path[d]]
      BY DEF EndMeansAll
    <2> DEFINE f == fds[dirs[d].fd]
               c == Content[path[d]]
    <2>1. f.pos = Len(c) /\ \A k \in 1 .. Len(got[d]) : got[d][k] = c[k]
      BY DEF IInv, Follows
    <2>2. Len(got[d]) = f.pos /\ f.path = path[d] /\ Listing(f)
      BY Reached
    <2>3. got[d] \in Seq(Names)
      BY Apart, Zenon DEF IInv, Shape
    <2>4. c \in Seq(Names)
      BY <2>2, DirentAssumption DEF Listing
    <2> HIDE DEF f, c
    <2> QED
      BY <2>1, <2>2, <2>3, <2>4 DEF c
  <1> QED
    BY <1>1, Invariance, PTL

\* The record handed out last stays where it was in the buffer until the next
\* readdir of its stream hands out another (RecordStaysInPlace).
THEOREM RecordsStayInPlace == Spec => []RecordStaysInPlace
  <1>1. IInv => RecordStaysInPlace
    <2> SUFFICES ASSUME IInv, NEW d \in InUse, got[d] # << >> PROVE dirs[d].buf[last[d]] = got[d][Len(got[d])]
      BY DEF RecordStaysInPlace
    <2> DEFINE f == fds[dirs[d].fd]
               h == Len(got[d])
    <2>1. /\ Listing(f) /\ f.path = path[d] /\ Placed(d, f, h) /\ h <= f.pos
          /\ \A k \in 1 .. h : got[d][k] = Content[path[d]][k]
      BY DEF IInv, Follows
    <2>2. got[d] \in Seq(Names)
      BY Apart, Zenon DEF IInv, Shape
    <2>3. h \in Nat /\ h # 0 /\ f.pos \in Nat
      BY <2>1, <2>2 DEF Listing, Desc
    <2> HIDE DEF f, h
    <2>4. PICK a \in Nat : At(dirs[d], f, a, h) /\ a < h /\ last[d] = Bytes(f.path, a, h - 1)
      BY <2>1, <2>3 DEF Placed
    <2>5. h \in a + 1 .. f.pos /\ h \in 1 .. h
      BY <2>1, <2>3, <2>4
    <2>6. dirs[d].buf[last[d]] = Content[path[d]][h]
      BY <2>1, <2>4, <2>5 DEF At
    <2> QED
      BY <2>1, <2>5, <2>6 DEF h
  <1> QED
    BY <1>1, Invariance, PTL
=============================================================================
