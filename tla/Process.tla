------------------------------ MODULE Process ------------------------------
(***************************************************************************)
(* A process from its entry point on: _start (src/src/crt0.asm) finds the  *)
(* auxiliary vector on the stack, __libc_start (src/src/start.c) finds the *)
(* TLS template through it and gives the main thread its block, every      *)
(* thread started later builds its own (src/src/thread.c), and all of them *)
(* print through one unguarded descriptor (src/src/stdio.c).               *)
(*                                                                         *)
(* Addresses and sizes are numbers of bytes; the words of the entry stack  *)
(* are a sequence.  How thread_create hands its function over is Pthread's *)
(* business: here a new thread simply begins.                              *)
(*                                                                         *)
(*   pc        the thread is                                               *)
(*   "unborn"  not started                                                 *)
(*   "entry"   main: at _start                           crt0.asm 31       *)
(*   "tls"     in __tls_setup_self                       start.c 85-110    *)
(*   "run"     in the program                                              *)
(*   "open"    in printf_out, about to open /dev/kmsg    stdio.c 18        *)
(*   "store"   there, about to store the descriptor      stdio.c 18        *)
(*   "choose"  there, about to test kmsg_fd              stdio.c 20        *)
(*   "write"   there, about to write                     stdio.c 20        *)
(*   "gone"    exited                                                      *)
(***************************************************************************)
EXTENDS Integers, Sequences, FiniteSets

CONSTANTS
  MaxThreads,   \* threads of the process; thread 1 is main
  Images,       \* how the process may be started: argc, envc, auxv, phdrs
  PageSize,     \* what mmap's addresses are multiples of
  MaxLines      \* bound: lines a thread prints

ASSUME ProcessAssumption ==
  MaxThreads \in Nat \ {0} /\ PageSize \in Nat \ {0} /\ MaxLines \in Nat

Threads == 1 .. MaxThreads

STDOUT_FILENO == 1
ENOENT == 2
ENFILE == 23

\* The types of <auxv.h> and the segment type of <elf.h>.
AT_NULL  == 0
AT_PHDR  == 3
AT_PHENT == 4
AT_PHNUM == 5
PT_TLS   == 7

\* What the kernel passes and the linker makes: a vector of pairs that points
\* at the headers, and at most one template, whose alignment divides 8 or is
\* divided by it, as every power of two does.
ASSUME ImagesAssumption ==
  \A im \in Images :
    /\ im.argc \in Nat /\ im.envc \in Nat /\ im.auxv \in Seq(Nat)
    /\ im.phdrs \in Seq([type : Nat, filesz : Nat, memsz : Nat, align : Nat])
    /\ \E n \in 0 .. Len(im.auxv) :
         /\ Len(im.auxv) = 2 * n
         /\ \A k \in 1 .. n :
              /\ im.auxv[2 * k - 1] # AT_NULL
              /\ im.auxv[2 * k - 1] \in {AT_PHDR, AT_PHENT} => im.auxv[2 * k] # 0
              /\ im.auxv[2 * k - 1] = AT_PHNUM => im.auxv[2 * k] = Len(im.phdrs)
         /\ \A type \in {AT_PHDR, AT_PHENT, AT_PHNUM} : \E k \in 1 .. n : im.auxv[2 * k - 1] = type
    /\ \A i, j \in DOMAIN im.phdrs : im.phdrs[i].type = PT_TLS /\ im.phdrs[j].type = PT_TLS => i = j
    /\ \A i \in DOMAIN im.phdrs :
         LET align == im.phdrs[i].align
         IN im.phdrs[i].type = PT_TLS => align = 0 \/ 8 % align = 0 \/ align % 8 = 0

VARIABLES
  image,        \* the program, one of Images
  auxv_table,   \* start.c: position of the vector on the stack, 0 before
  tls,          \* start.c: tls_filesz, tls_align, tls_size
  blocks,       \* mappings made for TLS: owner, raw, need
  base,         \* the thread's block, 0 when it has none
  fs,           \* the thread pointer, 0 when not set
  top,          \* kernel: mappings lie below
  pc,
  kmsg_fd,      \* stdio.c
  local,        \* the value printf_out has at hand, -2 outside
  kmsg,         \* whether /dev/kmsg exists
  opened,       \* who opened /dev/kmsg, by descriptor: 3, 4, ...
  refused,      \* whose open failed though /dev/kmsg exists
  lines         \* where the thread's lines went

tlsvars == << auxv_table, tls, blocks, base, fs, top >>
console == << kmsg_fd, local, opened, refused, lines >>
vars    == << image, kmsg, pc, tlsvars, console >>

Goto(t, l) == pc' = [pc EXCEPT ![t] = l]

-----------------------------------------------------------------------------
\* The entry stack.

\* 9 is some pointer.
EntryStack ==
  << image.argc >> \o [i \in 1 .. image.argc |-> 9] \o << 0 >>
  \o [i \in 1 .. image.envc |-> 9] \o << 0 >> \o image.auxv \o << AT_NULL, 0 >>

\* Variant of FindAuxv: the walk stops at the null pointer, not after it.
FindAuxv_short ==
  LET envp == EntryStack[1] + 3
      scan[p \in Nat] == IF EntryStack[p] = 0 THEN p ELSE scan[p + 1]
  IN  scan[envp]

\* argc, argv and its null pointer, then envp up to and with its own.
FindAuxv ==
  LET envp == EntryStack[1] + 3
      scan[p \in Nat] == IF EntryStack[p] = 0 THEN p + 1 ELSE scan[p + 1]
  IN  scan[envp]

getauxval(table, type) ==
  LET from[p \in Nat] == IF EntryStack[p] = AT_NULL THEN 0
                         ELSE IF EntryStack[p] = type THEN EntryStack[p + 1]
                         ELSE from[p + 2]
  IN  from[table]

-----------------------------------------------------------------------------
\* Thread-local storage.

AlignUp(v, a) == ((v + a - 1) \div a) * a

align_up(v, a) == AlignUp(v, IF a < 8 THEN 8 ELSE a)

NoTls == [filesz |-> 0, align |-> 0, size |-> 0]

\* The first PT_TLS among the headers that the vector points at.
tls_find_template(table) ==
  LET phnum == getauxval(table, AT_PHNUM)
      found == {i \in 1 .. phnum : image.phdrs[i].type = PT_TLS}
      ph    == image.phdrs[CHOOSE i \in found : \A j \in found : i <= j]
      align == IF ph.align # 0 THEN ph.align ELSE 8
  IN  IF getauxval(table, AT_PHDR) = 0 \/ phnum = 0 \/ getauxval(table, AT_PHENT) = 0 \/ found = {}
        THEN NoTls
        ELSE [filesz |-> ph.filesz, align |-> align, size |-> align_up(ph.memsz, align)]

\* _start and __libc_start up to __tls_setup_self.
Start ==
  /\ pc[1] = "entry"
  /\ auxv_table' = FindAuxv
  /\ tls' = tls_find_template(FindAuxv)
  /\ Goto(1, "tls")
  /\ UNCHANGED << image, kmsg, blocks, base, fs, top, console >>

\* No template: nothing to install.
TlsNone(t) ==
  /\ pc[t] = "tls" /\ tls.size = 0
  /\ Goto(t, "run")
  /\ UNCHANGED << image, kmsg, tlsvars, console >>

\* Variant of need: no room for moving the base up.
need_tight == tls.size + 64

need == tls.size + tls.align + 64

\* mmap leaves out at most a page.
Mapped(t, raw) ==
  /\ blocks' = blocks \union {[owner |-> t, raw |-> raw, need |-> need]}
  /\ top' = AlignUp(raw + need, PageSize)

\* The block is mapped and filled, and its end becomes the thread pointer.
TlsSetup(t) ==
  /\ pc[t] = "tls" /\ tls.size # 0
  /\ \E raw \in {top, top + PageSize} :
       /\ Mapped(t, raw)
       /\ base' = [base EXCEPT ![t] = align_up(raw, tls.align)]
       /\ fs' = [fs EXCEPT ![t] = align_up(raw, tls.align) + tls.size]
  /\ Goto(t, "run")
  /\ UNCHANGED << image, kmsg, auxv_table, tls, console >>

\* main leaves with exit, which ends the process; another thread only itself.
Ends(t) == IF t = 1 THEN pc' = [u \in Threads |-> "gone"] ELSE Goto(t, "gone")

\* mmap fails, or arch_prctl after it, which leaves the mapping.
TlsFails(t) ==
  /\ pc[t] = "tls" /\ tls.size # 0
  /\ \/ UNCHANGED << blocks, top >>
     \/ Mapped(t, top)
  /\ Ends(t)
  /\ UNCHANGED << image, kmsg, auxv_table, tls, base, fs, console >>

\* A new thread in thread_trampoline.
ThreadStarts(t, u) ==
  /\ pc[t] = "run" /\ pc[u] = "unborn"
  /\ Goto(u, "tls")
  /\ UNCHANGED << image, kmsg, tlsvars, console >>

\* The thread's function returns, or main does.
Exit(t) ==
  /\ pc[t] = "run" /\ Ends(t)
  /\ UNCHANGED << image, kmsg, tlsvars, console >>

-----------------------------------------------------------------------------
\* printf_out.

\* Variant of Printf: any failure is tried again.
Printf_retry(t) ==
  /\ pc[t] = "run" /\ Len(lines[t]) < MaxLines
  /\ local' = [local EXCEPT ![t] = kmsg_fd]
  /\ Goto(t, IF kmsg_fd < 0 THEN "open" ELSE "choose")
  /\ UNCHANGED << image, kmsg, tlsvars, kmsg_fd, opened, refused, lines >>

Printf(t) ==
  /\ pc[t] = "run" /\ Len(lines[t]) < MaxLines
  /\ local' = [local EXCEPT ![t] = kmsg_fd]
  /\ Goto(t, IF kmsg_fd = -2 THEN "open" ELSE "choose")
  /\ UNCHANGED << image, kmsg, tlsvars, kmsg_fd, opened, refused, lines >>

\* Variant of OpenKmsg: "unavailable" is stored while the call is under way.
OpenKmsg_marked(t) ==
  /\ pc[t] = "open"
  /\ kmsg_fd' = -1
  /\ local' = [local EXCEPT ![t] = IF kmsg THEN Len(opened) + 3 ELSE -ENOENT]
  /\ opened' = IF kmsg THEN Append(opened, t) ELSE opened
  /\ Goto(t, "store")
  /\ UNCHANGED << image, kmsg, tlsvars, refused, lines >>

OpenKmsg(t) ==
  /\ pc[t] = "open"
  /\ \/ /\ kmsg
        /\ local' = [local EXCEPT ![t] = Len(opened) + 3]
        /\ opened' = Append(opened, t)
        /\ UNCHANGED refused
     \/ /\ kmsg
        /\ local' = [local EXCEPT ![t] = -ENFILE]
        /\ refused' = refused \union {t}
        /\ UNCHANGED opened
     \/ /\ ~kmsg
        /\ local' = [local EXCEPT ![t] = -ENOENT]
        /\ UNCHANGED << opened, refused >>
  /\ Goto(t, "store")
  /\ UNCHANGED << image, kmsg, tlsvars, kmsg_fd, lines >>

Store(t) ==
  /\ pc[t] = "store"
  /\ kmsg_fd' = local[t]
  /\ Goto(t, "choose")
  /\ UNCHANGED << image, kmsg, tlsvars, local, opened, refused, lines >>

\* Variant of Choose: no fallback.
Choose_raw(t) ==
  /\ pc[t] = "choose"
  /\ \E fd \in {local[t], kmsg_fd} : local' = [local EXCEPT ![t] = fd]
  /\ Goto(t, "write")
  /\ UNCHANGED << image, kmsg, tlsvars, kmsg_fd, opened, refused, lines >>

\* The conditional of line 20 names kmsg_fd twice.  The variable is neither
\* volatile nor atomic, so each time the compiler may use the value it has at
\* hand or read the variable again.  First the test,
Choose(t) ==
  /\ pc[t] = "choose"
  /\ \E fd \in {local[t], kmsg_fd} :
       local' = [local EXCEPT ![t] = IF fd >= 0 THEN fd ELSE STDOUT_FILENO]
  /\ Goto(t, "write")
  /\ UNCHANGED << image, kmsg, tlsvars, kmsg_fd, opened, refused, lines >>

\* then, unless it chose standard output, the descriptor written to.
Write(t) ==
  /\ pc[t] = "write"
  /\ \E fd \in IF local[t] = STDOUT_FILENO THEN {STDOUT_FILENO} ELSE {local[t], kmsg_fd} :
       lines' = [lines EXCEPT ![t] = Append(@, fd)]
  /\ local' = [local EXCEPT ![t] = -2]
  /\ Goto(t, "run")
  /\ UNCHANGED << image, kmsg, tlsvars, kmsg_fd, opened, refused >>

-----------------------------------------------------------------------------
Init ==
  /\ image \in Images /\ kmsg \in BOOLEAN
  /\ auxv_table = 0 /\ tls = NoTls /\ blocks = {} /\ top = PageSize
  /\ base = [t \in Threads |-> 0] /\ fs = [t \in Threads |-> 0]
  /\ pc = [t \in Threads |-> IF t = 1 THEN "entry" ELSE "unborn"]
  /\ kmsg_fd = -2 /\ local = [t \in Threads |-> -2]
  /\ opened = << >> /\ refused = {} /\ lines = [t \in Threads |-> << >>]

Next ==
  \/ Start
  \/ \E t \in Threads :
       \/ TlsNone(t) \/ TlsSetup(t) \/ TlsFails(t) \/ Exit(t)
       \/ Printf(t) \/ OpenKmsg(t) \/ Store(t) \/ Choose(t) \/ Write(t)
       \/ \E u \in Threads : ThreadStarts(t, u)

Spec == Init /\ [][Next]_vars

Labels == {"unborn", "entry", "tls", "run", "open", "store", "choose", "write", "gone"}

\* In particular kmsg_fd only ever holds "unopened", a descriptor or an error
\* code of open.
TypeOK ==
  /\ pc \in [Threads -> Labels]
  /\ \A t \in Threads : base[t] \in 0 .. top /\ fs[t] \in 0 .. top
  /\ opened \in Seq(Threads)
  /\ kmsg_fd \in {-2, -ENOENT, -ENFILE} \union 3 .. Len(opened) + 2

Running(t) == pc[t] \in {"run", "open", "store", "choose", "write"}

-----------------------------------------------------------------------------
\* The segment the linker laid out, if there is one.
Segments == {image.phdrs[i] : i \in {j \in DOMAIN image.phdrs : image.phdrs[j].type = PT_TLS}}

\* How far below the thread pointer the linker takes the segment to begin.
LinkedBelow(ph) == AlignUp(ph.memsz, IF ph.align = 0 THEN 1 ELSE ph.align)

\* Byte o of a segment starts as byte o of the file's, and as 0 behind them;
\* byte number o of the file's is written o + 1 here.
Initially(ph, o) == IF o < ph.filesz THEN o + 1 ELSE 0
Byte(t, a) == IF a \in base[t] .. base[t] + tls.filesz - 1 THEN a - base[t] + 1 ELSE 0

(***************************************************************************)
(* A thread that runs program code finds each byte of each thread-local    *)
(* variable with its initial value, at the negative offset from %fs that   *)
(* the linker compiled into the program: whatever argc and the environment *)
(* put before the auxiliary vector, wherever PT_TLS stands among the       *)
(* headers, and wherever mmap put the block.  It never runs without the    *)
(* block: "every __thread access in the program would read through a null  *)
(* %fs".                                                                   *)
(***************************************************************************)
VariablesInPlace ==
  \A t \in Threads : \A ph \in Segments :
     Running(t) /\ ph.memsz > 0 =>
       /\ fs[t] # 0
       /\ \A o \in 0 .. ph.memsz - 1 : Byte(t, fs[t] - LinkedBelow(ph) + o) = Initially(ph, o)

(***************************************************************************)
(* A thread's block and the self-pointer above it lie inside the mapping   *)
(* made for that thread, aligned as the segment asks, and no two threads   *)
(* share a byte of them.                                                   *)
(***************************************************************************)
BlocksApart ==
  /\ \A t \in Threads : fs[t] # 0 =>
       /\ base[t] % tls.align = 0 /\ fs[t] % 8 = 0
       /\ \E m \in blocks : m.owner = t /\ m.raw <= base[t] /\ fs[t] + 8 <= m.raw + m.need
  /\ \A t, u \in Threads : fs[t] # 0 /\ fs[u] # 0 /\ t # u =>
       fs[t] + 8 <= base[u] \/ fs[u] + 8 <= base[t]

\* A good descriptor is in kmsg_fd, no thread is about to replace it, and none
\* has decided otherwise.
Settled ==
  /\ kmsg_fd >= 0
  /\ \A t \in Threads :
       /\ pc[t] \notin {"open", "store"}
       /\ pc[t] \in {"choose", "write"} => local[t] >= 0 /\ local[t] # STDOUT_FILENO

OnKmsg(fd) == fd - 2 \in DOMAIN opened

(***************************************************************************)
(* printf's output "must not land on the framebuffer console" (stdio.c     *)
(* 11-12; stdio.h 7-8 says the opposite, and the code sides with stdio.c). *)
(* When /dev/kmsg exists and no open of it was refused, every line of      *)
(* every thread goes to it, the lines printed while another thread is      *)
(* still opening it included.  When opens are refused as well, one of them *)
(* may overwrite a good descriptor; but once a good one is in place and    *)
(* the opens are over, it stays, and every later line goes to it.          *)
(***************************************************************************)
OffTheConsole ==
  /\ [](kmsg /\ refused = {} =>
          \A t \in Threads : \A i \in DOMAIN lines[t] : lines[t][i] # STDOUT_FILENO)
  /\ [][Settled =>
          /\ Settled'
          /\ \A t \in Threads : lines'[t] # lines[t] => OnKmsg(lines'[t][Len(lines'[t])])]_vars

(***************************************************************************)
(* "Falls back to fd 1 if /dev/kmsg is somehow unavailable": every line is *)
(* written to a descriptor that is open, /dev/kmsg or standard output.     *)
(* The one exception is a line that is lost to the error code of another   *)
(* thread's open, stored between the test of kmsg_fd and its use; it takes *)
(* one thread that opened /dev/kmsg and another that was refused.          *)
(***************************************************************************)
LinesLand ==
  \A t \in Threads : \A i \in DOMAIN lines[t] :
     \/ lines[t][i] = STDOUT_FILENO
     \/ OnKmsg(lines[t][i])
     \/ lines[t][i] = -ENFILE /\ \E u \in refused, j \in DOMAIN opened : opened[j] # u

(***************************************************************************)
(* "Opened once, lazily": threads that print at the same time may open     *)
(* /dev/kmsg once each, and the descriptors that kmsg_fd forgets stay      *)
(* open, but no thread ever opens it a second time, nor after it was       *)
(* refused.                                                                *)
(***************************************************************************)
OpenedOncePerThread ==
  \A i, j \in DOMAIN opened : opened[i] \notin refused /\ (opened[i] = opened[j] => i = j)

=============================================================================
