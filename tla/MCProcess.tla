----------------------------- MODULE MCProcess -----------------------------
(***************************************************************************)
(* Instances of Process for TLC.                                           *)
(***************************************************************************)
EXTENDS Process

Load == [type |-> 1, filesz |-> 5, memsz |-> 5, align |-> 4]
Tls(filesz, memsz, align) == [type |-> 7, filesz |-> filesz, memsz |-> memsz, align |-> align]

\* Program header table at 5, entries of 56 bytes.
Started(argc, envc, phdrs) ==
  [argc |-> argc, envc |-> envc, phdrs |-> phdrs,
   auxv |-> << 6, 16, AT_PHDR, 5, AT_PHENT, 56, AT_PHNUM, Len(phdrs), 9, 3 >>]

\* With and without arguments and environment, with and without a template,
\* whose alignment is that of a pointer, of a page, and above.
MCImages ==
  {Started(1, 0, << Load >>), Started(3, 2, << Load, Tls(3, 12, 8), Load >>)}
  \union {Started(0, 1, << Load, Tls(f, m, a) >>) :
            << f, m, a >> \in {<< 0, 1, 8 >>, << 8, 8, 8 >>, << 5, 17, 64 >>, << 9, 24, 128 >>}}

\* A single thread-local int, aligned as an int.
MCSmallImages == {Started(1, 1, << Load, Tls(4, 4, 4) >>)}
=============================================================================
