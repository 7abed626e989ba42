------------------------------- MODULE Dirent -------------------------------
(***************************************************************************)
(* Directory streams (src/dirent.c): a pool of MAX_OPEN_DIRS streams, each *)
(* with a byte buffer that getdents fills with records of variable length. *)
(* Nothing in the file is locked: opendir and closedir belong to one       *)
(* thread at a time, as does each stream, but other threads may read other *)
(* streams while an opendir is under way.                                  *)
(*                                                                         *)
(* A record is the name it carries; RecLen is its d_reclen.  The kernel's  *)
(* part (open, close, getdents) is what include/dirent.h says of it.       *)
(***************************************************************************)
EXTENDS Integers, Sequences

CONSTANTS MAX_OPEN_DIRS, DIRENT_BUF_SIZE,
          Names, RecLen,    \* the names, and the length of each one's record
          Content,          \* the directories: their names in order, by path
          Files,            \* the paths that are not directories
          Inside            \* what a byte holds if no record begins there

VARIABLES dirs,     \* the pool
          opening,  \* d and fd of the opendir under way, if there is one
          fds,      \* the open descriptors: path and position of each (kernel)
          path,     \* history: the path each stream was opened with
          got,      \* history: what its readdirs have handed out
          last,     \* history: the offset of the record handed out last
          failed    \* history: streams one of whose getdents has failed

vars == <<dirs, opening, fds, path, got, last, failed>>
history == <<path, got, last, failed>>

ASSUME DirentAssumption ==
  /\ MAX_OPEN_DIRS \in Nat /\ DIRENT_BUF_SIZE \in Nat
  /\ RecLen \in [Names -> 1 .. DIRENT_BUF_SIZE]
  /\ \A p \in DOMAIN Content : Content[p] \in Seq(Names)
  /\ Files \cap DOMAIN Content = {}
  /\ Inside \notin Names

Streams == 1 .. MAX_OPEN_DIRS
Offsets == 0 .. DIRENT_BUF_SIZE - 1

-----------------------------------------------------------------------------
\* The kernel.

\* How many bytes the first k records of a directory take.
Before(p) ==
  LET sum[k \in 0 .. Len(Content[p])] == IF k = 0 THEN 0 ELSE sum[k - 1] + RecLen[Content[p][k]]
  IN sum

\* The bytes of the records after the a-th, up to the b-th.
Bytes(p, a, b) == Before(p)[b] - Before(p)[a]

\* getdents returns the complete records that fit, from the descriptor's
\* position on: up to which one.
BatchEnd(f) ==
  LET fits == {b \in f.pos .. Len(Content[f.path]) : Bytes(f.path, f.pos, b) <= DIRENT_BUF_SIZE}
  IN CHOOSE b \in fits : \A c \in fits : c <= b

NothingLeft(f) == BatchEnd(f) = f.pos

\* The bytes the batch takes, and the buffer with it written over its beginning.
BatchBytes(f) == Bytes(f.path, f.pos, BatchEnd(f))

Written(buf, f) ==
  [o \in Offsets |->
     IF o >= BatchBytes(f) THEN buf[o]
     ELSE LET starts == {k \in f.pos + 1 .. BatchEnd(f) : Bytes(f.path, f.pos, k - 1) = o}
          IN IF starts = {} THEN Inside ELSE Content[f.path][CHOOSE k \in starts : TRUE]]

Advanced(f) == [f EXCEPT !.pos = BatchEnd(f)]

\* open returns the lowest free number.
FreeFd ==
  CHOOSE n \in 0 .. MAX_OPEN_DIRS :
    n \notin DOMAIN fds /\ \A m \in 0 .. n - 1 : m \in DOMAIN fds

Closed(fd) == [n \in DOMAIN fds \ {fd} |-> fds[n]]

-----------------------------------------------------------------------------
\* All of struct DIR is zero at first, including the descriptor.
Init ==
  /\ dirs = [d \in Streams |-> [in_use |-> FALSE, fd |-> 0, buf |-> [o \in Offsets |-> Inside],
                                valid |-> 0, next |-> 0, at_end |-> FALSE]]
  /\ opening = {}
  /\ fds = << >>
  /\ path = [d \in Streams |-> ""]
  /\ got = [d \in Streams |-> << >>]
  /\ last = [d \in Streams |-> -1]
  /\ failed = {}

\* The first stream not in use.
IsFirstFree(d) ==
  /\ ~ dirs[d].in_use
  /\ \A c \in Streams : c < d => dirs[c].in_use

\* opendir: the first free stream and a descriptor; the stream is not marked
\* in use yet.
opendir(d, p) ==
  /\ opening = {}
  /\ IsFirstFree(d)
  /\ opening' = {[d |-> d, fd |-> FreeFd]}
  /\ fds' = [n \in DOMAIN fds \cup {FreeFd} |->
               IF n = FreeFd THEN [path |-> p, pos |-> 0] ELSE fds[n]]
  /\ UNCHANGED <<dirs, history>>

\* Variant of opendir_rejects: the descriptor stays open.
opendir_rejects_leaks(o) ==
  /\ o \in opening
  /\ opening' = {}
  /\ UNCHANGED <<dirs, fds, history>>

\* Its getdents fails, as it always does on a regular file: the descriptor is
\* closed.
opendir_rejects(o) ==
  /\ o \in opening
  /\ opening' = {}
  /\ fds' = Closed(o.fd)
  /\ UNCHANGED <<dirs, history>>

\* Its getdents reads the first batch, straight into the stream.
opendir_succeeds(o) ==
  /\ o \in opening
  /\ fds[o.fd].path \notin Files
  /\ LET f == fds[o.fd]
     IN /\ fds' = [fds EXCEPT ![o.fd] = Advanced(f)]
        /\ dirs' = [dirs EXCEPT ![o.d] =
             [in_use |-> TRUE, fd |-> o.fd, buf |-> Written(@.buf, f),
              valid |-> BatchBytes(f), next |-> 0, at_end |-> NothingLeft(f)]]
  /\ opening' = {}
  /\ path' = [path EXCEPT ![o.d] = fds[o.fd].path]
  /\ got' = [got EXCEPT ![o.d] = << >>]
  /\ last' = [last EXCEPT ![o.d] = -1]
  /\ failed' = failed \ {o.d}

\* The end of readdir: hand out the record at next of stream s, which is in
\* place in the buffer, and step over it (1 stands for a length read amid a
\* record, which the guards of readdir rule out).
HandOut(d, s) ==
  LET e == s.buf[s.next]
  IN /\ dirs' = [dirs EXCEPT ![d] =
          [s EXCEPT !.next = @ + (IF e = Inside THEN 1 ELSE RecLen[e])]]
     /\ got' = [got EXCEPT ![d] = Append(@, e)]
     /\ last' = [last EXCEPT ![d] = s.next]
     /\ UNCHANGED <<opening, path, failed>>

Refilled(s, f) ==
  [s EXCEPT !.buf = Written(@, f), !.valid = BatchBytes(f), !.next = 0]

\* Variant of readdir: at the end of the buffer it goes one record too far.
readdir_past_valid(d) ==
  /\ dirs[d].in_use
  /\ dirs[d].next <= dirs[d].valid /\ dirs[d].next \in Offsets
  /\ HandOut(d, dirs[d])
  /\ UNCHANGED fds

\* Variant of readdir: it reads the next batch as soon as the last record is handed out.
readdir_eager(d) ==
  /\ dirs[d].in_use
  /\ dirs[d].next < dirs[d].valid
  /\ LET s == dirs[d]
         e == s.buf[s.next]
         f == fds[s.fd]
         more == s.next + RecLen[e] >= s.valid /\ ~ NothingLeft(f)
     IN /\ dirs' = [dirs EXCEPT ![d] =
             IF more THEN Refilled(s, f) ELSE [s EXCEPT !.next = @ + RecLen[e]]]
        /\ fds' = [fds EXCEPT ![s.fd] = IF more THEN Advanced(f) ELSE f]
        /\ got' = [got EXCEPT ![d] = Append(@, e)]
        /\ last' = [last EXCEPT ![d] = s.next]
  /\ UNCHANGED <<opening, path, failed>>

\* readdir with a record left in the buffer.
readdir(d) ==
  /\ dirs[d].in_use
  /\ dirs[d].next < dirs[d].valid
  /\ HandOut(d, dirs[d])
  /\ UNCHANGED fds

\* Variant of readdir_refills: a batch that leaves room in the buffer is taken
\* for the last one.
readdir_refills_short(d) ==
  /\ dirs[d].in_use
  /\ dirs[d].next >= dirs[d].valid /\ ~ dirs[d].at_end
  /\ LET f == fds[dirs[d].fd]
     IN /\ ~ NothingLeft(f)
        /\ fds' = [fds EXCEPT ![dirs[d].fd] = Advanced(f)]
        /\ HandOut(d, [Refilled(dirs[d], f) EXCEPT !.at_end = BatchBytes(f) < DIRENT_BUF_SIZE])

\* readdir that needs another batch, and gets one.
readdir_refills(d) ==
  /\ dirs[d].in_use
  /\ dirs[d].next >= dirs[d].valid /\ ~ dirs[d].at_end
  /\ LET f == fds[dirs[d].fd]
     IN /\ ~ NothingLeft(f)
        /\ fds' = [fds EXCEPT ![dirs[d].fd] = Advanced(f)]
        /\ HandOut(d, Refilled(dirs[d], f))

\* readdir that needs another batch, and finds the end or an error: both set
\* at_end and return 0.
readdir_ends(d) ==
  /\ dirs[d].in_use
  /\ dirs[d].next >= dirs[d].valid /\ ~ dirs[d].at_end
  /\ \/ NothingLeft(fds[dirs[d].fd]) /\ UNCHANGED failed
     \/ failed' = failed \cup {d}
  /\ dirs' = [dirs EXCEPT ![d].at_end = TRUE]
  /\ UNCHANGED <<opening, fds, path, got, last>>

\* The descriptor is closed and the stream goes back to the pool.
closedir(d) ==
  /\ opening = {}
  /\ dirs[d].in_use
  /\ fds' = Closed(dirs[d].fd)
  /\ dirs' = [dirs EXCEPT ![d] = [in_use |-> FALSE, fd |-> -1, buf |-> @.buf,
                                  valid |-> 0, next |-> 0, at_end |-> FALSE]]
  /\ UNCHANGED <<opening, history>>

\* Calls that find no free stream, or a stream that is closed or at its end,
\* return at once and change nothing.
Next ==
  \/ \E d \in Streams, p \in DOMAIN Content \cup Files : opendir(d, p)
  \/ \E o \in opening : opendir_rejects(o) \/ opendir_succeeds(o)
  \/ \E d \in Streams :
       readdir(d) \/ readdir_refills(d) \/ readdir_ends(d) \/ closedir(d)

Spec == Init /\ [][Next]_vars

-----------------------------------------------------------------------------
\* The offsets of a stream stay in its buffer, next never beyond what the
\* kernel filled.
TypeOK ==
  /\ opening \subseteq [d : Streams, fd : DOMAIN fds]
  /\ \A n \in DOMAIN fds :
       /\ fds[n].path \in DOMAIN Content \cup Files
       /\ fds[n].pos \in Nat
  /\ \A d \in Streams :
       /\ dirs[d].in_use \in BOOLEAN /\ dirs[d].at_end \in BOOLEAN
       /\ dirs[d].fd \in Int
       /\ dirs[d].buf \in [Offsets -> Names \cup {Inside}]
       /\ dirs[d].valid \in 0 .. DIRENT_BUF_SIZE
       /\ dirs[d].next \in 0 .. dirs[d].valid
       /\ last[d] \in -1 .. DIRENT_BUF_SIZE - 1
  /\ failed \subseteq Streams

InUse == {d \in Streams : dirs[d].in_use}

\* A listing is the directory's, in order, with nothing skipped or repeated
\* where one batch ends and the next begins, however the listings of several
\* streams interleave (comment at lines 59-61).
ListsInOrder ==
  \A d \in InUse : \E n \in 0 .. Len(Content[path[d]]) : got[d] = SubSeq(Content[path[d]], 1, n)

\* A stream that has come to its end has handed out the whole directory,
\* unless a getdents failed; then it ends early without saying so (line 54).
EndMeansAll ==
  \A d \in InUse \ failed :
    dirs[d].at_end /\ dirs[d].next >= dirs[d].valid => got[d] = Content[path[d]]

\* Each open descriptor belongs to one stream or to the opendir under way:
\* no error path of opendir (line 38) and no closedir leaves one behind, and
\* no two streams share one.
DescriptorOwnership ==
  /\ DOMAIN fds = {dirs[d].fd : d \in InUse} \cup {o.fd : o \in opening}
  /\ \A c, d \in InUse : dirs[c].fd = dirs[d].fd => c = d
  /\ \A o \in opening, d \in InUse : o.d # d /\ o.fd # dirs[d].fd

\* The record handed out last is still in place: calls on other streams do
\* not disturb it, and neither does one on this stream that hands out none
\* (the pointer must only not be held "across another readdir", lines 59-61).
RecordStaysInPlace ==
  \A d \in InUse : got[d] # << >> => dirs[d].buf[last[d]] = got[d][Len(got[d])]

=============================================================================
