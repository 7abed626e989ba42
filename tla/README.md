# A TLA+ model of libneoos

libneoos is the native C library of NeoOS. This directory holds TLA+
specifications of it, the TLC models that check them on small instances, and
TLAPS proofs of the central results for any number of threads, ranks and streams.
`PROJECT.json` lists every run, property, mutant, mapped definition, finding,
hazard and theorem.

## The system

| part | source | state | operations | model |
|---|---|---|---|---|
| futex | `syscall.c` 411-434, kernel | the sleepers on a word | wait, timed wait, wake | `Futex` (external) |
| mutex | `pthread.c` 6-80 | one word: 0, 1, 2 | lock, trylock, unlock | `Mutex`, `AbstractLock` |
| condition variable | `pthread.c` 82-156 | a sequence number | wait, timed wait, signal, broadcast | `Condvar` |
| semaphore | `semaphore.c` | the count, a futex word | wait, timed wait, trywait, post | `Semaphore` |
| threads | `thread.c`, `pthread.c` 158-270 | start slots, `pt_slots`, `pt_lock` | create, trampolines, exit, join | `Pthread` |
| MPI launch and start-up | `mpi.c` 131-277, 612-643 | argv, socket, `seen[]`, `since_hello` | launch, bind, HELLO, GO | `MpiInit`, `Numerals` |
| MPI messages, collectives | `mpi.c` 284-610 | socket, unexpected queue, `coll_seq` | send, receive, barrier, bcast, reduce, allreduce, finalize | `Mpi`, `Pending`, `Mailbox` |
| process start, TLS | `crt0.asm`, `start.c`, `thread.c` 41-48 | the TLS template, a block per thread | find, set up | `Process` |
| directory streams | `dirent.c` | four streams with a buffer | opendir, readdir, closedir | `Dirent` |
| printf | `stdio.c` | `kmsg_fd`, a buffer | printf | `Process` (descriptor), `Numerals` (text) |
| strings | `string.c` | none | pure functions | `Strings` |
| addresses | `socket.c` | none | `inet_addr`, `inet_ntoa_r`, byte order | `Numerals` |
| system calls, signals | `syscall.c`, `socket.c`, `signal.c` | none | wrappers, `sigaction` | `Syscalls` |

The parts stack up. Mutex, condition variable and semaphore block on a futex.
A condition variable releases and takes a mutex. The `pthread` table is guarded
by a mutex. MPI ranks are processes that talk over UDP on the loopback; inside a
rank everything is sequential.

What makes this code hard to test is the window between looking at a word and
sleeping on it, the order in which ranks reach their collectives, datagrams that
arrive before anybody listens, tables that run out half-way through an
operation, and an unguarded variable that all threads read and write. In the
sequential parts it is the boundaries: overlapping ranges, bytes above 127, a
buffer that ends inside a number, an alignment below 8 or above a page. The list
of hazards in `PROJECT.json` gives the lines.

## The modules

**Futex.** The kernel is not in the repository. The module states what
`include/futex.h` relies on: comparing and falling asleep are one step, a wake
picks any sleeper, and a sleeper may leave by a signal or a timeout.

**Mutex.** One action per atomic instruction or system call: the
compare-exchange, the exchange of 2, the `futex_wait`, its return, and the three
steps of an unlock (`fetch_sub`, store, wake). `pc` is the next instruction of
each thread. `AbstractLock` says what a mutex promises; `ImplementsLock` is the
refinement, with the threads between a successful lock and the instruction that
frees the word as `holders`.

**Condvar.** Instantiates `Mutex` for the mutex and `Futex` for `seq`.
The lock and unlock calls inside the wait are run step by step, not abstracted.
Around it is the program a condition variable is for: consumers that wait until
a counter is positive, producers that raise it and signal or broadcast, before
or after they unlock. `ReturnsWithMutex` is about every way out of the wait, the
timeout included, after which the caller goes straight to its unlock.

**Semaphore.** The count keeps the width of an int (`IntMax`). Two history
variables count the posts and the units taken.

**Pthread.** `thread.c` and the thread half of `pthread.c`. `pt_lock` is the
abstract lock, which `Mutex` implements. The scan of the start slots is one
compare-exchange per step; `slots_used` is the set of slots whose `in_use` is
set. Kernel threads are born, become zombies and are reaped by a join. `meant`,
`delivered` and `stillborn` (the threads that died for want of TLS, whose
entries nobody frees) are history variables. No liveness is claimed: two threads
may join each other.

**Dirent.** The buffer is a buffer of bytes: records have lengths, and what a
batch does not overwrite stays there. `Before` gives the offset of each record of
a directory if it were written out whole; a `getdents` writes the longest run of
records, from the descriptor's position on, that fits (`BatchEnd`). An opendir is two steps, so other streams
are read in between; two opendirs at once are left out, since nothing locks the
pool. `path`, `got`, `last` and `failed` are history variables.

**MpiInit.** `MPI_Launch` spawns the ranks one after the other and gives up at
the first spawn that fails; each rank then runs `MPI_Init`. One queue per socket;
a datagram to a port nobody has bound is lost. `RendezvousFails` covers the
receive and both `fcntl`s. A rank that is up may send a message to every other
rank.

**Pending.** The unexpected-message queue of `mpi.c` as it is: a pool of slots
and a singly linked list through them, with allocation, append, search and
unlinking.

**Mpi.** A call is unfolded into the sends and receives its loops make for the
rank, in the code's order. A buffer is the sequence of contributions folded into
it, so a result shows whose data went in and from which call. Sizes are counted
in elements, tags are the code's integers. Wrong arguments and sizes return the
errors of the code. `MCMpi` holds the programs that are run.

**Mailbox.** What receive matching promises: one list of messages in the order
of their arrival, from which a receive takes the first that matches. `OneMailbox`
says that the pool's list followed by the socket's queue is such a mailbox.

**Process.** The entry stack is a sequence of words, walked as `_start` walks it
to the auxiliary vector; through it the TLS template is found. Addresses are
numbers of bytes, so that the arithmetic of `start.c` is the code's. The linker's
side, where the variables are expected, is written from the ABI, not from the
code. Every thread sets up a block and prints; `kmsg_fd` is an ordinary variable
that the source of `printf_out` reads three times, so `printf_out` is five steps:
the test for "not tried", the open, the store, the test of line 20 and the write.
Each of the last two may use the value at hand or the one in memory, whichever
the compiler chose.

**Strings, Numerals, Syscalls.** The pure functions: loops are folds or recursive
functions, memory is a function from addresses to bytes, a `uint32_t` is its four
bytes. `Syscalls` has, for every wrapper, the number, the arguments with the
registers they go to, and what becomes of the kernel's answer; `sigaction` goes
through the kernel's structure and back. Where a wrapper branches, each branch
has an entry (`sysconf_default`, `tcsetattr_TCSADRAIN`, ...). **Library** makes
one call of one of them and compares the result with a definition that does not
follow the code; for the wrappers that is `Prototypes`, the parameters as the
headers declare them.

Before some operations stands a variant of it, with one slip, used as a mutant:
every checked property fails when one of them replaces the operation.

## The runs

| run | instance | shows |
|---|---|---|
| `mutex` | 4 threads | one holder, no lost wake-up, refinement of the abstract lock; when the calls stop, everybody gets out |
| `semaphore` | 3 threads, int of 3 bits, 2 posts | units are conserved, no lost post, nobody sleeps for ever beside a unit |
| `condvar` | a timed and an untimed consumer, a signaller and a broadcaster | wait returns with the mutex, no lost signal, all finish |
| `pthread` | 3 threads, 2 entries, 1 start slot | own routine, own value, one owner per start slot and per entry |
| `dirent` | 2 streams, a buffer of 4 bytes, records of 1 to 3 | listings in order and complete, descriptors owned, records in place |
| `mpi_init` | 3 ranks, HELLO every 2 passes, ranks 0 and 2 may fail | nobody up before all are bound; all come up unless a call failed |
| `mpi` | 3 ranks, the programs of `MCMpi`, 2 slots in the pool | results, barriers, library and program traffic apart, slots accounted for, list and socket are one mailbox (so nothing overtakes); every call returns unless a frame was dropped |
| `library` | the calls of `MCLibrary` | memory, comparisons, addresses, printf, rank arguments, registers and numbers of system calls, series of `sigaction` |
| `process` | 2 threads, 3 lines each, six program images | variables where the linker expects them, blocks apart, lines go to `/dev/kmsg` or an open fallback, but for the line named below, one open per thread |

`TypeOK` is checked for `Pthread` and `Mpi`, where it holds indices and slots in
bounds, and proved for `Mutex`, `Semaphore`, `Pthread` and `Dirent`. In the other
modules it records the types of the variables.

Three runs end in a violation, each of a sentence in a comment; the findings
quote it.

| run | what happens |
|---|---|
| `mpi_init_loss` | a message that overtakes a GO is thrown away |
| `mpi_reserved_tag` | `MPI_Send` accepts the library's own tags |
| `tls_small_align` | with a TLS alignment below 8 the initial values are not where the program reads them |

Things seen while modelling that no run of its own is about:

* `include/stdio.h` lines 7-8 say of printf that it "always targets the same
  console write() does"; `stdio.c` lines 11-12 say its output "must not land on
  the framebuffer console". The code does what `stdio.c` says, and
  `OffTheConsole` states that.
* The comment before `isatty` says that it "is always 0" (`syscall.c` 559); the code
  asks the kernel and may say 1.
* Between the test of `kmsg_fd` in line 20 of `stdio.c` and its use, another
  thread may replace a good descriptor by the error code of its own failed open;
  the line is then written to a negative descriptor and lost. `LinesLand` allows
  exactly this, so it says when it can happen: one thread's open succeeded and
  another's was refused. A build that loads the variable once per call does not
  have the window (gcc at -O2 does so); the source permits both. Without it
  the overwriting still sends the lines to the console, which is why the first
  half of `OffTheConsole` supposes that no open was refused.
* `parse_rank_args` accumulates in an int without a bound. Texts too long for
  it are undefined in C: the sum may wrap, and the compiler may drop the test
  `r < 0` (gcc at -O2 does). `Numerals` has both, and `RankArguments` claims
  nothing about such texts but that argv is kept consistent; `MPI_Launch` never
  writes one.
* `MPI_Allreduce` of a type without arithmetic fails at the root only; the other
  ranks wait for a broadcast that never comes. A broadcast too long for a message
  ends the same way.
* A receive with `MPI_ANY_TAG` also matches the frames of collectives.
* A contribution of the wrong size ends a reduce at its root; the contributions
  that arrive later keep their slots of the pool.
* When `MPI_Launch` fails half-way, the ranks already started poll for ever.
* A thread without TLS is joined as a stranger and its entry of `pt_slots` is
  lost.
* With no `/dev/kmsg`, `open` returns -ENOENT, which is the -2 that means "not
  tried": every `printf` tries again.
* The TLS mapping of a thread is not unmapped when the thread exits.

### Bounds

Four threads on a mutex are a holder, a sleeper, a thread that was woken and one
that barges in; all the arguments about the word involve no more. The semaphore
has two posts because a lost post needs two wakes that overtake each other; an
int of three bits just holds them. `SeqMod` is
larger than the number of signals of a run. Three ranks are the least with
which two senders race for one receiver. `HelloPeriod` is 2 instead of 64: what
matters is that some passes say HELLO and some do not. `QueueCap` is per sender
and only bounds how many duplicates pile up. `MaxResidue` is the number of
HELLOs left over from the start-up. `MaxThreads` bounds the tids given out, and
`MaxLines` the lines a thread prints: one to race for the open, one after it and
one after the slower thread's store. `PageSize` is 64 and the largest alignment
128: the block moves up inside its mapping by more than the 56 spare bytes behind
it, as with 4096 and 8192. `PRINTF_BUFFER_SIZE` is 6, so that three directives
reach the end of the buffer at every place. `INT_MAX` is 2047, so that numbers of
four digits overflow it.

Deadlock is not checked where a program ends or may wait for ever by its own
doing (`MpiInit`, `Mpi`, `Process`, `Library`, and `Pthread`, where two threads may
join each other).

### Fairness

Threads and ranks are scheduled by the kernel, so each one that is inside a call
and not asleep is weakly fair. A sleeper is not: only a wake makes it run. Nobody
has to start a call, no signal and no timeout has to come. The ranks of
`MpiInit` poll and yield, they never block, and the launcher goes on spawning.
A rank that failed takes no steps, so `EverybodyComesUp` excepts those runs. `EverybodyFinishes` supposes that
operating-system signals stop interrupting the condition variable at some point:
the mutex is unfair, and without that consumers woken over and over can keep a
producer out of it.

## The proofs

`MutexProofs` proves, for any set of threads, `TypeOK`, `MutualExclusion`,
`NoLostWakeup` and `ImplementsLock`. The inductive invariant adds one fact to
these, that whoever is in the kernel's queue is inside `futex_wait`: the thread
a wake picks then counts as one on its way. The refinement uses `MutualExclusion`
to show that a step that frees the word frees it for the only holder.

`SemaphoreProofs` proves `Conservation` and `NoLostPost` for any finite set of
threads, any width, any initial count and number of posts, under `Fits`: the
posts do not overflow the count. Without it a post at INT_MAX makes the count
negative, although `include/semaphore.h` line 15 says it never is. The invariant
adds `LocalsAgree`, which ties the locals of a call to its label; the proof of
`NoLostPost` counts how each step changes the sets of posters and seekers.

`CondvarProofs` proves `ReturnsWithMutex` and `NoLostSignal` for any finite sets of
consumers and producers. The proofs of `MutexProofs` are used for the mutex inside
(`INSTANCE`), and the invariant says where in its lock or unlock call a thread is,
given where it is in the wait. `NoLostSignal` needs one condition, without which a
signal does not "necessarily change seq" for a waiter (`pthread.c` line 116): `seq`
does not come round to the value a waiter has read before that waiter sleeps
(`SeqNotReused`). `FewSignalsNotLost` discharges it for a
program that signals less often than `seq` has values.

`PthreadProofs` proves `StartsOwnRoutine` and `StartSlotOwnership` for any number
of threads and start slots. The invariant ties each slot in use to the one thread
it is reserved for, a creator between its compare-exchange and its system call or
a new thread that has not freed it, and says that what was meant for a new thread
is in the slot it was given. `PthreadTableProofs` goes on to the table: `TypeOK`,
`EntryOwnership` and `JoinDelivers` for any number of threads and any table size.
`EntryOwnership` alone is not inductive. Its invariant (`TInv`) follows each entry
from the `pthread_create` that picked it, by way of the new thread that records its
tid and its value there, to the join that frees it. It says whose each entry in use
is and what it holds by then, and that no two creations or threads have the same.

`DirentProofs` proves `TypeOK`, `DescriptorOwnership`, `ListsInOrder`, `EndMeansAll`
and `RecordStaysInPlace` for any number of streams, any directories, and any record
lengths that fit the buffer. A listing says nothing about the records still in the
buffer, so the invariant does: the batch in a stream's buffer begins at some place
of the directory and ends at the descriptor's position, its bytes are those records
in order, and `next` is the offset of the one after those handed out. That the
offsets add up rests on lemmas about `Before`, which is a recursive function: that
it exists and what its values are is proved by taking a least counterexample.

`MpiInitProofs` proves `NobodyUpBeforeAllBound` for any number of ranks. A frame
in a socket tells something about the past: its sender is bound, and a GO means
that rank 0 had heard from all. The invariant says this of every frame, of `seen`
and of every label behind the rendezvous.

`ProcessProofs` proves `OffTheConsole`, `LinesLand` and `OpenedOncePerThread` for
any number of threads and lines. `kmsg_fd` and each thread's copy hold "not
tried" or an answer that some `open` gave, and an error code among them means
that `/dev/kmsg` is missing or an open was refused. A thread at the write has
chosen standard output for such a cause or has tested a good descriptor; in the
second case somebody's open succeeded, so what it writes to is a good descriptor
too, or the error code of a refused open that replaced it. A thread that was
answered never asks again, which is `OpenedOncePerThread`. The second half of
`OffTheConsole` is an action property: no step leaves the states in which a good
descriptor is in place and nobody is about to store another (`StaysSettled`).

It also proves `BlocksApart` and `VariablesInPlace`, for any number of threads, any
page size, any numbers of arguments, of environment variables and of entries of the
auxiliary vector. The argument runs along the code: the loops of `_start` and
`getauxval` stop at the first word they look for, so the template found is the
segment's; rounding up yields a multiple of the alignment and of 8 that lies within
the spare room of the mapping; each mapping begins above the earlier ones, and the
invariant keeps every block below the addresses still to be given out.
`ImagesAssumption` says what the kernel and the linker provide: a vector of pairs
that names the headers, at most one `PT_TLS`, an alignment that divides 8 or is a
multiple of it. `VariablesInPlace` has the further hypothesis `WholeWords`, that the
template is aligned to 8 or a multiple of 8 long; `tls_small_align` shows what
happens without it.

Assumptions on the constants are those of the modules (`MpiInitAssumption`,
`PthreadAssumption`, ...): sizes are natural numbers, mostly not zero.

Only model-checked:

* all liveness (`EveryCallReturns`, `EverybodyComesUp`, ...): the prover has no rules
  for fairness here;
* what `Mpi` says (`TypeOK`, `CollectiveResults`, `BarrierHolds`, `SlotsAccounted`,
  `TrafficKeptApart`, `OneMailbox`): the list of `Pending` is a walk through a heap,
  and the collectives are right only for programs whose ranks call the same ones in
  the same order, which no invariant states yet;
* the functions of `Library`, which compare folds and recursive functions with
  reference definitions: an induction over data for each.

## Assumptions

* The memory model is sequential consistency. The code uses acquire and release
  operations on x86-64, where each read-modify-write is a full barrier.
* Argument checks that change no state are left out, as are `destroy` functions
  and calls that only read.
* Two sentences of the source are not quite what happens, without harm: an unlock
  may find 1 in a mutex some thread sleeps on, if a third thread took it between
  the store of 0 and the wake (`pthread.c` line 12), and `sem_post` enters the
  kernel even when nobody waits.
* Time is not modelled: a timeout may come whenever the thread sleeps.
* `Pthread` assumes that the kernel never gives out a tid twice. If it does,
  `pthread_join` may find the entry of a newer thread, since the tid is reaped
  before it is looked up. A thread of `pthread_create` ends by returning or by
  `pthread_exit`, not by `thread_exit`.
* UDP over the loopback loses nothing and keeps order once a port is bound.
* mmap returns a page that nobody else has; `Process` lets it leave a gap.

## Not modelled

* What the kernel's services do: they are not in the repository. `Futex`, the
  sockets of `MpiInit` and `Mpi` and the threads of `Pthread` say what the library
  relies on.
* Errors of the socket calls after `MPI_Init`, runt datagrams and negative counts;
  a second `MPI_Init` after one that failed. No sentence of the repository says
  what should happen then.
* Two `opendir`s at once: nothing locks the pool, and nothing says it is locked.
* Functions that only read (`MPI_Comm_rank`, `sem_getvalue`, `getauxval` called by
  the program), `destroy` functions, which do nothing, and `htons`, which swaps two
  bytes.
* The headers of constants (`linux/`): no behaviour. The prototypes of the others
  are what `KernelSeesArguments` compares the wrappers with.
