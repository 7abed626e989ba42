------------------------------ MODULE Library ------------------------------
(***************************************************************************)
(* One call of one of the library's pure functions, with the inputs of     *)
(* Calls: the memory and string functions, the conversions between numbers *)
(* and text, the system call wrappers up to the kernel's door, and a short *)
(* series of sigaction calls.  Each result is compared with a definition   *)
(* that does not follow the code.                                          *)
(***************************************************************************)
EXTENDS Strings, Numerals, Syscalls

LOCAL INSTANCE SequencesExt

CONSTANT Calls    \* the inputs: records whose field op names the function

VARIABLES call, returned, ret

vars == << call, returned, ret >>

Init == call \in Calls /\ returned = FALSE /\ ret = << >>

Returns(op, value) ==
  /\ call.op = op /\ ~returned
  /\ returned' = TRUE /\ ret' = value /\ UNCHANGED call

Memmove == Returns("memmove", memmove(call.mem, call.d, call.s, call.n))
Memcpy  == Returns("memcpy", memcpy(call.mem, call.d, call.s, call.n))
Memset  == Returns("memset", memset(call.mem, call.d, call.c, call.n))

\* The three comparisons of the strings, or bytes, at a and b.
Compare ==
  Returns("compare", [strcmp  |-> strcmp(call.mem, call.a, call.b),
                      strncmp |-> strncmp(call.mem, call.a, call.b, call.n),
                      memcmp  |-> memcmp(call.mem, call.a, call.b, call.n)])

InetAddr == Returns("inet_addr", inet_addr(call.text))
InetNtoa == Returns("inet_ntoa_r", inet_ntoa_r(call.addr))
Printf   == Returns("printf", printf(call.fmt, call.args))

\* MPI_Launch builds the arguments, the new process reads them.
Launch ==
  Returns("launch", LET argv == LaunchArgv(call.path, call.rank, call.size)
                    IN  parse_rank_args(3, argv, TRUE))

\* A program started with the argument texts of the call.
RankArgs ==
  LET argv == << call.path, call.rank.text, call.size.text >> \o call.own \o << NULL >>
      argc == Len(argv) - 1
  IN  \E tested \in BOOLEAN :
        LET who == parse_rank_args(argc, argv, tested)
        IN  Returns("rank_args", [who  |-> who,
                                  argc |-> IF who = << >> THEN argc ELSE argc - 2,
                                  argv |-> IF who = << >> THEN argv ELSE DropRankArgs(argc, argv)])

\* What the kernel finds, if it is called at all, and what the caller gets.
Syscall ==
  LET w == Wrapper[call.name]
  IN  Returns("syscall", [entry  |-> IF w = NoCall THEN << >> ELSE << Enter(w) >>,
                          answer |-> Answer(w, call.kernel)])

\* Successive calls of sigaction for one signal.
Sigaction ==
  LET after[j \in 1 .. Len(call.calls)] ==
        sigaction(IF j = 1 THEN Default ELSE after[j - 1].kernel,
                  call.calls[j].act, call.calls[j].old, call.calls[j].rc)
  IN  Returns("sigaction", after)

Next == \/ Memmove \/ Memcpy \/ Memset \/ Compare
        \/ InetAddr \/ InetNtoa \/ Printf \/ Launch \/ RankArgs
        \/ Syscall \/ Sigaction

Spec == Init /\ [][Next]_vars

Returned(op) == returned /\ call.op = op

-----------------------------------------------------------------------------
(***************************************************************************)
(* memmove leaves at the destination the bytes the source held before the  *)
(* call, however the two overlap; memcpy does so when they do not, or when *)
(* the destination is the lower one; memset stores the lowest byte of its  *)
(* int.  None of them touches a byte outside its range.                    *)
(***************************************************************************)
MemoryMoved ==
  LET After(byte(_)) ==
        [a \in DOMAIN call.mem |->
           IF a \in call.d .. call.d + call.n - 1 THEN byte(a) ELSE call.mem[a]]
  IN  /\ Returned("memmove") \/ Returned("memcpy") =>
           ret = After(LAMBDA a : call.mem[call.s + (a - call.d)])
      /\ Returned("memset") =>
           ret = After(LAMBDA a : CHOOSE b \in 0 .. 255 : (call.c - b) % 256 = 0)

(***************************************************************************)
(* strcmp orders strings like a dictionary over UNSIGNED bytes, bytes      *)
(* above 127 after the others; strncmp does the same to the first n        *)
(* characters and never looks behind a terminating NUL; memcmp orders all  *)
(* n bytes, NULs included.                                                 *)
(***************************************************************************)
ComparesUnsigned ==
  LET Bytes(p, n) == SubSeq(call.mem, p, p + n - 1)
      Text(p)     == Bytes(p, strlen(call.mem, p))
      First(x, n) == IF Len(x) <= n THEN x ELSE SubSeq(x, 1, n)
      Before(x, y) ==
        \E k \in 0 .. Len(x) :
           /\ k < Len(y) /\ SubSeq(x, 1, k) = SubSeq(y, 1, k)
           /\ k = Len(x) \/ x[k + 1] < y[k + 1]
      Agrees(r, x, y) == (r < 0 <=> Before(x, y)) /\ (r > 0 <=> Before(y, x))
  IN  Returned("compare") =>
        /\ Agrees(ret.strcmp, Text(call.a), Text(call.b))
        /\ Agrees(ret.strncmp, First(Text(call.a), call.n), First(Text(call.b), call.n))
        /\ Agrees(ret.memcmp, Bytes(call.a, call.n), Bytes(call.b, call.n))

(***************************************************************************)
(* inet_addr takes exactly the four dotted numbers up to 255, of one to    *)
(* three digits, with nothing after them; the first number is the first    *)
(* byte in memory, as the wire wants it (in a little-endian uint32_t that  *)
(* is the lowest byte).  Everything else is INADDR_NONE.  Every address    *)
(* survives inet_ntoa_r and inet_addr, and its text fits the 16 bytes that *)
(* the header asks the caller for.                                         *)
(***************************************************************************)
AddressSurvivesText ==
  /\ Returned("inet_addr") =>
       ret = IF Len(call.octets) = 4 /\ -1 \notin {call.octets[i] : i \in DOMAIN call.octets}
               THEN << call.octets[4], call.octets[3], call.octets[2], call.octets[1] >>
               ELSE INADDR_NONE
  /\ Returned("inet_ntoa_r") => inet_addr(ret) = call.addr /\ Len(ret) + 1 <= 16

(***************************************************************************)
(* What printf writes is the full expansion of its format, cut off so that *)
(* it stays inside the buffer with a byte to spare: nothing is written in  *)
(* the middle of a cut, and a directive it does not know appears as it is. *)
(***************************************************************************)
PrintsPrefix ==
  Returned("printf") =>
    ret = IF Len(call.meant) <= PRINTF_BUFFER_SIZE - 1
            THEN call.meant ELSE SubSeq(call.meant, 1, PRINTF_BUFFER_SIZE - 1)

(***************************************************************************)
(* Each of the processes that MPI_Launch starts reads the rank and the     *)
(* size that it was started with out of its arguments, for every size the  *)
(* launcher accepts.  A start without a proper rank and size is refused;   *)
(* numbers too large for an int, which C leaves undefined and which the    *)
(* launcher never writes, may be taken for others.  When MPI_Init accepts  *)
(* its arguments the program has its own, under its own name and with the  *)
(* null pointer after the last one; when it refuses them they are left     *)
(* alone.                                                                  *)
(***************************************************************************)
RankArguments ==
  /\ Returned("launch") => ret = << call.rank, call.size >>
  /\ Returned("rank_args") =>
       LET proper == /\ call.rank.value >= 0
                     /\ call.size.value \in 1 .. MPI_MAX_RANKS
                     /\ call.rank.value < call.size.value
           fits   == call.rank.value <= INT_MAX /\ call.size.value <= INT_MAX
           left   == IF ret.who # << >> THEN << >> ELSE << call.rank.text, call.size.text >>
       IN  /\ fits => ret.who = IF proper THEN << call.rank.value, call.size.value >> ELSE << >>
           /\ SubSeq(ret.argv, 1, ret.argc + 1) = << call.path >> \o left \o call.own \o << NULL >>

\* The parameters of the wrappers as the headers declare them: unistd.h,
\* fcntl.h, signal.h, poll.h, futex.h, tls.h, time.h, termios.h, dirent.h,
\* neoos_test.h, sys/*.h, and the internal ones of thread.c and signal.c.
Prototypes ==
  { << {"getpid", "getppid", "getuid", "geteuid", "getgid", "getegid", "sched_getcpu", "yield",
        "fork", "setsid", "thread_self", "migration_count", "pmm_free", "poll_stats",
        "poll_depth", "poll_wasted", "tcp_retrans", "tcp_reasm", "tcp_inuse"}, << >> >>,
    << {"exit", "exit_group", "thread_exit"}, << "code" >> >>,
    << {"write", "read"}, << "fd", "buf", "len" >> >>,
    << {"close", "isatty"}, << "fd" >> >>,
    << {"lseek"}, << "fd", "offset", "whence" >> >>,
    << {"setuid"}, << "uid" >> >>,
    << {"setgid"}, << "gid" >> >>,
    << {"getrandom"}, << "buf", "len", "flags" >> >>,
    << {"ioctl"}, << "fd", "request", "arg" >> >>,
    << {"set_tid_address"}, << "ptr" >> >>,
    << {"pipe"}, << "fds" >> >>,
    << {"pipe2"}, << "fds", "flags" >> >>,
    << {"dup"}, << "oldfd" >> >>,
    << {"dup2"}, << "oldfd", "newfd" >> >>,
    << {"dup3"}, << "oldfd", "newfd", "flags" >> >>,
    << {"spawn", "exec", "mkdir", "unlink", "chdir"}, << "path" >> >>,
    << {"spawnv", "execv"}, << "path", "argv" >> >>,
    << {"spawnve", "execve"}, << "path", "argv", "envp" >> >>,
    << {"sysconf", "sysconf_default"}, << "name" >> >>,
    << {"wait", "getpgid", "getsid", "parent_pid"}, << "pid" >> >>,
    << {"mount"}, << "source", "target", "fstype" >> >>,
    << {"umount"}, << "target" >> >>,
    << {"getcwd"}, << "buf", "size" >> >>,
    << {"fcntl"}, << "fd", "cmd", "arg" >> >>,
    << {"open"}, << "path", "flags" >> >>,
    << {"raise"}, << "sig" >> >>,
    << {"rt_sigaction"}, << "sig", "act", "old" >> >>,
    << {"sigprocmask"}, << "how", "set", "old" >> >>,
    << {"sigpending"}, << "set" >> >>,
    << {"sigsuspend"}, << "mask" >> >>,
    << {"sigaltstack"}, << "ss", "old" >> >>,
    << {"kill"}, << "pid", "sig" >> >>,
    << {"tkill"}, << "tid", "sig" >> >>,
    << {"tgkill"}, << "tgid", "tid", "sig" >> >>,
    << {"wait4"}, << "pid", "status", "options", "rusage" >> >>,
    << {"waitpid"}, << "pid", "status", "options" >> >>,
    << {"setpgid"}, << "pid", "pgid" >> >>,
    << {"thread_create"}, << "entry", "arg" >> >>,
    << {"thread_join"}, << "tid", "code" >> >>,
    << {"poll"}, << "fds", "nfds", "timeout_ms" >> >>,
    << {"select"}, << "nfds", "rd", "wr", "ex", "tv" >> >>,
    << {"futex"}, << "uaddr", "op", "val", "timeout" >> >>,
    << {"futex_wait"}, << "uaddr", "expected" >> >>,
    << {"futex_wait_timeout"}, << "uaddr", "expected", "rel" >> >>,
    << {"futex_wake"}, << "uaddr", "count" >> >>,
    << {"arch_prctl"}, << "code", "addr" >> >>,
    << {"clock_gettime"}, << "clk", "out" >> >>,
    << {"nanosleep"}, << "req", "rem" >> >>,
    << {"tcgetattr"}, << "fd", "t" >> >>,
    << {"tcsetattr", "tcsetattr_TCSADRAIN", "tcsetattr_TCSAFLUSH"}, << "fd", "actions", "t" >> >>,
    << {"getdents"}, << "fd", "buf", "bytes" >> >>,
    << {"inject_key"}, << "keycode", "pressed" >> >>,
    << {"tcp_fault"}, << "drop_1_in_n", "reorder_1_in_m" >> >>,
    << {"mmap"}, << "addr", "length", "prot", "flags", "fd", "offset" >> >>,
    << {"munmap"}, << "addr", "length" >> >>,
    << {"mprotect"}, << "addr", "length", "prot" >> >>,
    << {"mmap_fd_raw"}, << "addr", "len", "prot", "flags", "fd", "offset" >> >>,
    << {"mmap_raw"}, << "addr", "len", "prot", "flags" >> >>,
    << {"munmap_raw"}, << "addr", "len" >> >>,
    << {"reboot"}, << "cmd" >> >>,
    << {"stat", "lstat"}, << "path", "st" >> >>,
    << {"fstat"}, << "fd", "st" >> >>,
    << {"fstatat"}, << "dirfd", "path", "st", "flags" >> >>,
    << {"writev", "readv"}, << "fd", "iov", "iovcnt" >> >>,
    << {"uname"}, << "u" >> >>,
    << {"socket"}, << "domain", "type", "protocol" >> >>,
    << {"bind", "connect", "getsockname", "getpeername", "accept"}, << "fd", "addr", "len" >> >>,
    << {"accept4"}, << "fd", "addr", "len", "flags" >> >>,
    << {"listen"}, << "fd", "backlog" >> >>,
    << {"shutdown"}, << "fd", "how" >> >>,
    << {"setsockopt", "getsockopt"}, << "fd", "level", "opt", "val", "len" >> >>,
    << {"sendto"}, << "fd", "buf", "len", "flags", "dest", "dest_len" >> >>,
    << {"recvfrom"}, << "fd", "buf", "len", "flags", "src", "src_len" >> >>,
    << {"send", "recv"}, << "fd", "buf", "len", "flags" >> >> }

\* Parameters that are not meant for the kernel: they choose the request, or
\* ask for accounting that NeoOS does not keep.
KeptBack == {<< "sysconf", "name" >>, << "wait4", "rusage" >>,
             << "tcsetattr", "actions" >>, << "tcsetattr_TCSADRAIN", "actions" >>,
             << "tcsetattr_TCSAFLUSH", "actions" >>}

\* What the caller of a wrapper wants the kernel to have, in order: a string
\* comes with its length, but for mount's three, which are NUL-terminated.
Meant(name) ==
  LET params == (CHOOSE p \in Prototypes : name \in p[1])[2]
      kept   == SelectSeq(params, LAMBDA x : << name, x >> \notin KeptBack)
      Passed(x) == CASE x = "path" -> Path
                     [] x = "target" /\ name # "mount" -> << "target", "strlen(target)" >>
                     [] OTHER -> << x >>
  IN  FlattenSeq([i \in DOMAIN kept |-> Passed(kept[i])])

(***************************************************************************)
(* The kernel gets the request that is meant.  The number belongs to one   *)
(* service only, over the four places where the library defines them.      *)
(* Each parameter the header declares arrives once, in the declared order, *)
(* in the registers the kernel reads, a string with its length behind it;  *)
(* and all wrappers of a service load the same registers, so that none     *)
(* leaves the kernel a stale one (what exec once did).  The answer comes   *)
(* through: an error arrives as an error and a success as a success, where *)
(* getcwd and isatty say 0 for "no" and the others say it below zero; the  *)
(* void functions return nothing.  A name that sysconf does not know is an *)
(* error without any call.                                                 *)
(***************************************************************************)
KernelSeesArguments ==
  Returned("syscall") =>
    IF call.name = "sysconf_default" THEN ret = [entry |-> << >>, answer |-> << -1 >>]
    ELSE LET w     == Wrapper[call.name]
             meant == Meant(call.name)
             found == [i \in 1 .. 6 |-> ret.entry[1].regs[KernelRegister[i]]]
             void  == {"exit", "exit_group", "thread_exit", "yield"}
         IN  /\ {s \in DOMAIN Number : Number[s] = ret.entry[1].rax} = {w.service}
             /\ SelectSeq(found, LAMBDA x : \E i \in DOMAIN meant : meant[i] = x) = meant
             /\ \A name \in DOMAIN Wrapper : SameService(Wrapper[name], w) =>
                  \A i \in 1 .. 6 :
                     found[i] = "stale" <=> Enter(Wrapper[name]).regs[KernelRegister[i]] = "stale"
             /\ IF call.name \in void THEN ret.answer = << >>
                ELSE call.kernel < 0 <=> IF call.name \in {"getcwd", "isatty"}
                                           THEN ret.answer[1] = 0 ELSE ret.answer[1] < 0

(***************************************************************************)
(* What sigaction reports as the old action is the one the program         *)
(* installed last with success, as the program wrote it, so that it can be *)
(* put back; a failed call reports nothing and changes nothing; and the    *)
(* kernel never holds a handler of the program without the restorer that   *)
(* "every sigaction() must supply".                                        *)
(***************************************************************************)
ActionSurvivesKernel ==
  Returned("sigaction") =>
    LET calls     == call.calls
        Sets(i)   == calls[i].rc = 0 /\ calls[i].act # << >>
        Latest(j) == {i \in 1 .. j - 1 : Sets(i) /\ \A m \in i + 1 .. j - 1 : ~Sets(m)}
        Old(j)    == IF Latest(j) = {} THEN << [handler |-> "SIG_DFL", flags |-> {}, mask |-> 0] >>
                     ELSE calls[CHOOSE i \in Latest(j) : TRUE].act
    IN  \A j \in DOMAIN calls :
          /\ ret[j].old = IF calls[j].rc = 0 /\ calls[j].old # << >> THEN Old(j) ELSE calls[j].old
          /\ ret[j].kernel.handler # "SIG_DFL" =>
               "SA_RESTORER" \in ret[j].kernel.flags /\ ret[j].kernel.restorer = "__restore_rt"

=============================================================================
