------------------------------ MODULE Syscalls ------------------------------
(***************************************************************************)
(* The system call wrappers of src/src/syscall.c, src/src/socket.c and     *)
(* src/src/signal.c: the number each one uses, the registers it loads, and *)
(* what it makes of the kernel's answer.                                   *)
(*                                                                         *)
(* An argument is a name for the value the wrapper passes: a parameter of  *)
(* it, or a constant.  A path goes as a pointer and a length.              *)
(***************************************************************************)
EXTENDS Integers, Sequences

SYS ==
  [ EXIT |-> 0, WRITE |-> 1, YIELD |-> 2, GETPID |-> 3, SPAWN |-> 4, WAIT |-> 5,
    READ |-> 6, OPEN |-> 7, CLOSE |-> 8, MKDIR |-> 9, UNLINK |-> 10, LSEEK |-> 11,
    FORK |-> 12, EXEC |-> 13, MOUNT |-> 14, UMOUNT |-> 15, GETDENTS |-> 16,
    THREAD_CREATE |-> 17, THREAD_EXIT |-> 18, THREAD_JOIN |-> 19,
    THREAD_SELF |-> 20, RT_SIGACTION |-> 21, RT_SIGPROCMASK |-> 22,
    CPU_COUNT |-> 40, GETCPU |-> 41, RT_SIGPENDING |-> 24, RT_SIGSUSPEND |-> 25,
    SIGALTSTACK |-> 28, MMAP |-> 37, MUNMAP |-> 38, MPROTECT |-> 39, KILL |-> 29,
    WAIT4 |-> 32, SETPGID |-> 33, GETPGID |-> 34, SETSID |-> 35, GETSID |-> 36,
    TKILL |-> 30, TGKILL |-> 31, FUTEX |-> 42, PIPE2 |-> 43, ARCH_PRCTL |-> 44,
    SPAWNV |-> 51, FCNTL |-> 52, DUP |-> 70, DUP2 |-> 71, DUP3 |-> 72,
    GETPPID |-> 73, UNAME |-> 74, GETUID |-> 76, GETGID |-> 78, SETUID |-> 80,
    SETGID |-> 81, GETRANDOM |-> 82, CHDIR |-> 53, GETCWD |-> 54, STAT |-> 55,
    LSTAT |-> 56, FSTAT |-> 57, NEWFSTATAT |-> 58, SET_TID_ADDRESS |-> 59,
    EXIT_GROUP |-> 60, WRITEV |-> 61, READV |-> 62, IOCTL |-> 63,
    CLOCK_GETTIME |-> 64, NANOSLEEP |-> 65, TEST_HOOK |-> 66 ]

\* Defined where they are used, in the middle of the file.
SYS_NR == [ POLL |-> 67, SELECT |-> 68, REBOOT |-> 69 ]

SYS_SOCKET ==
  [ SOCKET |-> 45, BIND |-> 46, CONNECT |-> 47, SENDTO |-> 48, RECVFROM |-> 49,
    GETSOCKNAME |-> 50, LISTEN |-> 83, ACCEPT4 |-> 84, SHUTDOWN |-> 85,
    GETPEERNAME |-> 86, SETSOCKOPT |-> 87, GETSOCKOPT |-> 88 ]

SYS_RT_SIGRETURN == [ RT_SIGRETURN |-> 23 ]

Merge(f, g) == [x \in DOMAIN f \union DOMAIN g |-> IF x \in DOMAIN f THEN f[x] ELSE g[x]]

Number == Merge(Merge(SYS, SYS_NR), Merge(SYS_SOCKET, SYS_RT_SIGRETURN))

\* A wrapper that passes args to a service and makes answer of the result.
Translated(service, args, answer) == [service |-> service, args |-> args, answer |-> answer]

Call(service, args) == Translated(service, args, "result")
NoCall == Translated("none", << >>, "-1")
Path   == << "path", "strlen(path)" >>

-----------------------------------------------------------------------------
\* The wrappers, in the order of the files.

FileCalls ==
  [ exit |-> Translated("EXIT", << "code" >>, "nothing"), write |-> Call("WRITE", << "fd", "buf", "len" >>),
    read |-> Call("READ", << "fd", "buf", "len" >>),
    open |-> Call("OPEN", Path \o << "flags" >>), close |-> Call("CLOSE", << "fd" >>),
    lseek |-> Call("LSEEK", << "fd", "offset", "whence" >>) ]

\* sysconf knows two names, and sysconf_default is every other one.
SpawnCalls ==
  [ getpid |-> Call("GETPID", << >>), sysconf |-> Call("CPU_COUNT", << >>),
    sysconf_default |-> NoCall, sched_getcpu |-> Call("GETCPU", << >>),
    yield |-> Translated("YIELD", << >>, "nothing"),
    spawn |-> Call("SPAWN", Path), spawnv |-> Call("SPAWNV", Path \o << "argv", "0" >>),
    spawnve |-> Call("SPAWNV", Path \o << "argv", "envp" >>),
    fork |-> Call("FORK", << >>) ]

MountCalls ==
  [ getdents |-> Call("GETDENTS", << "fd", "buf", "bytes" >>),
    mount |-> Call("MOUNT", << "source", "target", "fstype" >>),
    umount |-> Call("UMOUNT", << "target", "strlen(target)" >>) ]

\* Variant of ExecCalls: exec leaves the argument vector off.
ExecCalls_short ==
  [ exec |-> Call("EXEC", Path), execv |-> Call("EXEC", Path \o << "argv", "0" >>),
    execve |-> Call("EXEC", Path \o << "argv", "envp" >>) ]

ExecCalls ==
  [ exec |-> Call("EXEC", Path \o << "0", "0" >>),
    execv |-> Call("EXEC", Path \o << "argv", "0" >>),
    execve |-> Call("EXEC", Path \o << "argv", "envp" >>) ]

IdCalls ==
  [ getuid |-> Call("GETUID", << >>), geteuid |-> Call("GETUID", << >>),
    getgid |-> Call("GETGID", << >>), getegid |-> Call("GETGID", << >>),
    setuid |-> Call("SETUID", << "uid" >>), setgid |-> Call("SETGID", << "gid" >>),
    getrandom |-> Call("GETRANDOM", << "buf", "len", "flags" >>),
    getppid |-> Call("GETPPID", << >>), uname |-> Call("UNAME", << "u" >>),
    wait |-> Call("WAIT", << "pid" >>), mkdir |-> Call("MKDIR", Path),
    unlink |-> Call("UNLINK", Path) ]

ThreadCalls ==
  [ thread_create |-> Call("THREAD_CREATE", << "entry", "arg" >>),
    thread_exit |-> Translated("THREAD_EXIT", << "code" >>, "nothing"),
    thread_join |-> Call("THREAD_JOIN", << "tid", "code" >>),
    thread_self |-> Call("THREAD_SELF", << >>) ]

SignalCalls ==
  [ rt_sigaction |-> Call("RT_SIGACTION", << "sig", "act", "old" >>),
    sigprocmask |-> Call("RT_SIGPROCMASK", << "how", "set", "old" >>),
    sigpending |-> Call("RT_SIGPENDING", << "set" >>),
    sigsuspend |-> Call("RT_SIGSUSPEND", << "mask" >>),
    sigaltstack |-> Call("SIGALTSTACK", << "ss", "old" >>),
    kill |-> Call("KILL", << "pid", "sig" >>), tkill |-> Call("TKILL", << "tid", "sig" >>),
    tgkill |-> Call("TGKILL", << "tgid", "tid", "sig" >>) ]

RaiseCall == [ raise |-> Call("TKILL", << "thread_self()", "sig" >>) ]

WaitCalls ==
  [ wait4 |-> Call("WAIT4", << "pid", "status", "options" >>),
    waitpid |-> Call("WAIT4", << "pid", "status", "options" >>),
    setpgid |-> Call("SETPGID", << "pid", "pgid" >>), getpgid |-> Call("GETPGID", << "pid" >>),
    setsid |-> Call("SETSID", << >>), getsid |-> Call("GETSID", << "pid" >>) ]

MemoryCalls ==
  [ mmap_fd_raw |-> Call("MMAP", << "addr", "len", "prot", "flags", "fd", "offset" >>),
    mmap_raw |-> Call("MMAP", << "addr", "len", "prot", "flags", "-1", "0" >>),
    munmap_raw |-> Call("MUNMAP", << "addr", "len" >>),
    mmap |-> Translated("MMAP", << "addr", "length", "prot", "flags", "fd", "offset" >>, "address"),
    munmap |-> Translated("MUNMAP", << "addr", "length" >>, "status"),
    mprotect |-> Translated("MPROTECT", << "addr", "length", "prot" >>, "status") ]

FutexCalls ==
  [ futex |-> Call("FUTEX", << "uaddr", "op", "val", "timeout" >>),
    futex_wait |-> Call("FUTEX", << "uaddr", "WAIT_PRIVATE", "expected", "0" >>),
    futex_wait_timeout |-> Call("FUTEX", << "uaddr", "WAIT_PRIVATE", "expected", "rel" >>),
    futex_wake |-> Call("FUTEX", << "uaddr", "WAKE_PRIVATE", "count", "0" >>) ]

DescriptorCalls ==
  [ pipe2 |-> Call("PIPE2", << "fds", "flags" >>), pipe |-> Call("PIPE2", << "fds", "0" >>),
    poll |-> Call("POLL", << "fds", "nfds", "timeout_ms" >>),
    reboot |-> Translated("REBOOT", << "cmd" >>, "status"),
    select |-> Call("SELECT", << "nfds", "rd", "wr", "ex", "tv" >>),
    fcntl |-> Call("FCNTL", << "fd", "cmd", "arg" >>), dup |-> Call("DUP", << "oldfd" >>),
    dup2 |-> Call("DUP2", << "oldfd", "newfd" >>),
    dup3 |-> Call("DUP3", << "oldfd", "newfd", "flags" >>),
    arch_prctl |-> Call("ARCH_PRCTL", << "code", "addr" >>) ]

StatCalls ==
  [ chdir |-> Call("CHDIR", Path), getcwd |-> Translated("GETCWD", << "buf", "size" >>, "buffer"),
    stat |-> Call("STAT", Path \o << "st" >>), lstat |-> Call("LSTAT", Path \o << "st" >>),
    fstat |-> Call("FSTAT", << "fd", "st" >>),
    fstatat |-> Call("NEWFSTATAT", << "dirfd" >> \o Path \o << "st", "flags", "0" >>) ]

\* tcsetattr takes any other action for TCSANOW.
TierZeroCalls ==
  [ writev |-> Call("WRITEV", << "fd", "iov", "iovcnt" >>),
    readv |-> Call("READV", << "fd", "iov", "iovcnt" >>),
    ioctl |-> Call("IOCTL", << "fd", "request", "arg" >>),
    isatty |-> Translated("IOCTL", << "fd", "TIOCGWINSZ", "ws" >>, "yes or no"),
    clock_gettime |-> Call("CLOCK_GETTIME", << "clk", "out" >>),
    nanosleep |-> Call("NANOSLEEP", << "req", "rem" >>),
    set_tid_address |-> Call("SET_TID_ADDRESS", << "ptr" >>),
    exit_group |-> Translated("EXIT_GROUP", << "code" >>, "nothing"),
    tcgetattr |-> Call("IOCTL", << "fd", "TCGETS", "t" >>),
    tcsetattr |-> Call("IOCTL", << "fd", "TCSETS", "t" >>),
    tcsetattr_TCSADRAIN |-> Call("IOCTL", << "fd", "TCSETSW", "t" >>),
    tcsetattr_TCSAFLUSH |-> Call("IOCTL", << "fd", "TCSETSF", "t" >>) ]

TestHookCalls ==
  [ inject_key |-> Call("TEST_HOOK", << "1", "keycode", "pressed" >>),
    migration_count |-> Call("TEST_HOOK", << "2" >>),
    parent_pid |-> Call("TEST_HOOK", << "3", "pid", "0" >>),
    pmm_free |-> Call("TEST_HOOK", << "4" >>), poll_stats |-> Call("TEST_HOOK", << "5" >>),
    poll_depth |-> Call("TEST_HOOK", << "6" >>), poll_wasted |-> Call("TEST_HOOK", << "7" >>),
    tcp_fault |-> Call("TEST_HOOK", << "8", "drop_1_in_n", "reorder_1_in_m" >>),
    tcp_retrans |-> Call("TEST_HOOK", << "9" >>), tcp_reasm |-> Call("TEST_HOOK", << "10" >>),
    tcp_inuse |-> Call("TEST_HOOK", << "11" >>) ]

SocketCalls ==
  [ socket |-> Call("SOCKET", << "domain", "type", "protocol" >>),
    bind |-> Call("BIND", << "fd", "addr", "len" >>),
    connect |-> Call("CONNECT", << "fd", "addr", "len" >>),
    getsockname |-> Call("GETSOCKNAME", << "fd", "addr", "len" >>),
    listen |-> Call("LISTEN", << "fd", "backlog", "0" >>),
    accept4 |-> Call("ACCEPT4", << "fd", "addr", "len", "flags", "0", "0" >>),
    accept |-> Call("ACCEPT4", << "fd", "addr", "len", "0", "0", "0" >>),
    shutdown |-> Call("SHUTDOWN", << "fd", "how", "0" >>),
    getpeername |-> Call("GETPEERNAME", << "fd", "addr", "len" >>),
    setsockopt |-> Call("SETSOCKOPT", << "fd", "level", "opt", "val", "len", "0" >>),
    getsockopt |-> Call("GETSOCKOPT", << "fd", "level", "opt", "val", "len", "0" >>),
    sendto |-> Call("SENDTO", << "fd", "buf", "len", "flags", "dest", "dest_len" >>),
    recvfrom |-> Call("RECVFROM", << "fd", "buf", "len", "flags", "src", "src_len" >>),
    send |-> Call("SENDTO", << "fd", "buf", "len", "flags", "0", "0" >>),
    recv |-> Call("RECVFROM", << "fd", "buf", "len", "flags", "0", "0" >>) ]

Wrapper ==
  Merge(Merge(Merge(Merge(FileCalls, SpawnCalls), Merge(MountCalls, ExecCalls)),
              Merge(Merge(IdCalls, ThreadCalls), Merge(Merge(SignalCalls, RaiseCall), WaitCalls))),
        Merge(Merge(Merge(MemoryCalls, FutexCalls), Merge(DescriptorCalls, StatCalls)),
              Merge(Merge(TierZeroCalls, TestHookCalls), SocketCalls)))

-----------------------------------------------------------------------------
\* syscall0 .. syscall4 and __neoos_syscall6.

ArgRegister == << "rdi", "rsi", "rdx", "r10", "r8", "r9" >>

\* The registers when the kernel is entered.  One that the wrapper does not
\* load still holds what some earlier code left there; the instruction itself
\* puts the return address into rcx and the flags into r11.
Enter(w) ==
  [rax  |-> Number[w.service],
   regs |-> [r \in {"rdi", "rsi", "rdx", "r10", "r8", "r9", "rcx", "r11"} |->
               IF r = "rcx" THEN "return address"
               ELSE IF r = "r11" THEN "flags"
               ELSE IF \E i \in DOMAIN w.args : ArgRegister[i] = r
                 THEN w.args[CHOOSE i \in DOMAIN w.args : ArgRegister[i] = r]
               ELSE "stale"]]

\* The kernel's side: where it looks for argument i.
KernelRegister == << "rdi", "rsi", "rdx", "r10", "r8", "r9" >>

\* A test hook is a service each.
SameService(v, w) == v.service = w.service /\ (v.service = "TEST_HOOK" => v.args[1] = w.args[1])

\* The translations of mmap; of munmap, mprotect and reboot; of getcwd, whose
\* buffer is at 4096; and of isatty.
AddressOrFailed(k) == IF k < 0 THEN -1 ELSE k
Status(k)          == IF k < 0 THEN -1 ELSE 0
BufferOrNull(k)    == IF k < 0 THEN 0 ELSE 4096
YesOrNo(k)         == IF k = 0 THEN 1 ELSE 0

\* What the wrapper returns when the kernel answers k; << >> from the void
\* functions, of which only yield returns at all.
Answer(w, k) ==
  CASE w.answer = "result"    -> << k >>
    [] w.answer = "nothing"   -> << >>
    [] w.answer = "-1"        -> << -1 >>
    [] w.answer = "address"   -> << AddressOrFailed(k) >>
    [] w.answer = "status"    -> << Status(k) >>
    [] w.answer = "buffer"    -> << BufferOrNull(k) >>
    [] w.answer = "yes or no" -> << YesOrNo(k) >>

-----------------------------------------------------------------------------
\* Signal actions.  act and old are pointers: << >> when null, else the struct
\* pointed at; flags are sets.

\* The kernel's table entry before the program's first sigaction.
Default == [handler |-> "SIG_DFL", flags |-> {}, restorer |-> "none", mask |-> 0]

k_sigaction(act) ==
  [handler |-> act.handler, flags |-> act.flags \union {"SA_RESTORER"},
   restorer |-> "__restore_rt", mask |-> act.mask]

\* Variant of sigaction: the old flags are handed out as the kernel has them.
sigaction_raw(k, act, old, rc) ==
  [kernel |-> IF rc = 0 /\ act # << >> THEN k_sigaction(act[1]) ELSE k,
   old    |-> IF rc = 0 /\ old # << >>
                THEN << [handler |-> k.handler, flags |-> k.flags, mask |-> k.mask] >>
                ELSE old]

\* The kernel's entry and *old after a call that finds entry k in the kernel,
\* which answers rc.
sigaction(k, act, old, rc) ==
  [kernel |-> IF rc = 0 /\ act # << >> THEN k_sigaction(act[1]) ELSE k,
   old    |-> IF rc = 0 /\ old # << >>
                THEN << [handler |-> k.handler, flags |-> k.flags \ {"SA_RESTORER"}, mask |-> k.mask] >>
                ELSE old]

=============================================================================
