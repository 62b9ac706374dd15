------------------------------ MODULE FdTable -------------------------------
(***************************************************************************)
(* Devices, file systems and file descriptors of the HAL (lms_ctr_bsp,     *)
(* HAL/src): start-up as alt_main does it, then the calls of a program.    *)
(* The program is single threaded (ALT_SINGLE_THREADED): a call is a step. *)
(* Drivers are external: what they answer (rc) is chosen freely.           *)
(***************************************************************************)
EXTENDS Integers, Sequences

CONSTANTS
    ALT_MAX_FD,         \* size of the pool
    DRIVERS,            \* devices alt_sys_init registers, in its order
    FILE_SYSTEMS,       \* file systems, in the order they are registered
    STDIO,              \* choices of the stdio device, by name
    FILES,              \* names a program opens
    FLAGS               \* sets of flags it opens files and calls fcntl() with

ASSUME FdAssumption == ALT_MAX_FD \in Nat /\ ALT_MAX_FD > 3

\* A name is a sequence of path components, a device a name and the functions
\* its driver has.
DevNull == [name |-> <<"dev", "null">>, fns |-> {"write"}]
None == [name |-> <<>>, fns |-> {}]

Fds == 0 .. ALT_MAX_FD - 1
StdFds == 0 .. 2
FlagsMask == {"EXCL", "DEV"}                \* ALT_FD_FLAGS_MASK
FcntlMask == {"NONBLOCK"}                     \* ALT_FCNTL_FLAGS_MASK, for O_APPEND too
AccMode == {"WRONLY", "RDWR"}               \* neither: read only
AllFlags == FlagsMask \cup FcntlMask \cup AccMode

VARIABLES
    stage,          \* of alt_main: "sys_init", "redirect", "main"
    redirects,      \* descriptors alt_io_redirect still has to redirect
    stdio,          \* ALT_STDIN, ALT_STDOUT and ALT_STDERR
    alt_dev_list, alt_fs_list, alt_fd_list, alt_max_fd,
    held,           \* history: descriptors the program has opened and not closed
    answer          \* of the last call: "ok", "driver" (what its function says) or an error

lists == <<alt_dev_list, alt_fs_list>>
fdVars == <<stage, redirects, stdio, lists, alt_fd_list, alt_max_fd, held, answer>>

Unused == [dev |-> None, flags |-> {}]

FdInit ==
    /\ stage = "sys_init" /\ redirects = <<1, 0, 2>> /\ stdio \in STDIO
    /\ alt_dev_list = <<DevNull>> /\ alt_fs_list = <<>>
    /\ alt_fd_list = [i \in Fds |-> IF i \in StdFds THEN [dev |-> DevNull, flags |-> {}] ELSE Unused]
    /\ alt_max_fd = -1 /\ held = {} /\ answer = "ok"

-----------------------------------------------------------------------------
(* Lists: a new entry is the first.                                        *)

\* entries without a name are refused
Registered(entries, list) ==
    LET Named(d) == d.name # <<>>
        named == SelectSeq(entries, Named)
        n == Len(named)
    IN  [i \in 1 .. n |-> named[n + 1 - i]] \o list

First(list, at) ==
    IF at = {} THEN None ELSE list[CHOOSE i \in at : \A j \in at : i <= j]

FindDev(file) ==
    First(alt_dev_list, {i \in DOMAIN alt_dev_list : alt_dev_list[i].name = file})

\* the file system's name, up to a '/' or the end
Under(name, file) == Len(name) <= Len(file) /\ SubSeq(file, 1, Len(name)) = name

FindFile(file) ==
    First(alt_fs_list, {i \in DOMAIN alt_fs_list : Under(alt_fs_list[i].name, file)})

-----------------------------------------------------------------------------
(* Descriptors.                                                            *)

FreeFds == {i \in Fds : alt_fd_list[i].dev = None}
GetFd == CHOOSE i \in FreeFds : \A j \in FreeFds : i <= j

HighWater(i) == IF i > alt_max_fd THEN i ELSE alt_max_fd

\* Fault: the search stops before the last descriptor.
Locked_Short(dev, max) == \E i \in Fds : i < max /\ alt_fd_list[i].dev = dev /\ "EXCL" \in alt_fd_list[i].flags

\* a descriptor of the device is open for exclusive access
Locked(dev, max) ==
    \E i \in Fds : i <= max /\ alt_fd_list[i].dev = dev /\ "EXCL" \in alt_fd_list[i].flags

\* Fault: a descriptor stays taken when open() fails.
Released_Not(list, fd) == list

\* the standard descriptors stay reserved
Released(list, fd) == IF fd > 2 THEN [list EXCEPT ![fd] = Unused] ELSE list

\* open(): a registered device, else the file system the name is in.  The pool,
\* the answer, and the descriptor: the bits of ALT_FD_FLAGS_MASK are not the
\* caller's, and a device has DEV set before it is looked whether it is locked.
Opening(file, flags, rc) ==
    LET dev == FindDev(file)
        found == IF dev # None THEN dev ELSE FindFile(file)
        fd == GetFd
        Failed(why) == [list |-> alt_fd_list, max |-> alt_max_fd, fd |-> -1, answer |-> why]
        own == (flags \ FlagsMask) \cup (IF dev # None THEN {"DEV"} ELSE {})
        got == [list |-> [alt_fd_list EXCEPT ![fd] = [dev |-> found, flags |-> own]],
                max |-> HighWater(fd), fd |-> fd, answer |-> "ok"]
        Refused(why) == [got EXCEPT !.list = Released(@, fd), !.fd = -1, !.answer = why]
    IN  IF found = None THEN Failed("ENODEV")
        ELSE IF FreeFds = {} THEN Failed("EMFILE")
        ELSE IF dev # None /\ Locked(dev, HighWater(fd)) THEN Refused("EACCES")
        ELSE IF "open" \in found.fns /\ rc < 0 THEN Refused("driver")
        ELSE got

-----------------------------------------------------------------------------
(* Start-up.                                                               *)

\* Redirection is compiled in when a device other than /dev/null is chosen.
SysInit ==
    /\ stage = "sys_init"
    /\ alt_dev_list' = Registered(DRIVERS, alt_dev_list)
    /\ alt_fs_list' = Registered(FILE_SYSTEMS, alt_fs_list)
    /\ stage' = IF stdio = DevNull.name THEN "main" ELSE "redirect"
    /\ UNCHANGED <<redirects, stdio, alt_fd_list, alt_max_fd, held, answer>>

\* alt_open_fd: a descriptor is opened, copied and released, not closed.
\* Standard output is redirected first, then input, then error.
Redirect(rc) ==
    /\ stage = "redirect"
    /\ redirects' = Tail(redirects)
    /\ stage' = IF redirects' = <<>> THEN "main" ELSE stage
    /\ LET fd == Head(redirects)
           old == Opening(stdio, IF fd = 0 THEN {} ELSE {"WRONLY"}, rc)
       IN  /\ alt_fd_list' =
                IF old.fd < 0 THEN old.list
                ELSE Released([old.list EXCEPT ![fd] = old.list[old.fd]], old.fd)
           /\ alt_max_fd' = old.max
    /\ UNCHANGED <<stdio, lists, held, answer>>

-----------------------------------------------------------------------------
(* Calls of the program, with the standard descriptors and those it has.   *)

Usable == StdFds \cup held

Open(file, flags, rc) ==
    /\ stage = "main"
    /\ LET new == Opening(file, flags, rc)
       IN  /\ alt_fd_list' = new.list /\ alt_max_fd' = new.max /\ answer' = new.answer
           /\ held' = IF new.fd < 0 THEN held ELSE held \cup {new.fd}
    /\ UNCHANGED <<stage, redirects, stdio, lists>>

\* the descriptor is released whatever the driver's close() says
Close(fd) ==
    /\ stage = "main" /\ fd \in Usable
    /\ alt_fd_list' = Released(alt_fd_list, fd) /\ held' = held \ {fd}
    /\ answer' = IF "close" \in alt_fd_list[fd].dev.fns THEN "driver" ELSE "ok"
    /\ UNCHANGED <<stage, redirects, stdio, lists, alt_max_fd>>

\* No other descriptor of the device is found below the highest.
LockGranted(fd) ==
    \A i \in Fds : i < alt_max_fd /\ i # fd => alt_fd_list[i].dev # alt_fd_list[fd].dev

SetFlags(fd, flags) == alt_fd_list' = [alt_fd_list EXCEPT ![fd].flags = flags]

\* ioctl(): the lock of a device, else the driver's.
Ioctl(fd, req) ==
    /\ stage = "main" /\ fd \in Usable
    /\ LET d == alt_fd_list[fd]
       IN  IF "DEV" \in d.flags /\ req = "TIOCEXCL"
           THEN IF LockGranted(fd) THEN SetFlags(fd, d.flags \cup {"EXCL"}) /\ answer' = "ok"
                ELSE answer' = "EACCES" /\ UNCHANGED alt_fd_list
           ELSE IF "DEV" \in d.flags /\ req = "TIOCNXCL"
           THEN SetFlags(fd, d.flags \ {"EXCL"}) /\ answer' = "ok"
           ELSE /\ answer' = IF "ioctl" \in d.dev.fns THEN "driver" ELSE "ENOTTY"
                /\ UNCHANGED alt_fd_list
    /\ UNCHANGED <<stage, redirects, stdio, lists, alt_max_fd, held>>

SettableFlags == FcntlMask

\* F_SETFL; F_GETFL changes nothing
Fcntl(fd, flags) ==
    /\ stage = "main" /\ fd \in Usable
    /\ SetFlags(fd, (alt_fd_list[fd].flags \ SettableFlags) \cup (flags \cap SettableFlags))
    /\ answer' = "ok"
    /\ UNCHANGED <<stage, redirects, stdio, lists, alt_max_fd, held>>

\* The calls that leave the table alone: only the answer differs.
Answers(fd, fn, allowed, otherwise) ==
    /\ stage = "main" /\ fd \in Usable
    /\ answer' = IF allowed /\ fn \in alt_fd_list[fd].dev.fns THEN "driver" ELSE otherwise
    /\ UNCHANGED <<stage, redirects, stdio, lists, alt_fd_list, alt_max_fd, held>>

Read(fd) == Answers(fd, "read", "WRONLY" \notin alt_fd_list[fd].flags, "EACCES")

Write(fd) == Answers(fd, "write", alt_fd_list[fd].flags \cap AccMode # {}, "EACCES")

Lseek(fd) == Answers(fd, "lseek", TRUE, "ENOTSUP")

\* without a function of its own a device is a character device, and a terminal
Fstat(fd) == Answers(fd, "fstat", TRUE, "ok")
Isatty(fd) == Answers(fd, "fstat", TRUE, "ok")

FdNext ==
    \/ SysInit
    \/ \E rc \in {-1, 0} :
          \/ Redirect(rc)
          \/ \E file \in FILES, flags \in FLAGS : Open(file, flags, rc)
    \/ \E fd \in Fds :
          \/ Close(fd)
          \/ \E req \in {"TIOCEXCL", "TIOCNXCL", "other"} : Ioctl(fd, req)
          \/ \E flags \in FLAGS : Fcntl(fd, flags)
          \/ Read(fd) \/ Write(fd) \/ Lseek(fd) \/ Fstat(fd) \/ Isatty(fd)

FdSpec == FdInit /\ [][FdNext]_fdVars

-----------------------------------------------------------------------------

Exclusive(fd) == "EXCL" \in alt_fd_list[fd].flags
SameDev(i, j) == alt_fd_list[i].dev = alt_fd_list[j].dev

\* At most one descriptor of a device is open for exclusive access (alt_fd_lock.c
\* lines 54-75), although alt_fd_lock does not look at the highest descriptor:
\* that one cannot have the lock while another of the device is open.
OneHolder == \A i, j \in Fds : Exclusive(i) /\ Exclusive(j) /\ SameDev(i, j) => i = j

\* Beyond the standard descriptors the pool holds what the program has opened,
\* and nothing an open() that failed, or the start-up, has left behind
\* (alt_open.c lines 158-163, alt_io_redirect.c lines 58-72).
NoFdLost == \A i \in Fds : alt_fd_list[i].dev # None <=> i \in Usable
=============================================================================
