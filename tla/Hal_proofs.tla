---------------------------- MODULE Hal_proofs -----------------------------
(***************************************************************************)
(* Proofs about five parts of the hardware abstraction layer.  FdTable, for*)
(* pools of any size, any devices, file systems and flags, and any         *)
(* sequence of calls: exclusive access is exclusive although alt_fd_lock   *)
(* does not look at the highest descriptor, and no descriptor is lost.     *)
(* Irq, for any number of interrupts and handlers, whatever the devices    *)
(* raise and wherever the program registers handlers: a handler is called  *)
(* whole, or not at all.                                                   *)
(* SpiMaster, for calls of any length: a call is one exchange of bytes with*)
(* one chip.                                                               *)
(* Alarms, for a counter of any width and any alarms: an alarm expires at  *)
(* the tick it is due.                                                     *)
(* Uart, for any number of characters and calls: none is lost on the way   *)
(* out, and both ways keep their order.                                    *)
(***************************************************************************)
EXTENDS FdTable, Irq, SpiMaster, Alarms, Uart, WellFoundedInduction, TLAPS

\* A set of naturals that is not empty has a least element: a search from 0 up
\* (alt_get_fd.c lines 76-91, alt_irq_handler.c lines 128-157) finds one.
LEMMA LeastNatural ==
    ASSUME NEW S \in SUBSET Nat, S # {}
    PROVE  \E x \in S : \A y \in S : x <= y
<1>1. PICK x \in S : \A y \in S : ~(<<y, x>> \in OpToRel(<, Nat))
  BY NatLessThanWellFounded, WFMin
<1>2. \A y \in S : ~(y < x)
  BY <1>1, Zenon DEF OpToRel
<1>. QED  BY <1>2

-----------------------------------------------------------------------------
(* File descriptors.                                                       *)

Flags(i) == alt_fd_list[i].flags

\* Descriptors are pairs of a device and flags.
Shape ==
    /\ alt_fd_list = [i \in Fds |-> [dev |-> alt_fd_list[i].dev, flags |-> alt_fd_list[i].flags]]
    /\ alt_max_fd \in Int
    /\ held \subseteq Fds

\* Until the program starts it has no descriptors and no locks.
StartUp ==
    /\ stage \in {"sys_init", "redirect", "main"}
    /\ redirects \in Seq(StdFds)
    /\ stage = "sys_init" => redirects = <<1, 0, 2>>
    /\ stage = "redirect" => redirects # <<>>
    /\ stage # "main" => held = {} /\ \A i \in Fds : "EXCL" \notin Flags(i)

\* alt_max_fd is the highest descriptor that has been opened; the standard ones
\* are there without that, but then they are not those of an opened device.
Numbered ==
    \A i \in Fds :
        /\ alt_fd_list[i].dev # None => i \in StdFds \/ i <= alt_max_fd
        /\ "DEV" \in Flags(i) => alt_fd_list[i].dev # None /\ 3 <= alt_max_fd
        /\ "EXCL" \in Flags(i) => "DEV" \in Flags(i)

\* A descriptor with the lock whose device has another descriptor is below the
\* highest: alt_fd_lock will find it.  When the lock was granted the other could
\* only be the highest one, and none has been opened since.
Alone ==
    \A a, i \in Fds :
        Exclusive(a) /\ "DEV" \in Flags(i) /\ SameDev(a, i) /\ i # a => a < alt_max_fd

FdInv == Shape /\ StartUp /\ Numbered /\ Alone /\ OneHolder /\ NoFdLost

-----------------------------------------------------------------------------
(* Operators.                                                              *)

\* alt_get_fd takes a free descriptor when there is one.
LEMMA GetFdIsFree ==
    ASSUME FreeFds # {}
    PROVE  GetFd \in FreeFds
<1>1. FreeFds \in SUBSET Nat
  BY FdAssumption DEF FreeFds, Fds
<1>2. \E i \in FreeFds : \A j \in FreeFds : i <= j
  BY <1>1, LeastNatural
<1>. QED  BY <1>2 DEF GetFd

\* open() leaves the pool alone, or gives the descriptor back that it took, or
\* has one, without the lock and, for a device, only when none has the lock.
Untouched(new) ==
    new.fd < 0 /\ new.list = alt_fd_list /\ new.max = alt_max_fd

GivenBack(new, fd) ==
    new.fd < 0 /\ new.list = [alt_fd_list EXCEPT ![fd] = Unused] /\ new.max = HighWater(fd)

Taken(new, fd, d, own) ==
    /\ new.fd = fd /\ new.max = HighWater(fd)
    /\ new.list = [alt_fd_list EXCEPT ![fd] = [dev |-> d, flags |-> own]]
    /\ d # None /\ "EXCL" \notin own
    /\ "DEV" \in own => ~Locked(d, HighWater(fd))

LEMMA OpeningCases ==
    ASSUME Shape, NoFdLost, NEW file, NEW wanted, NEW rc
    PROVE  LET new == Opening(file, wanted, rc)
           IN  \/ Untouched(new)
               \/ \E fd \in FreeFds : GivenBack(new, fd)
               \/ \E fd \in FreeFds : \E d, own : Taken(new, fd, d, own)
<1>. DEFINE new == Opening(file, wanted, rc)
            dev == FindDev(file)
            found == IF dev # None THEN dev ELSE FindFile(file)
            fd == GetFd
            own == (wanted \ FlagsMask) \cup (IF dev # None THEN {"DEV"} ELSE {})
            taken == [alt_fd_list EXCEPT ![fd] = [dev |-> found, flags |-> own]]
            Failed(why) == [list |-> alt_fd_list, max |-> alt_max_fd, fd |-> -1, answer |-> why]
            success == [list |-> taken, max |-> HighWater(fd), fd |-> fd, answer |-> "ok"]
            Refused(why) == [success EXCEPT !.list = Released(taken, fd), !.fd = -1, !.answer = why]
<1>1. CASE found = None \/ FreeFds = {}
  <2>1. new = Failed("ENODEV") \/ new = Failed("EMFILE")
    BY <1>1 DEF Opening
  <2>. QED  BY <2>1 DEF Untouched
<1>2. CASE found # None /\ FreeFds # {}
  <2>1. fd \in FreeFds
    BY <1>2, GetFdIsFree
  <2>2. fd \in Fds /\ fd > 2
    BY <2>1, FdAssumption DEF FreeFds, Fds, StdFds, Usable, NoFdLost
  <2>3. "EXCL" \notin own /\ ("DEV" \in own => dev # None)
    BY DEF FlagsMask
  <2>4. CASE dev # None /\ Locked(dev, HighWater(fd))
    <3>1. new = Refused("EACCES")
      BY <1>2, <2>4 DEF Opening
    <3>2. new.fd = -1 /\ new.max = HighWater(fd) /\ new.list = Released(taken, fd)
      BY <3>1
    <3>3. Released(taken, fd) = [alt_fd_list EXCEPT ![fd] = Unused]
      BY <2>2 DEF Released, Shape
    <3>. QED  BY <2>1, <3>2, <3>3 DEF GivenBack
  <2>5. CASE ~(dev # None /\ Locked(dev, HighWater(fd))) /\ "open" \in found.fns /\ rc < 0
    <3>1. new = Refused("driver")
      BY <1>2, <2>5 DEF Opening
    <3>2. new.fd = -1 /\ new.max = HighWater(fd) /\ new.list = Released(taken, fd)
      BY <3>1
    <3>3. Released(taken, fd) = [alt_fd_list EXCEPT ![fd] = Unused]
      BY <2>2 DEF Released, Shape
    <3>. QED  BY <2>1, <3>2, <3>3 DEF GivenBack
  <2>6. CASE ~(dev # None /\ Locked(dev, HighWater(fd))) /\ ~("open" \in found.fns /\ rc < 0)
    <3>1. new = success
      BY <1>2, <2>6 DEF Opening
    <3>2. "DEV" \in own => ~Locked(found, HighWater(fd))
      BY <2>3, <2>6
    <3>3. new.fd = fd /\ new.max = HighWater(fd) /\ new.list = taken
      BY <3>1
    <3>4. Taken(new, fd, found, own)
      BY <1>2, <2>3, <3>2, <3>3 DEF Taken
    <3>. QED  BY <2>1, <3>4
  <2>. QED  BY <2>4, <2>5, <2>6
<1>. QED  BY <1>1, <1>2

LEMMA HighWaterGrows ==
    ASSUME NEW fd \in Fds, alt_max_fd \in Int
    PROVE  HighWater(fd) \in Int /\ HighWater(fd) >= alt_max_fd /\ HighWater(fd) >= fd
BY FdAssumption DEF HighWater, Fds

\* A descriptor of a device is at or below the highest.
LEMMA BelowHighest ==
    ASSUME Shape, Numbered, NEW i \in Fds, "DEV" \in Flags(i)
    PROVE  i <= alt_max_fd
BY FdAssumption DEF Shape, Numbered, Fds, StdFds

-----------------------------------------------------------------------------
(* Changes of the pool.                                                    *)

\* No change of the pool, and none of what it depends on.
LEMMA PoolKept ==
    ASSUME Shape, Numbered, Alone, OneHolder, UNCHANGED alt_fd_list, alt_max_fd' \in Int,
           alt_max_fd' >= alt_max_fd, held' \subseteq Fds
    PROVE  Shape' /\ Numbered' /\ Alone' /\ OneHolder'
<1>1. Shape'
  BY DEF Shape
<1>2. Numbered'
  BY FdAssumption DEF Numbered, Shape, Flags, Fds
<1>3. Alone'
  BY FdAssumption DEF Alone, Shape, Exclusive, SameDev, Flags, Fds
<1>4. OneHolder'
  BY DEF OneHolder, Exclusive, SameDev
<1>. QED  BY <1>1, <1>2, <1>3, <1>4

\* A descriptor becomes free.
LEMMA PoolFreed ==
    ASSUME Shape, Numbered, Alone, OneHolder, NEW fd \in Fds,
           alt_fd_list' = [alt_fd_list EXCEPT ![fd] = Unused], alt_max_fd' \in Int,
           alt_max_fd' >= alt_max_fd, held' \subseteq Fds
    PROVE  Shape' /\ Numbered' /\ Alone' /\ OneHolder'
<1>1. \A i \in Fds : alt_fd_list'[i] = IF i = fd THEN Unused ELSE alt_fd_list[i]
  BY DEF Shape
<1>2. Unused.dev = None /\ Unused.flags = {}
  BY DEF Unused
<1>3. Shape'
  BY <1>1, <1>2 DEF Shape, Unused
<1>4. Numbered'
  BY <1>1, <1>2, FdAssumption DEF Numbered, Shape, Flags, Fds
<1>5. Alone'
  BY <1>1, <1>2, FdAssumption DEF Alone, Shape, Exclusive, SameDev, Flags, Fds
<1>6. OneHolder'
  BY <1>1, <1>2 DEF OneHolder, Exclusive, SameDev
<1>. QED  BY <1>3, <1>4, <1>5, <1>6

\* A free descriptor is taken for a device that nobody has locked, or for a file.
LEMMA PoolTaken ==
    ASSUME Shape, Numbered, Alone, OneHolder, NEW fd \in Fds, fd > 2, NEW d, NEW own,
           alt_fd_list' = [alt_fd_list EXCEPT ![fd] = [dev |-> d, flags |-> own]],
           d # None, "EXCL" \notin own, "DEV" \in own => ~Locked(d, HighWater(fd)),
           alt_max_fd' = HighWater(fd), held' \subseteq Fds
    PROVE  Shape' /\ Numbered' /\ Alone' /\ OneHolder'
<1>1. /\ alt_fd_list'[fd].dev = d /\ alt_fd_list'[fd].flags = own
      /\ \A i \in Fds : i # fd => alt_fd_list'[i] = alt_fd_list[i]
  BY DEF Shape
<1>2. alt_max_fd' \in Int /\ alt_max_fd' >= alt_max_fd /\ alt_max_fd' >= fd
  BY HighWaterGrows DEF Shape
<1>3. Shape'
  BY <1>2 DEF Shape
<1>4. Numbered'
  <2>. SUFFICES ASSUME NEW i \in Fds
                PROVE  /\ alt_fd_list'[i].dev # None => i \in StdFds \/ i <= alt_max_fd'
                       /\ "DEV" \in alt_fd_list'[i].flags
                            => alt_fd_list'[i].dev # None /\ 3 <= alt_max_fd'
                       /\ "EXCL" \in alt_fd_list'[i].flags => "DEV" \in alt_fd_list'[i].flags
    BY DEF Numbered, Flags
  <2>1. CASE i = fd
    BY <1>1, <1>2, <2>1, FdAssumption DEF Fds
  <2>2. CASE i # fd
    BY <1>1, <1>2, <2>2, FdAssumption DEF Numbered, Shape, Flags, Fds
  <2>. QED  BY <2>1, <2>2
<1>5. Alone'
  <2>. SUFFICES ASSUME NEW a \in Fds, NEW i \in Fds, i # a,
                       "EXCL" \in alt_fd_list'[a].flags, "DEV" \in alt_fd_list'[i].flags,
                       alt_fd_list'[a].dev = alt_fd_list'[i].dev
                PROVE  a < alt_max_fd'
    BY DEF Alone, Exclusive, SameDev, Flags
  <2>1. a # fd /\ alt_fd_list'[a] = alt_fd_list[a]
    BY <1>1
  <2>2. a <= alt_max_fd
    BY <2>1, BelowHighest DEF Numbered, Flags
  <2>3. CASE i = fd
    <3>1. a <= HighWater(fd)
      BY <1>2, <2>2, FdAssumption DEF Shape, Fds
    <3>2. Locked(d, HighWater(fd))
      BY <1>1, <2>1, <2>3, <3>1 DEF Locked
    <3>. QED  BY <1>1, <2>3, <3>2
  <2>4. CASE i # fd
    <3>1. a < alt_max_fd
      BY <1>1, <2>1, <2>4 DEF Alone, Exclusive, SameDev, Flags
    <3>. QED  BY <1>2, <3>1, FdAssumption DEF Shape, Fds
  <2>. QED  BY <2>3, <2>4
<1>6. OneHolder'
  BY <1>1 DEF OneHolder, Exclusive, SameDev
<1>. QED  BY <1>3, <1>4, <1>5, <1>6

\* Flags are set without giving a lock, or with the lock that alt_fd_lock grants.
LEMMA PoolFlagged ==
    ASSUME Shape, Numbered, Alone, OneHolder, NEW fd \in Fds, NEW wanted, SetFlags(fd, wanted),
           "DEV" \in wanted <=> "DEV" \in Flags(fd),
           "EXCL" \in wanted => "EXCL" \in Flags(fd) \/ ("DEV" \in Flags(fd) /\ LockGranted(fd)),
           alt_max_fd' = alt_max_fd, held' \subseteq Fds
    PROVE  Shape' /\ Numbered' /\ Alone' /\ OneHolder'
<1>1. /\ alt_fd_list'[fd].dev = alt_fd_list[fd].dev /\ alt_fd_list'[fd].flags = wanted
      /\ \A i \in Fds : i # fd => alt_fd_list'[i] = alt_fd_list[i]
  BY DEF Shape, SetFlags
<1>2. Shape'
  BY DEF Shape, SetFlags
<1>3. Numbered'
  BY <1>1 DEF Numbered, Flags
<1>4. Alone'
  <2>. SUFFICES ASSUME NEW a \in Fds, NEW i \in Fds, i # a,
                       "EXCL" \in alt_fd_list'[a].flags, "DEV" \in alt_fd_list'[i].flags,
                       alt_fd_list'[a].dev = alt_fd_list'[i].dev
                PROVE  a < alt_max_fd
    BY DEF Alone, Exclusive, SameDev, Flags
  <2>1. "DEV" \in Flags(i) /\ SameDev(a, i)
    BY <1>1 DEF Flags, SameDev
  <2>2. CASE "EXCL" \in Flags(a)
    BY <2>1, <2>2 DEF Alone, Exclusive, Flags
  <2>3. CASE "EXCL" \notin Flags(a)
    <3>1. a = fd /\ "DEV" \in Flags(a) /\ LockGranted(a)
      BY <1>1, <2>3 DEF Flags
    <3>2. ~(i < alt_max_fd)
      BY <2>1, <3>1 DEF LockGranted, SameDev
    <3>3. i <= alt_max_fd /\ a <= alt_max_fd
      BY <2>1, <3>1, BelowHighest
    <3>. QED  BY <3>2, <3>3, FdAssumption DEF Shape, Fds
  <2>. QED  BY <2>2, <2>3
<1>5. OneHolder'
  <2>. SUFFICES ASSUME NEW i \in Fds, NEW j \in Fds, i # j, Exclusive(i)', Exclusive(j)', SameDev(i, j)'
                PROVE  FALSE
    BY DEF OneHolder
  <2>1. SameDev(i, j) /\ SameDev(j, i)
    BY <1>1 DEF SameDev
  <2>2. ASSUME NEW a \in Fds, NEW b \in Fds, a # b, Exclusive(a), b = fd, SameDev(a, b),
               "DEV" \in Flags(fd), LockGranted(fd)
        PROVE  FALSE
    BY <2>2 DEF Alone, LockGranted, SameDev
  <2>3. ASSUME NEW a \in Fds, a # fd, Exclusive(a)'
        PROVE  Exclusive(a)
    BY <1>1, <2>3 DEF Exclusive
  <2>4. CASE Exclusive(i) /\ Exclusive(j)
    BY <2>1, <2>4 DEF OneHolder
  <2>5. CASE ~Exclusive(i) \/ ~Exclusive(j)
    <3>1. ~Exclusive(fd) /\ Exclusive(fd)' /\ (i = fd \/ j = fd)
      BY <2>3, <2>5
    <3>2. "DEV" \in Flags(fd) /\ LockGranted(fd)
      BY <1>1, <3>1 DEF Exclusive, Flags
    <3>. QED  BY <2>1, <2>2, <2>3, <3>1, <3>2
  <2>. QED  BY <2>4, <2>5
<1>. QED  BY <1>2, <1>3, <1>4, <1>5

-----------------------------------------------------------------------------
(* The invariant.                                                          *)

LEMMA FdInvInit == FdInit => FdInv
<1>. SUFFICES ASSUME FdInit PROVE FdInv
  OBVIOUS
<1>1. \A i \in Fds : /\ alt_fd_list[i].flags = {}
                     /\ alt_fd_list[i].dev = IF i \in StdFds THEN DevNull ELSE None
  BY DEF FdInit, Unused
<1>2. DevNull # None
  <2>1. DevNull.name = <<"dev", "null">> /\ None.name = <<>>
    BY DEF DevNull, None
  <2>2. <<"dev", "null">> # <<>>
    OBVIOUS
  <2>. QED  BY <2>1, <2>2
<1>3. Shape
  <2>1. /\ alt_fd_list = [i \in Fds |-> alt_fd_list[i]] /\ alt_max_fd \in Int /\ held \subseteq Fds
    BY DEF FdInit
  <2>2. ASSUME NEW i \in Fds
        PROVE  alt_fd_list[i] = [dev |-> alt_fd_list[i].dev, flags |-> alt_fd_list[i].flags]
    <3>1. alt_fd_list[i] = [dev |-> DevNull, flags |-> {}] \/ alt_fd_list[i] = [dev |-> None, flags |-> {}]
      BY DEF FdInit, Unused
    <3>. QED  BY <3>1
  <2>. QED  BY <2>1, <2>2 DEF Shape
<1>4. StartUp
  BY <1>1 DEF FdInit, StartUp, StdFds, Flags
<1>5. Numbered /\ Alone /\ OneHolder
  BY <1>1 DEF Numbered, Alone, OneHolder, Exclusive, Flags
<1>6. NoFdLost
  BY <1>1, <1>2 DEF NoFdLost, Usable, FdInit
<1>. QED  BY <1>3, <1>4, <1>5, <1>6 DEF FdInv

\* alt_sys_init registers devices and file systems; the pool is as it was.
LEMMA SysInitStep ==
    ASSUME FdInv, SysInit
    PROVE  FdInv'
<1>. USE DEF FdInv
<1>1. UNCHANGED <<redirects, alt_fd_list, alt_max_fd, held>> /\ stage' \in {"main", "redirect"}
  BY DEF SysInit
<1>2. held \subseteq Fds /\ alt_max_fd \in Int
  BY DEF Shape
<1>3. alt_max_fd' \in Int /\ alt_max_fd' >= alt_max_fd
  BY <1>1, <1>2
<1>4. Shape' /\ Numbered' /\ Alone' /\ OneHolder'
  BY <1>1, <1>2, <1>3, PoolKept
<1>5. StartUp'
  <2>1. redirects = <<1, 0, 2>> /\ redirects # <<>>
    BY DEF SysInit, StartUp
  <2>. QED  BY <1>1, <2>1 DEF SysInit, StartUp, Flags
<1>6. NoFdLost'
  BY <1>1 DEF NoFdLost, Usable
<1>. QED  BY <1>4, <1>5, <1>6

\* Redirection: the program has nothing yet, so that nothing is locked.
LEMMA RedirectStep ==
    ASSUME FdInv, NEW rc \in {-1, 0}, Redirect(rc)
    PROVE  FdInv'
<1>. USE DEF FdInv
<1>1. PICK fd : fd = Head(redirects)
  OBVIOUS
<1>2. PICK wanted : wanted = IF fd = 0 THEN {} ELSE {"WRONLY"}
  OBVIOUS
<1>3. PICK old : old = Opening(stdio, wanted, rc)
  OBVIOUS
<1>4. /\ stage = "redirect" /\ redirects' = Tail(redirects)
      /\ stage' = IF redirects' = <<>> THEN "main" ELSE stage
      /\ alt_fd_list' = IF old.fd < 0 THEN old.list
                        ELSE Released([old.list EXCEPT ![fd] = old.list[old.fd]], old.fd)
      /\ alt_max_fd' = old.max /\ held' = held
  BY <1>1, <1>2, <1>3 DEF Redirect
<1>5. fd \in StdFds /\ fd \in Fds /\ redirects' \in Seq(StdFds)
  BY <1>1, <1>4, FdAssumption DEF StartUp, StdFds, Fds
<1>6. held = {} /\ held' \subseteq Fds /\ \A i \in Fds : "EXCL" \notin alt_fd_list[i].flags
  BY <1>4 DEF StartUp, Flags
<1>7. stage' \in {"redirect", "main"} /\ (stage' = "redirect" => redirects' # <<>>)
  BY <1>4
<1>8. SUFFICES /\ Shape' /\ Numbered' /\ NoFdLost'
               /\ \A i \in Fds : "EXCL" \notin alt_fd_list'[i].flags
  BY <1>4, <1>5, <1>6, <1>7 DEF StartUp, Alone, OneHolder, Exclusive, Flags
<1>9. CASE Untouched(old)
  <2>1. UNCHANGED <<alt_fd_list, alt_max_fd, held>>
    BY <1>4, <1>9 DEF Untouched
  <2>2. alt_max_fd \in Int /\ alt_max_fd' >= alt_max_fd
    BY <2>1 DEF Shape
  <2>3. Shape' /\ Numbered'
    BY <1>6, <2>1, <2>2, PoolKept
  <2>. QED  BY <1>6, <2>1, <2>3 DEF NoFdLost, Usable
<1>10. ASSUME NEW k \in FreeFds, GivenBack(old, k)
       PROVE  /\ Shape' /\ Numbered' /\ NoFdLost'
              /\ \A i \in Fds : "EXCL" \notin alt_fd_list'[i].flags
  <2>1. k \in Fds /\ alt_fd_list[k].dev = None
    BY DEF FreeFds
  <2>2. alt_fd_list' = [alt_fd_list EXCEPT ![k] = Unused] /\ alt_max_fd' = HighWater(k)
    BY <1>4, <1>10 DEF GivenBack
  <2>3. alt_max_fd' \in Int /\ alt_max_fd' >= alt_max_fd
    BY <2>1, <2>2, HighWaterGrows DEF Shape
  <2>4. Shape' /\ Numbered'
    BY <1>6, <2>1, <2>2, <2>3, PoolFreed
  <2>5. \A i \in Fds : alt_fd_list'[i] = IF i = k THEN Unused ELSE alt_fd_list[i]
    BY <2>2 DEF Shape
  <2>. QED  BY <1>4, <1>6, <2>1, <2>4, <2>5 DEF NoFdLost, Usable, Unused
<1>11. ASSUME NEW k \in FreeFds, NEW d, NEW own, Taken(old, k, d, own)
       PROVE  /\ Shape' /\ Numbered' /\ NoFdLost'
              /\ \A i \in Fds : "EXCL" \notin alt_fd_list'[i].flags
  <2>1. k \in Fds /\ k > 2 /\ k # fd
    BY <1>5, FdAssumption DEF FreeFds, Fds, StdFds, Usable, NoFdLost
  <2>2. old.fd = k /\ old.list = [alt_fd_list EXCEPT ![k] = [dev |-> d, flags |-> own]]
    BY <1>11 DEF Taken
  <2>3. old.list[k] = [dev |-> d, flags |-> own]
    BY <2>1, <2>2 DEF Shape
  <2>4. alt_fd_list' = [[old.list EXCEPT ![fd] = [dev |-> d, flags |-> own]] EXCEPT ![k] = Unused]
    <3>1. ~(old.fd < 0) /\ k > 2
      BY <2>1, <2>2, FdAssumption DEF Fds
    <3>2. alt_fd_list' = Released([old.list EXCEPT ![fd] = old.list[old.fd]], old.fd)
      BY <1>4, <3>1
    <3>3. alt_fd_list' = Released([old.list EXCEPT ![fd] = [dev |-> d, flags |-> own]], k)
      BY <2>2, <2>3, <3>2, Zenon
    <3>. QED  BY <3>1, <3>3 DEF Released
  <2>5. \A i \in Fds : alt_fd_list'[i] = IF i = k THEN Unused
                                         ELSE IF i = fd THEN [dev |-> d, flags |-> own]
                                         ELSE alt_fd_list[i]
    BY <1>5, <2>1, <2>2, <2>4 DEF Shape
  <2>6. d # None /\ "EXCL" \notin own /\ alt_max_fd' = HighWater(k)
    BY <1>4, <1>11 DEF Taken
  <2>7. alt_max_fd' \in Int /\ alt_max_fd' >= alt_max_fd /\ alt_max_fd' >= 3
    BY <2>1, <2>6, HighWaterGrows, FdAssumption DEF Shape, Fds
  <2>8. Shape'
    <3>1. alt_fd_list' = [i \in Fds |-> alt_fd_list'[i]]
      BY <2>2, <2>4 DEF Shape
    <3>2. ASSUME NEW i \in Fds
          PROVE  alt_fd_list'[i] = [dev |-> alt_fd_list'[i].dev, flags |-> alt_fd_list'[i].flags]
      <4>1. CASE i = k
        BY <2>5, <4>1 DEF Unused
      <4>2. CASE i = fd /\ i # k
        BY <2>5, <4>2
      <4>3. CASE i # fd /\ i # k
        <5>1. alt_fd_list'[i] = alt_fd_list[i]
          BY <2>5, <4>3
        <5>2. alt_fd_list[i] = [dev |-> alt_fd_list[i].dev, flags |-> alt_fd_list[i].flags]
          BY DEF Shape
        <5>. QED  BY <5>1, <5>2, Zenon
      <4>. QED  BY <4>1, <4>2, <4>3
    <3>. QED  BY <1>6, <2>7, <3>1, <3>2 DEF Shape
  <2>9. Numbered'
    <3>. SUFFICES ASSUME NEW i \in Fds
                  PROVE  /\ alt_fd_list'[i].dev # None => i \in StdFds \/ i <= alt_max_fd'
                         /\ "DEV" \in alt_fd_list'[i].flags
                              => alt_fd_list'[i].dev # None /\ 3 <= alt_max_fd'
                         /\ "EXCL" \in alt_fd_list'[i].flags => "DEV" \in alt_fd_list'[i].flags
      BY DEF Numbered, Flags
    <3>1. CASE i = k
      BY <2>5, <3>1 DEF Unused
    <3>2. CASE i = fd /\ i # k
      BY <1>5, <2>5, <2>6, <2>7, <3>2
    <3>3. CASE i # fd /\ i # k
      BY <2>5, <2>7, <3>3, FdAssumption DEF Numbered, Shape, Flags, Fds
    <3>. QED  BY <3>1, <3>2, <3>3
  <2>10. NoFdLost'
    <3>1. Unused.dev = None /\ k \notin StdFds
      BY <2>1 DEF Unused, StdFds
    <3>2. \A i \in Fds : alt_fd_list'[i].dev = IF i = k THEN None ELSE IF i = fd THEN d
                                               ELSE alt_fd_list[i].dev
      BY <2>5, <3>1
    <3>3. alt_fd_list[k].dev = None /\ held' = {}
      BY <1>4, <1>6 DEF FreeFds
    <3>. QED  BY <1>5, <1>6, <2>6, <3>1, <3>2, <3>3 DEF NoFdLost, Usable
  <2>. QED  BY <1>6, <2>5, <2>6, <2>8, <2>9, <2>10 DEF Unused
<1>. QED  BY <1>3, <1>9, <1>10, <1>11, OpeningCases

-----------------------------------------------------------------------------
(* The calls of a program.                                                 *)

\* The start-up is over.
LEMMA MainStays ==
    ASSUME StartUp, stage = "main", UNCHANGED <<stage, redirects>>
    PROVE  StartUp'
BY DEF StartUp

\* open(): the descriptor of a call that succeeds is the program's.
LEMMA OpenStep ==
    ASSUME FdInv, NEW file, NEW wanted, NEW rc, Open(file, wanted, rc)
    PROVE  FdInv'
<1>. USE DEF FdInv
<1>1. PICK new : new = Opening(file, wanted, rc)
  OBVIOUS
<1>2. /\ stage = "main" /\ UNCHANGED <<stage, redirects>>
      /\ alt_fd_list' = new.list /\ alt_max_fd' = new.max
      /\ held' = IF new.fd < 0 THEN held ELSE held \cup {new.fd}
  BY <1>1 DEF Open
<1>3. StartUp'
  BY <1>2, MainStays
<1>4. SUFFICES Shape' /\ Numbered' /\ Alone' /\ OneHolder' /\ NoFdLost'
  BY <1>3
<1>5. CASE Untouched(new)
  <2>1. UNCHANGED <<alt_fd_list, alt_max_fd, held>>
    BY <1>2, <1>5 DEF Untouched
  <2>2. alt_max_fd' \in Int /\ alt_max_fd' >= alt_max_fd /\ held' \subseteq Fds
    BY <2>1 DEF Shape
  <2>3. NoFdLost'
    BY <2>1 DEF NoFdLost, Usable
  <2>. QED  BY <2>1, <2>2, <2>3, PoolKept
<1>6. ASSUME NEW k \in FreeFds, GivenBack(new, k)
      PROVE  Shape' /\ Numbered' /\ Alone' /\ OneHolder' /\ NoFdLost'
  <2>1. k \in Fds /\ alt_fd_list[k].dev = None
    BY DEF FreeFds
  <2>2. /\ alt_fd_list' = [alt_fd_list EXCEPT ![k] = Unused]
        /\ alt_max_fd' = HighWater(k) /\ held' = held
    BY <1>2, <1>6 DEF GivenBack
  <2>3. alt_max_fd' \in Int /\ alt_max_fd' >= alt_max_fd /\ held' \subseteq Fds
    BY <2>1, <2>2, HighWaterGrows DEF Shape
  <2>4. \A i \in Fds : alt_fd_list'[i] = IF i = k THEN Unused ELSE alt_fd_list[i]
    BY <2>2 DEF Shape
  <2>5. NoFdLost'
    BY <2>1, <2>2, <2>4 DEF NoFdLost, Usable, Unused
  <2>. QED  BY <2>1, <2>2, <2>3, <2>5, PoolFreed
<1>7. ASSUME NEW k \in FreeFds, NEW d, NEW own, Taken(new, k, d, own)
      PROVE  Shape' /\ Numbered' /\ Alone' /\ OneHolder' /\ NoFdLost'
  <2>1. k \in Fds /\ k > 2
    BY FdAssumption DEF FreeFds, Fds, StdFds, Usable, NoFdLost
  <2>2. /\ alt_fd_list' = [alt_fd_list EXCEPT ![k] = [dev |-> d, flags |-> own]]
        /\ alt_max_fd' = HighWater(k) /\ d # None /\ "EXCL" \notin own
    BY <1>2, <1>7 DEF Taken
  <2>3. held' = held \cup {k}
    BY <1>2, <1>7, <2>1, FdAssumption DEF Taken, Fds
  <2>4. held' \subseteq Fds
    BY <2>1, <2>3 DEF Shape
  <2>5. "DEV" \in own => ~Locked(d, HighWater(k))
    BY <1>7 DEF Taken
  <2>6. Shape' /\ Numbered' /\ Alone' /\ OneHolder'
    BY <2>1, <2>2, <2>4, <2>5, PoolTaken
  <2>7. \A i \in Fds : alt_fd_list'[i].dev = IF i = k THEN d ELSE alt_fd_list[i].dev
    BY <2>2 DEF Shape
  <2>8. NoFdLost'
    BY <2>2, <2>3, <2>7 DEF NoFdLost, Usable
  <2>. QED  BY <2>6, <2>8
<1>. QED  BY <1>1, <1>5, <1>6, <1>7, OpeningCases

\* close(): the standard descriptors stay, the others become free.
LEMMA CloseStep ==
    ASSUME FdInv, NEW fd \in Fds, Close(fd)
    PROVE  FdInv'
<1>. USE DEF FdInv
<1>1. /\ stage = "main" /\ UNCHANGED <<stage, redirects, alt_max_fd>>
      /\ alt_fd_list' = Released(alt_fd_list, fd) /\ held' = held \ {fd}
  BY DEF Close
<1>2. StartUp'
  BY <1>1, MainStays
<1>3. alt_max_fd' \in Int /\ alt_max_fd' >= alt_max_fd /\ held' \subseteq Fds
  BY <1>1 DEF Shape
<1>4. CASE fd > 2
  <2>1. alt_fd_list' = [alt_fd_list EXCEPT ![fd] = Unused]
    BY <1>1, <1>4 DEF Released
  <2>2. \A i \in Fds : alt_fd_list'[i] = IF i = fd THEN Unused ELSE alt_fd_list[i]
    BY <2>1 DEF Shape
  <2>3. fd \notin StdFds
    BY <1>4 DEF StdFds
  <2>4. NoFdLost'
    BY <1>1, <2>2, <2>3 DEF NoFdLost, Usable, Unused
  <2>. QED  BY <1>2, <1>3, <2>1, <2>4, PoolFreed
<1>5. CASE ~(fd > 2)
  <2>1. UNCHANGED alt_fd_list
    BY <1>1, <1>5 DEF Released
  <2>2. fd \in StdFds
    BY <1>5, FdAssumption DEF StdFds, Fds
  <2>3. NoFdLost'
    BY <1>1, <2>1, <2>2 DEF NoFdLost, Usable
  <2>. QED  BY <1>2, <1>3, <2>1, <2>3, PoolKept
<1>. QED  BY <1>4, <1>5

\* What changes only the flags of a descriptor loses none.
LEMMA DevicesKept ==
    ASSUME FdInv, NEW fd \in Fds, NEW wanted, SetFlags(fd, wanted), UNCHANGED held
    PROVE  NoFdLost'
<1>1. \A i \in Fds : alt_fd_list'[i].dev = alt_fd_list[i].dev
  BY DEF FdInv, Shape, SetFlags
<1>. QED  BY <1>1 DEF FdInv, NoFdLost, Usable

\* A call that leaves the pool alone.
LEMMA AnswerStep ==
    ASSUME FdInv, stage = "main", UNCHANGED <<stage, redirects, alt_fd_list, alt_max_fd, held>>
    PROVE  FdInv'
<1>. USE DEF FdInv
<1>1. StartUp'
  BY MainStays
<1>2. alt_max_fd' \in Int /\ alt_max_fd' >= alt_max_fd /\ held' \subseteq Fds
  BY DEF Shape
<1>3. NoFdLost'
  BY DEF NoFdLost, Usable
<1>. QED  BY <1>1, <1>2, <1>3, PoolKept

\* ioctl(): TIOCEXCL gives the lock that alt_fd_lock grants, TIOCNXCL gives it up.
LEMMA IoctlStep ==
    ASSUME FdInv, NEW fd \in Fds, NEW req, Ioctl(fd, req)
    PROVE  FdInv'
<1>. USE DEF FdInv
<1>1. stage = "main" /\ UNCHANGED <<stage, redirects, alt_max_fd, held>>
  BY DEF Ioctl
<1>2. StartUp'
  BY <1>1, MainStays
<1>3. held' \subseteq Fds
  BY <1>1 DEF Shape
<1>4. \/ UNCHANGED alt_fd_list
      \/ "DEV" \in Flags(fd) /\ LockGranted(fd) /\ SetFlags(fd, Flags(fd) \cup {"EXCL"})
      \/ SetFlags(fd, Flags(fd) \ {"EXCL"})
  BY DEF Ioctl, Flags
<1>5. CASE UNCHANGED alt_fd_list
  BY <1>1, <1>5, AnswerStep
<1>6. CASE "DEV" \in Flags(fd) /\ LockGranted(fd) /\ SetFlags(fd, Flags(fd) \cup {"EXCL"})
  <2>1. PICK wanted : wanted = Flags(fd) \cup {"EXCL"}
    OBVIOUS
  <2>2. SetFlags(fd, wanted) /\ ("DEV" \in wanted <=> "DEV" \in Flags(fd))
    BY <1>6, <2>1
  <2>3. Shape' /\ Numbered' /\ Alone' /\ OneHolder'
    BY <1>1, <1>3, <1>6, <2>2, PoolFlagged
  <2>. QED  BY <1>1, <1>2, <2>2, <2>3, DevicesKept
<1>7. CASE SetFlags(fd, Flags(fd) \ {"EXCL"})
  <2>1. PICK wanted : wanted = Flags(fd) \ {"EXCL"}
    OBVIOUS
  <2>2. SetFlags(fd, wanted) /\ ("DEV" \in wanted <=> "DEV" \in Flags(fd)) /\ "EXCL" \notin wanted
    BY <1>7, <2>1
  <2>3. Shape' /\ Numbered' /\ Alone' /\ OneHolder'
    BY <1>1, <1>3, <2>2, PoolFlagged
  <2>. QED  BY <1>1, <1>2, <2>2, <2>3, DevicesKept
<1>. QED  BY <1>4, <1>5, <1>6, <1>7

\* fcntl(): the bits it sets are not those of locks and devices.
LEMMA FcntlStep ==
    ASSUME FdInv, NEW fd \in Fds, NEW new, Fcntl(fd, new)
    PROVE  FdInv'
<1>. USE DEF FdInv
<1>1. stage = "main" /\ UNCHANGED <<stage, redirects, alt_max_fd, held>>
  BY DEF Fcntl
<1>2. StartUp'
  BY <1>1, MainStays
<1>3. held' \subseteq Fds
  BY <1>1 DEF Shape
<1>4. PICK wanted : wanted = (Flags(fd) \ SettableFlags) \cup (new \cap SettableFlags)
  OBVIOUS
<1>5. SetFlags(fd, wanted)
  BY <1>4 DEF Fcntl, Flags
<1>6. \A f \in {"DEV", "EXCL"} : f \in wanted <=> f \in Flags(fd)
  BY <1>4 DEF SettableFlags, FcntlMask
<1>7. Shape' /\ Numbered' /\ Alone' /\ OneHolder'
  BY <1>1, <1>3, <1>5, <1>6, PoolFlagged
<1>. QED  BY <1>1, <1>2, <1>5, <1>7, DevicesKept

-----------------------------------------------------------------------------

\* Every call keeps the invariant.
LEMMA FdInvNext == FdInv /\ [FdNext]_fdVars => FdInv'
<1>. SUFFICES ASSUME FdInv, [FdNext]_fdVars PROVE FdInv'
  OBVIOUS
<1>1. CASE SysInit
  BY <1>1, SysInitStep
<1>2. ASSUME NEW rc \in {-1, 0}, Redirect(rc) PROVE FdInv'
  BY <1>2, RedirectStep
<1>3. ASSUME NEW file, NEW wanted, NEW rc, Open(file, wanted, rc) PROVE FdInv'
  BY <1>3, OpenStep
<1>4. ASSUME NEW fd \in Fds, Close(fd) PROVE FdInv'
  BY <1>4, CloseStep
<1>5. ASSUME NEW fd \in Fds, NEW req, Ioctl(fd, req) PROVE FdInv'
  BY <1>5, IoctlStep
<1>6. ASSUME NEW fd \in Fds, NEW wanted, Fcntl(fd, wanted) PROVE FdInv'
  BY <1>6, FcntlStep
<1>7. ASSUME NEW fd, Read(fd) \/ Write(fd) \/ Lseek(fd) \/ Fstat(fd) \/ Isatty(fd)
      PROVE  FdInv'
  <2>1. stage = "main" /\ UNCHANGED <<stage, redirects, alt_fd_list, alt_max_fd, held>>
    BY <1>7 DEF Read, Write, Lseek, Fstat, Isatty, Answers
  <2>. QED  BY <2>1, AnswerStep
<1>8. CASE UNCHANGED fdVars
  <2>. USE DEF FdInv
  <2>1. UNCHANGED <<stage, redirects, alt_fd_list, alt_max_fd, held>>
    BY <1>8 DEF fdVars
  <2>. QED
    BY <2>1 DEF Shape, StartUp, Numbered, Alone, OneHolder, NoFdLost, Usable,
                Exclusive, SameDev, Flags
<1>. QED  BY <1>1, <1>2, <1>3, <1>4, <1>5, <1>6, <1>7, <1>8 DEF FdNext

\* The invariant of the pool holds in every behaviour: start-up and calls.
THEOREM FdInvariant == FdSpec => []FdInv
BY FdInvInit, FdInvNext, PTL DEF FdSpec

\* At most one descriptor of a device has the lock, whatever is opened, closed,
\* locked and unlocked, although alt_fd_lock leaves the highest descriptor out.
THEOREM ExclusiveIsExclusive == FdSpec => []OneHolder
<1>1. FdInv => OneHolder
  BY DEF FdInv
<1>. QED  BY <1>1, FdInvariant, PTL

\* The pool holds the standard descriptors and those the program has opened and
\* not closed: open() and the redirection at the start give back what they took.
THEOREM NoDescriptorLost == FdSpec => []NoFdLost
<1>1. FdInv => NoFdLost
  BY DEF FdInv
<1>. QED  BY <1>1, FdInvariant, PTL

-----------------------------------------------------------------------------
(* Interrupts.                                                             *)

Places == {"idle", "handler", "context", "mask", "ienable", "leave"}

\* Types, and the entry that alt_iic_isr_register is about exists.
IrqTypeOK ==
    /\ irq_handler \in [Irqs -> HANDLERS \cup {"NULL"}]
    /\ irq_context \in [Irqs -> HANDLERS \cup {"NULL"}]
    /\ alt_irq_active \subseteq Irqs /\ ienable \subseteq Irqs
    /\ irq_at \in Places
    /\ irq_at # "idle" => irq_id \in Irqs /\ irq_isr \in HANDLERS \cup {"NULL"}
    /\ serving \in Irqs \cup {-1}

\* How many calls of alt_irq_disable_all are open, and the contexts they have
\* given, innermost first: interrupts were enabled before the outermost of them,
\* and before no other.
Depth ==
    (IF critical THEN 1 ELSE 0)
    + (IF irq_at = "idle" THEN 0 ELSE IF irq_at = "ienable" THEN 2 ELSE 1)

Stack(d) ==
    IF d = 0 THEN <<>>
    ELSE IF d = 1 THEN <<TRUE>> \o <<>>
    ELSE IF d = 2 THEN <<FALSE>> \o (<<TRUE>> \o <<>>)
    ELSE <<FALSE>> \o (<<FALSE>> \o (<<TRUE>> \o <<>>))

Nested ==
    /\ saved = Stack(Depth)
    /\ Depth = 0 /\ Running => pie = TRUE
    /\ ~(Depth = 0 /\ Running) => pie = FALSE
    /\ ~Running => Depth = 0

\* An entry that is complete
Whole(i) == irq_handler[i] # "NULL" /\ irq_context[i] = irq_handler[i]

\* Entries of enabled interrupts are complete, but for the one that is being
\* changed: from its first word until the mask is right, in memory and then in
\* the register.  The words are written in this order.
Entries ==
    /\ \A i \in alt_irq_active : Whole(i) \/ (irq_at \in {"context", "mask"} /\ i = irq_id)
    /\ \A i \in ienable : Whole(i) \/ (irq_at \in {"context", "mask", "ienable"} /\ i = irq_id)
    /\ irq_at \in {"context", "mask"} => irq_handler[irq_id] = irq_isr
    /\ irq_at = "mask" => irq_context[irq_id] = irq_isr
    /\ ~Running => serving \in ienable

IrqInv == IrqTypeOK /\ Nested /\ Entries

-----------------------------------------------------------------------------

\* The dispatcher serves an interrupt that is pending.
LEMMA ServedIsPending ==
    ASSUME NEW S \in SUBSET Irqs, S # {}
    PROVE  (CHOOSE i \in S : \A j \in S : i <= j) \in S
<1>1. S \in SUBSET Nat
  BY IrqAssumption DEF Irqs
<1>2. \E i \in S : \A j \in S : i <= j
  BY <1>1, LeastNatural
<1>. QED  BY <1>2

\* Putting in front and taking away, for values of any kind.
LEMMA HeadTail ==
    ASSUME NEW S, NEW x \in S, NEW s \in Seq(S)
    PROVE  <<x>> \o s \in Seq(S) /\ Head(<<x>> \o s) = x /\ Tail(<<x>> \o s) = s
OBVIOUS

\* alt_irq_enable_all gives back what alt_irq_disable_all was given last.
LEMMA PopStack ==
    ASSUME NEW d \in 0 .. 2
    PROVE  /\ Tail(Stack(d + 1)) = Stack(d)
           /\ d = 0 => Head(Stack(d + 1)) = TRUE
           /\ d # 0 => Head(Stack(d + 1)) = FALSE
<1>1. TRUE \in BOOLEAN /\ FALSE \in BOOLEAN /\ <<>> \in Seq(BOOLEAN)
  OBVIOUS
<1>2. /\ <<TRUE>> \o <<>> \in Seq(BOOLEAN)
      /\ Head(<<TRUE>> \o <<>>) = TRUE /\ Tail(<<TRUE>> \o <<>>) = <<>>
  BY <1>1, HeadTail, Zenon
<1>3. PICK s1 : s1 = <<TRUE>> \o <<>>
  OBVIOUS
<1>4. /\ <<FALSE>> \o s1 \in Seq(BOOLEAN)
      /\ Head(<<FALSE>> \o s1) = FALSE /\ Tail(<<FALSE>> \o s1) = s1
  BY <1>1, <1>2, <1>3, HeadTail, Zenon
<1>5. PICK s2 : s2 = <<FALSE>> \o s1
  OBVIOUS
<1>6. Head(<<FALSE>> \o s2) = FALSE /\ Tail(<<FALSE>> \o s2) = s2
  BY <1>1, <1>4, <1>5, HeadTail, Zenon
<1>7. CASE d = 0
  <2>1. Stack(d) = <<>> /\ Stack(d + 1) = <<TRUE>> \o <<>>
    BY <1>7 DEF Stack
  <2>. QED  BY <1>2, <1>7, <2>1, Zenon
<1>8. CASE d = 1
  <2>1. Stack(d) = <<TRUE>> \o <<>> /\ Stack(d + 1) = <<FALSE>> \o (<<TRUE>> \o <<>>) /\ d # 0
    BY <1>8 DEF Stack
  <2>. QED  BY <1>3, <1>4, <2>1, Zenon
<1>9. CASE d = 2
  <2>1. /\ Stack(d) = <<FALSE>> \o (<<TRUE>> \o <<>>)
        /\ Stack(d + 1) = <<FALSE>> \o (<<FALSE>> \o (<<TRUE>> \o <<>>)) /\ d # 0
    BY <1>9 DEF Stack
  <2>. QED  BY <1>3, <1>5, <1>6, <2>1, Zenon
<1>10. d = 0 \/ d = 1 \/ d = 2
  OBVIOUS
<1>. QED  BY <1>7, <1>8, <1>9, <1>10, Zenon

\* alt_irq_disable_all.
LEMMA PushStack ==
    ASSUME NEW d \in 0 .. 2, NEW x, d = 0 => x = TRUE, d # 0 => x = FALSE
    PROVE  <<x>> \o Stack(d) = Stack(d + 1)
<1>1. CASE d = 0
  <2>1. Stack(d) = <<>> /\ Stack(d + 1) = <<TRUE>> \o <<>>
    BY <1>1 DEF Stack
  <2>. QED  BY <1>1, <2>1, Zenon
<1>2. CASE d = 1
  <2>1. Stack(d) = <<TRUE>> \o <<>> /\ Stack(d + 1) = <<FALSE>> \o (<<TRUE>> \o <<>>) /\ d # 0
    BY <1>2 DEF Stack
  <2>. QED  BY <2>1, Zenon
<1>3. CASE d = 2
  <2>1. /\ Stack(d) = <<FALSE>> \o (<<TRUE>> \o <<>>)
        /\ Stack(d + 1) = <<FALSE>> \o (<<FALSE>> \o (<<TRUE>> \o <<>>)) /\ d # 0
    BY <1>3 DEF Stack
  <2>. QED  BY <2>1, Zenon
<1>. QED  BY <1>1, <1>2, <1>3

\* No interrupt is enabled before the first handler is registered.
LEMMA IrqInvInit == IrqInit => IrqInv
<1>. SUFFICES ASSUME IrqInit PROVE IrqInv
  OBVIOUS
<1>1. IrqTypeOK
  BY DEF IrqInit, IrqTypeOK, Places
<1>2. Nested
  BY DEF IrqInit, Nested, Depth, Stack, Running
<1>3. Entries
  BY DEF IrqInit, Entries, Running
<1>. QED  BY <1>1, <1>2, <1>3 DEF IrqInv

-----------------------------------------------------------------------------
(* Sections without interrupts.                                            *)

\* A section is entered: alt_irq_disable_all.
LEMMA EnterDepth ==
    ASSUME Nested, Running, Running', Depth \in 0 .. 2, Depth' = Depth + 1, DisableAll
    PROVE  Nested'
<1>1. <<pie>> \o Stack(Depth) = Stack(Depth + 1)
  <2>1. PICK d, x : d = Depth /\ x = pie
    OBVIOUS
  <2>2. d \in 0 .. 2 /\ (d = 0 => x = TRUE) /\ (d # 0 => x = FALSE)
    BY <2>1 DEF Nested
  <2>3. <<x>> \o Stack(d) = Stack(d + 1)
    BY <2>2, PushStack
  <2>. QED  BY <2>1, <2>3, Zenon
<1>2. saved' = Stack(Depth')
  BY <1>1, Zenon DEF Nested, DisableAll
<1>3. Depth' # 0
  OBVIOUS
<1>. QED  BY <1>2, <1>3, Zenon DEF Nested, DisableAll

\* A section is left: alt_irq_enable_all.
LEMMA LeaveDepth ==
    ASSUME Nested, Running, Running', Depth' \in 0 .. 2, Depth = Depth' + 1, EnableAll
    PROVE  Nested'
<1>1. PICK d : d = Depth'
  OBVIOUS
<1>2. /\ Tail(Stack(d + 1)) = Stack(d)
      /\ d = 0 => Head(Stack(d + 1)) = TRUE
      /\ d # 0 => Head(Stack(d + 1)) = FALSE
  BY <1>1, PopStack
<1>3. saved = Stack(d + 1)
  BY <1>1, Zenon DEF Nested
<1>4. saved' = Stack(Depth') /\ pie' = Head(saved)
  BY <1>1, <1>2, <1>3, Zenon DEF EnableAll, Restored
<1>. QED  BY <1>1, <1>2, <1>3, <1>4, Zenon DEF Nested

\* What does not touch the contexts.
LEMMA SameDepth ==
    ASSUME Nested, Running, Running', Depth' = Depth, UNCHANGED <<saved, pie>>
    PROVE  Nested'
<1>1. saved' = Stack(Depth')
  BY Zenon DEF Nested
<1>. QED  BY <1>1, Zenon DEF Nested

\* The program's sections are properly nested, the one of alt_irq_enable in that
\* of alt_iic_isr_register, and that in a section of the program's own.
LEMMA NestedNext ==
    ASSUME IrqTypeOK, Nested, [IrqNext]_irqVars
    PROVE  Nested'
<1>. USE DEF Depth, Running
<1>1. ASSUME NEW i \in Irqs, Raise(i) PROVE Nested'
  <2>1. UNCHANGED <<saved, pie, irq_at, critical, serving>>
    BY <1>1 DEF Raise, irqArgs
  <2>. QED  BY <2>1, Zenon DEF Nested
<1>2. CASE EnterCritical
  BY <1>2, EnterDepth DEF EnterCritical, irqArgs
<1>3. CASE LeaveCritical
  BY <1>3, LeaveDepth DEF LeaveCritical, irqArgs
<1>4. ASSUME NEW i \in 0 .. ALT_NIRQ, NEW code, Register(i, code) PROVE Nested'
  <2>1. CASE i < ALT_NIRQ
    BY <1>4, <2>1, EnterDepth DEF Register
  <2>2. CASE ~(i < ALT_NIRQ)
    BY <1>4, <2>2, SameDepth DEF Register
  <2>. QED  BY <2>1, <2>2
<1>5. CASE SetHandler
  BY <1>5, SameDepth DEF SetHandler
<1>6. CASE SetContext
  BY <1>6, SameDepth DEF SetContext
<1>7. CASE EnableOrDisable
  BY <1>7, EnterDepth DEF EnableOrDisable
<1>8. CASE WriteIenable
  BY <1>8, LeaveDepth DEF WriteIenable
<1>9. CASE LeaveRegister
  BY <1>9, LeaveDepth DEF LeaveRegister
<1>10. CASE Exception
  <2>1. pie /\ pie' = FALSE /\ UNCHANGED <<saved, irq_at, critical>>
    BY <1>10 DEF Exception, irqArgs
  <2>2. Depth = 0 /\ Depth' = Depth
    BY <2>1, <1>10 DEF Nested, Exception
  <2>3. serving' # -1
    <3>1. serving' \in Irqs
      BY <1>10, ServedIsPending DEF Exception, Pending, IrqTypeOK
    <3>. QED  BY <3>1, IrqAssumption DEF Irqs
  <2>4. saved' = Stack(Depth')
    BY <2>1, <2>2, Zenon DEF Nested
  <2>. QED  BY <2>1, <2>2, <2>3, <2>4, Zenon DEF Nested
<1>11. ASSUME NEW off, Served(off) PROVE Nested'
  <2>1. Depth = 0 /\ Depth' = 0 /\ UNCHANGED saved
    BY <1>11 DEF Nested, Served, irqArgs
  <2>2. saved' = Stack(Depth')
    BY <2>1, Zenon DEF Nested
  <2>3. CASE Pending' = {}
    <3>1. serving' = -1 /\ pie' = TRUE
      BY <1>11, <2>3 DEF Served
    <3>. QED  BY <2>1, <2>2, <3>1, Zenon DEF Nested
  <2>4. CASE Pending' # {}
    <3>1. pie' = FALSE
      BY <1>11, <2>4, Zenon DEF Nested, Served
    <3>2. serving' # -1
      <4>1. Pending' \subseteq Irqs
        BY <1>11 DEF IrqTypeOK, Pending, Served
      <4>2. serving' = CHOOSE i \in Pending' : \A j \in Pending' : i <= j
        BY <1>11, <2>4, Zenon DEF Served
      <4>3. serving' \in Irqs
        BY <2>4, <4>1, <4>2, ServedIsPending
      <4>. QED  BY <4>3, IrqAssumption DEF Irqs
    <3>. QED  BY <2>1, <2>2, <3>1, <3>2, Zenon DEF Nested
  <2>. QED  BY <2>3, <2>4
<1>12. CASE UNCHANGED irqVars
  <2>1. UNCHANGED <<saved, pie, irq_at, critical, serving>>
    BY <1>12 DEF irqVars, irqArgs
  <2>. QED  BY <2>1, Zenon DEF Nested
<1>. QED
  BY <1>1, <1>2, <1>3, <1>4, <1>5, <1>6, <1>7, <1>8, <1>9, <1>10, <1>11, <1>12 DEF IrqNext, Irqs

-----------------------------------------------------------------------------
(* The table.                                                              *)

\* Every step keeps the types; what is served is an interrupt that is enabled.
LEMMA TypeAndServing ==
    ASSUME IrqTypeOK, Nested, Entries, [IrqNext]_irqVars
    PROVE  IrqTypeOK' /\ (~Running' => serving' \in ienable')
<1>. USE DEF IrqTypeOK, Places, Entries, Running
<1>. DEFINE Goal == IrqTypeOK' /\ (~Running' => serving' \in ienable')
<1>1. ASSUME NEW i \in Irqs, Raise(i) PROVE Goal
  BY <1>1 DEF Raise, irqTable, irqRegs, irqArgs
<1>2. CASE EnterCritical \/ LeaveCritical
  BY <1>2 DEF EnterCritical, LeaveCritical, irqTable, irqRegs, irqArgs
<1>3. ASSUME NEW i \in 0 .. ALT_NIRQ, NEW code \in HANDLERS \cup {"NULL"}, Register(i, code) PROVE Goal
  BY <1>3, IrqAssumption DEF Register, irqTable, irqRegs, Irqs
<1>4. CASE SetHandler
  BY <1>4 DEF SetHandler, irqRegs
<1>5. CASE SetContext
  BY <1>5 DEF SetContext, irqRegs
<1>6. CASE EnableOrDisable
  BY <1>6 DEF EnableOrDisable, irqTable
<1>7. CASE WriteIenable
  BY <1>7 DEF WriteIenable, irqTable
<1>8. CASE LeaveRegister
  BY <1>8 DEF LeaveRegister, irqTable, irqRegs
<1>9. CASE Exception
  <2>1. Pending \subseteq Irqs /\ Pending # {} /\ Pending \subseteq ienable
    BY <1>9 DEF Exception, Pending
  <2>2. serving' \in Pending
    BY <1>9, <2>1, ServedIsPending DEF Exception
  <2>. QED  BY <1>9, <2>1, <2>2 DEF Exception, irqTable, irqRegs, irqArgs
<1>10. ASSUME NEW off, Served(off) PROVE Goal
  <2>1. alt_irq_active' \subseteq Irqs /\ ienable' \subseteq Irqs
    BY <1>10 DEF Served
  <2>2. UNCHANGED <<irq_handler, irq_context, irq_at, irq_id, irq_isr>>
    BY <1>10 DEF Served, irqTable, irqArgs
  <2>3. CASE Pending' = {}
    BY <1>10, <2>1, <2>2, <2>3 DEF Served
  <2>4. CASE Pending' # {}
    <3>1. PICK S : S = Pending'
      OBVIOUS
    <3>2. S # {} /\ S \subseteq Irqs /\ S \subseteq ienable'
      BY <2>1, <2>4, <3>1 DEF Pending
    <3>3. serving' = CHOOSE i \in S : \A j \in S : i <= j
      BY <1>10, <2>4, <3>1, Zenon DEF Served
    <3>4. serving' \in S
      BY <3>2, <3>3, ServedIsPending
    <3>. QED  BY <2>1, <2>2, <3>2, <3>4
  <2>. QED  BY <2>3, <2>4
<1>11. CASE UNCHANGED irqVars
  BY <1>11 DEF irqVars, irqTable, irqRegs, irqArgs
<1>. QED
  BY <1>1, <1>2, <1>3, <1>4, <1>5, <1>6, <1>7, <1>8, <1>9, <1>10, <1>11 DEF IrqNext

\* Enabled entries stay whole: the handler, the context, the mask and the register
\* are written in this order, and interrupts are off meanwhile.
LEMMA EntriesNext ==
    ASSUME IrqTypeOK, Nested, Entries, [IrqNext]_irqVars
    PROVE  Entries'
<1>0. ~Running' => serving' \in ienable'
  BY TypeAndServing
<1>. USE <1>0 DEF Entries, Whole
<1>1. ASSUME NEW i \in Irqs, Raise(i) PROVE Entries'
  BY <1>1 DEF Raise, irqTable, irqRegs, irqArgs
<1>2. CASE EnterCritical \/ LeaveCritical
  BY <1>2 DEF EnterCritical, LeaveCritical, irqTable, irqRegs, irqArgs
<1>3. ASSUME NEW i \in 0 .. ALT_NIRQ, NEW code, Register(i, code) PROVE Entries'
  BY <1>3 DEF Register, irqTable, irqRegs
<1>4. CASE SetHandler
  BY <1>4 DEF SetHandler, irqRegs, IrqTypeOK
<1>5. CASE SetContext
  BY <1>5 DEF SetContext, irqRegs, IrqTypeOK
<1>6. CASE EnableOrDisable
  BY <1>6 DEF EnableOrDisable, irqTable, IrqTypeOK
<1>7. CASE WriteIenable
  BY <1>7 DEF WriteIenable, irqTable
<1>8. CASE LeaveRegister
  BY <1>8 DEF LeaveRegister, irqTable, irqRegs
<1>9. CASE Exception
  BY <1>9 DEF Exception, irqTable, irqRegs, irqArgs
<1>10. ASSUME NEW off, Served(off) PROVE Entries'
  <2>1. irq_at = "idle" /\ UNCHANGED <<irq_handler, irq_context, irq_at, irq_id, irq_isr>>
    BY <1>10 DEF Served, irqTable, irqArgs, Nested, Depth
  <2>2. alt_irq_active' \subseteq alt_irq_active /\ ienable' \subseteq ienable \cup alt_irq_active
    BY <1>10 DEF Served
  <2>. QED  BY <2>1, <2>2
<1>11. CASE UNCHANGED irqVars
  BY <1>11 DEF irqVars, irqTable, irqRegs, irqArgs, Running
<1>. QED
  BY <1>1, <1>2, <1>3, <1>4, <1>5, <1>6, <1>7, <1>8, <1>9, <1>10, <1>11 DEF IrqNext

-----------------------------------------------------------------------------

\* The invariant of the table and of the nested sections holds in every behaviour.
THEOREM IrqInvariant == IrqSpec => []IrqInv
<1>1. IrqInv /\ [IrqNext]_irqVars => IrqInv'
  BY NestedNext, TypeAndServing, EntriesNext DEF IrqInv
<1>. QED  BY <1>1, IrqInvInit, PTL DEF IrqSpec

\* A handler is called with its own context and never where there is none, nor
\* while its entry is written, nor in a section the program has guarded, for
\* any number of interrupts and handlers, however sections are nested
\* (alt_iic_isr_register.c lines 75-101, alt_irq.h lines 117-150).
THEOREM HandlersAreCalledWhole == IrqSpec => []HandlersAreWhole
<1>1. IrqInv => HandlersAreWhole
  <2>. SUFFICES ASSUME IrqInv, ~Running PROVE HandlersAreWhole
    BY DEF HandlersAreWhole
  <2>1. irq_at = "idle" /\ ~critical
    BY DEF IrqInv, Nested, Depth
  <2>2. Whole(serving)
    BY <2>1 DEF IrqInv, Entries
  <2>. QED  BY <2>1, <2>2 DEF HandlersAreWhole, Whole
<1>. QED  BY <1>1, IrqInvariant, PTL
-----------------------------------------------------------------------------
(* The SPI driver.                                                         *)

SpiLoop == {"status", "transmit", "receive"}

\* Bytes of the call that were given to the core, and replies that were taken.
Handed == sent + read_length - write_zeros
Answered == write_length - read_ignore + Len(read_data)

Bytes == Nat \X Nat

SpiTypes ==
    /\ spi_at \in {"done", "sso", "discard", "drain"} \cup SpiLoop
    /\ write_length \in Nat /\ read_length \in Nat
    /\ sent \in 0 .. write_length /\ write_zeros \in 0 .. read_length
    /\ read_ignore \in 0 .. write_length
    /\ spi_calls \in Nat /\ credits \in Int
    /\ trdy \in BOOLEAN /\ rrdy \in BOOLEAN /\ sso \in BOOLEAN
    /\ wire \in Seq(Bytes) /\ read_data \in Seq(Nat)

\* The caller's bytes go first, and the replies to them are ignored.
WritesFirst ==
    /\ write_zeros < read_length => sent = write_length
    /\ Len(read_data) <= read_length
    /\ Len(read_data) > 0 => read_ignore = 0

\* One byte is under way at most, for a credit is one: the core's transmit register
\* is never used, and a reply is read before the next can come.
OneUnderWay ==
    /\ ~overrun /\ txdata = Empty
    /\ spi_at \notin SpiLoop => shifting = Empty
    /\ spi_at \in {"drain", "done"} =>
          Handed = write_length + read_length /\ Answered = write_length + read_length
    /\ spi_at \in {"sso", "discard"} => Handed = 0 /\ Answered = 0 /\ credits = 1
    /\ spi_at \in {"sso", "discard"} \cup SpiLoop => Answered < write_length + read_length
    /\ spi_at \in SpiLoop =>
          /\ credits = 1 + Answered - Handed
          /\ \/ credits = 1 /\ shifting = Empty /\ rxdata = Empty
             \/ credits = 0 /\ shifting = Empty /\ rxdata # Empty
             \/ credits = 0 /\ shifting # Empty /\ rxdata = Empty
    /\ spi_at = "transmit" => (trdy <=> credits = 1) /\ (rrdy <=> ~trdy)
    /\ spi_at \in {"transmit", "receive"} /\ rrdy => rxdata # Empty

\* The byte of a call at a place, and the last n bytes on the wire are the first
\* of the call.
Item(i) == IF i <= write_length THEN Byte(spi_calls, i) ELSE Zero

OnWire(n) == n <= Len(wire) /\ \A i \in 1 .. n : wire[Len(wire) - n + i] = Item(i)

Shifts == Handed - (IF shifting = Empty THEN 0 ELSE 1)

\* While the select is forced for a call, its bytes follow each other on the wire.
InOnePiece ==
    "toggle" \notin flags =>
        /\ spi_at \in {"discard", "drain"} \cup SpiLoop => sso
        /\ spi_at = "done" => (sso <=> "merge" \in flags)
        /\ Handed > 0 => slave_sel = slave_hold
        /\ shifting # Empty => shifting = <<Item(Handed)>>
        /\ OnWire(Shifts)
        /\ spi_at \in SpiLoop /\ rxdata # Empty => rxdata = <<Len(wire)>>
        /\ \A j \in 1 .. Len(read_data) : read_data[j] = Len(wire) - Shifts + write_length + j

\* A register of the core is empty or has one byte, or one reply.
ByteIn ==
    /\ shifting # Empty => \E b \in Bytes : shifting = <<b>>
    /\ rxdata # Empty => \E n \in Nat : rxdata = <<n>>

SpiInv == SpiTypes /\ ByteIn /\ WritesFirst /\ OneUnderWay /\ InOnePiece

LEMMA EmptyOf ==
    ASSUME NEW T
    PROVE  <<>> \in Seq(T) /\ Len(<<>>) = 0
OBVIOUS

LEMMA OneOf ==
    ASSUME NEW T, NEW x \in T
    PROVE  <<x>> \in Seq(T) /\ Len(<<x>>) = 1 /\ <<x>>[1] = x /\ Head(<<x>>) = x /\ <<x>> # <<>>
OBVIOUS

LEMMA SpiCounts ==
    ASSUME SpiInv
    PROVE  Handed \in Nat /\ Answered \in Nat /\ Len(wire) \in Nat /\ Len(read_data) \in Nat
BY DEF SpiInv, SpiTypes, Handed, Answered

LEMMA SpiStarts ==
    ASSUME SpiInit
    PROVE  SpiInv
<1>1. spi_at = "done" /\ write_length = 0 /\ read_length = 0 /\ flags = {} /\ sent = 0
      /\ read_ignore = 0 /\ write_zeros = 0 /\ credits = 0 /\ trdy = FALSE /\ rrdy = FALSE
      /\ read_data = <<>> /\ txdata = Empty /\ shifting = Empty /\ overrun = FALSE
      /\ sso = FALSE /\ wire = <<>> /\ spi_calls = 0 /\ (rxdata = Empty \/ rxdata = <<99>>)
  BY DEF SpiInit
<1>10. wire \in Seq(Bytes) /\ read_data \in Seq(Nat) /\ Len(wire) = 0 /\ Len(read_data) = 0
  BY <1>1, EmptyOf
<1>2. Handed = 0 /\ Answered = 0 /\ Shifts = 0
  BY <1>1 DEF Handed, Answered, Shifts
<1>3. SpiTypes
  <2>1. /\ spi_at \in {"done", "sso", "discard", "drain"} \cup SpiLoop
        /\ trdy \in BOOLEAN /\ rrdy \in BOOLEAN /\ sso \in BOOLEAN
    BY <1>1
  <2>2. /\ write_length \in Nat /\ read_length \in Nat
        /\ sent \in 0 .. write_length /\ write_zeros \in 0 .. read_length
        /\ read_ignore \in 0 .. write_length
        /\ spi_calls \in Nat /\ credits \in Int
    BY <1>1
  <2>. QED  BY <1>10, <2>1, <2>2 DEF SpiTypes
<1>4. ByteIn /\ WritesFirst
  <2>1. rxdata = <<99>> => \E n \in Nat : rxdata = <<n>>
    OBVIOUS
  <2>. QED  BY <1>1, <1>10, <2>1 DEF ByteIn, WritesFirst
<1>5. OneUnderWay
  BY <1>1, <1>2 DEF OneUnderWay, SpiLoop
<1>6. InOnePiece
  BY <1>1, <1>2, <1>10 DEF InOnePiece, OnWire, SpiLoop
<1>. QED  BY <1>3, <1>4, <1>5, <1>6 DEF SpiInv

\* What the invariant says depends on these only.
LEMMA SpiStutters ==
    ASSUME SpiInv, UNCHANGED spiVars
    PROVE  SpiInv'
BY DEF SpiInv, SpiTypes, ByteIn, WritesFirst, OneUnderWay, InOnePiece, OnWire, Item, Shifts,
   Handed, Answered, spiVars, spiCodeVars, spiCoreVars

\* A call starts with a byte of credit and with nothing under way.
LEMMA SpiCallKeeps ==
    ASSUME SpiInv, NEW s, NEW w \in Nat, NEW r \in Nat, NEW f, w + r > 0, SpiCall(s, w, r, f)
    PROVE  SpiInv'
<1>1. /\ spi_at = "done" /\ spi_at' = "sso" /\ flags' = f /\ write_length' = w /\ read_length' = r
      /\ sent' = 0 /\ write_zeros' = r /\ read_ignore' = w /\ credits' = 1 /\ read_data' = <<>>
      /\ spi_calls' = spi_calls + 1
      /\ UNCHANGED <<trdy, rrdy, txdata, shifting, rxdata, overrun, slave_sel, sso, wire>>
  BY DEF SpiCall
<1>2. Len(read_data') = 0 /\ read_data' \in Seq(Nat)
  BY <1>1
<1>3. Handed' = 0 /\ Answered' = 0
  BY <1>1, <1>2 DEF Handed, Answered
<1>4. shifting = Empty /\ txdata = Empty /\ ~overrun
  BY <1>1 DEF SpiInv, OneUnderWay, SpiLoop
<1>5. Shifts' = 0
  BY <1>1, <1>3, <1>4 DEF Shifts
<1>6. SpiTypes'
  BY <1>1, <1>2 DEF SpiInv, SpiTypes
<1>7. ByteIn' /\ WritesFirst'
  BY <1>1, <1>2, <1>4 DEF SpiInv, ByteIn, WritesFirst
<1>8. OneUnderWay'
  BY <1>1, <1>3, <1>4 DEF OneUnderWay, SpiLoop
<1>9. InOnePiece'
  BY <1>1, <1>2, <1>3, <1>4, <1>5, <1>6 DEF InOnePiece, OnWire, SpiLoop, SpiTypes
<1>. QED  BY <1>6, <1>7, <1>8, <1>9 DEF SpiInv

LEMMA ForceSelectKeeps ==
    ASSUME SpiInv, ForceSelect
    PROVE  SpiInv'
<1>1. /\ spi_at = "sso" /\ spi_at' = "discard" /\ sso' = (sso \/ "toggle" \notin flags)
      /\ wire' = wire \/ wire' = <<>>
      /\ UNCHANGED <<slave, write_length, read_length, flags, sent, read_ignore, write_zeros,
                     credits, trdy, rrdy, read_data, spi_calls,
                     txdata, shifting, rxdata, overrun, slave_hold>>
  BY DEF ForceSelect
<1>2. Handed = 0 /\ Answered = 0 /\ credits = 1 /\ shifting = Empty /\ txdata = Empty /\ ~overrun
      /\ Answered < write_length + read_length
  BY <1>1 DEF SpiInv, OneUnderWay, SpiLoop
<1>3. Handed' = Handed /\ Answered' = Answered /\ Shifts' = 0
  BY <1>1, <1>2 DEF Handed, Answered, Shifts
<1>4. wire' \in Seq(Bytes) /\ Len(wire') \in Nat
  <2>1. wire \in Seq(Bytes)
    BY DEF SpiInv, SpiTypes
  <2>2. wire' = wire \/ wire' = <<>>
    BY <1>1
  <2>3. wire' \in Seq(Bytes)
    BY <2>1, <2>2, EmptyOf
  <2>. QED  BY <2>3
<1>5. SpiTypes'
  BY <1>1, <1>4 DEF SpiInv, SpiTypes
<1>6. ByteIn' /\ WritesFirst'
  BY <1>1 DEF SpiInv, ByteIn, WritesFirst
<1>7. OneUnderWay'
  BY <1>1, <1>2, <1>3 DEF OneUnderWay, SpiLoop
<1>8. Len(read_data) = 0
  BY <1>2 DEF SpiInv, SpiTypes, WritesFirst, Answered
<1>9. InOnePiece'
  <2>1. (OnWire(Shifts))'
    BY <1>3, <1>4 DEF OnWire
  <2>2. "toggle" \notin flags => sso'
    BY <1>1, Zenon
  <2>3. flags' = flags /\ shifting' = Empty /\ spi_at' = "discard" /\ Len(read_data') = 0
    BY <1>1, <1>2, <1>8
  <2>. QED  BY <1>2, <1>3, <2>1, <2>2, <2>3 DEF InOnePiece, SpiLoop
<1>. QED  BY <1>5, <1>6, <1>7, <1>9 DEF SpiInv

LEMMA DiscardKeeps ==
    ASSUME SpiInv, DiscardStale
    PROVE  SpiInv'
<1>1. /\ spi_at = "discard" /\ spi_at' = "status" /\ rxdata' = Empty
      /\ UNCHANGED <<slave, write_length, read_length, flags, sent, read_ignore, write_zeros,
                     credits, trdy, rrdy, read_data, spi_calls,
                     txdata, shifting, overrun, slave_hold, slave_sel, sso, wire>>
  BY DEF DiscardStale
<1>2. Handed' = Handed /\ Answered' = Answered /\ Shifts' = Shifts
  BY <1>1 DEF Handed, Answered, Shifts
<1>3. SpiTypes'
  BY <1>1 DEF SpiInv, SpiTypes, Empty, SpiLoop
<1>4. ByteIn' /\ WritesFirst'
  BY <1>1 DEF SpiInv, ByteIn, WritesFirst
<1>5. OneUnderWay'
  BY <1>1, <1>2 DEF SpiInv, OneUnderWay, SpiLoop
<1>6. InOnePiece'
  BY <1>1, <1>2 DEF SpiInv, InOnePiece, OnWire, Item, SpiLoop
<1>. QED  BY <1>3, <1>4, <1>5, <1>6 DEF SpiInv

LEMMA ReadStatusKeeps ==
    ASSUME SpiInv, ReadStatus
    PROVE  SpiInv'
<1>1. /\ spi_at = "status" /\ trdy' = MayTransmit /\ rrdy' = (rxdata # Empty)
      /\ spi_at' = (IF trdy' \/ rrdy' THEN "transmit" ELSE "status")
      /\ UNCHANGED <<slave, write_length, read_length, flags, sent, read_ignore, write_zeros,
                     credits, read_data, spi_calls>>
      /\ UNCHANGED <<txdata, shifting, rxdata, overrun, slave_hold, slave_sel, sso, wire>>
  BY DEF ReadStatus, spiCoreVars
<1>2. Handed' = Handed /\ Answered' = Answered /\ Shifts' = Shifts
  BY <1>1 DEF Handed, Answered, Shifts
<1>3. trdy' \in BOOLEAN /\ rrdy' \in BOOLEAN
  BY <1>1, Zenon DEF MayTransmit
<1>4. SpiTypes'
  BY <1>1, <1>3 DEF SpiInv, SpiTypes, SpiLoop
<1>5. ByteIn' /\ WritesFirst'
  BY <1>1 DEF SpiInv, ByteIn, WritesFirst
<1>6. trdy' <=> credits = 1
  <2>1. txdata = Empty /\ (credits = 0 \/ credits = 1)
    BY <1>1 DEF SpiInv, OneUnderWay, SpiLoop
  <2>2. MayTransmit <=> credits = 1
    BY <2>1 DEF MayTransmit, Trdy
  <2>. QED  BY <1>1, <2>2, Zenon
<1>10. rrdy' <=> rxdata # Empty
  BY <1>1, Zenon
<1>7. OneUnderWay'
  BY <1>1, <1>2, <1>6, <1>10 DEF SpiInv, OneUnderWay, SpiLoop
<1>8. InOnePiece'
  BY <1>1, <1>2 DEF SpiInv, InOnePiece, OnWire, Item, SpiLoop
<1>. QED  BY <1>4, <1>5, <1>7, <1>8 DEF SpiInv

\* With a credit there is a byte of the call to write, and the core takes it at once.
LEMMA TransmitCases ==
    ASSUME SpiInv, Transmit
    PROVE  \/ ~trdy /\ UNCHANGED <<sent, write_zeros, credits, shifting, slave_sel, wire>>
           \/ /\ trdy /\ credits' = credits - 1 /\ Load(shifting')
              /\ \/ /\ sent < write_length /\ sent' = sent + 1 /\ write_zeros' = write_zeros
                    /\ shifting' = <<Byte(spi_calls, sent + 1)>>
                 \/ /\ sent = write_length /\ write_zeros > 0 /\ write_zeros' = write_zeros - 1
                    /\ sent' = sent /\ shifting' = <<Zero>>
<1>1. CASE ~trdy
  BY <1>1 DEF Transmit
<1>2. CASE trdy
  <2>1. shifting = Empty /\ Handed = Answered /\ Answered < write_length + read_length
    <3>1. spi_at = "transmit"
      BY DEF Transmit
    <3>. QED  BY <1>2, <3>1, SpiCounts DEF SpiInv, OneUnderWay, SpiLoop
  <2>2. sent < write_length \/ (sent = write_length /\ write_zeros > 0)
    BY <2>1 DEF SpiInv, SpiTypes, Handed
  <2>3. CASE sent < write_length
    BY <1>2, <2>1, <2>3 DEF Transmit, WriteTxData, Load
  <2>4. CASE sent = write_length /\ write_zeros > 0
    <3>1. ~(sent < write_length)
      BY <2>4 DEF SpiInv, SpiTypes
    <3>. QED  BY <1>2, <2>1, <2>4, <3>1 DEF Transmit, WriteTxData, Load
  <2>. QED  BY <2>2, <2>3, <2>4
<1>. QED  BY <1>1, <1>2 DEF SpiInv, SpiTypes

LEMMA TransmitKeeps ==
    ASSUME SpiInv, Transmit
    PROVE  SpiInv'
<1>1. /\ spi_at = "transmit" /\ spi_at' = "receive"
      /\ UNCHANGED <<slave, write_length, read_length, flags, read_ignore, trdy, rrdy, read_data,
                     spi_calls, rxdata, overrun, slave_hold, sso>>
  BY DEF Transmit
<1>2. txdata' = txdata
  <2>1. trdy => shifting = Empty
    BY <1>1 DEF SpiInv, OneUnderWay, SpiLoop
  <2>. QED  BY <2>1 DEF Transmit, WriteTxData
<1>3. CASE ~trdy /\ UNCHANGED <<sent, write_zeros, credits, shifting, slave_sel, wire>>
  <2>1. Handed' = Handed /\ Answered' = Answered /\ Shifts' = Shifts
    BY <1>1, <1>3 DEF Handed, Answered, Shifts
  <2>2. SpiTypes'
    BY <1>1, <1>3 DEF SpiInv, SpiTypes, SpiLoop
  <2>3. ByteIn' /\ WritesFirst'
    BY <1>1, <1>3 DEF SpiInv, ByteIn, WritesFirst
  <2>4. OneUnderWay'
    BY <1>1, <1>2, <1>3, <2>1 DEF SpiInv, OneUnderWay, SpiLoop
  <2>5. InOnePiece'
    BY <1>1, <1>3, <2>1 DEF SpiInv, InOnePiece, OnWire, Item, SpiLoop
  <2>. QED  BY <2>2, <2>3, <2>4, <2>5 DEF SpiInv
<1>4. CASE /\ trdy /\ credits' = credits - 1 /\ Load(shifting')
           /\ \/ /\ sent < write_length /\ sent' = sent + 1 /\ write_zeros' = write_zeros
                 /\ shifting' = <<Byte(spi_calls, sent + 1)>>
              \/ /\ sent = write_length /\ write_zeros > 0 /\ write_zeros' = write_zeros - 1
                 /\ sent' = sent /\ shifting' = <<Zero>>
  <2>1. /\ credits = 1 /\ shifting = Empty /\ rxdata = Empty /\ ~rrdy /\ Handed = Answered
        /\ Answered < write_length + read_length
    <3>1. credits = 1 /\ ~rrdy
      BY <1>1, <1>4 DEF SpiInv, OneUnderWay, SpiLoop
    <3>. QED  BY <1>1, <3>1, SpiCounts DEF SpiInv, OneUnderWay, SpiLoop
  <2>2. Handed' = Handed + 1 /\ Answered' = Answered /\ Handed \in Nat
    BY <1>1, <1>4 DEF Handed, Answered, SpiInv, SpiTypes
  <2>3. shifting' = <<Item(Handed')>> /\ Item(Handed') \in Bytes
    <3>1. CASE sent < write_length
      <4>1. write_zeros = read_length /\ Handed' = sent + 1
        BY <1>1, <1>4, <3>1 DEF SpiInv, SpiTypes, WritesFirst, Handed
      <4>2. Item(Handed') = Byte(spi_calls, sent + 1)
        BY <3>1, <4>1 DEF Item, SpiInv, SpiTypes
      <4>. QED  BY <1>4, <3>1, <4>2 DEF Byte, Bytes, SpiInv, SpiTypes
    <3>2. CASE sent = write_length
      <4>1. Handed' > write_length
        BY <1>1, <1>4, <3>2 DEF SpiInv, SpiTypes, Handed
      <4>2. Item(Handed') = Zero
        BY <4>1, <2>2 DEF Item, SpiInv, SpiTypes
      <4>. QED  BY <1>4, <3>2, <4>2 DEF Zero, Bytes, SpiInv, SpiTypes
    <3>. QED  BY <1>4, <3>1, <3>2
  <2>4. shifting' # Empty /\ (Item(Handed))' = Item(Handed')
    <3>1. (Item(Handed))' = Item(Handed')
      BY <1>1 DEF Item
    <3>. QED  BY <2>3, <3>1, OneOf DEF Empty
  <2>5. Shifts = Handed /\ Shifts' = Handed
    BY <2>1, <2>2, <2>4 DEF Shifts
  <2>6. slave_sel' = slave_hold /\ (wire' = wire \/ (Handed = 0 /\ wire' = <<>>) \/ "toggle" \in flags)
    <3>1. slave_sel' = slave_hold /\ wire' = (IF slave_sel' = slave_sel THEN wire ELSE <<>>)
      BY <1>4 DEF Load
    <3>2. "toggle" \notin flags /\ Handed > 0 => slave_sel = slave_hold
      BY DEF SpiInv, InOnePiece
    <3>. QED  BY <2>2, <3>1, <3>2
  <2>7. wire' \in Seq(Bytes) /\ Len(wire') \in Nat
    <3>1. wire' = wire \/ wire' = <<>>
      BY <1>4 DEF Load
    <3>2. wire \in Seq(Bytes)
      BY DEF SpiInv, SpiTypes
    <3>3. wire' \in Seq(Bytes)
      BY <3>1, <3>2, EmptyOf
    <3>. QED  BY <3>3
  <2>8. SpiTypes'
    BY <1>1, <1>4, <2>7 DEF SpiInv, SpiTypes, SpiLoop
  <2>9. ByteIn'
    BY <1>1, <2>3 DEF SpiInv, ByteIn
  <2>10. WritesFirst'
    BY <1>1, <1>4 DEF SpiInv, SpiTypes, WritesFirst
  <2>11. OneUnderWay'
    BY <1>1, <1>2, <1>4, <2>1, <2>2, <2>4 DEF SpiInv, OneUnderWay, SpiLoop
  <2>12. InOnePiece'
    <3>. SUFFICES ASSUME "toggle" \notin flags
                  PROVE  InOnePiece'
      BY <1>1 DEF InOnePiece
    <3>1. sso /\ OnWire(Handed)
          /\ \A j \in 1 .. Len(read_data) : read_data[j] = Len(wire) - Handed + write_length + j
      BY <1>1, <2>5 DEF SpiInv, InOnePiece, SpiLoop
    <3>2. CASE wire' = wire
      <4>2. Handed <= Len(wire') /\ \A i \in 1 .. Handed : wire'[Len(wire') - Handed + i] = (Item(i))'
        BY <1>1, <3>1, <3>2 DEF OnWire, Item
      <4>3. (OnWire(Shifts))'
        BY <2>5, <4>2 DEF OnWire
      <4>. QED  BY <1>1, <2>1, <2>3, <2>4, <2>5, <2>6, <3>1, <3>2, <4>3 DEF InOnePiece, SpiLoop
    <3>3. CASE Handed = 0 /\ wire' = <<>>
      <4>1. Len(read_data) = 0
        BY <2>1, <3>3 DEF SpiInv, SpiTypes, WritesFirst, Answered
      <4>2. (OnWire(Shifts))'
        BY <2>5, <2>7, <3>3 DEF OnWire
      <4>. QED  BY <1>1, <2>1, <2>3, <2>4, <2>5, <2>6, <3>1, <3>3, <4>1, <4>2 DEF InOnePiece, SpiLoop
    <3>. QED  BY <2>6, <3>2, <3>3
  <2>. QED  BY <2>8, <2>9, <2>10, <2>11, <2>12 DEF SpiInv
<1>. QED  BY <1>3, <1>4, TransmitCases

LEMMA ReceivedKeeps ==
    ASSUME SpiInv, Received
    PROVE  SpiInv'
<1>1. /\ spi_at = "receive"
      /\ UNCHANGED <<slave, write_length, read_length, flags, sent, write_zeros, trdy, rrdy,
                     spi_calls, txdata, shifting, overrun, slave_hold, slave_sel, sso, wire>>
  BY DEF Received
<1>2. Handed' = Handed /\ Shifts' = Shifts
  BY <1>1 DEF Handed, Shifts
<1>3. CASE ~rrdy
  <2>1. UNCHANGED <<rxdata, credits, read_ignore, read_data>> /\ spi_at' = "status"
    BY <1>3 DEF Received
  <2>2. Answered' = Answered
    BY <1>1, <2>1 DEF Answered
  <2>3. SpiTypes'
    BY <1>1, <2>1 DEF SpiInv, SpiTypes, SpiLoop
  <2>4. ByteIn' /\ WritesFirst'
    BY <1>1, <2>1 DEF SpiInv, ByteIn, WritesFirst
  <2>5. OneUnderWay'
    BY <1>1, <1>2, <2>1, <2>2 DEF SpiInv, OneUnderWay, SpiLoop
  <2>6. InOnePiece'
    BY <1>1, <1>2, <2>1 DEF SpiInv, InOnePiece, OnWire, Item, SpiLoop
  <2>. QED  BY <2>3, <2>4, <2>5, <2>6 DEF SpiInv
<1>4. CASE rrdy
  <2>1. /\ rxdata' = Empty /\ credits' = credits + 1
        /\ \/ read_ignore > 0 /\ read_ignore' = read_ignore - 1 /\ read_data' = read_data
           \/ read_ignore <= 0 /\ read_data' = read_data \o rxdata /\ read_ignore' = read_ignore
        /\ spi_at' = IF read_ignore' = 0 /\ Len(read_data') = read_length THEN "drain" ELSE "status"
    BY <1>4 DEF Received, SpiInv, SpiTypes
  <2>2. /\ rxdata # Empty /\ credits = 0 /\ shifting = Empty /\ Handed = Answered + 1
        /\ Shifts = Handed /\ Answered < write_length + read_length
    <3>1. rxdata # Empty
      BY <1>1, <1>4 DEF SpiInv, OneUnderWay
    <3>2. credits = 0 /\ shifting = Empty /\ credits = 1 + Answered - Handed
          /\ Answered < write_length + read_length
      BY <1>1, <3>1 DEF SpiInv, OneUnderWay, SpiLoop
    <3>. QED  BY <3>1, <3>2, SpiCounts DEF Shifts
  <2>3. PICK n \in Nat : rxdata = <<n>>
    BY <2>2 DEF SpiInv, ByteIn
  <2>4. "toggle" \notin flags => n = Len(wire)
    <3>1. "toggle" \notin flags => <<n>> = <<Len(wire)>>
      BY <1>1, <2>2, <2>3 DEF SpiInv, InOnePiece, SpiLoop
    <3>. QED  BY <3>1
  <2>5. /\ read_data' \in Seq(Nat) /\ Len(read_data') \in Nat
        /\ \A j \in 1 .. Len(read_data) : read_data'[j] = read_data[j]
        /\ \/ read_ignore > 0 /\ Len(read_data') = Len(read_data)
           \/ read_ignore = 0 /\ Len(read_data') = Len(read_data) + 1 /\ read_data'[Len(read_data) + 1] = n
    <3>1. read_data \in Seq(Nat) /\ read_ignore \in Nat
      BY DEF SpiInv, SpiTypes
    <3>2. CASE read_ignore > 0 /\ read_data' = read_data
      BY <3>1, <3>2
    <3>3. CASE read_ignore <= 0 /\ read_data' = read_data \o <<n>>
      BY <3>1, <3>3
    <3>. QED  BY <2>1, <2>3, <3>2, <3>3
  <2>6. Answered' = Answered + 1
    <3>1. Answered' = write_length - read_ignore' + Len(read_data')
      BY <1>1 DEF Answered
    <3>2. write_length \in Nat /\ read_ignore \in Nat /\ Len(read_data) \in Nat
      BY SpiCounts DEF SpiInv, SpiTypes
    <3>3. \/ read_ignore' = read_ignore - 1 /\ Len(read_data') = Len(read_data)
          \/ read_ignore' = read_ignore /\ Len(read_data') = Len(read_data) + 1
      BY <2>1, <2>5, <3>2
    <3>. QED  BY <3>1, <3>2, <3>3 DEF Answered
  <2>7. /\ read_ignore' \in 0 .. write_length
        /\ Len(read_data') <= read_length /\ (Len(read_data') > 0 => read_ignore' = 0)
    <3>1. /\ write_length \in Nat /\ read_length \in Nat /\ read_ignore \in 0 .. write_length
          /\ Len(read_data) <= read_length /\ (Len(read_data) > 0 => read_ignore = 0)
      BY DEF SpiInv, SpiTypes, WritesFirst
    <3>2. write_length - read_ignore + Len(read_data) < write_length + read_length
      BY <2>2 DEF Answered
    <3>3. CASE read_ignore > 0 /\ read_ignore' = read_ignore - 1 /\ read_data' = read_data
      BY <3>1, <3>3, SpiCounts
    <3>4. CASE read_ignore = 0 /\ read_ignore' = read_ignore /\ Len(read_data') = Len(read_data) + 1
      BY <3>1, <3>2, <3>4, SpiCounts
    <3>. QED  BY <2>1, <2>5, <3>1, <3>3, <3>4
  <2>8. SpiTypes'
    BY <1>1, <2>1, <2>5, <2>7 DEF SpiInv, SpiTypes, SpiLoop
  <2>9. ByteIn' /\ WritesFirst'
    BY <1>1, <2>1, <2>2, <2>7 DEF SpiInv, ByteIn, WritesFirst
  <2>10. OneUnderWay'
    <3>10. \/ spi_at' = "drain" /\ read_ignore' = 0 /\ Len(read_data') = read_length
           \/ spi_at' = "status" /\ ~(read_ignore' = 0 /\ Len(read_data') = read_length)
      BY <2>1
    <3>11. Answered' = write_length - read_ignore' + Len(read_data')
      BY <1>1 DEF Answered
    <3>12. write_length \in Nat /\ read_length \in Nat /\ read_ignore' \in 0 .. write_length /\ Len(read_data') \in Nat
      BY <2>5, <2>7 DEF SpiInv, SpiTypes
    <3>1. spi_at' = "drain" => Answered' = write_length + read_length
      BY <3>10, <3>11, <3>12
    <3>2. spi_at' # "drain" => spi_at' = "status" /\ Answered' # write_length + read_length
      BY <2>7, <3>10, <3>11, <3>12
    <3>3. Answered' <= write_length + read_length
      BY <2>2, <2>6, SpiCounts DEF SpiInv, SpiTypes
    <3>4. Handed' = Answered' /\ credits' = 1
      BY <1>2, <2>1, <2>2, <2>6
    <3>5. Handed' \in Nat /\ Answered' \in Nat /\ ~overrun' /\ txdata' = Empty
      BY <1>1, <1>2, <2>6, SpiCounts DEF SpiInv, OneUnderWay
    <3>6. write_length' + read_length' \in Nat /\ UNCHANGED <<write_length, read_length>>
      BY <1>1 DEF SpiInv, SpiTypes
    <3>7. shifting' = Empty /\ rxdata' = Empty /\ spi_at' \in {"drain", "status"}
      BY <1>1, <2>1, <2>2
    <3>8. spi_at' = "status" => Answered' < write_length' + read_length'
      BY <3>2, <3>3, <3>5, <3>6
    <3>9. spi_at' = "drain" => Answered' = write_length' + read_length'
      BY <3>1, <3>6
    <3>13. CASE spi_at' = "status"
      <4>1. credits' = 1 + Answered' - Handed'
        <5>1. Answered' \in Nat /\ Handed' = Answered' /\ credits' = 1
          BY <3>4, <3>5
        <5>2. \A a, b \in Nat : a = b => 1 = 1 + a - b
          OBVIOUS
        <5>3. Handed' \in Nat
          BY <3>5
        <5>. QED  BY <5>1, <5>2, <5>3, Zenon
      <4>2. Answered' < write_length' + read_length'
        BY <3>8, <3>13
      <4>. QED  BY <3>4, <3>5, <3>7, <3>13, <4>1, <4>2, Zenon DEF OneUnderWay, SpiLoop
    <3>14. CASE spi_at' = "drain"
      BY <3>4, <3>5, <3>7, <3>9, <3>14 DEF OneUnderWay, SpiLoop
    <3>. QED  BY <3>7, <3>13, <3>14
  <2>11. InOnePiece'
    <3>. SUFFICES ASSUME "toggle" \notin flags
                  PROVE  InOnePiece'
      BY <1>1 DEF InOnePiece
    <3>1. (OnWire(Shifts))'
      BY <1>1, <1>2 DEF SpiInv, InOnePiece, OnWire, Item
    <3>2. sso /\ (Handed > 0 => slave_sel = slave_hold)
          /\ \A j \in 1 .. Len(read_data) : read_data[j] = Len(wire) - Shifts + write_length + j
      BY <1>1 DEF SpiInv, InOnePiece, SpiLoop
    <3>3. \A j \in 1 .. Len(read_data') : read_data'[j] = Len(wire) - Shifts + write_length + j
      <4>1. read_ignore = 0 => n = Len(wire) - Shifts + write_length + Len(read_data) + 1
        BY <2>2, <2>4, SpiCounts DEF Answered, SpiInv, SpiTypes
      <4>2. Len(read_data) \in Nat /\ Shifts \in Int /\ write_length \in Nat /\ Len(wire) \in Nat
        BY <2>2, SpiCounts DEF SpiInv, SpiTypes
      <4>. QED  BY <2>5, <3>2, <4>1, <4>2
    <3>4. spi_at' \in {"drain", "status"}
      BY <2>1
    <3>. QED  BY <1>1, <1>2, <2>1, <2>2, <3>1, <3>2, <3>3, <3>4 DEF InOnePiece, SpiLoop
  <2>. QED  BY <2>8, <2>9, <2>10, <2>11 DEF SpiInv
<1>. QED  BY <1>3, <1>4

LEMMA ReleaseKeeps ==
    ASSUME SpiInv, Release
    PROVE  SpiInv'
<1>1. /\ spi_at = "drain" /\ spi_at' = "done" /\ sso' = (sso /\ "merge" \in flags)
      /\ UNCHANGED <<slave, write_length, read_length, flags, sent, read_ignore, write_zeros,
                     credits, trdy, rrdy, read_data, spi_calls,
                     txdata, shifting, rxdata, overrun, slave_hold, slave_sel, wire>>
  BY DEF Release
<1>2. Handed' = Handed /\ Answered' = Answered /\ Shifts' = Shifts
  BY <1>1 DEF Handed, Answered, Shifts
<1>3. sso' \in BOOLEAN /\ (sso => (sso' <=> "merge" \in flags))
  BY <1>1, Zenon
<1>4. SpiTypes'
  BY <1>1, <1>3 DEF SpiInv, SpiTypes
<1>5. ByteIn' /\ WritesFirst'
  BY <1>1 DEF SpiInv, ByteIn, WritesFirst
<1>6. OneUnderWay'
  BY <1>1, <1>2 DEF SpiInv, OneUnderWay, SpiLoop
<1>7. InOnePiece'
  <2>. SUFFICES ASSUME "toggle" \notin flags
                PROVE  InOnePiece'
    BY <1>1 DEF InOnePiece
  <2>1. sso /\ flags' = flags
    BY <1>1 DEF SpiInv, InOnePiece, SpiLoop
  <2>2. sso' <=> "merge" \in flags
    BY <1>3, <2>1
  <2>3. (OnWire(Shifts))'
    BY <1>1, <1>2 DEF SpiInv, InOnePiece, OnWire, Item
  <2>. QED  BY <1>1, <1>2, <2>2, <2>3 DEF SpiInv, InOnePiece, OneUnderWay, SpiLoop
<1>. QED  BY <1>4, <1>5, <1>6, <1>7 DEF SpiInv

\* The core shifts a byte only while its receive register is free.
LEMMA ShiftedKeeps ==
    ASSUME SpiInv, Shifted
    PROVE  SpiInv'
<1>1. /\ shifting # Empty /\ shifting' = txdata /\ txdata' = Empty
      /\ slave_sel' = (IF txdata = Empty THEN slave_sel ELSE slave_hold)
      /\ wire' = (IF sso THEN Append(wire, Head(shifting)) ELSE <<Head(shifting)>>)
      /\ rxdata' = <<Len(wire')>>
      /\ UNCHANGED <<slave, write_length, read_length, flags, sent, read_ignore, write_zeros,
                     credits, trdy, rrdy, read_data, spi_calls, spi_at, slave_hold, sso>>
  BY DEF Shifted, spiCodeVars
<1>2. /\ spi_at \in SpiLoop /\ txdata = Empty /\ rxdata = Empty /\ credits = 0 /\ ~overrun
  BY <1>1 DEF SpiInv, OneUnderWay
<1>3. shifting' = Empty /\ slave_sel' = slave_sel /\ overrun' = FALSE
  BY <1>1, <1>2 DEF Shifted
<1>4. PICK b \in Bytes : shifting = <<b>>
  BY <1>1 DEF SpiInv, ByteIn
<1>5. Head(shifting) = b
  BY <1>4
<1>6. wire \in Seq(Bytes) /\ sso \in BOOLEAN
  BY DEF SpiInv, SpiTypes
<1>7. wire' \in Seq(Bytes) /\ Len(wire') \in Nat
  <2>1. Append(wire, b) \in Seq(Bytes) /\ <<b>> \in Seq(Bytes)
    BY <1>6, OneOf
  <2>2. wire' \in Seq(Bytes)
    BY <1>1, <1>5, <2>1
  <2>. QED  BY <2>2
<1>8. rxdata' # Empty /\ \E n \in Nat : rxdata' = <<n>>
  BY <1>1, <1>7, OneOf DEF Empty
<1>9. Handed' = Handed /\ Answered' = Answered /\ Handed = Answered + 1
      /\ Shifts = Answered /\ Shifts' = Handed
  <2>1. credits = 1 + Answered - Handed
    BY <1>2 DEF SpiInv, OneUnderWay
  <2>2. Handed' = Handed /\ Answered' = Answered
    BY <1>1 DEF Handed, Answered
  <2>3. Handed \in Int /\ Answered \in Int
    BY SpiCounts
  <2>4. Handed = Answered + 1
    BY <1>2, <2>1, <2>3
  <2>5. Shifts = Handed - 1
    BY <1>1 DEF Shifts
  <2>6. Shifts' = Handed' - 0
    BY <1>3 DEF Shifts
  <2>7. Shifts = Answered
    BY <2>3, <2>4, <2>5
  <2>8. Shifts' = Handed
    BY <2>2, <2>3, <2>6
  <2>. QED  BY <2>2, <2>4, <2>7, <2>8, Zenon
<1>10. SpiTypes'
  BY <1>1, <1>7 DEF SpiInv, SpiTypes
<1>11. ByteIn' /\ WritesFirst'
  BY <1>1, <1>3, <1>8 DEF SpiInv, ByteIn, WritesFirst
<1>12. OneUnderWay'
  <2>1. spi_at' = "transmit" => ~trdy /\ rrdy
    BY <1>1, <1>2 DEF SpiInv, OneUnderWay
  <2>2. ~(spi_at \in {"transmit", "receive"} /\ rrdy)
    BY <1>2 DEF SpiInv, OneUnderWay
  <2>. QED  BY <1>1, <1>2, <1>3, <1>8, <1>9, <2>1, <2>2 DEF SpiInv, OneUnderWay, SpiLoop
<1>13. InOnePiece'
  <2>. SUFFICES ASSUME "toggle" \notin flags
                PROVE  InOnePiece'
    BY <1>1 DEF InOnePiece
  <2>1. /\ sso /\ (Handed > 0 => slave_sel = slave_hold) /\ shifting = <<Item(Handed)>>
        /\ OnWire(Shifts)
        /\ \A j \in 1 .. Len(read_data) : read_data[j] = Len(wire) - Shifts + write_length + j
    BY <1>1, <1>2 DEF SpiInv, InOnePiece
  <2>2. b = Item(Handed)
    <3>1. <<b>> = <<Item(Handed)>>
      BY <1>4, <2>1
    <3>. QED  BY <3>1
  <2>3. wire' = Append(wire, b)
    BY <1>1, <1>5, <2>1
  <2>4. Len(wire') = Len(wire) + 1 /\ wire'[Len(wire) + 1] = b
        /\ \A i \in 1 .. Len(wire) : wire'[i] = wire[i]
    BY <1>6, <2>3
  <2>5. (OnWire(Shifts))'
    <3>1. \A i : (Item(i))' = Item(i)
      BY <1>1 DEF Item
    <3>2. Handed <= Len(wire')
      BY <1>9, <2>1, <2>4, SpiCounts DEF OnWire
    <3>3. ASSUME NEW i \in 1 .. Handed
          PROVE  wire'[Len(wire') - Handed + i] = Item(i)
      <4>1. CASE i = Handed
        BY <2>2, <2>4, <4>1, SpiCounts
      <4>2. CASE i < Handed
        <5>1. i \in 1 .. Shifts /\ Len(wire) - Shifts + i \in 1 .. Len(wire)
              /\ Len(wire') - Handed + i = Len(wire) - Shifts + i
          BY <1>9, <2>1, <2>4, <4>2, SpiCounts DEF OnWire
        <5>. QED  BY <2>1, <2>4, <5>1 DEF OnWire
      <4>. QED  BY <4>1, <4>2, SpiCounts
    <3>. QED  BY <1>9, <3>1, <3>2, <3>3 DEF OnWire
  <2>6. Len(wire') - Shifts' = Len(wire) - Shifts
    BY <1>9, <2>4, SpiCounts
  <2>. QED  BY <1>1, <1>2, <1>3, <1>9, <2>1, <2>4, <2>5, <2>6 DEF InOnePiece, SpiLoop
<1>. QED  BY <1>10, <1>11, <1>12, <1>13 DEF SpiInv

LEMMA SpiStep ==
    ASSUME SpiInv, [SpiNext]_spiVars
    PROVE  SpiInv'
<1>1. CASE SpiCaller
  <2>1. PICK s \in Slaves, w \in 0 .. MAX_LENGTH, r \in 0 .. MAX_LENGTH, f \in SpiFlags :
            w + r > 0 /\ SpiCall(s, w, r, f)
    BY <1>1 DEF SpiCaller
  <2>2. w \in Nat /\ r \in Nat
    BY SpiAssumption
  <2>. QED  BY <2>1, <2>2, SpiCallKeeps
<1>2. CASE SpiCode
  BY <1>2, ForceSelectKeeps, DiscardKeeps, ReadStatusKeeps, TransmitKeeps, ReceivedKeeps,
     ReleaseKeeps DEF SpiCode
<1>3. CASE Shifted
  BY <1>3, ShiftedKeeps
<1>4. CASE UNCHANGED spiVars
  BY <1>4, SpiStutters
<1>. QED  BY <1>1, <1>2, <1>3, <1>4 DEF SpiNext

\* The bytes of a call by their places.
LEMMA ExchangeItems ==
    ASSUME SpiInv
    PROVE  /\ Exchange \in Seq(Bytes) /\ Len(Exchange) = write_length + read_length
           /\ \A i \in 1 .. write_length + read_length : Exchange[i] = Item(i)
<1>. DEFINE W == [i \in 1 .. write_length |-> Byte(spi_calls, i)]
            R == [i \in 1 .. read_length |-> Zero]
<1>1. write_length \in Nat /\ read_length \in Nat /\ spi_calls \in Nat
  BY DEF SpiInv, SpiTypes
<1>2. Zero \in Bytes /\ \A i \in 1 .. write_length : Byte(spi_calls, i) \in Bytes
  BY <1>1 DEF Zero, Byte, Bytes
<1>3. W \in Seq(Bytes) /\ Len(W) = write_length /\ \A i \in 1 .. write_length : W[i] = Byte(spi_calls, i)
  BY <1>1, <1>2
<1>4. R \in Seq(Bytes) /\ Len(R) = read_length /\ \A i \in 1 .. read_length : R[i] = Zero
  BY <1>1, <1>2
<1>5. Exchange = W \o R
  BY DEF Exchange
<1>. HIDE DEF W, R
<1>6. W \o R \in Seq(Bytes) /\ Len(W \o R) = write_length + read_length
  BY <1>1, <1>3, <1>4
<1>7. ASSUME NEW i \in 1 .. write_length + read_length
      PROVE  (W \o R)[i] = Item(i)
  <2>1. CASE i <= write_length
    BY <1>1, <1>3, <1>4, <2>1 DEF Item
  <2>2. CASE ~(i <= write_length)
    <3>1. i - write_length \in 1 .. read_length
      BY <1>1, <2>2
    <3>. QED  BY <1>1, <1>3, <1>4, <2>2, <3>1 DEF Item
  <2>. QED  BY <2>1, <2>2
<1>. QED  BY <1>5, <1>6, <1>7

LEMMA SameSeq ==
    ASSUME NEW T, NEW s \in Seq(T), NEW t \in Seq(T), Len(s) = Len(t),
           \A i \in 1 .. Len(s) : s[i] = t[i]
    PROVE  s = t
OBVIOUS

LEMMA SpiInvExchange == SpiInv => OneExchange
<1>. SUFFICES ASSUME SpiInv  PROVE OneExchange
  OBVIOUS
<1>. DEFINE n == write_length + read_length
            m == Len(wire) - n
            part == SubSeq(wire, m + 1, Len(wire))
            heard == [i \in 1 .. read_length |-> m + write_length + i]
<1>1. ~overrun
  BY DEF SpiInv, OneUnderWay
<1>2. ASSUME spi_at = "done", flags \subseteq {"merge"}
      PROVE  m >= 0 /\ part = Exchange /\ read_data = heard /\ (sso <=> "merge" \in flags)
  <2>1. "toggle" \notin flags
    BY <1>2
  <2>2. shifting = Empty /\ Handed = n /\ Answered = n
    BY <1>2 DEF SpiInv, OneUnderWay, SpiLoop
  <2>3. Shifts = n
    BY <2>2, SpiCounts DEF Shifts
  <2>4. n <= Len(wire) /\ (\A i \in 1 .. n : wire[Len(wire) - n + i] = Item(i))
        /\ (sso <=> "merge" \in flags)
        /\ (\A j \in 1 .. Len(read_data) : read_data[j] = Len(wire) - n + write_length + j)
    BY <1>2, <2>1, <2>3 DEF SpiInv, InOnePiece, OnWire
  <2>5. /\ n \in Nat /\ write_length \in Nat /\ read_length \in Nat /\ Len(wire) \in Nat
        /\ wire \in Seq(Bytes) /\ read_data \in Seq(Nat)
    BY SpiCounts DEF SpiInv, SpiTypes
  <2>6. m \in Nat /\ m + n = Len(wire)
    BY <2>4, <2>5
  <2>. HIDE DEF m, n
  <2>7. part \in Seq(Bytes) /\ Len(part) = n /\ \A i \in 1 .. n : part[i] = wire[m + i]
    BY <2>5, <2>6
  <2>8. \A i \in 1 .. n : wire[m + i] = Item(i)
    BY <2>4, <2>5, <2>6 DEF m
  <2>. HIDE DEF part
  <2>9. part = Exchange
    <3>1. Exchange \in Seq(Bytes) /\ Len(Exchange) = n /\ \A i \in 1 .. n : Exchange[i] = Item(i)
      BY ExchangeItems DEF n
    <3>. HIDE DEF Exchange
    <3>. QED  BY <2>7, <2>8, <3>1, SameSeq
  <2>10. Len(read_data) = read_length
    BY <2>2, <2>5 DEF Answered, n, SpiInv, SpiTypes, WritesFirst
  <2>11. read_data = heard
    <3>1. heard \in Seq(Nat) /\ Len(heard) = read_length
          /\ \A i \in 1 .. read_length : heard[i] = m + write_length + i
      BY <2>5, <2>6
    <3>2. \A i \in 1 .. read_length : read_data[i] = m + write_length + i
      BY <2>4, <2>5, <2>10 DEF m
    <3>. HIDE DEF heard
    <3>. QED  BY <2>5, <2>10, <3>1, <3>2, SameSeq
  <2>. QED  BY <2>4, <2>6, <2>9, <2>11
<1>. QED  BY <1>1, <1>2 DEF OneExchange

\* A call with the select forced is one exchange, whatever was called before, for any
\* number of bytes and wherever the core shifts between the accesses of the driver
\* (altera_avalon_spi.c lines 41-134).
THEOREM CallsAreExchanges == SpiSpec => []OneExchange
<1>1. SpiInit => SpiInv
  BY SpiStarts
<1>2. SpiInv /\ [SpiNext]_spiVars => SpiInv'
  BY SpiStep
<1>3. SpiInv => OneExchange
  BY SpiInvExchange
<1>. QED  BY <1>1, <1>2, <1>3, PTL DEF SpiSpec
-----------------------------------------------------------------------------
(* Alarms.                                                                 *)

LinkNodes == ALARMS \cup {"list"}

LinkType == [LinkNodes -> [next : LinkNodes, previous : LinkNodes]]

InList(l) == {a \in ALARMS : l[a].next # a}

\* next and previous are each other's inverse, and all that is listed can be
\* reached from the head: a set with the head that is closed under next has it.
Paired(l) == \A e \in LinkNodes : l[l[e].next].previous = e /\ l[l[e].previous].next = e

Closed(l, C) == "list" \in C /\ \A e \in C : l[e].next \in C

Reached(l) == \A C \in SUBSET LinkNodes : Closed(l, C) => InList(l) \subseteq C

Linked(l) == l \in LinkType /\ Paired(l) /\ Reached(l)

\* A tick has visited the alarms of seen and comes to v: they are the first of the
\* list.
FirstOnes(l, seen, v) ==
    /\ seen \subseteq InList(l) /\ v \in InList(l) \cup {"list"} /\ v \notin seen
    /\ \A e \in seen \cup {v} : e # "list" => l[e].previous \in seen \cup {"list"}
    /\ \A e \in seen \cup {"list"} : l[e].next \in seen \cup {v}

Round == 2 ^ TICK_BITS

\* An alarm that is due in the time of a counter's round; with the flag iff the counter
\* rolls over before.  Until a tick has come to it the flag is as the last left it.
InTime(a, flag) ==
    /\ time[a] = (nticks + due[a]) % Round
    /\ due[a] <= MAX_PERIOD + 1
    /\ rollover[a] <=> flag

Rests(a) == due[a] > 0 /\ InTime(a, nticks + due[a] >= Round)

Waits(a) ==
    /\ due[a] >= 0 /\ due[a] <= MAX_PERIOD
    /\ InTime(a, nticks + due[a] >= Round \/ nticks = 0)

Timed(seen) == \A a \in InList(links) : IF a \in seen THEN Rests(a) ELSE Waits(a)

AlarmTypes ==
    /\ nticks \in 0 .. Round - 1
    /\ time \in [ALARMS -> Int] /\ rollover \in [ALARMS -> BOOLEAN] /\ due \in [ALARMS -> Int]

AlarmInv ==
    /\ AlarmTypes /\ Linked(links)
    /\ \E seen \in SUBSET ALARMS : FirstOnes(links, seen, visit) /\ Timed(seen)

LEMMA RoundFacts == Round \in Nat /\ MAX_PERIOD \in 1 .. Round - 2 /\ Round >= 3
BY AlarmAssumption DEF Round

LEMMA HeadIsNoAlarm == "list" \notin ALARMS
BY AlarmAssumption

\* What a change of the links does to each entry.
LEMMA InsertFields ==
    ASSUME links \in LinkType, Paired(links), NEW a \in ALARMS \ InList(links)
    PROVE  LET l == Insert(a)
               first == links["list"].next
           IN  /\ l \in LinkType
               /\ \A e \in LinkNodes :
                     /\ l[e].next = IF e = "list" THEN a ELSE IF e = a THEN first ELSE links[e].next
                     /\ l[e].previous = IF e = a THEN "list" ELSE IF e = first THEN a
                                        ELSE links[e].previous
<1>. DEFINE first == links["list"].next
            with == [links EXCEPT ![a] = [next |-> first, previous |-> "list"]]
            back == [with EXCEPT ![first].previous = a]
<1>1. a \in LinkNodes /\ "list" \in LinkNodes /\ first \in LinkNodes /\ a # "list" /\ links[a].next = a
  BY HeadIsNoAlarm DEF LinkNodes, LinkType, InList
<1>2. first # a
  BY <1>1 DEF Paired
<1>3. with \in LinkType /\ with[a] = [next |-> first, previous |-> "list"]
      /\ \A e \in LinkNodes : e # a => with[e] = links[e]
  BY <1>1 DEF LinkType
<1>. HIDE DEF with
<1>4. back \in LinkType /\ back[first] = [next |-> with[first].next, previous |-> a]
      /\ \A e \in LinkNodes : e # first => back[e] = with[e]
  BY <1>1, <1>3 DEF LinkType
<1>. HIDE DEF back
<1>5. Insert(a) = [back EXCEPT !["list"].next = a]
  BY DEF Insert, back, with
<1>6. Insert(a) \in LinkType /\ Insert(a)["list"] = [next |-> a, previous |-> back["list"].previous]
      /\ \A e \in LinkNodes : e # "list" => Insert(a)[e] = back[e]
  BY <1>1, <1>4, <1>5 DEF LinkType
<1>7. ASSUME NEW e \in LinkNodes
      PROVE  /\ Insert(a)[e].next = IF e = "list" THEN a ELSE IF e = a THEN first ELSE links[e].next
             /\ Insert(a)[e].previous = IF e = a THEN "list" ELSE IF e = first THEN a
                                        ELSE links[e].previous
  <2>1. CASE e = "list"
    BY <1>1, <1>2, <1>3, <1>4, <1>6, <2>1
  <2>2. CASE e = a
    BY <1>1, <1>2, <1>3, <1>4, <1>6, <2>2
  <2>3. CASE e # "list" /\ e # a
    BY <1>1, <1>2, <1>3, <1>4, <1>6, <2>3
  <2>. QED  BY <2>1, <2>2, <2>3
<1>. QED  BY <1>6, <1>7

LEMMA RemoveFields ==
    ASSUME NEW l \in LinkType, Paired(l), NEW a \in ALARMS
    PROVE  LET r == Remove(l, a)
               n == l[a].next
               p == l[a].previous
           IN  /\ r \in LinkType
               /\ \A e \in LinkNodes :
                     /\ r[e].next = IF e = a THEN a ELSE IF e = p THEN n ELSE l[e].next
                     /\ r[e].previous = IF e = a THEN a ELSE IF e = n THEN p ELSE l[e].previous
<1>. DEFINE n == l[a].next
            p == l[a].previous
            r1 == [l EXCEPT ![n].previous = p]
            r2 == [r1 EXCEPT ![p].next = n]
<1>1. a \in LinkNodes /\ n \in LinkNodes /\ p \in LinkNodes
  BY DEF LinkNodes, LinkType
<1>2. r1 \in LinkType /\ r1[n] = [next |-> l[n].next, previous |-> p]
      /\ \A e \in LinkNodes : e # n => r1[e] = l[e]
  BY <1>1 DEF LinkType
<1>. HIDE DEF r1
<1>3. r2 \in LinkType /\ r2[p] = [next |-> n, previous |-> r1[p].previous]
      /\ \A e \in LinkNodes : e # p => r2[e] = r1[e]
  BY <1>1, <1>2 DEF LinkType
<1>. HIDE DEF r2
<1>4. Remove(l, a) = [r2 EXCEPT ![a] = [next |-> a, previous |-> a]]
  BY DEF Remove, r1, r2
<1>5. Remove(l, a) \in LinkType /\ Remove(l, a)[a] = [next |-> a, previous |-> a]
      /\ \A e \in LinkNodes : e # a => Remove(l, a)[e] = r2[e]
  BY <1>1, <1>3, <1>4 DEF LinkType
<1>6. ASSUME NEW e \in LinkNodes
      PROVE  /\ Remove(l, a)[e].next = IF e = a THEN a ELSE IF e = p THEN n ELSE l[e].next
             /\ Remove(l, a)[e].previous = IF e = a THEN a ELSE IF e = n THEN p ELSE l[e].previous
  <2>1. CASE e = a
    BY <1>5, <2>1
  <2>2. CASE e # a
    <3>1. Remove(l, a)[e] = r2[e]
      BY <1>5, <2>2
    <3>2. r2[e].next = (IF e = p THEN n ELSE l[e].next)
      BY <1>1, <1>2, <1>3
    <3>3. r2[e].previous = (IF e = n THEN p ELSE l[e].previous)
      BY <1>1, <1>2, <1>3
    <3>. QED  BY <2>2, <3>1, <3>2, <3>3
  <2>. QED  BY <2>1, <2>2
<1>. QED  BY <1>5, <1>6

\* The alarm that is inserted is the first; the others stay as they were.
LEMMA InsertLinked ==
    ASSUME Linked(links), NEW a \in ALARMS \ InList(links)
    PROVE  Linked(Insert(a)) /\ InList(Insert(a)) = InList(links) \cup {a}
<1>. DEFINE l == Insert(a)
            first == links["list"].next
<1>1. /\ l \in LinkType
      /\ \A e \in LinkNodes :
            /\ l[e].next = IF e = "list" THEN a ELSE IF e = a THEN first ELSE links[e].next
            /\ l[e].previous = IF e = a THEN "list" ELSE IF e = first THEN a ELSE links[e].previous
  BY InsertFields DEF Linked
<1>. HIDE DEF l
<1>2. /\ a \in LinkNodes /\ "list" \in LinkNodes /\ first \in LinkNodes /\ a # "list"
      /\ links[a].next = a /\ links[a].previous = a /\ first # a
      /\ \A e \in LinkNodes : links[e].next \in LinkNodes /\ links[e].previous \in LinkNodes
      /\ \A e \in LinkNodes : links[links[e].next].previous = e /\ links[links[e].previous].next = e
  <2>1. \A e \in LinkNodes : links[links[e].next].previous = e /\ links[links[e].previous].next = e
    BY DEF Linked, Paired
  <2>2. a \in LinkNodes /\ "list" \in LinkNodes /\ a # "list" /\ links[a].next = a
    BY HeadIsNoAlarm DEF LinkNodes, InList
  <2>3. \A e \in LinkNodes : links[e].next \in LinkNodes /\ links[e].previous \in LinkNodes
    BY DEF Linked, LinkType
  <2>. QED  BY <2>1, <2>2, <2>3
<1>3. Paired(l)
  <2>. SUFFICES ASSUME NEW e \in LinkNodes
                PROVE  l[l[e].next].previous = e /\ l[l[e].previous].next = e
    BY DEF Paired
  <2>1. l[l[e].next].previous = e
    BY <1>1, <1>2
  <2>2. l[l[e].previous].next = e
    BY <1>1, <1>2
  <2>. QED  BY <2>1, <2>2
<1>4. InList(l) = InList(links) \cup {a}
  <2>1. \A e \in ALARMS : e # a => l[e].next = links[e].next
    BY <1>1, HeadIsNoAlarm DEF LinkNodes
  <2>2. l[a].next = first
    BY <1>1, <1>2
  <2>. QED  BY <1>2, <2>1, <2>2 DEF InList
<1>5. Reached(l)
  <2>. SUFFICES ASSUME NEW C \in SUBSET LinkNodes, Closed(l, C)
                PROVE  InList(l) \subseteq C
    BY DEF Reached
  <2>1. a \in C /\ first \in C
    BY <1>1, <1>2 DEF Closed
  <2>2. Closed(links, C \ {a})
    <3>1. "list" \in C \ {a}
      BY <1>2 DEF Closed
    <3>2. ASSUME NEW e \in C \ {a}
          PROVE  links[e].next \in C \ {a}
      <4>1. links[e].next # a
        BY <1>2
      <4>2. links[e].next \in C
        BY <1>1, <1>2, <2>1 DEF Closed
      <4>. QED  BY <4>1, <4>2
    <3>. QED  BY <3>1, <3>2 DEF Closed
  <2>3. C \ {a} \in SUBSET LinkNodes
    OBVIOUS
  <2>4. InList(links) \subseteq C \ {a}
    BY <2>2, <2>3 DEF Linked, Reached
  <2>. QED  BY <1>4, <2>1, <2>4
<1>. QED  BY <1>1, <1>3, <1>4, <1>5 DEF Linked, l

LEMMA RemoveLinked ==
    ASSUME NEW l, Linked(l), NEW a \in ALARMS
    PROVE  Linked(Remove(l, a)) /\ InList(Remove(l, a)) = InList(l) \ {a}
<1>. DEFINE r == Remove(l, a)
            n == l[a].next
            p == l[a].previous
<1>1. /\ r \in LinkType
      /\ \A e \in LinkNodes :
            /\ r[e].next = IF e = a THEN a ELSE IF e = p THEN n ELSE l[e].next
            /\ r[e].previous = IF e = a THEN a ELSE IF e = n THEN p ELSE l[e].previous
  BY RemoveFields DEF Linked
<1>. HIDE DEF r
<1>2. /\ a \in LinkNodes /\ "list" \in LinkNodes /\ a # "list" /\ n \in LinkNodes /\ p \in LinkNodes
      /\ \A e \in LinkNodes : l[e].next \in LinkNodes /\ l[e].previous \in LinkNodes
      /\ \A e \in LinkNodes : l[l[e].next].previous = e /\ l[l[e].previous].next = e
      /\ ALARMS \subseteq LinkNodes
  <2>1. \A e \in LinkNodes : l[l[e].next].previous = e /\ l[l[e].previous].next = e
    BY DEF Linked, Paired
  <2>2. a \in LinkNodes /\ "list" \in LinkNodes /\ a # "list" /\ ALARMS \subseteq LinkNodes
    BY HeadIsNoAlarm DEF LinkNodes
  <2>3. \A e \in LinkNodes : l[e].next \in LinkNodes /\ l[e].previous \in LinkNodes
    BY DEF Linked, LinkType
  <2>. QED  BY <2>1, <2>2, <2>3
<1>3. Paired(r)
  <2>. SUFFICES ASSUME NEW e \in LinkNodes
                PROVE  r[r[e].next].previous = e /\ r[r[e].previous].next = e
    BY DEF Paired
  <2>1. r[r[e].next].previous = e
    BY <1>1, <1>2
  <2>2. r[r[e].previous].next = e
    BY <1>1, <1>2
  <2>. QED  BY <2>1, <2>2
<1>4. p \in ALARMS /\ p # a => n # p
  <2>. SUFFICES ASSUME p \in ALARMS, p # a, n = p  PROVE FALSE
    OBVIOUS
  <2>1. l[p].next = a /\ l[p].previous = a
    BY <1>2
  <2>2. Closed(l, LinkNodes \ {a, p})
    <3>1. p # "list"
      BY HeadIsNoAlarm
    <3>2. ASSUME NEW e \in LinkNodes \ {a, p}
          PROVE  l[e].next \in LinkNodes \ {a, p}
      BY <1>2, <2>1
    <3>. QED  BY <1>2, <3>1, <3>2 DEF Closed
  <2>3. LinkNodes \ {a, p} \in SUBSET LinkNodes
    OBVIOUS
  <2>4. a \in InList(l)
    BY DEF InList
  <2>. QED  BY <2>2, <2>3, <2>4 DEF Linked, Reached
<1>5. InList(r) = InList(l) \ {a}
  <2>1. r[a].next = a
    BY <1>1, <1>2
  <2>2. \A e \in ALARMS : e # a => (r[e].next = e <=> l[e].next = e)
    <3>. SUFFICES ASSUME NEW e \in ALARMS, e # a  PROVE r[e].next = e <=> l[e].next = e
      OBVIOUS
    <3>1. CASE e = p
      BY <1>1, <1>2, <1>4, <3>1
    <3>2. CASE e # p
      BY <1>1, <1>2, <3>2
    <3>. QED  BY <3>1, <3>2
  <2>. QED  BY <2>1, <2>2 DEF InList
<1>6. Reached(r)
  <2>. SUFFICES ASSUME NEW C \in SUBSET LinkNodes, Closed(r, C)
                PROVE  InList(r) \subseteq C
    BY DEF Reached
  <2>0. "list" \in C /\ \A e \in C : r[e].next \in C
    BY DEF Closed
  <2>1. CASE p \in C
    <3>1. p # a => n \in C
      BY <1>1, <2>0, <2>1
    <3>2. Closed(l, C \cup {a})
      <4>1. ASSUME NEW e \in C \cup {a}  PROVE l[e].next \in C \cup {a}
        <5>1. CASE e = a
          BY <1>2, <3>1, <5>1
        <5>2. CASE e = p /\ e # a
          BY <1>2, <5>2
        <5>3. CASE e # a /\ e # p
          BY <1>1, <2>0, <5>3
        <5>. QED  BY <5>1, <5>2, <5>3
      <4>. QED  BY <2>0, <4>1 DEF Closed
    <3>3. C \cup {a} \in SUBSET LinkNodes
      BY <1>2
    <3>4. InList(l) \subseteq C \cup {a}
      BY <3>2, <3>3 DEF Linked, Reached
    <3>. QED  BY <1>5, <3>4
  <2>2. CASE p \notin C
    <3>1. Closed(l, C \ {a})
      <4>1. ASSUME NEW e \in C \ {a}  PROVE l[e].next \in C \ {a}
        <5>1. l[e].next \in C
          BY <1>1, <2>0, <2>2
        <5>2. l[e].next # a
          BY <1>2, <2>2
        <5>. QED  BY <5>1, <5>2
      <4>. QED  BY <1>2, <2>0, <4>1 DEF Closed
    <3>2. C \ {a} \in SUBSET LinkNodes
      OBVIOUS
    <3>3. InList(l) \subseteq C \ {a}
      BY <3>1, <3>2 DEF Linked, Reached
    <3>. QED  BY <1>5, <3>3
  <2>. QED  BY <2>1, <2>2
<1>. QED  BY <1>1, <1>3, <1>5, <1>6 DEF Linked, r

LEMMA LinkFacts ==
    ASSUME NEW l, Linked(l)
    PROVE  /\ ALARMS \subseteq LinkNodes /\ "list" \in LinkNodes /\ InList(l) \subseteq ALARMS
           /\ \A e \in LinkNodes : l[e].next \in LinkNodes /\ l[e].previous \in LinkNodes
           /\ \A e \in LinkNodes : l[l[e].next].previous = e /\ l[l[e].previous].next = e
           /\ \A a \in ALARMS : a \notin InList(l) => l[a].next = a /\ l[a].previous = a
<1>1. \A e \in LinkNodes : l[l[e].next].previous = e /\ l[l[e].previous].next = e
  BY DEF Linked, Paired
<1>2. \A e \in LinkNodes : l[e].next \in LinkNodes /\ l[e].previous \in LinkNodes
  BY DEF Linked, LinkType
<1>3. ALARMS \subseteq LinkNodes /\ "list" \in LinkNodes /\ InList(l) \subseteq ALARMS
  BY DEF LinkNodes, InList
<1>4. \A a \in ALARMS : a \notin InList(l) => l[a].next = a
  BY DEF InList
<1>. QED  BY <1>1, <1>2, <1>3, <1>4

\* What is next to an alarm that is listed is listed.
LEMMA NextIsListed ==
    ASSUME NEW l, Linked(l), NEW a \in InList(l)
    PROVE  /\ l[a].next \in InList(l) \cup {"list"} /\ l[a].next # a
           /\ l["list"].next \in InList(l) \cup {"list"}
<1>1. l[a].next # a
  BY DEF InList
<1>2. ASSUME NEW e \in InList(l) \cup {"list"}, l[e].next # "list"
      PROVE  l[e].next \in InList(l)
  <2>1. e \in LinkNodes /\ l[e].next \in ALARMS
    BY <1>2, LinkFacts DEF LinkNodes
  <2>2. l[l[e].next].previous = e
    BY <2>1, LinkFacts
  <2>3. CASE l[e].next \notin InList(l)
    <3>1. l[l[e].next].previous = l[e].next
      BY <2>1, <2>3, LinkFacts
    <3>2. l[e].next = e
      BY <2>2, <3>1
    <3>3. e \in InList(l) => l[e].next # e
      BY DEF InList
    <3>. QED  BY <1>2, <3>2, <3>3
  <2>. QED  BY <2>3
<1>. QED  BY <1>1, <1>2

\* Once a tick is at the head again it has been to every alarm that is listed.
LEMMA AllSeen ==
    ASSUME NEW l, Linked(l), NEW seen, FirstOnes(l, seen, "list")
    PROVE  seen = InList(l)
<1>1. seen \subseteq InList(l) /\ \A e \in seen \cup {"list"} : l[e].next \in seen \cup {"list"}
  BY DEF FirstOnes
<1>2. Closed(l, seen \cup {"list"})
  BY <1>1 DEF Closed
<1>3. seen \cup {"list"} \in SUBSET LinkNodes
  BY <1>1, LinkFacts
<1>4. InList(l) \subseteq seen \cup {"list"}
  BY <1>2, <1>3 DEF Linked, Reached
<1>5. "list" \notin InList(l)
  BY LinkFacts, HeadIsNoAlarm
<1>. QED  BY <1>1, <1>4, <1>5

\* A tick begins at the first, and has seen none.
LEMMA NoneSeen ==
    ASSUME NEW l, Linked(l)
    PROVE  FirstOnes(l, {}, l["list"].next)
<1>1. l["list"].next \in LinkNodes /\ l[l["list"].next].previous = "list"
  BY LinkFacts
<1>2. l["list"].next \in InList(l) \cup {"list"}
  <2>. SUFFICES ASSUME l["list"].next \in ALARMS, l["list"].next \notin InList(l)  PROVE FALSE
    BY <1>1 DEF LinkNodes
  <2>1. l[l["list"].next].previous = l["list"].next
    BY LinkFacts
  <2>. QED  BY <1>1, <2>1, HeadIsNoAlarm
<1>. QED  BY <1>1, <1>2 DEF FirstOnes

\* It goes to the next alarm.
LEMMA SeenNext ==
    ASSUME NEW l, Linked(l), NEW seen, NEW v \in ALARMS, FirstOnes(l, seen, v)
    PROVE  FirstOnes(l, seen \cup {v}, l[v].next)
<1>1. /\ v \in InList(l) /\ v # "list" /\ v \in LinkNodes /\ seen \subseteq InList(l) /\ v \notin seen
      /\ \A e \in seen \cup {v} : l[e].previous \in seen \cup {"list"}
      /\ \A e \in seen \cup {"list"} : l[e].next \in seen \cup {v}
  BY HeadIsNoAlarm, LinkFacts DEF FirstOnes
<1>2. l[v].next \in InList(l) \cup {"list"} /\ l[v].next # v /\ l[l[v].next].previous = v
  BY <1>1, NextIsListed, LinkFacts
<1>3. l[v].next \notin seen \cup {v}
  <2>. SUFFICES ASSUME l[v].next \in seen  PROVE FALSE
    BY <1>2
  <2>1. l[l[v].next].previous \in seen \cup {"list"}
    BY <1>1
  <2>. QED  BY <1>1, <1>2, <2>1
<1>4. \A e \in (seen \cup {v}) \cup {"list"} : l[e].next \in (seen \cup {v}) \cup {l[v].next}
  BY <1>1
<1>5. \A e \in (seen \cup {v}) \cup {l[v].next} : e # "list" => l[e].previous \in (seen \cup {v}) \cup {"list"}
  BY <1>1, <1>2
<1>6. seen \cup {v} \subseteq InList(l)
  BY <1>1
<1>. QED  BY <1>2, <1>3, <1>4, <1>5, <1>6 DEF FirstOnes

\* An alarm that is not the one to come to may be removed.
LEMMA SeenRemove ==
    ASSUME NEW l, Linked(l), NEW seen, NEW v, FirstOnes(l, seen, v), NEW a \in ALARMS, a # v
    PROVE  FirstOnes(Remove(l, a), seen \ {a}, v)
<1>. DEFINE r == Remove(l, a)
            n == l[a].next
            p == l[a].previous
<1>1. \A e \in LinkNodes :
         /\ r[e].next = IF e = a THEN a ELSE IF e = p THEN n ELSE l[e].next
         /\ r[e].previous = IF e = a THEN a ELSE IF e = n THEN p ELSE l[e].previous
  BY RemoveFields DEF Linked
<1>2. InList(r) = InList(l) \ {a}
  BY RemoveLinked
<1>. HIDE DEF r
<1>3. /\ seen \subseteq InList(l) /\ v \in InList(l) \cup {"list"} /\ v \notin seen
      /\ \A e \in seen \cup {v} : e # "list" => l[e].previous \in seen \cup {"list"}
      /\ \A e \in seen \cup {"list"} : l[e].next \in seen \cup {v}
  BY DEF FirstOnes
<1>4. /\ ALARMS \subseteq LinkNodes /\ "list" \in LinkNodes /\ InList(l) \subseteq ALARMS /\ a # "list"
      /\ \A e \in LinkNodes : l[l[e].next].previous = e /\ l[l[e].previous].next = e
  BY LinkFacts, HeadIsNoAlarm
<1>5. seen \subseteq LinkNodes /\ v \in LinkNodes /\ a \in LinkNodes
  BY <1>3, <1>4
<1>6. ASSUME NEW e \in (seen \ {a}) \cup {v}, e # "list"
      PROVE  r[e].previous \in (seen \ {a}) \cup {"list"}
  <2>1. e \in LinkNodes /\ e # a
    BY <1>5
  <2>2. l[e].previous \in seen \cup {"list"}
    BY <1>3, <1>6
  <2>3. CASE e = n
    <3>1. l[e].previous = a
      BY <1>4, <1>5, <2>3
    <3>2. a \in seen
      BY <1>4, <2>2, <3>1
    <3>3. p \in seen \cup {"list"}
      BY <1>3, <1>4, <3>2
    <3>4. p # a
      <4>1. a \in InList(l)
        BY <1>3, <3>2
      <4>2. l[a].next # a
        BY <4>1 DEF InList
      <4>. QED  BY <1>4, <1>5, <4>2
    <3>5. r[e].previous = p
      BY <1>1, <2>1, <2>3
    <3>. QED  BY <3>3, <3>4, <3>5
  <2>4. CASE e # n
    <3>1. r[e].previous = l[e].previous
      BY <1>1, <2>1, <2>4
    <3>2. l[e].previous # a
      BY <1>4, <2>1, <2>4
    <3>. QED  BY <2>2, <3>1, <3>2
  <2>. QED  BY <2>3, <2>4
<1>7. ASSUME NEW e \in (seen \ {a}) \cup {"list"}
      PROVE  r[e].next \in (seen \ {a}) \cup {v}
  <2>1. e \in LinkNodes /\ e # a /\ l[e].next \in seen \cup {v}
    BY <1>3, <1>4, <1>5
  <2>2. CASE e = p
    <3>1. l[e].next = a
      BY <1>4, <1>5, <2>2
    <3>2. a \in seen
      BY <2>1, <3>1
    <3>3. n \in seen \cup {v}
      BY <1>3, <3>2
    <3>4. n # a
      <4>1. a \in InList(l)
        BY <1>3, <3>2
      <4>. QED  BY <4>1 DEF InList
    <3>5. r[e].next = n
      BY <1>1, <2>1, <2>2
    <3>. QED  BY <3>3, <3>4, <3>5
  <2>3. CASE e # p
    <3>1. r[e].next = l[e].next
      BY <1>1, <2>1, <2>3
    <3>2. l[e].next # a
      BY <1>4, <2>1, <2>3
    <3>. QED  BY <2>1, <3>1, <3>2
  <2>. QED  BY <2>2, <2>3
<1>8. seen \ {a} \subseteq InList(r) /\ v \in InList(r) \cup {"list"} /\ v \notin seen \ {a}
  BY <1>2, <1>3
<1>. QED  BY <1>6, <1>7, <1>8 DEF FirstOnes, r

\* An alarm that is inserted is not visited by the tick.
LEMMA SeenInsert ==
    ASSUME Linked(links), NEW seen, NEW v, FirstOnes(links, seen, v), NEW a \in ALARMS \ InList(links)
    PROVE  FirstOnes(Insert(a), seen \cup {a}, v)
<1>. DEFINE l == Insert(a)
            first == links["list"].next
<1>1. \A e \in LinkNodes :
         /\ l[e].next = IF e = "list" THEN a ELSE IF e = a THEN first ELSE links[e].next
         /\ l[e].previous = IF e = a THEN "list" ELSE IF e = first THEN a ELSE links[e].previous
  BY InsertFields DEF Linked
<1>2. InList(l) = InList(links) \cup {a}
  BY InsertLinked
<1>. HIDE DEF l
<1>3. /\ seen \subseteq InList(links) /\ v \in InList(links) \cup {"list"} /\ v \notin seen
      /\ \A e \in seen \cup {v} : e # "list" => links[e].previous \in seen \cup {"list"}
      /\ \A e \in seen \cup {"list"} : links[e].next \in seen \cup {v}
  BY DEF FirstOnes
<1>4. ALARMS \subseteq LinkNodes /\ "list" \in LinkNodes /\ InList(links) \subseteq ALARMS /\ a # "list"
  BY LinkFacts, HeadIsNoAlarm
<1>5. v # a /\ seen \subseteq LinkNodes /\ v \in LinkNodes /\ a \in LinkNodes
  BY <1>3, <1>4
<1>6. \A e \in (seen \cup {a}) \cup {v} : e # "list" => l[e].previous \in (seen \cup {a}) \cup {"list"}
  BY <1>1, <1>3, <1>5
<1>7. \A e \in (seen \cup {a}) \cup {"list"} : l[e].next \in (seen \cup {a}) \cup {v}
  BY <1>1, <1>3, <1>4, <1>5
<1>8. seen \cup {a} \subseteq InList(l) /\ v \in InList(l) \cup {"list"} /\ v \notin seen \cup {a}
  BY <1>2, <1>3, <1>5
<1>. QED  BY <1>6, <1>7, <1>8 DEF FirstOnes, l

\* A sum of two numbers below M, modulo M.
LEMMA ModOnce ==
    ASSUME NEW M \in Nat, NEW t \in 0 .. M - 1, NEW d \in 0 .. M - 1
    PROVE  (t + d) % M = (IF t + d < M THEN t + d ELSE t + d - M)
<1>1. M > 0
  OBVIOUS
<1>2. CASE t + d < M
  BY <1>1, <1>2, Z3T(60)
<1>3. CASE t + d >= M
  <2>1. t + d = 1 * M + (t + d - M) /\ t + d - M \in 0 .. M - 1
    BY <1>3
  <2>. QED  BY <1>1, <1>3, <2>1, Z3T(60)
<1>. QED  BY <1>2, <1>3

\* The time of an alarm that is due in d ticks, and whether it is past the roll over.
LEMMA DueTime ==
    ASSUME NEW t \in 0 .. Round - 1, NEW d \in 1 .. MAX_PERIOD + 1
    PROVE  (t + d) % Round \in Int /\ ((t + d) % Round < t <=> t + d >= Round)
<1>1. Round \in Nat /\ d \in 0 .. Round - 1 /\ d > 0
  BY RoundFacts
<1>2. (t + d) % Round = (IF t + d < Round THEN t + d ELSE t + d - Round)
  BY <1>1, ModOnce
<1>3. CASE t + d < Round
  BY <1>1, <1>2, <1>3
<1>4. CASE t + d >= Round
  BY <1>1, <1>2, <1>4
<1>. QED  BY <1>1, <1>3, <1>4

\* When a tick comes to an alarm, it expires if it is due, and the flag is what it
\* will be.
LEMMA ExpiredIsDue ==
    ASSUME AlarmTypes, NEW a \in ALARMS, Waits(a)
    PROVE  (Expired(a) <=> due[a] = 0) /\ (Rolls(a) <=> nticks + due[a] >= Round)
<1>1. /\ Round \in Nat /\ nticks \in 0 .. Round - 1 /\ due[a] \in 0 .. Round - 1
      /\ time[a] = (nticks + due[a]) % Round
      /\ rollover[a] <=> (nticks + due[a] >= Round \/ nticks = 0)
  BY RoundFacts DEF AlarmTypes, Waits, InTime
<1>2. Rolls(a) <=> nticks + due[a] >= Round
  BY <1>1 DEF Rolls
<1>3. time[a] = (IF nticks + due[a] < Round THEN nticks + due[a] ELSE nticks + due[a] - Round)
  BY <1>1, ModOnce
<1>4. CASE nticks + due[a] < Round
  <2>1. time[a] = nticks + due[a] /\ ~Rolls(a)
    BY <1>1, <1>2, <1>3, <1>4
  <2>. QED  BY <1>1, <1>2, <2>1 DEF Expired
<1>5. CASE nticks + due[a] >= Round
  <2>1. Rolls(a) /\ due[a] # 0
    BY <1>1, <1>2, <1>5
  <2>. QED  BY <1>2, <2>1 DEF Expired
<1>. QED  BY <1>1, <1>4, <1>5

\* Between ticks every alarm rests.
LEMMA AtRest ==
    ASSUME AlarmInv, visit = "list"
    PROVE  FirstOnes(links, InList(links), "list") /\ \A a \in InList(links) : Rests(a)
<1>1. PICK seen \in SUBSET ALARMS : FirstOnes(links, seen, visit) /\ Timed(seen)
  BY DEF AlarmInv
<1>2. Linked(links)
  BY DEF AlarmInv
<1>3. FirstOnes(links, seen, "list")
  BY <1>1
<1>4. seen = InList(links)
  BY <1>2, <1>3, AllSeen
<1>. QED  BY <1>1, <1>3, <1>4 DEF Timed

\* In a tick the alarm it comes to waits.
LEMMA AtVisit ==
    ASSUME AlarmInv, NEW a \in ALARMS, visit = a
    PROVE  /\ a \in InList(links) /\ Waits(a)
           /\ \E seen \in SUBSET ALARMS : FirstOnes(links, seen, a) /\ Timed(seen)
<1>1. PICK seen \in SUBSET ALARMS : FirstOnes(links, seen, visit) /\ Timed(seen)
  BY DEF AlarmInv
<1>2. a \in InList(links) /\ a \notin seen
  BY <1>1, HeadIsNoAlarm DEF FirstOnes
<1>3. Waits(a)
  BY <1>1, <1>2 DEF Timed
<1>. QED  BY <1>1, <1>2, <1>3

LEMMA AlarmInvAgain ==
    ASSUME AlarmTypes', Linked(links'), NEW seen \in SUBSET ALARMS, FirstOnes(links', seen, visit'),
           \A a \in InList(links') : IF a \in seen THEN Rests(a)' ELSE Waits(a)'
    PROVE  AlarmInv'
BY DEF AlarmInv, Timed

\* An alarm that a step does not set is in time as before.
Same(a) == nticks' = nticks /\ time'[a] = time[a] /\ due'[a] = due[a] /\ rollover'[a] = rollover[a]

LEMMA SameInTime ==
    ASSUME NEW a, Same(a)
    PROVE  (Rests(a)' <=> Rests(a)) /\ (Waits(a)' <=> Waits(a))
BY DEF Same, Rests, Waits, InTime

\* An alarm that is set to expire in d ticks.
LEMMA SetRests ==
    ASSUME AlarmTypes, NEW a \in ALARMS, NEW d \in 1 .. MAX_PERIOD + 1, nticks' = nticks,
           due'[a] = d, time'[a] = (nticks + d) % Round, rollover'[a] <=> time'[a] < nticks
    PROVE  Rests(a)'
<1>1. nticks \in 0 .. Round - 1
  BY DEF AlarmTypes
<1>2. (nticks + d) % Round < nticks <=> nticks + d >= Round
  BY <1>1, DueTime
<1>3. d > 0 /\ d <= MAX_PERIOD + 1
  BY RoundFacts
<1>4. rollover'[a] <=> nticks + d >= Round
  BY <1>2
<1>. QED  BY <1>3, <1>4 DEF Rests, InTime

LEMMA StartKeeps ==
    ASSUME AlarmInv, NEW a \in ALARMS, NEW n \in 0 .. MAX_PERIOD, Start(a, n)
    PROVE  AlarmInv'
<1>. DEFINE when == Wrap(n + nticks + 1)
<1>1. /\ visit = "list" /\ visit' = "list" /\ ~Listed(a) /\ nticks' = nticks /\ links' = Insert(a)
      /\ time' = [time EXCEPT ![a] = when] /\ rollover' = [rollover EXCEPT ![a] = TimeRolls(a, when)]
      /\ due' = [due EXCEPT ![a] = n + 1]
  BY DEF Start
<1>2. AlarmTypes /\ Linked(links)
  BY DEF AlarmInv
<1>3. n + 1 \in 1 .. MAX_PERIOD + 1 /\ nticks \in 0 .. Round - 1
  BY <1>2, RoundFacts DEF AlarmTypes
<1>4. when = (nticks + (n + 1)) % Round
  <2>1. n + nticks + 1 = nticks + (n + 1)
    BY <1>3
  <2>. QED  BY <2>1 DEF Wrap, Round
<1>5. when \in Int
  BY <1>3, <1>4, DueTime
<1>. HIDE DEF when
<1>6. AlarmTypes'
  BY <1>1, <1>2, <1>3, <1>5 DEF AlarmTypes, TimeRolls
<1>7. a \in ALARMS \ InList(links)
  BY <1>1 DEF Listed, InList
<1>8. Linked(links') /\ InList(links') = InList(links) \cup {a}
  BY <1>1, <1>2, <1>7, InsertLinked
<1>9. FirstOnes(links, InList(links), "list") /\ \A b \in InList(links) : Rests(b)
  BY <1>1, AtRest
<1>10. FirstOnes(links', InList(links) \cup {a}, visit')
  BY <1>1, <1>2, <1>7, <1>9, SeenInsert
<1>11. Rests(a)'
  <2>1. due'[a] = n + 1 /\ time'[a] = when /\ (rollover'[a] <=> when < nticks)
    BY <1>1, <1>2 DEF AlarmTypes, TimeRolls
  <2>. QED  BY <1>1, <1>2, <1>3, <1>4, <2>1, SetRests
<1>12. ASSUME NEW b \in InList(links)  PROVE Rests(b)'
  <2>1. b # a /\ b \in ALARMS
    BY <1>7 DEF InList
  <2>2. Same(b)
    BY <1>1, <1>2, <2>1 DEF Same, AlarmTypes
  <2>. QED  BY <1>9, <2>2, SameInTime
<1>13. InList(links) \cup {a} \in SUBSET ALARMS
  BY DEF InList
<1>. QED  BY <1>6, <1>8, <1>10, <1>11, <1>12, <1>13, AlarmInvAgain

LEMMA StopKeeps ==
    ASSUME AlarmInv, NEW a \in ALARMS, Stop(a)
    PROVE  AlarmInv'
<1>1. /\ visit = "list" /\ visit' = "list" /\ links' = Remove(links, a)
      /\ UNCHANGED <<nticks, time, rollover, due>>
  BY DEF Stop
<1>2. AlarmTypes /\ Linked(links)
  BY DEF AlarmInv
<1>3. AlarmTypes'
  BY <1>1, <1>2 DEF AlarmTypes
<1>4. Linked(links') /\ InList(links') = InList(links) \ {a}
  BY <1>1, <1>2, RemoveLinked
<1>5. FirstOnes(links, InList(links), "list") /\ \A b \in InList(links) : Rests(b)
  BY <1>1, AtRest
<1>6. FirstOnes(links', InList(links) \ {a}, visit')
  BY <1>1, <1>2, <1>5, SeenRemove, HeadIsNoAlarm
<1>7. ASSUME NEW b \in InList(links)  PROVE Rests(b)'
  <2>1. Same(b)
    BY <1>1 DEF Same
  <2>. QED  BY <1>5, <2>1, SameInTime
<1>8. InList(links) \ {a} \in SUBSET ALARMS
  BY DEF InList
<1>. QED  BY <1>3, <1>4, <1>6, <1>7, <1>8, AlarmInvAgain

\* The counter and the ticks that are left go on together; where the counter rolls
\* over all the flags are up.
LEMMA TickKeeps ==
    ASSUME AlarmInv, Tick
    PROVE  AlarmInv'
<1>1. /\ visit = "list" /\ visit' = links["list"].next /\ nticks' = (nticks + 1) % Round
      /\ due' = [a \in ALARMS |-> IF Listed(a) THEN due[a] - 1 ELSE due[a]]
      /\ UNCHANGED <<links, time, rollover>>
  BY DEF Tick, Wrap, Round
<1>2. AlarmTypes /\ Linked(links) /\ Round \in Nat /\ 1 \in 0 .. Round - 1
  BY RoundFacts DEF AlarmInv
<1>3. nticks' = (IF nticks + 1 < Round THEN nticks + 1 ELSE nticks + 1 - Round) /\ nticks \in 0 .. Round - 1
  BY <1>1, <1>2, ModOnce DEF AlarmTypes
<1>4. AlarmTypes'
  <2>1. nticks' \in 0 .. Round - 1
    BY <1>2, <1>3
  <2>2. due' \in [ALARMS -> Int]
    BY <1>1, <1>2 DEF AlarmTypes
  <2>. QED  BY <1>1, <1>2, <2>1, <2>2 DEF AlarmTypes
<1>5. Linked(links') /\ InList(links') = InList(links)
  BY <1>1, <1>2
<1>6. FirstOnes(links', {}, visit')
  BY <1>1, <1>2, NoneSeen
<1>7. \A a \in InList(links) : Rests(a)
  BY <1>1, AtRest
<1>8. ASSUME NEW a \in InList(links)  PROVE Waits(a)'
  <2>1. a \in ALARMS /\ Rests(a) /\ due'[a] = due[a] - 1 /\ due[a] \in Int
    BY <1>1, <1>2, <1>7 DEF InList, Listed, AlarmTypes
  <2>2. /\ due[a] > 0 /\ due[a] <= MAX_PERIOD + 1 /\ due[a] <= Round - 1
        /\ time[a] = (nticks + due[a]) % Round
        /\ rollover[a] <=> nticks + due[a] >= Round
    BY <2>1, RoundFacts DEF Rests, InTime
  <2>3. due'[a] >= 0 /\ due'[a] <= MAX_PERIOD /\ due'[a] <= MAX_PERIOD + 1
    BY <2>1, <2>2, RoundFacts
  <2>4. rollover'[a] <=> (nticks' + due'[a] >= Round \/ nticks' = 0)
    BY <1>1, <1>2, <1>3, <2>1, <2>2
  <2>5. time[a] = (IF nticks + due[a] < Round THEN nticks + due[a] ELSE nticks + due[a] - Round)
    BY <1>2, <1>3, <2>1, <2>2, ModOnce
  <2>6. (nticks' + due'[a]) % Round
        = (IF nticks' + due'[a] < Round THEN nticks' + due'[a] ELSE nticks' + due'[a] - Round)
    <3>1. nticks' \in 0 .. Round - 1 /\ due'[a] \in 0 .. Round - 1
      BY <1>2, <1>3, <2>1, <2>2
    <3>. QED  BY <1>2, <3>1, ModOnce
  <2>7. time'[a] = (nticks' + due'[a]) % Round
    <3>1. CASE nticks + 1 < Round
      <4>1. nticks' + due'[a] = nticks + due[a]
        BY <1>3, <2>1, <3>1
      <4>. QED  BY <1>1, <2>2, <4>1
    <3>2. CASE ~(nticks + 1 < Round)
      <4>1. nticks' = 0 /\ nticks = Round - 1
        BY <1>2, <1>3, <3>2
      <4>2. (nticks' + due'[a]) % Round = due[a] - 1
        BY <1>2, <2>1, <2>2, <2>6, <4>1
      <4>3. time[a] = due[a] - 1
        BY <1>2, <2>1, <2>2, <2>5, <4>1
      <4>. QED  BY <1>1, <4>2, <4>3
    <3>. QED  BY <3>1, <3>2
  <2>. QED  BY <2>3, <2>4, <2>7 DEF Waits, InTime
<1>. QED  BY <1>4, <1>5, <1>6, <1>8, AlarmInvAgain

LEMMA QuietKeeps ==
    ASSUME AlarmInv, NEW a \in ALARMS, Quiet(a)
    PROVE  AlarmInv'
<1>1. /\ visit = a /\ visit' = links[a].next /\ ~Expired(a)
      /\ rollover' = [rollover EXCEPT ![a] = Rolls(a)]
      /\ UNCHANGED <<nticks, links, time, due>>
  BY DEF Quiet
<1>2. AlarmTypes /\ Linked(links)
  BY DEF AlarmInv
<1>3. a \in InList(links) /\ Waits(a)
  BY <1>1, AtVisit
<1>4. PICK seen \in SUBSET ALARMS : FirstOnes(links, seen, a) /\ Timed(seen)
  BY <1>1, AtVisit
<1>5. (Expired(a) <=> due[a] = 0) /\ (Rolls(a) <=> nticks + due[a] >= Round)
  BY <1>2, <1>3, ExpiredIsDue
<1>6. AlarmTypes'
  <2>1. Rolls(a) \in BOOLEAN
    BY <1>2 DEF Rolls, AlarmTypes
  <2>. QED  BY <1>1, <1>2, <2>1 DEF AlarmTypes
<1>7. Linked(links') /\ InList(links') = InList(links)
  BY <1>1, <1>2
<1>8. FirstOnes(links', seen \cup {a}, visit')
  BY <1>1, <1>2, <1>4, SeenNext
<1>9. Rests(a)'
  <2>1. rollover'[a] <=> nticks + due[a] >= Round
    BY <1>1, <1>2, <1>5 DEF AlarmTypes
  <2>2. due[a] > 0
    BY <1>1, <1>2, <1>3, <1>5 DEF Waits, AlarmTypes
  <2>. QED  BY <1>1, <1>3, <2>1, <2>2 DEF Waits, Rests, InTime
<1>10. ASSUME NEW b \in InList(links), b # a
       PROVE  IF b \in seen THEN Rests(b)' ELSE Waits(b)'
  <2>1. Same(b)
    BY <1>1, <1>2, <1>10 DEF Same, AlarmTypes, InList
  <2>2. IF b \in seen THEN Rests(b) ELSE Waits(b)
    BY <1>4 DEF Timed
  <2>. QED  BY <2>1, <2>2, SameInTime
<1>11. seen \cup {a} \in SUBSET ALARMS
  OBVIOUS
<1>. QED  BY <1>6, <1>7, <1>8, <1>9, <1>10, <1>11, AlarmInvAgain

\* A callback leaves a list of which the tick has seen the first ones, up to the alarm
\* it goes to next.
LEMMA CallbackLinks ==
    ASSUME Linked(links), NEW seen \in SUBSET ALARMS, NEW a \in ALARMS,
           FirstOnes(links, seen, links[a].next), NEW l \in Callbacks(a)
    PROVE  /\ Linked(l) /\ InList(l) \subseteq InList(links)
           /\ FirstOnes(l, seen \cap InList(l), links[a].next)
<1>. DEFINE v == links[a].next
<1>1. CASE l = links
  <2>1. seen = seen \cap InList(l)
    BY <1>1 DEF FirstOnes
  <2>. QED  BY <1>1, <2>1
<1>2. CASE \E b \in ALARMS \ {v} : l = Remove(links, b)
  <2>1. PICK b \in ALARMS \ {v} : l = Remove(links, b)
    BY <1>2
  <2>2. Linked(l) /\ InList(l) = InList(links) \ {b}
    BY <2>1, RemoveLinked
  <2>3. FirstOnes(l, seen \ {b}, v)
    BY <2>1, SeenRemove
  <2>4. seen \ {b} = seen \cap InList(l)
    BY <2>2 DEF FirstOnes
  <2>. QED  BY <2>2, <2>3, <2>4
<1>. QED  BY <1>1, <1>2 DEF Callbacks

LEMMA FireKeeps ==
    ASSUME AlarmInv, NEW a \in ALARMS, NEW n \in 0 .. MAX_PERIOD, Fire(a, n)
    PROVE  AlarmInv'
<1>1. visit = a /\ visit' = links[a].next /\ Expired(a) /\ nticks' = nticks
  BY DEF Fire
<1>2. AlarmTypes /\ Linked(links)
  BY DEF AlarmInv
<1>3. a \in InList(links) /\ Waits(a)
  BY <1>1, AtVisit
<1>4. PICK seen \in SUBSET ALARMS : FirstOnes(links, seen, a) /\ Timed(seen)
  BY <1>1, AtVisit
<1>5. due[a] = 0 /\ time[a] = nticks
  <2>1. due[a] = 0
    BY <1>1, <1>2, <1>3, ExpiredIsDue
  <2>2. time[a] = (nticks + 0) % Round /\ Round \in Nat /\ nticks \in 0 .. Round - 1
    BY <1>2, <1>3, <2>1, RoundFacts DEF Waits, InTime, AlarmTypes
  <2>3. (nticks + 0) % Round = nticks
    <3>1. 0 \in 0 .. Round - 1 /\ nticks + 0 = nticks /\ nticks + 0 < Round
      BY <2>2, RoundFacts
    <3>2. (nticks + 0) % Round = (IF nticks + 0 < Round THEN nticks + 0 ELSE nticks + 0 - Round)
      BY <2>2, <3>1, ModOnce
    <3>. QED  BY <3>1, <3>2
  <2>. QED  BY <2>1, <2>2, <2>3
<1>6. FirstOnes(links, seen \cup {a}, visit') /\ seen \cup {a} \in SUBSET ALARMS
  BY <1>1, <1>2, <1>4, SeenNext
<1>7. PICK l \in Callbacks(a) :
          IF n = 0
          THEN /\ links' = Remove(l, a) /\ rollover' = [rollover EXCEPT ![a] = FALSE]
               /\ UNCHANGED <<time, due>>
          ELSE LET when == Wrap(time[a] + n)
               IN  /\ links' = l /\ time' = [time EXCEPT ![a] = when]
                   /\ rollover' = [rollover EXCEPT ![a] = TimeRolls(a, when)]
                   /\ due' = [due EXCEPT ![a] = @ + n]
  BY DEF Fire
<1>8. PICK s \in SUBSET (seen \cup {a}) :
          s = (seen \cup {a}) \cap InList(l) /\ FirstOnes(l, s, visit')
  <2>1. FirstOnes(links, seen \cup {a}, links[a].next)
    BY <1>1, <1>6
  <2>2. FirstOnes(l, (seen \cup {a}) \cap InList(l), links[a].next)
    BY <1>2, <1>6, <2>1, CallbackLinks
  <2>. QED  BY <1>1, <2>2
<1>9. Linked(l) /\ InList(l) \subseteq InList(links)
  BY <1>1, <1>2, <1>6, CallbackLinks
<1>10. ASSUME NEW b \in InList(links), b # a
       PROVE  IF b \in seen THEN Rests(b)' ELSE Waits(b)'
  <2>1. Same(b)
    BY <1>1, <1>2, <1>7, <1>10 DEF Same, AlarmTypes, InList
  <2>2. IF b \in seen THEN Rests(b) ELSE Waits(b)
    BY <1>4 DEF Timed
  <2>. QED  BY <2>1, <2>2, SameInTime
<1>11. CASE n = 0
  <2>1. links' = Remove(l, a) /\ rollover' = [rollover EXCEPT ![a] = FALSE] /\ UNCHANGED <<time, due>>
    BY <1>7, <1>11
  <2>2. AlarmTypes'
    BY <1>1, <1>2, <2>1 DEF AlarmTypes
  <2>3. Linked(links') /\ InList(links') = InList(l) \ {a}
    BY <1>9, <2>1, RemoveLinked
  <2>4. visit' # a
    BY <1>1, <1>2, <1>3, NextIsListed
  <2>5. FirstOnes(links', s \ {a}, visit')
    BY <1>8, <1>9, <2>1, <2>4, SeenRemove
  <2>6. ASSUME NEW b \in InList(links')
        PROVE  IF b \in s \ {a} THEN Rests(b)' ELSE Waits(b)'
    <3>1. b \in InList(links) /\ b # a /\ b \in InList(l)
      BY <1>9, <2>3
    <3>2. b \in s \ {a} <=> b \in seen
      BY <1>8, <3>1
    <3>. QED  BY <1>10, <3>1, <3>2
  <2>7. s \ {a} \in SUBSET ALARMS
    BY <1>6
  <2>. QED  BY <2>2, <2>3, <2>5, <2>6, <2>7, AlarmInvAgain
<1>12. CASE n # 0
  <2>. DEFINE when == Wrap(time[a] + n)
  <2>1. /\ links' = l /\ time' = [time EXCEPT ![a] = when]
        /\ rollover' = [rollover EXCEPT ![a] = TimeRolls(a, when)]
        /\ due' = [due EXCEPT ![a] = n]
    <3>1. due' = [due EXCEPT ![a] = due[a] + n]
      BY <1>7, <1>12
    <3>2. due[a] + n = n
      BY <1>5
    <3>. QED  BY <1>7, <1>12, <3>1, <3>2
  <2>2. n \in 1 .. MAX_PERIOD + 1 /\ nticks \in 0 .. Round - 1 /\ n \in Int
    BY <1>2, <1>12, RoundFacts DEF AlarmTypes
  <2>3. when = (nticks + n) % Round /\ when \in Int
    <3>1. when = (nticks + n) % Round
      BY <1>5 DEF Wrap, Round
    <3>. QED  BY <2>2, <3>1, DueTime
  <2>. HIDE DEF when
  <2>4. AlarmTypes'
    BY <1>1, <1>2, <2>1, <2>2, <2>3 DEF AlarmTypes, TimeRolls
  <2>5. Rests(a)'
    <3>1. due'[a] = n /\ time'[a] = when /\ (rollover'[a] <=> when < nticks)
      BY <1>2, <2>1 DEF AlarmTypes, TimeRolls
    <3>. QED  BY <1>1, <1>2, <2>2, <2>3, <3>1, SetRests
  <2>6. ASSUME NEW b \in InList(links')
        PROVE  IF b \in s THEN Rests(b)' ELSE Waits(b)'
    <3>1. b \in InList(links) /\ b \in InList(l)
      BY <1>9, <2>1
    <3>2. CASE b = a
      <4>1. b \in s
        BY <1>8, <3>1, <3>2
      <4>. QED  BY <2>5, <3>2, <4>1
    <3>3. CASE b # a
      <4>1. b \in s <=> b \in seen
        BY <1>8, <3>1, <3>3
      <4>. QED  BY <1>10, <3>1, <3>3, <4>1
    <3>. QED  BY <3>2, <3>3
  <2>7. s \in SUBSET ALARMS
    BY <1>6
  <2>. QED  BY <1>8, <1>9, <2>1, <2>4, <2>6, <2>7, AlarmInvAgain
<1>. QED  BY <1>11, <1>12

LEMMA FireAndStartKeeps ==
    ASSUME AlarmInv, NEW a \in ALARMS, NEW b \in ALARMS, NEW n \in 0 .. MAX_PERIOD,
           FireAndStart(a, b, n)
    PROVE  AlarmInv'
<1>. DEFINE when == Wrap(n + nticks + 1)
<1>1. /\ visit = a /\ visit' = links[a].next /\ ~Listed(b) /\ nticks' = nticks
      /\ time' = [time EXCEPT ![b] = when]
      /\ rollover' = [[rollover EXCEPT ![a] = FALSE] EXCEPT ![b] = TimeRolls(b, when)]
      /\ due' = [due EXCEPT ![b] = n + 1]
      /\ links' = Remove(Insert(b), a)
  BY DEF FireAndStart
<1>2. AlarmTypes /\ Linked(links)
  BY DEF AlarmInv
<1>3. a \in InList(links) /\ b \in ALARMS \ InList(links)
  BY <1>1, AtVisit DEF Listed, InList
<1>4. PICK seen \in SUBSET ALARMS : FirstOnes(links, seen, a) /\ Timed(seen)
  BY <1>1, AtVisit
<1>5. n + 1 \in 1 .. MAX_PERIOD + 1 /\ nticks \in 0 .. Round - 1
  BY <1>2, RoundFacts DEF AlarmTypes
<1>6. when = (nticks + (n + 1)) % Round /\ when \in Int
  <2>1. n + nticks + 1 = nticks + (n + 1)
    BY <1>5
  <2>2. when = (nticks + (n + 1)) % Round
    BY <2>1 DEF Wrap, Round
  <2>. QED  BY <1>5, <2>2, DueTime
<1>. HIDE DEF when
<1>7. AlarmTypes'
  <2>1. time' \in [ALARMS -> Int] /\ due' \in [ALARMS -> Int]
    BY <1>1, <1>2, <1>5, <1>6 DEF AlarmTypes
  <2>2. TimeRolls(b, when) \in BOOLEAN
    BY DEF TimeRolls
  <2>3. [rollover EXCEPT ![a] = FALSE] \in [ALARMS -> BOOLEAN]
    BY <1>2 DEF AlarmTypes
  <2>4. rollover' \in [ALARMS -> BOOLEAN]
    BY <1>1, <2>2, <2>3
  <2>. QED  BY <1>1, <1>2, <2>1, <2>4 DEF AlarmTypes
<1>8. Linked(Insert(b)) /\ InList(Insert(b)) = InList(links) \cup {b}
  BY <1>2, <1>3, InsertLinked
<1>9. Linked(links') /\ InList(links') = (InList(links) \cup {b}) \ {a}
  BY <1>1, <1>8, RemoveLinked
<1>10. FirstOnes(links, seen \cup {a}, visit')
  BY <1>1, <1>2, <1>4, SeenNext
<1>11. FirstOnes(Insert(b), (seen \cup {a}) \cup {b}, visit')
  BY <1>2, <1>3, <1>10, SeenInsert
<1>12. visit' # a
  BY <1>1, <1>2, <1>3, NextIsListed
<1>13. FirstOnes(links', ((seen \cup {a}) \cup {b}) \ {a}, visit')
  BY <1>1, <1>8, <1>11, <1>12, SeenRemove
<1>14. Rests(b)'
  <2>1. due'[b] = n + 1 /\ time'[b] = when /\ (rollover'[b] <=> when < nticks)
    BY <1>1, <1>2 DEF AlarmTypes, TimeRolls
  <2>. QED  BY <1>1, <1>2, <1>5, <1>6, <2>1, SetRests
<1>15. ASSUME NEW c \in InList(links')
       PROVE  IF c \in ((seen \cup {a}) \cup {b}) \ {a} THEN Rests(c)' ELSE Waits(c)'
  <2>1. c # a /\ (c = b \/ c \in InList(links))
    BY <1>9
  <2>2. CASE c = b
    BY <1>14, <2>1, <2>2
  <2>3. CASE c # b
    <3>1. Same(c)
      BY <1>1, <1>2, <2>1, <2>3 DEF Same, AlarmTypes, InList
    <3>2. IF c \in seen THEN Rests(c) ELSE Waits(c)
      BY <1>4, <2>1, <2>3 DEF Timed
    <3>3. c \in ((seen \cup {a}) \cup {b}) \ {a} <=> c \in seen
      BY <2>1, <2>3
    <3>. QED  BY <3>1, <3>2, <3>3, SameInTime
  <2>. QED  BY <2>2, <2>3
<1>16. ((seen \cup {a}) \cup {b}) \ {a} \in SUBSET ALARMS
  OBVIOUS
<1>. QED  BY <1>7, <1>9, <1>13, <1>15, <1>16, AlarmInvAgain

LEMMA AlarmInvInit == AlarmInit => AlarmInv
<1>. SUFFICES ASSUME AlarmInit  PROVE AlarmInv
  OBVIOUS
<1>1. /\ nticks \in {0, Round - 2} /\ visit = "list"
      /\ links = [e \in LinkNodes |-> [next |-> e, previous |-> e]]
      /\ time = [a \in ALARMS |-> 0] /\ rollover = [a \in ALARMS |-> FALSE]
      /\ due = [a \in ALARMS |-> 0]
  BY DEF AlarmInit, LinkNodes, Round
<1>2. AlarmTypes
  BY <1>1, RoundFacts DEF AlarmTypes
<1>3. links \in LinkType /\ \A e \in LinkNodes : links[e].next = e /\ links[e].previous = e
  BY <1>1 DEF LinkType
<1>4. InList(links) = {}
  BY <1>3 DEF InList, LinkNodes
<1>5. Linked(links)
  BY <1>3, <1>4 DEF Linked, Paired, Reached
<1>6. links["list"].next = "list"
  BY <1>3 DEF LinkNodes
<1>7. FirstOnes(links, {}, visit)
  BY <1>1, <1>5, <1>6, NoneSeen
<1>8. Timed({}) /\ {} \in SUBSET ALARMS
  BY <1>4 DEF Timed
<1>. QED  BY <1>2, <1>5, <1>7, <1>8 DEF AlarmInv

LEMMA AlarmInvNext == AlarmInv /\ [AlarmNext]_alarmVars => AlarmInv'
<1>. SUFFICES ASSUME AlarmInv, [AlarmNext]_alarmVars  PROVE AlarmInv'
  OBVIOUS
<1>1. CASE Tick
  BY <1>1, TickKeeps
<1>2. ASSUME NEW a \in ALARMS, Stop(a) \/ Quiet(a)  PROVE AlarmInv'
  BY <1>2, StopKeeps, QuietKeeps
<1>3. ASSUME NEW a \in ALARMS, NEW n \in 0 .. MAX_PERIOD, Start(a, n) \/ Fire(a, n)  PROVE AlarmInv'
  BY <1>3, StartKeeps, FireKeeps
<1>4. ASSUME NEW a \in ALARMS, NEW b \in ALARMS, NEW n \in 0 .. MAX_PERIOD, FireAndStart(a, b, n)
      PROVE  AlarmInv'
  BY <1>4, FireAndStartKeeps
<1>5. CASE UNCHANGED alarmVars
  BY <1>5 DEF alarmVars, AlarmInv, AlarmTypes, Timed, Rests, Waits, InTime
<1>. QED  BY <1>1, <1>2, <1>3, <1>4, <1>5 DEF AlarmNext

LEMMA AlarmInvOnTime == AlarmInv => AlarmsOnTime
<1>. SUFFICES ASSUME AlarmInv  PROVE AlarmsOnTime
  OBVIOUS
<1>1. visit \in ALARMS \cup {"list"} /\ AlarmTypes
  BY DEF AlarmInv, FirstOnes, InList
<1>2. ASSUME visit # "list"  PROVE Expired(visit) <=> due[visit] = 0
  <2>1. Waits(visit) /\ visit \in ALARMS
    BY <1>1, <1>2, AtVisit
  <2>. QED  BY <1>1, <2>1, ExpiredIsDue
<1>3. ASSUME visit = "list", NEW a \in ALARMS, Listed(a)  PROVE due[a] > 0
  <2>1. Rests(a)
    BY <1>3, AtRest DEF Listed, InList
  <2>. QED  BY <2>1 DEF Rests
<1>. QED  BY <1>2, <1>3 DEF AlarmsOnTime

\* An alarm expires at the tick it is due and at no other, for a counter of any width,
\* any alarms and whatever the callbacks start and stop in the middle of a tick
\* (alt_alarm_start.c lines 77-96, alt_tick.c lines 104-142).
THEOREM AlarmsExpireOnTime == AlarmSpec => []AlarmsOnTime
<1>1. AlarmInit => AlarmInv
  BY AlarmInvInit
<1>2. AlarmInv /\ [AlarmNext]_alarmVars => AlarmInv'
  BY AlarmInvNext
<1>3. AlarmInv => AlarmsOnTime
  BY AlarmInvOnTime
<1>. QED  BY <1>1, <1>2, <1>3, PTL DEF AlarmSpec
-----------------------------------------------------------------------------
(* The UART driver.                                                        *)

Slots == 0 .. BUF_LEN - 1

\* Slots from one place of a ring up to another, and the j-th of them.
Between(from, to) == (to + BUF_LEN - from) % BUF_LEN

SlotAt(from, j) == (from + j - 1) % BUF_LEN

UartTypes ==
    /\ rx_start \in Slots /\ rx_end \in Slots /\ tx_start \in Slots /\ tx_end \in Slots
    /\ rx_buf \in [0 .. BUF_LEN -> Nat] /\ tx_buf \in [0 .. BUF_LEN -> Nat]
    /\ rx_char_ready \in BOOLEAN /\ tx_ready \in BOOLEAN
    /\ tx_data \in Nat /\ tx_shift \in Nat /\ next \in Slots
    /\ came \in Nat /\ written \in Nat /\ got \in Seq(Nat) /\ out \in Seq(Nat)

\* The handler goes by the status it has read, which stays true until it acts on it.
StatusHolds ==
    /\ isr \in {"none", "clear", "rx", "tx", "control"}
    /\ isr = "rx" => "RRDY" \in status
    /\ isr \in {"clear", "rx"} /\ "RRDY" \in status => rx_char_ready
    /\ isr \in {"clear", "rx"} /\ "TRDY" \in status => tx_ready
    /\ isr = "tx" => tx_ready

InShift == IF tx_shift = 0 THEN 0 ELSE 1
InData == IF tx_ready THEN 0 ELSE 1
InRing == Between(tx_start, tx_end)

\* Characters on the way out, by their numbers; a write that found room in the ring
\* still has it when it puts a character there.
TxNumbers ==
    /\ written = Len(out) + InShift + InData + InRing + (IF at = "wadvance" THEN 1 ELSE 0)
    /\ \A i \in 1 .. Len(out) : out[i] = i
    /\ tx_shift \in {0, Len(out) + 1}
    /\ ~tx_ready => tx_data = Len(out) + InShift + 1
    /\ \A j \in 1 .. InRing : tx_buf[SlotAt(tx_start, j)] = Len(out) + InShift + InData + j
    /\ at = "wadvance" => tx_buf[tx_end] = written
    /\ at \in {"wwait", "wspin", "wput", "wadvance"} => next = Slot(tx_end + 1)
    /\ at \in {"wput", "wadvance"} => next # tx_start

\* The character that was read last has left the ring.  One that a read is about to
\* take was there when it looked: if the ring looks empty since, the handler has
\* filled it.
RxFrom == IF at = "radvance" THEN Slot(rx_start + 1) ELSE rx_start
RxHas == IF at = "rcopy" /\ rx_start = rx_end THEN BUF_LEN ELSE Between(RxFrom, rx_end)
RxAt(j) == rx_buf[SlotAt(RxFrom, j)]
LastGot == IF Len(got) = 0 THEN 0 ELSE got[Len(got)]

\* The number of the last character that the handler may have put into the ring.
LastPut == IF rx_char_ready THEN came - 1 ELSE came

RxNumbers ==
    /\ rx_char_ready => rx_data = came /\ came > 0
    /\ LastGot <= LastPut
    /\ \A i \in 1 .. Len(got) - 1 : got[i] < got[i + 1]
    /\ \A j \in 1 .. RxHas : LastGot < RxAt(j) /\ RxAt(j) <= LastPut
    /\ \A i, j \in 1 .. RxHas : i < j => RxAt(i) < RxAt(j)

\* Between calls the program has no step.
Idle == call = "none" => at = "none"

UartInv == UartTypes /\ StatusHolds /\ TxNumbers /\ RxNumbers

LEMMA RingSize == BUF_LEN \in Nat /\ BUF_LEN >= 2
BY UartAssumption

LEMMA ModTwice ==
    ASSUME NEW t \in 0 .. BUF_LEN - 1, NEW d \in 0 .. BUF_LEN
    PROVE  (t + d) % BUF_LEN = (IF t + d < BUF_LEN THEN t + d ELSE t + d - BUF_LEN)
<1>1. BUF_LEN \in Nat /\ BUF_LEN > 0
  BY RingSize
<1>2. CASE t + d < BUF_LEN
  BY <1>1, <1>2, Z3T(60)
<1>3. CASE t + d >= BUF_LEN
  <2>1. t + d = 1 * BUF_LEN + (t + d - BUF_LEN) /\ t + d - BUF_LEN \in 0 .. BUF_LEN - 1
    BY <1>1, <1>3
  <2>. QED  BY <1>1, <1>3, <2>1, Z3T(60)
<1>. QED  BY <1>1, <1>2, <1>3

\* The rings in numbers.
LEMMA NextSlot ==
    ASSUME NEW s \in Slots
    PROVE  Slot(s + 1) = (IF s + 1 < BUF_LEN THEN s + 1 ELSE 0) /\ Slot(s + 1) \in Slots
<1>1. s \in 0 .. BUF_LEN - 1 /\ 1 \in 0 .. BUF_LEN
  BY RingSize DEF Slots
<1>2. ((s + 1) % BUF_LEN) = (IF s + 1 < BUF_LEN THEN s + 1 ELSE s + 1 - BUF_LEN)
  BY <1>1, ModTwice
<1>. QED  BY <1>2, RingSize DEF Slot, Slots

LEMMA BetweenIs ==
    ASSUME NEW s \in Slots, NEW e \in Slots
    PROVE  Between(s, e) = (IF e >= s THEN e - s ELSE e + BUF_LEN - s) /\ Between(s, e) \in Slots
<1>1. e \in 0 .. BUF_LEN - 1 /\ BUF_LEN - s \in 0 .. BUF_LEN
  BY RingSize DEF Slots
<1>2. ((e + BUF_LEN - s) % BUF_LEN)
      = (IF e + BUF_LEN - s < BUF_LEN THEN e + BUF_LEN - s ELSE e + BUF_LEN - s - BUF_LEN)
  BY <1>1, ModTwice
<1>. QED  BY <1>2, RingSize DEF Between, Slots

LEMMA SlotAtIs ==
    ASSUME NEW s \in Slots, NEW j \in 1 .. BUF_LEN
    PROVE  SlotAt(s, j) = (IF s + j - 1 < BUF_LEN THEN s + j - 1 ELSE s + j - 1 - BUF_LEN)
           /\ SlotAt(s, j) \in Slots
<1>1. s \in 0 .. BUF_LEN - 1 /\ j - 1 \in 0 .. BUF_LEN
  BY RingSize DEF Slots
<1>2. ((s + j - 1) % BUF_LEN) = (IF s + j - 1 < BUF_LEN THEN s + j - 1 ELSE s + j - 1 - BUF_LEN)
  BY <1>1, ModTwice
<1>. QED  BY <1>2, RingSize DEF SlotAt, Slots

\* Taking from a ring.
LEMMA RingTake ==
    ASSUME NEW s \in Slots, NEW e \in Slots
    PROVE  /\ SlotAt(s, 1) = s
           /\ s # e => Between(Slot(s + 1), e) = Between(s, e) - 1
           /\ s = e => Between(s, e) = 0 /\ Between(Slot(s + 1), e) = BUF_LEN - 1
           /\ \A j \in 1 .. BUF_LEN - 1 : SlotAt(Slot(s + 1), j) = SlotAt(s, j + 1)
<1>1. Slot(s + 1) = (IF s + 1 < BUF_LEN THEN s + 1 ELSE 0) /\ Slot(s + 1) \in Slots
  BY NextSlot
<1>2. SlotAt(s, 1) = s
  <2>1. 1 \in 1 .. BUF_LEN
    BY RingSize
  <2>2. SlotAt(s, 1) = (IF s + 1 - 1 < BUF_LEN THEN s + 1 - 1 ELSE s + 1 - 1 - BUF_LEN)
    BY <2>1, SlotAtIs
  <2>. QED  BY <2>2, RingSize DEF Slots
<1>6. /\ Between(s, e) = (IF e >= s THEN e - s ELSE e + BUF_LEN - s)
      /\ Between(Slot(s + 1), e) = (IF e >= Slot(s + 1) THEN e - Slot(s + 1) ELSE e + BUF_LEN - Slot(s + 1))
  BY <1>1, BetweenIs, Zenon
<1>3. s # e => Between(Slot(s + 1), e) = Between(s, e) - 1
  BY <1>1, <1>6, RingSize DEF Slots
<1>4. s = e => Between(s, e) = 0 /\ Between(Slot(s + 1), e) = BUF_LEN - 1
  BY <1>1, <1>6, RingSize DEF Slots
<1>5. ASSUME NEW j \in 1 .. BUF_LEN - 1
      PROVE  SlotAt(Slot(s + 1), j) = SlotAt(s, j + 1)
  <2>1. j \in 1 .. BUF_LEN /\ j + 1 \in 1 .. BUF_LEN
    BY RingSize
  <2>2. SlotAt(s, j + 1) = (IF s + (j + 1) - 1 < BUF_LEN THEN s + (j + 1) - 1 ELSE s + (j + 1) - 1 - BUF_LEN)
    BY <2>1, SlotAtIs
  <2>3. SlotAt(Slot(s + 1), j)
        = (IF Slot(s + 1) + j - 1 < BUF_LEN THEN Slot(s + 1) + j - 1 ELSE Slot(s + 1) + j - 1 - BUF_LEN)
    BY <1>1, <2>1, SlotAtIs
  <2>. QED  BY <1>1, <2>1, <2>2, <2>3, RingSize DEF Slots
<1>. QED  BY <1>2, <1>3, <1>4, <1>5

\* Putting into a ring, which may make it look empty.
LEMMA RingPut ==
    ASSUME NEW s \in Slots, NEW e \in Slots
    PROVE  /\ Slot(e + 1) # s => Between(s, Slot(e + 1)) = Between(s, e) + 1
           /\ Slot(e + 1) = s => Between(s, Slot(e + 1)) = 0
           /\ SlotAt(s, Between(s, e) + 1) = e
           /\ \A j \in 1 .. Between(s, e) : SlotAt(s, j) # e
<1>1. Slot(e + 1) = (IF e + 1 < BUF_LEN THEN e + 1 ELSE 0) /\ Slot(e + 1) \in Slots
  BY NextSlot
<1>7. /\ Between(s, e) = (IF e >= s THEN e - s ELSE e + BUF_LEN - s)
      /\ Between(s, Slot(e + 1)) = (IF Slot(e + 1) >= s THEN Slot(e + 1) - s ELSE Slot(e + 1) + BUF_LEN - s)
  BY <1>1, BetweenIs, Zenon
<1>2. Slot(e + 1) # s => Between(s, Slot(e + 1)) = Between(s, e) + 1
  BY <1>1, <1>7, RingSize DEF Slots
<1>3. Slot(e + 1) = s => Between(s, Slot(e + 1)) = 0
  BY <1>1, <1>7, RingSize DEF Slots
<1>4. Between(s, e) = (IF e >= s THEN e - s ELSE e + BUF_LEN - s) /\ Between(s, e) \in Slots
  BY BetweenIs
<1>5. SlotAt(s, Between(s, e) + 1) = e
  <2>. DEFINE k == Between(s, e) + 1
  <2>1. k \in 1 .. BUF_LEN
    BY <1>4, RingSize DEF Slots
  <2>2. SlotAt(s, k) = (IF s + k - 1 < BUF_LEN THEN s + k - 1 ELSE s + k - 1 - BUF_LEN)
    BY <2>1, SlotAtIs
  <2>. QED  BY <1>4, <2>1, <2>2, RingSize DEF Slots
<1>6. ASSUME NEW j \in 1 .. Between(s, e)
      PROVE  SlotAt(s, j) # e
  <2>1. j \in 1 .. BUF_LEN /\ j <= Between(s, e)
    BY <1>4, RingSize DEF Slots
  <2>2. SlotAt(s, j) = (IF s + j - 1 < BUF_LEN THEN s + j - 1 ELSE s + j - 1 - BUF_LEN)
    BY <2>1, SlotAtIs
  <2>. QED  BY <1>4, <2>1, <2>2, RingSize DEF Slots
<1>. QED  BY <1>2, <1>3, <1>5, <1>6

LEMMA UartStarts == UartInit => UartInv
<1>. SUFFICES ASSUME UartInit  PROVE UartInv
  OBVIOUS
<1>1. /\ rx_start = 0 /\ rx_end = 0 /\ tx_start = 0 /\ tx_end = 0
      /\ rx_buf = [i \in 0 .. BUF_LEN |-> 0] /\ tx_buf = [i \in 0 .. BUF_LEN |-> 0]
      /\ rx_char_ready = FALSE /\ rx_data = 0
      /\ tx_ready = TRUE /\ tx_data = 0 /\ tx_shift = 0
      /\ isr = "none" /\ at = "none" /\ next = 0
      /\ came = 0 /\ got = <<>> /\ written = 0 /\ out = <<>>
  BY DEF UartInit
<1>2. 0 \in Slots /\ got \in Seq(Nat) /\ out \in Seq(Nat) /\ Len(got) = 0 /\ Len(out) = 0
  BY <1>1, RingSize DEF Slots
<1>3. rx_buf \in [0 .. BUF_LEN -> Nat] /\ tx_buf \in [0 .. BUF_LEN -> Nat]
  BY <1>1
<1>4. UartTypes
  BY <1>1, <1>2, <1>3 DEF UartTypes
<1>5. StatusHolds
  BY <1>1 DEF StatusHolds
<1>6. Between(0, 0) = 0
  BY <1>2, RingTake
<1>7. InShift = 0 /\ InData = 0 /\ InRing = 0 /\ RxHas = 0 /\ LastGot = 0 /\ LastPut = 0
  BY <1>1, <1>2, <1>6 DEF InShift, InData, InRing, RxHas, RxFrom, LastGot, LastPut
<1>8. TxNumbers
  BY <1>1, <1>2, <1>7 DEF TxNumbers
<1>9. RxNumbers
  BY <1>1, <1>2, <1>7 DEF RxNumbers
<1>. QED  BY <1>4, <1>5, <1>8, <1>9 DEF UartInv

\* What a step leaves alone.
txSide == <<written, out, tx_ready, tx_data, tx_shift, tx_start, tx_end, tx_buf>>
rxSide == <<rx_start, rx_end, rx_buf, rx_char_ready, rx_data, came, got>>

WriteInRing == {"wwait", "wspin", "wput", "wadvance"}
ReadInRing == {"rcopy", "radvance"}

LEMMA TxKept ==
    ASSUME TxNumbers, UNCHANGED txSide,
           (at' = at /\ next' = next) \/ (at' \notin WriteInRing /\ at # "wadvance")
    PROVE  TxNumbers'
BY DEF TxNumbers, txSide, WriteInRing, InShift, InData, InRing

LEMMA RxKept ==
    ASSUME RxNumbers, UNCHANGED rxSide, at' = at \/ (at \notin ReadInRing /\ at' \notin ReadInRing)
    PROVE  RxNumbers'
BY DEF RxNumbers, rxSide, ReadInRing, RxFrom, RxHas, RxAt, LastGot, LastPut

LEMMA TypesKept ==
    ASSUME UartTypes, UNCHANGED txSide, UNCHANGED rxSide, next' \in Slots
    PROVE  UartTypes'
BY DEF UartTypes, txSide, rxSide

LEMMA StatusKept ==
    ASSUME StatusHolds, isr' = isr, status' = status, rx_char_ready => rx_char_ready', tx_ready => tx_ready'
    PROVE  StatusHolds'
BY DEF StatusHolds

\* A step of the program between the rings, or of the handler that only looks.
LEMMA LeavesRings ==
    ASSUME UartInv, UNCHANGED txSide, UNCHANGED rxSide, StatusHolds', TxNumbers', RxNumbers', next' \in Slots
    PROVE  UartInv'
BY TypesKept DEF UartInv

LEMMA ProgramStatus ==
    ASSUME UartInv, UNCHANGED isrVars, UNCHANGED rxSide, UNCHANGED txSide
    PROVE  StatusHolds'
BY StatusKept DEF UartInv, isrVars, rxSide, txSide

LEMMA LooksKeep ==
    ASSUME UartInv, Interrupt \/ ClearStatus \/ TransmitControl
    PROVE  UartInv'
<1>1. UNCHANGED txSide /\ UNCHANGED rxSide /\ at' = at /\ next' = next
  BY DEF Interrupt, ClearStatus, TransmitControl, txSide, rxSide, ringVars, rxCore, txCore, callVars
<1>2. TxNumbers' /\ RxNumbers' /\ next' \in Slots
  BY <1>1, TxKept, RxKept DEF UartInv, UartTypes
<1>3. rx_char_ready' = rx_char_ready /\ tx_ready' = tx_ready
      /\ rx_char_ready \in BOOLEAN /\ tx_ready \in BOOLEAN
  BY <1>1 DEF rxSide, txSide, UartInv, UartTypes
<1>4. StatusHolds'
  <2>1. CASE Interrupt
    <3>1. isr' = "clear" /\ ("RRDY" \in status' => rx_char_ready) /\ ("TRDY" \in status' => tx_ready)
      BY <2>1 DEF Interrupt
    <3>. QED  BY <1>3, <3>1 DEF StatusHolds
  <2>2. CASE ClearStatus
    <3>1. /\ isr = "clear" /\ status' = status
          /\ \/ isr' = "rx" /\ "RRDY" \in status
             \/ isr' = "tx" /\ "TRDY" \in status
             \/ isr' = "none"
      BY <2>2 DEF ClearStatus
    <3>. QED  BY <1>3, <3>1 DEF UartInv, StatusHolds
  <2>3. CASE TransmitControl
    <3>1. isr' = "none"
      BY <2>3 DEF TransmitControl
    <3>. QED  BY <3>1 DEF StatusHolds
  <2>. QED  BY <2>1, <2>2, <2>3
<1>. QED  BY <1>1, <1>2, <1>4, LeavesRings

LEMMA IdleStep ==
    ASSUME Idle, [UartNext]_uartVars
    PROVE  Idle'
<1>1. CASE Line \/ Handler
  <2>1. call' = call /\ at' = at
    BY <1>1 DEF Line, Handler, Arrive, LoadShifter, SentOut, Interrupt, ClearStatus, ReceiveIrq,
       TransmitIrq, TransmitControl, callVars
  <2>. QED  BY <2>1 DEF Idle
<1>2. CASE Program
  <2>1. CASE ReadDone \/ WriteDone \/ CloseTest
    BY <2>1 DEF ReadDone, WriteDone, CloseTest, Step, Idle
  <2>2. CASE ~(ReadDone \/ WriteDone \/ CloseTest)
    <3>1. at # "none" /\ call' = call
      BY <1>2, <2>2 DEF Program, ReadTest, ReadCopy, ReadAdvance, ReadWait, WriteNext, WriteWait,
         WriteSpin, WritePut, WriteAdvance, Step
    <3>. QED  BY <3>1 DEF Idle
  <2>. QED  BY <2>1, <2>2
<1>3. CASE UartCaller
  <2>1. call' \in {"read", "write", "close"}
    BY <1>3 DEF UartCaller, Call
  <2>. QED  BY <2>1 DEF Idle
<1>4. CASE UNCHANGED uartVars
  BY <1>4 DEF uartVars, callVars, Idle
<1>. QED  BY <1>1, <1>2, <1>3, <1>4 DEF UartNext

\* What the program does that is no copy to or from a ring.
LEMMA CallKeeps ==
    ASSUME UartInv, Idle, NEW what \in {"read", "write", "close"}, NEW n, NEW nb, Call(what, n, nb)
    PROVE  UartInv'
<1>1. UNCHANGED txSide /\ UNCHANGED rxSide /\ UNCHANGED isrVars /\ next' = next
      /\ at = "none" /\ at' \in {"rtest", "wnext", "ctest"}
  BY DEF Call, Idle, txSide, rxSide, ringVars, rxCore, txCore
<1>2. TxNumbers' /\ RxNumbers'
  BY <1>1, TxKept, RxKept DEF UartInv, WriteInRing, ReadInRing
<1>. QED  BY <1>1, <1>2, ProgramStatus, LeavesRings DEF UartInv, UartTypes

LEMMA WaitsKeep ==
    ASSUME UartInv, ReadWait \/ ReadDone \/ WriteDone \/ CloseTest
    PROVE  UartInv'
<1>1. UNCHANGED txSide /\ UNCHANGED rxSide /\ UNCHANGED isrVars /\ next' = next
      /\ at \in {"rwait", "rdone", "wdone", "ctest"} /\ at' \in {"rtest", "rdone", "none"}
  BY DEF ReadWait, ReadDone, WriteDone, CloseTest, Step, txSide, rxSide, ringVars, rxCore, txCore
<1>2. TxNumbers' /\ RxNumbers'
  BY <1>1, TxKept, RxKept DEF UartInv, WriteInRing, ReadInRing
<1>. QED  BY <1>1, <1>2, ProgramStatus, LeavesRings DEF UartInv, UartTypes

\* A read looks for a character, a write for room.
LEMMA ReadTestKeeps ==
    ASSUME UartInv, ReadTest
    PROVE  UartInv'
<1>1. UNCHANGED txSide /\ UNCHANGED rxSide /\ UNCHANGED isrVars /\ next' = next
      /\ at = "rtest" /\ at' \in {"rcopy", "rwait", "rdone"} /\ (at' = "rcopy" => rx_start # rx_end)
  BY DEF ReadTest, RxPending, txSide, rxSide, ringVars, rxCore, txCore
<1>2. TxNumbers'
  BY <1>1, TxKept DEF UartInv, WriteInRing
<1>3. RxNumbers'
  BY <1>1 DEF UartInv, RxNumbers, rxSide, RxFrom, RxHas, RxAt, LastGot, LastPut
<1>. QED  BY <1>1, <1>2, <1>3, ProgramStatus, LeavesRings DEF UartInv, UartTypes

LEMMA WriteLooksKeep ==
    ASSUME UartInv, WriteNext \/ WriteWait \/ WriteSpin
    PROVE  UartInv'
<1>1. UNCHANGED txSide /\ UNCHANGED rxSide /\ UNCHANGED isrVars
      /\ at \in {"wnext", "wwait", "wspin"} /\ at' \in {"wdone", "wput", "wwait", "wspin"}
  BY DEF WriteNext, WriteWait, WriteSpin, Step, txSide, rxSide, ringVars, rxCore, txCore
<1>2. next' \in Slots /\ (at' # "wdone" => next' = Slot(tx_end + 1)) /\ (at' = "wput" => next' # tx_start)
  <2>1. CASE WriteNext
    <3>1. next' = Slot(tx_end + 1) /\ (at' = "wput" => next' # tx_start)
      BY <2>1 DEF WriteNext, TxRoom
    <3>. QED  BY <3>1, NextSlot DEF UartInv, UartTypes
  <2>2. CASE WriteWait \/ WriteSpin
    <3>1. next' = next /\ at \in {"wwait", "wspin"} /\ (at' = "wput" => next # tx_start)
      BY <2>2 DEF WriteWait, WriteSpin, Step, TxRoom
    <3>. QED  BY <3>1 DEF UartInv, UartTypes, TxNumbers
  <2>. QED  BY <2>1, <2>2
<1>3. TxNumbers'
  BY <1>1, <1>2 DEF UartInv, TxNumbers, txSide, InShift, InData, InRing, Slot
<1>4. RxNumbers'
  BY <1>1, RxKept DEF UartInv, ReadInRing
<1>. QED  BY <1>1, <1>2, <1>3, <1>4, ProgramStatus, LeavesRings

\* The transmit side.
LEMMA TxCounts ==
    ASSUME UartTypes
    PROVE  /\ Len(out) \in Nat /\ InShift \in {0, 1} /\ InData \in {0, 1} /\ InRing \in Slots
           /\ Len(got) \in Nat
BY BetweenIs DEF UartTypes, InShift, InData, InRing

LEMMA LoadShifterKeeps ==
    ASSUME UartInv, LoadShifter
    PROVE  UartInv'
<1>1. /\ ~tx_ready /\ tx_shift = 0 /\ tx_shift' = tx_data /\ tx_ready' = TRUE
      /\ UNCHANGED <<written, out, tx_data, tx_start, tx_end, tx_buf, at, next, isr, status>>
      /\ UNCHANGED rxSide
  BY DEF LoadShifter, ringVars, rxCore, isrVars, callVars, rxSide
<1>2. tx_data = Len(out) + 1 /\ InShift = 0 /\ InData = 1
  BY <1>1 DEF UartInv, TxNumbers, InShift, InData
<1>3. InShift' = 1 /\ InData' = 0 /\ InRing' = InRing /\ Len(out) \in Nat
  BY <1>1, <1>2, TxCounts DEF UartInv, InShift, InData, InRing
<1>4. UartTypes'
  BY <1>1 DEF UartInv, UartTypes, rxSide
<1>5. StatusHolds'
  BY <1>1, StatusKept DEF UartInv, rxSide
<1>6. TxNumbers'
  BY <1>1, <1>2, <1>3, TxCounts DEF UartInv, TxNumbers
<1>7. RxNumbers'
  BY <1>1, RxKept DEF UartInv
<1>. QED  BY <1>4, <1>5, <1>6, <1>7 DEF UartInv

LEMMA SentOutKeeps ==
    ASSUME UartInv, SentOut
    PROVE  UartInv'
<1>1. /\ tx_shift # 0 /\ out' = Append(out, tx_shift) /\ tx_shift' = 0
      /\ UNCHANGED <<written, tx_ready, tx_data, tx_start, tx_end, tx_buf, at, next, isr, status>>
      /\ UNCHANGED rxSide
  BY DEF SentOut, ringVars, rxCore, isrVars, callVars, rxSide
<1>2. out \in Seq(Nat) /\ tx_shift \in Nat /\ tx_shift = Len(out) + 1 /\ InShift = 1
  BY <1>1 DEF UartInv, UartTypes, TxNumbers, InShift
<1>3. out' \in Seq(Nat) /\ Len(out') = Len(out) + 1
      /\ \A i \in 1 .. Len(out') : out'[i] = IF i = Len(out) + 1 THEN tx_shift ELSE out[i]
  BY <1>1, <1>2
<1>4. InShift' = 0 /\ InData' = InData /\ InRing' = InRing
  BY <1>1 DEF InShift, InData, InRing
<1>5. UartTypes'
  BY <1>1, <1>3 DEF UartInv, UartTypes, rxSide
<1>6. StatusHolds'
  BY <1>1, StatusKept DEF UartInv, rxSide
<1>7. ASSUME NEW i \in 1 .. Len(out')
      PROVE  out'[i] = i
  <2>1. CASE i = Len(out) + 1
    BY <1>2, <1>3, <2>1
  <2>2. CASE i # Len(out) + 1
    <3>1. i \in 1 .. Len(out)
      BY <1>2, <1>3, <2>2
    <3>2. out[i] = i
      BY <3>1 DEF UartInv, TxNumbers
    <3>. QED  BY <1>3, <2>2, <3>2
  <2>. QED  BY <2>1, <2>2
<1>8. Len(out') + InShift' = Len(out) + InShift
  BY <1>2, <1>3, <1>4, TxCounts DEF UartInv
<1>9. TxNumbers'
  BY <1>1, <1>4, <1>7, <1>8 DEF UartInv, TxNumbers
<1>10. RxNumbers'
  BY <1>1, RxKept DEF UartInv
<1>. QED  BY <1>5, <1>6, <1>9, <1>10 DEF UartInv

\* The handler takes a character from the ring, if there is one, to the core.
LEMMA TransmitIrqKeeps ==
    ASSUME UartInv, TransmitIrq
    PROVE  UartInv'
<1>1. /\ isr = "tx" /\ isr' = "control" /\ status' = status
      /\ UNCHANGED <<written, out, tx_shift, tx_end, tx_buf, at, next>> /\ UNCHANGED rxSide
  BY DEF TransmitIrq, rxCore, callVars, rxSide
<1>2. tx_ready = TRUE /\ InData = 0 /\ InShift' = InShift
  BY <1>1 DEF UartInv, StatusHolds, UartTypes, InData, InShift
<1>3. RxNumbers'
  BY <1>1, RxKept DEF UartInv
<1>4. rx_char_ready' = rx_char_ready
  BY <1>1 DEF rxSide
<1>5. StatusHolds'
  BY <1>1, <1>4 DEF UartInv, StatusHolds
<1>6. CASE tx_start = tx_end
  <2>1. UNCHANGED <<tx_data, tx_ready, tx_start>>
    BY <1>6 DEF TransmitIrq
  <2>2. UNCHANGED txSide
    BY <1>1, <2>1 DEF txSide
  <2>3. TxNumbers' /\ next' \in Slots
    BY <1>1, <2>2, TxKept DEF UartInv, UartTypes
  <2>. QED  BY <1>1, <1>3, <1>5, <2>2, <2>3, LeavesRings
<1>7. CASE tx_start # tx_end
  <2>1. tx_data' = tx_buf[tx_start] /\ tx_ready' = FALSE /\ tx_start' = Slot(tx_start + 1)
    BY <1>7 DEF TransmitIrq
  <2>2. tx_start \in Slots /\ tx_end \in Slots /\ tx_start' \in Slots /\ tx_buf \in [0 .. BUF_LEN -> Nat]
    BY <2>1, NextSlot DEF UartInv, UartTypes
  <2>3. /\ SlotAt(tx_start, 1) = tx_start
        /\ Between(tx_start', tx_end) = Between(tx_start, tx_end) - 1
        /\ \A j \in 1 .. BUF_LEN - 1 : SlotAt(tx_start', j) = SlotAt(tx_start, j + 1)
    BY <1>7, <2>1, <2>2, RingTake
  <2>4. InRing' = InRing - 1 /\ InRing \in 0 .. BUF_LEN - 1 /\ InRing \in Nat /\ InRing >= 1 /\ InData' = 1
    <3>1. InRing' = Between(tx_start', tx_end)
      BY <1>1 DEF InRing
    <3>2. Between(tx_start', tx_end) \in Slots /\ InRing \in Slots
      BY <2>2, BetweenIs DEF InRing
    <3>. QED  BY <2>1, <2>3, <3>1, <3>2, RingSize DEF InRing, InData, Slots
  <2>5. Len(out) \in Nat /\ InShift \in {0, 1}
    BY TxCounts DEF UartInv
  <2>6. \A j \in 1 .. InRing : tx_buf[SlotAt(tx_start, j)] = Len(out) + InShift + 0 + j
    BY <1>2 DEF UartInv, TxNumbers
  <2>7. tx_data' = Len(out) + InShift + 1
    <3>1. 1 \in 1 .. InRing
      BY <2>4, RingSize
    <3>2. tx_buf[SlotAt(tx_start, 1)] = Len(out) + InShift + 0 + 1
      BY <2>6, <3>1
    <3>. QED  BY <2>1, <2>3, <2>5, <3>2
  <2>8. ASSUME NEW j \in 1 .. InRing - 1
        PROVE  tx_buf[SlotAt(tx_start', j)] = Len(out) + InShift + 1 + j
    <3>1. j + 1 \in 1 .. InRing /\ j \in 1 .. BUF_LEN - 1 /\ j \in Nat
      BY <2>4, RingSize
    <3>2. tx_buf[SlotAt(tx_start, j + 1)] = Len(out) + InShift + 0 + (j + 1)
      BY <2>6, <3>1
    <3>. QED  BY <2>3, <2>5, <3>1, <3>2
  <2>9. UartTypes'
    <3>1. tx_data' \in Nat
      BY <2>5, <2>7
    <3>. QED  BY <1>1, <2>1, <2>2, <3>1 DEF UartInv, UartTypes, rxSide
  <2>10. Len(out) + InShift + InData' + InRing' = Len(out) + InShift + InData + InRing
    BY <1>2, <2>4, <2>5
  <2>11. at \in {"wput", "wadvance"} => next # tx_start'
    <3>1. CASE at \in {"wput", "wadvance"}
      <4>1. next = Slot(tx_end + 1) /\ next # tx_start
        BY <3>1 DEF UartInv, TxNumbers
      <4>2. Slot(tx_end + 1) = (IF tx_end + 1 < BUF_LEN THEN tx_end + 1 ELSE 0)
        BY <2>2, NextSlot
      <4>3. Slot(tx_start + 1) = (IF tx_start + 1 < BUF_LEN THEN tx_start + 1 ELSE 0)
        BY <2>2, NextSlot
      <4>. QED  BY <1>7, <2>1, <2>2, <4>1, <4>2, <4>3, RingSize DEF Slots
    <3>. QED  BY <3>1
  <2>12. TxNumbers'
    BY <1>1, <1>2, <2>1, <2>4, <2>7, <2>8, <2>10, <2>11 DEF UartInv, TxNumbers
  <2>. QED  BY <1>3, <1>5, <2>9, <2>12 DEF UartInv
<1>. QED  BY <1>6, <1>7

\* A write puts a character at the end of the ring, then moves the end over it.
LEMMA WritePutKeeps ==
    ASSUME UartInv, WritePut
    PROVE  UartInv'
<1>1. /\ at = "wput" /\ at' = "wadvance" /\ written' = written + 1
      /\ tx_buf' = [tx_buf EXCEPT ![tx_end] = written']
      /\ UNCHANGED <<out, tx_ready, tx_data, tx_shift, tx_start, tx_end, next, isr, status>>
      /\ UNCHANGED rxSide
  BY DEF WritePut, Step, rxCore, txCore, isrVars, rxSide
<1>2. /\ tx_start \in Slots /\ tx_end \in Slots /\ tx_buf \in [0 .. BUF_LEN -> Nat] /\ written \in Nat
      /\ tx_end \in 0 .. BUF_LEN
  BY RingSize DEF UartInv, UartTypes, Slots
<1>3. tx_buf' \in [0 .. BUF_LEN -> Nat] /\ tx_buf'[tx_end] = written'
      /\ \A s \in Slots : s # tx_end => tx_buf'[s] = tx_buf[s]
  BY <1>1, <1>2, RingSize DEF Slots
<1>4. InShift' = InShift /\ InData' = InData /\ InRing' = InRing
  BY <1>1 DEF InShift, InData, InRing
<1>5. ASSUME NEW j \in 1 .. InRing
      PROVE  tx_buf'[SlotAt(tx_start, j)] = tx_buf[SlotAt(tx_start, j)]
  <2>1. SlotAt(tx_start, j) # tx_end
    BY <1>2, RingPut DEF InRing
  <2>2. j \in 1 .. BUF_LEN
    BY <1>2, BetweenIs, RingSize DEF InRing, Slots
  <2>3. SlotAt(tx_start, j) \in Slots
    BY <1>2, <2>2, SlotAtIs
  <2>. QED  BY <1>3, <2>1, <2>3
<1>6. UartTypes'
  BY <1>1, <1>2, <1>3 DEF UartInv, UartTypes, rxSide
<1>7. StatusHolds'
  BY <1>1, StatusKept DEF UartInv, rxSide
<1>8. TxNumbers'
  <2>1. written = Len(out) + InShift + InData + InRing
    BY <1>1, TxCounts, RingSize DEF UartInv, TxNumbers, Slots
  <2>2. \A j \in 1 .. InRing : tx_buf'[SlotAt(tx_start, j)] = Len(out) + InShift + InData + j
    BY <1>5 DEF UartInv, TxNumbers
  <2>. QED  BY <1>1, <1>3, <1>4, <2>1, <2>2 DEF UartInv, TxNumbers
<1>9. RxNumbers'
  BY <1>1, RxKept DEF UartInv, ReadInRing
<1>. QED  BY <1>6, <1>7, <1>8, <1>9 DEF UartInv

LEMMA WriteAdvanceKeeps ==
    ASSUME UartInv, WriteAdvance
    PROVE  UartInv'
<1>1. /\ at = "wadvance" /\ at' = "wnext" /\ tx_end' = next
      /\ UNCHANGED <<out, written, tx_ready, tx_data, tx_shift, tx_start, tx_buf, next, isr, status>>
      /\ UNCHANGED rxSide
  BY DEF WriteAdvance, Step, rxCore, txCore, isrVars, rxSide
<1>2. /\ tx_start \in Slots /\ tx_end \in Slots /\ next \in Slots
      /\ next = Slot(tx_end + 1) /\ next # tx_start /\ tx_buf[tx_end] = written
  BY <1>1 DEF UartInv, UartTypes, TxNumbers
<1>3. /\ Between(tx_start, next) = Between(tx_start, tx_end) + 1
      /\ SlotAt(tx_start, Between(tx_start, tx_end) + 1) = tx_end
  BY <1>2, RingPut
<1>4. InShift' = InShift /\ InData' = InData /\ InRing' = InRing + 1
  BY <1>1, <1>3 DEF InShift, InData, InRing
<1>5. /\ Len(out) \in Nat /\ InShift \in {0, 1} /\ InData \in {0, 1} /\ InRing \in Nat
      /\ written = Len(out) + InShift + InData + InRing + 1
  BY <1>1, TxCounts, RingSize DEF UartInv, TxNumbers, Slots
<1>6. ASSUME NEW j \in 1 .. InRing + 1
      PROVE  tx_buf[SlotAt(tx_start, j)] = Len(out) + InShift + InData + j
  <2>1. CASE j = InRing + 1
    BY <1>2, <1>3, <1>5, <2>1 DEF InRing
  <2>2. CASE j # InRing + 1
    <3>1. j \in 1 .. InRing
      BY <1>5, <2>2
    <3>. QED  BY <3>1 DEF UartInv, TxNumbers
  <2>. QED  BY <2>1, <2>2
<1>7. UartTypes'
  BY <1>1, <1>2 DEF UartInv, UartTypes, rxSide
<1>8. StatusHolds'
  BY <1>1, StatusKept DEF UartInv, rxSide
<1>9. written = Len(out) + InShift + InData + (InRing + 1) + 0
  BY <1>5
<1>10. TxNumbers'
  BY <1>1, <1>4, <1>6, <1>9 DEF UartInv, TxNumbers
<1>11. RxNumbers'
  BY <1>1, RxKept DEF UartInv, ReadInRing
<1>. QED  BY <1>7, <1>8, <1>10, <1>11 DEF UartInv

\* The receive side.
LEMMA RxCounts ==
    ASSUME UartTypes
    PROVE  /\ RxFrom \in Slots /\ RxHas \in 0 .. BUF_LEN /\ Len(got) \in Nat
           /\ Between(RxFrom, rx_end) \in Slots
           /\ LastGot \in Nat /\ LastPut \in Int
           /\ \A j \in 1 .. BUF_LEN : RxAt(j) \in Nat
<1>1. RxFrom \in Slots
  BY NextSlot DEF UartTypes, RxFrom
<1>2. Between(RxFrom, rx_end) \in Slots
  BY <1>1, BetweenIs DEF UartTypes
<1>3. RxHas \in 0 .. BUF_LEN
  BY <1>2, RingSize DEF RxHas, Slots
<1>4. Len(got) \in Nat /\ LastGot \in Nat /\ LastPut \in Int
  BY DEF UartTypes, LastGot, LastPut
<1>5. ASSUME NEW j \in 1 .. BUF_LEN  PROVE RxAt(j) \in Nat
  <2>1. SlotAt(RxFrom, j) \in Slots
    BY <1>1, SlotAtIs
  <2>2. SlotAt(RxFrom, j) \in 0 .. BUF_LEN
    BY <2>1, RingSize DEF Slots
  <2>. QED  BY <2>2 DEF UartTypes, RxAt
<1>. QED  BY <1>1, <1>2, <1>3, <1>4, <1>5

LEMMA ArriveKeeps ==
    ASSUME UartInv, NEW broken, Arrive(broken)
    PROVE  UartInv'
<1>1. /\ came' = came + 1 /\ rx_data' = came' /\ rx_char_ready' = TRUE
      /\ UNCHANGED <<rx_start, rx_end, rx_buf, got, at, next, isr, status>> /\ UNCHANGED txSide
  BY DEF Arrive, ringVars, txCore, isrVars, callVars, txSide
<1>2. came \in Nat /\ tx_ready' = tx_ready
  BY <1>1 DEF UartInv, UartTypes, txSide
<1>3. UartTypes'
  BY <1>1, <1>2 DEF UartInv, UartTypes, txSide
<1>4. StatusHolds'
  BY <1>1, <1>2, StatusKept DEF UartInv
<1>5. TxNumbers'
  BY <1>1, TxKept DEF UartInv
<1>6. RxFrom' = RxFrom /\ RxHas' = RxHas /\ LastGot' = LastGot /\ \A j \in 1 .. RxHas : RxAt(j)' = RxAt(j)
  BY <1>1 DEF RxFrom, RxHas, LastGot, RxAt
<1>7. LastPut' = came /\ LastPut <= came
  BY <1>1, <1>2 DEF LastPut
<1>8. \A j \in 1 .. RxHas : RxAt(j) \in Nat
  <2>1. RxHas \in Nat /\ RxHas <= BUF_LEN /\ \A j \in 1 .. BUF_LEN : RxAt(j) \in Nat
    BY RxCounts, RingSize DEF UartInv
  <2>. QED  BY <2>1, RingSize
<1>9. RxNumbers'
  <2>1. (rx_char_ready => rx_data = came /\ came > 0)' /\ LastGot' <= LastPut'
    BY <1>1, <1>2, <1>6, <1>7, RxCounts DEF UartInv, RxNumbers
  <2>2. \A j \in 1 .. RxHas' : LastGot' < RxAt(j)' /\ RxAt(j)' <= LastPut'
    BY <1>2, <1>6, <1>7, <1>8, RxCounts DEF UartInv, RxNumbers
  <2>3. \A i, j \in 1 .. RxHas' : i < j => RxAt(i)' < RxAt(j)'
    BY <1>6 DEF UartInv, RxNumbers
  <2>4. \A i \in 1 .. Len(got') - 1 : got'[i] < got'[i + 1]
    BY <1>1 DEF UartInv, RxNumbers
  <2>. QED  BY <2>1, <2>2, <2>3, <2>4 DEF RxNumbers
<1>. QED  BY <1>3, <1>4, <1>5, <1>9 DEF UartInv

\* The handler puts a character into the ring.
LEMMA ReceiveIrqKeeps ==
    ASSUME UartInv, ReceiveIrq
    PROVE  UartInv'
<1>1. /\ isr = "rx" /\ isr' = (IF "TRDY" \in status THEN "tx" ELSE "none") /\ status' = status
      /\ UNCHANGED <<rx_start, rx_data, came, got, at, next>> /\ UNCHANGED txSide
  BY DEF ReceiveIrq, txCore, callVars, txSide
<1>2. rx_char_ready /\ rx_data = came /\ came > 0 /\ LastPut = came - 1 /\ came \in Nat
  BY <1>1 DEF UartInv, UartTypes, StatusHolds, RxNumbers, LastPut
<1>3. TxNumbers'
  BY <1>1, TxKept DEF UartInv
<1>4. tx_ready' = tx_ready
  BY <1>1 DEF txSide
<1>5. StatusHolds'
  <2>1. "TRDY" \in status => tx_ready
    BY <1>1 DEF UartInv, StatusHolds
  <2>2. CASE "TRDY" \in status
    BY <1>1, <1>4, <2>1, <2>2 DEF StatusHolds
  <2>3. CASE "TRDY" \notin status
    BY <1>1, <2>3 DEF StatusHolds
  <2>. QED  BY <2>2, <2>3
<1>6. CASE "FE" \in status
  <2>1. UNCHANGED <<rx_buf, rx_end, rx_char_ready>>
    BY <1>6 DEF ReceiveIrq
  <2>2. UNCHANGED rxSide
    BY <1>1, <2>1 DEF rxSide
  <2>3. RxNumbers' /\ next' \in Slots
    BY <1>1, <2>2, RxKept DEF UartInv, UartTypes
  <2>. QED  BY <1>1, <1>3, <1>5, <2>2, <2>3, LeavesRings
<1>7. CASE "FE" \notin status
  <2>. DEFINE has == Between(RxFrom, rx_end)
  <2>1. /\ rx_buf' = [rx_buf EXCEPT ![rx_end] = came] /\ rx_char_ready' = FALSE
        /\ rx_end' = Slot(rx_end + 1)
    BY <1>2, <1>7 DEF ReceiveIrq
  <2>2. /\ rx_start \in Slots /\ rx_end \in Slots /\ rx_end \in 0 .. BUF_LEN
        /\ rx_buf \in [0 .. BUF_LEN -> Nat] /\ RxFrom \in Slots /\ rx_end' \in Slots
    <3>1. rx_start \in Slots /\ rx_end \in Slots /\ rx_buf \in [0 .. BUF_LEN -> Nat] /\ RxFrom \in Slots
      BY RxCounts DEF UartInv, UartTypes
    <3>2. rx_end' \in Slots
      BY <2>1, <3>1, NextSlot
    <3>. QED  BY <3>1, <3>2, RingSize DEF Slots
  <2>3. rx_buf' \in [0 .. BUF_LEN -> Nat] /\ rx_buf'[rx_end] = came
        /\ \A s \in Slots : s # rx_end => rx_buf'[s] = rx_buf[s]
    BY <1>2, <2>1, <2>2, RingSize DEF Slots
  <2>4. RxFrom' = RxFrom /\ LastGot' = LastGot /\ LastPut' = came
    BY <1>1, <2>1 DEF RxFrom, LastGot, LastPut
  <2>5. /\ Slot(rx_end + 1) # RxFrom => Between(RxFrom, rx_end') = has + 1
        /\ Slot(rx_end + 1) = RxFrom => Between(RxFrom, rx_end') = 0
        /\ SlotAt(RxFrom, has + 1) = rx_end
        /\ \A j \in 1 .. has : SlotAt(RxFrom, j) # rx_end
    BY <2>1, <2>2, RingPut
  <2>6. has \in Slots /\ (has = RxHas \/ has = 0)
    <3>1. CASE at = "rcopy" /\ rx_start = rx_end
      BY <2>2, <3>1, RingTake, RxCounts DEF UartInv, RxFrom
    <3>2. CASE ~(at = "rcopy" /\ rx_start = rx_end)
      BY <3>2, RxCounts DEF UartInv, RxHas
    <3>. QED  BY <3>1, <3>2
  <2>7. RxHas' \in {0, has + 1}
    <3>1. CASE at = "rcopy" /\ rx_start = rx_end'
      <4>1. RxHas' = BUF_LEN /\ RxFrom = rx_start
        BY <1>1, <3>1 DEF RxHas, RxFrom
      <4>2. Slot(rx_end + 1) = (IF rx_end + 1 < BUF_LEN THEN rx_end + 1 ELSE 0)
        BY <2>2, NextSlot
      <4>3. has = (IF rx_end >= RxFrom THEN rx_end - RxFrom ELSE rx_end + BUF_LEN - RxFrom)
        BY <2>2, BetweenIs
      <4>4. Slot(rx_end + 1) = RxFrom
        BY <2>1, <3>1, <4>1
      <4>5. has + 1 = BUF_LEN
        BY <2>2, <4>2, <4>3, <4>4, RingSize DEF Slots
      <4>. QED  BY <4>1, <4>5
    <3>2. CASE ~(at = "rcopy" /\ rx_start = rx_end')
      <4>1. RxHas' = Between(RxFrom, rx_end')
        BY <1>1, <2>4, <3>2 DEF RxHas
      <4>. QED  BY <2>5, <4>1
    <3>. QED  BY <3>1, <3>2
  <2>. HIDE DEF has
  <2>8. ASSUME NEW j \in 1 .. has
        PROVE  RxAt(j)' = RxAt(j)
    <3>1. j \in 1 .. BUF_LEN
      BY <2>6, RingSize DEF Slots
    <3>2. SlotAt(RxFrom, j) \in Slots /\ SlotAt(RxFrom, j) # rx_end
      BY <2>2, <2>5, <3>1, SlotAtIs
    <3>3. RxAt(j)' = rx_buf'[SlotAt(RxFrom', j)]
      BY DEF RxAt, SlotAt
    <3>. QED  BY <2>3, <2>4, <3>2, <3>3 DEF RxAt
  <2>9. ASSUME NEW j, j = has + 1
        PROVE  RxAt(j)' = came
    <3>1. RxAt(j)' = rx_buf'[SlotAt(RxFrom', j)]
      BY DEF RxAt, SlotAt
    <3>. QED  BY <2>3, <2>4, <2>5, <2>9, <3>1
  <2>10. LastGot \in Nat /\ LastGot <= came - 1 /\ RxHas \in Nat /\ has \in Nat
    BY <1>2, <2>6, RxCounts, RingSize DEF UartInv, RxNumbers, Slots
  <2>11. ASSUME NEW j \in 1 .. has
         PROVE  /\ RxAt(j) \in Nat /\ LastGot < RxAt(j) /\ RxAt(j) <= came - 1
                /\ \A i \in 1 .. has : i < j => RxAt(i) < RxAt(j)
    <3>1. j \in 1 .. BUF_LEN /\ has = RxHas
      BY <2>6, <2>10, RingSize DEF Slots
    <3>. QED  BY <1>2, <3>1, RxCounts DEF UartInv, RxNumbers
  <2>12. ASSUME NEW j \in 1 .. RxHas'
         PROVE  /\ LastGot < RxAt(j)' /\ RxAt(j)' <= came
                /\ \A i \in 1 .. RxHas' : i < j => RxAt(i)' < RxAt(j)'
    <3>1. j \in 1 .. has + 1 /\ RxHas' = has + 1
      BY <2>7, <2>10
    <3>2. CASE j = has + 1
      <4>1. RxAt(j)' = came
        BY <2>9, <3>2
      <4>2. ASSUME NEW i \in 1 .. RxHas', i < j
            PROVE  RxAt(i)' < RxAt(j)'
        <5>1. i \in 1 .. has
          BY <2>10, <3>1, <3>2, <4>2
        <5>2. RxAt(i)' = RxAt(i) /\ RxAt(i) \in Nat /\ RxAt(i) <= came - 1
          BY <2>8, <2>11, <5>1
        <5>. QED  BY <1>2, <4>1, <5>2
      <4>. QED  BY <1>2, <2>10, <4>1, <4>2
    <3>3. CASE j # has + 1
      <4>1. j \in 1 .. has
        BY <2>10, <3>1, <3>3
      <4>2. RxAt(j)' = RxAt(j) /\ RxAt(j) \in Nat /\ LastGot < RxAt(j) /\ RxAt(j) <= came - 1
        BY <2>8, <2>11, <4>1
      <4>3. ASSUME NEW i \in 1 .. RxHas', i < j
            PROVE  RxAt(i)' < RxAt(j)'
        <5>1. i \in 1 .. has
          BY <2>10, <3>1, <4>1, <4>3
        <5>2. RxAt(i)' = RxAt(i) /\ RxAt(i) < RxAt(j)
          BY <2>8, <2>11, <4>1, <4>3, <5>1
        <5>. QED  BY <4>2, <5>2
      <4>. QED  BY <1>2, <4>2, <4>3
    <3>. QED  BY <3>2, <3>3
  <2>13. RxNumbers'
    <3>1. rx_char_ready' = FALSE /\ LastGot' <= LastPut'
      BY <1>2, <2>1, <2>4, <2>10
    <3>2. \A i \in 1 .. Len(got') - 1 : got'[i] < got'[i + 1]
      BY <1>1 DEF UartInv, RxNumbers
    <3>. QED  BY <2>4, <2>12, <3>1, <3>2 DEF RxNumbers
  <2>14. UartTypes'
    BY <1>1, <1>4, <2>1, <2>2, <2>3 DEF UartInv, UartTypes, txSide
  <2>. QED  BY <1>3, <1>5, <2>13, <2>14 DEF UartInv
<1>. QED  BY <1>6, <1>7

\* A read takes a character from the ring, then moves the start over it.
LEMMA ReadCopyKeeps ==
    ASSUME UartInv, ReadCopy
    PROVE  UartInv'
<1>1. /\ at = "rcopy" /\ at' = "radvance" /\ got' = Append(got, rx_buf[rx_start])
      /\ UNCHANGED <<rx_start, rx_end, rx_buf, rx_char_ready, rx_data, came, next, isr, status>>
      /\ UNCHANGED txSide
  BY DEF ReadCopy, Step, ringVars, rxCore, txCore, isrVars, txSide
<1>2. rx_start \in Slots /\ rx_end \in Slots /\ got \in Seq(Nat) /\ Len(got) \in Nat /\ RxFrom = rx_start
  BY <1>1 DEF UartInv, UartTypes, RxFrom
<1>3. /\ SlotAt(rx_start, 1) = rx_start
      /\ rx_start # rx_end => Between(Slot(rx_start + 1), rx_end) = Between(rx_start, rx_end) - 1
      /\ rx_start = rx_end => Between(Slot(rx_start + 1), rx_end) = BUF_LEN - 1
      /\ \A j \in 1 .. BUF_LEN - 1 : SlotAt(Slot(rx_start + 1), j) = SlotAt(rx_start, j + 1)
  BY <1>2, RingTake
<1>4. RxFrom' = Slot(rx_start + 1) /\ RxHas' = Between(Slot(rx_start + 1), rx_end)
  BY <1>1 DEF RxFrom, RxHas
<1>5. RxHas' = RxHas - 1 /\ RxHas \in 1 .. BUF_LEN /\ RxHas \in Nat
  <2>1. RxHas' \in Slots
    BY <1>2, <1>4, NextSlot, BetweenIs
  <2>2. RxHas' = RxHas - 1
    BY <1>1, <1>2, <1>3, <1>4 DEF RxHas
  <2>. QED  BY <2>1, <2>2, RxCounts, RingSize DEF UartInv, Slots
<1>6. rx_buf[rx_start] = RxAt(1) /\ RxAt(1) \in Nat /\ LastGot < RxAt(1) /\ RxAt(1) <= LastPut
  <2>1. 1 \in 1 .. RxHas /\ 1 \in 1 .. BUF_LEN
    BY <1>5, RingSize
  <2>. QED  BY <1>2, <1>3, <2>1, RxCounts DEF UartInv, RxNumbers, RxAt
<1>7. /\ got' \in Seq(Nat) /\ Len(got') = Len(got) + 1 /\ got'[Len(got) + 1] = RxAt(1)
      /\ \A i \in 1 .. Len(got) : got'[i] = got[i]
  <2>. DEFINE x == RxAt(1)
  <2>1. got' = Append(got, x) /\ x \in Nat
    BY <1>1, <1>6
  <2>. HIDE DEF x
  <2>2. /\ got' \in Seq(Nat) /\ Len(got') = Len(got) + 1 /\ got'[Len(got) + 1] = x
        /\ \A i \in 1 .. Len(got) : got'[i] = got[i]
    BY <1>2, <2>1
  <2>. QED  BY <2>2 DEF x
<1>8. LastGot' = RxAt(1) /\ LastPut' = LastPut
  BY <1>1, <1>2, <1>7 DEF LastGot, LastPut
<1>9. ASSUME NEW j \in 1 .. RxHas'
      PROVE  RxAt(j)' = RxAt(j + 1) /\ j + 1 \in 1 .. RxHas
  <2>1. j \in 1 .. BUF_LEN - 1 /\ j + 1 \in 1 .. RxHas
    BY <1>5, RingSize
  <2>2. RxAt(j)' = rx_buf[SlotAt(Slot(rx_start + 1), j)]
    BY <1>1, <1>4 DEF RxAt, SlotAt
  <2>. QED  BY <1>2, <1>3, <2>1, <2>2 DEF RxAt
<1>10. ASSUME NEW i \in 1 .. Len(got') - 1
       PROVE  got'[i] < got'[i + 1]
  <2>1. CASE i = Len(got)
    <3>1. Len(got) # 0 /\ LastGot = got[Len(got)]
      BY <1>2, <1>7, <2>1 DEF LastGot
    <3>2. got'[i] = LastGot /\ got'[i + 1] = RxAt(1)
      BY <1>2, <1>7, <2>1, <3>1
    <3>. QED  BY <1>6, <3>2
  <2>2. CASE i # Len(got)
    <3>1. i \in 1 .. Len(got) - 1 /\ i \in 1 .. Len(got) /\ i + 1 \in 1 .. Len(got)
      BY <1>2, <1>7, <2>2
    <3>2. got[i] < got[i + 1]
      BY <3>1 DEF UartInv, RxNumbers
    <3>. QED  BY <1>7, <3>1, <3>2
  <2>. QED  BY <2>1, <2>2
<1>11. RxNumbers'
  <2>1. (rx_char_ready => rx_data = came /\ came > 0)' /\ LastGot' <= LastPut'
    BY <1>1, <1>6, <1>8 DEF UartInv, RxNumbers
  <2>2. ASSUME NEW j \in 1 .. RxHas'
        PROVE  LastGot' < RxAt(j)' /\ RxAt(j)' <= LastPut'
    <3>1. 1 \in 1 .. RxHas /\ 1 < j + 1
      BY <1>5
    <3>2. RxAt(1) < RxAt(j + 1) /\ RxAt(j + 1) <= LastPut
      BY <1>9, <3>1 DEF UartInv, RxNumbers
    <3>. QED  BY <1>8, <1>9, <3>2
  <2>3. ASSUME NEW i \in 1 .. RxHas', NEW j \in 1 .. RxHas', i < j
        PROVE  RxAt(i)' < RxAt(j)'
    <3>1. i + 1 < j + 1
      BY <1>5, <2>3
    <3>2. RxAt(i + 1) < RxAt(j + 1)
      BY <1>9, <3>1 DEF UartInv, RxNumbers
    <3>. QED  BY <1>9, <3>2
  <2>. QED  BY <1>10, <2>1, <2>2, <2>3 DEF RxNumbers
<1>12. UartTypes'
  BY <1>1, <1>7 DEF UartInv, UartTypes, txSide
<1>13. StatusHolds'
  BY <1>1, StatusKept DEF UartInv, txSide
<1>14. TxNumbers'
  BY <1>1, TxKept DEF UartInv, WriteInRing
<1>. QED  BY <1>11, <1>12, <1>13, <1>14 DEF UartInv

LEMMA ReadAdvanceKeeps ==
    ASSUME UartInv, ReadAdvance
    PROVE  UartInv'
<1>1. /\ at = "radvance" /\ at' = "rtest" /\ rx_start' = Slot(rx_start + 1)
      /\ UNCHANGED <<rx_end, rx_buf, rx_char_ready, rx_data, came, got, next, isr, status>>
      /\ UNCHANGED txSide
  BY DEF ReadAdvance, Step, rxCore, txCore, isrVars, txSide
<1>2. rx_start' \in Slots
  BY <1>1, NextSlot DEF UartInv, UartTypes
<1>3. RxFrom' = RxFrom /\ LastGot' = LastGot /\ LastPut' = LastPut
  BY <1>1 DEF RxFrom, LastGot, LastPut
<1>4. RxHas' = RxHas
  BY <1>1, <1>3 DEF RxHas
<1>5. \A j \in 1 .. RxHas : RxAt(j)' = RxAt(j)
  BY <1>1, <1>3 DEF RxAt, SlotAt
<1>6. RxNumbers'
  BY <1>1, <1>3, <1>4, <1>5 DEF UartInv, RxNumbers
<1>7. UartTypes'
  BY <1>1, <1>2 DEF UartInv, UartTypes, txSide
<1>8. StatusHolds'
  BY <1>1, StatusKept DEF UartInv, txSide
<1>9. TxNumbers'
  BY <1>1, TxKept DEF UartInv, WriteInRing
<1>. QED  BY <1>6, <1>7, <1>8, <1>9 DEF UartInv

LEMMA UartStep ==
    ASSUME UartInv, Idle, [UartNext]_uartVars
    PROVE  UartInv'
<1>1. CASE Line
  <2>1. ASSUME NEW broken, Arrive(broken)  PROVE UartInv'
    BY <2>1, ArriveKeeps
  <2>. QED  BY <1>1, <2>1, LoadShifterKeeps, SentOutKeeps DEF Line
<1>2. CASE Handler
  BY <1>2, LooksKeep, ReceiveIrqKeeps, TransmitIrqKeeps DEF Handler
<1>3. CASE Program
  <2>1. CASE ReadTest \/ ReadCopy \/ ReadAdvance
    BY <2>1, ReadTestKeeps, ReadCopyKeeps, ReadAdvanceKeeps
  <2>2. CASE WritePut \/ WriteAdvance
    BY <2>2, WritePutKeeps, WriteAdvanceKeeps
  <2>3. CASE WriteNext \/ WriteWait \/ WriteSpin
    BY <2>3, WriteLooksKeep
  <2>4. CASE ReadWait \/ ReadDone \/ WriteDone \/ CloseTest
    BY <2>4, WaitsKeep
  <2>. QED  BY <1>3, <2>1, <2>2, <2>3, <2>4 DEF Program
<1>4. CASE UartCaller
  <2>1. ASSUME NEW what \in {"read", "write", "close"}, NEW n, NEW nb, Call(what, n, nb)
        PROVE  UartInv'
    BY <2>1, CallKeeps
  <2>. QED  BY <1>4, <2>1 DEF UartCaller
<1>5. CASE UNCHANGED uartVars
  <2>1. UNCHANGED txSide /\ UNCHANGED rxSide /\ UNCHANGED isrVars /\ at' = at /\ next' = next
    BY <1>5 DEF uartVars, ringVars, rxCore, txCore, isrVars, callVars, txSide, rxSide
  <2>2. TxNumbers' /\ RxNumbers' /\ next' \in Slots
    BY <2>1, TxKept, RxKept DEF UartInv, UartTypes
  <2>. QED  BY <2>1, <2>2, ProgramStatus, LeavesRings
<1>. QED  BY <1>1, <1>2, <1>3, <1>4, <1>5 DEF UartNext

\* Characters by number, one after the other.
Run(s, from) == s \in Seq(Nat) /\ \A i \in 1 .. Len(s) : s[i] = from + i

LEMMA RunConcat ==
    ASSUME NEW s, NEW t, NEW from \in Nat, Run(s, from), Run(t, from + Len(s))
    PROVE  Run(s \o t, from) /\ Len(s \o t) = Len(s) + Len(t)
<1>1. s \in Seq(Nat) /\ t \in Seq(Nat) /\ Len(s) \in Nat /\ Len(t) \in Nat
  BY DEF Run
<1>2. s \o t \in Seq(Nat) /\ Len(s \o t) = Len(s) + Len(t)
  BY <1>1
<1>3. ASSUME NEW i \in 1 .. Len(s) + Len(t)
      PROVE  (s \o t)[i] = from + i
  <2>1. CASE i <= Len(s)
    <3>1. (s \o t)[i] = s[i] /\ i \in 1 .. Len(s)
      BY <1>1, <2>1
    <3>. QED  BY <3>1 DEF Run
  <2>2. CASE ~(i <= Len(s))
    <3>1. (s \o t)[i] = t[i - Len(s)] /\ i - Len(s) \in 1 .. Len(t)
      BY <1>1, <2>2
    <3>2. t[i - Len(s)] = from + Len(s) + (i - Len(s))
      BY <3>1 DEF Run
    <3>. QED  BY <1>1, <3>1, <3>2
  <2>. QED  BY <2>1, <2>2
<1>. QED  BY <1>2, <1>3 DEF Run

LEMMA RunOne ==
    ASSUME NEW x \in Nat
    PROVE  Run(<<x>>, x - 1) /\ Len(<<x>>) = 1
BY DEF Run

LEMMA RunNone ==
    ASSUME NEW from
    PROVE  Run(<<>>, from) /\ Len(<<>>) = 0
BY DEF Run

LEMMA UartInvInOrder == UartInv => CharactersInOrder
<1>. SUFFICES ASSUME UartInv  PROVE CharactersInOrder
  OBVIOUS
<1>. DEFINE A == IF tx_shift = 0 THEN <<>> ELSE <<tx_shift>>
            B == IF tx_ready THEN <<>> ELSE <<tx_data>>
            C == Buffered(tx_buf, tx_start, tx_end)
            D == IF at = "wadvance" THEN <<written>> ELSE <<>>
            numbers == [i \in 1 .. written |-> i]
<1>1. /\ Len(out) \in Nat /\ InShift \in {0, 1} /\ InData \in {0, 1} /\ InRing \in 0 .. BUF_LEN - 1
      /\ InRing \in Nat /\ written \in Nat /\ tx_data \in Nat /\ tx_shift \in Nat /\ out \in Seq(Nat)
  BY TxCounts, RingSize DEF UartInv, UartTypes, Slots
<1>2. Run(out, 0)
  BY <1>1 DEF UartInv, TxNumbers, Run
<1>3. Run(A, Len(out)) /\ Len(A) = InShift
  <2>1. CASE tx_shift = 0
    BY <2>1, RunNone DEF InShift
  <2>2. CASE tx_shift # 0
    <3>1. tx_shift = Len(out) + 1 /\ InShift = 1 /\ A = <<tx_shift>>
      BY <2>2 DEF UartInv, TxNumbers, InShift
    <3>2. tx_shift - 1 = Len(out)
      BY <1>1, <3>1
    <3>. QED  BY <1>1, <3>1, <3>2, RunOne
  <2>. QED  BY <2>1, <2>2
<1>4. Run(B, Len(out) + InShift) /\ Len(B) = InData
  <2>1. CASE tx_ready
    BY <2>1, RunNone DEF InData
  <2>2. CASE ~tx_ready
    <3>1. tx_data = Len(out) + InShift + 1 /\ InData = 1 /\ B = <<tx_data>>
      BY <2>2 DEF UartInv, TxNumbers, InData
    <3>2. tx_data - 1 = Len(out) + InShift
      BY <1>1, <3>1
    <3>. QED  BY <1>1, <3>1, <3>2, RunOne
  <2>. QED  BY <2>1, <2>2
<1>5. Run(C, Len(out) + InShift + InData) /\ Len(C) = InRing
  <2>1. C = [i \in 1 .. InRing |-> tx_buf[SlotAt(tx_start, i)]]
    BY DEF Buffered, InRing, Between, SlotAt
  <2>2. ASSUME NEW i \in 1 .. InRing
        PROVE  tx_buf[SlotAt(tx_start, i)] = Len(out) + InShift + InData + i
    BY DEF UartInv, TxNumbers
  <2>3. \A i \in 1 .. InRing : tx_buf[SlotAt(tx_start, i)] \in Nat
    BY <1>1, <2>2
  <2>. HIDE DEF C
  <2>4. C \in Seq(Nat) /\ Len(C) = InRing /\ \A i \in 1 .. InRing : C[i] = tx_buf[SlotAt(tx_start, i)]
    BY <1>1, <2>1, <2>3
  <2>. QED  BY <2>2, <2>4 DEF Run
<1>6. written = Len(out) + InShift + InData + InRing + (IF at = "wadvance" THEN 1 ELSE 0)
  BY DEF UartInv, TxNumbers
<1>7. Run(D, Len(out) + InShift + InData + InRing) /\ Len(D) = (IF at = "wadvance" THEN 1 ELSE 0)
  <2>1. CASE at = "wadvance"
    <3>1. D = <<written>>
      BY <2>1
    <3>2. written - 1 = Len(out) + InShift + InData + InRing
      BY <1>1, <1>6, <2>1
    <3>. QED  BY <1>1, <2>1, <3>1, <3>2, RunOne
  <2>2. CASE at # "wadvance"
    BY <2>2, RunNone
  <2>. QED  BY <2>1, <2>2
<1>8. InFlight = ((A \o B) \o C) \o D
  BY DEF InFlight
<1>. HIDE DEF A, B, C, D
<1>9. Run(A \o B, Len(out)) /\ Len(A \o B) = InShift + InData
  BY <1>1, <1>3, <1>4, RunConcat
<1>10. Run((A \o B) \o C, Len(out)) /\ Len((A \o B) \o C) = InShift + InData + InRing
  <2>1. Len(out) + (InShift + InData) = Len(out) + InShift + InData
    BY <1>1
  <2>. QED  BY <1>1, <1>5, <1>9, <2>1, RunConcat
<1>11. Run(((A \o B) \o C) \o D, Len(out)) /\ Len(((A \o B) \o C) \o D) = InShift + InData + InRing + Len(D)
  <2>1. Len(out) + (InShift + InData + InRing) = Len(out) + InShift + InData + InRing
    BY <1>1
  <2>. QED  BY <1>1, <1>7, <1>10, <2>1, RunConcat
<1>12. Run(out \o InFlight, 0) /\ Len(out \o InFlight) = written
  <2>1. 0 + Len(out) = Len(out)
    BY <1>1
  <2>2. Run(out \o InFlight, 0) /\ Len(out \o InFlight) = Len(out) + Len(InFlight)
    BY <1>2, <1>8, <1>11, <2>1, RunConcat
  <2>. QED  BY <1>1, <1>6, <1>7, <1>8, <1>11, <2>2
<1>13. TxInOrder
  <2>1. numbers \in Seq(Nat) /\ Len(numbers) = written /\ \A i \in 1 .. written : numbers[i] = i
    BY <1>1
  <2>2. \A i \in 1 .. written : (out \o InFlight)[i] = i
    BY <1>1, <1>12 DEF Run
  <2>3. out \o InFlight \in Seq(Nat)
    BY <1>12 DEF Run
  <2>. HIDE DEF numbers
  <2>4. out \o InFlight = numbers
    BY <1>12, <2>1, <2>2, <2>3, SameSeq
  <2>. QED  BY <2>4 DEF TxInOrder, numbers
<1>14. RxInOrder
  BY DEF UartInv, RxNumbers, RxInOrder
<1>. QED  BY <1>13, <1>14 DEF CharactersInOrder

\* The driver keeps characters in order, for a buffer of any length it is built for and
\* any number of characters and calls: what is written goes out once and in order, and
\* what is read came in that order, wherever the handler and the line come between the
\* steps of the program (altera_avalon_uart_read.c, altera_avalon_uart_write.c,
\* altera_avalon_uart_init.c lines 152-283).
THEOREM CharactersKeepOrder == UartSpec => []CharactersInOrder
<1>1. UartInit => UartInv /\ Idle
  <2>1. UartInit => Idle
    BY DEF UartInit, Idle
  <2>. QED  BY <2>1, UartStarts
<1>2. UartInv /\ Idle /\ [UartNext]_uartVars => (UartInv /\ Idle)'
  BY UartStep, IdleStep
<1>3. UartInv => CharactersInOrder
  BY UartInvInOrder
<1>. QED  BY <1>1, <1>2, <1>3, PTL DEF UartSpec
=============================================================================
