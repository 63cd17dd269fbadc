------------------------------- MODULE Devices -------------------------------
(***************************************************************************)
(* How files and interfaces named on rexec's command line become devices   *)
(* of the program: rexec opens them and leaves their numbers in the        *)
(* environment (tools/rexec.c), the program adds a device for each of them *)
(* before its kernel starts, and mounts its root afterwards                *)
(* (franken/init/fdinit.c, as built for LKL and musl).                     *)
(*                                                                         *)
(* rexec is one process that turns into the program, so that everything    *)
(* happens in one order; what varies is the command line and the           *)
(* environment rexec is started with.                                      *)
(***************************************************************************)
EXTENDS Integers, Sequences, FiniteSetsExt

CONSTANTS
    Disk,         \* names of files that hold a file system
    BlockDisk,    \* those that are block devices, not regular files
    Net,          \* names of interfaces
    Guest,        \* where a 9P file system may be mounted
    MAXFD,
    MaxArg        \* bound on the command line

(* Every descriptor has its place in __franken_fd, and so in fdinfo_list;
   neither program tests it. *)
ASSUME DevicesAssumption ==
    /\ MAXFD \in Nat /\ MaxArg \in Nat /\ MaxArg + 5 <= MAXFD
    /\ "NULL" \notin Guest

VARIABLES
    phase,        \* "rexec", "setenv", "fdinit", "create", "up"
    nargs,        \* arguments handled so far
    fds,          \* types of the descriptors from 3 on
    fdinfo_list,
    info,         \* the counter of fdinfo_setenv()
    spec_9pfs,    \* "NULL" when -v was not given
    environ,
    n, env,       \* the counter and the cursor of __franken_fdinit
    valid,        \* descriptors marked in __franken_fd
    added,        \* devices in the order they were added
    root          \* descriptor of the mounted file system that is the root

vars == <<phase, nargs, fds, fdinfo_list, info, spec_9pfs, environ, n, env, valid, added, root>>

(* A variable of the environment: the class its prefix gives it, "-" when that
   is all of its name, and the number that it holds. *)
Var(class, name, fd) == [class |-> class, name |-> name, fd |-> fd]
NoFd == 0
NinePfs == -1     \* root: the 9P file system

Inherited == {<<>>, <<Var("other", "PATH", NoFd)>>, <<Var("other", "UUID", NoFd)>>}

(* setenv(): a name that is there keeps its place. *)
SameName(u, v) == u.class = v.class /\ u.name = v.name
Named(e, v) == {i \in DOMAIN e : SameName(e[i], v)}

setenv(e, v, overwrite) ==
    IF Named(e, v) = {} THEN Append(e, v)
    ELSE IF overwrite THEN [i \in DOMAIN e |-> IF i \in Named(e, v) THEN v ELSE e[i]]
    ELSE e

uuidNot(e) == e                         \* mutant of uuid
uuid(e) == setenv(e, Var("other", "UUID", NoFd), FALSE)

Init ==
    /\ phase = "rexec"
    /\ nargs = 0 /\ fds = <<>> /\ fdinfo_list = <<>> /\ info = 1 /\ spec_9pfs = "NULL"
    /\ \E e \in Inherited : environ = uuid(e)
    /\ n = 0 /\ env = 1
    /\ valid = {} /\ added = <<>> /\ root = NoFd

-----------------------------------------------------------------------------

NextFd == Len(fds) + 3

FileType(file) == IF file \in BlockDisk THEN "blk" ELSE "reg"

(* main() and colon_open(): one argument.  A file that cannot be opened ends
   rexec, which leaves nothing to say. *)
Arg ==
    /\ phase = "rexec" /\ nargs < MaxArg
    /\ nargs' = nargs + 1
    /\ UNCHANGED <<phase, info, environ, n, env, valid, added, root>>

OpenAs(type, class, name) ==
    /\ Arg
    /\ fds' = Append(fds, type)
    /\ fdinfo_list' = Append(fdinfo_list, Var(class, name, NextFd))
    /\ UNCHANGED spec_9pfs

ArgDisk(d) == OpenAs(FileType(d), "DISK", d)
ArgRootfs(d) == OpenAs(FileType(d), "ROOT", "-")
ArgNet(i) == OpenAs("sock", "NET", i)
ArgConfig == OpenAs("reg", "CONFIGJSON", "-")

ArgNoroot ==
    /\ NextFd = 3
    /\ Arg
    /\ fds' = Append(fds, "chr")
    /\ UNCHANGED <<fdinfo_list, spec_9pfs>>

Arg9pfs(guest) ==
    /\ Arg
    /\ spec_9pfs' = guest
    /\ UNCHANGED <<fds, fdinfo_list>>

(* open_9pfs() and os_extrafiles(), which leaves a socket. *)
With9pfs(e) ==
    IF spec_9pfs = "NULL" THEN e
    ELSE setenv(setenv(e, Var("other", "9PFS_MNT", NoFd), FALSE), Var("9PFS_FD", "-", NextFd), FALSE)

Open9pfs ==
    /\ phase = "rexec"
    /\ phase' = "setenv"
    /\ environ' = With9pfs(environ)
    /\ fds' = IF spec_9pfs = "NULL" THEN Append(fds, "sock") ELSE fds \o <<"sock", "sock">>
    /\ UNCHANGED <<nargs, fdinfo_list, info, spec_9pfs, n, env, valid, added, root>>

(* One turn of fdinfo_setenv(), and the exec of the program after the last. *)
fdinfo_setenv ==
    /\ phase = "setenv" /\ info \in DOMAIN fdinfo_list
    /\ environ' = setenv(environ, fdinfo_list[info], TRUE)
    /\ info' = info + 1
    /\ UNCHANGED <<phase, nargs, fds, fdinfo_list, spec_9pfs, n, env, valid, added, root>>

Exec ==
    /\ phase = "setenv" /\ info \notin DOMAIN fdinfo_list
    /\ phase' = "fdinit"
    /\ UNCHANGED <<nargs, fds, fdinfo_list, info, spec_9pfs, environ, n, env, valid, added, root>>

-----------------------------------------------------------------------------

Passed(v) == v.class # "other"
Device(v) == [kind |-> IF v.class \in {"DISK", "ROOT"} THEN "disk" ELSE v.class, fd |-> v.fd]

(* One turn of the loop over the environment: the cursor is set from the
   counter before the counter moves, so that it stays once where it began. *)
FdInit ==
    /\ phase = "fdinit" /\ env \in DOMAIN environ
    /\ IF Passed(environ[env])
       THEN /\ valid' = valid \cup {environ[env].fd}
            /\ added' = Append(added, Device(environ[env]))
       ELSE UNCHANGED <<valid, added>>
    /\ env' = n + 1
    /\ n' = n + 1
    /\ UNCHANGED <<phase, nargs, fds, fdinfo_list, info, spec_9pfs, environ, root>>

FdInitDone ==
    /\ phase = "fdinit" /\ env \notin DOMAIN environ
    /\ phase' = "create"
    /\ UNCHANGED <<nargs, fds, fdinfo_list, info, spec_9pfs, environ, n, env, valid, added, root>>

(* lkl_disk_add() numbers disks from 0; disk_id is the number of the last. *)
lkl_disk_add == {i \in DOMAIN added : added[i].kind = "disk"}
MountedFirst == added[Min(lkl_disk_add)].fd   \* mutant of Mounted
Mounted == added[Max(lkl_disk_add)].fd

getenv(class) == {environ[i].fd : i \in {i \in DOMAIN environ : environ[i].class = class}}

(* register_block() mounts disk_id, whichever descriptor it is called for:
   that of the root, and block devices from 5 on to the first gap. *)
RootFds == getenv("ROOT") \cap valid
BlockFds ==
    {fd \in 5 .. MAXFD - 1 : /\ 5 .. fd \subseteq valid
                             /\ fds[fd - 2] = "blk"}

(* The mount of a disk, which may fail: it is reported and the program goes
   on, without a root. *)
DiskRoot(mounts) == IF mounts /\ RootFds \cup BlockFds # {} THEN Mounted ELSE NoFd

(* __franken_fdinit_create(), the 9P file system last.  For a 9P root /mnt is
   made, mounted on and entered, each whether or not the one before failed:
   the root is then the 9P file system, or the bare directory, or what it was. *)
FdInitCreate ==
    /\ phase = "create"
    /\ phase' = "up"
    /\ \E mounts \in BOOLEAN :
          root' \in {DiskRoot(mounts)} \cup (IF spec_9pfs = "/" THEN {NinePfs, NoFd} ELSE {})
    /\ UNCHANGED <<nargs, fds, fdinfo_list, info, spec_9pfs, environ, n, env, valid, added>>

Next ==
    \/ \E d \in Disk : ArgDisk(d) \/ ArgRootfs(d)
    \/ \E i \in Net : ArgNet(i)
    \/ ArgConfig
    \/ ArgNoroot
    \/ \E g \in Guest : Arg9pfs(g)
    \/ Open9pfs
    \/ fdinfo_setenv
    \/ Exec
    \/ FdInit
    \/ FdInitDone
    \/ FdInitCreate

Spec == Init /\ [][Next]_vars

-----------------------------------------------------------------------------

Opened == {"DISK", "ROOT", "NET", "CONFIGJSON"}
Class == Opened \cup {"9PFS_FD", "other"}
Name == Disk \cup Net \cup {"-", "PATH", "UUID", "9PFS_MNT"}
Variable == [class : Class, name : Name, fd : Nat]
Descriptor == {"reg", "blk", "sock", "chr"}
AnyDevice == [kind : Class \cup {"disk"}, fd : Nat]

TypeOK ==
    /\ phase \in {"rexec", "setenv", "fdinit", "create", "up"}
    /\ fds \in Seq(Descriptor)
    /\ fdinfo_list \in Seq(Variable) /\ environ \in Seq(Variable)
    /\ info \in Nat \ {0} /\ n \in Nat /\ env \in Nat \ {0}
    /\ added \in Seq(AnyDevice)

(* Of the arguments that were opened under one name: the last one, whose
   descriptor replaces the others, and the first one, whose place is kept. *)
Latest(i) == \A j \in i + 1 .. Len(fdinfo_list) : ~SameName(fdinfo_list[j], fdinfo_list[i])
First(i) == \A j \in 1 .. i - 1 : ~SameName(fdinfo_list[j], fdinfo_list[i])

(* The socket of open_9pfs(), which is opened before that of os_extrafiles(). *)
Device9pfs == IF spec_9pfs = "NULL" THEN {} ELSE {[kind |-> "9PFS_FD", fd |-> Len(fds) + 1]}

(* When the kernel starts, every disk, interface, configuration and 9P
   connection that was named is a device, exactly once and under the last
   descriptor that was opened for it, though __franken_fdinit() looks at the
   first variable of the environment twice: it is harmless only as long as
   uuid() has put one there before any descriptor (rexec.c main, fdinit.c). *)
DevicesOnce ==
    phase \in {"create", "up"} =>
        /\ \A i, j \in DOMAIN added : i # j => added[i].fd # added[j].fd
        /\ {added[i] : i \in DOMAIN added} =
              {Device(fdinfo_list[i]) : i \in {i \in DOMAIN fdinfo_list : Latest(i)}} \cup Device9pfs
        /\ valid = {added[i].fd : i \in DOMAIN added}

(* A disk that is first named after a rootfs argument comes after it in the
   environment, and register_block() will mount it for the root. *)
DiskFollows ==
    \E i, j \in DOMAIN fdinfo_list :
        /\ i < j /\ First(j)
        /\ fdinfo_list[i].class = "ROOT" /\ fdinfo_list[j].class = "DISK"

(* What may be the root with a rootfs: argument: the image of the last one, a
   9P file system that replaces it, or nothing where a mount failed. *)
RootfsMounted ==
    \A i \in DOMAIN fdinfo_list :
        fdinfo_list[i].class = "ROOT" /\ Latest(i) =>
            root \in {NoFd, fdinfo_list[i].fd} \cup (IF spec_9pfs = "/" THEN {NinePfs} ELSE {})

(* If the program gets a root at all it is the image of the last rootfs:
   argument or the 9P file system, as long as no disk was named after the
   root, since what is mounted is the disk that was added last. *)
RootIsRootfs == phase = "up" /\ ~DiskFollows => RootfsMounted
=============================================================================
