-------------------------------- MODULE Vfs --------------------------------
(***************************************************************************)
(* The virtual file system, kernel/fs/vfs.c, over Ramfs and Devfs, with    *)
(* the tests that kernel/syscall/syscall.c makes before it.  Calls are     *)
(* made in the kernel's address space, where its heap is mapped (module    *)
(* Process is about the address space of a program).  No call is           *)
(* interrupted by another, so each is one step.                            *)
(*                                                                         *)
(* A descriptor's own pos is left out: vfs.c adds to it and nothing reads  *)
(* it.  The position that counts is the private handle's.                  *)
(***************************************************************************)
EXTENDS Ramfs, Devfs

CONSTANTS
    Names,          \* file names a program may ask for
    Counts,         \* lengths a program may pass to read and write
    Offsets,        \* offsets a program may pass to seek
    FlagSets,       \* flags it may pass to open
    Fds             \* descriptors it may pass to every other call

ASSUME ArgumentsAssumption ==
    /\ Files \cup Devices \subseteq Names
    /\ "" \notin Names
    /\ Counts \subseteq uint32_t
    /\ Offsets \subseteq int
    /\ FlagSets \subseteq SUBSET O_RDWR
    /\ Fds \subseteq int

Paths == PathOf(Names)

VARIABLES
    fs_list,        \* the names of the registered file systems
    boot,           \* how far boot_vfs_init has come
    open_files,     \* the descriptor table
    eax             \* <<call, value>>: what the last system call left in EAX

handles == <<ramfs_handles, devfs_handles>>
vars == <<fs_list, boot, open_files, eax, ramfs_handles, devfs_handles, fault>>

(* NULL, as a file system and as private data.                             *)
NoFs == ""
ClosedFile == [fs |-> NoFs, private_data |-> 0, flags |-> {}, ref_count |-> 0]

(* vfs_init has run.                                                       *)
Init ==
    /\ RamfsInit
    /\ DevfsInit
    /\ fault = NoFault
    /\ fs_list = {}
    /\ boot = "ramfs_init"
    /\ open_files = [fd \in Slots |->
            IF fd \in Standard
            THEN [ClosedFile EXCEPT !.flags = StandardFlags(fd), !.ref_count = 1]
            ELSE ClosedFile]
    /\ eax = <<"none", 0>>

(* vfs_register_fs: kmalloc may fail, and its callers do not look.         *)
vfs_register_fs(name) == fs_list' \in {fs_list, fs_list \cup {name}}

ramfs_init ==
    /\ boot = "ramfs_init"
    /\ vfs_register_fs("ramfs")
    /\ boot' = "devfs_init"
    /\ UNCHANGED <<open_files, eax, handles, fault>>

devfs_init ==
    /\ boot = "devfs_init"
    /\ vfs_register_fs("devfs")
    /\ boot' = "up"
    /\ UNCHANGED <<open_files, eax, handles, fault>>

-----------------------------------------------------------------------------
(* The file operations of a descriptor's or a path's file system.          *)

fs_open(fs, path, flags, r) ==
    \/ fs = "ramfs" /\ ramfs_open(path, flags, r) /\ UNCHANGED devfs_handles
    \/ fs = "devfs" /\ devfs_open(path, flags, r) /\ UNCHANGED ramfs_handles

fs_close(fs, h, r) ==
    \/ fs = "ramfs" /\ ramfs_close(h, r) /\ UNCHANGED devfs_handles
    \/ fs = "devfs" /\ devfs_close(h, r) /\ UNCHANGED ramfs_handles
    \/ fs = NoFs /\ r = 0 /\ UNCHANGED handles

fs_read(fs, h, count, r) ==
    \/ fs = "ramfs" /\ ramfs_read(h, count, r) /\ UNCHANGED devfs_handles
    \/ fs = "devfs" /\ devfs_read(h, count, r) /\ UNCHANGED ramfs_handles
    \/ fs = NoFs /\ r = EIO /\ UNCHANGED <<handles, fault>>

fs_write(fs, h, count, r) ==
    \/ fs = "ramfs" /\ ramfs_write(r) /\ UNCHANGED <<devfs_handles, fault>>
    \/ fs = "devfs" /\ devfs_write(h, count, r) /\ UNCHANGED ramfs_handles
    \/ fs = NoFs /\ r = EIO /\ UNCHANGED <<handles, fault>>

fs_seek(fs, h, offset, whence, r) ==
    \/ fs = "ramfs" /\ ramfs_seek(h, offset, whence, r) /\ UNCHANGED devfs_handles
    \/ fs = "devfs" /\ devfs_seek(r) /\ UNCHANGED ramfs_handles
    \/ fs = NoFs /\ r = EIO /\ UNCHANGED handles

fs_ioctl(fs, h, request, argp, r) ==
    \/ fs = "ramfs" /\ ramfs_ioctl(r) /\ UNCHANGED devfs_handles
    \/ fs = "devfs" /\ devfs_ioctl(h, request, argp, r) /\ UNCHANGED ramfs_handles
    \/ fs = NoFs /\ r = EINVAL /\ UNCHANGED handles

-----------------------------------------------------------------------------
(* The system calls.                                                       *)

Running == boot = "up" /\ fault = NoFault

(* A call that faults never returns.                                       *)
Return(call, r) == eax' = IF fault' = NoFault THEN <<call, r>> ELSE <<"none", 0>>

Refuse(call, r) ==
    /\ eax' = <<call, r>>
    /\ UNCHANGED <<open_files, handles, fault>>

bad_fd(fd) == fd \in Slots => open_files[fd].ref_count = 0
may_read_mutant(fd) == TRUE
may_read(fd) ==
    open_files[fd].flags \cap O_RDONLY # {} \/ open_files[fd].flags \cap O_RDWR # {}
may_write(fd) ==
    open_files[fd].flags \cap O_WRONLY # {} \/ open_files[fd].flags \cap O_RDWR # {}

vfs_resolve_fs(path) == IF path.dev THEN "devfs" ELSE "ramfs"

(* The first free descriptor past the standard ones.                       *)
free_fd(fd) ==
    /\ fd \in Descriptors
    /\ open_files[fd].ref_count = 0
    /\ \A g \in Descriptors : g < fd => open_files[g].ref_count # 0

vfs_open(path, flags) ==
    /\ Running
    /\ UNCHANGED <<fs_list, boot>>
    /\ LET fs == vfs_resolve_fs(path) IN
        \/ fs \notin fs_list /\ Refuse("open", ENOENT)
        \/ /\ fs \in fs_list
           /\ \A fd \in Descriptors : open_files[fd].ref_count # 0
           /\ Refuse("open", EMFILE)
        \/ /\ fs \in fs_list
           /\ UNCHANGED fault
           /\ \E fd \in Descriptors, result \in int :
                /\ free_fd(fd)
                /\ fs_open(fs, path, flags, result)
                /\ \/ /\ result < 0
                      /\ eax' = <<"open", result>>
                      /\ UNCHANGED open_files
                   \/ /\ result >= 0
                      /\ eax' = <<"open", fd>>
                      /\ open_files' = [open_files EXCEPT ![fd] =
                            [fs |-> fs, private_data |-> result,
                             flags |-> flags, ref_count |-> 1]]

vfs_close(fd) ==
    /\ Running
    /\ UNCHANGED <<fs_list, boot>>
    /\ \/ bad_fd(fd) /\ Refuse("close", EBADF)
       \/ /\ ~bad_fd(fd)
          /\ UNCHANGED fault
          /\ eax' = <<"close", 0>>
          /\ \/ /\ open_files[fd].ref_count > 1
                /\ open_files' = [open_files EXCEPT ![fd].ref_count = @ - 1]
                /\ UNCHANGED handles
             \/ /\ open_files[fd].ref_count = 1
                /\ \E r \in int : fs_close(open_files[fd].fs, open_files[fd].private_data, r)
                /\ open_files' = [open_files EXCEPT ![fd] = ClosedFile]

vfs_read(fd, count) ==
    /\ Running
    /\ UNCHANGED <<fs_list, boot>>
    /\ \/ bad_fd(fd) /\ Refuse("read", EBADF)
       \/ ~bad_fd(fd) /\ ~may_read(fd) /\ Refuse("read", EACCES)
       \/ /\ ~bad_fd(fd)
          /\ may_read(fd)
          /\ \E r \in int :
                /\ fs_read(open_files[fd].fs, open_files[fd].private_data, count, r)
                /\ Return("read", r)
          /\ UNCHANGED open_files

(* Standard output and error go to the screen.                             *)
vfs_write(fd, count) ==
    /\ Running
    /\ UNCHANGED <<fs_list, boot>>
    /\ \/ bad_fd(fd) /\ Refuse("write", EBADF)
       \/ ~bad_fd(fd) /\ ~may_write(fd) /\ Refuse("write", EACCES)
       \/ /\ ~bad_fd(fd)
          /\ may_write(fd)
          /\ fd \in {1, 2}
          /\ Touches(count) \/ Faults(count, "vfs")
          /\ Return("write", Signed(count))
          /\ UNCHANGED <<open_files, handles>>
       \/ /\ ~bad_fd(fd)
          /\ may_write(fd)
          /\ fd \notin {1, 2}
          /\ \E r \in int :
                /\ fs_write(open_files[fd].fs, open_files[fd].private_data, count, r)
                /\ Return("write", r)
          /\ UNCHANGED open_files

vfs_seek(fd, offset, whence) ==
    /\ Running
    /\ UNCHANGED <<fs_list, boot>>
    /\ \/ bad_fd(fd) /\ Refuse("seek", EBADF)
       \/ /\ ~bad_fd(fd)
          /\ UNCHANGED <<open_files, fault>>
          /\ \E r \in int :
                /\ fs_seek(open_files[fd].fs, open_files[fd].private_data, offset, whence, r)
                /\ eax' = <<"seek", r>>

vfs_ioctl(fd, request, argp) ==
    /\ Running
    /\ UNCHANGED <<fs_list, boot>>
    /\ \/ bad_fd(fd) /\ Refuse("ioctl", EBADF)
       \/ /\ ~bad_fd(fd)
          /\ UNCHANGED <<open_files, fault>>
          /\ \E r \in int :
                /\ fs_ioctl(open_files[fd].fs, open_files[fd].private_data, request, argp, r)
                /\ eax' = <<"ioctl", r>>

vfs_stat(path) ==
    /\ Running
    /\ UNCHANGED <<fs_list, boot>>
    /\ \/ vfs_resolve_fs(path) \notin fs_list /\ Refuse("stat", ENOENT)
       \/ /\ vfs_resolve_fs(path) \in fs_list
          /\ \E r \in int :
                /\ IF path.dev THEN devfs_stat(path, r) ELSE ramfs_stat(path, r)
                /\ Refuse("stat", r)

(* The null pointers syscall_handler turns away.                           *)
NullArgument(call) ==
    /\ Running
    /\ Refuse(call, EINVAL)
    /\ UNCHANGED <<fs_list, boot>>

Next ==
    \/ ramfs_init
    \/ devfs_init
    \/ \E path \in Paths :
        \/ \E flags \in FlagSets : vfs_open(path, flags)
        \/ vfs_stat(path)
    \/ \E fd \in Fds :
        \/ vfs_close(fd)
        \/ \E count \in Counts : vfs_read(fd, count) \/ vfs_write(fd, count)
        \/ \E offset \in Offsets, whence \in 0 .. 3 : vfs_seek(fd, offset, whence)
        \/ \E request \in 1 .. 2, argp \in BOOLEAN : vfs_ioctl(fd, request, argp)
    \/ \E call \in {"open", "read", "write", "stat"} : NullArgument(call)

Spec == Init /\ [][Next]_vars

-----------------------------------------------------------------------------

TypeOK ==
    /\ RamfsTypeOK
    /\ DevfsTypeOK
    /\ fault \in {NoFault, "ramfs", "devfs", "vfs"}
    /\ fs_list \subseteq {"ramfs", "devfs"}
    /\ boot \in {"ramfs_init", "devfs_init", "up"}
    /\ open_files \in [Slots -> [fs : {NoFs, "ramfs", "devfs"}, private_data : Slots,
                                 flags : SUBSET O_RDWR, ref_count : {0, 1}]]
    /\ eax \in {"none", "open", "close", "read", "write", "seek", "ioctl", "stat"} \X int

(* The descriptors of a file system.                                       *)
OpenOn(fs) == {fd \in Slots : open_files[fd].ref_count > 0 /\ open_files[fd].fs = fs}

Taken(fs) ==
    IF fs = "ramfs" THEN {h \in Slots : ramfs_handles[h].file # NoFile}
                    ELSE {h \in Slots : devfs_handles[h] # NoDevice}

(* Whatever is opened and closed, in whatever order: every open descriptor *)
(* has a private handle of its own, and every handle that is taken belongs *)
(* to an open descriptor, so that none is shared and none leaks, and a     *)
(* handle is free whenever a descriptor is.                                *)
HandlesPaired ==
    \A fs \in {"ramfs", "devfs"} :
        /\ \A fd, g \in OpenOn(fs) :
            open_files[fd].private_data = open_files[g].private_data => fd = g
        /\ Taken(fs) = {open_files[fd].private_data : fd \in OpenOn(fs)}

(* No read or seek, whatever its arguments and however they wrap, leaves a *)
(* position past the end of its file.                                      *)
PosInFile ==
    \A h \in Slots : ramfs_handles[h].file # NoFile =>
        ramfs_handles[h].pos <= FileSize[ramfs_handles[h].file]

(* What open, close, read, write, seek, ioctl and stat promise a program.  *)
View(fd) ==
    LET f == open_files[fd] IN
    [open  |-> f.ref_count > 0,
     file  |-> IF f.ref_count = 0 \/ f.fs = NoFs THEN NoPath
               ELSE IF f.fs = "ramfs"
               THEN [dev |-> FALSE, name |-> ramfs_handles[f.private_data].file]
               ELSE [dev |-> TRUE, name |-> devfs_handles[f.private_data]],
     flags |-> f.flags,
     pos   |-> IF f.ref_count > 0 /\ f.fs = "ramfs"
               THEN ramfs_handles[f.private_data].pos ELSE 0]

KnownPaths == {path \in Paths : path.name \in IF path.dev THEN Devices ELSE Files}
RegularFiles == [path \in {p \in Paths : ~p.dev /\ p.name \in Files} |-> FileSize[path.name]]
WriteAllowed(path, flags) == path.dev \/ 2 \notin flags

Table == INSTANCE FileTable WITH
    Tree    <- vfs_resolve_fs,
    Known   <- KnownPaths,
    Regular <- RegularFiles,
    Admits  <- WriteAllowed,
    mounted <- fs_list,
    table   <- [fd \in Slots |-> View(fd)],
    answer  <- eax

ImplementsFileTable == Table!Spec

=============================================================================
