----------------------------- MODULE FileTable -----------------------------
(***************************************************************************)
(* What a program may expect of the file system calls, private handles     *)
(* aside: a table of descriptors, each with its own file, flags and        *)
(* position.                                                               *)
(***************************************************************************)
EXTENDS VfsTypes

CONSTANTS
    Paths,              \* every path a program may name
    FlagSets,           \* the flags a program may pass to open
    Tree(_),            \* the file system a path belongs to
    Known,              \* the paths that name a file or a device of theirs
    Regular,            \* [the paths of files -> the length of the file]
    Admits(_, _)        \* the flags a file may be opened with

VARIABLES
    mounted,            \* the file systems that are there
    table,              \* the entry of each descriptor
    answer              \* <<call, value returned>> of the last call

Closed == [open |-> FALSE, file |-> NoPath, flags |-> {}, pos |-> 0]
Entry(path, flags) == [open |-> TRUE, file |-> path, flags |-> flags, pos |-> 0]

Exists(path) == path \in Known /\ Tree(path) \in mounted
IsRegular(fd) == table[fd].open /\ table[fd].file \in DOMAIN Regular
Free == {fd \in Descriptors : ~table[fd].open}

Init ==
    /\ mounted = {}
    /\ table = [fd \in Slots |->
                    IF fd \in Standard THEN Entry(NoPath, StandardFlags(fd)) ELSE Closed]
    /\ answer = <<"none", 0>>

(* File systems appear while the kernel starts, and stay.                  *)
Mount ==
    /\ UNCHANGED answer
    /\ mounted \subseteq mounted'
    /\ UNCHANGED table

(* The smallest free descriptor, at the start of the file.                 *)
Open(path, flags, fd) ==
    /\ answer' = <<"open", fd>>
    /\ Exists(path) /\ Admits(path, flags)
    /\ fd \in Free /\ \A g \in Free : fd <= g
    /\ table' = [table EXCEPT ![fd] = Entry(path, flags)]
    /\ UNCHANGED mounted

(* Every refusal has its reason.                                           *)
OpenFails(path, flags) ==
    /\ \/ answer' = <<"open", ENOENT>> /\ ~Exists(path)
       \/ answer' = <<"open", EACCES>> /\ Exists(path) /\ ~Admits(path, flags)
       \/ answer' = <<"open", EMFILE>> /\ Free = {}
    /\ UNCHANGED <<mounted, table>>

Close(fd) ==
    /\ answer' = <<"close", 0>>
    /\ table[fd].open
    /\ table' = [table EXCEPT ![fd] = Closed]
    /\ UNCHANGED mounted

(* A descriptor opened for nothing transfers nothing.                      *)
Opened(fd) == table[fd].open /\ table[fd].flags # {}

(* A read moves the descriptor's own position forward, by what it returns. *)
Read(fd, p) ==
    /\ IsRegular(fd) /\ Opened(fd)
    /\ answer' = <<"read", p - table[fd].pos>>
    /\ p \in table[fd].pos .. Regular[table[fd].file]
    /\ table' = [table EXCEPT ![fd].pos = p]
    /\ UNCHANGED mounted

(* A seek moves it within the file and returns it.                         *)
Seek(fd, p) ==
    /\ answer' = <<"seek", p>>
    /\ IsRegular(fd)
    /\ p \in 0 .. Regular[table[fd].file]
    /\ table' = [table EXCEPT ![fd].pos = p]
    /\ UNCHANGED mounted

(* Devices and the standard descriptors transfer without a position.       *)
Transfer(fd) ==
    /\ answer' \in {"read", "write", "ioctl"} \X int
    /\ ~IsRegular(fd)
    /\ IF answer'[1] = "ioctl" THEN table[fd].open ELSE Opened(fd)
    /\ UNCHANGED <<mounted, table>>

(* Other calls on an open descriptor fail and change nothing.              *)
Fail(fd) ==
    /\ answer' \in {"read", "write", "seek", "ioctl"} \X {EACCES, EINVAL, EIO}
    /\ table[fd].open
    /\ UNCHANGED <<mounted, table>>

(* A call on what is no open descriptor.                                   *)
BadDescriptor ==
    /\ answer' \in {"close", "read", "write", "seek", "ioctl"} \X {EBADF}
    /\ UNCHANGED <<mounted, table>>

(* A null pointer is refused before the descriptor is looked at.           *)
NullPointer ==
    /\ answer' \in {"open", "read", "write", "stat"} \X {EINVAL}
    /\ UNCHANGED <<mounted, table>>

(* A call whose buffer is not mapped never returns.                        *)
NoReturn ==
    /\ answer' = <<"none", 0>>
    /\ UNCHANGED <<mounted, table>>

Stat(path) ==
    /\ answer' = <<"stat", IF Exists(path) THEN 0 ELSE ENOENT>>
    /\ UNCHANGED <<mounted, table>>

Answers(call) == answer'[1] = call

Next ==
    \/ Mount
    \/ Answers("stat") /\ \E path \in Paths : Stat(path)
    \/ /\ Answers("open")
       /\ \E path \in Paths, flags \in FlagSets :
            OpenFails(path, flags) \/ \E fd \in Descriptors : Open(path, flags, fd)
    \/ Answers("close") /\ \E fd \in Slots : Close(fd)
    \/ Answers("read") /\ \E fd \in Slots : Read(fd, table'[fd].pos)
    \/ Answers("seek") /\ \E fd \in Slots : Seek(fd, table'[fd].pos)
    \/ \E fd \in Slots : Transfer(fd) \/ Fail(fd)
    \/ BadDescriptor
    \/ NullPointer
    \/ NoReturn

Spec == Init /\ [][Next]_<<mounted, table, answer>>

=============================================================================
