------------------------------- MODULE Ramfs -------------------------------
(***************************************************************************)
(* The file system of the boot modules, kernel/fs/ramfs.c: read-only files *)
(* and a table of private handles, each with a file and a position.        *)
(*                                                                         *)
(* Every operation is an action with its result, r, as the last parameter. *)
(***************************************************************************)
EXTENDS UserBuffer

CONSTANTS
    Files,          \* the names the loader registered
    FileSize        \* [Files -> Nat]

(* A boot module fits in memory, and callers bring room for a whole file.  *)
ASSUME FilesAssumption ==
    /\ FileSize \in [Files -> 0 .. Room]
    /\ "" \notin Files

(* files[i].mode is 0444 for every file, so the test of 0222 always fails. *)
ReadOnly == TRUE

NoFile == ""
FreeHandle == [file |-> NoFile, pos |-> 0]

VARIABLE ramfs_handles

RamfsInit == ramfs_handles = [h \in Slots |-> FreeHandle]

ramfs_bad(h) == h \in Slots => ramfs_handles[h].file = NoFile

ramfs_first_free_mutant(h) ==
    /\ h \in Slots
    /\ ramfs_handles[h].pos = 0
    /\ \A i \in Slots : i < h => ramfs_handles[i].pos # 0

(* The first handle without a file.                                        *)
ramfs_first_free(h) ==
    /\ h \in Slots
    /\ ramfs_handles[h].file = NoFile
    /\ \A i \in Slots : i < h => ramfs_handles[i].file # NoFile

ramfs_find_file(path) == path.name \in Files

ramfs_open(path, flags, r) ==
    \/ /\ ~ramfs_find_file(path)
       /\ r = ENOENT
       /\ UNCHANGED ramfs_handles
    \/ /\ ramfs_find_file(path)
       /\ flags \cap O_WRONLY # {} /\ ReadOnly
       /\ r = EACCES
       /\ UNCHANGED ramfs_handles
    \/ /\ ramfs_find_file(path)
       /\ ~(flags \cap O_WRONLY # {} /\ ReadOnly)
       /\ \/ /\ \A h \in Slots : ramfs_handles[h].file # NoFile
             /\ r = EMFILE
             /\ UNCHANGED ramfs_handles
          \/ /\ ramfs_first_free(r)
             /\ ramfs_handles' = [ramfs_handles EXCEPT ![r] = [file |-> path.name, pos |-> 0]]

ramfs_close(h, r) ==
    \/ ramfs_bad(h) /\ r = EBADF /\ UNCHANGED ramfs_handles
    \/ /\ ~ramfs_bad(h)
       /\ r = 0
       /\ ramfs_handles' = [ramfs_handles EXCEPT ![h] = FreeHandle]

(* The bytes to copy: the sum wraps.                                       *)
to_read(pos, size, count) ==
    IF Unsigned(pos + count) > size THEN size - pos ELSE count

ramfs_read(h, count, r) ==
    \/ ramfs_bad(h) /\ r = EBADF /\ UNCHANGED <<ramfs_handles, fault>>
    \/ /\ ~ramfs_bad(h)
       /\ LET pos  == ramfs_handles[h].pos
              size == FileSize[ramfs_handles[h].file]
              n    == to_read(pos, size, count)
          IN  \/ /\ pos >= size
                 /\ r = 0
                 /\ UNCHANGED <<ramfs_handles, fault>>
              \/ /\ pos < size
                 /\ Touches(n)
                 /\ ramfs_handles' = [ramfs_handles EXCEPT ![h].pos = Unsigned(pos + n)]
                 /\ r = Signed(n)
              \/ /\ pos < size
                 /\ Faults(n, "ramfs")
                 /\ r = 0
                 /\ UNCHANGED ramfs_handles

ramfs_write(r) == r = EACCES /\ UNCHANGED ramfs_handles

seek_target_mutant(pos, size, offset, whence) ==
    CASE whence = 0 -> offset
      [] whence = 1 -> pos + offset
      [] whence = 2 -> size + offset

(* Where a seek goes before the position is clamped.                       *)
seek_target(pos, size, offset, whence) ==
    CASE whence = 0 -> Unsigned(offset)
      [] whence = 1 -> Unsigned(pos + offset)
      [] whence = 2 -> Unsigned(size + offset)

clamp_mutant(p, size) == IF p > size + 1 THEN size ELSE p
clamp(p, size) == IF p > size THEN size ELSE p

ramfs_seek(h, offset, whence, r) ==
    \/ ramfs_bad(h) /\ r = EBADF /\ UNCHANGED ramfs_handles
    \/ ~ramfs_bad(h) /\ whence \notin 0 .. 2 /\ r = EINVAL /\ UNCHANGED ramfs_handles
    \/ /\ ~ramfs_bad(h)
       /\ whence \in 0 .. 2
       /\ LET size == FileSize[ramfs_handles[h].file]
              p    == clamp(seek_target(ramfs_handles[h].pos, size, offset, whence), size)
          IN  /\ ramfs_handles' = [ramfs_handles EXCEPT ![h].pos = p]
              /\ r = Signed(p)

ramfs_ioctl(r) == r = EINVAL /\ UNCHANGED ramfs_handles

ramfs_stat(path, r) == r = IF ramfs_find_file(path) THEN 0 ELSE ENOENT

RamfsTypeOK ==
    ramfs_handles \in [Slots -> [file : Files \cup {NoFile}, pos : uint32_t]]

=============================================================================
