------------------------------ MODULE VfsTypes ------------------------------
(***************************************************************************)
(* What kernel/fs/vfs.h gives the virtual file system and the two file     *)
(* systems under it: error codes, open flags, the size of the tables; and  *)
(* the machine's integers as the three use them.                           *)
(***************************************************************************)
EXTENDS Integers

CONSTANTS
    MAX_OPEN_FILES,     \* 32: descriptors, and private handles of each file system
    WORD,               \* 2^32: the values of a uint32_t
    Room                \* the bytes mapped at the buffer a caller passes

ASSUME WordAssumption ==
    /\ WORD \in Nat
    /\ WORD % 2 = 0
    /\ WORD > 2 * MAX_OPEN_FILES
    /\ WORD >= 16
ASSUME TableAssumption == MAX_OPEN_FILES \in Nat /\ MAX_OPEN_FILES > 3
ASSUME RoomAssumption == Room \in Nat /\ 2 * Room < WORD

ENOENT == -1
EACCES == -2
EMFILE == -3
EBADF == -4
EINVAL == -5
EIO == -6
Errors == {ENOENT, EACCES, EMFILE, EBADF, EINVAL, EIO}

(* Open flags, as sets of bits.                                            *)
O_RDONLY == {1}
O_WRONLY == {2}
O_RDWR == {1, 2}

Slots == 0 .. MAX_OPEN_FILES - 1
int == -(WORD \div 2) .. WORD \div 2 - 1
uint32_t == 0 .. WORD - 1

(* Conversions between uint32_t and int.                                   *)
Unsigned(x) == x % WORD
Signed(x) == IF x < WORD \div 2 THEN x ELSE x - WORD

(* A path is a name with or without the prefix "/dev/"; no file has the    *)
(* empty name.                                                             *)
PathOf(names) == [dev : BOOLEAN, name : names]
NoPath == [dev |-> FALSE, name |-> ""]

(* Standard input, output and error are open from the start.               *)
Standard == 0 .. 2
Descriptors == 3 .. MAX_OPEN_FILES - 1
StandardFlags(fd) == IF fd = 0 THEN O_RDONLY ELSE O_WRONLY

=============================================================================
