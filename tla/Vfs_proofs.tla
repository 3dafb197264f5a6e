----------------------------- MODULE Vfs_proofs -----------------------------
(***************************************************************************)
(* Proofs about the virtual file system, for every number of descriptors,  *)
(* every set of files with any sizes that fit in memory, every argument a  *)
(* program may pass, and every word size.                                  *)
(***************************************************************************)
EXTENDS Vfs, FiniteSetTheorems, TLAPS

Fss == {"ramfs", "devfs"}
OpenFile == [fs : {NoFs, "ramfs", "devfs"}, private_data : Slots,
             flags : SUBSET O_RDWR, ref_count : {0, 1}]
Handle == [file : Files \cup {NoFile}, pos : uint32_t]

(* A closed descriptor keeps nothing of the file that was open on it.      *)
ClosedBlank ==
    \A fd \in Slots : open_files[fd].ref_count = 0 => open_files[fd] = ClosedFile

(* vfs_open never gives out a standard descriptor, closed or not.          *)
StandardPlain == \A fd \in Standard : open_files[fd].fs = NoFs

IInv == TypeOK /\ HandlesPaired /\ PosInFile /\ ClosedBlank /\ StandardPlain

-----------------------------------------------------------------------------
(* The machine's integers.                                                 *)

LEMMA WordFacts ==
    /\ WORD \in Nat /\ WORD >= 16 /\ WORD \div 2 \in Nat /\ WORD = 2 * (WORD \div 2)
    /\ MAX_OPEN_FILES \in Nat /\ MAX_OPEN_FILES > 3 /\ 2 * MAX_OPEN_FILES < WORD
    /\ Room \in Nat /\ 2 * Room < WORD
    /\ Slots \subseteq int /\ 0 \in Slots /\ Standard \subseteq Slots /\ Descriptors \subseteq Slots
    /\ Errors \subseteq int /\ 0 \in int
    /\ Slots \subseteq Nat
<1>1. /\ WORD \in Nat /\ WORD >= 16 /\ WORD \div 2 \in Nat /\ WORD = 2 * (WORD \div 2)
      /\ MAX_OPEN_FILES \in Nat /\ MAX_OPEN_FILES > 3 /\ 2 * MAX_OPEN_FILES < WORD
      /\ Room \in Nat /\ 2 * Room < WORD
    BY WordAssumption, TableAssumption, RoomAssumption
<1>2. Slots \subseteq int /\ 0 \in Slots /\ Slots \subseteq Nat /\ 0 \in int
    BY <1>1 DEF Slots, int
<1>3. Standard \subseteq Slots /\ Descriptors \subseteq Slots
    BY <1>1 DEF Slots, Standard, Descriptors
<1>4. Errors \subseteq int
    BY <1>1 DEF Errors, int, ENOENT, EACCES, EMFILE, EBADF, EINVAL, EIO
<1> QED
    BY <1>1, <1>2, <1>3, <1>4

LEMMA SignedInt == \A x \in uint32_t : Signed(x) \in int
    BY WordFacts DEF uint32_t, Signed, int

LEMMA UnsignedSum ==
    ASSUME NEW p \in uint32_t, NEW n \in uint32_t
    PROVE  /\ p + n < WORD => Unsigned(p + n) = p + n
           /\ p + n >= WORD => Unsigned(p + n) = p + n - WORD
           /\ Unsigned(p + n) \in uint32_t
<1>1. p \in Nat /\ n \in Nat /\ WORD \in Nat /\ WORD > 0 /\ p < WORD /\ n < WORD
    BY WordFacts DEF uint32_t
<1>2. p + n < WORD => Unsigned(p + n) = p + n
    BY <1>1 DEF Unsigned
<1>3. p + n >= WORD => Unsigned(p + n) = p + n - WORD
    BY <1>1 DEF Unsigned
<1> QED
    BY <1>1, <1>2, <1>3 DEF uint32_t

LEMMA UnsignedType == \A x \in Int : Unsigned(x) \in uint32_t
    BY WordFacts DEF Unsigned, uint32_t

(* A read that the buffer has room for ends in the file; one that it has   *)
(* no room for has wrapped.                                                *)
LEMMA ReadFacts ==
    ASSUME NEW pos \in uint32_t, NEW size \in 0 .. Room, NEW count \in uint32_t, pos < size
    PROVE  LET n == to_read(pos, size, count) IN
           /\ n \in uint32_t
           /\ n <= Room => /\ n \in 0 .. size - pos /\ Unsigned(pos + n) = pos + n
                           /\ Signed(n) = n
           /\ n > Room => pos + count >= WORD
<1>1. /\ pos \in Nat /\ size \in Nat /\ count \in Nat /\ Room \in Nat /\ WORD \in Nat
      /\ size <= Room /\ 2 * Room < WORD /\ count < WORD /\ pos < WORD
    BY WordFacts DEF uint32_t
<1> DEFINE n == to_read(pos, size, count)
<1>2. CASE pos + count < WORD
  <2>1. Unsigned(pos + count) = pos + count
    BY <1>2, UnsignedSum
  <2>2. n = IF pos + count > size THEN size - pos ELSE count
    BY <2>1 DEF to_read
  <2>3. n \in 0 .. size - pos /\ n \in uint32_t
    BY <1>1, <2>2 DEF uint32_t
  <2> HIDE DEF n
  <2>4. pos + n < WORD /\ n <= Room
    BY <1>1, <2>3
  <2>5. Unsigned(pos + n) = pos + n
    BY <2>3, <2>4, UnsignedSum
  <2>6. Signed(n) = n
    BY <1>1, <2>3, WordFacts DEF Signed
  <2> QED
    BY <1>1, <2>3, <2>4, <2>5, <2>6 DEF n
<1>3. CASE pos + count >= WORD
  <2>1. n \in {size - pos, count}
    BY DEF to_read
  <2>2. size - pos \in uint32_t /\ size - pos \in 0 .. size - pos /\ pos + (size - pos) = size
        /\ size < WORD /\ size - pos <= Room
    BY <1>1 DEF uint32_t
  <2>3. count > Room
    BY <1>1, <1>3
  <2>4. Unsigned(pos + (size - pos)) = size
    BY <2>2, UnsignedSum
  <2>5. Signed(size - pos) = size - pos
    BY <1>1, <2>2, WordFacts DEF Signed
  <2> HIDE DEF n
  <2>6. CASE n = size - pos
    BY <1>1, <1>3, <2>2, <2>4, <2>5, <2>6 DEF n
  <2>7. CASE n = count
    BY <1>1, <1>3, <2>3, <2>7 DEF n
  <2> QED
    BY <2>1, <2>6, <2>7
<1> QED
    BY <1>1, <1>2, <1>3

(* A seek ends in the file.                                                *)
LEMMA SeekFacts ==
    ASSUME NEW pos \in uint32_t, NEW size \in 0 .. Room, NEW offset \in int, NEW whence \in 0 .. 2
    PROVE  LET p == clamp(seek_target(pos, size, offset, whence), size) IN
           p \in 0 .. size /\ p \in uint32_t /\ Signed(p) = p /\ p \in int
<1>1. /\ pos \in Int /\ size \in Nat /\ offset \in Int /\ Room \in Nat /\ WORD \in Nat
      /\ size <= Room /\ 2 * Room < WORD
    BY WordFacts DEF uint32_t, int
<1> DEFINE t == seek_target(pos, size, offset, whence)
           p == clamp(t, size)
<1>2. t \in uint32_t
  <2>1. whence = 0 => t = Unsigned(offset)
    BY DEF seek_target
  <2>2. whence = 1 => t = Unsigned(pos + offset)
    BY DEF seek_target
  <2>3. whence = 2 => t = Unsigned(size + offset)
    BY DEF seek_target
  <2>4. pos + offset \in Int /\ size + offset \in Int
    BY <1>1
  <2> HIDE DEF t
  <2> QED
    BY <1>1, <2>1, <2>2, <2>3, <2>4, UnsignedType
<1> HIDE DEF t
<1>3. p \in 0 .. size
    BY <1>1, <1>2 DEF clamp, uint32_t
<1> HIDE DEF p
<1>4. p \in uint32_t /\ Signed(p) = p /\ p \in int
    BY <1>1, <1>3, WordFacts DEF uint32_t, Signed, int
<1> QED
    BY <1>3, <1>4 DEF p, t

-----------------------------------------------------------------------------
(* Descriptors and private handles.                                        *)

Owns(fd, fs) == open_files[fd].ref_count > 0 /\ open_files[fd].fs = fs

LEMMA FileTypes ==
    ASSUME TypeOK, NEW fd \in Slots
    PROVE  /\ open_files[fd] \in OpenFile
           /\ open_files[fd].fs \in {NoFs, "ramfs", "devfs"}
           /\ open_files[fd].private_data \in Slots
           /\ open_files[fd].flags \in SUBSET O_RDWR
           /\ open_files[fd].ref_count \in {0, 1}
    BY DEF TypeOK, OpenFile

LEMMA HandleTypes ==
    ASSUME TypeOK, NEW h \in Slots
    PROVE  /\ ramfs_handles[h] \in Handle
           /\ ramfs_handles[h].file \in Files \cup {NoFile} /\ ramfs_handles[h].pos \in uint32_t
           /\ devfs_handles[h] \in Devices \cup {NoDevice}
    BY DEF TypeOK, RamfsTypeOK, DevfsTypeOK, Handle

(* What HandlesPaired says of one descriptor and of one handle.            *)
LEMMA PairedFacts ==
    ASSUME TypeOK, HandlesPaired, NEW fs \in Fss
    PROVE  /\ \A fd, g \in Slots :
                Owns(fd, fs) /\ Owns(g, fs) /\ fd # g =>
                    open_files[fd].private_data # open_files[g].private_data
           /\ \A fd \in Slots : Owns(fd, fs) => open_files[fd].private_data \in Taken(fs)
           /\ \A h \in Taken(fs) :
                \E fd \in Slots : Owns(fd, fs) /\ open_files[fd].private_data = h
    BY DEF HandlesPaired, OpenOn, Owns, Fss

(* The same, to be shown of a step.                                        *)
PairedWith(files, taken, fs) ==
    /\ \A fd, g \in Slots :
        /\ files[fd].ref_count > 0 /\ files[fd].fs = fs
        /\ files[g].ref_count > 0 /\ files[g].fs = fs
        /\ fd # g
        => files[fd].private_data # files[g].private_data
    /\ \A fd \in Slots :
        files[fd].ref_count > 0 /\ files[fd].fs = fs => files[fd].private_data \in taken
    /\ \A h \in taken :
        \E fd \in Slots : /\ files[fd].ref_count > 0 /\ files[fd].fs = fs
                          /\ files[fd].private_data = h

LEMMA PairedIff ==
    ASSUME NEW files, NEW taken, NEW fs
    PROVE  LET open == {fd \in Slots : files[fd].ref_count > 0 /\ files[fd].fs = fs} IN
           PairedWith(files, taken, fs) <=>
               /\ \A fd, g \in open : files[fd].private_data = files[g].private_data => fd = g
               /\ taken = {files[fd].private_data : fd \in open}
    BY DEF PairedWith

LEMMA PairedFrom == HandlesPaired <=> \A fs \in Fss : PairedWith(open_files, Taken(fs), fs)
    BY PairedIff DEF HandlesPaired, OpenOn, Fss

LEMMA PairedNext == HandlesPaired' <=> \A fs \in Fss : PairedWith(open_files', Taken(fs)', fs)
    BY PairedIff DEF HandlesPaired, OpenOn, Fss

LEMMA PairedSame ==
    ASSUME HandlesPaired, open_files' = open_files, \A fs \in Fss : Taken(fs)' = Taken(fs)
    PROVE  HandlesPaired'
    BY DEF HandlesPaired, OpenOn, Fss

(* A free handle for a closed descriptor.                                  *)
LEMMA PairedOpen ==
    ASSUME TypeOK, HandlesPaired, NEW fd \in Slots, open_files[fd].ref_count = 0,
           NEW fs \in Fss, NEW h \in Slots, h \notin Taken(fs), NEW flags,
           open_files' = [open_files EXCEPT ![fd] =
                [fs |-> fs, private_data |-> h, flags |-> flags, ref_count |-> 1]],
           \A f \in Fss : Taken(f)' = IF f = fs THEN Taken(f) \cup {h} ELSE Taken(f)
    PROVE  HandlesPaired'
<1>1. /\ open_files'[fd].fs = fs /\ open_files'[fd].private_data = h
      /\ open_files'[fd].ref_count = 1
      /\ \A g \in Slots : g # fd => open_files'[g] = open_files[g]
    BY DEF TypeOK
<1>2. ASSUME NEW f \in Fss
      PROVE  PairedWith(open_files', Taken(f)', f)
  <2>1. PairedWith(open_files, Taken(f), f)
    BY PairedFrom
  <2>2. CASE f = fs
    <3>1. Taken(f)' = Taken(f) \cup {h}
      BY <2>2
    <3> QED
      BY <1>1, <2>1, <2>2, <3>1 DEF PairedWith
  <2>3. CASE f # fs
    <3>1. Taken(f)' = Taken(f)
      BY <2>3
    <3> QED
      BY <1>1, <2>1, <2>3, <3>1 DEF PairedWith
  <2> QED
    BY <2>2, <2>3
<1> QED
    BY <1>2, PairedNext

(* The handle of a descriptor that is closed is free again.                *)
LEMMA PairedClose ==
    ASSUME TypeOK, HandlesPaired, NEW fd \in Slots, open_files[fd].ref_count = 1,
           open_files' = [open_files EXCEPT ![fd] = ClosedFile],
           \A f \in Fss : Taken(f)' = IF f = open_files[fd].fs
                                      THEN Taken(f) \ {open_files[fd].private_data} ELSE Taken(f)
    PROVE  HandlesPaired'
<1>1. /\ open_files'[fd].ref_count = 0
      /\ \A g \in Slots : g # fd => open_files'[g] = open_files[g]
    BY DEF TypeOK, ClosedFile
<1>2. ASSUME NEW f \in Fss
      PROVE  PairedWith(open_files', Taken(f)', f)
  <2>1. PairedWith(open_files, Taken(f), f)
    BY PairedFrom
  <2>2. CASE f = open_files[fd].fs
    <3>1. Taken(f)' = Taken(f) \ {open_files[fd].private_data}
      BY <2>2
    <3> QED
      BY <1>1, <2>1, <2>2, <3>1 DEF PairedWith
  <2>3. CASE f # open_files[fd].fs
    <3>1. Taken(f)' = Taken(f)
      BY <2>3
    <3> QED
      BY <1>1, <2>1, <2>3, <3>1 DEF PairedWith
  <2> QED
    BY <2>2, <2>3
<1> QED
    BY <1>2, PairedNext

-----------------------------------------------------------------------------
(* The invariant holds at the start, and a step that leaves descriptors    *)
(* and handles alone keeps it.                                             *)

Calls == {"none", "open", "close", "read", "write", "seek", "ioctl", "stat"}
FaultPlaces == {NoFault, "ramfs", "devfs", "vfs"}

LEMMA InitIInv == Init => IInv
<1> SUFFICES ASSUME Init PROVE IInv
    OBVIOUS
<1>1. RamfsTypeOK /\ DevfsTypeOK
  <2>1. 0 \in uint32_t
    BY WordFacts DEF uint32_t
  <2> QED
    BY <2>1 DEF Init, RamfsInit, DevfsInit, RamfsTypeOK, DevfsTypeOK, FreeHandle
<1>2. ASSUME NEW fd \in Slots
      PROVE  /\ open_files[fd] \in OpenFile
             /\ open_files[fd].fs = NoFs
             /\ open_files[fd].ref_count = 0 => open_files[fd] = ClosedFile
  <2>1. StandardFlags(fd) \in SUBSET O_RDWR /\ 0 \in Slots
    BY WordFacts DEF StandardFlags, O_RDONLY, O_WRONLY, O_RDWR
  <2>2. CASE fd \in Standard
    <3>1. open_files[fd] = [fs |-> NoFs, private_data |-> 0,
                            flags |-> StandardFlags(fd), ref_count |-> 1]
      BY <2>2 DEF Init, ClosedFile
    <3> QED
      BY <2>1, <3>1 DEF OpenFile
  <2>3. CASE fd \notin Standard
    <3>1. open_files[fd] = ClosedFile
      BY <2>3 DEF Init
    <3>2. ClosedFile \in OpenFile /\ ClosedFile.fs = NoFs
      BY <2>1 DEF OpenFile, ClosedFile
    <3> QED
      BY <3>1, <3>2
  <2> QED
    BY <2>2, <2>3
<1>3. open_files \in [Slots -> OpenFile]
  <2>1. open_files = [fd \in Slots |-> open_files[fd]]
    BY DEF Init
  <2> QED
    BY <1>2, <2>1
<1>4. TypeOK
  <2>1. eax \in Calls \X int
    BY WordFacts DEF Init, Calls
  <2> QED
    BY <1>1, <1>3, <2>1 DEF Init, TypeOK, OpenFile, Calls
<1>5. HandlesPaired
  <2>1. \A fd \in Slots : open_files[fd].fs = NoFs
    BY <1>2
  <2>2. \A fs \in Fss : Taken(fs) = {}
    BY DEF Init, Taken, RamfsInit, DevfsInit, FreeHandle, Fss
  <2>3. \A fs \in Fss : PairedWith(open_files, Taken(fs), fs)
    BY <2>1, <2>2 DEF PairedWith, NoFs, Fss
  <2> QED
    BY <2>3, PairedFrom
<1>6. PosInFile
    BY DEF Init, RamfsInit, FreeHandle, PosInFile
<1>7. ClosedBlank
    BY <1>2 DEF ClosedBlank
<1>8. StandardPlain
    BY <1>2, WordFacts DEF StandardPlain
<1> QED
    BY <1>4, <1>5, <1>6, <1>7, <1>8 DEF IInv

(* What no call changes but by its own rule.                               *)
Around == /\ fault' \in FaultPlaces /\ eax' \in Calls \X int
          /\ fs_list' \subseteq Fss /\ boot' \in {"ramfs_init", "devfs_init", "up"}

LEMMA KeepAll ==
    ASSUME IInv, UNCHANGED <<open_files, handles>>, Around
    PROVE  IInv'
<1>1. TypeOK'
    BY DEF IInv, TypeOK, RamfsTypeOK, DevfsTypeOK, handles, Around, Calls, FaultPlaces, Fss
<1>2. HandlesPaired'
    BY DEF IInv, HandlesPaired, OpenOn, Taken, handles
<1>3. PosInFile' /\ ClosedBlank' /\ StandardPlain'
    BY DEF IInv, PosInFile, ClosedBlank, StandardPlain, handles
<1> QED
    BY <1>1, <1>2, <1>3 DEF IInv

(* A refusal, and the first steps of the boot.                             *)
LEMMA KeepRefuse ==
    ASSUME IInv, UNCHANGED <<fs_list, boot>>, NEW call \in Calls, NEW r \in int, Refuse(call, r)
    PROVE  IInv'
<1>1. Around
    BY DEF Around, IInv, TypeOK, Refuse, Calls, FaultPlaces, Fss
<1> QED
    BY <1>1, KeepAll DEF Refuse, handles

LEMMA KeepBoot == ASSUME IInv, ramfs_init \/ devfs_init PROVE IInv'
<1>1. Around
    BY DEF Around, IInv, TypeOK, ramfs_init, devfs_init, vfs_register_fs, Calls, FaultPlaces, Fss
<1> QED
    BY <1>1, KeepAll DEF ramfs_init, devfs_init, handles

(* A step that leaves the descriptors alone and moves one position within  *)
(* its file.                                                               *)
LEMMA KeepMove ==
    ASSUME IInv, UNCHANGED <<open_files, devfs_handles>>, Around, NEW h \in Slots,
           ramfs_handles[h].file # NoFile, NEW p \in uint32_t,
           p <= FileSize[ramfs_handles[h].file],
           ramfs_handles' = [ramfs_handles EXCEPT ![h].pos = p]
    PROVE  IInv'
<1>1. TypeOK
    BY DEF IInv
<1>2. ramfs_handles \in [Slots -> Handle]
    BY <1>1 DEF TypeOK, RamfsTypeOK, Handle
<1>3. /\ \A i \in Slots : ramfs_handles'[i].file = ramfs_handles[i].file
      /\ \A i \in Slots : i # h => ramfs_handles'[i] = ramfs_handles[i]
      /\ ramfs_handles'[h].pos = p
      /\ ramfs_handles' \in [Slots -> Handle]
    BY <1>2 DEF Handle
<1>4. TypeOK'
    BY <1>1, <1>3 DEF TypeOK, RamfsTypeOK, DevfsTypeOK, Handle, Around, Calls, FaultPlaces, Fss
<1>5. HandlesPaired'
  <2>1. \A fs \in Fss : Taken(fs)' = Taken(fs)
    BY <1>3 DEF Taken, Fss
  <2> QED
    BY <2>1, PairedSame DEF IInv
<1>6. PosInFile'
    BY <1>3 DEF IInv, PosInFile
<1>7. ClosedBlank' /\ StandardPlain'
    BY DEF IInv, ClosedBlank, StandardPlain
<1> QED
    BY <1>4, <1>5, <1>6, <1>7 DEF IInv

-----------------------------------------------------------------------------
(* open and close.                                                         *)

LEMMA CodesInt ==
    /\ ENOENT \in int /\ EACCES \in int /\ EMFILE \in int /\ EBADF \in int
    /\ EINVAL \in int /\ EIO \in int /\ 0 \in int
    /\ ENOENT < 0 /\ EACCES < 0 /\ EMFILE < 0 /\ EBADF < 0 /\ EINVAL < 0 /\ EIO < 0
    BY WordFacts DEF Errors, ENOENT, EACCES, EMFILE, EBADF, EINVAL, EIO

(* An open of a file system either fails with an error and changes         *)
(* nothing, or takes a free handle, at the start of its file.              *)
TakesHandle(fs, path, r) ==
    /\ r \in Slots /\ r \notin Taken(fs)
    /\ \A f \in Fss : Taken(f)' = IF f = fs THEN Taken(f) \cup {r} ELSE Taken(f)
    /\ \/ /\ fs = "ramfs" /\ path.name \in Files /\ UNCHANGED devfs_handles
          /\ ramfs_handles' = [ramfs_handles EXCEPT ![r] = [file |-> path.name, pos |-> 0]]
       \/ /\ fs = "devfs" /\ path.name \in Devices /\ UNCHANGED ramfs_handles
          /\ devfs_handles' = [devfs_handles EXCEPT ![r] = path.name]

LEMMA OpenTakes ==
    ASSUME TypeOK, NEW fs \in Fss, NEW path, NEW flags, NEW r \in int,
           fs_open(fs, path, flags, r)
    PROVE  \/ r < 0 /\ UNCHANGED handles
           \/ TakesHandle(fs, path, r)
<1>1. ramfs_handles \in [Slots -> Handle] /\ devfs_handles \in [Slots -> Devices \cup {NoDevice}]
    BY DEF TypeOK, RamfsTypeOK, DevfsTypeOK, Handle
<1>2. "" \notin Files /\ "" \notin Devices
    BY FilesAssumption DEF Devices
<1>3. CASE fs = "ramfs"
  <2>1. ramfs_open(path, flags, r) /\ UNCHANGED devfs_handles
    BY <1>3 DEF fs_open
  <2>2. CASE UNCHANGED ramfs_handles /\ r \in {ENOENT, EACCES, EMFILE}
    BY <2>1, <2>2, CodesInt DEF handles
  <2>3. CASE /\ path.name \in Files /\ ramfs_first_free(r)
             /\ ramfs_handles' = [ramfs_handles EXCEPT ![r] = [file |-> path.name, pos |-> 0]]
    <3>1. r \in Slots /\ r \notin Taken(fs)
      BY <1>3, <2>3 DEF ramfs_first_free, Taken
    <3>2. /\ ramfs_handles'[r].file = path.name
          /\ \A i \in Slots : i # r => ramfs_handles'[i] = ramfs_handles[i]
      BY <1>1, <2>3, <3>1
    <3>3. Taken("ramfs")' = Taken("ramfs") \cup {r} /\ Taken("devfs")' = Taken("devfs")
      BY <1>2, <2>1, <2>3, <3>1, <3>2 DEF Taken, NoFile
    <3> QED
      BY <1>3, <2>1, <2>3, <3>1, <3>3 DEF TakesHandle, Fss
  <2> QED
    BY <2>1, <2>2, <2>3 DEF ramfs_open, ramfs_find_file
<1>4. CASE fs = "devfs"
  <2>1. devfs_open(path, flags, r) /\ UNCHANGED ramfs_handles
    BY <1>4 DEF fs_open
  <2>2. CASE UNCHANGED devfs_handles /\ r \in {ENOENT, EMFILE}
    BY <2>1, <2>2, CodesInt DEF handles
  <2>3. CASE /\ path.name \in Devices /\ r \in Slots /\ devfs_handles[r] = NoDevice
             /\ devfs_handles' = [devfs_handles EXCEPT ![r] = path.name]
    <3>1. r \notin Taken(fs)
      BY <1>4, <2>3 DEF Taken
    <3>2. /\ devfs_handles'[r] = path.name
          /\ \A i \in Slots : i # r => devfs_handles'[i] = devfs_handles[i]
      BY <1>1, <2>3
    <3>3. Taken("devfs")' = Taken("devfs") \cup {r} /\ Taken("ramfs")' = Taken("ramfs")
      BY <1>2, <2>1, <2>3, <3>2 DEF Taken, NoDevice
    <3> QED
      BY <1>4, <2>1, <2>3, <3>1, <3>3 DEF TakesHandle, Fss
  <2> QED
    BY <2>1, <2>2, <2>3 DEF devfs_open, devfs_resolve_device
<1> QED
    BY <1>3, <1>4 DEF Fss

LEMMA TakenKeeps ==
    ASSUME TypeOK, PosInFile, NEW fs, NEW path, NEW r, TakesHandle(fs, path, r)
    PROVE  RamfsTypeOK' /\ DevfsTypeOK' /\ PosInFile'
<1>1. ramfs_handles \in [Slots -> Handle] /\ devfs_handles \in [Slots -> Devices \cup {NoDevice}]
    BY DEF TypeOK, RamfsTypeOK, DevfsTypeOK, Handle
<1>2. 0 \in uint32_t /\ \A f \in Files : 0 <= FileSize[f]
  <2>1. 0 \in uint32_t
    BY WordFacts DEF uint32_t
  <2>2. ASSUME NEW f \in Files PROVE 0 <= FileSize[f]
    <3>1. FileSize[f] \in 0 .. Room
      BY FilesAssumption
    <3> QED
      BY <3>1
  <2> QED
    BY <2>1, <2>2
<1>3. CASE /\ path.name \in Files /\ UNCHANGED devfs_handles
           /\ ramfs_handles' = [ramfs_handles EXCEPT ![r] = [file |-> path.name, pos |-> 0]]
  <2>1. [file |-> path.name, pos |-> 0] \in Handle
    BY <1>2, <1>3 DEF Handle
  <2>2. ramfs_handles' \in [Slots -> Handle]
    BY <1>1, <1>3, <2>1
  <2>3. /\ ramfs_handles'[r] = [file |-> path.name, pos |-> 0]
        /\ \A i \in Slots : i # r => ramfs_handles'[i] = ramfs_handles[i]
    BY <1>1, <1>3 DEF TakesHandle
  <2>4. PosInFile'
    BY <1>2, <1>3, <2>3 DEF PosInFile
  <2> QED
    BY <1>1, <1>3, <2>2, <2>4 DEF RamfsTypeOK, DevfsTypeOK, Handle
<1>4. CASE /\ path.name \in Devices /\ UNCHANGED ramfs_handles
           /\ devfs_handles' = [devfs_handles EXCEPT ![r] = path.name]
    BY <1>1, <1>4 DEF RamfsTypeOK, DevfsTypeOK, Handle, PosInFile
<1> QED
    BY <1>3, <1>4 DEF TakesHandle

(* The step of vfs_open that calls the file system.                        *)
OpenStep(path, flags, fd, result) ==
    LET fs == vfs_resolve_fs(path) IN
    /\ free_fd(fd)
    /\ fs_open(fs, path, flags, result)
    /\ \/ /\ result < 0
          /\ eax' = <<"open", result>>
          /\ UNCHANGED open_files
       \/ /\ result >= 0
          /\ eax' = <<"open", fd>>
          /\ open_files' = [open_files EXCEPT ![fd] =
                [fs |-> fs, private_data |-> result, flags |-> flags, ref_count |-> 1]]

LEMMA OpenCases ==
    ASSUME NEW path, NEW flags, vfs_open(path, flags)
    PROVE  /\ Running /\ UNCHANGED <<fs_list, boot>>
           /\ \/ vfs_resolve_fs(path) \notin fs_list /\ Refuse("open", ENOENT)
              \/ /\ vfs_resolve_fs(path) \in fs_list
                 /\ \A fd \in Descriptors : open_files[fd].ref_count # 0
                 /\ Refuse("open", EMFILE)
              \/ /\ vfs_resolve_fs(path) \in fs_list
                 /\ UNCHANGED fault
                 /\ \E fd \in Descriptors, result \in int : OpenStep(path, flags, fd, result)
    BY DEF vfs_open, OpenStep

LEMMA KeepOpen ==
    ASSUME IInv, NEW path \in Paths, NEW flags \in FlagSets, vfs_open(path, flags)
    PROVE  IInv'
<1>1. UNCHANGED <<fs_list, boot>>
    BY OpenCases
<1>2. CASE Refuse("open", ENOENT) \/ Refuse("open", EMFILE)
    BY <1>1, <1>2, KeepRefuse, CodesInt DEF Calls
<1>3. CASE UNCHANGED fault /\ \E fd \in Descriptors, result \in int :
                                OpenStep(path, flags, fd, result)
  <2> DEFINE fs == vfs_resolve_fs(path)
  <2>1. PICK fd \in Descriptors, r \in int : OpenStep(path, flags, fd, r)
    BY <1>3
  <2>2. fs \in Fss /\ TypeOK /\ HandlesPaired /\ PosInFile /\ ClosedBlank /\ StandardPlain
    BY DEF vfs_resolve_fs, Fss, IInv
  <2>3. fd \in Slots /\ fd \in int
    BY WordFacts
  <2>4. Around
    <3>1. eax' \in Calls \X int
      BY <2>1, <2>3 DEF OpenStep, Calls
    <3> QED
      BY <1>1, <1>3, <2>2, <3>1 DEF Around, TypeOK, FaultPlaces, Fss
  <2>5. CASE r < 0 /\ UNCHANGED handles
    <3>1. UNCHANGED open_files
      BY <2>1, <2>5 DEF OpenStep, int
    <3> QED
      BY <2>4, <2>5, <3>1, KeepAll
  <2>6. CASE TakesHandle(fs, path, r)
    <3>1. r \in Slots /\ r \notin Taken(fs) /\ r >= 0
      BY <2>6, WordFacts DEF TakesHandle, Slots
    <3>2. /\ open_files[fd].ref_count = 0
          /\ open_files' = [open_files EXCEPT ![fd] =
                [fs |-> fs, private_data |-> r, flags |-> flags, ref_count |-> 1]]
      BY <2>1, <3>1 DEF OpenStep, free_fd, int
    <3>3. HandlesPaired'
      BY <2>2, <2>3, <2>6, <3>1, <3>2, PairedOpen DEF TakesHandle
    <3>4. flags \in SUBSET O_RDWR
      BY ArgumentsAssumption
    <3>5. [fs |-> fs, private_data |-> r, flags |-> flags, ref_count |-> 1] \in OpenFile
      BY <2>2, <3>1, <3>4 DEF OpenFile, Fss
    <3>6. open_files' \in [Slots -> OpenFile]
      <4>1. open_files \in [Slots -> OpenFile]
        BY <2>2 DEF TypeOK, OpenFile
      <4> QED
        BY <3>2, <3>5, <4>1
    <3>7. RamfsTypeOK' /\ DevfsTypeOK' /\ PosInFile'
      BY <2>2, <2>6, TakenKeeps
    <3>8. TypeOK'
      BY <2>4, <3>6, <3>7 DEF TypeOK, Around, Calls, FaultPlaces, Fss, OpenFile
    <3>9. ClosedBlank' /\ StandardPlain'
      <4>1. /\ open_files'[fd].ref_count = 1
            /\ \A g \in Slots : g # fd => open_files'[g] = open_files[g]
        BY <2>2, <2>3, <3>2 DEF TypeOK
      <4>2. Standard \subseteq Slots \ {fd}
        BY <2>1, WordFacts DEF Standard, Descriptors
      <4> QED
        BY <2>2, <4>1, <4>2 DEF ClosedBlank, StandardPlain
    <3> QED
      BY <3>3, <3>7, <3>8, <3>9 DEF IInv
  <2>7. fs_open(fs, path, flags, r)
    BY <2>1 DEF OpenStep
  <2> QED
    BY <2>2, <2>5, <2>6, <2>7, OpenTakes
<1> QED
    BY <1>2, <1>3, OpenCases

(* The private handle of an open descriptor is never a bad one.            *)
LEMMA GoodHandle ==
    ASSUME TypeOK, HandlesPaired, NEW fd, ~bad_fd(fd)
    PROVE  /\ fd \in Slots /\ open_files[fd].ref_count = 1
           /\ open_files[fd].private_data \in Slots
           /\ open_files[fd].fs \in {NoFs, "ramfs", "devfs"}
           /\ open_files[fd].fs = "ramfs" => /\ ~ramfs_bad(open_files[fd].private_data)
                                             /\ open_files[fd].private_data \in Taken("ramfs")
           /\ open_files[fd].fs = "devfs" => /\ ~devfs_bad(open_files[fd].private_data)
                                             /\ open_files[fd].private_data \in Taken("devfs")
<1>1. fd \in Slots /\ open_files[fd].ref_count # 0
    BY DEF bad_fd
<1>2. /\ open_files[fd].ref_count = 1
      /\ open_files[fd].private_data \in Slots
      /\ open_files[fd].fs \in {NoFs, "ramfs", "devfs"}
    BY <1>1, FileTypes
<1>3. \A fs \in Fss : open_files[fd].fs = fs => open_files[fd].private_data \in Taken(fs)
    BY <1>1, <1>2, PairedFacts DEF Owns
<1> QED
    BY <1>1, <1>2, <1>3 DEF Taken, ramfs_bad, devfs_bad, Fss

LEMMA KeepClose ==
    ASSUME IInv, NEW fd \in Fds, vfs_close(fd)
    PROVE  IInv'
<1>1. /\ UNCHANGED <<fs_list, boot>>
      /\ TypeOK /\ HandlesPaired /\ PosInFile /\ ClosedBlank /\ StandardPlain
    BY DEF vfs_close, IInv
<1>2. CASE Refuse("close", EBADF)
    BY <1>1, <1>2, KeepRefuse, CodesInt DEF Calls
<1>3. CASE /\ ~bad_fd(fd) /\ UNCHANGED fault /\ eax' = <<"close", 0>>
           /\ open_files' = [open_files EXCEPT ![fd] = ClosedFile]
           /\ \E r \in int : fs_close(open_files[fd].fs, open_files[fd].private_data, r)
  <2> DEFINE h == open_files[fd].private_data
             fs == open_files[fd].fs
  <2>1. /\ fd \in Slots /\ open_files[fd].ref_count = 1 /\ h \in Slots
        /\ fs \in {NoFs, "ramfs", "devfs"}
        /\ fs = "ramfs" => ~ramfs_bad(h)
        /\ fs = "devfs" => ~devfs_bad(h)
    BY <1>1, <1>3, GoodHandle
  <2>2. \/ fs = "ramfs" /\ ramfs_handles' = [ramfs_handles EXCEPT ![h] = FreeHandle]
                        /\ UNCHANGED devfs_handles
        \/ fs = "devfs" /\ devfs_handles' = [devfs_handles EXCEPT ![h] = NoDevice]
                        /\ UNCHANGED ramfs_handles
        \/ fs = NoFs /\ UNCHANGED handles
    BY <1>3, <2>1 DEF fs_close, ramfs_close, devfs_close
  <2>3. ramfs_handles \in [Slots -> Handle] /\ devfs_handles \in [Slots -> Devices \cup {NoDevice}]
    BY <1>1 DEF TypeOK, RamfsTypeOK, DevfsTypeOK, Handle
  <2>4. FreeHandle \in Handle /\ FreeHandle.file = NoFile
    <3>1. 0 \in uint32_t
      BY WordFacts DEF uint32_t
    <3> QED
      BY <3>1 DEF FreeHandle, Handle
  <2> HIDE DEF h, fs
  <2>5. /\ RamfsTypeOK' /\ DevfsTypeOK' /\ PosInFile'
        /\ \A f \in Fss : Taken(f)' = IF f = fs THEN Taken(f) \ {h} ELSE Taken(f)
    <3>1. CASE fs = "ramfs" /\ ramfs_handles' = [ramfs_handles EXCEPT ![h] = FreeHandle]
                            /\ UNCHANGED devfs_handles
      <4>1. /\ ramfs_handles' \in [Slots -> Handle]
            /\ ramfs_handles'[h] = FreeHandle
            /\ \A i \in Slots : i # h => ramfs_handles'[i] = ramfs_handles[i]
        BY <2>1, <2>3, <2>4, <3>1
      <4>2. Taken("ramfs")' = Taken("ramfs") \ {h} /\ Taken("devfs")' = Taken("devfs")
        BY <2>4, <3>1, <4>1 DEF Taken
      <4>3. PosInFile'
        BY <1>1, <2>4, <4>1 DEF PosInFile
      <4> QED
        BY <2>3, <3>1, <4>1, <4>2, <4>3 DEF RamfsTypeOK, DevfsTypeOK, Handle, Fss
    <3>2. CASE fs = "devfs" /\ devfs_handles' = [devfs_handles EXCEPT ![h] = NoDevice]
                            /\ UNCHANGED ramfs_handles
      <4>1. /\ devfs_handles' \in [Slots -> Devices \cup {NoDevice}]
            /\ devfs_handles'[h] = NoDevice
            /\ \A i \in Slots : i # h => devfs_handles'[i] = devfs_handles[i]
        BY <2>1, <2>3, <3>2
      <4>2. Taken("devfs")' = Taken("devfs") \ {h} /\ Taken("ramfs")' = Taken("ramfs")
        BY <3>2, <4>1 DEF Taken
      <4>3. PosInFile'
        BY <1>1, <3>2 DEF PosInFile
      <4> QED
        BY <2>3, <3>2, <4>1, <4>2, <4>3 DEF RamfsTypeOK, DevfsTypeOK, Handle, Fss
    <3>3. CASE fs = NoFs /\ UNCHANGED handles
      BY <1>1, <3>3 DEF handles, TypeOK, RamfsTypeOK, DevfsTypeOK, PosInFile, Taken, Fss, NoFs
    <3> QED
      BY <2>2, <3>1, <3>2, <3>3
  <2>6. HandlesPaired'
    BY <1>1, <1>3, <2>1, <2>5, PairedClose DEF h, fs
  <2>7. TypeOK' /\ ClosedBlank' /\ StandardPlain'
    <3>1. open_files \in [Slots -> OpenFile]
      BY <1>1 DEF TypeOK, OpenFile
    <3>2. ClosedFile \in OpenFile
      BY WordFacts DEF OpenFile, ClosedFile
    <3>3. /\ open_files' \in [Slots -> OpenFile]
          /\ open_files'[fd] = ClosedFile
          /\ \A g \in Slots : g # fd => open_files'[g] = open_files[g]
      BY <1>3, <2>1, <3>1, <3>2
    <3>4. ClosedBlank' /\ StandardPlain'
      BY <1>1, <3>3, WordFacts DEF ClosedBlank, StandardPlain, ClosedFile
    <3>5. eax' \in Calls \X int
      BY <1>3, CodesInt DEF Calls
    <3>6. TypeOK'
      BY <1>1, <1>3, <2>5, <3>3, <3>5 DEF TypeOK, OpenFile, Calls
    <3> QED
      BY <3>4, <3>6
  <2> QED
    BY <2>5, <2>6, <2>7 DEF IInv
<1>4. ~(~bad_fd(fd) /\ open_files[fd].ref_count > 1)
    BY <1>1, GoodHandle
<1> QED
    BY <1>2, <1>3, <1>4 DEF vfs_close

-----------------------------------------------------------------------------
(* read, write, seek and the calls that change no file's state.            *)

LEMMA FileSizes == \A f \in Files : FileSize[f] \in 0 .. Room
    BY FilesAssumption

(* What a read of an open file does.                                       *)
LEMMA RamfsReads ==
    ASSUME TypeOK, NEW h \in Slots, ~ramfs_bad(h), NEW count \in uint32_t, NEW r,
           ramfs_read(h, count, r)
    PROVE  \/ UNCHANGED <<ramfs_handles, fault>> /\ r = 0
           \/ \E n \in uint32_t :
                /\ UNCHANGED fault /\ r = n
                /\ ramfs_handles' = [ramfs_handles EXCEPT ![h].pos = @ + n]
                /\ ramfs_handles[h].pos + n <= FileSize[ramfs_handles[h].file]
                /\ ramfs_handles[h].pos + n \in uint32_t
           \/ /\ UNCHANGED ramfs_handles /\ fault' = "ramfs"
              /\ ramfs_handles[h].pos + count >= WORD
<1> DEFINE pos  == ramfs_handles[h].pos
           size == FileSize[ramfs_handles[h].file]
           n    == to_read(pos, size, count)
<1>1. ramfs_handles[h].file \in Files
    BY HandleTypes DEF ramfs_bad
<1>2. pos \in uint32_t /\ size \in 0 .. Room
    BY <1>1, FileSizes, HandleTypes
<1>3. \/ UNCHANGED <<ramfs_handles, fault>> /\ r = 0
      \/ /\ pos < size /\ Touches(n) /\ r = Signed(n)
         /\ ramfs_handles' = [ramfs_handles EXCEPT ![h].pos = Unsigned(pos + n)]
      \/ pos < size /\ Faults(n, "ramfs") /\ UNCHANGED ramfs_handles
    BY DEF ramfs_read
<1>4. pos < size => /\ n \in uint32_t
                    /\ n <= Room => /\ n \in 0 .. size - pos /\ Unsigned(pos + n) = pos + n
                                    /\ Signed(n) = n
                    /\ n > Room => pos + count >= WORD
    BY <1>2, ReadFacts
<1>5. /\ pos \in Nat /\ size \in Nat /\ Room \in Nat /\ WORD \in Nat /\ size < WORD
    BY <1>2, WordFacts DEF uint32_t
<1>6. CASE pos < size /\ Touches(n) /\ r = Signed(n)
           /\ ramfs_handles' = [ramfs_handles EXCEPT ![h].pos = Unsigned(pos + n)]
  <2>1. n \in uint32_t /\ n \in 0 .. size - pos /\ Unsigned(pos + n) = pos + n /\ r = n
        /\ UNCHANGED fault
    BY <1>4, <1>6 DEF Touches
  <2>2. ramfs_handles' = [ramfs_handles EXCEPT ![h].pos = @ + n]
    BY <1>6, <2>1
  <2> HIDE DEF n
  <2>3. pos + n <= size /\ pos + n \in uint32_t
    BY <1>5, <2>1 DEF uint32_t
  <2> QED
    BY <2>1, <2>2, <2>3
<1>7. CASE pos < size /\ Faults(n, "ramfs") /\ UNCHANGED ramfs_handles
  <2>1. n > Room /\ fault' = "ramfs"
    BY <1>7 DEF Faults
  <2> QED
    BY <1>4, <1>7, <2>1
<1> QED
    BY <1>3, <1>6, <1>7

LEMMA RamfsSeeks ==
    ASSUME TypeOK, NEW h \in Slots, ~ramfs_bad(h), NEW offset \in int, NEW whence, NEW r,
           ramfs_seek(h, offset, whence, r)
    PROVE  \/ UNCHANGED ramfs_handles /\ r = EINVAL
           \/ \E p \in uint32_t :
                /\ r = p /\ p \in 0 .. FileSize[ramfs_handles[h].file]
                /\ ramfs_handles' = [ramfs_handles EXCEPT ![h].pos = p]
<1> DEFINE pos  == ramfs_handles[h].pos
           size == FileSize[ramfs_handles[h].file]
           p    == clamp(seek_target(pos, size, offset, whence), size)
<1>1. ramfs_handles[h].file \in Files
    BY HandleTypes DEF ramfs_bad
<1>2. pos \in uint32_t /\ size \in 0 .. Room
    BY <1>1, FileSizes, HandleTypes
<1>3. CASE whence \in 0 .. 2 /\ r = Signed(p)
           /\ ramfs_handles' = [ramfs_handles EXCEPT ![h].pos = p]
  <2>1. p \in 0 .. size /\ p \in uint32_t /\ Signed(p) = p
    BY <1>2, <1>3, SeekFacts
  <2> QED
    BY <1>3, <2>1
<1> QED
    BY <1>3 DEF ramfs_seek

LEMMA DevfsReads ==
    ASSUME NEW h, NEW count \in uint32_t, NEW r,
           devfs_read(h, count, r) \/ devfs_write(h, count, r)
    PROVE  UNCHANGED devfs_handles /\ fault' \in {fault, "devfs"}
    BY DEF devfs_read, devfs_write, Touches, Faults

LEMMA ReturnInt ==
    ASSUME NEW call \in Calls, NEW r \in int, Return(call, r)
    PROVE  eax' \in Calls \X int
    BY CodesInt DEF Return, Calls

LEMMA KeepRead ==
    ASSUME IInv, NEW fd \in Fds, NEW count \in Counts, vfs_read(fd, count)
    PROVE  IInv'
<1>1. UNCHANGED <<fs_list, boot>> /\ TypeOK /\ HandlesPaired
    BY DEF vfs_read, IInv
<1>2. CASE Refuse("read", EBADF) \/ Refuse("read", EACCES)
    BY <1>1, <1>2, KeepRefuse, CodesInt DEF Calls
<1>3. ASSUME ~bad_fd(fd), UNCHANGED open_files, NEW r \in int, Return("read", r),
             fs_read(open_files[fd].fs, open_files[fd].private_data, count, r)
      PROVE  IInv'
  <2> DEFINE h == open_files[fd].private_data
  <2>1. /\ h \in Slots
        /\ open_files[fd].fs = "ramfs" => ~ramfs_bad(h)
    BY <1>1, <1>3, GoodHandle
  <2>2. count \in uint32_t
    BY ArgumentsAssumption
  <2>3. eax' \in Calls \X int
    BY <1>3, ReturnInt DEF Calls
  <2> HIDE DEF h
  <2>4. CASE open_files[fd].fs = "ramfs" /\ ramfs_read(h, count, r) /\ UNCHANGED devfs_handles
    <3>1. CASE UNCHANGED ramfs_handles /\ fault' \in {fault, "ramfs"}
      <4>1. Around
        BY <1>1, <2>3, <3>1 DEF Around, TypeOK, FaultPlaces, Fss
      <4> QED
        BY <1>3, <2>4, <3>1, <4>1, KeepAll DEF handles
    <3>2. ASSUME NEW n \in uint32_t, UNCHANGED fault,
                 ramfs_handles' = [ramfs_handles EXCEPT ![h].pos = @ + n],
                 ramfs_handles[h].pos + n <= FileSize[ramfs_handles[h].file],
                 ramfs_handles[h].pos + n \in uint32_t
          PROVE  IInv'
      <4>1. Around
        BY <1>1, <2>3, <3>2 DEF Around, TypeOK, FaultPlaces, Fss
      <4>2. ramfs_handles[h].file # NoFile
        BY <2>1, <2>4 DEF ramfs_bad
      <4> DEFINE p == ramfs_handles[h].pos + n
      <4>3. ramfs_handles' = [ramfs_handles EXCEPT ![h].pos = p]
        BY <3>2
      <4>4. p \in uint32_t /\ p <= FileSize[ramfs_handles[h].file]
        BY <3>2
      <4> HIDE DEF p
      <4> QED
        BY <1>3, <2>1, <2>4, <4>1, <4>2, <4>3, <4>4, KeepMove
    <3> QED
      BY <1>1, <2>1, <2>2, <2>4, <3>1, <3>2, RamfsReads
  <2>5. CASE open_files[fd].fs = "devfs" /\ devfs_read(h, count, r) /\ UNCHANGED ramfs_handles
    <3>1. UNCHANGED devfs_handles /\ fault' \in {fault, "devfs"}
      BY <2>2, <2>5, DevfsReads
    <3>2. Around
      BY <1>1, <2>3, <3>1 DEF Around, TypeOK, FaultPlaces, Fss
    <3> QED
      BY <1>3, <2>5, <3>1, <3>2, KeepAll DEF handles
  <2>6. CASE open_files[fd].fs = NoFs /\ UNCHANGED <<handles, fault>>
    <3>1. Around
      BY <1>1, <2>3, <2>6 DEF Around, TypeOK, FaultPlaces, Fss
    <3> QED
      BY <1>3, <2>6, <3>1, KeepAll DEF handles
  <2> QED
    BY <1>3, <2>4, <2>5, <2>6 DEF fs_read, h
<1> QED
    BY <1>2, <1>3 DEF vfs_read

LEMMA KeepWrite ==
    ASSUME IInv, NEW fd \in Fds, NEW count \in Counts, vfs_write(fd, count)
    PROVE  IInv'
<1>1. UNCHANGED <<fs_list, boot>> /\ TypeOK /\ HandlesPaired
    BY DEF vfs_write, IInv
<1>2. CASE Refuse("write", EBADF) \/ Refuse("write", EACCES)
    BY <1>1, <1>2, KeepRefuse, CodesInt DEF Calls
<1>3. count \in uint32_t
    BY ArgumentsAssumption
<1>4. CASE /\ Touches(count) \/ Faults(count, "vfs")
           /\ Return("write", Signed(count))
           /\ UNCHANGED <<open_files, handles>>
  <2>1. eax' \in Calls \X int
    BY <1>3, <1>4, ReturnInt, SignedInt DEF Calls
  <2>2. Around
    BY <1>1, <1>4, <2>1 DEF Around, TypeOK, FaultPlaces, Fss, Touches, Faults
  <2> QED
    BY <1>4, <2>2, KeepAll
<1>5. ASSUME UNCHANGED open_files, NEW r \in int, Return("write", r),
             fs_write(open_files[fd].fs, open_files[fd].private_data, count, r)
      PROVE  IInv'
  <2>1. eax' \in Calls \X int
    BY <1>5, ReturnInt DEF Calls
  <2>2. UNCHANGED handles /\ fault' \in {fault, "devfs"}
    BY <1>3, <1>5, DevfsReads DEF fs_write, ramfs_write, handles
  <2>3. Around
    BY <1>1, <2>1, <2>2 DEF Around, TypeOK, FaultPlaces, Fss
  <2> QED
    BY <1>5, <2>2, <2>3, KeepAll
<1> QED
    BY <1>2, <1>4, <1>5 DEF vfs_write

LEMMA KeepSeek ==
    ASSUME IInv, NEW fd \in Fds, NEW offset \in Offsets, NEW whence \in 0 .. 3,
           vfs_seek(fd, offset, whence)
    PROVE  IInv'
<1>1. UNCHANGED <<fs_list, boot>> /\ TypeOK /\ HandlesPaired
    BY DEF vfs_seek, IInv
<1>2. CASE Refuse("seek", EBADF)
    BY <1>1, <1>2, KeepRefuse, CodesInt DEF Calls
<1>3. ASSUME ~bad_fd(fd), UNCHANGED <<open_files, fault>>, NEW r \in int, eax' = <<"seek", r>>,
             fs_seek(open_files[fd].fs, open_files[fd].private_data, offset, whence, r)
      PROVE  IInv'
  <2> DEFINE h == open_files[fd].private_data
  <2>1. /\ h \in Slots
        /\ open_files[fd].fs = "ramfs" => ~ramfs_bad(h)
    BY <1>1, <1>3, GoodHandle
  <2>2. offset \in int
    BY ArgumentsAssumption
  <2>3. Around
    BY <1>1, <1>3 DEF Around, TypeOK, FaultPlaces, Fss, Calls
  <2> HIDE DEF h
  <2>4. CASE open_files[fd].fs = "ramfs" /\ UNCHANGED devfs_handles
             /\ ramfs_seek(h, offset, whence, r)
    <3>1. CASE UNCHANGED ramfs_handles
      BY <1>3, <2>3, <2>4, <3>1, KeepAll DEF handles
    <3>2. ASSUME NEW p \in uint32_t, p \in 0 .. FileSize[ramfs_handles[h].file],
                 ramfs_handles' = [ramfs_handles EXCEPT ![h].pos = p]
          PROVE  IInv'
      <4>1. ramfs_handles[h].file # NoFile
        BY <2>1, <2>4 DEF ramfs_bad
      <4>2. p <= FileSize[ramfs_handles[h].file]
        BY <3>2
      <4> QED
        BY <1>3, <2>1, <2>3, <2>4, <3>2, <4>1, <4>2, KeepMove
    <3> QED
      BY <1>1, <2>1, <2>2, <2>4, <3>1, <3>2, RamfsSeeks
  <2>5. CASE UNCHANGED handles
    BY <1>3, <2>3, <2>5, KeepAll
  <2> QED
    BY <1>3, <2>4, <2>5 DEF fs_seek, devfs_seek, handles, h
<1> QED
    BY <1>2, <1>3 DEF vfs_seek

LEMMA KeepIoctl ==
    ASSUME IInv, NEW fd \in Fds, NEW request, NEW argp, vfs_ioctl(fd, request, argp)
    PROVE  IInv'
<1>1. UNCHANGED <<fs_list, boot>> /\ TypeOK
    BY DEF vfs_ioctl, IInv
<1>2. CASE Refuse("ioctl", EBADF)
    BY <1>1, <1>2, KeepRefuse, CodesInt DEF Calls
<1>3. ASSUME UNCHANGED <<open_files, fault>>, NEW r \in int, eax' = <<"ioctl", r>>,
             fs_ioctl(open_files[fd].fs, open_files[fd].private_data, request, argp, r)
      PROVE  IInv'
  <2>1. Around
    BY <1>1, <1>3 DEF Around, TypeOK, FaultPlaces, Fss, Calls
  <2>2. UNCHANGED handles
    BY <1>3 DEF fs_ioctl, ramfs_ioctl, devfs_ioctl, handles
  <2> QED
    BY <1>3, <2>1, <2>2, KeepAll
<1> QED
    BY <1>2, <1>3 DEF vfs_ioctl

LEMMA KeepStat ==
    ASSUME IInv, NEW path, vfs_stat(path)
    PROVE  IInv'
    BY KeepRefuse, CodesInt DEF vfs_stat, Calls

LEMMA KeepNull ==
    ASSUME IInv, NEW call \in {"open", "read", "write", "stat"}, NullArgument(call)
    PROVE  IInv'
    BY KeepRefuse, CodesInt DEF NullArgument, Calls

LEMMA NextIInv == IInv /\ [Next]_vars => IInv'
<1> SUFFICES ASSUME IInv, [Next]_vars PROVE IInv'
    OBVIOUS
<1>1. CASE UNCHANGED vars
  <2>1. Around
    BY <1>1 DEF Around, IInv, TypeOK, vars, Calls, FaultPlaces, Fss
  <2> QED
    BY <1>1, <2>1, KeepAll DEF vars, handles
<1>2. CASE Next
    BY <1>2, KeepBoot, KeepOpen, KeepStat, KeepClose, KeepRead, KeepWrite, KeepSeek, KeepIoctl,
       KeepNull DEF Next
<1> QED
    BY <1>1, <1>2

LEMMA Invariant == Spec => []IInv
    BY InitIInv, NextIInv, PTL DEF Spec

(* Whatever the program calls, with whatever arguments, the descriptor     *)
(* table and both handle tables of vfs.c, ramfs.c and devfs.c keep values  *)
(* of their types: no handle number leaves its table, no reference count   *)
(* passes 1, and no position leaves a uint32_t.                            *)
THEOREM VfsTypeCorrect == Spec => []TypeOK
    BY Invariant, PTL DEF IInv

(* No order of open and close, of files and of devices, makes two          *)
(* descriptors share a private handle or loses one: vfs_open and vfs_close *)
(* keep the two tables of ramfs.c and devfs.c in step with their own.      *)
THEOREM HandlesStayPaired == Spec => []HandlesPaired
    BY Invariant, PTL DEF IInv

(* ramfs_read and ramfs_seek never leave a position past the end of its    *)
(* file, for any count and offset, the ones whose sum wraps included.      *)
THEOREM PositionsStayInFile == Spec => []PosInFile
    BY Invariant, PTL DEF IInv

-----------------------------------------------------------------------------
(* The refinement of FileTable.  What a descriptor shows, as a function of *)
(* its entry and of the two handle tables.                                 *)

NameOf(f, ram, dev) ==
    IF f.fs = NoFs THEN NoPath
    ELSE IF f.fs = "ramfs" THEN [dev |-> FALSE, name |-> ram[f.private_data].file]
         ELSE [dev |-> TRUE, name |-> dev[f.private_data]]
PosOf(f, ram) == IF f.fs = "ramfs" THEN ram[f.private_data].pos ELSE 0
Shown(f, ram, dev) ==
    [open |-> TRUE, file |-> NameOf(f, ram, dev), flags |-> f.flags, pos |-> PosOf(f, ram)]

T == [fd \in Slots |-> View(fd)]

(* FileTable has its own copy of VfsTypes.                                 *)
LEMMA TableNames ==
    /\ Table!Slots = Slots /\ Table!Descriptors = Descriptors /\ Table!Standard = Standard
    /\ Table!NoPath = NoPath /\ Table!int = int
    /\ Table!ENOENT = ENOENT /\ Table!EACCES = EACCES /\ Table!EMFILE = EMFILE
    /\ Table!EBADF = EBADF /\ Table!EINVAL = EINVAL /\ Table!EIO = EIO
    /\ \A fd : Table!StandardFlags(fd) = StandardFlags(fd)
    BY DEF Table!Slots, Slots, Table!Descriptors, Descriptors, Table!Standard, Standard,
           Table!NoPath, NoPath, Table!int, int, Table!ENOENT, ENOENT, Table!EACCES, EACCES,
           Table!EMFILE, EMFILE, Table!EBADF, EBADF, Table!EINVAL, EINVAL, Table!EIO, EIO,
           Table!StandardFlags, StandardFlags, O_RDONLY, Table!O_RDONLY, O_WRONLY, Table!O_WRONLY

LEMMA ViewOpen ==
    ASSUME NEW fd, open_files[fd].ref_count = 1
    PROVE  View(fd) = Shown(open_files[fd], ramfs_handles, devfs_handles)
<1>1. (open_files[fd].ref_count > 0) = TRUE /\ open_files[fd].ref_count # 0
    OBVIOUS
<1> QED
    BY <1>1 DEF View, Shown, NameOf, PosOf

LEMMA ViewOpenNext ==
    ASSUME NEW fd, open_files'[fd].ref_count = 1
    PROVE  View(fd)' = Shown(open_files'[fd], ramfs_handles', devfs_handles')
<1>1. (open_files'[fd].ref_count > 0) = TRUE /\ open_files'[fd].ref_count # 0
    OBVIOUS
<1> QED
    BY <1>1 DEF View, Shown, NameOf, PosOf

LEMMA ViewClosed ==
    ASSUME NEW fd, open_files[fd] = ClosedFile
    PROVE  View(fd) = Table!Closed
<1>1. /\ open_files[fd].ref_count = 0 /\ open_files[fd].flags = {}
      /\ (open_files[fd].ref_count > 0) = FALSE
    BY DEF ClosedFile
<1> QED
    BY <1>1, TableNames DEF View, Table!Closed

LEMMA ViewClosedNext ==
    ASSUME NEW fd, open_files'[fd] = ClosedFile
    PROVE  View(fd)' = Table!Closed
<1>1. /\ open_files'[fd].ref_count = 0 /\ open_files'[fd].flags = {}
      /\ (open_files'[fd].ref_count > 0) = FALSE
    BY DEF ClosedFile
<1> QED
    BY <1>1, TableNames DEF View, Table!Closed

(* The entry of a descriptor, open or closed.                              *)
LEMMA TableEntry ==
    ASSUME IInv, NEW fd \in Slots
    PROVE  /\ T[fd] = View(fd)
           /\ open_files[fd].ref_count = 0 => T[fd] = Table!Closed /\ T[fd].open = FALSE
           /\ open_files[fd].ref_count = 1 =>
                /\ T[fd] = Shown(open_files[fd], ramfs_handles, devfs_handles)
                /\ T[fd].open = TRUE
                /\ T[fd].file = NameOf(open_files[fd], ramfs_handles, devfs_handles)
                /\ T[fd].flags = open_files[fd].flags
                /\ T[fd].pos = PosOf(open_files[fd], ramfs_handles)
<1>1. T[fd] = View(fd)
    BY DEF T
<1>2. open_files[fd].ref_count = 0 => T[fd] = Table!Closed
    BY <1>1, ViewClosed DEF IInv, ClosedBlank
<1>3. open_files[fd].ref_count = 1 =>
        T[fd] = Shown(open_files[fd], ramfs_handles, devfs_handles)
    BY <1>1, ViewOpen
<1> QED
    BY <1>1, <1>2, <1>3 DEF Shown, Table!Closed

LEMMA SameTable ==
    ASSUME UNCHANGED <<open_files, handles>>
    PROVE  T' = T
    BY DEF T, View, handles

(* A step that changes the entry and the handle of one descriptor only     *)
(* shows in the table as a change of its entry only.                       *)
LEMMA OneEntry ==
    ASSUME IInv, NEW fd \in Slots, NEW v, View(fd)' = v,
           \A g \in Slots : g # fd => open_files'[g] = open_files[g],
           \A g \in Slots : g # fd /\ open_files[g].ref_count = 1 =>
             /\ open_files[g].fs = "ramfs" =>
                ramfs_handles'[open_files[g].private_data] = ramfs_handles[open_files[g].private_data]
             /\ open_files[g].fs = "devfs" =>
                devfs_handles'[open_files[g].private_data] = devfs_handles[open_files[g].private_data]
    PROVE  T' = [T EXCEPT ![fd] = v]
<1>1. ASSUME NEW g \in Slots, g # fd
      PROVE  View(g)' = View(g)
  <2>1. open_files'[g] = open_files[g]
        /\ open_files[g].ref_count \in {0, 1} /\ open_files[g].fs \in {NoFs, "ramfs", "devfs"}
    BY <1>1, FileTypes DEF IInv
  <2>2. CASE open_files[g].ref_count = 0
    BY <2>1, <2>2, ViewClosed, ViewClosedNext DEF IInv, ClosedBlank
  <2>3. CASE open_files[g].ref_count = 1
    <3>1. /\ NameOf(open_files[g], ramfs_handles', devfs_handles')
             = NameOf(open_files[g], ramfs_handles, devfs_handles)
          /\ PosOf(open_files[g], ramfs_handles') = PosOf(open_files[g], ramfs_handles)
      BY <1>1, <2>1, <2>3 DEF NameOf, PosOf, NoFs
    <3>2. /\ View(g) = Shown(open_files[g], ramfs_handles, devfs_handles)
          /\ View(g)' = Shown(open_files[g], ramfs_handles', devfs_handles')
      BY <2>1, <2>3, ViewOpen, ViewOpenNext
    <3> QED
      BY <3>1, <3>2 DEF Shown
  <2> QED
    BY <2>1, <2>2, <2>3
<1>2. T' = [g \in Slots |-> View(g)']
    BY DEF T
<1> QED
    BY <1>1, <1>2 DEF T

(* The handle of another open descriptor is another one.                   *)
LEMMA OthersKept ==
    ASSUME IInv, NEW fd, ~bad_fd(fd), NEW g \in Slots, g # fd, open_files[g].ref_count = 1,
           open_files[g].fs = open_files[fd].fs, open_files[fd].fs \in Fss
    PROVE  open_files[g].private_data # open_files[fd].private_data
<1>1. fd \in Slots /\ open_files[fd].ref_count = 1
    BY GoodHandle DEF IInv
<1> QED
    BY <1>1, PairedFacts DEF IInv, Owns

(* While a descriptor is free, so is a handle of either file system: the   *)
(* EMFILE of ramfs_open and devfs_open is never returned.                  *)
LEMMA HandleFree ==
    ASSUME IInv, NEW fd \in Slots, open_files[fd].ref_count = 0, NEW fs \in Fss
    PROVE  \E h \in Slots : h \notin Taken(fs)
<1> SUFFICES ASSUME Slots \subseteq Taken(fs) PROVE FALSE
    OBVIOUS
<1> DEFINE S == {g \in Slots : Owns(g, fs)}
           f == [g \in S |-> open_files[g].private_data]
<1>1. \A h \in Slots : \E g \in S : open_files[g].private_data = h
    BY PairedFacts DEF IInv
<1>2. \A g \in S : open_files[g].private_data \in Slots
    BY FileTypes DEF IInv
<1>3. f \in Surjection(S, Slots)
    BY <1>1, <1>2 DEF Surjection
<1>4. S \subseteq Slots \ {fd}
    BY DEF Owns
<1>5. IsFiniteSet(Slots) /\ Cardinality(Slots) \in Nat
  <2>1. MAX_OPEN_FILES - 1 \in Int
    BY WordFacts
  <2>2. IsFiniteSet(Slots)
    BY <2>1, FS_Interval DEF Slots
  <2> QED
    BY <2>2, FS_CardinalityType
<1>6. IsFiniteSet(Slots \ {fd}) /\ Cardinality(Slots \ {fd}) = Cardinality(Slots) - 1
    BY <1>5, FS_RemoveElement
<1> HIDE DEF S, f
<1>7. IsFiniteSet(S) /\ Cardinality(S) <= Cardinality(Slots \ {fd})
    BY <1>4, <1>6, FS_Subset
<1>8. Cardinality(S) \in Nat
    BY <1>7, FS_CardinalityType
<1>9. Cardinality(Slots) <= Cardinality(S)
    BY <1>3, <1>7, FS_Surjection
<1> QED
    BY <1>5, <1>6, <1>7, <1>8, <1>9

LEMMA TableInit == Init => Table!Init
<1> SUFFICES ASSUME Init PROVE Table!Init
    OBVIOUS
<1>1. ASSUME NEW fd \in Slots
      PROVE  View(fd) = IF fd \in Standard THEN Table!Entry(NoPath, StandardFlags(fd))
                                           ELSE Table!Closed
  <2>1. CASE fd \in Standard
    <3>1. open_files[fd] = [fs |-> NoFs, private_data |-> 0,
                            flags |-> StandardFlags(fd), ref_count |-> 1]
      BY <2>1 DEF Init, ClosedFile
    <3>2. /\ open_files[fd].ref_count = 1 /\ open_files[fd].fs = NoFs
          /\ open_files[fd].flags = StandardFlags(fd)
      BY <3>1
    <3>3. View(fd) = Shown(open_files[fd], ramfs_handles, devfs_handles)
      BY <3>2, ViewOpen
    <3> QED
      BY <2>1, <3>2, <3>3 DEF Shown, NameOf, PosOf, NoFs, Table!Entry
  <2>2. CASE fd \notin Standard
    BY <2>2, ViewClosed DEF Init
  <2> QED
    BY <2>1, <2>2
<1> QED
    BY <1>1, TableNames DEF Init, Table!Init

(* The regular files are the ones of ramfs.                                *)
LEMMA RegularFd ==
    ASSUME IInv, NEW fd \in Slots, open_files[fd].ref_count = 1
    PROVE  /\ open_files[fd].fs = "ramfs" =>
                /\ Table!IsRegular(fd)
                /\ T[fd].pos = ramfs_handles[open_files[fd].private_data].pos
                /\ RegularFiles[T[fd].file]
                   = FileSize[ramfs_handles[open_files[fd].private_data].file]
           /\ open_files[fd].fs # "ramfs" => ~Table!IsRegular(fd)
<1> DEFINE h == open_files[fd].private_data
<1>1. ~bad_fd(fd) /\ TypeOK /\ HandlesPaired
    BY DEF bad_fd, IInv
<1>2. /\ T[fd].open = TRUE
      /\ T[fd].file = NameOf(open_files[fd], ramfs_handles, devfs_handles)
      /\ T[fd].pos = PosOf(open_files[fd], ramfs_handles)
    BY TableEntry
<1>3. CASE open_files[fd].fs = "ramfs"
  <2>1. ramfs_handles[h].file \in Files
    BY <1>1, <1>3, GoodHandle, HandleTypes DEF ramfs_bad
  <2> DEFINE p == [dev |-> FALSE, name |-> ramfs_handles[h].file]
  <2>2. T[fd].file = p /\ T[fd].pos = ramfs_handles[h].pos
    BY <1>2, <1>3 DEF NameOf, PosOf, NoFs
  <2>3. p \in Paths /\ p.name = ramfs_handles[h].file /\ ~p.dev
    BY <2>1, ArgumentsAssumption DEF Paths, PathOf
  <2> HIDE DEF p
  <2>4. p \in DOMAIN RegularFiles /\ RegularFiles[p] = FileSize[ramfs_handles[h].file]
    BY <2>1, <2>3 DEF RegularFiles
  <2> QED
    BY <1>2, <1>3, <2>2, <2>4 DEF Table!IsRegular, T
<1>4. CASE open_files[fd].fs # "ramfs"
  <2>1. T[fd].file = NoPath \/ T[fd].file.dev
    BY <1>2, <1>4 DEF NameOf
  <2>2. NoPath \notin DOMAIN RegularFiles
    BY FilesAssumption DEF RegularFiles, NoPath
  <2>3. \A p \in DOMAIN RegularFiles : ~p.dev
    BY DEF RegularFiles
  <2> HIDE DEF h
  <2> QED
    BY <1>4, <2>1, <2>2, <2>3 DEF Table!IsRegular, T
<1> QED
    BY <1>3, <1>4

(* Each kind of answer, as a step of FileTable.                            *)
Aside == T' = T /\ fs_list' = fs_list

LEMMA StepFail ==
    ASSUME IInv, Aside, NEW fd \in Slots, open_files[fd].ref_count = 1,
           eax' \in {"read", "write", "seek", "ioctl"} \X {EACCES, EINVAL, EIO}
    PROVE  Table!Next
<1>1. T[fd].open = TRUE
    BY TableEntry
<1>2. Table!Fail(fd)
    BY <1>1, TableNames DEF Table!Fail, T, Aside
<1> QED
    BY <1>2, TableNames DEF Table!Next

LEMMA StepBad ==
    ASSUME Aside, eax' \in {"close", "read", "write", "seek", "ioctl"} \X {EBADF}
    PROVE  Table!Next
    BY TableNames DEF Table!Next, Table!BadDescriptor, Aside, T

LEMMA StepNoReturn ==
    ASSUME Aside, eax' = <<"none", 0>>
    PROVE  Table!Next
    BY DEF Table!Next, Table!NoReturn, Aside, T

LEMMA StepTransfer ==
    ASSUME IInv, Aside, NEW fd \in Slots, open_files[fd].ref_count = 1,
           open_files[fd].fs # "ramfs", eax' \in {"read", "write", "ioctl"} \X int,
           eax'[1] # "ioctl" => open_files[fd].flags # {}
    PROVE  Table!Next
<1>1. T[fd].open = TRUE /\ T[fd].flags = open_files[fd].flags
    BY TableEntry
<1>2. ~Table!IsRegular(fd)
    BY RegularFd
<1>3. Table!Transfer(fd)
    BY <1>1, <1>2, TableNames DEF Table!Transfer, Table!Opened, T, Aside
<1> QED
    BY <1>3, TableNames DEF Table!Next

(* A new position in an entry.                                             *)
LEMMA EntryMoves ==
    ASSUME NEW open, NEW file, NEW flags, NEW q, NEW p
    PROVE  [[open |-> open, file |-> file, flags |-> flags, pos |-> q] EXCEPT !.pos = p]
           = [open |-> open, file |-> file, flags |-> flags, pos |-> p]
<1> DEFINE Entries == [open : {open}, file : {file}, flags : {flags}, pos : {p, q}]
           r == [open |-> open, file |-> file, flags |-> flags, pos |-> q]
           s == [open |-> open, file |-> file, flags |-> flags, pos |-> p]
           x == [r EXCEPT !.pos = p]
<1>1. r \in Entries /\ r.open = open /\ r.file = file /\ r.flags = flags /\ r.pos = q
    OBVIOUS
<1>2. s \in Entries /\ s.open = open /\ s.file = file /\ s.flags = flags /\ s.pos = p
    OBVIOUS
<1> HIDE DEF r, s
<1>3. x \in Entries /\ x.open = open /\ x.file = file /\ x.flags = flags /\ x.pos = p
    BY <1>1
<1> HIDE DEF x
<1>4. x = s
    BY <1>2, <1>3
<1> QED
    BY <1>4 DEF r, s, x

(* A position that moves is the position of one descriptor.                *)
LEMMA MoveShows ==
    ASSUME IInv, UNCHANGED <<open_files, devfs_handles>>, NEW fd, ~bad_fd(fd),
           open_files[fd].fs = "ramfs", NEW p,
           ramfs_handles' = [ramfs_handles EXCEPT ![open_files[fd].private_data].pos = p]
    PROVE  T' = [T EXCEPT ![fd].pos = p] /\ T'[fd].pos = p
<1> DEFINE h == open_files[fd].private_data
           f == open_files[fd]
<1>1. /\ fd \in Slots /\ f.ref_count = 1 /\ h \in Slots
      /\ ramfs_handles \in [Slots -> Handle]
    BY GoodHandle DEF IInv, TypeOK, RamfsTypeOK, Handle
<1>2. /\ ramfs_handles'[h].file = ramfs_handles[h].file /\ ramfs_handles'[h].pos = p
      /\ \A i \in Slots : i # h => ramfs_handles'[i] = ramfs_handles[i]
    BY <1>1 DEF Handle
<1>3. /\ T[fd] = Shown(f, ramfs_handles, devfs_handles)
      /\ View(fd)' = Shown(f, ramfs_handles', devfs_handles)
    BY <1>1, TableEntry, ViewOpenNext
<1>4. View(fd)' = [T[fd] EXCEPT !.pos = p]
  <2>1. NameOf(f, ramfs_handles', devfs_handles) = NameOf(f, ramfs_handles, devfs_handles)
    BY <1>2 DEF NameOf
  <2>2. PosOf(f, ramfs_handles') = p
    BY <1>2 DEF PosOf
  <2> DEFINE open == TRUE
             file == NameOf(f, ramfs_handles, devfs_handles)
             flags == f.flags
             q == PosOf(f, ramfs_handles)
  <2>3. T[fd] = [open |-> open, file |-> file, flags |-> flags, pos |-> q]
    BY <1>3 DEF Shown
  <2>4. View(fd)' = [open |-> open, file |-> file, flags |-> flags, pos |-> p]
    BY <1>3, <2>1, <2>2 DEF Shown
  <2> HIDE DEF open, file, flags, q, f
  <2> QED
    BY <2>3, <2>4, EntryMoves
<1>5. ASSUME NEW g \in Slots, g # fd, open_files[g].ref_count = 1, open_files[g].fs = "ramfs"
      PROVE  ramfs_handles'[open_files[g].private_data] = ramfs_handles[open_files[g].private_data]
  <2>1. open_files[g].private_data # h /\ open_files[g].private_data \in Slots
    BY <1>5, OthersKept, FileTypes DEF Fss, IInv
  <2> QED
    BY <1>2, <2>1
<1>6. T' = [T EXCEPT ![fd] = [T[fd] EXCEPT !.pos = p]]
  <2> DEFINE v == [T[fd] EXCEPT !.pos = p]
  <2>1. View(fd)' = v
    BY <1>4
  <2> HIDE DEF v, f, h
  <2>2. T' = [T EXCEPT ![fd] = v]
    BY <1>1, <1>5, <2>1, OneEntry
  <2> QED
    BY <2>2 DEF v
<1>7. T'[fd].pos = p
  <2>1. T'[fd] = View(fd)'
    BY <1>1 DEF T
  <2> QED
    BY <1>2, <1>3, <2>1 DEF Shown, PosOf
<1> QED
    BY <1>6, <1>7

LEMMA StepMove ==
    ASSUME IInv, UNCHANGED <<open_files, devfs_handles, fs_list>>, NEW fd, ~bad_fd(fd),
           open_files[fd].fs = "ramfs", NEW p \in Nat,
           ramfs_handles' = [ramfs_handles EXCEPT ![open_files[fd].private_data].pos = p],
           p <= FileSize[ramfs_handles[open_files[fd].private_data].file],
           \/ eax' = <<"seek", p>>
           \/ /\ open_files[fd].flags # {} /\ ramfs_handles[open_files[fd].private_data].pos <= p
              /\ eax' = <<"read", p - ramfs_handles[open_files[fd].private_data].pos>>
    PROVE  Table!Next
<1> DEFINE h == open_files[fd].private_data
           size == FileSize[ramfs_handles[h].file]
<1>1. fd \in Slots /\ open_files[fd].ref_count = 1 /\ h \in Slots
      /\ ramfs_handles[h].file \in Files
    BY GoodHandle, HandleTypes DEF IInv, ramfs_bad
<1>2. T' = [T EXCEPT ![fd].pos = p] /\ T'[fd].pos = p
    BY MoveShows
<1>3. /\ Table!IsRegular(fd) /\ T[fd].pos = ramfs_handles[h].pos /\ T[fd].open = TRUE
      /\ RegularFiles[T[fd].file] = size /\ T[fd].flags = open_files[fd].flags
    BY <1>1, RegularFd, TableEntry
<1>4. size \in Nat /\ ramfs_handles[h].pos \in Nat
    BY <1>1, FileSizes, HandleTypes, WordFacts DEF IInv, uint32_t
<1> HIDE DEF h, size
<1>5. CASE eax' = <<"seek", p>>
  <2>1. p \in 0 .. size
    BY <1>4 DEF size, h
  <2>2. Table!Seek(fd, p)
    BY <1>2, <1>3, <1>5, <2>1 DEF Table!Seek, T
  <2>3. Table!Answers("seek")
    BY <1>5 DEF Table!Answers
  <2> QED
    BY <1>1, <1>2, <2>2, <2>3, TableNames DEF Table!Next, T
<1>6. CASE /\ open_files[fd].flags # {} /\ ramfs_handles[h].pos <= p
           /\ eax' = <<"read", p - ramfs_handles[h].pos>>
  <2>1. p \in ramfs_handles[h].pos .. size
    BY <1>4, <1>6 DEF size, h
  <2>2. Table!Read(fd, p)
    BY <1>2, <1>3, <1>6, <2>1 DEF Table!Read, Table!Opened, T
  <2>3. Table!Answers("read")
    BY <1>6 DEF Table!Answers
  <2> QED
    BY <1>1, <1>2, <2>2, <2>3, TableNames DEF Table!Next, T
<1> QED
    BY <1>5, <1>6 DEF h

-----------------------------------------------------------------------------
(* Each call implements a step of FileTable.                               *)

LEMMA RefuseAside ==
    ASSUME UNCHANGED fs_list, NEW call, NEW r, Refuse(call, r)
    PROVE  Aside /\ eax' = <<call, r>>
    BY SameTable DEF Refuse, Aside, handles

LEMMA RefineBoot ==
    ASSUME ramfs_init \/ devfs_init
    PROVE  Table!Next
<1>1. T' = T
    BY SameTable DEF ramfs_init, devfs_init, handles
<1>2. Table!Mount
    BY <1>1 DEF Table!Mount, ramfs_init, devfs_init, vfs_register_fs, T
<1> QED
    BY <1>2 DEF Table!Next

(* Which paths there are.                                                  *)
LEMMA ExistsIff ==
    ASSUME NEW path \in Paths
    PROVE  Table!Exists(path) <=>
            /\ vfs_resolve_fs(path) \in fs_list
            /\ IF path.dev THEN path.name \in Devices ELSE path.name \in Files
    BY DEF Table!Exists, KnownPaths

LEMMA StepOpenFails ==
    ASSUME NEW path \in Paths, NEW flags \in FlagSets, Aside,
           \/ eax' = <<"open", ENOENT>> /\ ~Table!Exists(path)
           \/ eax' = <<"open", EACCES>> /\ Table!Exists(path) /\ ~WriteAllowed(path, flags)
           \/ eax' = <<"open", EMFILE>> /\ Table!Free = {}
    PROVE  Table!Next
<1>1. Table!OpenFails(path, flags)
    BY TableNames DEF Table!OpenFails, Aside, T
<1>2. Table!Answers("open")
    BY DEF Table!Answers
<1> QED
    BY <1>1, <1>2 DEF Table!Next

LEMMA FreeIff ==
    ASSUME IInv
    PROVE  Table!Free = {fd \in Descriptors : open_files[fd].ref_count = 0}
<1>1. ASSUME NEW fd \in Descriptors
      PROVE  ~T[fd].open <=> open_files[fd].ref_count = 0
  <2>1. fd \in Slots /\ open_files[fd].ref_count \in {0, 1}
    BY WordFacts, FileTypes DEF IInv
  <2>2. CASE open_files[fd].ref_count = 0
    BY <2>1, <2>2, TableEntry
  <2>3. CASE open_files[fd].ref_count = 1
    BY <2>1, <2>3, TableEntry
  <2> QED
    BY <2>1, <2>2, <2>3
<1> QED
    BY <1>1, TableNames DEF Table!Free, T

(* The open of a file system refuses a path for the reason it gives.       *)
LEMMA OpenRefusal ==
    ASSUME IInv, NEW path \in Paths, NEW flags, NEW fd \in Descriptors,
           open_files[fd].ref_count = 0, vfs_resolve_fs(path) \in fs_list, NEW r \in int, r < 0,
           fs_open(vfs_resolve_fs(path), path, flags, r)
    PROVE  \/ r = ENOENT /\ ~Table!Exists(path)
           \/ r = EACCES /\ Table!Exists(path) /\ ~WriteAllowed(path, flags)
<1>1. fd \in Slots /\ r \notin Slots
  <2>1. r \notin Nat
    BY WordFacts DEF int
  <2> QED
    BY <2>1, WordFacts
<1>2. path.dev \in BOOLEAN
    BY DEF Paths, PathOf
<1>3. CASE path.dev
  <2>1. vfs_resolve_fs(path) = "devfs"
    BY <1>3 DEF vfs_resolve_fs
  <2>2. devfs_open(path, flags, r)
    BY <2>1 DEF fs_open
  <2>3. \E h \in Slots : devfs_handles[h] = NoDevice
    BY <1>1, HandleFree DEF Fss, Taken
  <2>4. r = ENOENT /\ path.name \notin Devices
    BY <1>1, <2>2, <2>3 DEF devfs_open, devfs_resolve_device
  <2> QED
    BY <1>3, <2>4, ExistsIff
<1>4. CASE ~path.dev
  <2>1. vfs_resolve_fs(path) = "ramfs"
    BY <1>4 DEF vfs_resolve_fs
  <2>2. ramfs_open(path, flags, r)
    BY <2>1 DEF fs_open
  <2>3. \E h \in Slots : ramfs_handles[h].file = NoFile
    BY <1>1, HandleFree DEF Fss, Taken
  <2>4. ~ramfs_first_free(r)
    BY <1>1 DEF ramfs_first_free
  <2>5. \/ r = ENOENT /\ path.name \notin Files
        \/ r = EACCES /\ path.name \in Files /\ flags \cap O_WRONLY # {}
    BY <2>2, <2>3, <2>4 DEF ramfs_open, ramfs_find_file
  <2>6. flags \cap O_WRONLY # {} => 2 \in flags
    BY DEF O_WRONLY
  <2> QED
    BY <1>4, <2>5, <2>6, ExistsIff DEF WriteAllowed
<1> QED
    BY <1>2, <1>3, <1>4

(* An open that takes a handle shows as one new entry.                     *)
LEMMA OpenShows ==
    ASSUME IInv, NEW path \in Paths, NEW flags, NEW fd \in Slots, open_files[fd].ref_count = 0,
           NEW r, TakesHandle(vfs_resolve_fs(path), path, r),
           open_files' = [open_files EXCEPT ![fd] =
                [fs |-> vfs_resolve_fs(path), private_data |-> r, flags |-> flags,
                 ref_count |-> 1]]
    PROVE  T' = [T EXCEPT ![fd] = Table!Entry(path, flags)]
<1> DEFINE fs == vfs_resolve_fs(path)
<1>1. /\ ramfs_handles \in [Slots -> Handle] /\ devfs_handles \in [Slots -> Devices \cup {NoDevice}]
      /\ r \in Slots /\ r \notin Taken(fs) /\ fs \in Fss
    BY DEF IInv, TypeOK, RamfsTypeOK, DevfsTypeOK, Handle, TakesHandle, vfs_resolve_fs, Fss
<1>2. /\ open_files'[fd] = [fs |-> fs, private_data |-> r, flags |-> flags, ref_count |-> 1]
      /\ \A g \in Slots : g # fd => open_files'[g] = open_files[g]
    BY DEF IInv, TypeOK
<1>3. /\ open_files'[fd].fs = fs /\ open_files'[fd].private_data = r
      /\ open_files'[fd].flags = flags /\ open_files'[fd].ref_count = 1
    BY <1>2
<1>4. View(fd)' = Shown(open_files'[fd], ramfs_handles', devfs_handles')
    BY <1>3, ViewOpenNext
<1>5. View(fd)' = Table!Entry(path, flags)
  <2>1. path = [dev |-> path.dev, name |-> path.name] /\ path.dev \in BOOLEAN
    BY DEF Paths, PathOf
  <2>2. /\ fs = "ramfs" => ramfs_handles'[r].file = path.name /\ ramfs_handles'[r].pos = 0
        /\ fs = "devfs" => devfs_handles'[r] = path.name
    BY <1>1 DEF TakesHandle
  <2>3. NameOf(open_files'[fd], ramfs_handles', devfs_handles') = path
    <3>1. CASE path.dev
      <4>1. fs = "devfs" /\ path.dev = TRUE
        BY <2>1, <3>1 DEF vfs_resolve_fs
      <4> QED
        BY <1>3, <2>1, <2>2, <4>1 DEF NameOf, NoFs
    <3>2. CASE ~path.dev
      <4>1. fs = "ramfs" /\ path.dev = FALSE
        BY <2>1, <3>2 DEF vfs_resolve_fs
      <4> QED
        BY <1>3, <2>1, <2>2, <4>1 DEF NameOf, NoFs
    <3> QED
      BY <2>1, <3>1, <3>2
  <2>4. PosOf(open_files'[fd], ramfs_handles') = 0
    BY <1>3, <2>2 DEF PosOf
  <2> QED
    BY <1>3, <1>4, <2>3, <2>4 DEF Shown, Table!Entry
<1>6. ASSUME NEW g \in Slots, g # fd, open_files[g].ref_count = 1
      PROVE  LET h == open_files[g].private_data IN
             /\ open_files[g].fs = "ramfs" => ramfs_handles'[h] = ramfs_handles[h]
             /\ open_files[g].fs = "devfs" => devfs_handles'[h] = devfs_handles[h]
  <2>1. open_files[g].private_data \in Slots
    BY FileTypes DEF IInv
  <2>2. open_files[g].fs = fs => open_files[g].private_data # r
    BY <1>1, <1>6, PairedFacts DEF IInv, Owns
  <2> QED
    BY <1>1, <2>1, <2>2 DEF TakesHandle
<1> HIDE DEF fs
<1> QED
    BY <1>2, <1>5, <1>6, OneEntry

LEMMA RefineOpen ==
    ASSUME IInv, NEW path \in Paths, NEW flags \in FlagSets, vfs_open(path, flags)
    PROVE  Table!Next
<1> DEFINE fs == vfs_resolve_fs(path)
<1>1. UNCHANGED fs_list /\ TypeOK
    BY OpenCases DEF IInv
<1>2. CASE fs \notin fs_list /\ Refuse("open", ENOENT)
    BY <1>1, <1>2, RefuseAside, ExistsIff, StepOpenFails
<1>3. CASE (\A fd \in Descriptors : open_files[fd].ref_count # 0) /\ Refuse("open", EMFILE)
    BY <1>1, <1>3, RefuseAside, FreeIff, StepOpenFails
<1>4. ASSUME fs \in fs_list, NEW fd \in Descriptors, NEW r \in int, OpenStep(path, flags, fd, r)
      PROVE  Table!Next
  <2>1. /\ fd \in Slots /\ free_fd(fd) /\ open_files[fd].ref_count = 0
        /\ fs_open(fs, path, flags, r) /\ fs \in Fss
    BY <1>4, WordFacts DEF OpenStep, free_fd, vfs_resolve_fs, Fss
  <2>2. CASE r < 0 /\ UNCHANGED handles
    <3>1. eax' = <<"open", r>> /\ UNCHANGED open_files
      BY <1>4, <2>2 DEF OpenStep, int
    <3>2. Aside
      BY <1>1, <2>2, <3>1, SameTable DEF Aside
    <3>3. \/ r = ENOENT /\ ~Table!Exists(path)
          \/ r = EACCES /\ Table!Exists(path) /\ ~WriteAllowed(path, flags)
      BY <1>4, <2>1, <2>2, OpenRefusal
    <3> QED
      BY <3>1, <3>2, <3>3, StepOpenFails
  <2>3. CASE TakesHandle(fs, path, r)
    <3>1. r \in Slots /\ r >= 0
      BY <2>3, WordFacts DEF TakesHandle, Slots
    <3>2. /\ eax' = <<"open", fd>>
          /\ open_files' = [open_files EXCEPT ![fd] =
                [fs |-> fs, private_data |-> r, flags |-> flags, ref_count |-> 1]]
      BY <1>4, <3>1 DEF OpenStep, int
    <3>3. T' = [T EXCEPT ![fd] = Table!Entry(path, flags)]
      BY <2>1, <2>3, <3>2, OpenShows
    <3>4. Table!Exists(path)
      BY <1>4, <2>3, ExistsIff DEF TakesHandle, vfs_resolve_fs
    <3>5. WriteAllowed(path, flags)
      <4>1. CASE path.dev
        BY <4>1 DEF WriteAllowed
      <4>2. CASE ~path.dev
        <5>1. ramfs_open(path, flags, r)
          BY <2>1, <4>2 DEF fs_open, vfs_resolve_fs
        <5>2. flags \cap O_WRONLY = {}
          <6>1. ~(r = ENOENT \/ r = EACCES)
            BY <3>1, WordFacts DEF ENOENT, EACCES
          <6> QED
            BY <5>1, <6>1 DEF ramfs_open, ReadOnly
        <5> QED
          BY <5>2 DEF WriteAllowed, O_WRONLY
      <4> QED
        BY <4>1, <4>2
    <3>6. fd \in Table!Free /\ \A g \in Table!Free : fd <= g
      <4>1. \A g \in Descriptors : g \in Int
        BY WordFacts DEF Descriptors
      <4> QED
        BY <2>1, <4>1, FreeIff DEF free_fd
    <3>7. Table!Open(path, flags, fd)
      BY <1>1, <3>2, <3>3, <3>4, <3>5, <3>6 DEF Table!Open, T
    <3>8. Table!Answers("open")
      BY <3>2 DEF Table!Answers
    <3> QED
      BY <1>4, <3>7, <3>8, TableNames DEF Table!Next
  <2> QED
    BY <1>1, <2>1, <2>2, <2>3, OpenTakes
<1> QED
    BY <1>2, <1>3, <1>4, OpenCases

(* A close shows as one closed entry.                                      *)
LEMMA RefineClose ==
    ASSUME IInv, NEW fd \in Fds, vfs_close(fd)
    PROVE  Table!Next
<1>1. UNCHANGED fs_list /\ TypeOK /\ HandlesPaired
    BY DEF vfs_close, IInv
<1>2. CASE Refuse("close", EBADF)
    BY <1>1, <1>2, RefuseAside, StepBad
<1>3. CASE /\ ~bad_fd(fd) /\ eax' = <<"close", 0>>
           /\ open_files' = [open_files EXCEPT ![fd] = ClosedFile]
           /\ \E r \in int : fs_close(open_files[fd].fs, open_files[fd].private_data, r)
  <2> DEFINE k == open_files[fd].private_data
  <2>1. /\ fd \in Slots /\ open_files[fd].ref_count = 1 /\ k \in Slots
        /\ open_files[fd].fs = "ramfs" => ~ramfs_bad(k)
        /\ open_files[fd].fs = "devfs" => ~devfs_bad(k)
    BY <1>1, <1>3, GoodHandle
  <2>2. /\ ramfs_handles \in [Slots -> Handle]
        /\ devfs_handles \in [Slots -> Devices \cup {NoDevice}]
    BY <1>1 DEF TypeOK, RamfsTypeOK, DevfsTypeOK, Handle
  <2>3. /\ open_files'[fd] = ClosedFile
        /\ \A g \in Slots : g # fd => open_files'[g] = open_files[g]
    BY <1>1, <1>3, <2>1 DEF TypeOK
  <2>4. View(fd)' = Table!Closed
    BY <2>3, ViewClosedNext
  <2>5. \A h \in Slots :
            /\ h # k \/ open_files[fd].fs # "ramfs" => ramfs_handles'[h] = ramfs_handles[h]
            /\ h # k \/ open_files[fd].fs # "devfs" => devfs_handles'[h] = devfs_handles[h]
    BY <1>3, <2>1, <2>2 DEF fs_close, ramfs_close, devfs_close, handles
  <2>6. ASSUME NEW g \in Slots, g # fd, open_files[g].ref_count = 1
        PROVE  LET h == open_files[g].private_data IN
               /\ open_files[g].fs = "ramfs" => ramfs_handles'[h] = ramfs_handles[h]
               /\ open_files[g].fs = "devfs" => devfs_handles'[h] = devfs_handles[h]
    <3>1. open_files[g].private_data \in Slots
      BY <1>1, FileTypes
    <3>2. open_files[g].fs = open_files[fd].fs /\ open_files[g].fs \in Fss =>
            open_files[g].private_data # k
      BY <1>3, <2>6, OthersKept
    <3> QED
      BY <2>5, <3>1, <3>2 DEF Fss
  <2> HIDE DEF k
  <2>7. T' = [T EXCEPT ![fd] = Table!Closed]
    BY <2>1, <2>3, <2>4, <2>6, OneEntry
  <2>8. T[fd].open = TRUE
    BY <2>1, TableEntry
  <2>9. Table!Close(fd)
    BY <1>1, <1>3, <2>7, <2>8 DEF Table!Close, T
  <2>10. Table!Answers("close")
    BY <1>3 DEF Table!Answers
  <2> QED
    BY <2>1, <2>9, <2>10, TableNames DEF Table!Next
<1>4. ~(~bad_fd(fd) /\ open_files[fd].ref_count > 1)
    BY <1>1, GoodHandle
<1> QED
    BY <1>2, <1>3, <1>4 DEF vfs_close

(* A call that faults does not return.                                     *)
LEMMA ReturnFaults ==
    ASSUME NEW call, NEW r, Return(call, r)
    PROVE  /\ fault' = NoFault => eax' = <<call, r>>
           /\ fault' # NoFault => eax' = <<"none", 0>>
    BY DEF Return

LEMMA RefineRead ==
    ASSUME IInv, NEW fd \in Fds, NEW count \in Counts, vfs_read(fd, count)
    PROVE  Table!Next
<1>1. UNCHANGED fs_list /\ TypeOK /\ HandlesPaired /\ fault = NoFault
    BY DEF vfs_read, IInv, Running
<1>2. CASE Refuse("read", EBADF)
    BY <1>1, <1>2, RefuseAside, StepBad
<1>3. CASE ~bad_fd(fd) /\ Refuse("read", EACCES)
    BY <1>1, <1>3, RefuseAside, StepFail, GoodHandle
<1>4. ASSUME ~bad_fd(fd), may_read(fd), UNCHANGED open_files, NEW r \in int, Return("read", r),
             fs_read(open_files[fd].fs, open_files[fd].private_data, count, r)
      PROVE  Table!Next
  <2> DEFINE h == open_files[fd].private_data
  <2>1. /\ h \in Slots /\ fd \in Slots /\ open_files[fd].ref_count = 1
        /\ open_files[fd].fs = "ramfs" => ~ramfs_bad(h)
    BY <1>1, <1>4, GoodHandle
  <2>2. count \in uint32_t
    BY ArgumentsAssumption
  <2>3. open_files[fd].flags # {}
    BY <1>4 DEF may_read
  <2>4. /\ fault' = NoFault => eax' = <<"read", r>>
        /\ fault' # NoFault => eax' = <<"none", 0>>
    BY <1>4, ReturnFaults
  <2> HIDE DEF h
  <2>5. CASE open_files[fd].fs = "ramfs" /\ ramfs_read(h, count, r) /\ UNCHANGED devfs_handles
    <3>1. /\ ramfs_handles[h].file \in Files
          /\ ramfs_handles[h].pos \in Nat
          /\ ramfs_handles[h].pos <= FileSize[ramfs_handles[h].file]
      BY <2>1, <2>5, HandleTypes DEF IInv, PosInFile, ramfs_bad, uint32_t
    <3>2. CASE UNCHANGED <<ramfs_handles, fault>> /\ r = 0
      <4> DEFINE p == ramfs_handles[h].pos
      <4>1. ramfs_handles' = [ramfs_handles EXCEPT ![h].pos = p]
        <5>1. ramfs_handles \in [Slots -> Handle]
          BY <1>1 DEF TypeOK, RamfsTypeOK, Handle
        <5>2. ramfs_handles[h] = [ramfs_handles[h] EXCEPT !.pos = p]
          BY <2>1, <5>1 DEF Handle
        <5> QED
          BY <2>1, <3>2, <5>1, <5>2
      <4>2. eax' = <<"read", p - ramfs_handles[h].pos>>
        BY <1>1, <2>4, <3>1, <3>2
      <4>3. p \in Nat /\ p <= FileSize[ramfs_handles[h].file] /\ ramfs_handles[h].pos <= p
        BY <3>1
      <4> HIDE DEF p
      <4> QED
        BY <1>1, <1>4, <2>3, <2>5, <4>1, <4>2, <4>3, StepMove DEF h
    <3>3. ASSUME NEW n \in uint32_t, UNCHANGED fault, r = n,
                 ramfs_handles' = [ramfs_handles EXCEPT ![h].pos = @ + n],
                 ramfs_handles[h].pos + n <= FileSize[ramfs_handles[h].file],
                 ramfs_handles[h].pos + n \in uint32_t
          PROVE  Table!Next
      <4> DEFINE p == ramfs_handles[h].pos + n
      <4>1. ramfs_handles' = [ramfs_handles EXCEPT ![h].pos = p]
        BY <3>3
      <4>2. n \in Nat
        BY WordFacts DEF uint32_t
      <4>3. p \in Nat /\ ramfs_handles[h].pos <= p /\ n = p - ramfs_handles[h].pos
        BY <3>1, <4>2
      <4>4. eax' = <<"read", p - ramfs_handles[h].pos>>
        BY <1>1, <2>4, <3>3, <4>3
      <4>5. p <= FileSize[ramfs_handles[h].file]
        BY <3>3
      <4> HIDE DEF p
      <4> QED
        BY <1>1, <1>4, <2>3, <2>5, <4>1, <4>3, <4>4, <4>5, StepMove DEF h
    <3>4. CASE UNCHANGED ramfs_handles /\ fault' = "ramfs"
      <4>1. Aside
        BY <1>1, <1>4, <2>5, <3>4, SameTable DEF Aside, handles
      <4> QED
        BY <2>4, <3>4, <4>1, StepNoReturn DEF NoFault
    <3> QED
      BY <1>1, <2>1, <2>2, <2>5, <3>2, <3>3, <3>4, RamfsReads
  <2>6. CASE open_files[fd].fs # "ramfs" /\ UNCHANGED handles
    <3>1. Aside
      BY <1>1, <1>4, <2>6, SameTable DEF Aside
    <3>2. CASE fault' = NoFault
      <4>1. eax' \in {"read", "write", "ioctl"} \X int
        BY <2>4, <3>2
      <4> QED
        BY <2>1, <2>3, <2>6, <3>1, <4>1, StepTransfer
    <3>3. CASE fault' # NoFault
      BY <2>4, <3>1, <3>3, StepNoReturn
    <3> QED
      BY <3>2, <3>3
  <2>7. open_files[fd].fs = "devfs" /\ devfs_read(h, count, r) => UNCHANGED devfs_handles
    BY <2>2, DevfsReads
  <2> QED
    BY <1>4, <2>5, <2>6, <2>7 DEF fs_read, h, handles, NoFs
<1> QED
    BY <1>2, <1>3, <1>4 DEF vfs_read

LEMMA RefineWrite ==
    ASSUME IInv, NEW fd \in Fds, NEW count \in Counts, vfs_write(fd, count)
    PROVE  Table!Next
<1>1. UNCHANGED fs_list /\ TypeOK /\ HandlesPaired /\ fault = NoFault
    BY DEF vfs_write, IInv, Running
<1>2. CASE Refuse("write", EBADF)
    BY <1>1, <1>2, RefuseAside, StepBad
<1>3. CASE ~bad_fd(fd) /\ Refuse("write", EACCES)
    BY <1>1, <1>3, RefuseAside, StepFail, GoodHandle
<1>4. count \in uint32_t
    BY ArgumentsAssumption
<1>5. ASSUME ~bad_fd(fd), may_write(fd), UNCHANGED <<open_files, handles>>,
             NEW r \in int, Return("write", r), open_files[fd].fs # "ramfs"
      PROVE  Table!Next
  <2>1. fd \in Slots /\ open_files[fd].ref_count = 1
    BY <1>1, <1>5, GoodHandle
  <2>2. open_files[fd].flags # {}
    BY <1>5 DEF may_write
  <2>3. Aside
    BY <1>1, <1>5, SameTable DEF Aside
  <2>4. CASE fault' = NoFault
    <3>1. eax' \in {"read", "write", "ioctl"} \X int
      BY <1>5, <2>4, ReturnFaults
    <3> QED
      BY <1>5, <2>1, <2>2, <2>3, <3>1, StepTransfer
  <2>5. CASE fault' # NoFault
    BY <1>5, <2>3, <2>5, ReturnFaults, StepNoReturn
  <2> QED
    BY <2>4, <2>5
<1>6. CASE /\ ~bad_fd(fd) /\ may_write(fd) /\ fd \in {1, 2}
           /\ Return("write", Signed(count))
           /\ UNCHANGED <<open_files, handles>>
  <2>1. open_files[fd].fs # "ramfs"
    <3>1. fd \in Standard
      BY <1>6 DEF Standard
    <3> QED
      BY <3>1 DEF IInv, StandardPlain, NoFs
  <2>2. Signed(count) \in int
    BY <1>4, SignedInt
  <2> QED
    BY <1>5, <1>6, <2>1, <2>2
<1>7. ASSUME ~bad_fd(fd), may_write(fd), UNCHANGED open_files, NEW r \in int, Return("write", r),
             fs_write(open_files[fd].fs, open_files[fd].private_data, count, r)
      PROVE  Table!Next
  <2>1. CASE open_files[fd].fs = "ramfs" /\ r = EACCES /\ UNCHANGED <<handles, fault>>
    <3>1. Aside /\ fd \in Slots /\ open_files[fd].ref_count = 1
      BY <1>1, <1>7, <2>1, SameTable, GoodHandle DEF Aside
    <3>2. eax' = <<"write", EACCES>>
      BY <1>1, <1>7, <2>1, ReturnFaults
    <3> QED
      BY <3>1, <3>2, StepFail
  <2>2. CASE open_files[fd].fs # "ramfs" /\ UNCHANGED handles
    BY <1>5, <1>7, <2>2
  <2> QED
    BY <1>4, <1>7, <2>1, <2>2, DevfsReads DEF fs_write, ramfs_write, handles, NoFs
<1> QED
    BY <1>2, <1>3, <1>6, <1>7 DEF vfs_write

LEMMA RefineSeek ==
    ASSUME IInv, NEW fd \in Fds, NEW offset \in Offsets, NEW whence \in 0 .. 3,
           vfs_seek(fd, offset, whence)
    PROVE  Table!Next
<1>1. UNCHANGED fs_list /\ TypeOK /\ HandlesPaired
    BY DEF vfs_seek, IInv
<1>2. CASE Refuse("seek", EBADF)
    BY <1>1, <1>2, RefuseAside, StepBad
<1>3. ASSUME ~bad_fd(fd), UNCHANGED <<open_files, fault>>, NEW r \in int, eax' = <<"seek", r>>,
             fs_seek(open_files[fd].fs, open_files[fd].private_data, offset, whence, r)
      PROVE  Table!Next
  <2> DEFINE h == open_files[fd].private_data
  <2>1. /\ h \in Slots /\ fd \in Slots /\ open_files[fd].ref_count = 1
        /\ open_files[fd].fs = "ramfs" => ~ramfs_bad(h)
    BY <1>1, <1>3, GoodHandle
  <2>2. offset \in int
    BY ArgumentsAssumption
  <2> HIDE DEF h
  <2>3. CASE UNCHANGED handles /\ r \in {EINVAL, EIO}
    <3>1. Aside
      BY <1>1, <1>3, <2>3, SameTable DEF Aside
    <3> QED
      BY <1>3, <2>1, <2>3, <3>1, StepFail
  <2>4. CASE open_files[fd].fs = "ramfs" /\ UNCHANGED devfs_handles
             /\ ramfs_seek(h, offset, whence, r)
    <3>1. ASSUME NEW p \in uint32_t, r = p, p \in 0 .. FileSize[ramfs_handles[h].file],
                 ramfs_handles' = [ramfs_handles EXCEPT ![h].pos = p]
          PROVE  Table!Next
      <4>1. p \in Nat /\ p <= FileSize[ramfs_handles[h].file]
        BY <3>1 DEF uint32_t
      <4> QED
        BY <1>1, <1>3, <2>4, <3>1, <4>1, StepMove DEF h
    <3> QED
      BY <1>1, <2>1, <2>2, <2>3, <2>4, <3>1, RamfsSeeks DEF handles
  <2> QED
    BY <1>3, <2>3, <2>4 DEF fs_seek, devfs_seek, handles, h
<1> QED
    BY <1>2, <1>3 DEF vfs_seek

LEMMA RefineIoctl ==
    ASSUME IInv, NEW fd \in Fds, NEW request, NEW argp, vfs_ioctl(fd, request, argp)
    PROVE  Table!Next
<1>1. UNCHANGED fs_list /\ TypeOK /\ HandlesPaired
    BY DEF vfs_ioctl, IInv
<1>2. CASE Refuse("ioctl", EBADF)
    BY <1>1, <1>2, RefuseAside, StepBad
<1>3. ASSUME ~bad_fd(fd), UNCHANGED <<open_files, fault>>, NEW r \in int, eax' = <<"ioctl", r>>,
             fs_ioctl(open_files[fd].fs, open_files[fd].private_data, request, argp, r)
      PROVE  Table!Next
  <2>1. fd \in Slots /\ open_files[fd].ref_count = 1
    BY <1>1, <1>3, GoodHandle
  <2>2. Aside
    BY <1>1, <1>3, SameTable DEF Aside, fs_ioctl, ramfs_ioctl, devfs_ioctl, handles
  <2>3. CASE open_files[fd].fs # "ramfs"
    <3>1. eax' \in {"read", "write", "ioctl"} \X int /\ eax'[1] = "ioctl"
      BY <1>3
    <3> QED
      BY <2>1, <2>2, <2>3, <3>1, StepTransfer
  <2>4. CASE r = EINVAL
    BY <1>3, <2>1, <2>2, <2>4, StepFail
  <2> QED
    BY <1>3, <2>3, <2>4 DEF fs_ioctl, ramfs_ioctl, NoFs
<1> QED
    BY <1>2, <1>3 DEF vfs_ioctl

LEMMA RefineStat ==
    ASSUME NEW path \in Paths, vfs_stat(path)
    PROVE  Table!Next
<1>1. Aside /\ eax' = <<"stat", IF Table!Exists(path) THEN 0 ELSE ENOENT>>
  <2>1. UNCHANGED fs_list
    BY DEF vfs_stat
  <2>2. CASE vfs_resolve_fs(path) \notin fs_list /\ Refuse("stat", ENOENT)
    BY <2>1, <2>2, RefuseAside, ExistsIff
  <2>3. ASSUME vfs_resolve_fs(path) \in fs_list, NEW r \in int, Refuse("stat", r),
               IF path.dev THEN devfs_stat(path, r) ELSE ramfs_stat(path, r)
        PROVE  Aside /\ eax' = <<"stat", IF Table!Exists(path) THEN 0 ELSE ENOENT>>
    <3>1. r = IF Table!Exists(path) THEN 0 ELSE ENOENT
      BY <2>3, ExistsIff DEF devfs_stat, ramfs_stat, devfs_resolve_device, ramfs_find_file
    <3> QED
      BY <2>1, <2>3, <3>1, RefuseAside
  <2> QED
    BY <2>2, <2>3 DEF vfs_stat
<1>2. Table!Stat(path)
    BY <1>1, TableNames DEF Table!Stat, Aside, T
<1>3. Table!Answers("stat")
    BY <1>1 DEF Table!Answers
<1> QED
    BY <1>2, <1>3 DEF Table!Next

LEMMA RefineNull ==
    ASSUME NEW call \in {"open", "read", "write", "stat"}, NullArgument(call)
    PROVE  Table!Next
<1>1. Aside /\ eax' = <<call, EINVAL>>
    BY RefuseAside DEF NullArgument
<1>2. Table!NullPointer
    BY <1>1, TableNames DEF Table!NullPointer, Aside, T
<1> QED
    BY <1>2 DEF Table!Next

LEMMA StepRefines == IInv /\ [Next]_vars => [Table!Next]_<<fs_list, T, eax>>
<1> SUFFICES ASSUME IInv, [Next]_vars PROVE Table!Next \/ UNCHANGED <<fs_list, T, eax>>
    OBVIOUS
<1>1. CASE UNCHANGED vars
    BY <1>1, SameTable DEF vars, handles
<1>2. CASE Next
    BY <1>2, RefineBoot, RefineOpen, RefineStat, RefineClose, RefineRead, RefineWrite, RefineSeek,
       RefineIoctl, RefineNull DEF Next
<1> QED
    BY <1>1, <1>2

(* Seen from a program the private handles of ramfs.c and devfs.c are      *)
(* invisible: the calls of vfs.c are those of one table of descriptors,    *)
(* each with a file and a position of its own, whatever is opened and      *)
(* closed in whatever order, and open fails for want of room only when     *)
(* every descriptor is in use.                                             *)
THEOREM VfsImplementsFileTable == Spec => ImplementsFileTable
<1>1. IInv /\ [Next]_vars => [Table!Next]_<<fs_list, [fd \in Slots |-> View(fd)], eax>>
    BY StepRefines DEF T
<1> QED
    BY <1>1, TableInit, Invariant, PTL DEF Spec, ImplementsFileTable, Table!Spec

=============================================================================
