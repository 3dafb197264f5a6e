------------------------------- MODULE Devfs -------------------------------
(***************************************************************************)
(* The device file system, kernel/fs/devfs.c: /dev/console, /dev/null and  *)
(* /dev/zero, and its own table of private handles.  A handle's position   *)
(* is always 0: nothing moves it.                                          *)
(*                                                                         *)
(* Every operation is an action with its result, r, as the last parameter. *)
(***************************************************************************)
EXTENDS UserBuffer

CONSTANT MaxInput       \* the characters the keyboard's buffer can hold: 255

ASSUME InputAssumption == MaxInput \in Nat /\ 2 * MaxInput < WORD

Devices == {"console", "null", "zero"}
NoDevice == ""

VARIABLE devfs_handles      \* the device of each handle

DevfsInit == devfs_handles = [h \in Slots |-> NoDevice]

devfs_bad(h) == h \in Slots => devfs_handles[h] = NoDevice

devfs_resolve_device(path) == path.name \in Devices

devfs_open(path, flags, r) ==
    \/ /\ ~devfs_resolve_device(path)
       /\ r = ENOENT
       /\ UNCHANGED devfs_handles
    \/ /\ devfs_resolve_device(path)
       /\ \A h \in Slots : devfs_handles[h] # NoDevice
       /\ r = EMFILE
       /\ UNCHANGED devfs_handles
    \/ /\ devfs_resolve_device(path)
       /\ r \in Slots
       /\ devfs_handles[r] = NoDevice
       /\ \A i \in Slots : i < r => devfs_handles[i] # NoDevice
       /\ devfs_handles' = [devfs_handles EXCEPT ![r] = path.name]

devfs_close(h, r) ==
    \/ devfs_bad(h) /\ r = EBADF /\ UNCHANGED devfs_handles
    \/ ~devfs_bad(h) /\ r = 0 /\ devfs_handles' = [devfs_handles EXCEPT ![h] = NoDevice]

(* The console gives what was typed, up to a newline: any number of        *)
(* characters the keyboard can hold.                                       *)
devfs_read(h, count, r) ==
    /\ UNCHANGED devfs_handles
    /\ \/ devfs_bad(h) /\ r = EBADF /\ UNCHANGED fault
       \/ /\ ~devfs_bad(h)
          /\ \/ /\ devfs_handles[h] = "console"
                /\ \E n \in 0 .. MaxInput :
                    /\ n <= count
                    /\ \/ Touches(n) /\ r = Signed(n)
                       \/ Faults(n, "devfs") /\ r = 0
             \/ devfs_handles[h] = "null" /\ r = 0 /\ UNCHANGED fault
             \/ /\ devfs_handles[h] = "zero"
                /\ \/ Touches(count) /\ r = Signed(count)
                   \/ Faults(count, "devfs") /\ r = 0

devfs_write(h, count, r) ==
    /\ UNCHANGED devfs_handles
    /\ \/ devfs_bad(h) /\ r = EBADF /\ UNCHANGED fault
       \/ /\ ~devfs_bad(h)
          /\ \/ /\ devfs_handles[h] = "console"
                /\ \/ Touches(count) /\ r = Signed(count)
                   \/ Faults(count, "devfs") /\ r = 0
             \/ /\ devfs_handles[h] \in {"null", "zero"}
                /\ r = Signed(count)
                /\ UNCHANGED fault

devfs_seek(r) == r = EINVAL /\ UNCHANGED devfs_handles

(* Request 1 clears the screen; request 2 writes through argp.             *)
devfs_ioctl(h, request, argp, r) ==
    /\ UNCHANGED devfs_handles
    /\ r = IF devfs_bad(h) THEN EBADF
           ELSE IF devfs_handles[h] = "console" /\ (request = 1 \/ (request = 2 /\ argp))
           THEN 0 ELSE EINVAL

devfs_stat(path, r) == r = IF devfs_resolve_device(path) THEN 0 ELSE ENOENT

DevfsTypeOK == devfs_handles \in [Slots -> Devices \cup {NoDevice}]

=============================================================================
