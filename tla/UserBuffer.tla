----------------------------- MODULE UserBuffer -----------------------------
(***************************************************************************)
(* The buffer a caller passes to read and write, as the kernel touches it: *)
(* directly, through the caller's pointer.                                 *)
(***************************************************************************)
EXTENDS VfsTypes

(* The file system that touched memory where nothing is mapped, if any.    *)
(* The kernel has no page-fault handler: interrupt_handler returns to the  *)
(* instruction that faulted, which faults again, for ever.                 *)
VARIABLE fault
NoFault == ""

(* memcpy, memset or a loop over n bytes of the buffer.                    *)
Touches(n) == n <= Room /\ UNCHANGED fault
Faults(n, fs) == n > Room /\ fault' = fs

=============================================================================
