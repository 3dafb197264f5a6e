-------------------------------- MODULE MCVfs --------------------------------
(***************************************************************************)
(* Values for the constants of Vfs that a configuration cannot write.      *)
(***************************************************************************)
EXTENDS Vfs

MCFileSize == [f \in Files |-> 2]
MCOffsets == {-1, 1}
MCFds == {1, 3, 4, 5}

=============================================================================
