------------------------------ MODULE MCOutput ------------------------------
(***************************************************************************)
(* Values for the constants of Output that a configuration cannot write: a *)
(* string with a tab, and one with a backspace and a carriage return, as   *)
(* their codes (every call adds newlines and NULs); numbers at the edges   *)
(* of 8 bits and of their lengths; and a colour that is not the first one. *)
(***************************************************************************)
EXTENDS Output

MCStrings == {<<97, HT>>, <<BS, CR>>}
MCNumbers == {-128, -127, -100, -10, -9, 0, 9, 10, 15, 16, 99, 100, 127}
MCPalette == {<<4, 1>>}
MCUser == <<97>>

=============================================================================
