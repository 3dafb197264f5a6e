--------------------------- MODULE PageAllocator ---------------------------
(***************************************************************************)
(* What the kernel's callers may expect of pmm_alloc_pages and             *)
(* pmm_free_pages, free lists and bitmap aside: a request is granted with  *)
(* an aligned block of pages that nobody holds, and it is refused only     *)
(* when there is none.                                                     *)
(***************************************************************************)
EXTENDS PageBlocks

CONSTANTS
    MaxOrder,       \* the largest order
    First, End      \* the pages First .. End - 1 are managed

VARIABLES
    held,           \* the blocks the callers own
    answer          \* <<order, page>> answered to the last request, page 0: refused

NoAnswer == <<0, -1>>

Fits(b) ==
    /\ b[1] >= First
    /\ b[1] + Pow2(b[2]) <= End
    /\ Aligned(b[1], b[2])
    /\ \A c \in held : Disjoint(b, c)

Available(o) == \E p \in First .. End - 1 : Fits(<<p, o>>)

Init == held = {} /\ answer = NoAnswer

Grant(p, o) ==
    /\ Fits(<<p, o>>)
    /\ held' = held \cup {<<p, o>>}
    /\ answer' = <<o, p>>

Refuse(o) ==
    /\ o \in 0 .. MaxOrder => ~Available(o)
    /\ answer' = <<o, 0>>
    /\ UNCHANGED held

Free(b) ==
    /\ b \in held
    /\ held' = held \ {b}
    /\ answer' = NoAnswer

(* A call of pmm_free_pages that its first test turns away.                *)
Ignore == answer' = NoAnswer /\ UNCHANGED held

Next ==
    \/ \E o \in 0 .. MaxOrder : \E p \in First .. End - 1 : Grant(p, o)
    \/ \E o \in 0 .. MaxOrder + 1 : Refuse(o)
    \/ \E b \in held : Free(b)
    \/ Ignore

Spec == Init /\ [][Next]_<<held, answer>>

=============================================================================
