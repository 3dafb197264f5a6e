------------------------------ MODULE Keyboard ------------------------------
(***************************************************************************)
(* The keyboard's ring buffer, kernel/interrupts/keyboard.c, between the   *)
(* interrupt handler that fills it and its two readers: the kernel's idle  *)
(* loop (boot.c), which interrupts may enter at every instruction, and the *)
(* system call SYSCALL_GETC, which runs with interrupts off.               *)
(*                                                                         *)
(* The interrupt stub does not give AL back, so the reader of the idle     *)
(* loop is modelled with the register its indices and its character are    *)
(* in, in the order in which the unoptimised build uses it.                *)
(*                                                                         *)
(* A character is the serial number of the key press that produced it; 0   *)
(* is NUL.                                                                 *)
(***************************************************************************)
EXTENDS Integers

CONSTANTS
    KBUF_SIZE,      \* 256, which is also how many values AL has
    EOI,            \* 0x20, what the stub leaves in AL
    MaxTyped        \* bound on the key presses of a behaviour

ASSUME SizeAssumption == KBUF_SIZE \in Nat \ {0}
ASSUME EoiAssumption == EOI \in 0 .. KBUF_SIZE - 1
ASSUME BoundAssumption == MaxTyped \in Nat

Slots == 0 .. KBUF_SIZE - 1

(* What a spoiled index can be: C's % keeps the sign.                      *)
Indices == -KBUF_SIZE .. KBUF_SIZE - 1

(* A character nobody typed: 0x20 from the stub, or a byte that is not in  *)
(* the buffer.                                                             *)
STRAY == -1

VARIABLES
    kbuf, khead, ktail,     \* keyboard.c
    typed,                  \* ghost: characters stored so far
    last,                   \* ghost: the last character read from kbuf
    overflowed,             \* ghost: a store has made the buffer look empty
    spoiled,                \* ghost: an interrupt has changed an index in EAX
    pc,                     \* where the reader is
    edx, eax,               \* the registers its indices are in
    c,                      \* keyboard_get_char's local, its result
    al,                     \* EAX again, while it holds a character
    echoed                  \* ghost: <<returned, shown>> by the last fb_putchar

buffer == <<kbuf, khead, ktail, typed, last, overflowed>>
regs == <<edx, eax, c, al>>
vars == <<kbuf, khead, ktail, typed, last, overflowed, spoiled, pc, edx, eax, c, al, echoed>>

Init ==
    /\ kbuf = [i \in Slots |-> 0]
    /\ khead = 0
    /\ ktail = 0
    /\ typed = 0
    /\ last = 0
    /\ overflowed = FALSE
    /\ spoiled = FALSE
    /\ pc \in {"head", "user"}
    /\ edx = 0
    /\ eax = 0
    /\ c = 0
    /\ al = 0
    /\ echoed = <<0, 0>>

succ_mutant(i) == IF i + 1 > KBUF_SIZE - 1 THEN 1 ELSE i + 1
succ_unwrapped(i) == i + 1
succ(i) == (i + 1) % KBUF_SIZE

-----------------------------------------------------------------------------
(* Interrupts.  The handler runs with interrupts off, so it is one step.   *)
(* On the way out the stub has restored the registers and then loads AL    *)
(* with the EOI command; hlt ends.                                         *)

(* Where EAX holds an index, and where it holds a character.               *)
Indexing == {"cmp", "index", "sum", "fix", "back", "put"}
Carrying == {"char", "ret"}

(* The value with its low byte replaced.                                   *)
low_byte(n) == n - (n % KBUF_SIZE) + EOI

InterruptReturn_mutant ==
    /\ eax' = IF pc \in Indexing THEN low_byte(eax) ELSE eax
    /\ al' = IF pc \in Carrying THEN STRAY ELSE al
    /\ spoiled' = (spoiled \/ eax' # eax)
    /\ UNCHANGED <<pc, edx, c>>

InterruptReturn ==
    /\ pc' = IF pc = "hlt" THEN "head" ELSE pc
    /\ eax' = IF pc \in Indexing THEN low_byte(eax) ELSE eax
    /\ al' = IF pc \in Carrying THEN STRAY ELSE al
    /\ spoiled' = (spoiled \/ eax' # eax)
    /\ UNCHANGED <<edx, c>>

(* What the controller may send: a key that has a character, a key that    *)
(* has none, a key's release, a response such as 0xFA.                     *)
Codes == {"key", "nochar", "release", "response"}

scancode_to_char(sc) == IF sc = "key" THEN typed + 1 ELSE 0

(* keyboard_input_handler.  Nothing tests whether the buffer is full.      *)
StoreKey(sc) ==
    /\ typed < MaxTyped
    /\ sc # "response"
    /\ scancode_to_char(sc) # 0
    /\ typed' = typed + 1
    /\ kbuf' = [kbuf EXCEPT ![khead] = scancode_to_char(sc)]
    /\ khead' = succ(khead)
    /\ overflowed' = (overflowed \/ khead' = ktail)
    /\ InterruptReturn
    /\ UNCHANGED <<ktail, last, echoed>>

IgnoreCode(sc) ==
    /\ sc = "response" \/ scancode_to_char(sc) = 0
    /\ InterruptReturn
    /\ UNCHANGED <<buffer, echoed>>

(* Every other interrupt, the timer's above all.                           *)
OtherInterrupt ==
    /\ InterruptReturn
    /\ UNCHANGED <<buffer, echoed>>

-----------------------------------------------------------------------------
(* keyboard_get_char.  The idle loop calls it with interrupts on.          *)

empty_mutant(head, tail) == FALSE
empty(head, tail) == head = tail

GetHead ==
    /\ pc = "head"
    /\ pc' = "tail"
    /\ edx' = khead
    /\ UNCHANGED <<buffer, spoiled, eax, c, al, echoed>>

GetTail ==
    /\ pc = "tail"
    /\ pc' = "cmp"
    /\ eax' = ktail
    /\ UNCHANGED <<buffer, spoiled, edx, c, al, echoed>>

GetEmpty ==
    /\ pc = "cmp"
    /\ empty(edx, eax)
    /\ pc' = "ret"
    /\ c' = 0
    /\ al' = 0
    /\ UNCHANGED <<buffer, spoiled, edx, eax, echoed>>

GetCheck ==
    /\ pc = "cmp"
    /\ ~empty(edx, eax)
    /\ pc' = "index"
    /\ eax' = ktail
    /\ UNCHANGED <<buffer, spoiled, edx, c, al, echoed>>

(* A spoiled index may lie before the buffer.                              *)
kbuf_at(i) == IF i \in Slots THEN {kbuf[i]} ELSE {0, STRAY}

GetLoad ==
    /\ pc = "index"
    /\ pc' = "char"
    /\ al' \in kbuf_at(eax)
    /\ last' = al'
    /\ UNCHANGED <<kbuf, khead, ktail, typed, overflowed, spoiled, edx, eax, c, echoed>>

GetChar ==
    /\ pc = "char"
    /\ pc' = "sum"
    /\ c' = al
    /\ eax' = ktail
    /\ UNCHANGED <<buffer, spoiled, edx, al, echoed>>

(* (ktail + 1) % KBUF_SIZE of signed integers: the sum, a correction that  *)
(* is 0 unless the sum is negative, its use before and after the mask.     *)
GetSum ==
    /\ pc = "sum"
    /\ pc' = "fix"
    /\ edx' = eax + 1
    /\ eax' = IF edx' < 0 THEN KBUF_SIZE - 1 ELSE 0
    /\ UNCHANGED <<buffer, spoiled, c, al, echoed>>

GetFix ==
    /\ pc = "fix"
    /\ pc' = "back"
    /\ edx' = (edx + eax) % KBUF_SIZE
    /\ UNCHANGED <<buffer, spoiled, eax, c, al, echoed>>

GetBack ==
    /\ pc = "back"
    /\ pc' = "put"
    /\ eax' = edx - eax
    /\ UNCHANGED <<buffer, spoiled, edx, c, al, echoed>>

GetPut ==
    /\ pc = "put"
    /\ pc' = "ret"
    /\ ktail' = eax
    /\ al' = c
    /\ UNCHANGED <<kbuf, khead, typed, last, overflowed, spoiled, edx, eax, c, echoed>>

(* boot_idle_forever: show the character that came back, then halt.        *)
Idle ==
    /\ pc = "ret"
    /\ pc' = "hlt"
    /\ echoed' = IF al # 0 THEN <<c, al>> ELSE echoed
    /\ UNCHANGED <<buffer, spoiled, regs>>

(* SYSCALL_GETC, under the system call's interrupt gate.                   *)
SyscallGet ==
    /\ pc = "user"
    /\ ~empty(khead, ktail)
    /\ c' = kbuf[ktail]
    /\ last' = kbuf[ktail]
    /\ ktail' = succ(ktail)
    /\ UNCHANGED <<kbuf, khead, typed, overflowed, spoiled, pc, edx, eax, al, echoed>>

IdleLoop ==
    \/ GetHead \/ GetTail \/ GetEmpty \/ GetCheck \/ GetLoad \/ GetChar
    \/ GetSum \/ GetFix \/ GetBack \/ GetPut \/ Idle

Next ==
    \/ \E sc \in Codes : StoreKey(sc) \/ IgnoreCode(sc)
    \/ OtherInterrupt
    \/ IdleLoop
    \/ SyscallGet

(* The idle loop runs; the timer keeps interrupting it (the firmware       *)
(* leaves its line unmasked and pic_remap restores that mask).  A user     *)
(* program need not read.                                                  *)
Spec == Init /\ [][Next]_vars /\ WF_vars(IdleLoop) /\ WF_vars(OtherInterrupt)

-----------------------------------------------------------------------------

Steps == {"head", "tail", "ret", "hlt"} \cup Indexing \cup Carrying
Chars == {STRAY} \cup 0 .. typed

(* Only the idle loop's reader can be spoiled: a system call never is.     *)
TypeOK ==
    /\ kbuf \in [Slots -> 0 .. typed]
    /\ khead \in Slots
    /\ ktail \in Indices
    /\ typed \in 0 .. MaxTyped
    /\ last \in Chars
    /\ overflowed \in BOOLEAN
    /\ spoiled \in BOOLEAN
    /\ pc \in Steps \cup {"user"}
    /\ edx \in -KBUF_SIZE .. KBUF_SIZE
    /\ eax \in Indices
    /\ c \in Chars
    /\ al \in Chars
    /\ echoed \in Chars \X Chars
    /\ ktail \notin Slots => spoiled
    /\ spoiled => pc # "user"

(* How many characters the reader will find, and how many it has taken.    *)
Unread == IF ktail <= khead THEN khead - ktail ELSE khead - ktail + KBUF_SIZE
Taken == IF pc \in {"char", "sum", "fix", "back", "put"} THEN last - 1 ELSE last

(* Until a store fills the last slot, the buffer is a queue: what is       *)
(* unread is exactly what was typed and not taken, in the order typed.     *)
(* The exception is the stub's: once an interrupt has replaced the low     *)
(* byte of an index that keyboard_get_char held in EAX (only the idle loop *)
(* can be hit; SYSCALL_GETC cannot), ktail may be anything.                *)
Lossless ==
    ~overflowed /\ ~spoiled =>
        /\ Taken + Unread = typed
        /\ \A k \in 1 .. Unread : kbuf[(ktail + k - 1) % KBUF_SIZE] = Taken + k

(* Even when interrupts overrun the buffer, between any two instructions   *)
(* of the reader, no character is read twice, out of order, or before it   *)
(* was typed, as long as none of them has hit an index in EAX.             *)
NoReplay == [][~spoiled /\ last' # last => last' > last /\ last' <= typed]_vars

(* An interrupt replaces an index in EAX.                                  *)
Spoils == pc \in Indexing /\ pc' = pc /\ eax' # eax

(* The idle loop takes every character the buffer shows, one per wake-up,  *)
(* also one that is typed between its test and its hlt, and wherever an    *)
(* interrupt that hit an index has put ktail: unless they hit indices for  *)
(* ever, the reader catches up.                                            *)
Drains ==
    \/ []<><<Spoils>>_vars
    \/ (pc # "user" /\ khead # ktail) ~> khead = ktail

(* What the stub's comment says, that popa restores the general registers: *)
(* the idle loop shows the character that keyboard_get_char returned.      *)
EchoIsReturned == echoed[1] = echoed[2]

=============================================================================
