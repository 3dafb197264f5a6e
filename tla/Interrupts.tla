----------------------------- MODULE Interrupts -----------------------------
(***************************************************************************)
(* Hardware interrupts and exceptions from the controllers to the code     *)
(* they interrupt: the two 8259 controllers as pic.c programs them, the    *)
(* gates of idt.c, the stubs of interrupt_asm.asm, the dispatch in         *)
(* keyboard.c, and keyboard_init, which talks to the keyboard controller   *)
(* with interrupts on, as boot.c calls it.                                 *)
(*                                                                         *)
(* The devices are modelled from how the kernel uses them.  A line asks    *)
(* for service when it rises: a request that is withdrawn before the       *)
(* processor takes it, or that a controller forgets when it is programmed, *)
(* does not come back by itself.                                           *)
(***************************************************************************)
EXTENDS Integers, Sequences, FiniteSetsExt

CONSTANTS
    Lines,          \* the lines in use, out of 0 .. 15 (2 is the cascade)
    FirmwareMasks,  \* the masks the firmware may leave, sets of lines
    Faults,         \* the exceptions that a program may raise
    Mice,           \* the set of answers to: is there a mouse?
    POLLS           \* 10000, the bound of keyboard_init's waits

TIMER == 0
KEYBOARD == 1
CASCADE == 2
MOUSE == 12

ASSUME LinesAssumption ==
    /\ Lines \subseteq (0 .. 15) \ {CASCADE}
    /\ FirmwareMasks \subseteq SUBSET (0 .. 15)
    /\ KEYBOARD \in Lines
    /\ Faults \subseteq 0 .. 31
    /\ Mice \subseteq BOOLEAN
    /\ TRUE \in Mice => MOUSE \in Lines
    /\ POLLS \in Nat \ {0}

VARIABLES
    requested, in_service, masked,  \* both controllers
    late,           \* the vector of a request withdrawn too late, or 0
    ifl,            \* the processor's interrupt flag
    active,         \* the vectors being handled, the innermost first, each with
                    \* whether its handler has returned to the stub
    obf,            \* the keyboard controller's output buffer
    ibf,            \* its input buffer
    enabled, aux,   \* its two ports
    scanning,       \* the keyboard sends keys
    mouse,          \* there is a mouse, and it moves
    pc, timeout,    \* where the interrupted code is
    step, al,       \* within a wait or a command: what it does, and what AL holds
    gave_up,        \* the wait at which keyboard_init gave up, or "none"
    spoiled         \* ghost: an interrupt has taken a value in AL away

pic == <<requested, in_service, masked, late>>
cpu == <<ifl, active>>
i8042 == <<obf, ibf, enabled, aux, scanning, mouse>>
main == <<pc, timeout, step, al, gave_up, spoiled>>
vars == <<requested, in_service, masked, late, ifl, active, obf, ibf, enabled,
          aux, scanning, mouse, pc, timeout, step, al, gave_up, spoiled>>

Init ==
    /\ requested = {}
    /\ in_service = {}
    /\ masked \in FirmwareMasks
    /\ late = 0
    /\ ifl = FALSE
    /\ active = << >>
    /\ obf = "none"
    /\ ibf = "none"
    /\ enabled = TRUE
    /\ aux = TRUE
    /\ scanning \in BOOLEAN
    /\ mouse \in Mice
    /\ pc = "install"
    /\ timeout = POLLS
    /\ step = "poll"
    /\ al = "dead"
    /\ gave_up = "none"
    /\ spoiled = FALSE

-----------------------------------------------------------------------------
(* The controllers.                                                        *)

chip(i) == i \div 8
Priority(i) == IF i < 8 THEN 16 * i ELSE 16 * CASCADE + i

(* Neither masked nor held back by what is in service, on the line's own   *)
(* controller and, for the slave, on the master's cascade line.            *)
deliverable(i) ==
    /\ i \in requested \ masked
    /\ \A j \in in_service : chip(j) = chip(i) => i < j
    /\ i >= 8 => /\ CASCADE \notin masked
                 /\ \A j \in in_service : j < 8 => CASCADE < j

(* The command 0x20 ends what has the highest priority on a controller.    *)
ended(S, c) ==
    LET T == {j \in S : chip(j) = c} IN IF T = {} THEN S ELSE S \ {Min(T)}

pic_eoi(S, irq) == ended(IF irq >= 8 THEN ended(S, 1) ELSE S, 0)

(* pic_remap saves the masks, programs both controllers, masks every line  *)
(* and restores the masks.                                                 *)
pic_remap == requested' = {} /\ in_service' = {}
pic_clear_mask(irq) == masked' = masked \ {irq}

-----------------------------------------------------------------------------
(* Entry and exit.  What the processor and then the stub push, the last    *)
(* word first; interrupt_handler gets the second word, and the stub drops  *)
(* two before iret.                                                        *)

EIP == -1
CS == -2
EFLAGS == -3
ERROR == -4
OLDER == -5     \* what was on the stack before
Resumed == <<EIP, CS, EFLAGS>>

ErrorCode == {8, 10, 11, 12, 13, 14, 17}
cpu_push(v) == (IF v \in ErrorCode THEN <<ERROR>> ELSE << >>) \o Resumed

stub_push(v) == IF v \in {9, 14} THEN <<v>> ELSE <<0, v>>
frame(v) == stub_push(v) \o cpu_push(v) \o <<OLDER>>

int_no(v) == frame(v)[2]
iret(v) == SubSeq(frame(v), 3, 5)

(* idt_install: interrupt gates, which turn interrupts off.                *)
gate_mutant == ifl' = TRUE
gate == ifl' = FALSE

Enter(v) ==
    /\ active' = <<[vector |-> v, returned |-> FALSE]>> \o active
    /\ gate

(* The processor takes the request with the highest priority.              *)
Deliver(i) ==
    /\ ifl
    /\ deliverable(i)
    /\ \A j \in Lines : deliverable(j) => Priority(i) <= Priority(j)
    /\ Enter(32 + i)
    /\ requested' = requested \ {i}
    /\ in_service' = in_service \cup (IF i < 8 THEN {i} ELSE {CASCADE, i})
    /\ UNCHANGED <<masked, late, i8042, main>>

(* A request withdrawn too late reads as line 7 of its controller; only    *)
(* the cascade is then in service.                                         *)
Spurious ==
    /\ ifl
    /\ late # 0
    /\ Enter(late)
    /\ late' = 0
    /\ in_service' = IF late = 47 THEN in_service \cup {CASCADE} ELSE in_service
    /\ UNCHANGED <<requested, masked, i8042, main>>

Fault(v) ==
    /\ pc = "run"
    /\ active = << >>
    /\ Enter(v)
    /\ UNCHANGED <<pic, i8042, main>>

Running == active # << >> /\ ~active[1].returned

(* interrupt_handler: only the keyboard's vector does anything.            *)
Handle ==
    /\ Running
    /\ active' = [active EXCEPT ![1].returned = TRUE]
    /\ IF int_no(active[1].vector) = 33
       THEN obf' = "none" /\ in_service' = pic_eoi(in_service, KEYBOARD)
       ELSE UNCHANGED <<obf, in_service>>
    /\ UNCHANGED <<requested, masked, late, ifl, ibf, enabled, aux, scanning, mouse, main>>

stub_eoi_mutant == in_service' = in_service
stub_eoi == in_service' = ended(in_service, 0)

(* What the stub makes of AL, which it loads with 0x20 after the registers *)
(* were restored.  A command about to be sent is 0x20 now.  A status reads *)
(* as clear if the bit is still to be masked out, else as set.             *)
clobbered == CASE step = "out" -> {"20"}
               [] step = "test" -> {"set", "clear"}
               [] OTHER -> {al}

(* From the flush on, a command is replaced or a set bit is not seen.      *)
Spoilt == pc \in {"flush", "wait3"} /\ al # "clear" /\ al' # al

(* The end of the stub, for every vector: EOI to the master, sti, iret.    *)
Return ==
    /\ active # << >> /\ active[1].returned
    /\ stub_eoi
    /\ ifl' = TRUE
    /\ active' = Tail(active)
    /\ pc' = IF iret(active[1].vector) = Resumed THEN pc ELSE "wild"
    /\ al' \in clobbered
    /\ spoiled' = (spoiled \/ Spoilt)
    /\ UNCHANGED <<requested, masked, late, i8042, timeout, step, gave_up>>

-----------------------------------------------------------------------------
(* The devices.                                                            *)

(* The timer and every other line that no other device below drives.       *)
Raise(i) ==
    /\ i \notin {KEYBOARD, MOUSE}
    /\ requested' = requested \cup {i}
    /\ UNCHANGED <<in_service, masked, late, cpu, i8042, main>>

Fill(byte, line) ==
    /\ obf = "none"
    /\ obf' = byte
    /\ requested' = requested \cup {line}
    /\ UNCHANGED <<in_service, masked, late, cpu, main>>

KeyPress ==
    /\ enabled /\ scanning
    /\ Fill("key", KEYBOARD)
    /\ UNCHANGED <<ibf, enabled, aux, scanning, mouse>>

MouseMoves ==
    /\ mouse /\ aux
    /\ Fill("mouse", MOUSE)
    /\ UNCHANGED <<ibf, enabled, aux, scanning, mouse>>

(* The controller acts on a command.  It answers 0x20 with a byte of its   *)
(* own, as the keyboard answers F4, and 0x20 when that is sent in place.   *)
TakeCommand ==
    /\ ibf \in {"AD", "A7", "AE"}
    /\ ibf' = "none"
    /\ enabled' = (ibf = "AE" \/ (enabled /\ ibf # "AD"))
    /\ aux' = (aux /\ ibf # "A7")
    /\ UNCHANGED <<pic, cpu, obf, scanning, mouse, main>>

Answer ==
    /\ ibf \in {"F4", "20"}
    /\ ibf' = "none"
    /\ scanning' = (scanning \/ ibf = "F4")
    /\ Fill("answer", KEYBOARD)
    /\ UNCHANGED <<enabled, aux, mouse>>

-----------------------------------------------------------------------------
(* The interrupted code: isr_install, sti, keyboard_init.                  *)

isr_install ==
    /\ pc = "install"
    /\ pic_remap
    /\ pic_clear_mask(KEYBOARD)
    /\ pc' = "sti"
    /\ UNCHANGED <<late, cpu, i8042, timeout, step, al, gave_up, spoiled>>

sti ==
    /\ pc = "sti"
    /\ ifl' = TRUE
    /\ pc' = "wait1"
    /\ UNCHANGED <<pic, active, i8042, timeout, step, al, gave_up, spoiled>>

Here(p, s) == pc = p /\ step = s /\ active = << >>
Waits == {"wait1", "wait2", "wait3", "ack"}

(* The bit a loop tests: the input buffer is full, the output buffer is.   *)
status(p) == IF p \in {"flush", "ack"} THEN obf # "none" ELSE ibf # "none"
inb(p) == al' = IF status(p) THEN "set" ELSE "clear"

(* One round of a wait: the counter first, then the status, which inb      *)
(* leaves in AL, then the test.                                            *)
Poll(p) ==
    /\ Here(p, "poll")
    /\ timeout > 1
    /\ timeout' = timeout - 1
    /\ inb(p)
    /\ step' = "test"
    /\ UNCHANGED <<pic, cpu, i8042, pc, gave_up, spoiled>>

GiveUp(p) ==
    /\ Here(p, "poll")
    /\ timeout = 1
    /\ pc' = "run"
    /\ timeout' = 0
    /\ gave_up' = p
    /\ UNCHANGED <<pic, cpu, i8042, step, al, spoiled>>

Again(p) ==
    /\ Here(p, "test")
    /\ al = IF p = "ack" THEN "clear" ELSE "set"
    /\ step' = "poll"
    /\ al' = "dead"
    /\ UNCHANGED <<pic, cpu, i8042, pc, timeout, gave_up, spoiled>>

(* The commands: AD and AE disable and enable the keyboard's port, A7      *)
(* disables the mouse's; F4, for the keyboard, enables scanning.           *)
enable_port == "AE"
enable_scanning_mutant == "AE"
enable_scanning == "F4"

(* outb: the byte goes to AL, the port to DX, then it is sent, whether or  *)
(* not the controller has taken the one before.                            *)
Load(p, command) ==
    /\ Here(p, "test")
    /\ al = "clear"
    /\ al' = command
    /\ step' = "out"
    /\ UNCHANGED <<pic, cpu, i8042, pc, timeout, gave_up, spoiled>>

Send(p, next) ==
    /\ Here(p, "out")
    /\ ibf' = al
    /\ step' = "poll"
    /\ al' = "dead"
    /\ pc' = next
    /\ timeout' = POLLS
    /\ UNCHANGED <<pic, cpu, obf, enabled, aux, scanning, mouse, gave_up, spoiled>>

(* Emptying the output buffer: status, data, status again.  The command    *)
(* that follows waits for nothing.                                         *)
FlushPoll ==
    /\ Here("flush", "poll")
    /\ inb("flush")
    /\ step' = "test"
    /\ UNCHANGED <<pic, cpu, i8042, pc, timeout, gave_up, spoiled>>

FlushSees ==
    /\ Here("flush", "test")
    /\ al = "set"
    /\ pc' = "drain"
    /\ step' = "poll"
    /\ al' = "dead"
    /\ UNCHANGED <<pic, cpu, i8042, timeout, gave_up, spoiled>>

FlushReads ==
    /\ Here("drain", "poll")
    /\ obf' = "none"
    /\ requested' = requested \ {KEYBOARD, MOUSE}
    /\ late' \in {late} \cup (IF deliverable(KEYBOARD) THEN {39} ELSE {})
                        \cup (IF deliverable(MOUSE) THEN {47} ELSE {})
    /\ pc' = "flush"
    /\ UNCHANGED <<in_service, masked, cpu, ibf, enabled, aux, scanning, mouse,
                   timeout, step, al, gave_up, spoiled>>

FlushDone_mutant ==
    /\ Here("flush", "test")
    /\ al' = enable_port
    /\ step' = "out"
    /\ UNCHANGED <<pic, cpu, i8042, pc, timeout, gave_up, spoiled>>

FlushDone == Load("flush", enable_port)

AckSeen ==
    /\ Here("ack", "test")
    /\ al = "set"
    /\ pc' = "run"
    /\ step' = "poll"
    /\ al' = "dead"
    /\ timeout' = 0
    /\ UNCHANGED <<pic, cpu, i8042, gave_up, spoiled>>

keyboard_init ==
    \/ \E p \in Waits : Poll(p) \/ GiveUp(p) \/ Again(p)
    \/ Load("wait1", "AD") \/ Send("wait1", "wait2")
    \/ Load("wait2", "A7") \/ Send("wait2", "flush")
    \/ FlushPoll \/ FlushSees \/ FlushReads
    \/ FlushDone \/ Send("flush", "wait3")
    \/ Load("wait3", enable_scanning) \/ Send("wait3", "ack")
    \/ AckSeen

Main == isr_install \/ sti \/ keyboard_init
Cpu == Handle \/ Return
Next ==
    \/ Main
    \/ Cpu \/ Spurious
    \/ \E i \in Lines : Deliver(i) \/ Raise(i)
    \/ \E v \in Faults : Fault(v)
    \/ KeyPress \/ MouseMoves \/ TakeCommand \/ Answer

(* Handlers run to their end.  The timer is slow: again and again there is *)
(* no tick to serve, and the interrupted code and the requests of lower    *)
(* priority get their turn.  The keyboard controller acts on what it is    *)
(* sent, at its own speed.                                                 *)
Quiet == ifl /\ ~deliverable(TIMER)

Spec ==
    /\ Init /\ [][Next]_vars
    /\ SF_vars(Main) /\ WF_vars(Cpu) /\ []<>Quiet
    /\ \A i \in Lines : SF_vars(Deliver(i))
    /\ WF_vars(TakeCommand) /\ SF_vars(Answer)

-----------------------------------------------------------------------------

TypeOK ==
    /\ requested \subseteq Lines
    /\ in_service \subseteq Lines \cup {CASCADE}
    /\ masked \subseteq 0 .. 15
    /\ late \in {0, 39, 47}
    /\ ifl \in BOOLEAN
    /\ active \in Seq([vector : 0 .. 47, returned : BOOLEAN]) /\ Len(active) <= 1
    /\ obf \in {"none", "key", "mouse", "answer"}
    /\ ibf \in {"none", "AD", "A7", "AE", "F4", "20"}
    /\ {enabled, aux, scanning, mouse} \subseteq BOOLEAN
    /\ pc \in {"install", "sti", "wait1", "wait2", "flush", "drain", "wait3", "ack",
               "run", "wild"}
    /\ timeout \in 0 .. POLLS
    /\ step \in {"poll", "test", "out"}
    /\ al \in {"dead", "set", "clear", "AD", "A7", "AE", "F4", "20"}
    /\ gave_up \in {"none"} \cup Waits
    /\ spoiled \in BOOLEAN

(* The keyboard's handler ends its interrupt and the stub ends one again,  *)
(* after exceptions too: that never ends the service of another interrupt, *)
(* because the master serves at most the line being handled, and nothing   *)
(* once the handler has returned.                                          *)
Handled == IF active = << >> THEN -1 ELSE active[1].vector
EoiMatched ==
    \A j \in in_service : j < 8 =>
        IF Handled \in 40 .. 47 THEN j = CASCADE ELSE Handled = 32 + j

Wild == pc = "wild"

(* The timer is served every time it asks, which is what wakes the idle    *)
(* loop from hlt: no line stays in service on the master, though the stub  *)
(* ends one there for the slave's lines as well and never on the slave.    *)
TimerServed == TIMER \in requested \ masked ~> TIMER \notin requested \/ Wild

(* keyboard_init has got past its two first waits.                         *)
Flushed == pc \in {"wait3", "ack", "run"} /\ gave_up \notin {"wait1", "wait2"}

(* No byte stays in the controller: neither one whose interrupt was lost   *)
(* when the interrupt controllers were programmed, nor one that arrives    *)
(* while keyboard_init polls with interrupts on.  Two exceptions: nothing  *)
(* reads a mouse's byte that arrives after the flush, and the flush ends   *)
(* too early when an interrupt takes the full bit out of AL before it is   *)
(* tested.                                                                 *)
BytesTaken ==
    Flushed /\ ~spoiled /\ obf \in {"key", "answer"} ~> obf = "none" \/ Wild

(* keyboard_init ends, though hardware interrupts return into the middle   *)
(* of it, unless its loop that empties the output buffer, which counts     *)
(* nothing, finds bytes for ever.  Unless it gave up waiting for the       *)
(* controller, the keyboard then sends keys, whoever took its              *)
(* acknowledgement; and where it gives up, it leaves the keyboard's port   *)
(* on, except at its second wait.                                          *)
(*                                                                         *)
(* From the flush on, what the stub does to AL is excepted: the flush or   *)
(* the wait for AE cut short, so that F4 replaces AE; 0x20 sent for AE or  *)
(* for F4.  Before, it does no harm.  And a mouse's byte that comes after  *)
(* the flush is never read (AE may replace A7, which nobody waits for): it *)
(* keeps the keyboard's answer from coming.                                *)
PortLeftOn == pc = "run" /\ gave_up # "wait2" /\ ~spoiled => enabled \/ ibf = "AE"
InitEnds ==
    /\ <>(pc = "run") \/ []<>(pc = "drain")
    /\ (pc = "run" /\ gave_up \in {"none", "ack"} /\ ~spoiled) ~>
           (enabled /\ scanning) \/ obf = "mouse" \/ Wild
    /\ []PortLeftOn

=============================================================================
