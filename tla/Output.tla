------------------------------- MODULE Output -------------------------------
(***************************************************************************)
(* Everything the kernel prints: boot messages, system calls and the idle  *)
(* loop write to the serial port first and to the screen afterwards, and   *)
(* interrupts write to the serial port in between, and return with 0x20 in *)
(* AL.                                                                     *)
(***************************************************************************)
EXTENDS Framebuffer, Serial, Functions

CONSTANTS
    Strings,        \* the strings a program prints
    Chars,          \* the characters a program or the keyboard prints
    Numbers,        \* the numbers in boot messages
    Palette,        \* the colours that may be set, pairs
    Vectors,        \* the interrupts that come
    USER            \* the text "[USER] " before a program's string

ASSUME OutputAssumption ==
    /\ Chars \subseteq 0 .. 127
    /\ USER \in Seq(0 .. 127) \ {<< >>} /\ Strings \subseteq Seq(0 .. 127)
    /\ Numbers \subseteq INT_MIN .. -INT_MIN - 1
    /\ Palette \subseteq Nat \X Nat
    /\ Vectors \subseteq 32 .. 47

VARIABLES
    phase,          \* "off", "console", "boot" (interrupts off), "up"
    then,           \* what the kernel shows once its text is sent
    ifl,            \* whether an interrupt can come
    active          \* an interrupt is being handled

vars == <<screen, serial, phase, then, ifl, active>>

(* A list of texts for fb_write, or fb_clear.                              *)
Nothing == [texts |-> << >>, clear |-> FALSE]
Clear == [texts |-> << >>, clear |-> TRUE]
Write(texts) == [texts |-> texts, clear |-> FALSE]

(* The kernel is not in the middle of a call.                              *)
Idle == sending["kernel"] = << >> /\ then = Nothing /\ outputs = << >>

(* The firmware's screen, and a port without its queue.                    *)
Init ==
    /\ fb = [i \in Cells |-> <<USER[1], attribute(0, 7)>>]
    /\ cursor_pos = 0
    /\ current = LIGHT_GRAY_ON_BLACK
    /\ crtc = LOW
    /\ hw_cursor \in [{HIGH, LOW} -> {0, 1}]
    /\ outputs = << >>
    /\ misplaced = FALSE
    /\ depth = 1
    /\ queue = << >>
    /\ sending = [w \in Writers |-> << >>]
    /\ at = [w \in Writers |-> "poll"]
    /\ due = [w \in Writers |-> << >>]
    /\ spoilt = FALSE
    /\ phase = "off"
    /\ then = Nothing
    /\ ifl = FALSE
    /\ active = FALSE

boot_early_console ==
    /\ phase = "off"
    /\ fb_init
    /\ serial_init
    /\ phase' = "console"
    /\ UNCHANGED <<then, ifl, active>>

(* fb_set_color and fb_direct_write, which nothing in the kernel calls: at *)
(* most one call, before the first message.                                *)
Decorate ==
    /\ phase = "console"
    /\ Idle
    /\ \E p \in Palette : \/ fb_set_color(p[1], p[2])
                          \/ \E i \in Cells, c \in Chars : fb_direct_write(i, c, p[1], p[2])
    /\ phase' = "boot"
    /\ UNCHANGED <<serial, then, ifl, active>>

-----------------------------------------------------------------------------
(* The kernel's calls.  The log's wording is left out, its conversions are *)
(* not.                                                                    *)

(* Print on the port, then do the rest; interrupted or not.                *)
Call(format, args, rest, interruptible) ==
    /\ Idle
    /\ ~active
    /\ serial_printf("kernel", serial_vprintf(format, args))
    /\ then' = rest
    /\ ifl' = interruptible
    /\ UNCHANGED <<screen, phase, active>>

Formats == {<<PERCENT, LETTER.d>>, <<PERCENT, LETTER.x>>, <<PERCENT, LETTER.p>>,
            <<PERCENT, PERCENT>>, <<PERCENT, LF>>}

(* A boot message with a number.                                           *)
Log(format, n) ==
    /\ phase = "boot"
    /\ Call(format, <<n>>, Nothing, FALSE)

boot_interrupts_and_input ==
    /\ phase = "boot"
    /\ Idle
    /\ phase' = "up"
    /\ ifl' = TRUE
    /\ UNCHANGED <<screen, serial, then, active>>

(* fb_puts of "[USER] ", of the string and of the end of the line.         *)
user_texts(str) == <<puts_text(USER), puts_text(str), puts_text(<<LF>>)>>
putchars(str) == [i \in DOMAIN str |-> <<str[i]>>]

SYSCALL_PUTS(str) ==
    Call(<<PERCENT, LETTER.s>>, <<str>>, Write(user_texts(str)), FALSE)
SYSCALL_PUTCHAR(c) ==
    Call(<<PERCENT, LETTER.c>>, <<c>>, Write(<<<<c>>>>), FALSE)

(* vfs_write to the console, and the console's request 1: after the        *)
(* message about the call, numbers only.                                   *)
SYSCALL_WRITE(str) ==
    Call(<<PERCENT, LETTER.d>>, <<1>>, Write(putchars(str)), FALSE)
SYSCALL_IOCTL ==
    Call(<<PERCENT, LETTER.d>>, <<1>>, Clear, FALSE)

boot_idle_forever(c) ==
    Call(<<PERCENT, LETTER.c>>, <<c>>, Write(<<<<c>>>>), TRUE)

Show ==
    /\ sending["kernel"] = << >> /\ ~active /\ outputs = << >>
    /\ \/ /\ then.texts # << >> /\ Head(then.texts) # << >>
          /\ fb_write_char(Head(Head(then.texts)))
          /\ then' = [then EXCEPT !.texts[1] = next_char(@)]
       \/ /\ then.texts # << >> /\ Head(then.texts) = << >>
          /\ fb_write_end
          /\ then' = [then EXCEPT !.texts = Tail(@)]
       \/ /\ then.clear
          /\ fb_clear
          /\ then' = Nothing
    /\ UNCHANGED <<serial, phase, ifl, active>>

(* The bytes for the display's cursor; a system call then returns.         *)
MoveCursor ==
    /\ ~active
    /\ outb_display
    /\ ifl' = (ifl \/ (phase = "up" /\ Len(outputs) = 1 /\ then = Nothing))
    /\ UNCHANGED <<serial, phase, then, active>>

-----------------------------------------------------------------------------
(* interrupt_handler prints the vector in hexadecimal; it is not itself    *)
(* interrupted.                                                            *)
interrupt_handler(int_no) ==
    /\ ifl
    /\ ~active
    /\ active' = TRUE
    /\ serial_printf("handler", serial_vprintf(<<PERCENT, LETTER.x>>, <<int_no>>))
    /\ UNCHANGED <<screen, phase, then, ifl>>

(* The stub's return.  A status in AL is always hit; a byte only while it  *)
(* is in AL, or its port in EAX.                                           *)
isr_common_stub ==
    /\ active /\ sending["handler"] = << >>
    /\ active' = FALSE
    /\ \/ StatusHit /\ UNCHANGED screen
       \/ \E b \in {STUB, ELSEWHERE} : ByteHit(b) /\ UNCHANGED screen
       \/ DisplayHit(STUB) /\ UNCHANGED serial
       \/ at["kernel"] # "busy" /\ UNCHANGED <<serial, screen>>
    /\ UNCHANGED <<phase, then, ifl>>

Writing(w) ==
    /\ w = "kernel" => ~active
    /\ inb(w) \/ Again(w) \/ outb(w)
    /\ UNCHANGED <<screen, phase, then, ifl, active>>

Line == Transmit /\ UNCHANGED <<screen, phase, then, ifl, active>>

Next ==
    \/ boot_early_console
    \/ \E f \in Formats, n \in Numbers : Log(f, n)
    \/ Decorate
    \/ boot_interrupts_and_input
    \/ phase = "up" /\ \/ \E str \in Strings : SYSCALL_PUTS(str) \/ SYSCALL_WRITE(str)
                       \/ \E c \in Chars : SYSCALL_PUTCHAR(c) \/ boot_idle_forever(c)
                       \/ SYSCALL_IOCTL
    \/ Show \/ MoveCursor
    \/ \E int_no \in Vectors : interrupt_handler(int_no)
    \/ isr_common_stub
    \/ \E w \in Writers : Writing(w)
    \/ Line

(* The code runs on and the line takes bytes.  Interrupts are slow: again  *)
(* and again the handler has returned, what it wrote is out, and the       *)
(* kernel has tested what it read before that; and the kernel's loop does  *)
(* not poll only while the transmitter is busy.                            *)
Handling == Writing("handler") \/ isr_common_stub
Ready == serial_transmit_empty /\ at["kernel"] # "busy"
Quiet == ~active /\ Ready

Spec ==
    /\ Init /\ [][Next]_vars
    /\ WF_vars(Handling) /\ SF_vars(Writing("kernel"))
    /\ SF_vars(Ready /\ Writing("kernel"))
    /\ WF_vars(Line) /\ SF_vars(Show) /\ SF_vars(MoveCursor) /\ []<>Quiet

-----------------------------------------------------------------------------

Attributes == {attribute(p[1], p[2]) : p \in Palette} \cup {LIGHT_GRAY_ON_BLACK}

TypeOK ==
    /\ \A i \in Cells : fb[i] \in (0 .. 127) \X (Attributes \cup {attribute(0, 7)})
    /\ cursor_pos \in Cells
    /\ current \in Attributes
    /\ Len(outputs) <= 4
    /\ depth \in {1, FIFO}
    /\ Len(queue) <= depth
    /\ \A w \in Writers : at[w] = "poll" \/ (at[w] \in {"busy", "out"} /\ sending[w] # << >>)
    /\ spoilt => sending["kernel"] # << >>
    /\ phase \in {"off", "console", "boot", "up"}
    /\ then.clear \in BOOLEAN
    /\ {ifl, active, misplaced} \subseteq BOOLEAN

(* serial_write_char tests and then writes, and the handler may write in   *)
(* between, and its return may make a busy transmitter look empty: no byte *)
(* is lost, changed or moved within its writer's text, because the handler *)
(* waits for the transmitter itself, and that holds two.  The exception is *)
(* a byte that the handler's return hits, in AL or on its way there: that  *)
(* one may become 0x20 or vanish, and no other byte suffers, none of the   *)
(* handler's and none of the kernel's that follow.                         *)
Own(w, b) == IF b[1] = w THEN <<b[2]>> ELSE << >>
From(w, bytes) ==
    LET from[i \in 0 .. Len(bytes)] ==
            IF i = 0 THEN << >> ELSE from[i - 1] \o Own(w, bytes[i])
    IN from[Len(bytes)]
Owed(w) == IF w = "kernel" /\ spoilt THEN Tail(sending[w]) ELSE sending[w]
NothingLost == \A w \in Writers : due[w] = From(w, queue) \o Owed(w)

(* When a call is over, the cursor that the display shows is where the     *)
(* next character goes: after fb_write, fb_clear and scrolling.  Unless,   *)
(* on the idle loop's path, an interrupt hit one of the four bytes that    *)
(* say so; the next call puts it right.                                    *)
CursorShown ==
    phase # "off" /\ then = Nothing /\ outputs = << >> /\ ~misplaced =>
        hw_cursor[HIGH] * BYTE + hw_cursor[LOW] = cursor_pos

(* Waiting for the transmitter, with interrupts on or off, ends: every     *)
(* call prints all of its text, then shows it, and leaves the cursor so.   *)
CallsEnd == (~Idle ~> Idle) /\ []CursorShown

(* A number in the log reads back as the number, but for the most negative *)
(* one in decimal, which is its own negation.                              *)
digit(b) == IF b >= 97 THEN b - 87 ELSE b - ZERO
Read(base, text) ==
    LET value[i \in 0 .. Len(text)] ==
            IF i = 0 THEN 0 ELSE base * value[i - 1] + digit(text[i])
    IN value[Len(text)]
ReadDec(text) == IF Head(text) = MINUS THEN -Read(10, Tail(text)) ELSE Read(10, text)
ReadsBack ==
    [][\A n \in Numbers :
        /\ Log(<<PERCENT, LETTER.d>>, n) /\ n # INT_MIN => ReadDec(sending'["kernel"]) = n
        /\ Log(<<PERCENT, LETTER.x>>, n) => Read(16, sending'["kernel"]) = n % 2 ^ BITS]_vars

(* The screen is a terminal of rows: wrapping, scrolling, tabs, carriage   *)
(* returns and backspaces move or erase what a terminal would, and nothing *)
(* else.                                                                   *)
Printable == Chars \cup {NUL, LF} \cup UNION {Range(str) : str \in Strings \cup {USER}}
T == INSTANCE Terminal WITH
    Width <- WIDTH, Height <- HEIGHT, Tab <- TAB, Colours <- Attributes,
    Chars <- Printable,
    rows <- [r \in 1 .. HEIGHT |-> [k \in 1 .. WIDTH |-> fb[(r - 1) * WIDTH + k - 1]]],
    row <- (cursor_pos \div WIDTH) + 1,
    col <- (cursor_pos % WIDTH) + 1,
    colour <- current
ImplementsTerminal == T!Spec

=============================================================================
