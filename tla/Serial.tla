------------------------------- MODULE Serial -------------------------------
(***************************************************************************)
(* The serial port of serial.c: number formatting, the formatted print,    *)
(* and the bytes on their way through the transmitter's queue.  Two pieces *)
(* of code write to it: the kernel, and an interrupt handler that may come *)
(* between any two of its instructions.  Characters are their codes.       *)
(*                                                                         *)
(* The handler returns with 0x20 in AL, so the status that inb left there, *)
(* the byte that outb has loaded or the port on its way through EAX may be *)
(* replaced.  What is in EAX in the loops that call serial_write_char, the *)
(* pointer into the text, is not modelled: a text is the characters that   *)
(* serial_write_char is called with.                                       *)
(***************************************************************************)
EXTENDS Integers, Sequences

CONSTANTS
    BITS,           \* 32, the bits of an integer
    FIFO            \* 16, the bytes that the transmitter's queue holds

ASSUME SerialAssumption == BITS \in {4 * i : i \in 1 .. 8} /\ FIFO \in Nat \ {0, 1}

Writers == {"kernel", "handler"}
NOBODY == "nobody"

(* The byte the stub leaves in AL, and a byte that goes to another port.   *)
STUB == 32
ELSEWHERE == -1

VARIABLES
    depth,          \* the bytes the transmitter holds; one without its queue
    queue,          \* the bytes it holds, each with its writer
    sending,        \* what each writer has still to send
    at,             \* each writer: before it polls; "busy" with that status in
                    \* AL; on its way "out" with the byte
    due,            \* what each writer was asked to send and is not out yet
    spoilt          \* ghost: the kernel's byte was hit, and is no longer due

serial == <<depth, queue, sending, at, due, spoilt>>

MINUS == 45
PERCENT == 37
ZERO == 48
LETTER == [d |-> 100, x |-> 120, s |-> 115, c |-> 99, p |-> 112]

-----------------------------------------------------------------------------
(* Numbers.  The remainder takes the sign of the dividend, and the most    *)
(* negative number is its own negation: its loop ends after one round.     *)

INT_MIN == -(2 ^ (BITS - 1))
negated(num) == IF num = INT_MIN THEN num ELSE -num
remainder(num) == IF num < 0 THEN -((-num) % 10) ELSE num % 10

magnitude_mutant(num) == num
magnitude(num) == IF num < 0 THEN negated(num) ELSE num

digits[num \in Int] ==
    IF num < 10 THEN <<ZERO + remainder(num)>>
    ELSE Append(digits[num \div 10], ZERO + remainder(num))

itoa_dec(num) == (IF num < 0 THEN <<MINUS>> ELSE << >>) \o digits[magnitude(num)]

hex(digit) == IF digit < 10 THEN ZERO + digit ELSE 97 + digit - 10

hex_digits[num \in Nat] ==
    IF num < 16 THEN <<hex(num)>> ELSE Append(hex_digits[num \div 16], hex(num % 16))

itoa_hex(num) == hex_digits[num % 2 ^ BITS]

-----------------------------------------------------------------------------
(* serial_vprintf, for formats that do not end in the middle of a          *)
(* directive; the state of its loop is whether it has just skipped a '%',  *)
(* the arguments left and the output.                                      *)

converted(c, arg) ==
    CASE c = LETTER.d -> itoa_dec(arg)
      [] c = LETTER.x -> itoa_hex(arg)
      [] c = LETTER.s -> arg
      [] c = LETTER.c -> <<arg>>
      [] c = LETTER.p -> <<ZERO, LETTER.x>> \o itoa_hex(arg)

formatted(s, c) ==
    CASE ~s.skipped /\ c = PERCENT -> [s EXCEPT !.skipped = TRUE]
      [] ~s.skipped /\ c # PERCENT -> [s EXCEPT !.out = Append(@, c)]
      [] s.skipped /\ c \in {LETTER[k] : k \in DOMAIN LETTER} ->
            [skipped |-> FALSE, args |-> Tail(s.args), out |-> s.out \o converted(c, Head(s.args))]
      [] s.skipped /\ c = PERCENT -> [s EXCEPT !.skipped = FALSE, !.out = Append(@, PERCENT)]
      [] OTHER -> [s EXCEPT !.skipped = FALSE, !.out = @ \o <<PERCENT, c>>]

serial_vprintf(format, args) ==
    LET loop[i \in 0 .. Len(format)] ==
            IF i = 0 THEN [skipped |-> FALSE, args |-> args, out |-> << >>]
            ELSE formatted(loop[i - 1], format[i])
    IN loop[Len(format)].out

-----------------------------------------------------------------------------
(* The port.                                                               *)

serial_init_mutant == depth' = 1 /\ UNCHANGED <<queue, sending, at, due, spoilt>>
serial_init == depth' = FIFO /\ UNCHANGED <<queue, sending, at, due, spoilt>>

(* A call hands a text to serial_write.                                    *)
serial_printf(w, text) ==
    /\ sending' = [sending EXCEPT ![w] = text]
    /\ due' = [due EXCEPT ![w] = @ \o text]
    /\ UNCHANGED <<depth, queue, at, spoilt>>

serial_transmit_empty == queue = << >>

(* serial_write_char: inb leaves the status in AL, the loop tests it, and  *)
(* outb loads AL again and sends, which a full transmitter ignores.        *)
inb(w) ==
    /\ sending[w] # << >> /\ at[w] = "poll"
    /\ at' = [at EXCEPT ![w] = IF serial_transmit_empty THEN "out" ELSE "busy"]
    /\ UNCHANGED <<depth, queue, sending, due, spoilt>>

Again(w) ==
    /\ at[w] = "busy"
    /\ at' = [at EXCEPT ![w] = "poll"]
    /\ UNCHANGED <<depth, queue, sending, due, spoilt>>

outb(w) ==
    LET hit == w = "kernel" /\ spoilt
        b == Head(sending[w])
    IN  /\ at[w] = "out"
        /\ queue' = IF Len(queue) < depth /\ ~(hit /\ b = ELSEWHERE)
                    THEN Append(queue, <<IF hit THEN NOBODY ELSE w, b>>) ELSE queue
        /\ sending' = [sending EXCEPT ![w] = Tail(@)]
        /\ at' = [at EXCEPT ![w] = "poll"]
        /\ spoilt' = (spoilt /\ ~hit)
        /\ UNCHANGED <<depth, due>>

(* The line takes a byte.                                                  *)
Transmit ==
    /\ queue # << >>
    /\ queue' = Tail(queue)
    /\ due' = [w \in Writers |-> IF w = Head(queue)[1] THEN Tail(due[w]) ELSE due[w]]
    /\ UNCHANGED <<depth, sending, at, spoilt>>

-----------------------------------------------------------------------------
(* What the stub's 0x20 does to the kernel in the middle of                *)
(* serial_write_char.                                                      *)

(* A busy transmitter looks empty: 0x20 is that bit, and a hit port is     *)
(* another's.                                                              *)
StatusHit ==
    /\ sending["kernel"] # << >> /\ at["kernel"] # "out"
    /\ at' = [at EXCEPT !["kernel"] = "out"]
    /\ UNCHANGED <<depth, queue, sending, due, spoilt>>

(* The byte becomes 0x20, or its port another one: it is written off.      *)
ByteHit(b) ==
    LET before == Len(due["kernel"]) - Len(sending["kernel"])
    IN  /\ sending["kernel"] # << >> /\ at["kernel"] # "busy"
        /\ sending' = [sending EXCEPT !["kernel"] = <<b>> \o Tail(@)]
        /\ spoilt' = TRUE
        /\ due' = IF spoilt THEN due
                  ELSE [due EXCEPT !["kernel"] = SubSeq(@, 1, before) \o Tail(sending["kernel"])]
        /\ UNCHANGED <<depth, queue, at>>

=============================================================================
