---------------------------- MODULE Framebuffer ----------------------------
(***************************************************************************)
(* The text screen of fb.c: the cells of the frame buffer, the position at *)
(* which the next character goes, the colours, and the cursor the display  *)
(* shows.  fb_write takes a step for each character, whatever interrupts   *)
(* it, and at its end one for each byte that it sends to the display.      *)
(***************************************************************************)
EXTENDS Integers, Sequences

CONSTANTS
    WIDTH, HEIGHT,  \* 80 and 25
    TAB,            \* 4, the cells of a tab
    BYTE            \* 256, the values of a byte

ASSUME ScreenAssumption ==
    /\ WIDTH \in Nat \ {0} /\ HEIGHT \in Nat \ {0} /\ TAB \in Nat \ {0}
    /\ BYTE \in Nat \ {0}

VARIABLES
    fb,             \* the cells, from 0
    cursor_pos,
    current,        \* the attribute of the current colours
    crtc, hw_cursor,    \* the display's index register, its cursor registers
    outputs,        \* what fb_set_cursor has still to send, ports and bytes
    misplaced       \* ghost: one of those bytes was hit by an interrupt

display == <<crtc, hw_cursor, outputs, misplaced>>
screen == <<fb, cursor_pos, current, crtc, hw_cursor, outputs, misplaced>>

NUL == 0
BS == 8
HT == 9
LF == 10
CR == 13
SPACE == 32

CELLS == WIDTH * HEIGHT
Cells == 0 .. CELLS - 1

attribute(fg, bg) == (fg % 16) * 16 + (bg % 16)
LIGHT_GRAY_ON_BLACK == attribute(7, 0)

-----------------------------------------------------------------------------

blank == <<SPACE, current>>

fb_write_cell(s, pos, cell) == IF pos < CELLS THEN [s EXCEPT ![pos] = cell] ELSE s
fb_clear_line(s, line) == [i \in Cells |-> IF i \div WIDTH = line THEN blank ELSE s[i]]

fb_scroll_mutant(s) == [i \in Cells |-> IF i + WIDTH < CELLS THEN s[i + WIDTH] ELSE s[i]]
fb_scroll(s) ==
    fb_clear_line([i \in Cells |-> IF i + WIDTH < CELLS THEN s[i + WIDTH] ELSE s[i]],
                  HEIGHT - 1)

(* The end of a round of fb_write's loop.                                  *)
scrolled_mutant(cells, pos) ==
    IF pos > CELLS THEN fb' = fb_scroll(cells) /\ cursor_pos' = CELLS - WIDTH
                   ELSE fb' = cells /\ cursor_pos' = pos
scrolled(cells, pos) ==
    IF pos >= CELLS THEN fb' = fb_scroll(cells) /\ cursor_pos' = CELLS - WIDTH
                    ELSE fb' = cells /\ cursor_pos' = pos

newline == scrolled(fb, ((cursor_pos + WIDTH) \div WIDTH) * WIDTH)
tab ==
    scrolled([i \in Cells |-> IF i \in cursor_pos .. cursor_pos + TAB - 1 THEN blank ELSE fb[i]],
             cursor_pos + TAB)
return == scrolled(fb, (cursor_pos \div WIDTH) * WIDTH)
backspace ==
    IF cursor_pos = 0 THEN scrolled(fb, 0)
    ELSE scrolled(fb_write_cell(fb, cursor_pos - 1, blank), cursor_pos - 1)
glyph(c) == scrolled(fb_write_cell(fb, cursor_pos, <<c, current>>), cursor_pos + 1)

(* One round.                                                              *)
fb_write_char(c) ==
    /\ CASE c = LF -> newline
         [] c = HT -> tab
         [] c = CR -> return
         [] c = BS -> backspace
         [] OTHER -> glyph(c)
    /\ UNCHANGED <<current, display>>

(* What the loop has left of its text after a round.                       *)
next_char_mutant(text) == text
next_char(text) == Tail(text)

(* The display's two ports, and its registers for the halves of the        *)
(* cursor's position.                                                      *)
INDEX == 980
DATA == 981
HIGH == 14
LOW == 15

cursor_outputs(position) ==
    <<<<INDEX, LOW>>, <<DATA, position % BYTE>>, <<INDEX, HIGH>>, <<DATA, position \div BYTE>>>>

fb_set_cursor(position) ==
    /\ outputs' = cursor_outputs(IF position >= CELLS THEN CELLS - 1 ELSE position)
    /\ misplaced' = FALSE
    /\ UNCHANGED <<crtc, hw_cursor>>

(* The display takes one of its four outputs; an index that is no register *)
(* of the cursor's leaves the data without effect.                         *)
outb_display ==
    /\ outputs # << >>
    /\ outputs' = Tail(outputs)
    /\ crtc' = IF outputs[1][1] = INDEX THEN outputs[1][2] ELSE crtc
    /\ hw_cursor' = [k \in {HIGH, LOW} |->
                        IF outputs[1][1] = DATA /\ k = crtc THEN outputs[1][2] ELSE hw_cursor[k]]
    /\ UNCHANGED <<fb, cursor_pos, current, misplaced>>

(* An interrupt leaves its 0x20 in AL, where the next byte was.            *)
DisplayHit(stub) ==
    /\ outputs # << >>
    /\ outputs' = <<<<outputs[1][1], stub>>>> \o Tail(outputs)
    /\ misplaced' = TRUE
    /\ UNCHANGED <<fb, cursor_pos, current, crtc, hw_cursor>>

(* fb_write after its loop.                                                *)
fb_write_end ==
    /\ fb_set_cursor(cursor_pos)
    /\ UNCHANGED <<fb, cursor_pos, current>>

(* fb_puts writes one byte more than the length of the string.             *)
puts_text(str) == Append(str, NUL)

fb_clear ==
    /\ fb' = [i \in Cells |-> blank]
    /\ cursor_pos' = 0
    /\ fb_set_cursor(0)
    /\ UNCHANGED current

(* fb_init clears with the colours of the initializers and sets them.      *)
fb_init == fb_clear

fb_set_color(foreground, background) ==
    /\ current' = attribute(foreground, background)
    /\ UNCHANGED <<fb, cursor_pos, display>>

fb_direct_write(position, c, fg, bg) ==
    /\ fb' = fb_write_cell(fb, position, <<c, attribute(fg, bg)>>)
    /\ UNCHANGED <<cursor_pos, current, display>>

=============================================================================
