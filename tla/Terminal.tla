------------------------------ MODULE Terminal ------------------------------
(***************************************************************************)
(* What the screen promises: rows of cells and a place to write, which     *)
(* moves on from the end of a row to the next row and, below the last row, *)
(* moves every row up by one.  Nothing else ever moves or loses a cell.    *)
(***************************************************************************)
EXTENDS Integers, Sequences

CONSTANTS
    Width, Height, Tab,
    Chars,          \* what may be typed
    Colours

VARIABLES
    rows,           \* the rows, from the top, each a sequence of cells
    row, col,       \* the place, from 1
    colour

vars == <<rows, row, col, colour>>

Space == <<32, colour>>
EmptyRow == [i \in 1 .. Width |-> Space]

(* Whatever the firmware left on the screen.                               *)
Init == row = 1 /\ col = 1 /\ colour \in Colours

Place == [rows |-> rows, row |-> row, col |-> col]

NextRow(t) ==
    IF t.row < Height
    THEN [t EXCEPT !.row = @ + 1, !.col = 1]
    ELSE [t EXCEPT !.rows = Append(Tail(@), EmptyRow), !.col = 1]
Put(t, cell) ==
    LET u == [t EXCEPT !.rows[t.row][t.col] = cell]
    IN IF t.col < Width THEN [u EXCEPT !.col = @ + 1] ELSE NextRow(u)

(* A tab is blanks, but stops at the end of the screen.                    *)
ToEnd(t) == (Height - t.row) * Width + Width - t.col + 1
Blanks(t) == IF ToEnd(t) < Tab THEN ToEnd(t) ELSE Tab
Tabbed(t) ==
    LET put[i \in 0 .. Blanks(t)] == IF i = 0 THEN t ELSE Put(put[i - 1], Space)
    IN put[Blanks(t)]

Back(t) ==
    IF t.col > 1 THEN [t EXCEPT !.rows[t.row][t.col - 1] = Space, !.col = @ - 1]
    ELSE IF t.row > 1 THEN [t EXCEPT !.rows[t.row - 1][Width] = Space, !.row = @ - 1, !.col = Width]
    ELSE t

Typed(t, c) ==
    CASE c = 10 -> NextRow(t)
      [] c = 9 -> Tabbed(t)
      [] c = 13 -> [t EXCEPT !.col = 1]
      [] c = 8 -> Back(t)
      [] OTHER -> Put(t, <<c, colour>>)

Type(c) ==
    /\ Place' = Typed(Place, c)
    /\ UNCHANGED colour

Clear ==
    /\ rows' = [r \in 1 .. Height |-> EmptyRow]
    /\ row' = 1 /\ col' = 1
    /\ UNCHANGED colour

Recolour == colour' \in Colours /\ UNCHANGED <<rows, row, col>>

Overwrite ==
    /\ \E r \in 1 .. Height, k \in 1 .. Width :
        \A q \in 1 .. Height, j \in 1 .. Width : <<q, j>> # <<r, k>> => rows'[q][j] = rows[q][j]
    /\ UNCHANGED <<row, col, colour>>

Next ==
    \/ \E c \in Chars : Type(c)
    \/ Clear
    \/ Recolour
    \/ Overwrite

Spec == Init /\ [][Next]_vars

=============================================================================
