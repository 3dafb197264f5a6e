\* A screen of two rows of two cells, with tabs of three, bytes for integers,
\* a transmitter that holds two bytes, and the keyboard's interrupt.
CONSTANTS
    WIDTH = 2
    HEIGHT = 2
    TAB = 3
    BYTE = 2
    BITS = 8
    FIFO = 2
    Strings <- MCStrings
    Chars = {97}
    Numbers <- MCNumbers
    Palette <- MCPalette
    Vectors = {33}
    USER <- MCUser
SPECIFICATION Spec
INVARIANTS
    TypeOK
    NothingLost
PROPERTIES
    ReadsBack
    CallsEnd
    ImplementsTerminal
