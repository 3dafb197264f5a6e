\* The timer, the keyboard, and a mouse on the slave that need not move.  The
\* firmware has masked the keyboard, which isr_install undoes.
CONSTANTS
    Lines = {0, 1, 12}
    FirmwareMasks = {{1}}
    Faults = {13, 14}
    Mice = {TRUE}
    POLLS = 2
SPECIFICATION Spec
INVARIANTS
    TypeOK
    EoiMatched
PROPERTIES
    TimerServed
    BytesTaken
    InitEnds
