\* Seven keys lap a buffer of three slots twice.
CONSTANTS
    KBUF_SIZE = 3
    EOI = 1
    MaxTyped = 7
SPECIFICATION Spec
INVARIANTS
    TypeOK
    Lossless
PROPERTIES
    NoReplay
    Drains
