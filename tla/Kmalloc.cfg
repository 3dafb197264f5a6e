\* A heap of 19 units of 8 bytes.  8 takes a block of 3 units, 24 of 5, 56 of 9;
\* the product 3 * 5000 wraps to a size that fits; 0 and 5000 are refused.
CONSTANTS
    HeapStart = 4096
    HeapSize = 152
    KMALLOC_MAX_SIZE = 4096
    Sizes = {0, 8, 24, 56, 5000}
    Counts = {3}
    WORD = 14992
SPECIFICATION Spec
INVARIANTS
    ListTiles
    Coalesced
    DataFits
    UsageExact
PROPERTY
    LiveUntouched
