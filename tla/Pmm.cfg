\* Largest block 4 pages; 9 pages at page 4: the bitmap takes pages 4-7, the
\* two largest blocks are pages 8-15, one page is left over.
CONSTANTS
    MAX_ORDER = 2
    memory_start = 4
    memory_end = 13
SPECIFICATION Spec
INVARIANTS
    TypeOK
    NoOverlap
    NoPageLost
    ListsCounted
    NoFreeBuddies
    NoSpuriousOOM
    StatsExact
PROPERTIES
    CallReturns
    ImplementsPageAllocator
