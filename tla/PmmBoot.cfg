\* The kernel's own numbers: pmm.h's MAX_ORDER, boot_config.h's interval
\* 0x01000000 - 0x02000000 in pages.
CONSTANTS
    MAX_ORDER = 11
    memory_start = 4096
    memory_end = 8192
SPECIFICATION Spec
INVARIANT HeldInsideInterval
