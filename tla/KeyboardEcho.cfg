CONSTANTS
    KBUF_SIZE = 3
    EOI = 1
    MaxTyped = 2
SPECIFICATION Spec
INVARIANT EchoIsReturned
