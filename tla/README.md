# MatrixOS in TLA+

MatrixOS is a small 32-bit x86 teaching kernel: one processor, one user program
at a time, no preemption. This directory models its parts in TLA+, checks the
models with TLC on small instances and proves the central facts with TLAPS.
Paths below are relative to the repository.

## The system

| Component | State | Operations | Talks to |
|---|---|---|---|
| page allocator `kernel/mm/pmm.c` | `buddy_sys`: a free list and a counter for each order, a bitmap, the base address, a lock | `pmm_init`, `pmm_alloc_pages`, `pmm_free_pages`, `pmm_stats` | serves the heap, the page tables, the processes |
| heap `kernel/mm/kmalloc.c` | `heap_mgr`: a doubly linked list of blocks, each behind its header; usage counters | `kmalloc`, `kfree`, `kcalloc`, `krealloc`, `kmalloc_stats` | takes one region from the page allocator; serves the file systems |
| temporary mappings `kernel/mm/temp_mapping.c` | four slots of virtual address, frame, reference count; a lock | `temp_map_page`, `temp_unmap_page`, `map_page` | page tables of other address spaces |
| virtual memory `kernel/mm/vmm.c` | page directories and tables | create, load a program, destroy, switch | page allocator, temporary mappings |
| processes `kernel/process/process.c` | sixteen slots; the running one | create from a boot module, start, exit | virtual memory, loader, TSS |
| module loader `kernel/process/loader.c` | the table of boot modules | `loader_init`, find by name | ramfs, processes |
| virtual file system `kernel/fs/vfs.c` | `open_files`, the list of file systems | register, open, close, read, write, seek, ioctl, stat | ramfs, devfs, system calls |
| ramfs `kernel/fs/ramfs.c` | the files, a table of private handles | the seven file operations | the loader's modules |
| devfs `kernel/fs/devfs.c` | a table of private handles | the seven file operations | keyboard, framebuffer |
| system calls `kernel/syscall/` | none | `syscall_handler` | file system, processes, keyboard, framebuffer |
| keyboard `kernel/interrupts/keyboard.c` | `kbuf`, `khead`, `ktail` | the interrupt handler, `keyboard_get_char`, `keyboard_init` | filled by interrupts, read by the idle loop and by devfs |
| interrupts `kernel/interrupts/` | IDT, the controllers' masks and lines in service | stubs, remapping, end-of-interrupt | everything that runs with interrupts on |
| framebuffer `kernel/drivers/fb.c` | cells, `cursor_pos`, colours, the display's own cursor | `fb_init`, `fb_write`, `fb_puts`, `fb_clear`, colours, direct writes | written by system calls, devfs and the idle loop |
| serial port `kernel/drivers/serial.c` | the transmitter | `serial_init`, `serial_printf` | written by everything, interrupt handlers included |
| boot `kernel/boot.c`, `kernel/kmain.c` | – | the order of the initialisations, the idle loop | all |

What is hard in it:

* **Interleaving** is confined to interrupts against the kernel's own code from
  `boot_interrupts_and_input` on: `keyboard_init`, the last boot messages, the
  creation of the demonstration process, and the idle loop. System calls
  and interrupt handlers run with interrupts off, and there is no preemption.
  Three things are touched from both sides: the keyboard's buffer, the serial
  port (a handler prints between another writer's test and its output), and the
  keyboard controller while `keyboard_init` polls it with interrupts on.
* **AL**. The interrupt stub loads AL with 0x20 after it has restored the registers
  (`interrupt_asm.asm:116`), so whatever code it returns to goes on with another low
  byte in EAX. `outb` and `inb` (`io.asm`) keep a byte or a status there over several
  instructions, and the kernel is built without optimisation (`-O0`), so that EAX
  also carries indices and results.
* **Long sequences of calls** decide whether the two allocators fragment, whether
  lists and counters stay together, and whether the two levels of file tables
  stay paired.
* **Boundaries**: block splitting, rounding, unsigned sums that wrap, tables that
  fill up.
* **Partial failure**: an allocation that fails half-way through building an
  address space, a registration that is not checked, a wait that runs out.

`PROJECT.json` lists each of these hazards at its line, with the properties
that would catch it.

## Modules

Addresses in `Pmm`, `TempMapping` and `Process` are page numbers; in `Kmalloc`
they are bytes. Names of
operators are those of the C functions, locals and macros where TLA+ allows it.
An operator that ends in `_mutant` (also `list_add_uncounted`,
`succ_unwrapped`) is a deliberately wrong version of the one after it, used to
show that a property notices the mistake; no specification uses it.

### Page allocator

* `PageBlocks`: powers of two, alignment, the buddy of a block. `Xor(p, o)` is
  `p ^ (1 << o)` by arithmetic, so that it can be proved about.
* `PageAllocator`: the abstract specification. A set of held blocks; allocation
  takes some aligned block that overlaps none of them, and is refused only if
  there is none.
* `Pmm`: the buddy system. A call holds `buddy_sys.lock` from its first step to
  its last; each round of the split loop (`SplitStep`) and of the merge loop
  (`MergeStep`) is a step, so that the properties speak of the middle of a call
  too. `free_list[o]` is a sequence in the order of the links. `held` is a ghost:
  the blocks the callers own. Callers free only what they hold, with the order
  they allocated: every caller in the kernel does. The arguments that the first
  tests turn away (an order that is too large, an address below the base) are
  part of the model.

### Heap

* `Kmalloc`: `blocks` maps the address of each linked header to the header. A
  call is one step, because nothing that can interrupt it uses the heap.
  `kcalloc`'s product is taken modulo `WORD`. Two ghosts: `want`, what the owner
  asked for (of `kcalloc` the whole product, before it wraps), and `call`, the
  function and its argument. A failed `pmm_alloc_pages` at start-up, which the code does
  not test, is an initial state.

### Keyboard

* `Keyboard`: the ring buffer, the interrupt handler as one step, and
  `keyboard_get_char` as the idle loop runs it, with interrupts on: a step for each
  value that the unoptimised build puts in EDX or EAX (`khead`; `ktail`; the index of
  the load; the character; and for `(ktail + 1) % KBUF_SIZE` of signed integers the sum,
  its correction for negative ones before and after the mask, and the result).
  An interrupt replaces the low byte of what EAX holds (`InterruptReturn`): an index
  (`eax`; the ghost `spoiled` records it) or a character (`al`). A spoiled index may make
  an empty buffer look filled, move `ktail` anywhere, and, where it was negative, make
  the load read in front of the buffer. `pc = "user"` stands for a running user program,
  whose reads are one step. A character is the number of its key press, which makes
  loss, repetition and reordering visible.

### Interrupts

* `Interrupts`: from a device's line to the code that goes on afterwards. The two
  controllers, the keyboard controller and its devices are external, modelled
  from how the kernel programs them: a line asks when it rises, so a request that
  is withdrawn or forgotten does not come back, and one that is withdrawn too late
  reads as line 7 (`late`). `frame` is what the processor and the stub push;
  `Return` is the stub's end, and where the frame is not what `iret` expects the
  program counter is `"wild"`. `keyboard_init` is a sequence of polls and commands,
  each of several steps that interrupts can come between: `inb` puts the status in
  AL (`Poll`), the loop tests it (`Again`, `Load`); `outb` puts the command there
  (`Load`), then sends it (`Send`). `clobbered` is what the stub makes of AL: a command
  becomes 0x20; a status, of which the loop masks one bit out, reads as clear, or as set
  when it is hit after the mask. `gave_up` is the wait that ran out; the ghost `spoiled`
  says that from the flush on, where it matters, a value in AL was replaced.

### File systems

* `VfsTypes`: what `vfs.h` defines, and integers of `WORD` values with the
  conversions between `int` and `uint32_t`.
* `UserBuffer`: the memory a caller passes. `Room` bytes of it are mapped; the
  kernel touches it directly and has no page-fault handler, so a touch beyond
  `Room` never returns (`fault`).
* `Ramfs`, `Devfs`: the two file systems, every operation an action with its
  result as last parameter.
* `FileTable`: the abstract specification. One table, a file, flags and a
  position per descriptor, an error for each reason. A descriptor opened with
  no access bit transfers nothing.
* `Vfs`: composes the two. It models registration (which may fail unnoticed),
  every `vfs_` function, and the tests of the system-call layer. `MCVfs` gives
  values to constants that a configuration cannot write down.

Left out of the file systems: a descriptor's own `pos`, which is written and
never read; the bytes of files; the contents of `struct file_stat`.

The calls are made in the kernel's own address space, as the kernel's self test
makes them. What happens to them in a user program's address space is a question
of `Process` (run `process_kernel`).

### Temporary mappings and processes

* `TempMapping`: the manager as a value, and `temp_map_page` and
  `temp_unmap_page` as functions of it, so that one step of a caller can chain
  several calls. `BootEntries` and `boot_mapped` say what the boot loader mapped;
  `map_page` for a slot without one would wait for the lock its caller holds,
  which leaves `lock` set.
* `Loader`: `loader_init` over what the boot loader passed (names that are cut
  off at `NAME_SIZE`, names made up for modules without one, too many modules),
  `loader_find_module`, and ramfs's registration of the modules as files with its
  lookup by path. Names are sequences of a few letters.
* `Process`: the process table of `process.c` and the address spaces of `vmm.c`.
  It starts with the boot steps that read the modules and register the files.
  The memory self tests may run first, with any sequence of mappings and
  unmappings. Creation is a sequence of steps, one for each page it asks for, and
  the step that gets none undoes what the code undoes there. `entries` is what a page holds
  as a page directory or page table; every write goes to the page that is really
  behind the mapping it was written through. `content` is which page of which
  module a page is a copy of, so a copy that runs over the end of its mapping is
  seen. `mapped` walks a directory the way the processor does. A started program
  keeps the processor (`cr3`) and makes system calls; `fault` records a touch of
  a page that is not there, after which the kernel, which has no page-fault
  handler, makes no progress. The page allocator is the set of its free pages and
  `Pick`, an arbitrary choice out of it. `MCProcess` gives values to the constants.

### Output

* `Framebuffer`: the cells, the cursor and its copy in the display; a character of
  `fb_write` is a step, and so is each of the four bytes that `fb_set_cursor` sends to
  the display's index and data registers.
* `Terminal`: the abstract specification, written in rows and columns: wrapping,
  scrolling, tabs, carriage return, backspace.
* `Serial`: formatting of numbers and directives, and the transmitter, which holds
  one byte before `serial_init` turns its queue on. Of `serial_write_char` the reading
  of the status, the test and the output are steps. What the stub's 0x20 does in between
  is `StatusHit` (0x20 is the bit for an empty transmitter, so a busy one looks empty) and
  `ByteHit` (the byte, or the port it goes to, is another one; the byte is written off).
* `Output`: composes the two. The kernel prints on the port and then on the screen;
  on the idle loop's path a handler prints on the port at any of these steps
  (`interrupt_handler`), and returns with one of the hits or none (`isr_common_stub`).
  `due` is a ghost: the text a writer still owes the line; `spoilt` and `misplaced` say
  that the byte being sent, or one for the display's cursor, was hit. `Vectors` are the
  interrupts that come. `MCOutput` gives values to constants.

Between two characters interrupts are modelled; within one they are not: the loops of
`serial_write`, `serial_vprintf` and `fb_write` keep pointers, characters and positions in
EAX too, and what a hit there does (a wild pointer, in the worst case) is left out. So
`ImplementsTerminal` speaks of `fb_write` as system calls run it, with interrupts off,
and of the idle loop as long as no interrupt comes inside a round. The boot
steps after `boot_interrupts_and_input`, the creation of a process among them, are
likewise modelled without hits on their registers.

## Runs

| Run | Shows | Bounds |
|---|---|---|
| `pmm` | No page is in two blocks or in none, at any step of any call; counters agree with lists; free buddies never stay apart; a refusal is genuine; `pmm_stats` is right; calls end; the allocator implements `PageAllocator`. | largest block of 4 pages, two of them, one page left over. Two largest blocks let a block's neighbour be no buddy; orders 0 to 2 give splits and merges of more than one round. The theorems cover all sizes. |
| `pmm_boot` (violation) | `HeldInsideInterval` fails with the kernel's own constants. | none: `MAX_ORDER` 11 and the interval of `boot_config.h` |
| `kmalloc` | The list tiles the heap: links agree, blocks are disjoint and every byte is in one; neighbours merge; a block holds what was asked for, if a word can say it (a product of `kcalloc` that wraps is excepted); usage is exact; a block in use stays so with its size until its owner gives it up, a failed `krealloc` frees nothing, and nothing in use is handed out as new. | 152 bytes: up to six blocks of the smallest size, so that a block with free neighbours on both sides, on one and on none occurs; three sizes that fit, 0, and one that is too large; `3 * 5000` wraps to 8 |
| `keyboard` | Until an interrupt hits an index in EAX: the buffer is a queue until it overruns, and even then nothing is read twice or out of order. Whatever is hit, the indices do not leave the range of the arithmetic, and the idle loop drains the buffer unless indices are hit for ever. | three slots and seven keys: two full laps; the stub's byte is 1, so that it occurs as an index, as a wrong one and as the right one |
| `keyboard_echo` (violation) | `EchoIsReturned` fails. | two keys |
| `vfs` | Descriptors and private handles are paired; the inner tables never fill first; positions stay inside files; programs see a `FileTable`. | five descriptors of which two can be opened, one file of two bytes, three devices, words of 4 bits so that counts and negative offsets wrap |
| `process` | A mapping stays where its user expects it whatever else is mapped and unmapped, and bitmap, reference counts and page table agree; the lock is never waited for. A creation that fails gives back its pages and slots, except the four pages of the program when there is none for the kernel stack; address spaces are disjoint from each other and from free pages; a program of one page is what its process finds at address 0; a file and a program of the same name are the same module. | lists of modules with, without and with too long names, and one module too many; the kernel's four slots, three test pages, addresses just outside the region too; two processes, a module of one page and one of two, every number of free pages from 0 to 19: three creations' worth and one, so that a creation fails at every point, first and second, and for want of a process slot. The allocator gives its lowest page; which one it gives matters only for the page that `process.c` looks into (`ExpectedPage`), which both occurs and does not |
| `interrupts` | Interrupts between any two steps of `keyboard_init`'s polls and commands: an end-of-interrupt command ends only what is being handled; what a hardware interrupt interrupts goes on; the timer is served whenever it asks; no byte of the keyboard stays in its controller; `keyboard_init` ends with the keyboard on, or leaves the port on when it gives up (except at its second wait). Where the stub's 0x20 (from the flush on, never before) or a byte of the mouse spoils this, the properties say so. | timer, keyboard and mouse; the mouse need never move, so the behaviours without one are among them; the keyboard masked by the firmware, which `isr_install` undoes; exceptions 13 and 14: one with an error code that its stub does not expect, one with a stub that does; two instead of 10000 in the waits, so that each ends at its first poll or gives up after it (`PortComesBack` is proved for every bound) |
| `output` | Under interrupts at every step of the port's and the cursor's outputs: no byte is lost, changed or moved within its writer's text but one that is hit itself; numbers read back (but `INT_MIN` in decimal); the display's cursor is right after every call none of whose four outputs was hit; every call ends; the screen is a `Terminal`. | a screen of 2 by 2, tabs of 3, so that each character may wrap and scroll; strings with a glyph, a tab, a backspace and a carriage return, each followed by a newline and NULs; bytes of one bit for the cursor's halves; numbers of 8 bits, a queue of two bytes (one more than a single writer's test leaves room for); one vector, of two digits; one call that sets colours or writes directly, before the messages |
| `process_stack` (violation) | `UserStackMapped` fails. | as `process` |
| `process_kernel` (violation) | `KernelVisible` fails. | as `process` |
| `process_modules` (violation) | `ModulesReadOnly` fails. | as `process` |

Deadlock is checked except in the file-system runs, where a fault in a user's
buffer stops the machine, and in the process runs, where a fault of the kernel
does. The bounds on counters are `MaxTyped` (key presses of a
behaviour) and `MaxInput` (characters one read of the console finds).

### Fairness

* `Pmm`: weak fairness of the steps of a call that has begun. Nothing preempts
  it, so it keeps running. No call is required to begin.
* `Keyboard`: weak fairness of the idle loop, which is the kernel's own endless
  loop, and of other interrupts: `pic_remap` restores the mask the firmware left,
  in which the timer is on, and the timer keeps firing (`TimerServed` of
  `Interrupts`). A user program is not
  required to read, so `Drains` speaks of the idle loop only.
* `Interrupts`: handlers run to their end (weak fairness of `Cpu`); the code that
  is interrupted again and again still advances (strong fairness of `Main` and of
  `Deliver`), because the timer ticks slowly: again and again there is no tick to
  serve (`[]<>Quiet`). The keyboard controller takes a command it was sent; it may
  take it later than `keyboard_init` waits.
* `Output`: the handler runs to its end; the kernel's code, which is interrupted, is
  strongly fair; the line takes bytes; and interrupts are slow: again and again the
  handler has returned, the transmitter is empty and the kernel holds no stale status
  (`Quiet`). Without that the handler alone could keep the transmitter full. The
  kernel's polling loop is faster than the interrupts, so it does not poll only
  while the transmitter is busy: strong fairness of its steps while `Ready`.

### What disagrees with the code

1. `pmm_boot`. `pmm_init` moves the first block up past the bitmap to a multiple of
   8 MB but links as many blocks as the whole interval holds, so the first
   allocation with the kernel's constants is at `0x02000000`, the end of the
   interval that `boot_config.h:27` says the buddy system manages.
2. `keyboard_echo`. The stub loads AL after `popa` (commented "restore the general
   registers"), so an interrupt between `keyboard_get_char`'s return and the use of
   its result replaces the character by 0x20.
3. `process_stack`. Directory entry `0x3FE` covers `0xFF800000`, not `0xBFF80000` as
   the comment at `vmm.c:81` computes, so the page of `USER_STACK_TOP` is not mapped.
4. `process_kernel`. A user directory has the kernel's entries from 768 on, but the
   allocator's bitmap and lists and the heap are used at their identity-mapped
   addresses in low memory, which it lacks: exit and the calls on files fault.
5. `process_modules`. The source is mapped at slot 0 and the destination at slot 1,
   one page below; a copy of more than a page runs from the destination into the
   source and overwrites the module.

The models also contain these, and the passing properties are stated around them:

* `vfs.c:122`: `O_RDWR` is both bits, so `!(flags & O_RDONLY) && !(flags & O_RDWR)`
  lets a write-only descriptor be read, and the converse; `FileTable` refuses only
  descriptors with neither bit.
* `ramfs.c:78`: the test adds position and count as `uint32_t`. Near 2^32 the sum wraps,
  the count is not shortened, and the `memcpy`, which
  `document/os-development-summary.md:214` calls bounds-checked, copies past the end of
  the file (`to_read` of `Ramfs`). The properties say only what that leaves behind: a
  fault, or a position that is still in the file (`PosInFile`).
* `interrupt_asm.asm:116`: besides the echo of finding 2, the 0x20 in AL may replace the
  low byte of an index of the keyboard's buffer (`keyboard.c:90-92`; `Lossless`,
  `NoReplay`); a byte on its way to the serial port or the port itself (`NothingLost`);
  a byte for the display's cursor, which the next call puts right (`CursorShown` in
  `CallsEnd`); and in `keyboard_init`, from the flush on, a status or a command: the flush
  or the wait for AE ends too early, so that a byte stays or F4 replaces AE, or 0x20
  is sent instead (`BytesTaken`, `InitEnds`). Three things it does not break: a
  transmitter that looks empty loses nothing, because the handler has waited for it;
  hits before the flush do no harm to the port; and the reader of the keyboard's
  buffer catches up wherever `ktail` was put (`Drains`).
* Nothing reads a byte of the mouse that arrives after the flush of `keyboard_init`: it
  keeps the output buffer full and the keyboard's answer from coming (`InitEnds` and
  `BytesTaken` leave that case out). A7, which would turn the mouse's port off, is
  followed by AE without a wait and may be overwritten by it.
* `kmalloc.c:152`: the product of `kcalloc` wraps, and the block is too small (`DataFits`
  leaves that case out).
* `interrupt_asm.asm:117`: the stub ends an interrupt on the master only. A line of
  the slave stays in service there and is served once; the timer and the keyboard
  are not affected (`TimerServed`).
* The stubs expect an error code for vectors 9 and 14. The processor pushes one for
  8, 10 to 14 and 17, so the return from most of those goes astray, and the handler
  of 14 sees the error code as the number of the interrupt.
* `keyboard_init` leaves the keyboard's port off when its second wait runs out
  (`InitEnds` leaves that case out).
* The most negative number is printed wrongly in decimal (`ReadsBack`).
* `fb_puts` writes the terminating NUL as a cell, so the text after a newline starts
  in the second column, and the attribute byte has the foreground in the half where
  the display expects the background; `Terminal` has the NUL among its characters
  and treats attributes as colours.

## Proofs

All theorems hold for every value of the constants that the named assumptions
allow; each assumption stands in the module that declares the constant, and TLC
evaluates it in every run.

**`NumberRecursion`**: induction and recursion, for the other proofs. The library's
induction theorems have an operator as a parameter, which the provers do not
instantiate; here the induction is over a set (`Induction`: if the numbers of `D`
below `b` are in `S`, and each other one is when the smaller ones are, all are) and
follows from the smallest element of the set of counterexamples (`Smallest`).
`Recursion` says that a recursive function exists: at each number there is one
solution up to that number, any two agree where both are defined, and the function
takes each value from its own solution. A recursive definition in a model can then be
unfolded (`TotalDef`, `DigitsDef`, `ReadDef`, `VprintfTwo`) and what it computes proved by
induction. `DisjointIntervals` counts the numbers in intervals that do not meet.

**`Pmm_proofs`** begins with the arithmetic of blocks. Two aligned blocks are disjoint or
one contains the other; the buddy of an aligned block of order `o` is aligned,
disjoint from it, and the two make one aligned block of order `o + 1`. Powers of
two up to 2^11 are enough (`MAX_ORDER <= 11`), which turns each fact into twelve
cases of linear arithmetic. `IInv` is type correctness, the tiling (`NoOverlap` and
`NoPageLost`) and lists without repetition whose lengths are the counters. None
of these is inductive without the others: a split adds a block to a list, and
only the tiling says that the block was not in it already; a merge preserves the
tiling only because the list entry it removes is a block. Two more facts ride on
it: `NoFreeBuddies`, which needs the block in flight to be considered (during a
merge its buddy may be free), and `HeldMarked`: the bits of the pages a caller
holds stay set. `OutOfMemoryIsReal` and the
refinement need one step more: by `NoFreeBuddies` and the tiling, an aligned run
of pages nobody holds lies inside one free block. `StatsCountPages` follows from
`IInv` by two inductions: a list of `n` disjoint blocks of order `o` has `n * 2^o`
pages (along the list), so the loop of `pmm_stats` has after each round the number
of free pages below that order (along the orders); by the tiling the rest of the
arena is held. Theorems: `TypeCorrect`,
`BlocksNeverOverlap`, `PagesNeverLost`, `FreeListsCounted`, `ListsConsistent`,
`OutOfMemoryIsReal`, `StatsCountPages`, `PmmImplementsPageAllocator`.

**`Kmalloc_proofs`**: for every place and size of the heap and every size a caller
asks for. `IInv` is `Good(head, blocks)` and that `current_usage` is the number of bytes in
blocks in use (`BytesOf`). `Good` says
that the headers are well typed and inside the heap, that each block ends where its
`next` begins and `prev` and `next` undo each other (`Linked`), that blocks are
disjoint and cover the heap, that a block in use has room for what was asked
(`Fits`) and that no two neighbours are free (`NoPair`). `Linked` alone is not
inductive: absorbing a neighbour removes a header, and only disjointness says that
no third block pointed at it. `NoPair` needs a weaker form in the middle of a call,
where the block that was just freed may still have one free neighbour. The three
operations on the list (`split`, absorbing the next block, marking) each have a
lemma over arbitrary lists, and the calls are chains of them; that the best-fit
search finds the smallest block needs a well-founded choice (`Smallest`).
That the usage is exact needs the tiling, or a byte could be counted twice, and that a
call brings no block into use but the one it returns (`Keeps`): then one block more
or less is its size more or less (`OneBlockMore`).
Theorems: `HeapStaysTiled`, `FreedMemoryMerges`, `BlocksLargeEnough`,
`UsageCountsBytes`, and the action property `LiveBlocksUntouched`.

**`Keyboard_proofs`**: `KInv` has two layers. Hit or not, `SlotsAged` says what every slot
holds (the character typed as many characters ago as it lies behind `khead`, laps
included), and `Masked` that the arithmetic on an index stays in its range. Until an
index is hit, `Sound` adds what the registers hold at each step (`Expected`); that what
was taken is older than what will be, where a reader past its test takes a character
even if interrupts have lapped it (`Fresh`, `Lap`); and that before an overrun nothing
is missing (`Exact`). That makes "nothing is read twice"
provable also after an overrun, for every buffer size.
Theorems: `KeyboardTypeCorrect`, `KeyboardLossless`, `KeyboardNoReplay`.

**`Interrupts_proofs`**: for every set of lines, exceptions and firmware masks, with
and without a mouse. `EoiMatched` is inductive only with `NoNesting`: handlers run
with interrupts off, so there is at most one frame, and while interrupts are on
there is none. `PortState` follows the keyboard's port through `keyboard_init`, the
command in AL and the one that the controller has not taken yet; unless a value in AL
was replaced from the flush on (`Unspoiled`), F4 is sent only when the controller
has taken AE (`AeTaken`). Theorems:
`InterruptsTypeCorrect`, `EoiNeverMisplaced`, `PortComesBack` (the safety half of
`InitEnds`), and the action property `HardwareInterruptsResume`: only an exception
can send the return astray.

**`Vfs_proofs`**: for every number of descriptors, every set of files with any sizes
up to `Room`, every argument and every word size. `IInv` is `TypeOK`,
`HandlesPaired`, `PosInFile`, and two facts that the refinement needs:
`ClosedBlank`, a closed descriptor keeps nothing of its file (`FileTable` has one
closed entry), and `StandardPlain`, descriptors 0 to 2 never name a file, so that
writing to 1 and 2 is a transfer without a position even after they were closed.
`HandlesPaired` is what makes the private handle of an open descriptor a good one,
so the `EBADF` of `ramfs.c` and `devfs.c` is never returned to a program; it is
also why a position that moves is one descriptor's only (`OneEntry`). That
`ramfs_open` and `devfs_open` never return `EMFILE` while a descriptor is free
is a counting argument (`HandleFree`): a taken handle needs an open descriptor of
its own, and one descriptor is closed. The arithmetic is in `ReadFacts` and
`SeekFacts`: a read that fits the buffer ends in the file, wrapped or not, and a
seek is clamped after it has wrapped. Theorems: `VfsTypeCorrect`,
`HandlesStayPaired`, `PositionsStayInFile`,
and the refinement `VfsImplementsFileTable`, with one lemma per call (`Refine...`).

**`Process_proofs`**: for every number of pages, slots and processes, every choice of
page by the allocator, every list of modules. The assumptions on the constants are
the relations that the code's own numbers have: three mapping slots at least and
all in one page table (there are 4), no more modules than files (16 and 64), a
module's name no longer than a file's (32 and 256); that boot modules share no
page; and that a module is short enough for its copy to stay in mapped memory
(`CopyAssumption`, as below). `IInv` has a part for each piece of state. `JobOK`: which of its five pages a
creation has at each label, no two the same. `SlotsOK`: the slots in use are
those of the self tests, and later the first one while the tables are filled.
`SpacesOK`: the directory of every live process, and of a creation that has filled
its tables, has the shape that `vmm.c` gives it (`Built`), so that the pages it reaches
are five (`ReachBuilt`). `TableOK`: entries are taken in the order of the pids, and
the processor runs in the directory of a live process. `PagesOK`: each page is in
one place. `ContentOK` and `NamesOK`: what one-page modules and their copies hold,
and that names fit. The parts need one another: a table is written through a slot,
so only `SlotsOK` says which page is written, and only `PagesOK` says that this page
is in no other process. That `Isolated` survives `process_exit_current` is for a
reason that the code did not intend: by `SpacesOK` the bitmap of the allocator is
mapped in no process (`NotMapped`), so the kernel faults before it frees anything.
`CopyEffect` says where the copy of an image really writes. Theorems:
`ProcessTypeCorrect`, `MappingsStayInPlace`, `MappingsGivenBack`,
`PagesNeverMissing`, `ProcessesIsolated`, `ProgramsLoaded`, `FilesMatchModules`.

**`Output_proofs`**: for every size of the screen and of the tab, all texts of 7-bit
characters, integers of 4 to 32 bits and every transmitter that holds two bytes or
more (a 16550 holds 16; `FIFO >= 2` is needed, as below). `OutputInv` has four parts.
`PortInv` is the argument that no byte is lost: the handler runs to its end, so when
it has seen the transmitter empty it still is; when the kernel has, or takes it for
empty because the handler's return hit its status, at most one byte, the handler's
last, is there; so the transmitter never holds more than two,
and what a writer owes is what it has in the transmitter followed by what it has not
sent, but for a byte that was hit (`NothingLost`, which only with these bounds says that
nothing overflows).
`DisplayInv` follows the four outputs for the cursor (`Progress`: those that are done
and those to come make the position), so that the cursor is shown when none is left
and none was hit. `KernelInv` types what is left to show, `ScreenInv` the cells. Three results go beyond the invariant.
`OutputReadsBack`: by induction on the number, its digits, produced from the last to
the first, read back as the number (`DigitsRead`, `HexDigitsRead`, `HexRead`, `DecRead`); what a
format makes of them is in `VprintfTwo`. `OutputImplementsTerminal`: a cell's number
is its row and column (`DivisionUnique`, `CellOf`), under which writing a cell,
scrolling and each character are the terminal's (`RowsWrite`, `RowsScroll`, `PutAfter`,
`TabAfter`, `BackAfter`, ...); a tab, one block of blanks in `fb.c` and one blank after
another in `Terminal`, is an induction on the blanks. Theorems: `OutputTypeOK`,
`OutputNothingLost`, `OutputCursorShown` (the safety half of `CallsEnd`), the action property `OutputReadsBack`, and the
refinement `OutputImplementsTerminal`.

Only model-checked: the liveness properties (`CallReturns`, `Drains`,
`TimerServed`, `BytesTaken`, `InitEnds`, `CallsEnd`), which need `ENABLED` and fairness
and are beyond the prover. Every safety property that a passing run checks is proved.

## Plan

In this order:

1. done: `PageBlocks`, `PageAllocator`, `Pmm` and their proofs; `Keyboard` and its
   proofs; `Kmalloc`; `VfsTypes`, `UserBuffer`, `Ramfs`, `Devfs`, `FileTable`, `Vfs`;
   `TempMapping`, `Loader`, `Process`; `Interrupts`; `Framebuffer`, `Terminal`,
   `Serial`, `Output`.
2. done: proofs of every safety property that a passing run checks and of the
   refinements of `PageAllocator`, `FileTable` and `Terminal`.
3. `Syscall`: processes and files composed in one address space, after the whole
   order of `boot.c`.

## Not modelled

`inb` and `outb` are modelled as steps of the code that calls them; `io_wait` touches
nothing. The registers within a round of the printing loops, and of the boot steps
that run with interrupts on, are not modelled (see Output). Boot modules of more than
five pages are not: the copy of one runs past the four pages for which the boot
loader gave entry 769 of the directory a table of its own (`boot_mapped`), and faults.
The TSS, the descriptor tables and
the rest of the boot assembly set machine state once and have no behaviour to
check; the system-call stub saves and restores every register. `serial_log` and
`pic_set_mask` have no caller. Of the string library only what a modelled function
uses is modelled, with it. Spinlocks are never contended on one processor without
preemption. The self tests and demonstration programs are clients: the models let
a client make any call. `PROJECT.json` lists every component with its status.
