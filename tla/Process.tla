------------------------------ MODULE Process ------------------------------
(***************************************************************************)
(* Processes, kernel/process/process.c, with the address spaces that       *)
(* kernel/mm/vmm.c builds for them through temporary mappings, from pages  *)
(* of the page allocator.                                                  *)
(*                                                                         *)
(* The kernel, in its own address space, may first run the memory self     *)
(* tests, then creates processes and at last starts one, which keeps the   *)
(* processor for good.  Creation is a sequence of steps, one for each page *)
(* it asks for: a step that gets none undoes what the code undoes there.   *)
(*                                                                         *)
(* Physical and virtual addresses are page numbers.  The page allocator is *)
(* the set of its free pages; which one it gives is left open.             *)
(***************************************************************************)
EXTENDS TempMapping, Loader

CONSTANTS
    Pages,              \* the pages the allocator may have
    Pick(_),            \* the one pmm_alloc_pages(0) gives out of the free ones
    TestPages,          \* the ones the memory self tests map
    Modules,            \* the boot modules, whatever their names
    ModulePages,        \* [Modules -> the pages of the module, a sequence]
    ModuleLists,        \* the lists of modules that the boot loader may hand over
    Paths,              \* the names that programs and files are looked up by
    ExpectedPage,       \* 0x2101000: the code page that process.c looks into
    MAX_PROCESSES       \* 16

ModuleFrames == UNION {{ModulePages[m][i] : i \in DOMAIN ModulePages[m]} : m \in Modules}

ASSUME ProcessAssumption ==
    /\ MAX_PROCESSES \in Nat \ {0}
    /\ Missing \notin Modules
    /\ Pages \subseteq Nat
    /\ TestPages \subseteq Pages
    /\ Frames = Pages \cup ModuleFrames
    /\ Pages \cap ModuleFrames = {}
    /\ IsFiniteSet(Frames)
    /\ \A m \in Modules : ModulePages[m] \in Seq(Nat) /\ ModulePages[m] # << >>
    /\ \A m, n \in Modules : \A i \in DOMAIN ModulePages[m], j \in DOMAIN ModulePages[n] :
        ModulePages[m][i] = ModulePages[n][j] => m = n /\ i = j
    /\ ModuleLists \subseteq Seq([image : Modules, named : BOOLEAN, string : Seq(STRING)])
(* The kernel's memory goes on behind the mapping through which a module   *)
(* is copied, for four pages: the copy of a longer module faults.          *)
ASSUME CopyAssumption ==
    \A m \in Modules : boot_mapped(TEMP_MAPPING_ADDR + Len(ModulePages[m]) - 1)
ASSUME PickAssumption == \A S \in SUBSET Pages : S # {} => Pick(S) \in S

PcbSlots == 1 .. MAX_PROCESSES
None == 0

UserStackPage == 786431         \* USER_STACK_TOP / PAGE_SIZE
BitmapPage == 4096              \* buddy_sys.bitmap, at 0x01000000
HeapPage == 8192                \* the heap, at 0x02000000

VARIABLES
    free,               \* the allocator's free pages
    entries,            \* a page as a page table: [present entry -> page]
    content,            \* a page as data: the page of a module it is a copy of
    temp_mgr,           \* temp_mapping.c
    processes,          \* the process table
    current_process,    \* its running entry
    next_pid,
    cr3,                \* the page directory in use, None for the kernel's own
    fault,              \* what made the kernel touch a page that is not there
    pc,                 \* "modules", "files" and "tests", then where
                        \* process_create_from_module is
    job,                \* its locals and those of vmm_load_user_program
    given,              \* ghost: the pages free at the start
    lost,               \* ghost: the pages of creations that got no kernel stack
    users               \* ghost: the self tests' mappings, [virtual page -> page]

memory == <<entries, content>>
table == <<processes, current_process, next_pid, cr3>>
vars == <<free, entries, content, temp_mgr, processes, current_process, next_pid,
          cr3, fault, pc, job, given, lost, users, modules, files>>
names == <<modules, files>>

Unused == [state |-> "UNUSED", pid |-> 0, module |-> Missing,
           page_directory |-> None, kernel_stack |-> None]
NoJob == [module |-> Missing, dir |-> None, code |-> None, stack |-> None,
          code_table |-> None, stack_table |-> None, temp_page_dir |-> 0]

NoEntries == [e \in {} |-> None]
Other == <<Missing, 0>>

(* Any number of pages may be left when the first process is created.      *)
Init ==
    /\ given \in {{p \in Pages : p <= n} : n \in Pages \cup {0}}
    /\ free = given
    /\ entries = [f \in Frames |-> NoEntries]
    /\ content = [f \in Frames |->
                    IF f \in Pages THEN Other
                    ELSE CHOOSE c \in Modules \X (1 .. Cardinality(Frames)) :
                            c[2] \in DOMAIN ModulePages[c[1]] /\ ModulePages[c[1]][c[2]] = f]
    /\ temp_mgr = temp_mapping_init
    /\ processes = [i \in PcbSlots |-> Unused]
    /\ current_process = None
    /\ next_pid = 1
    /\ cr3 = None
    /\ fault = "none"
    /\ pc = "modules"
    /\ job = NoJob
    /\ lost = {}
    /\ users = << >>
    /\ modules = << >>
    /\ files = << >>

-----------------------------------------------------------------------------
(* Memory, as the kernel reads and writes it.                              *)

(* The page behind a virtual page near the temporary mappings.             *)
At(t, va) ==
    IF va \in {slot_addr(i) : i \in TempSlots} THEN frame_at(t, va) ELSE BootFrame

put(f, e, p) == [k \in DOMAIN f \cup {e} |-> IF k = e THEN p ELSE f[k]]

(* Does the directory d map virtual page v?                                *)
mapped(d, v) ==
    /\ pde(v) \in DOMAIN entries[d]
    /\ \/ entries[d][pde(v)] = BootFrame /\ boot_mapped(v)
       \/ v % 1024 \in DOMAIN entries[entries[d][pde(v)]]

(* A mapping that failed is virtual page 0.                                *)
touched(vas) == IF 0 \in vas THEN "null" ELSE fault

-----------------------------------------------------------------------------
(* boot_modules_from_mbi, with or without a list, and then boot_vfs_init.  *)

booting == <<free, memory, temp_mgr, table, fault, job, given, lost, users>>

boot_modules_from_mbi ==
    /\ pc = "modules"
    /\ \/ \E list \in ModuleLists : loader_init(list)
       \/ UNCHANGED modules
    /\ pc' = "files"
    /\ UNCHANGED <<booting, files>>

boot_vfs_init ==
    /\ pc = "files"
    /\ ramfs_init
    /\ pc' = "tests"
    /\ UNCHANGED <<booting, modules>>

-----------------------------------------------------------------------------
(* The memory self tests, if the build has them: mappings of several pages *)
(* at once, until there is no slot, and unmappings in any order.  The      *)
(* clean-up after a failure also passes addresses that were never set.     *)

testing == <<free, memory, table, fault, job, given, lost, names>>

TestMap(frame) ==
    LET r == temp_map_page(temp_mgr, frame) IN
    /\ pc = "tests" /\ ~temp_mgr.lock
    /\ temp_mgr' = r.mgr
    /\ users' = IF r.va = 0 THEN users ELSE put(users, r.va, frame)
    /\ UNCHANGED <<testing, pc>>

TestUnmap(va) ==
    /\ pc = "tests" /\ ~temp_mgr.lock
    /\ temp_mgr' = temp_unmap_page(temp_mgr, va)
    /\ users' = [u \in DOMAIN users \ {va} |-> users[u]]
    /\ UNCHANGED <<testing, pc>>

(* The tests unmap what they mapped.                                       *)
TestsDone ==
    /\ pc = "tests"
    /\ users = << >>
    /\ pc' = "idle"
    /\ UNCHANGED <<testing, temp_mgr, users>>

-----------------------------------------------------------------------------
(* process_create_from_module                                              *)

Kernel == cr3 = None /\ fault = "none"

alloc_mutant == UNCHANGED free
alloc == free' = free \ {Pick(free)}

GiveUp_mutant(pages) ==
    /\ free' = free \cup {job.dir}
    /\ pc' = "idle"
    /\ job' = NoJob

(* The creation fails: the pages go back.                                  *)
GiveUp(pages) ==
    /\ free' = free \cup pages
    /\ pc' = "idle"
    /\ job' = NoJob

free_slots_mutant == PcbSlots
free_slots == {i \in PcbSlots : processes[i].state = "UNUSED"}

(* No module of that name, no slot, or no page for the directory.          *)
CreateRefused(name) ==
    /\ Kernel
    /\ pc = "idle"
    /\ loader_find_module(name) = Missing \/ free_slots = {} \/ free = {}
    /\ UNCHANGED vars

(* vmm_create_user_space: an empty directory with the kernel's entries.    *)
vmm_create_user_space(name) ==
    /\ Kernel
    /\ pc = "idle"
    /\ loader_find_module(name) # Missing /\ free_slots # {} /\ free # {}
    /\ alloc
    /\ LET d == Pick(free)
           r == temp_map_page(temp_mgr, d)
       IN  /\ entries' = [entries EXCEPT ![At(r.mgr, r.va)] =
                                [e \in KernelEntries |-> BootFrame]]
           /\ temp_mgr' = temp_unmap_page(r.mgr, r.va)
           /\ fault' = touched({r.va})
           /\ job' = [NoJob EXCEPT !.module = loader_find_module(name), !.dir = d]
    /\ pc' = "code"
    /\ UNCHANGED <<content, table, given, lost, users, names>>

(* vmm_load_user_program, up to its last page.                             *)
AllocCode ==
    /\ pc = "code"
    /\ UNCHANGED <<memory, temp_mgr, table, fault, given, lost, users, names>>
    /\ \/ free = {} /\ GiveUp({job.dir})
       \/ /\ free # {}
          /\ alloc
          /\ job' = [job EXCEPT !.code = Pick(free)]
          /\ pc' = "stack"

AllocStack ==
    /\ pc = "stack"
    /\ UNCHANGED <<memory, table, given, lost, users, names>>
    /\ \/ free = {} /\ GiveUp({job.code, job.dir}) /\ UNCHANGED <<temp_mgr, fault>>
       \/ /\ free # {}
          /\ alloc
          /\ LET r == temp_map_page(temp_mgr, job.dir) IN
                /\ temp_mgr' = r.mgr
                /\ fault' = touched({r.va})
                /\ job' = [job EXCEPT !.stack = Pick(free), !.temp_page_dir = r.va]
          /\ pc' = "code_table"

AllocCodeTable ==
    /\ pc = "code_table"
    /\ UNCHANGED <<memory, table, fault, given, lost, users, names>>
    /\ \/ /\ free = {}
          /\ temp_mgr' = temp_unmap_page(temp_mgr, job.temp_page_dir)
          /\ GiveUp({job.code, job.stack, job.dir})
       \/ /\ free # {}
          /\ alloc
          /\ job' = [job EXCEPT !.code_table = Pick(free)]
          /\ pc' = "stack_table"
          /\ UNCHANGED temp_mgr

AllocStackTable_mutant ==
    /\ pc = "stack_table"
    /\ UNCHANGED <<memory, temp_mgr, table, fault, given, lost, users, names>>
    /\ \/ free = {} /\ GiveUp({job.code, job.stack, job.code_table, job.dir})
       \/ /\ free # {}
          /\ alloc
          /\ job' = [job EXCEPT !.stack_table = Pick(free)]
          /\ pc' = "fill"

AllocStackTable ==
    /\ pc = "stack_table"
    /\ UNCHANGED <<memory, table, fault, given, lost, users, names>>
    /\ \/ /\ free = {}
          /\ temp_mgr' = temp_unmap_page(temp_mgr, job.temp_page_dir)
          /\ GiveUp({job.code, job.stack, job.code_table, job.dir})
       \/ /\ free # {}
          /\ alloc
          /\ job' = [job EXCEPT !.stack_table = Pick(free)]
          /\ pc' = "fill"
          /\ UNCHANGED temp_mgr

(* The entries of the directory and of the two tables.                     *)
FillTables ==
    /\ pc = "fill"
    /\ LET r1 == temp_map_page(temp_mgr, job.code_table)
           r2 == temp_map_page(temp_unmap_page(r1.mgr, r1.va), job.stack_table)
       IN  /\ entries' = [entries EXCEPT
                ![At(temp_mgr, job.temp_page_dir)] =
                    put(put(@, 0, job.code_table), 1022, job.stack_table),
                ![At(r1.mgr, r1.va)] = put(NoEntries, 0, job.code),
                ![At(r2.mgr, r2.va)] = put(NoEntries, 1023, job.stack)]
           /\ temp_mgr' = temp_unmap_page(temp_unmap_page(r2.mgr, r2.va), job.temp_page_dir)
           /\ fault' = touched({r1.va, r2.va})
    /\ pc' = "copy"
    /\ UNCHANGED <<free, content, table, job, given, lost, users, names>>

copied_mutant(t, n, src, dst) ==
    [f \in Frames |-> IF f = At(t, src) THEN content[At(t, dst)] ELSE content[f]]

(* memcpy of n pages from virtual page src to virtual page dst, the page   *)
(* below it.                                                               *)
copied(t, n, src, dst) ==
    [f \in Frames |->
        IF \E i \in 0 .. n - 1 : At(t, dst + i) = f
        THEN LET from == At(t, src + CHOOSE i \in 0 .. n - 1 : At(t, dst + i) = f)
             IN  IF from \in Frames THEN content[from] ELSE Other
        ELSE content[f]]

(* The whole module is copied, however long, through one mapping each.     *)
CopyImage ==
    /\ pc = "copy"
    /\ LET image == ModulePages[job.module]
           src   == temp_map_page(temp_mgr, image[1])
           dst   == temp_map_page(src.mgr, job.code)
       IN  /\ content' = copied(dst.mgr, Len(image), src.va, dst.va)
           /\ temp_mgr' = temp_unmap_page(temp_unmap_page(dst.mgr, src.va), dst.va)
           /\ fault' = touched({src.va, dst.va})
    /\ pc' = "kernel_stack"
    /\ UNCHANGED <<free, entries, table, job, given, lost, users, names>>

(* Without a kernel stack only the directory goes back.                    *)
NoKernelStack ==
    /\ pc = "kernel_stack"
    /\ free = {}
    /\ lost' = lost \cup {job.code, job.stack, job.code_table, job.stack_table}
    /\ GiveUp({job.dir})
    /\ UNCHANGED <<memory, temp_mgr, table, fault, given, users, names>>

(* The entry is filled in; then the tables are read back, through up to    *)
(* three mappings at once.                                                 *)
Created ==
    /\ pc = "kernel_stack"
    /\ free # {}
    /\ alloc
    /\ processes' = [processes EXCEPT ![Min(free_slots)] =
            [state |-> "READY", pid |-> next_pid, module |-> job.module,
             page_directory |-> job.dir, kernel_stack |-> Pick(free)]]
    /\ next_pid' = next_pid + 1
    /\ LET r1   == temp_map_page(temp_mgr, job.dir)
           r2   == temp_map_page(r1.mgr, entries[job.dir][0])
           page == entries[entries[job.dir][0]][0]
           r3   == IF page = ExpectedPage THEN temp_map_page(r2.mgr, page) ELSE r2
       IN  /\ temp_mgr' = temp_unmap_page(
                    temp_unmap_page(
                        IF page = ExpectedPage THEN temp_unmap_page(r3.mgr, r3.va) ELSE r3.mgr,
                        r2.va),
                    r1.va)
           /\ fault' = touched({r1.va, r2.va, r3.va})
    /\ pc' = "idle"
    /\ job' = NoJob
    /\ UNCHANGED <<memory, current_process, cr3, given, lost, users, names>>

-----------------------------------------------------------------------------
(* process_start, and the user program's system calls                      *)

process_start(pid) ==
    /\ Kernel
    /\ pc = "idle"
    /\ \/ /\ \A i \in PcbSlots : ~(processes[i].pid = pid /\ processes[i].state = "READY")
          /\ UNCHANGED table
       \/ \E i \in PcbSlots :
            /\ processes[i].pid = pid /\ processes[i].state = "READY"
            /\ current_process' = i
            /\ processes' = [processes EXCEPT ![i].state = "RUNNING"]
            /\ cr3' = processes[i].page_directory
            /\ UNCHANGED next_pid
    /\ UNCHANGED <<free, memory, temp_mgr, fault, pc, job, given, lost, users, names>>

User == cr3 # None /\ fault = "none"

(* process_exit_current gives back the directory and the kernel stack, and *)
(* the allocator writes its bitmap and its lists where they are in the     *)
(* kernel's own address space.                                             *)
process_exit_current ==
    /\ User
    /\ UNCHANGED <<memory, temp_mgr, next_pid, cr3, pc, job, given, lost, users, names>>
    /\ IF current_process = None THEN UNCHANGED <<free, processes, current_process, fault>>
       ELSE IF ~mapped(cr3, BitmapPage)
       THEN fault' = "unmapped" /\ UNCHANGED <<free, processes, current_process>>
       ELSE LET p == processes[current_process] IN
            /\ free' = free \cup {p.page_directory, p.kernel_stack}
            /\ processes' = [processes EXCEPT ![current_process].state = "TERMINATED"]
            /\ current_process' = None
            /\ UNCHANGED fault

(* A call on a file: its struct filesystem is on the heap.                 *)
FileCall ==
    /\ User
    /\ fault' = IF mapped(cr3, HeapPage) THEN fault ELSE "unmapped"
    /\ UNCHANGED <<free, memory, temp_mgr, table, pc, job, given, lost, users, names>>

(* The others (puts, putchar, getc, getpid) touch the user's pages and the *)
(* kernel's image, and change nothing here.                                *)
OtherCall == User /\ UNCHANGED vars

Create ==
    \/ \E name \in Paths : CreateRefused(name) \/ vmm_create_user_space(name)
    \/ fault = "none" /\ (\/ AllocCode \/ AllocStack \/ AllocCodeTable \/ AllocStackTable
                          \/ FillTables \/ CopyImage \/ NoKernelStack \/ Created)

Next ==
    \/ boot_modules_from_mbi
    \/ boot_vfs_init
    \/ \E frame \in TestPages : TestMap(frame)
    \/ \E va \in TEMP_MAPPING_ADDR - TEMP_MAPPING_COUNT .. TEMP_MAPPING_ADDR + 1 : TestUnmap(va)
    \/ TestsDone
    \/ Create
    \/ \E pid \in 0 .. MAX_PROCESSES : process_start(pid)
    \/ process_exit_current
    \/ FileCall
    \/ OtherCall

Spec == Init /\ [][Next]_vars

-----------------------------------------------------------------------------

TypeOK ==
    /\ free \subseteq Pages
    /\ \A f \in Frames :
        /\ DOMAIN entries[f] \subseteq 0 .. 1023
        /\ \A e \in DOMAIN entries[f] : entries[f][e] \in Pages \cup {BootFrame}
    /\ TempTypeOK(temp_mgr)
    /\ processes \in [PcbSlots -> [state : {"UNUSED", "READY", "RUNNING", "TERMINATED"},
                                   pid : 0 .. MAX_PROCESSES, module : Modules \cup {Missing},
                                   page_directory : Pages \cup {None},
                                   kernel_stack : Pages \cup {None}]]
    /\ current_process \in PcbSlots \cup {None}
    /\ next_pid \in 1 .. MAX_PROCESSES + 1
    /\ cr3 \in Pages \cup {None}
    /\ fault \in {"none", "null", "unmapped"}

Live == {i \in PcbSlots : processes[i].state \in {"READY", "RUNNING"}}

(* The pages a process can reach through its directory, and what it runs on.*)
Targets(f) == {f[e] : e \in DOMAIN f} \ {BootFrame}
Reach(d) ==
    {d} \cup Targets(entries[d]) \cup UNION {Targets(entries[t]) : t \in Targets(entries[d])}
Owned(i) == Reach(processes[i].page_directory) \cup {processes[i].kernel_stack}

InFlight ==
    {job.dir, job.code, job.stack, job.code_table, job.stack_table} \ {None}

(* Wherever a creation runs out of pages, what it had goes back: every     *)
(* page is free, in the creation that is under way, or in the address      *)
(* space of a process, except the four that process_create_from_module     *)
(* forgets when there is none for the kernel stack.                        *)
PagesAccounted == given = free \cup lost \cup InFlight \cup UNION {Owned(i) : i \in Live}

(* No process can reach a page of another one, a page that is free, or one *)
(* that a creation is about to use, through the tables as they were        *)
(* really filled.                                                          *)
Isolated ==
    /\ \A i \in Live : Owned(i) \cap (free \cup lost \cup InFlight) = {}
    /\ \A i, j \in Live : i # j => Owned(i) \cap Owned(j) = {}
    /\ free \cap (lost \cup InFlight) = {}

(* The mappings in use between two steps: those of the tests, and the one  *)
(* of the new directory, which loading keeps while it asks for its tables. *)
InUse ==
    IF pc \in {"code_table", "stack_table", "fill"}
    THEN put(users, job.temp_page_dir, job.dir) ELSE users

(* The bitmap of free slots, the reference counts, the page table and the  *)
(* users agree: a page that is mapped stays mapped, where its user expects *)
(* it, until that user unmaps it, whatever else is mapped and unmapped.    *)
SlotsAgree ==
    /\ DOMAIN InUse = {slot_addr(i) : i \in TempSlots \ temp_mgr.available_slots}
    /\ \A i \in TempSlots : temp_mgr.ref_count[i] = 0 <=> i \in temp_mgr.available_slots
    /\ \A va \in DOMAIN InUse : frame_at(temp_mgr, va) = InUse[va]

(* No chain of mappings in creation needs more slots than there are, so    *)
(* that none writes through a mapping that failed, and every path out of a *)
(* creation gives back all of them.  temp_map_page never calls itself      *)
(* through map_page, so the lock is free after every call.                 *)
SlotsReturned ==
    /\ fault # "null"
    /\ pc = "idle" => temp_mgr.available_slots = TempSlots
    /\ ~temp_mgr.lock

(* A program of one page is what its process finds at virtual page 0,      *)
(* whatever else was loaded before and after it.                           *)
ImageLoaded ==
    \A i \in Live : Len(ModulePages[processes[i].module]) = 1 =>
        LET d == processes[i].page_directory IN
        /\ mapped(d, 0)
        /\ content[entries[entries[d][0]][0]] = <<processes[i].module, 1>>

(* A file and a program of the same name are the same boot module, as      *)
(* boot_user_demo takes for granted when it looks at the one and starts    *)
(* the other: neither truncated names, nor two modules of a name, nor a    *)
(* list that is too long make a difference.  Leading slashes are the       *)
(* exception: only files are looked up without them.                       *)
FilesAreModules ==
    pc \notin {"modules", "files"} =>
        \A path \in Paths : ramfs_find_file(path) = loader_find_module(filename(path))

(* What vmm.c says of the stack: it is mapped at the page of               *)
(* USER_STACK_TOP.                                                         *)
UserStackMapped == \A i \in Live : mapped(processes[i].page_directory, UserStackPage)

(* What the documentation says of the kernel's entries in a directory:     *)
(* user processes always see the kernel.                                   *)
KernelVisible == fault # "unmapped"

(* What the documentation says of boot modules: read-only files in memory. *)
ModulesReadOnly ==
    \A m \in Modules : \A i \in DOMAIN ModulePages[m] : content[ModulePages[m][i]] = <<m, i>>

=============================================================================
