------------------------------- MODULE Loader -------------------------------
(***************************************************************************)
(* The boot modules: kernel/process/loader.c copies the boot loader's list *)
(* into its table, and ramfs_init in kernel/fs/ramfs.c registers the table *)
(* as files.  Processes are created from the one, files opened from the    *)
(* other.  A name is a sequence of characters.                             *)
(***************************************************************************)
EXTENDS Integers, Sequences, FiniteSetsExt

CONSTANTS
    MAX_MODULES,        \* 16
    NAME_SIZE,          \* 32, of module_info_t's name
    MAX_RAMFS_FILES,    \* 64
    MAX_PATH,           \* 256, of a file's name
    Placeholders,       \* the four names for modules without one, in order
    Missing             \* no module

ASSUME LoaderAssumption ==
    /\ {MAX_MODULES, NAME_SIZE, MAX_RAMFS_FILES, MAX_PATH} \subseteq Nat \ {0}
    /\ MAX_MODULES <= MAX_RAMFS_FILES
    /\ NAME_SIZE <= MAX_PATH
    /\ Placeholders \in Seq(Seq(STRING)) /\ Len(Placeholders) = 4
    /\ \A i \in 1 .. 4 : Len(Placeholders[i]) < MAX_PATH

VARIABLES
    modules,            \* the loader's table, of [name, image]
    files               \* ramfs's

strncpy(src, num) == SubSeq(src, 1, Min({Len(src), num}))

(* The name that the boot loader gave, or one for the position.            *)
module_name(mod, i) ==
    IF mod.named THEN strncpy(mod.string, NAME_SIZE - 1) ELSE Placeholders[Min({i, 4})]

loader_init(grub_modules) ==
    modules' = [i \in 1 .. Min({Len(grub_modules), MAX_MODULES}) |->
                    [name |-> module_name(grub_modules[i], i), image |-> grub_modules[i].image]]

(* The first entry with a name.                                            *)
first_named(table, name) ==
    LET found == {i \in DOMAIN table : table[i].name = name}
    IN  IF found = {} THEN Missing ELSE table[Min(found)].image

loader_find_module(name) == first_named(modules, name)
loader_get_module_count == Len(modules)

ramfs_init_mutant ==
    files' = [i \in 1 .. Min({loader_get_module_count, MAX_RAMFS_FILES}) - 1 |->
                    [modules[i + 1] EXCEPT !.name = strncpy(@, MAX_PATH - 1)]]
ramfs_init ==
    files' = [i \in 1 .. Min({loader_get_module_count, MAX_RAMFS_FILES}) |->
                    [modules[i] EXCEPT !.name = strncpy(@, MAX_PATH - 1)]]

(* A path without its leading slashes.                                     *)
Slashes(path) == Max({k \in 0 .. Len(path) : \A i \in 1 .. k : path[i] = "/"})
filename(path) == SubSeq(path, Slashes(path) + 1, Len(path))
ramfs_find_file(path) == first_named(files, filename(path))

=============================================================================
