# TLA+ models of the ususbuntu kernel

This directory holds TLA+ models of the kernel in `src/src/`, the TLC
configurations that check them, and `PROJECT.json`. `PROJECT.json` lists:

- the components and their status;
- each run and what it shows;
- the mutants that show each passing property can fail;
- the map from every TLA+ definition to the C lines it models;
- the findings;
- the hazards.

## The system

The kernel is a single-CPU x86 kernel. After `kernel_setup` (`kernel.c`), all
kernel code runs inside interrupt handlers (`interrupt.c`). There are three kinds:

- **Syscall gate 0x30.** The user shell (`user-shell.c`) traps in to call the FAT32
  driver (`fat32.c`) and the other services. Cases 0-3 are `read`, `read_directory`,
  `write` and `delete`. Case 4 polls the keyboard. Case 14 is kill
  (`process_destroy`) and case 15 is exec (`process_create_user_process`).
  The other cases print or search.
- **Keyboard IRQ.** `keyboard_isr` fills a one-character buffer, and syscall 4 reads
  it and clears it.
- **Timer IRQ.** The handler saves the interrupted context into a PCB. The switch
  to the next process (`scheduler.c`) is commented out, so only the shell ever runs.

Processes get page directories from a fixed pool (`paging.c`). The FAT32 driver
keeps the cluster map cached in `driver_state`. Every mutating call writes the map
back to cluster 1.

The syscall gate runs each driver call to completion with no other kernel path in
between: the keyboard ISR touches no file-system state and the timer does not
switch processes. So a model may treat each call as one atomic step. The one
exception is a power loss, which can cut a call between two of its disk writes.

## Modules

| Module | Models | State | Actions |
|---|---|---|---|
| `FAT32` | `fat32.c` read, read_directory, write, delete, initialize_filesystem_fat32, move_to_child_directory, move_to_parent_directory; the syscall cases 0-3, 8 and 9; the boot in `kernel_setup` | `disk` (what each cluster holds), `fat` (the cached map, equal to cluster 1), `ret`, `out`, plus the ghosts `wild`, `edge` and `up` | `Read`, `ReadDirectory`, `Write`, `Delete`, `MoveToChild`, `MoveToParent`, `Boot`, `PowerOff`, and the power losses `WriteCrash`, `DeleteCrash`, `BootCrash` |
| `FileTree` | the abstract file system the driver promises (spec.md, sections 4 and 7): a tree of live folders and named entries, no clusters | `dirs`, `entries` | `Create(x)`, `Remove(x)` |
| `MC_FAT32` | the model-checking harness: `OffEdgeSpec` (no edge path but a power loss inside delete or the format), `CrashSpec` (power losses only), `NoTornSpec` (no power loss inside a call), `BootEdgeOnly`, and the view `FatView` | | |
| `Shell` | `user-shell.c`: `cd`, `cd ..`, `mkdir`, `touch`, `cat`, `rm`, `echo`, `cp` and the globals they share, over `FAT32` by `INSTANCE` | the `FAT32` variables, `cwd` (`cwd_cluster_number`), `current_dir` (as a sequence of names), `request` (name, ext, parent, buffer_size), `pc` and `echo_data` for the two syscalls of `echo` | `CdChild(n)`, `CdParent`, `Mkdir(n)`, `Touch(n, e, g)`, `Cat(n, e)`, `Rm(n, e)`, `EchoRead(n, e, g)`, `EchoWrite`, `Cp(n, e, dst)`, `Boot`, `PowerOff` |
| `MC_Shell` | the harness of `Shell`: its `OffEdgeSpec`, and `CopySpec` (mkdir, touch, cd and cp only) | | |
| `Process` | `process.c` create and destroy, `paging.c` directory pool and frame allocator, `scheduler.c` init and context save, the timer IRQ, syscalls 14 and 15, the boot in `kernel_setup` | `pcb` (the PCB table), `count` (`active_process_count`), `pidCounter`, `dirUsed`/`dirs` (the directory pool), `kernelDir`, `frameMap`/`freeFrames`, `cr3`, `cur`, `running`, `ret` | `Boot`, `Exec`, `Kill(pid)`, `Timer` |
| `Clock` | `clock.c` `read_rtc` with its helpers, reached from syscall 17 and `kernel_setup` | the RTC (`rtc`, the flag `uip`, `updates`, `regB`) and the reader (`pc`, `k`, `first`, `cur` for the globals `second`..`year`, `last` for `last_*`, `out`, and the ghost `seen`) | `RtcBeginUpdate`, `RtcUpdate`, `Call`, `SpinDone`, `ReadRegister`, `PassEnd` |
| `Keyboard` | `keyboard.c` `keyboard_isr`, `get_keyboard_buffer` (syscall 4), `keyboard_state_activate` (syscall 7); the input loop of the shell's `main` | the driver state (`keyboard_buffer`, `buffer_index`, `keyboard_input_on`, `shift_on`, `capslock_on`, `ctrl_on`), the shell's `temp_buf` and where it is (`shell`), `presses` | `KeyboardIsr(s)`, `ShellPoll`, `ShellActivate` |
| `Search` | `fat32.c` `knuth_morris_pratt` and `boyer_moore` and the `.txt` branch of the depth-limited searches; the empty-pattern guard of the shell's `search1`/`search2` | `pattern`, `text`, the answers `bm` and `kmp` | `SearchBm` (syscall 12), `SearchKmp` (syscall 19) |

### How `FAT32` corresponds to the code

- **Data abstractions.**
  - A cluster's content is one of:
    - the signature;
    - the map block;
    - zeroes;
    - a directory table of `DirSize` entries;
    - the k-th chunk of one payload, `Chunk(d, k)`.
  - Names, extensions and payloads are model values.
  - `ClusterSize` is the cluster size in the units of `buffer_size`.
  - The cluster map values are the real constants, for example END_OF_FILE = 0x0FFFFFFF.
- **`read`, `ReadDirectory`, `write` and `delete`** are the C functions, one CASE
  arm per early return, in the code's order. Name matching covers every slot,
  including the self entry in slot 0, as the C loops do.
  - `write` follows the code's allocation exactly:
    - It counts EMPTY clusters from 2.
    - A folder takes the first EMPTY cluster from 2, or cluster 0 when there is none.
    - A file links the first `ceil_div(size)` EMPTY clusters counted from 0.
    - The entry records the folder cluster.
    - The entry goes to the first unoccupied slot from 1, or slot 0 when there is none.
    - Last, it writes the parent table and the map.
  - `delete` clears `used`, the name and the extension, keeps the rest of the
    entry, and frees the chain with the code's do-while loop (`FreeChain`).
- **`move_to_child_directory`** returns the cluster of the first entry from
  slot 1 that is named n and has extension `dir`, or 0. It checks neither the
  attribute nor `user_attribute`. **`move_to_parent_directory`** returns the
  cluster in the self entry. The return value goes to `ret`.
- **`Boot`** is `initialize_filesystem_fat32` as `kernel_setup` runs it: it
  formats when the boot sector lacks the signature and otherwise reloads the map.
  `PowerOff` ends a session between two calls. `Init` is power-on with a blank
  disk and a zeroed `driver_state`.
- **Power loss inside a call.** Between calls the cached map equals cluster 1,
  so `fat` stands for both; a call cut short leaves `fat` as it was, which is
  the map the next boot reloads. `write_upto` and `delete_upto` are `write` and
  `delete` stopped after one of their disk writes (`write` and `delete` are
  them run to the end):
  - `WriteCrash(..., last)`: after the data clusters (`"data"`; the new
    folder's table, or the file's chunks, in clusters the map still calls
    EMPTY) or after the parent table (`"table"`), before the map;
  - `DeleteCrash`: after the parent table, before the map;
  - `BootCrash(last)`: `create_fat32` cut after the signature or after the
    map, before the root table.

  A power loss part-way through the data clusters leaves fewer of them
  written, which nothing can tell from `"data"`: they are EMPTY clusters, and
  write overwrites a cluster before any entry points at it.
- **`wild` (ghost)** records that a chain walk left the map or never reached
  END_OF_FILE. In C that is an out-of-bounds access, which is undefined behaviour.
- **`edge` (ghost)** records which of the edge paths a call has taken:
  - `full_folder`: a write into a full folder;
  - `boot_cluster`: a folder write with no EMPTY cluster from 2;
  - `self_entry`: a delete that matched slot 0;
  - `stale_parent`: a write or delete that succeeded in a parent folder no longer
    reachable from the root;
  - `torn_write`, `torn_delete`, `torn_format`: a power loss after the parent
    table (write, delete) or before the root table (format).

  The properties of the passing run are stated "as long as no edge path was
  taken", and its refinement property is checked across `torn_delete` and
  `torn_format` too. One violation run per other edge path (`stale_parent`
  excepted, see below) shows what that path breaks.

### How `Process` corresponds to the code

- **Units.** Addresses are in KiB so that `KERNEL_VIRTUAL_ADDRESS_BASE`
  (0xC0000000) fits TLC's 32-bit integers; a page is 4 KiB and the index of a
  page-directory entry is `(addr \div 4096) % 1024`. Only the entries a process
  uses are kept: 0 (the user image) and 0x300 (the kernel mapping).
- **Helpers return records.** `paging_allocate_user_page_frame`,
  `paging_create_new_page_directory` and `process_create_user_process` return a
  record of the state they produce, so `Boot` composes them in the order
  `kernel_setup` calls them: allocate the frame for the kernel directory, create
  the shell from the boot request, `scheduler_init`, then switch to it.
- **`process_create_user_process`** is one CASE arm per early return, in the
  code's order (`CreateOutcome`): count at the maximum, entrypoint below the
  kernel base, too many frames, no free directory, then the read. The read of
  the executable is a parameter (`readRet`): exec reads a file the shell has
  just read itself, and boot reads the shell from the image, so both pass 0.
- **`process_destroy`** finds the first slot with the pid, returns when there is
  none, frees the slot's directory and marks the slot TERMINATED with pid 0. It
  does not decrement `active_process_count`, and neither does the model.
- **`Timer`** saves the interrupted context into
  `process_get_current_running_pcb_pointer()`, the PCB at `count - 1`. The
  context is abstracted to the pid of the process whose registers they are.
  The switch to the next process is commented out in the code, so `running`
  and `cr3` only change at boot.


### The refinement of `FileTree`

`FileTree` states what spec.md promises of the driver, with no clusters: a
set `dirs` of live folders and a set `entries` of (parent, name, ext, kind,
object) records. A step creates one entry under a name not taken in a live
folder (a folder gets a fresh identity), or removes one entry, a folder only
when it is empty. `FAT32` instantiates it with

- `dirs <- LiveDirs`, the folders reachable from the root;
- `entries <- {TreeEntry(x) : x \in LiveEntries}`, each used slot of a live
  folder's table mapped to its parent cluster, name, extension, and either
  the folder's cluster or the file's payload (`PayloadOf`, the data whose
  chunks its chain holds) and size;
- folder identities `Ids <- Clusters`.

`FileTreeRefined == Tree!Spec` is a property of `fat32_tree`: every driver
call, boot and power-off off the edge paths is a `FileTree` step or a
stuttering one. A `delete` that frees the chain but then refuses (the order
of its checks reversed) is the kind of bug it catches.

### How `Shell` corresponds to the code

`Shell` composes the shell with the driver: `FS == INSTANCE FAT32`, with the
driver's constants and variables substituted by the ones of the same name.
Each command is one step, because the syscall gate runs a driver call to
completion and the shell is the only process; `echo`, which makes two
mutating calls, is two steps (`EchoRead` deletes, `EchoWrite` writes), so a
power-off can fall between them.

- **`request`** is the global `struct FAT32DriverRequest` with its name, ext,
  parent and buffer size; each command assigns exactly the fields the C code
  copies, so the rest is what the previous command left. This is what the
  `shell_rm_wrong_entry` finding turns on.
- **Names.** A command's argument is one of `TypedNames`. `touch` and `echo`
  copy 8 bytes of the name, past its terminator, so the bytes after a short
  name are whatever the stack held (undefined behaviour); the model chooses
  between the typed name and `Garble(n)`, a name no later command can type.
  `rm` copies only `strlen` bytes over the previous name: `RmName` keeps the
  typed name when the old one was typed (the terminator survives from an
  equal or longer name, which the model's one-letter names are), `Garble(n)`
  when the old was a garbled `n`, and otherwise the `Mangled` mix.
- **Extensions.** `"dir"`, `"txt"` and the empty extension `"none"` (the
  three zero bytes); an argument with no dot is `""`.
- **`cd`**: `CdChild(n)` is the non-`..` branch (`read_directory`, then
  `move_to_child_directory` and the append to `current_dir` on success),
  `CdParent` the `..` branch. `current_dir` is kept as the sequence of names
  appended, not as the 255-byte text. Both are the pure operator
  `cd(s, a, dk)` applied to the record `Sh` of the shell's globals (`cwd`,
  `current_dir`, `request`, `retcode`) and read against the disk `dk`
  through `FSD(dk) == INSTANCE FAT32 WITH disk <- dk`, so that `cp` can run
  the same `cd` several times in one command.
- **`cp n.e DEST`**: `Cp(n, e, dst)` reads `n.e` in the cwd with a cluster
  of buffer (`reader_with_clust`); on success a destination `t.x` is written
  in the cwd, and a path of one or two names (`FileDests`, `PathDests`) is
  walked by `CdWalk`, a fold of `CdStep` (one turn of the loop: a `cd` that
  returns 2 is uncounted and ends it), then the copy is written in the
  folder reached and `CdUp` makes `cd_count` calls of `cd ..`, read against
  the disk after the write (`FS!write_result`). A destination with a dot and
  a slash does nothing, and is not enumerated.
- **`main`**'s dispatch is `Next`: one command per line; `Boot` restarts the
  shell from its initialisers after `kernel_setup`.

The shell's commands reach none of the driver's edge paths except through a
full folder or a full map, so `shell` checks `OffEdgeSpec` (module
`MC_Shell`). Its `VIEW ShellView` leaves out `ret`, `out`, `request.parent`
and `request.buffer_size`: every command writes each of them before it reads
it, so two states that differ only there have the same futures.

All runs use the same bounds unless noted:

- 5 clusters: 0 boot, 1 map, 2 root, and 3 and 4 free;
- 3 slots per directory;
- cluster size 2;
- names `{root, a}` and extensions `{"dir", "none"}`;
- two payloads;
- write sizes `{0, 1, 3}`, which give a folder, a one-cluster file and a two-cluster file;
- read buffer sizes `{2, 4}`.

These bounds reach every interesting case:

- nested folders (`a` inside `a` inside root);
- a file next to a folder;
- a folder that is full;
- a map that is full;
- deleting and reusing a cluster;
- a two-cluster chain whose order matters;
- a power cycle.

At 6 clusters the state space passes 100 000 states without finishing in 6
minutes.

| Run | Expect | Checks | Shows |
|---|---|---|---|
| `fat32_tree` | pass (5 185 distinct views) | `TypeOK`, `FatMatchesTree`, `ParentLinksIntact`, `ContentIntact`, `CdRoundTrip`, `FileTreeRefined` | `FAT32` implements `FileTree` under the refinement mapping (see below), even when the power fails inside a delete (the entry is gone, its chain leaks) or inside the first format (the root is missing, every call fails, the tree stays empty). Off the edge paths the map agrees with the tree, parent links hold, reads return what was written, `cd` into any live folder (even next to a file of the same name) and back lands where it started. It covers every action and every CASE arm, both boot branches included. |
| `fat32_full_folder` | violation | `ParentLinksAlways` | With 6 clusters, the third entry in the root goes into slot 0, so root's `..` now points at the new folder. |
| `fat32_boot_cluster` | violation | `BootKeepsFiles` | `mkdir` on a full map writes a table over the boot sector. The next boot formats the disk and all files are lost. |
| `fat32_read_overflow` | violation | `ReadFitsBuffer` | Read buffers of sizes `{1, 3}`: read copies whole clusters and overruns a buffer of exactly the file's size, which is what the search commands allocate. |
| `fat32_torn_write` | violation | `FileTreeRefined` | `mkdir` loses power after the root table is written and before the map. The next boot reloads a map in which the folder's cluster 3 is EMPTY, and the next `mkdir` takes cluster 3 again: two folders share one cluster, which no `FileTree` step allows. |
| `search` | pass (56 784 states) | `BmCorrect`, `KmpCorrect` | Every non-empty pattern of length at most 3 and text of length at most 5 over `{a, b, c}` (the third letter exercises bad_char = -1): both matchers give the reference answer. |

`Process` runs with 4 PCB slots, 3 page directories, 8 page frames, 2 frames
per process, and kill pids 0 to 5. One more slot than directories lets exec
fail both on the directory pool and on the count; pid 0 is what a destroyed
slot holds, and pids 4 and 5 are never created.

| Run | Expect | Checks | Shows |
|---|---|---|---|
| `process` | pass (1 453 states) | `TypeOK`, `DirPoolMatchesPCBs`, `LiveSpacesReachKernel`, `FreeCountMatchesMap` | The directory pool is exactly the directories of live PCBs, no two share one (even after `kill 0`, which frees the stale directory of a free slot: that directory is always already free); every live directory maps the image and the kernel; the frame count matches the bitmap. |

Two defects of `Process` are plain enough that a short test shows them, so
no run is spent on them (they are hazards in `PROJECT.json`):

- `process_destroy` never decrements `active_process_count`
  (`process.c:134`), so after `PROCESS_COUNT_MAX` execs every exec fails
  with MAX_PROCESS_EXCEEDED even when every other process was killed.
- `kill 1` frees the shell's own page directory while it is in cr3
  (`paging.c:159`).

`Clock` starts the RTC at 59 minutes 59 seconds, so every update carries into
the hour. The start hours are 16 and 23, so one update crosses into the range
where GMT+7 rolls the day, or rolls the RTC's own day. The start days are 28 to
31 of January, February, April and December, in 2024 (a leap year) and 2100
(no leap year; it is year 00 under the `CURRENT_YEAR` pivot). Register B is 2
or 6, the 24-hour modes, BCD and binary; QEMU's RTC uses BCD 24-hour. Two
updates per behaviour are enough for a torn pass, a third pass, and a torn
pass that the loop must reject (for example, 59:59 of one hour read with the
next hour). An RTC updates once a second and a pass takes microseconds, so more
updates during one call would not be realistic.

| Run | Expect | Checks | Shows |
|---|---|---|---|
| `clock` | pass (91 732 states) | `TypeOK`, `ConsistentSnapshot`, `LocalTimeCorrect`, `ReadRtcReturns` | What `read_rtc` returns was read from one single time the RTC held, even when updates tear a pass. Its conversion is that time's GMT+7 local time across month, leap-year, century and year ends. Every call returns. |

`Clock` also models the 12-hour branch of `read_rtc`, which has a known
defect no run is spent on: 12 AM (hour register 12, PM clear) stays 12 and
12 PM becomes 0, so for the hour after UTC midnight `read_rtc` returns
19:xx instead of 07:xx (`clock.c:103`). The BIOS leaves the RTC in 24-hour
mode, which the `clock` run checks, so the branch is reached only on
hardware configured otherwise.

| Run | Expect | Checks | Shows |
|---|---|---|---|
| `keyboard_lost_key` | violation | `LineKeepsEveryKey` | Two keys before the shell's next poll: the driver counts and echoes both, and the line the shell builds holds only the second. |

Four key events are enough for the lost key (two presses) and for Ctrl+C
(Ctrl, then 'c'). Ctrl+C turns input off for good, because only the shell's
`activate_keyboard` after a newline turns it back on. The code's comment calls
this killing the terminal, so it is a hazard in `PROJECT.json` and not a
finding. A key pressed before the shell's first `activate_keyboard` is the
opposite case: `keyboard_state_activate` resets `buffer_index` but not
`keyboard_buffer` (its `memset` is commented out), so the line holds a
character the driver no longer counts and whose backspace it refuses.
`LineKeepsEveryKey` allows a line longer than the count for that reason;
the case is a hazard in `PROJECT.json`.

`Shell` runs with 5 clusters, 3 slots per folder, typed names `{a, b}`, the
file extension `txt`, write sizes `{0, 2}` (a folder, a one-cluster file) and
read size 2. Two names and a folder nested in a folder are enough for a
`cd` two deep, a `cd ..` back, a folder and a file of the same name, and an
`rm` after every other command. A full folder and a full map are edge
paths of the driver, which the violation runs of `FAT32` cover.

| Run | Expect | Checks | Shows |
|---|---|---|---|
| `shell` | pass (12 301 distinct views) | `TypeOK`, `CwdMatchesPath` | After any sequence of the modelled commands and power cycles off the edge paths, `cwd` is a live folder and `current_dir` is the path of names from the root to it: `rm` only reaches entries of the working folder, so no folder on the path is deleted, and `cd ..` pops exactly what `cd` pushed. |
| `shell_cp_wrong_folder` | violation | `CpWritesAtDest` | `CopySpec` with 6 clusters, so that a folder, a file and a copy fit: `mkdir a`, `touch b.dir` (a file), then `cp b.dir b/a`. The `cd b` returns 1, since `b.dir` is no folder, so the shell stays in the root but the loop counts it and goes on; `cd a` enters `/a`, and the copy is written there, although `/b/a` does not exist and cp reports "the path is invalid" for a missing name. |
| `shell_rm_wrong_entry` | violation | `RmRemovesOnlyNamed` | `mkdir a` then `rm a.txt`: rm looks up `a` with `request.ext` still `"dir"` from mkdir, finds the folder, and deletes it. |

`shell_cp_wrong_folder` leaves out `rm`, `cat`, `echo` and power losses:
with them, 6 clusters pass 400 000 states without finishing, and `shell`
checks those commands. It types `.txt` and `.dir` files, since the defect
needs a file with extension `dir` (`user-shell.c:396`): the loop stops and
uncounts only a `cd` that returns 2, and a file `m.dir` makes
`read_directory` return 1. The same miscount makes the trailing `cd ..`
calls leave the shell one folder above where cp started when cp starts
below the root (`mkdir a`, `cd a`, `touch a.dir`, `cp` to `a`). Each
payload is `Blank`, so `cp` is not checked for copying content;
`ContentIntact` checks that for the driver.

`echo NAME.EXT > text` is modelled, but its defect is not a run: `read` fills
`request.buf`, which also holds the new text, so echo writes back the old
content. One call of the command shows that.

In `Search` every C loop is a RECURSIVE operator whose parameters are the
loop's variables. Strings are indexed from 0 through `At(s, i)`. The reference
`IsSubstring` quantifies over offsets. Patterns of length 3 are enough for
overlapping borders such as `aab` in `aaab` (KMP's fallback) and for a
mismatch on a character absent from the pattern (BM's shift of `j + 1`).

`fat32_tree` checks `OffEdgeSpec`, whose next-state relation is `Next /\
edge' \subseteq {"torn_delete", "torn_format"}`: the behaviours in which no
call takes an edge path other than those two power losses; `shell` checks
its own `OffEdgeSpec`, `Next /\ edge' = {}`. A state constraint is not
enough for the refinement and the action properties, because TLC checks
those on the step into a pruned state. The violation runs about the other
edge paths use `NoTornSpec` (every edge path but a power loss inside a
call) and `fat32_torn_write` uses `CrashSpec` (power losses only), so each
counterexample shows one cause.

`fat32_tree` and `fat32_torn_write` use `VIEW FatView`, which leaves out
`ret` and `out`: no action reads them, every call writes them, so states
that differ only there have the same successors.

Deadlock is checked. There is no liveness property and no fairness assumption:
no driver call waits on anything, so nothing in the FAT32 driver must
eventually happen. In `Process` the scheduler never switches, so no process
but the shell is ever promised a turn.

`Clock` has the project's one liveness property, `ReadRtcReturns`. It is
checked under two weak fairness conditions:

- **`WF_vars(ReadRtc)`.** Once called, `read_rtc` keeps running, because the
  interrupt handlers it can be preempted by always return.
- **`WF_vars(RtcUpdate)`.** The RTC always completes an update it has flagged.

Calls and the start of updates carry no fairness, because nothing forces them.

## Not modelled yet (the plan)

1. **`Search`, rest.** The depth-limited traversal (`depth_limited_search_*`),
   which would be checked for "lists exactly the .txt files within the depth
   limit whose content matches". Its text buffer comes from `read`, so
   `ReadFitsBuffer` already covers its overflow. The empty pattern, where KMP
   says false and BM says true, cannot be reached because the shell never sends
   one.
2. **`Shell`, rest.** `ls`, `find`, `ps` and `exec`, which print or call into
   `Process` and the search routines.

`mv` is not modelled, because the code does not determine what it does:
`move_dir` (`fat32.c:183`) looks its source entry up in `src_dir_table`,
a stack table that nothing reads from the disk, and `mv` passes it requests
whose fields it fills only in part. The outcome is whatever the stack held.

Runs dropped along the way:

- **A separate run for writing into a deleted folder's cluster** (`fat32.c:430`).
  The shell is the caller that keeps a parent cluster across calls, and
  `CwdMatchesPath` shows it never holds a deleted one off the edge paths; the
  self-entry delete is the way in.
- **A run for the self-entry delete** (`fat32.c:557`). One `delete` of the
  root's own name (`root`, empty ext) in the root frees cluster 2 while the
  root stays live: delete's lookup starts at slot 0. A single call shows it,
  so it is a hazard, like the two `Process` defects.
- **A separate run for the timer saving into the newest PCB** (`interrupt.c:174`).
  Nothing restores a saved context while the switch is commented out.

All three remain hazards in `PROJECT.json`.

`cmos.c` defines a second `read_rtc(uint8_t*, uint8_t*, uint8_t*)` that
nothing calls, and that would clash with `clock.c`'s at link time. It is not
modelled. The shell's `clock` command (`user-shell.c:1258`) prints `hour + 7`,
so it adds the GMT+7 offset a second time to the already shifted hour. This is
display code, and no run checks it.

In `Process`, `paging_free_user_page_frame` is never called, so the frame
allocator only runs at boot; the memory a process's image is copied into is not
modelled (every process maps the same frame, a hazard in `PROJECT.json`).

Out of scope:

- GDT, IDT and TSS setup, the PIC, and the framebuffer: static tables and output.
- The shell's string handling beyond names and extensions: formatting.
- The external inserter: a host tool that uses the same driver code.
