------------------------------ MODULE Process ------------------------------
(***************************************************************************)
(* Processes and their address spaces: the PCB table of src/src/process.c, *)
(* the page-directory pool and the page-frame allocator of paging.c, the  *)
(* scheduler state of scheduler.c, the timer IRQ of interrupt.c, and the  *)
(* boot sequence of kernel_setup that creates the shell.  After the boot  *)
(* the shell is the only code that runs (the switch in the timer handler  *)
(* is commented out); it reaches this state through syscalls 14 (kill)    *)
(* and 15 (exec), and the timer IRQ fires between any two syscalls.  Both *)
(* the syscall gate and the IRQ gates are interrupt gates, so each       *)
(* handler is one atomic step.                                             *)
(*                                                                         *)
(* Abstractions: a page directory keeps only the entries the code writes  *)
(* (0 and 0x300 onwards), an entry its present and user bits and its     *)
(* frame; a saved context is the pid whose execution the registers hold; *)
(* a PCB's name and virtual_addr_used list are left out (only ps reads    *)
(* the name, nothing reads the list).                                      *)
(***************************************************************************)
EXTENDS Integers, FiniteSets, FiniteSetsExt, Functions

CONSTANTS
  PROCESS_COUNT_MAX,                 \* PCB slots
  PAGING_DIRECTORY_TABLE_MAX_COUNT,  \* page directories in the pool
  PAGE_FRAME_MAX_COUNT,              \* frames of the allocator's bitmap
  PROCESS_PAGE_FRAME_COUNT_MAX,      \* frames one process may map
  KillPids,                          \* pids the shell's kill may pass
  Null                               \* the NULL page-directory pointer

ASSUME PROCESS_COUNT_MAX >= 1 /\ PAGING_DIRECTORY_TABLE_MAX_COUNT >= 1
ASSUME PAGE_FRAME_MAX_COUNT >= 1 /\ PROCESS_PAGE_FRAME_COUNT_MAX >= 1

(* Addresses and sizes are in KiB: every one the code uses is a multiple  *)
(* of 1 KiB, and 0xC0000000 bytes does not fit TLC's 32-bit integers.    *)
PAGE_FRAME_SIZE             == 4096      \* 0x400000 bytes, one 4 MiB page
KERNEL_VIRTUAL_ADDRESS_BASE == 3145728   \* 0xC0000000 bytes
CLUSTER_SIZE                == 2         \* 2048 bytes

Slots == 0 .. PROCESS_COUNT_MAX - 1
Dirs  == 0 .. PAGING_DIRECTORY_TABLE_MAX_COUNT - 1
Frames == 0 .. PAGE_FRAME_MAX_COUNT - 1

(* &_paging_kernel_page_directory, the directory outside the pool.       *)
KernelPageDirectory == -1

(* (addr >> 22) & 0x3FF: the directory index of a virtual address and    *)
(* the frame number of a physical one.                                     *)
PageIndex(addr) == (addr \div PAGE_FRAME_SIZE) % 1024

(* The entries the code writes: 0 and 0x300 .. 0x300 + max - 1.            *)
Pdes == {0} \cup {PageIndex(KERNEL_VIRTUAL_ADDRESS_BASE) + i : i \in 0 .. PROCESS_PAGE_FRAME_COUNT_MAX - 1}

Entry == [present : BOOLEAN, user : BOOLEAN, frame : 0 .. 1023]
Absent == [present |-> FALSE, user |-> FALSE, frame |-> 0]
EmptyDir == [i \in Pdes |-> Absent]

UserFlag   == [present |-> TRUE, user |-> TRUE]

(* The exec request of the shell (buffer_size = CLUSTER_SIZE, buf is the   *)
(* shell's own buffer in its image at 0) and the one kernel_setup builds.  *)
ShellRequest == [buf |-> 4, buffer_size |-> CLUSTER_SIZE]
BootRequest  == [buf |-> 0, buffer_size |-> 1024]

PCB == [pid : Nat, state : {"unset", "READY", "TERMINATED"},
        pd : Dirs \cup {Null}, ctx : Nat, frames : Nat]
NoProcess == [pid |-> 0, state |-> "unset", pd |-> Null, ctx |-> 0, frames |-> 0]

VARIABLES
  pcb,          \* _process_list
  count,        \* process_manager_state.active_process_count
  pidCounter,   \* the static pid_counter of process_generate_new_pid
  dirUsed,      \* page_directory_manager.page_directory_used
  dirs,         \* page_directory_list
  kernelDir,    \* _paging_kernel_page_directory
  frameMap,     \* page_manager_state.page_frame_map
  freeFrames,   \* page_manager_state.free_page_frame_count
  cr3,          \* the loaded page directory
  cur,          \* current_running_process_index
  running,      \* whose code the CPU executes (0: the kernel's)
  ret           \* retcode of the last process_create_user_process

vars == <<pcb, count, pidCounter, dirUsed, dirs, kernelDir, frameMap,
          freeFrames, cr3, cur, running, ret>>

Live == {s \in Slots : pcb[s].pid # 0}

ceil_div(a, b) == (a + b - 1) \div b

(* update_page_directory_entry *)
update_page_directory_entry(dir, phys, virt, flag) ==
  [dir EXCEPT ![PageIndex(virt)] = [present |-> flag.present, user |-> flag.user,
                                     frame |-> PageIndex(phys)]]

(* Mutant of paging_allocate_user_page_frame: marks after the decrement.  *)
paging_allocate_late(dir, virt) ==
  [ok |-> TRUE, dir |-> update_page_directory_entry(dir, freeFrames \div 1024, virt, UserFlag),
   map |-> [frameMap EXCEPT ![PAGE_FRAME_MAX_COUNT - (freeFrames - 1)] = TRUE],
   free |-> freeFrames - 1]

(* The frame "found" is free_page_frame_count itself, used as a physical  *)
(* address in bytes (freeFrames \div 1024 in KiB); the bitmap slot marked  *)
(* is MAX - free_page_frame_count.                                         *)
paging_allocate_user_page_frame(dir, virt) ==
  IF ~(freeFrames <= freeFrames)
  THEN [ok |-> FALSE, dir |-> dir, map |-> frameMap, free |-> freeFrames]
  ELSE [ok |-> TRUE, dir |-> update_page_directory_entry(dir, freeFrames \div 1024, virt, UserFlag),
        map |-> [frameMap EXCEPT ![PAGE_FRAME_MAX_COUNT - freeFrames] = TRUE],
        free |-> freeFrames - 1]

(* The first unused directory, marked used, with entries 0 and 0x300 of  *)
(* the kernel template; its other entries are left as they are.           *)
paging_create_new_page_directory(tmpl) ==
  LET d == Min({x \in Dirs : ~dirUsed[x]})
      k == PageIndex(KERNEL_VIRTUAL_ADDRESS_BASE)
  IN  [d |-> d, dir |-> [dirs[d] EXCEPT ![0] = tmpl[0], ![k] = tmpl[k]]]

(* The first slot whose pid is 0.  Below PROCESS_COUNT_MAX creations one  *)
(* always exists (count is never decremented), so -1 is never returned.  *)
process_list_get_inactive_index == Min({s \in Slots : pcb[s].pid = 0})

(* The page_frame_count_needed of a request: its size plus a user stack.   *)
FramesNeeded(req) == ceil_div(req.buffer_size + PAGE_FRAME_SIZE, PAGE_FRAME_SIZE)

(* Mutant of CreateOutcome: the capacity check lets one more through.    *)
CreateOutcome_offbyone(req, free, readRet) ==
  CASE count > PROCESS_COUNT_MAX                  -> "MAX_PROCESS_EXCEEDED"
    [] \A d \in Dirs : dirUsed[d]                 -> "NOT_ENOUGH_MEMORY"
    [] OTHER                                      -> "SUCCESS"

(* process_create_user_process's checks in the code's order; the read of  *)
(* the executable comes after the directory is taken.                     *)
CreateOutcome(req, free, readRet) ==
  CASE count >= PROCESS_COUNT_MAX                 -> "MAX_PROCESS_EXCEEDED"
    [] req.buf >= KERNEL_VIRTUAL_ADDRESS_BASE     -> "INVALID_ENTRYPOINT"
    [] ~(FramesNeeded(req) <= free)
       \/ FramesNeeded(req) > PROCESS_PAGE_FRAME_COUNT_MAX -> "NOT_ENOUGH_MEMORY"
    [] \A d \in Dirs : dirUsed[d]                 -> "NOT_ENOUGH_MEMORY"
    [] readRet # 0                                -> "FS_READ_FAILURE"
    [] OTHER                                      -> "SUCCESS"

(* goto exit_cleanup: nothing but the return code changes.                *)
Fail(code) == [ret |-> code, pcb |-> pcb, dirUsed |-> dirUsed, dirs |-> dirs,
               count |-> count, pidCounter |-> pidCounter]

(* Steps 1 to 4: the new directory maps virtual 0xC0000000 + i*4MiB to    *)
(* frame i with user flags for i < needed, and the free slot gets a READY *)
(* PCB holding it, the initial context and the next pid.                  *)
CreateDone(req, tmpl) ==
  LET s    == process_list_get_inactive_index
      new  == paging_create_new_page_directory(tmpl)
      n    == FramesNeeded(req)
      base == PageIndex(KERNEL_VIRTUAL_ADDRESS_BASE)
      user == [i \in Pdes |-> IF i - base \in 0 .. n - 1
                              THEN [present |-> TRUE, user |-> TRUE, frame |-> i - base]
                              ELSE new.dir[i]]
  IN  [ret |-> "SUCCESS",
       pcb |-> [pcb EXCEPT ![s] = [pid |-> pidCounter, state |-> "READY", pd |-> new.d,
                                   ctx |-> pidCounter, frames |-> n]],
       dirUsed |-> [dirUsed EXCEPT ![new.d] = TRUE],
       dirs |-> [dirs EXCEPT ![new.d] = user],
       count |-> count + 1, pidCounter |-> pidCounter + 1]

process_create_user_process(req, tmpl, free, readRet) ==
  LET c   == CreateOutcome(req, free, readRet)
      new == paging_create_new_page_directory(tmpl)
  IN  CASE c = "SUCCESS"         -> CreateDone(req, tmpl)
        [] c = "FS_READ_FAILURE" -> [Fail(c) EXCEPT !.dirUsed = [dirUsed EXCEPT ![new.d] = TRUE],
                                                    !.dirs = [dirs EXCEPT ![new.d] = new.dir]]
        [] OTHER                 -> Fail(c)

(* Mutant of process_destroy: the page directory is not released.        *)
process_destroy_keepdir(pid) ==
  LET s == Min({x \in Slots : pcb[x].pid = pid})
  IN  IF ~\E x \in Slots : pcb[x].pid = pid THEN UNCHANGED <<pcb, dirUsed, dirs>>
      ELSE /\ pcb' = [pcb EXCEPT ![s].pid = 0, ![s].state = "TERMINATED"]
           /\ UNCHANGED <<dirUsed, dirs>>

(* paging_free_page_directory: a pointer into the pool is released and   *)
(* every entry cleared; any other pointer (NULL) is refused.              *)
paging_free_page_directory(pd) ==
  IF pd \in Dirs
  THEN /\ dirUsed' = [dirUsed EXCEPT ![pd] = FALSE]
       /\ dirs' = [dirs EXCEPT ![pd] = EmptyDir]
  ELSE UNCHANGED <<dirUsed, dirs>>

(* The first PCB with this pid (a free slot for pid 0) loses its pid; its *)
(* context, directory pointer included, is left as it was.                *)
process_destroy(pid) ==
  LET s == Min({x \in Slots : pcb[x].pid = pid})
  IN  IF ~\E x \in Slots : pcb[x].pid = pid THEN UNCHANGED <<pcb, dirUsed, dirs>>
      ELSE /\ paging_free_page_directory(pcb[s].pd)
           /\ pcb' = [pcb EXCEPT ![s].pid = 0, ![s].state = "TERMINATED"]

(***************************************************************************)
(* The system.                                                             *)
(***************************************************************************)
Init ==
  /\ pcb = [s \in Slots |-> NoProcess]
  /\ count = 0
  /\ pidCounter = 1
  /\ dirUsed = [d \in Dirs |-> FALSE]
  /\ dirs = [d \in Dirs |-> EmptyDir]
  /\ kernelDir = [i \in Pdes |-> IF i \in {0, PageIndex(KERNEL_VIRTUAL_ADDRESS_BASE)}
                                 THEN [present |-> TRUE, user |-> FALSE, frame |-> 0] ELSE Absent]
  /\ frameMap = [f \in Frames |-> f = 0]
  /\ freeFrames = PAGE_FRAME_MAX_COUNT
  /\ cr3 = KernelPageDirectory
  /\ cur = -1
  /\ running = 0
  /\ ret = "none"

Booted == cur # -1

(* The slot of the newest PCB, active_process_count - 1, or NULL.        *)
process_get_current_running_pcb_pointer == IF count > 0 THEN count - 1 ELSE Null

(* The saved registers (whose they are) go to that PCB, if any.           *)
scheduler_save_context_to_current_running_pcb(owner) ==
  LET s == process_get_current_running_pcb_pointer
  IN  IF s # Null THEN [pcb EXCEPT ![s].ctx = owner] ELSE pcb

(* Round robin over the first active_process_count slots.                *)
get_next_process_index(c, n) == (c + 1) % n

Apply(r) ==
  /\ pcb' = r.pcb /\ dirUsed' = r.dirUsed /\ dirs' = r.dirs
  /\ count' = r.count /\ pidCounter' = r.pidCounter /\ ret' = r.ret

(* Mutant of Boot: the shell is created before the frame allocation.     *)
Boot_createfirst ==
  /\ ~Booted
  /\ LET a == paging_allocate_user_page_frame(kernelDir, 0)
         r == process_create_user_process(BootRequest, kernelDir, a.free, 0)
     IN  /\ kernelDir' = a.dir /\ frameMap' = a.map /\ freeFrames' = a.free
         /\ Apply(r) /\ count' = 1 /\ cur' = 0
         /\ cr3' = r.pcb[0].pd /\ running' = r.pcb[0].pid

(* kernel_setup from the frame allocation on: the kernel template's entry *)
(* 0 gets user flags, the shell (always on the image) is created with the *)
(* template as it is then, scheduler_init sets the count to 1 and the     *)
(* switch loads PCB (cur + 1) % count, slot 0, and jumps into it.          *)
Boot ==
  /\ ~Booted
  /\ LET a == paging_allocate_user_page_frame(kernelDir, 0)
         r == process_create_user_process(BootRequest, a.dir, a.free, 0)
     IN  /\ kernelDir' = a.dir /\ frameMap' = a.map /\ freeFrames' = a.free
         /\ pcb' = r.pcb /\ dirUsed' = r.dirUsed /\ dirs' = r.dirs
         /\ pidCounter' = r.pidCounter /\ ret' = r.ret
         /\ count' = 1
         /\ cur' = get_next_process_index(cur, 1)
         /\ cr3' = r.pcb[cur'].pd
         /\ running' = r.pcb[cur'].pid

(* Syscall 15: the shell calls it only after its own read of the file    *)
(* returned 0, and the kernel's read of the same request then does too.  *)
Exec ==
  /\ Booted
  /\ Apply(process_create_user_process(ShellRequest, kernelDir, freeFrames, 0))
  /\ UNCHANGED <<kernelDir, frameMap, freeFrames, cr3, cur, running>>

(* Syscall 14 with the pid the shell parsed.                              *)
Kill(pid) ==
  /\ Booted
  /\ process_destroy(pid)
  /\ UNCHANGED <<count, pidCounter, kernelDir, frameMap, freeFrames, cr3, cur, running, ret>>

(* Timer IRQ: the interrupted registers go to the PCB that               *)
(* process_get_current_running_pcb_pointer names, the newest one; the     *)
(* saved directory pointer is that PCB's own.                             *)
Timer ==
  /\ Booted
  /\ pcb' = scheduler_save_context_to_current_running_pcb(running)
  /\ UNCHANGED <<count, pidCounter, dirUsed, dirs, kernelDir, frameMap, freeFrames,
                 cr3, cur, running, ret>>

Next == Boot \/ Exec \/ (\E p \in KillPids : Kill(p)) \/ Timer

Spec == Init /\ [][Next]_vars

(***************************************************************************)
(* Properties.                                                             *)
(***************************************************************************)
TypeOK ==
  /\ pcb \in [Slots -> PCB]
  /\ count \in 0 .. PROCESS_COUNT_MAX
  /\ pidCounter \in 1 .. PROCESS_COUNT_MAX + 1
  /\ dirUsed \in [Dirs -> BOOLEAN]
  /\ dirs \in [Dirs -> [Pdes -> Entry]]
  /\ kernelDir \in [Pdes -> Entry]
  /\ frameMap \in [Frames -> BOOLEAN]
  /\ freeFrames \in 0 .. PAGE_FRAME_MAX_COUNT
  /\ cr3 \in Dirs \cup {Null, KernelPageDirectory}
  /\ cur \in {-1} \cup Slots
  /\ running \in 0 .. PROCESS_COUNT_MAX
  /\ ret \in {"none", "SUCCESS", "MAX_PROCESS_EXCEEDED", "INVALID_ENTRYPOINT",
              "NOT_ENOUGH_MEMORY", "FS_READ_FAILURE"}

(* The page-directory pool is exactly the directories of live PCBs, one  *)
(* per PCB: exec takes one and kill gives it back (spec 8, "create then   *)
(* free returns the pool"), also when kill 0 picks a free slot whose      *)
(* stale directory pointer process_destroy still follows.                 *)
DirPoolMatchesPCBs ==
  /\ {d \in Dirs : dirUsed[d]} = {pcb[s].pd : s \in Live}
  /\ \A s, t \in Live : s # t => pcb[s].pd # pcb[t].pd

(* Every live process's directory maps its code at virtual 0 for user    *)
(* mode and the kernel at 0x300, so it can run and trap (spec 3): the     *)
(* template copied at creation got its user entry 0 earlier in boot.     *)
LiveSpacesReachKernel ==
  \A s \in Live :
    /\ pcb[s].pd \in Dirs
    /\ dirs[pcb[s].pd][0].present /\ dirs[pcb[s].pd][0].user
    /\ dirs[pcb[s].pd][PageIndex(KERNEL_VIRTUAL_ADDRESS_BASE)].present

(* After boot the free frame count equals the number of unmarked frames  *)
(* of the bitmap (spec 3).  The static initializer marks frame 0 and      *)
(* still counts it free; the boot's allocation marks frame 0 again and    *)
(* decrements, so the two slips cancel.                                   *)
FreeCountMatchesMap ==
  Booted => freeFrames = Cardinality({f \in Frames : ~frameMap[f]})
=============================================================================
