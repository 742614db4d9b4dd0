# Specifications of kaguyaos

kaguyaos is a 64-bit kernel in Rust: it is started by UEFI, brings up all
processors, drives an NVMe disk, a USB keyboard and an e1000 network card, and
runs user tasks from a FAT volume. This directory holds TLA+ modules that model
its concurrent and stateful parts, TLC configurations that check them on small
instances, and TLAPS proofs that hold for every size. Paths below are relative
to the repository.

## The system

| Part | Files | State | Operations | Who it meets |
|---|---|---|---|---|
| Scheduler | `src/scheduler.rs` | task table, per-CPU current index and stacks | add, switch, terminate, status queries, AP loop | every CPU, system calls, exceptions |
| Spin locks | `src/interrupts.rs`, `src/allocator.rs` | a flag, the guard's saved IF | lock, try_lock, force_unlock, drop | kernel code, IRQ and exception handlers |
| File system | `src/fs.rs` | boot sector, FAT, root directory, clusters | format, create, read, delete, list | system calls, boot, NVMe |
| Heap | `src/allocator.rs` | segregated buckets, list of large blocks; kernel and user heap | alloc, free, realloc | everything |
| Frames, paging | `src/memory.rs` | position in the UEFI map, page tables | allocate_frame, map_page | boot, KEF loader |
| NVMe | `src/nvme.rs` | admin and I/O queue pair, phase | submit, wait, read, write, shutdown | file system, device |
| AP start-up | `src/processor.rs`, `src/gdt.rs` | trampoline page, per-CPU data, online flags | start_ap, ap_entry | BSP and one AP at a time |
| xHCI, keyboard | `src/xhci.rs` | command, transfer and event rings, slots, key queue | init, poll, control transfer, key get | device, system calls |
| Network | `src/network/` | rx and tx rings, ARP and ICMP replies | transmit, poll_rx, handlers | device, system calls |
| System calls | `src/syscall.rs` | per-CPU user and kernel RSP | 0 to 20 | user tasks |
| Interrupts, PIC | `src/interrupts.rs`, `src/pic.rs` | IDT, masks | irq_handler, exception_handler | hardware |
| ACPI, PCI | `src/acpi.rs`, `src/pci.rs` | tables in memory | parse, map, scan | boot |
| KEF loader, boot | `src/kef.rs`, `src/main.rs`, `src/uefi.rs` | sequential | load, hand-over | all of the above |
| Console | `src/writer.rs`, `src/term.rs` | cursor, cells | print, write cells | locks |
| User library, host tool | `user/src`, `tools/kef-tool` | none; the volume image | system call stubs; image writer | kernel; file system layout |

What is hard in it: the scheduler drops its lock in the middle of a switch;
tasks migrate between CPUs and take their stacks along; interrupts are off in
some contexts that later sleep; an exception handler breaks a lock open; the
file system updates FAT and directory in several writes and the power may go
in between; device answers may come late or for somebody else; boot uses
memory before it is mapped or reserved; rings are read by two sides that agree
only through a phase bit, a cycle bit or a tail register.

## Modules

| Module | Models |
|---|---|
| `Scheduler` | `scheduler.rs` with its callers in `main.rs`, `syscall.rs`, `interrupts.rs` |
| `SchedulerProofs` | theorems about `Scheduler` |
| `SpinLock` | `InterruptSpinlock` and the three kinds of code that take it |
| `SpinLockProofs` | theorems about `SpinLock` |
| `FatFs` | `fs.rs`, one step per disk write, and the mount at boot |
| `FileStore` | what `fs.rs` promises: a map from names to contents |
| `Heap` | `allocator.rs`: the heap type behind the kernel's and the user's heap |
| `Frames`, `FramesProofs` | `memory.rs`'s frame allocator, and theorems |
| `Boot` | what `kernel_main` does with memory: paging, ACPI tables, device registers, heaps, trampoline, KEF file; extends `Frames` |
| `ApStart`, `ApStartProofs` | MADT parsing and the start of the application processors, and theorems |
| `Pci` | `pci.rs`: bus scan and base addresses |
| `Nvme`, `NvmeProofs` | `nvme.rs` against a controller, and theorems |
| `Network`, `NetworkProofs` | `network/`: rings of the e1000 card, ARP and ping, and theorems |
| `Checksum` | `helper.rs`'s Internet checksum |
| `XhciRings`, `XhciRingsProofs` | the transfer ring, event ring and key buffer of `xhci.rs`, and theorems |
| `Xhci` | enumeration, event processing and keyboard reports of `xhci.rs` |
| `Fifo` | what every ring promises: a bounded queue |
| `RingLemmas` | lemmas on circular buffers, shared by the ring proofs |
| `MCScheduler`, `MCFatFs`, `MCHeap`, `MCBoot`, `MCXhci` | instances for TLC |
| `MCKernel` | scheduler, heap and lock, which share no state, in one specification |
| `MCMachine` | boot memory, processors, PCI, disk, network, checksum and USB rings likewise |

### Scheduler

`len`, `cap`, `status`, `exit_code`, `saved`, `user_rsp` are the task table;
`current`, `kernel_stack`, `user_stack` the per-CPU data; `pc`, `intr`, `old`,
`fresh`, `dangling` what a CPU is doing. Code under `SCHEDULER_LOCK` is one
step; `SpinLock` justifies that. `SwitchTask` ends where the code drops the
lock (line 289) and `ContextSwitch` is the assembly after it, so other CPUs run
in between. A stack pointer is the task it belongs to; `saved[t]` says whether
`stack_top` is the RSP at which `t` last stopped, and `fresh[c]` whether it was
when `switch_task` read it. A push that moves the task vector makes the other
CPUs' `old_stack_ref` dangle. A stale stack pointer leads into a frame that is
gone, so the CPU may fault or go on: both are allowed. `context_switch` does not
change RFLAGS, so a resumed `loop { switch_task(); hlt }` inherits IF. `Wake` is
the keyboard interrupt, the only one unmasked, delivered to the boot processor
only. User tasks are arbitrary: any system call or fault at any time.

`gs_base`, which is swapped beside `user_rsp`, and `add_new_task`, which has no
caller, are left out. `get_task_status` and `get_task_exit_code` only read.

### SpinLock

Each CPU has three contexts: kernel code, `irq_handler`, `exception_handler`.
`Lock` reads IF and clears it, `Acquire` is the successful compare_exchange,
`Drop` restores IF. `Exception` may find the CPU in user mode or in a critical
section; `TryLock`, `ForceUnlock`, `Reported` are the handler's steps. After a
fault in the kernel the handler halts with the guard. `where` is what each context
is doing and `flag_if` IF; `forced` remembers that force_unlock was used. A fault inside lock()'s spin loop, which touches nothing
but the flag, is not modelled.

### FatFs and FileStore

`boot`, `fat`, `dir`, `data` are the disk; `op` is the call that holds
`FS_LOCK`. Every disk write is a step: `FreeCluster`, `ClearEntry`,
`AllocCluster`, `LinkCluster`, `WriteCluster`, `CommitEntry` for create and
delete; `WriteMagic`, `ZeroFatSector`, `WriteReserved`, `ZeroDirSector` for
format. `PowerLoss` forgets `op` and keeps the disk, `Boot` mounts or formats.
`ReadFile` computes what `read_file` returns, zeros after a short chain
included. A cluster holds one datum. Cluster numbers are taken modulo `Word`, as
the cast to u16 does. The NVMe driver always reports success, so `DeviceError`
does not arise.

`FileStore` is the abstract map. The refinement maps `files` to what `read_file`
would return between calls and to its value before the call during one (`view`).
A failed or interrupted write may remove the file it writes, because
`create_file` deletes the old version first; nothing else may change.
`leaked` is a history variable: the clusters a `create_file` had taken when it
failed (`fs.rs:499` returns without freeing them) or lost power.

### Heap

The memory is an array of words (`heap.mem`), because the interesting mistakes
are about which word is read. `arena` is `arena_ptr`, `lists` the heads of the
free lists; block headers, the sentinel and the back pointer in front of a large
payload, and the links of free blocks are words. `AllocAligned` chooses between
a size class (free list, then arena, then a slab cut from the large list) and a
large block; `DeallocAligned` reads the word two in front of the pointer, as the
code does, whatever block that word is in. `Alloc` and `Dealloc` are one step
each under the lock; realloc is `ReallocAlloc`, `ReallocCopy`, `ReallocFree`, with
other callers in between, since it takes the lock three times. A panic
(`BUCKET_SIZES[header_val]`) or an access outside the heap ends the behaviour
(`crashed`). A caller fills what it allocates with a value and realloc does not:
after it the new block has what the copy brought, and `kept` says how much of the
caller's data must be in it. `misread` marks a block that realloc has moved out of
a small one, whose capacity the code reads from a word of the neighbour.

### Frames and Boot

`Frames` is `allocate_frame` over a list of descriptors: `cursor` is its
descriptor index and page offset. `Boot` is `kernel_main` as a sequence of
stages; each stage has pages to map (`todo`) or a run of consecutive frames to
collect (`run`), one page or frame per step. `map_page` allocates the missing
tables on the way (`tables`) and writes the entry (`leaf`). The firmware's tables
and the file differ per behaviour, and so do the controllers found. `owner`
records what each frame is used for, `faulted` what was touched on a page that was
not mapped, `clobbered` what the trampoline was copied over.

### ApStart

`parse_madt` is a function of the table, with its early exits. `bsp`, `cpu` and
`ap_index` are the loop of `start_all_aps`; `tramp` is the trampoline page;
`slots` the per-CPU data. A processor that got its STARTUP takes the stack
pointer, finds its slot, sets the flag and counts itself, each at any later time,
the wait's timeout included. MADTs name a processor once, as ACPI demands.

### Pci

`machine` is what configuration reads return; `scan_bus` is one step per device,
with the functions of a device read as `check_device` does. Registers are byte
tuples; an address has `BarBits` bits in each half, of which the low four are
flags. NVMe controllers have a 64-bit BAR0, as their standard demands; xHCI and
Ethernet controllers have either, and behind a 32-bit one the next register is in
use, so that `mmio_bar0` has to look at the flags.

### Nvme

`tail`, `head`, `phase` are the driver's side of the admin and the I/O queue,
`fetched`, `posted`, `dphase` the controller's. Bring-up (`InitDisable` to
`InitQueues`), `ReadWrite`, `WaitForCompletion` (one entry, with the awaited id
or another one) and `shutdown` with its countdown are the driver; `DeviceReady`,
`DeviceFetch`, `DevicePost` and `DeviceShutdown` are the controller. The file system's lock
lets one caller in at a time.

### Network and Checksum

`tx`/`rx` are the descriptor rings, `tdt`, `rdt` the tail registers and `tdh`,
`rdh` the card's heads. `Transmit`, `PollRx` and the handler's answer are the
driver's steps, `CardSend` and `CardReceive` the card's. Frames are the
kinds the handler tells apart. Nothing in the kernel calls the handler yet; the
model calls it at any time. `Checksum` runs the loop of `helper.rs` step by step
over every packet of the bound and compares: a packet with its checksum inserted
verifies.

### XhciRings and Xhci

`XhciRings` has the producer and the consumer of the three rings with their
cycle bits. The transfer ring has no check for a full ring in the code
(`xhci.rs:165`); the guard in `Enqueue` is an assumption about its callers, which
`RingsHaveRoom` of `Xhci` checks: transfers that timed out stay on a ring while the
driver goes on, and still at most 9 TRBs are outstanding on any ring, of the 254
there is room for.

`Xhci` uses queues for the rings. It begins in `init` where HCRST has been set:
`host` is the controller's HCRST and CNR, `HostReset` clears one and then the other,
`HostReady` is the driver's two waits for them (lines 529 and 536) with the set-up
and start that follow. `at` is the boot thread there, in `poll_ports` and in the
functions it calls, `LAST_COMPLETION_CODE` and `LAST_SLOT_ID` are the globals it
waits on, `ProcessEvent` is one round of the event loop, which system calls run
too. Devices answer, stall, answer late or not at all. `mixed` is a ghost: a wait
ended without its own event.

### MCKernel and MCMachine

Scheduler, heap and lock have no variable in common, and neither have boot memory,
processors, PCI, disk, network, checksum and rings. `MCKernel` and `MCMachine`
explore each of theirs while the others rest, chosen by `part`; the product would
add nothing but states.

## Runs

| Run | Instance | Shows |
|---|---|---|
| `kernel` | scheduler: 2 CPUs, 4 tasks, vector capacity 2; heap: 32 words, two classes; lock: 3 CPUs, 2 may fault | no task on two CPUs, none lost, stacks follow tasks, termination is final, init starts; heap blocks tile and keep their contents; guards exclude, handlers do not wait for what they interrupted, a wanted lock is taken |
| `sched_stale` | 2 CPUs, 3 tasks | **violated**: a task is resumed from an unsaved stack pointer |
| `sched_fault` | 1 CPU, 3 tasks | **violated**: after a user fault the CPU sleeps with interrupts off |
| `heap_stale` | 28 words, one class | **violated**: a small block is freed as a large one |
| `heap_realloc` | 32 words, two classes | **violated**: realloc of a small block loses contents |
| `fs` | 3 clusters, 2 slots; 3 names, or 2 names and power loss while building | files apart and exact, one entry per name, clusters lost only by failed or interrupted writes; implements `FileStore`; calls end |
| `fs_crash_remove` | 2 names, power loss while removing | **violated**: an entry in use points at a free cluster |
| `fs_full_error` | 2 names, 2 clusters | **violated**: a full volume is reported as InvalidArgument |
| `machine` | see below | boot gives each frame once and panics for a reason; processors get their own slot and stack; the PCI scan is exact; disk, network and USB rings are queues; checksums verify; boot, AP start and disk calls end |
| `boot_acpi` | the machines of `machine` | **violated**: an ACPI table is read before it is mapped |
| `boot_trampoline` | the same | **violated**: the trampoline is copied over a page table |
| `usb` | 2 ports, all pairs of devices but one | reset and enumeration end; no ring is overrun; one report request per keyboard; when a wait may be ended by a foreign event |

What `kernel` checks, by part:

| Part | Properties |
|---|---|
| scheduler | `TypeOK`, `OneCpuPerTask`, `StatusMatchesCpus`, `StacksFollowTask`, `TerminatedForever`. `FreshWhileAlone`, `NoHaltWhileAlone`: until another processor has taken a task, every context resumed was saved, and the boot processor does not enter the endless hlt of `switch_task`. It may still sleep in the `hlt` of the scheduler's loop, with IF clear too: that is `sched_fault`. `InitIsRun` |
| heap | `HeapPartitioned`: the large list is an exact tiling with no two free neighbours, no word is in two blocks, none is lost. `AllocationsKept`: what a caller holds is aligned and inside its block, the prefix of a large block is the one `alloc_aligned` wrote, and contents are kept, through realloc too; a block that realloc moved out of a small one is left to `heap_realloc` |
| lock | `ExclusiveUnlessForced`, `FlagMatchesGuards`, `NoSelfDeadlock`, `LockTaken` |

What `machine` checks, by part:

| Part | Properties |
|---|---|
| boot | `UserPagesOnly`, `MappingsKept`; `PanicHasCause`: a fault, a broken table, disk or file, no frame left, or a run of frames that has reached the real end of its piece of memory; `GivenOnce` of the frame allocator |
| processors | `ProcessorsApart`: own slot, own stack, an honest online flag. `NobodyForgotten`: everyone in the MADT is started |
| pci | `ControllersReady`: the last controller of each kind, bus master, at its address |
| nvme | `CompletionsMatch`: the phase tag tells new from old, and one command is under way, the awaited one |
| network | `NetRingsAreFifo`: both rings are queues, and head and tail give their lengths modulo the ring's size: with every transmit descriptor outstanding tail equals head, and the card sees none (`e1000.rs:225-238`) |
| checksum | `ChecksumVerifies` |
| trb, event, key | `UsbRingsAreFifo`: each ring is a queue |
| boot, processors, nvme | `PartsGoOn`: boot ends, the boot processor gets past `start_all_aps`, a disk call returns |

`MachineTypeOK` is the type invariant of the part that runs.

Bounds. Two CPUs are what `run.sh` starts and enough for every pair of
switches; four tasks let a task migrate while two others run, terminate and are
created. `VecCap = 2` (4 in the code) makes the vector move within the bound.
Files are empty, one or two clusters, so chains are absent, single and linked;
three clusters hold two files and make writes fail half way, as do two. The FAT
has two sectors and the directory two, so format is interrupted between sectors.
`Word = 8` and `TotalClusters = 30` keep the code's relation: the truncated
number of the last cluster lies beyond the end of the FAT.

Bounds of the heap and the lock. Heap: 32 words, two classes, three requests, of which
one is large only for its alignment, and three blocks held: room for a split, a
merge on both sides, and a slab. The stale word of `heap_stale` is not reached at
this size; that run and `heap_realloc` have layouts of their own. Lock: of three
CPUs one can hold or want it while the others fault and force it.

Bounds of `machine`. Boot: page tables with 4 entries
(512 in the code), so that stages need new tables; seven memory maps, with
ordinary memory from page 0, under the trampoline, in pieces with a gap, and too
small; seven RSDPs; three sets of controllers; five files. The RSDPs vary with all
controllers present, the controllers with good tables, the files where both are
good; the product of the three is not taken. Processors: three stacks, five MADTs, with
foreign, disabled and broken entries and more processors than there is room for.
PCI: two devices with two functions each, the first with any two of NVMe, xHCI,
Ethernet and nothing, the second with any two of NVMe, EHCI and nothing, with
and without the multi-function bits. Queues and rings
have three or four entries, which is enough for a full, an empty and a wrapped
ring; in one behaviour the card receives one kind of frame that is answered, and
others that are not (`NetRingsInOrder` is proved for all kinds together). Checksums: all packets of up to six bytes from {0, 1, 255}, odd lengths
and repeated carries included.

Bounds of `usb`. Two ports are needed for a keyboard that reports while the next
device is set up. Each port has nothing, a keyboard or another device; the pair of a
keyboard and, behind it, another device is left out for its size. The pair of
keyboards has its waits and its foreign events, and the second keyboard is also found
without an endpoint there when its descriptor was not read. Which port the firmware
has enabled is fixed per pair. A short event ring (`EventRoom`) holds the controller back, and
`KeyRoom` makes keys be dropped.

Deadlock checking is off for the scheduler and the lock: CPUs really do stop in
`hlt`, and an exception in the kernel stops one with the lock held. It is off for
`machine`, the boot and the heap runs, where boot, scan, checksum and a panicked
kernel end, and for `usb`, where a machine without a keyboard has nothing to do.

Fairness. `Scheduler!FairSpec`: a CPU that executes kernel code goes on doing
so, since interrupts do nothing and nothing preempts it. Neither system calls
nor key presses are fair; `KeyboardSpec` adds key presses to give the fault run
its best chance. `SpinLock!LockFairSpec`: a CPU takes its next step when it can; a
spinning CPU may still lose every race, so only "somebody takes the lock" is
claimed. `FatFs!FairSpec`: the running call and the boot go on.
`Boot`, and the boot processor in `ApStart`: one thread that nothing stops; its
waits count down. No application processor is fair. `Nvme`: the calling CPU goes
on, and the controller answers; `wait_for_completion` has no timeout, so without
the latter nothing could be claimed. `Xhci`: the boot thread polls and the
controller resets itself and its ports and executes commands, for which the code waits without
a timeout; transfers need never be answered. Strong fairness of the end of a wait
and of command execution says that keyboards report more slowly than the thread
polls: between two reports it gets around its loop.

## What the violated properties say

* `sched_stale`: `switch_task` makes the old task Ready and drops the lock
  before `context_switch` stores its RSP. A second CPU can resume the task from
  the previous value of `stack_top` (0 for the kernel's task).
* `sched_fault`: an exception gate clears IF, and so does a system call. If the
  next Ready task is the kernel's loop it returns from `switch_task` to `hlt`
  with IF clear; no key wakes it, although a user task is Ready.
* `fs_crash_remove`: the chain is freed first, the entry cleared last. After a
  power loss in between the next file gets clusters that the old entry still
  names. Format has the same window between its FAT and directory writes.
* `fs_full_error`: `(2 + TOTAL_CLUSTERS - 1) as u16` is 65526, the FAT has 16384
  entries, so a full volume ends the scan with an index error.
* `heap_stale`: `dealloc_aligned` looks two words in front of the pointer for the
  sentinel of a large block. A small block has its header one word in front, so
  the word read is its neighbour's. A large block is allocated and freed, a slab
  is cut from its place, and a small block of the slab has the old sentinel in
  that word: its free follows the word after it as a block pointer.
* `heap_realloc`: `capacity_of` reads the same word. Here the neighbour's owner has
  written a small number into it, which is taken for the index of a smaller class, and
  realloc copies less than the caller had. (A larger number is an index out of range:
  `BUCKET_SIZES[header_val]` panics.)
* `boot_acpi`: `main.rs:141` says that `from_rsdp` stores pointers, "no deref yet",
  and `acpi.rs:996-999` that `map_acpi_tables` is to come before any table is
  dereferenced. `from_rsdp` reads the root table and the header of every table in it.
  That is harmless as long as they lie in memory that `init_paging` has mapped; in the
  run one does not.
* `boot_trampoline`: `processor.rs:6-7` speaks of "a free page below 1 MiB". The page
  is fixed and not reserved; with ordinary memory from page 1 on the frame allocator
  has given it to `init_paging` for a page table. A map whose first ordinary memory
  begins at page 0 is safe, because `allocate_frame` skips that piece.

Some passing properties state how far a promise goes. `MixedOnlyBy`: a wait for
the controller may be ended by a foreign event, but only after a timed-out
transfer or when a keyboard already reports. `UniqueStacks` and `FlagIsHonest`
(in `ProcessorsApart`) end when the boot processor gives up on a processor, which may still come and
take the next one's stack. `NoLeak` counts the clusters of failed and interrupted
writes as lost: it says that nothing else loses any. `ExclusiveUnlessForced` ends with
force_unlock, and `LockTaken` with the halt of exception_handler, which keeps the guard
after a fault of the kernel.
`OneRequest` excepts an endpoint that stalled: no code resets it.
Left without a property: the NVMe driver does not look at a completion's status
(`nvme.rs:213`) and always reports success; `interval - 1` (`xhci.rs:1227`),
`total_length - ihl` (`arp.rs:152`) and `data.len() - 1` (`helper.rs:5`)
underflow for values that well-formed input does not have; terminated tasks are
never reclaimed (`scheduler.rs:126`).

Two more differences were met and have no run. The README calls scheduling
preemptive, but the timer is masked and its handler empty. `user/src/std.rs:163`
reads task states as "0 = running, 1 = finished"; the kernel returns 0 Ready, 1
Running, 2 Terminated, 3 unknown.

## Proofs

`SchedulerProofs`, from `ConstantsAssumption` only (the boot processor is a CPU,
the table has room for two tasks and the vector for one). The inductive
invariant `SchedInv` adds to the checked properties:

* `TableEnd`: entries past `len` are absent and all others present, so a push
  never lands on a live task;
* `RunningOutsideSwitch`: a CPU outside `switch_task` has a Running task, so a
  return to user mode never resumes a terminated one;
* `UserModeIsUser`: only user tasks reach user mode;
* `StacksOwned`: the saved and loaded user RSPs and kernel stacks belong to the
  right task in every state, not only in user mode.

Theorems: `TypeCorrect`, `OneCpuPerTaskAlways`, `StatusMatchesCpusAlways`,
`StacksFollowTaskAlways`, `TerminatedForeverAlways`, and `BootProcessorAlone`:
`FreshWhileAlone` and `NoHaltWhileAlone` hold, on one CPU always and on several until
another one has taken a task. The last uses `UniInv`: every Ready task except the one
being switched away from is saved, and task 0 is Ready or Running, so there is always
something to switch to.

`SpinLockProofs`, from `MayFault \subseteq LockCpu`. `LockInv` adds `QuietBelow` (a
CPU takes interrupts only while its own code has and wants no guard),
`HandlersStayOff` and `OnlyExceptionsForce`. Theorems: `GuardsExclude`,
`FlagIsGuards`, `HandlersDoNotWaitBelow`.

`FramesProofs`, from `MapsAssumption` (descriptors do not overlap). `FramesInv`:
every frame given comes from an ordinary descriptor at a place before the cursor.
The place is what makes it inductive: a new frame is at the cursor, and without
overlaps different places are different frames. Theorems: `FramesInvariant`,
`OnlyUsableFrames`, `FramesGivenOnce`.

`ApStartProofs`, from `ApAssumption` (a table names a processor once; room for
one). `ApInv` is `SlotsInv` (filled slots belong to different processors already
handled, with the stack of their number), `ProcessorsInv` (whoever was started
has a slot, and whoever looked found it) and `StacksInv` (while nobody was given
up, only the awaited processor is on its way, and the page holds its stack).
Theorems: `EveryoneOwnSlot`, `FlagSpeaksForAwaited`, `StacksAreUnique`, together
`ProcessorsStayApart`, and `ApTypesKept`.

`NvmeProofs`, from `QueueSize >= 2`. `NvmeInv` is `StagesInv` (how far bring-up
is), `RingInv` (entries before the head have the driver's phase, those behind it
the other, and the controller is at the head or one ahead) and `WayInv` (a
command is submitted, executing or answered, and is the awaited one). Theorems:
`PhaseIsRight`, `OneCommandUnderWay`, together `CompletionsAlwaysMatch`, and
`NvmeTypesKept`.

`XhciRingsProofs` and `NetworkProofs`, from rings of at least two entries. Each
ring implements `Fifo`: initial states map to the empty queue, every step to a
put, a take or a stutter. The mapping reads the ring from the consumer's place
on, until the first entry that is not the consumer's; `KeyInv`, `EventInv`,
`TrbInv`, `RxInv`, `TxInv` say where that is, in terms of the indices and the
cycle bits or descriptor flags. `RingLemmas` has the arithmetic of places modulo
the size and the lemmas that filling a place appends and freeing one takes the
head. Theorems: `KeyBufferIsFifo`, `EventsAreFifo`, `TrbsAreFifo`, together
`UsbRingsInOrder`; `ReceivesInOrder`, `SendsInOrder`, `CardSeesWhatIsQueued`,
together `NetRingsInOrder`.

Only model-checked. Liveness (`InitIsRun`, `LockTaken`, `CallsEnd`,
`PartsGoOn`, `EnumerationEnds`) needs
fairness, which is out of the prover's reach. The heap's lists and the FAT's
chains are followed by recursion, and what they say for every length needs
induction over data, which the provers cannot do; `Checksum` likewise. `Boot`,
`Pci` and `Xhci` are model-checked only.

## Not modelled

* Straight-line hardware set-up, without state of its own afterwards: IDT, GDT
  encoding, PIC words, MSRs, APIC register encoding, the UEFI calls of
  `efi_main`, port instructions.
* Pixel output (`writer.rs`, `term.rs`), apart from the writer's lock, and what
  is only printed: `dump_tables`, the disk's model name.
* Code without a caller: `add_new_task`, the raw sector calls of `fs.rs`, the
  PM timer wait, ECAM addresses and the BIOS scan for the RSDP in `acpi.rs`.
* `xhci::shutdown` and `sys_shutdown`'s reset: the machine is off afterwards.
  `nvme::shutdown` is modelled, because other CPUs may still use the disk.
* Malformed frames in the network handler and malformed USB descriptors: frames
  and descriptors are the kinds the code tells apart.
* `tools/kef-tool`: a host program that writes the volume in one pass.
* `user/src`: user tasks are any sequence of system calls.
* The product of components that share no state. `FatFs` uses a disk whose
  writes happen in order and one at a time; `CompletionsMatch` and `CallReturns`
  of `Nvme` are why it may.
