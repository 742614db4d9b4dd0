-------------------------------- MODULE Boot --------------------------------
(***************************************************************************)
(* What the boot processor does with memory on its way through kernel_main *)
(* (src/src/main.rs): init_paging, the ACPI tables, the device and heap    *)
(* mappings, the trampoline page of the other processors, the user heap    *)
(* and load_kef.  Addresses are page numbers, a page table has FANOUT      *)
(* entries and there are four levels, as in map_page.                      *)
(***************************************************************************)
EXTENDS Frames, FiniteSets, TLC
LOCAL INSTANCE SequencesExt

CONSTANTS
    FANOUT,         \* entries of a page table (512)
    HEAP_PAGES,     \* of the kernel heap and of the user heap (128)
    STACK_PAGES,    \* of the user stack (4)
    TRAMPOLINE,     \* TRAMPOLINE_PHYS as a page (8)
    USER_HEAP_BASE, \* USER_HEAP_VIRT_BASE as a page
    Rsdps,          \* ACPI: [page, checksum, revision, xsdt, rsdt], page 0 for no RSDP;
                    \* a root table is [page, tables], a table [page, signature]
    Found,          \* what pci::init may have found, sets of controllers
    DevicePages,    \* pages each controller's registers and buffers are on
    Framebuffer, ApicPages, \* pages of other memory-mapped devices
    KernelStack,    \* pages of KERNEL_STACK
    Files           \* init.kef: [magic, pages of code, whole: the code is in the file]

VARIABLES
    stage,     \* where kernel_main is
    todo,      \* pages to map before it goes on: <<virtual, physical, user>>
    run,       \* the contiguous run to allocate: its frames so far, how many it needs
    tables,    \* page tables: <<level, prefix>> -> frame
    leaf,      \* page table entries: virtual page -> [frame, user]
    acpi, controllers, file,
    owner,     \* ghost: what each frame given is used for
    faulted,   \* ghost: what was touched on a page that is not mapped
    clobbered  \* ghost: what the trampoline was written over

bootVars == <<framesVars, stage, todo, run, tables, leaf, acpi, controllers, file, owner, faulted, clobbered>>

MappedTypes == {"conventional", "loader", "boot", "runtime", "acpi", "nvs", "mmio"}

NoRun == [who |-> "nobody", frames |-> <<>>, need |-> 0]
NewRun(who, n) == [who |-> who, frames |-> <<>>, need |-> n]

BootInit ==
    /\ FramesInit
    /\ stage = "paging" /\ todo = <<>> /\ run = NoRun
    /\ tables = <<>> /\ leaf = <<>>
    /\ acpi \in Rsdps /\ controllers \in Found /\ file \in Files
    /\ owner = <<>> /\ faulted = "nothing" /\ clobbered = "nothing"

-----------------------------------------------------------------------------
Identity(pages, user) == [k \in 1 .. Len(pages) |-> <<pages[k], pages[k], user>>]
PagesOf(d) == [k \in 1 .. d.pages |-> d.start + k - 1]

(* The frame allocated is used by who.                                     *)
Take(frame, who) == Allocate(frame) /\ owner' = (frame :> who) @@ owner

NoAllocation == UNCHANGED <<framesVars, owner>>

(* map_page: each missing table on the way takes a frame; then the entry   *)
(* is written.                                                             *)
Prefix(v, level) == v \div FANOUT ^ (4 - level)
Missing(v) == {level \in 1 .. 3 : <<level, Prefix(v, level)>> \notin DOMAIN tables}

MapTable(frame) ==
    /\ todo # <<>> /\ stage # "panic"
    /\ Take(frame, "table")
    /\ LET v == Head(todo)[1] IN
       /\ Missing(v) # {}
       /\ LET level == CHOOSE l \in Missing(v) : \A k \in Missing(v) : l <= k
          IN  tables' = (<<level, Prefix(v, level)>> :> frame) @@ tables
    /\ UNCHANGED <<stage, todo, run, leaf, acpi, controllers, file, faulted, clobbered>>

MapLeaf ==
    /\ todo # <<>> /\ stage # "panic"
    /\ Missing(Head(todo)[1]) = {}
    /\ leaf' = (Head(todo)[1] :> [frame |-> Head(todo)[2], user |-> Head(todo)[3]]) @@ leaf
    /\ todo' = Tail(todo)
    /\ NoAllocation
    /\ UNCHANGED <<stage, run, tables, acpi, controllers, file, faulted, clobbered>>

(* The loops that allocate a heap, code or a stack: every frame must be    *)
(* the one after the frame before, or the kernel panics.                   *)
FollowsPast(frame) == run.frames = <<>> \/ frame = run.frames[1] + Len(run.frames) + 1
Follows(frame) == run.frames = <<>> \/ frame = run.frames[1] + Len(run.frames)

RunFrame(frame) ==
    /\ todo = <<>> /\ Len(run.frames) < run.need /\ stage # "panic"
    /\ Take(frame, run.who)
    /\ run' = [run EXCEPT !.frames = Append(@, frame)]
    /\ stage' = IF Follows(frame) THEN stage ELSE "panic"
    /\ UNCHANGED <<todo, tables, leaf, acpi, controllers, file, faulted, clobbered>>

(* expect("OOM ..."), or an error of load_kef, which ends the same way.    *)
Exhausted ==
    /\ OutOfFrames /\ stage # "panic"
    /\ \/ stage = "paging"
       \/ todo # <<>> /\ Missing(Head(todo)[1]) # {}
       \/ todo = <<>> /\ Len(run.frames) < run.need
    /\ stage' = "panic"
    /\ NoAllocation
    /\ UNCHANGED <<todo, run, tables, leaf, acpi, controllers, file, faulted, clobbered>>

-----------------------------------------------------------------------------
(* init_paging: the root table, then every descriptor of a known type and  *)
(* the framebuffer.                                                        *)
IdentityPages ==
    FoldLeft(LAMBDA pages, d : IF d.type \in MappedTypes THEN pages \o PagesOf(d) ELSE pages,
             <<>>, memory_map)
InitPaging(frame) ==
    /\ stage = "paging"
    /\ Take(frame, "table")
    /\ tables' = (<<0, 0>> :> frame) @@ tables
    /\ todo' = Identity(IdentityPages \o Framebuffer, FALSE)
    /\ stage' = "acpi"
    /\ UNCHANGED <<run, leaf, acpi, controllers, file, faulted, clobbered>>

(* kernel_main is at a stage and everything before it is done.             *)
Reached(s) == stage = s /\ todo = <<>> /\ Len(run.frames) = run.need

GoTo(next, pages, frames) ==
    /\ stage' = next /\ todo' = pages /\ run' = frames
    /\ NoAllocation
    /\ UNCHANGED <<tables, leaf, acpi, controllers, file>>

(* Reading a page that is not mapped is an exception in the kernel, which  *)
(* halts.                                                                  *)
Touch(pages, what) ==
    faulted' = IF \E k \in DOMAIN pages : pages[k] \notin DOMAIN leaf THEN what ELSE "nothing"
Faults == faulted' # "nothing"

(* rsdp_from_address: kernel_main expects the checksum to be right.        *)
RsdpFromAddress ==
    /\ Reached("acpi")
    /\ Touch(IF acpi.page = 0 THEN <<>> ELSE <<acpi.page>>, "rsdp")
    /\ GoTo(CASE acpi.page = 0 -> "nvme"
              [] acpi.page # 0 /\ (Faults \/ ~acpi.checksum) -> "panic"
              [] OTHER -> "tables", <<>>, NoRun)
    /\ UNCHANGED clobbered

(* from_rsdp prefers the XSDT; iter_xsdt and iter_rsdt visit its tables,   *)
(* and the last one of a kind is kept.                                     *)
rsdp_is_v2 == acpi.revision >= 2
Root == IF rsdp_is_v2 /\ acpi.xsdt.page # 0 THEN acpi.xsdt ELSE acpi.rsdt
Children == [k \in DOMAIN Root.tables |-> Root.tables[k].page]
RootAndChildren == IF Root.page = 0 THEN <<>> ELSE <<Root.page>> \o Children
Madt ==
    LET last == SelectLastInSeq(Root.tables, LAMBDA sdt : sdt.signature = "APIC")
    IN  IF acpi.page = 0 \/ last = 0 THEN 0 ELSE Root.tables[last].page

FromRsdp ==
    /\ Reached("tables")
    /\ Touch(RootAndChildren, "tables")
    /\ GoTo(IF Faults THEN "panic" ELSE "acpi_map", <<>>, NoRun)
    /\ UNCHANGED clobbered

MapAcpiTables ==
    /\ Reached("acpi_map")
    /\ GoTo("nvme", Identity(<<acpi.page>> \o RootAndChildren, FALSE), NoRun)
    /\ UNCHANGED <<faulted, clobbered>>

(* Each controller's registers, and the buffers it shares with the driver. *)
MapController(c, next) ==
    /\ Reached(c)
    /\ GoTo(next, IF c \in controllers THEN Identity(DevicePages[c], FALSE) ELSE <<>>, NoRun)
    /\ UNCHANGED <<faulted, clobbered>>

MapNvme == MapController("nvme", "xhci")
MapXhci == MapController("xhci", "ethernet")
MapNetwork == MapController("ethernet", "heap")

(* The kernel heap.                                                        *)
KernelHeap ==
    \/ /\ Reached("heap")
       /\ GoTo("heap_map", <<>>, NewRun("heap", HEAP_PAGES))
       /\ UNCHANGED <<faulted, clobbered>>
    \/ /\ Reached("heap_map")
       /\ GoTo("apic", Identity(run.frames, FALSE), NoRun)
       /\ UNCHANGED <<faulted, clobbered>>

(* With a MADT the APIC pages are mapped, and start_all_aps writes the     *)
(* trampoline if there is more than one processor.                         *)
Apic ==
    /\ Reached("apic")
    /\ GoTo("trampoline", IF Madt = 0 THEN <<>> ELSE Identity(ApicPages, FALSE), NoRun)
    /\ UNCHANGED <<faulted, clobbered>>

Trampoline ==
    /\ Reached("trampoline")
    /\ \E writes \in {FALSE, Madt # 0} :
         /\ Touch(IF writes THEN <<TRAMPOLINE>> ELSE <<>>, "trampoline")
         /\ clobbered' = IF writes /\ TRAMPOLINE \in given THEN owner[TRAMPOLINE] ELSE clobbered
    /\ GoTo(IF Faults THEN "panic" ELSE "user_heap", <<>>, NoRun)

(* The user heap, mapped at a fixed high address.                          *)
UserVirtualLow(k) == k
UserVirtual(k) == USER_HEAP_BASE + k - 1
UserHeap ==
    \/ /\ Reached("user_heap")
       /\ GoTo("user_map", <<>>, NewRun("user heap", HEAP_PAGES))
       /\ UNCHANGED <<faulted, clobbered>>
    \/ /\ Reached("user_map")
       /\ GoTo("kef", [k \in 1 .. Len(run.frames) |-> <<UserVirtual(k), run.frames[k], TRUE>>], NoRun)
       /\ UNCHANGED <<faulted, clobbered>>

(* load_kef: the header, frames for the code, their mapping, the check     *)
(* that the file holds the code, the stack.  kernel_main panics on error,  *)
(* and without a disk.                                                     *)
FileLoads == "nvme" \in controllers /\ file.magic /\ file.pages > 0
CodePagesPlus(frames) == Append(frames, frames[Len(frames)] + 1)
CodePages(frames) == frames
LoadKef ==
    /\ \/ /\ Reached("kef")
          /\ IF ~FileLoads THEN GoTo("panic", <<>>, NoRun)
             ELSE GoTo("code_map", <<>>, NewRun("code", file.pages))
       \/ /\ Reached("code_map")
          /\ GoTo("code_copy", Identity(CodePages(run.frames), TRUE), NoRun)
       \/ /\ Reached("code_copy")
          /\ IF ~file.whole THEN GoTo("panic", <<>>, NoRun)
             ELSE GoTo("stack_map", <<>>, NewRun("stack", STACK_PAGES))
       \/ /\ Reached("stack_map")
          /\ GoTo("kernel_stack", Identity(run.frames, TRUE), NoRun)
    /\ UNCHANGED <<faulted, clobbered>>

MapKernelStack ==
    /\ Reached("kernel_stack")
    /\ GoTo("run", Identity(KernelStack, FALSE), NoRun)
    /\ UNCHANGED <<faulted, clobbered>>

BootNext ==
    \/ MapLeaf \/ Exhausted
    \/ \E frame \in PagesIn(memory_map) : InitPaging(frame) \/ MapTable(frame) \/ RunFrame(frame)
    \/ RsdpFromAddress \/ FromRsdp \/ MapAcpiTables
    \/ MapNvme \/ MapXhci \/ MapNetwork \/ KernelHeap \/ Apic \/ Trampoline \/ UserHeap \/ LoadKef
    \/ MapKernelStack

BootSpec == BootInit /\ [][BootNext]_bootVars /\ WF_bootVars(BootNext)

-----------------------------------------------------------------------------
(* The frames in use came from the allocator, each has one use, and the    *)
(* page tables do not share a frame.                                       *)
BootTypeOK ==
    /\ GivenIsUsable
    /\ DOMAIN owner = given
    /\ \A t \in DOMAIN tables : owner[tables[t]] = "table"
    /\ \A s, t \in DOMAIN tables : tables[s] = tables[t] => s = t

(* A mapping is never turned to another frame: whatever the later stages   *)
(* map, user heap, code and stack included, no page table entry is         *)
(* "silently overwritten" with a different page (main.rs:346-355).         *)
MappingsKept ==
    [][\A v \in DOMAIN leaf : v \in DOMAIN leaf' /\ leaf'[v].frame = leaf[v].frame]_bootVars

(* User mode reaches the frames allocated for it and no others: no page    *)
(* table, no kernel heap, no frame that is still free.                     *)
UserPagesOnly ==
    \A v \in DOMAIN leaf : leaf[v].user =>
        leaf[v].frame \in given /\ owner[leaf[v].frame] \in {"user heap", "code", "stack"}

(* The ACPI tables are not touched before they are mapped: from_rsdp       *)
(* "stores pointers, no deref yet" (main.rs:141), and map_acpi_tables is   *)
(* called "before dereferencing any table" (acpi.rs:998).                  *)
ReadsMapped == faulted # "tables"

(* The trampoline is copied into "a free page below 1 MiB"                 *)
(* (processor.rs:6-7): no page table, heap or stack is under it.           *)
TrampolineSafe == clobbered = "nothing"

(* The kernel gives up only for a reason: a fault, a broken RSDP, no disk, *)
(* a file that is no KEF, too few frames, or a run of frames that has come *)
(* to the end of its piece of ordinary memory.                             *)
PanicHasCause ==
    stage = "panic" =>
        \/ faulted # "nothing" \/ ~FileLoads \/ ~file.whole
        \/ acpi.page # 0 /\ ~acpi.checksum
        \/ OutOfFrames
        \/ /\ run.frames # <<>>
           /\ run.frames[1] + Len(run.frames) - 1 \notin
                  PagesIn(SelectSeq(memory_map, LAMBDA d : d.type = "conventional"))

(* Boot comes to an end: the scheduler starts or the kernel has panicked.  *)
BootOver == stage = "panic" \/ (stage = "run" /\ todo = <<>>)
BootEnds == <>BootOver
=============================================================================
