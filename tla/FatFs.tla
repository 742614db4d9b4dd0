-------------------------------- MODULE FatFs --------------------------------
(***************************************************************************)
(* The FAT file system of src/src/fs.rs over a disk that survives a power  *)
(* loss.  FS_LOCK admits one call at a time, so the state of the call in   *)
(* progress is one record.  Every write of the call to the disk is a step, *)
(* and the power may fail between any two of them; what the call only      *)
(* reads belongs to the step before the next write.                        *)
(*                                                                         *)
(* Abstractions.  A cluster holds one datum, a file is a sequence of data  *)
(* and its size their number.  The NVMe driver's calls always succeed      *)
(* (nvme_read and nvme_write return 0 whatever happens), so DeviceError    *)
(* does not arise; NotReady (no namespace) is left out.                    *)
(***************************************************************************)
EXTENDS Integers, Sequences

CONSTANTS
    Names,           \* file names of 1 to 21 bytes
    BadNames,        \* empty or longer names
    Contents,        \* contents callers write: sequences of data
    None,            \* no file
    Slots,           \* ROOT_DIR_ENTRIES
    SlotsPerSector,  \* DIR_ENTRIES_PER_SECTOR
    FatEntries,      \* entries in the FAT_SECTORS sectors
    FatPerSector,    \* entries in one sector
    TotalClusters,   \* TOTAL_CLUSTERS, from the size of the disk
    Word,            \* 2^16: cluster numbers are u16
    CrashPoints      \* where in a call the power may fail

ASSUME FatFsAssumption ==
    /\ Slots \in Nat \ {0} /\ SlotsPerSector \in Nat \ {0}
    /\ FatEntries \in Nat /\ FatEntries > 2 /\ FatPerSector \in Nat \ {0}
    /\ TotalClusters \in Nat /\ Word \in Nat \ {0} /\ FatEntries < Word

FREE == 0
EOC == -1        \* 0xFFFF
MEDIA == -2      \* 0xFFF8, also >= FAT_ENTRY_RESERVED
Zero == "zero"   \* a cluster of zeros

Clusters == 0 .. FatEntries - 1
Slot == 0 .. Slots - 1
Empty == [used |-> FALSE, name |-> None, first |-> 0, size |-> 0]

VARIABLES
    boot,  \* LBA 0 holds FAT_MAGIC
    fat,   \* the FAT
    dir,   \* the root directory
    data,  \* the data clusters
    op,    \* the call that holds FS_LOCK
    ret,   \* what the last call returned
    view,  \* what read_file returned for each name before the call
    leaked \* history: clusters of create_file calls that failed or lost power

disk == <<boot, fat, dir, data>>
vars == <<disk, op, ret, view, leaked>>

(* op.pc: "off" powered down, "idle" no call; of create_file and           *)
(* delete_file: "free" and "clear" (the old file), "alloc", "link", "data" *)
(* (one cluster), "commit"; of format: "magic", "fat", "fat0", "fat1",     *)
(* "dir".                                                                  *)
NoOp(pc) == [pc |-> pc, name |-> None, content |-> <<>>, create |-> FALSE,
             slot |-> 0, cur |-> 0, prev |-> 0, first |-> 0, i |-> 0]

-----------------------------------------------------------------------------
(* Reading.                                                                *)

Live(c) == c >= 2      \* 2 <= c < FAT_ENTRY_RESERVED

FirstOf(S) == CHOOSE s \in S : \A u \in S : s <= u
Found(n) == {s \in Slot : dir[s].used /\ dir[s].name = n}

(* The clusters read_file visits for a directory entry, EOC when the chain *)
(* ends too soon.                                                          *)
Visited(e) ==
    LET at[i \in 1 .. e.size] ==
          IF i = 1 THEN e.first
          ELSE IF Live(at[i - 1]) THEN fat[at[i - 1]] ELSE EOC
    IN  at

(* read_file_unlocked: a chain that is too short reads as zeros.           *)
ReadFile(n) ==
    IF Found(n) = {} THEN None
    ELSE LET at == Visited(dir[FirstOf(Found(n))])
         IN  [i \in DOMAIN at |-> IF Live(at[i]) THEN data[at[i]] ELSE Zero]

Readable == [n \in Names |-> ReadFile(n)]

-----------------------------------------------------------------------------
(* The end of a call, and its beginning: `view' is for the refinement.     *)
Finish(r) ==
    /\ op' = NoOp("idle")
    /\ ret' = r
    /\ UNCHANGED view

Begin(o) ==
    /\ op' = o
    /\ view' = Readable
    /\ UNCHANGED <<disk, ret, leaked>>

(* An early return that wrote nothing.                                     *)
Refuse(r) ==
    /\ ret' = r
    /\ UNCHANGED <<disk, op, view, leaked>>

(* find_free_dir_slot and the first branch of create_file's body.          *)
FreeSlots(d) == {s \in Slot : ~d[s].used}
AfterSlot(o, d) ==
    [o EXCEPT !.slot = FirstOf(FreeSlots(d)), !.cur = 0, !.first = 0, !.i = 1,
              !.pc = IF o.content = <<>> THEN "commit" ELSE "alloc"]

(* Where create_file and delete_file go with an existing file.             *)
RemoveDataOnly(o, s) ==
    IF dir[s].first < 2 /\ FreeSlots(dir) # {} THEN AfterSlot(o, dir)
    ELSE [o EXCEPT !.slot = s, !.cur = dir[s].first,
                   !.pc = IF dir[s].first >= 2 THEN "free" ELSE "clear"]
Remove(o, s) ==
    [o EXCEPT !.slot = s, !.cur = dir[s].first,
              !.pc = IF dir[s].first >= 2 THEN "free" ELSE "clear"]

CreateFile(n, c) ==
    /\ op.pc = "idle"
    /\ LET o == [NoOp("idle") EXCEPT !.name = n, !.content = c, !.create = TRUE]
       IN  IF n \in BadNames THEN Refuse("InvalidArgument")
           ELSE IF ~boot THEN Refuse("NotFormatted")
           ELSE IF Found(n) # {} THEN Begin(Remove(o, FirstOf(Found(n))))
           ELSE IF FreeSlots(dir) = {} THEN Refuse("NoSpace")
           ELSE Begin(AfterSlot(o, dir))

DeleteFile(n) ==
    /\ op.pc = "idle"
    /\ IF n \in BadNames THEN Refuse("InvalidArgument")
       ELSE IF Found(n) = {} THEN Refuse("FileNotFound")
       ELSE Begin(Remove([NoOp("idle") EXCEPT !.name = n], FirstOf(Found(n))))

(* free_cluster_chain: one cluster per step.  The loop ends at a reserved  *)
(* value (EOC) or at a cluster number below 2.                             *)
AfterFreeFirstOnly(next) == "clear"
AfterFreeToZero(next) == IF next # FREE THEN "free" ELSE "clear"
AfterFree(next) == IF Live(next) THEN "free" ELSE "clear"

NextInChainStuck(c) == c
NextInChain(c) == fat[c]

FreeCluster ==
    /\ op.pc = "free"
    /\ fat' = [fat EXCEPT ![op.cur] = FREE]
    /\ op' = [op EXCEPT !.cur = NextInChain(op.cur),
                        !.pc = AfterFree(NextInChain(op.cur))]
    /\ UNCHANGED <<boot, dir, data, ret, view, leaked>>

(* The entry of the old file is cleared; delete_file is done, create_file  *)
(* looks for a slot, and finds at least this one.                          *)
ClearEntry ==
    /\ op.pc = "clear"
    /\ dir' = [dir EXCEPT ![op.slot] = Empty]
    /\ IF op.create
       THEN /\ op' = AfterSlot(op, dir')
            /\ UNCHANGED <<ret, view>>
       ELSE Finish("Ok")
    /\ UNCHANGED <<boot, fat, data, leaked>>

(* alloc_cluster: the number of the last cluster is truncated to u16, and  *)
(* an entry past the end of the FAT is an error that ends the scan.        *)
MaxCluster == (2 + TotalClusters - 1) % Word
FreeOrLast == {c \in Clusters : 2 <= c /\ c <= MaxCluster /\ fat[c] \in {FREE, EOC}}
FreeClusters == {c \in Clusters : 2 <= c /\ c <= MaxCluster /\ fat[c] = FREE}

(* What create_file has taken so far.  It stays taken if the call ends     *)
(* here.                                                                   *)
Taken ==
    LET at == Visited([first |-> op.first, size |-> Len(op.content)])
    IN  IF op.pc \notin {"alloc", "link", "data", "commit"} THEN {}
        ELSE {c \in Clusters : Live(c) /\ \/ \E i \in DOMAIN at : at[i] = c
                                          \/ op.pc = "link" /\ op.cur = c}

MarkAllocated(c) == [fat EXCEPT ![c] = EOC]

AllocCluster ==
    /\ op.pc = "alloc"
    /\ IF FreeClusters = {}
       THEN /\ Finish(IF MaxCluster >= FatEntries THEN "InvalidArgument"
                                                  ELSE "NoSpace")
            /\ leaked' = leaked \cup Taken
            /\ UNCHANGED fat
       ELSE LET c == FirstOf(FreeClusters)
            IN  /\ fat' = MarkAllocated(c)
                /\ op' = IF op.i = 1
                         THEN [op EXCEPT !.pc = "data", !.cur = c, !.first = c]
                         ELSE [op EXCEPT !.pc = "link", !.cur = c]
                /\ UNCHANGED <<ret, view, leaked>>
    /\ UNCHANGED <<boot, dir, data>>

(* The previous cluster of the file is pointed at the new one.             *)
Linked(prev, c) == [fat EXCEPT ![prev] = c]

LinkCluster ==
    /\ op.pc = "link"
    /\ fat' = Linked(op.prev, op.cur)
    /\ op' = [op EXCEPT !.pc = "data"]
    /\ UNCHANGED <<boot, dir, data, ret, view, leaked>>

DatumFirst(o) == o.content[1]
Datum(o) == o.content[o.i]

WriteCluster ==
    /\ op.pc = "data"
    /\ data' = [data EXCEPT ![op.cur] = Datum(op)]
    /\ op' = [op EXCEPT !.pc = IF op.i = Len(op.content) THEN "commit" ELSE "alloc",
                        !.prev = op.cur, !.i = @ + 1]
    /\ UNCHANGED <<boot, fat, dir, ret, view, leaked>>

CommitEntry ==
    /\ op.pc = "commit"
    /\ dir' = [dir EXCEPT ![op.slot] =
                  [used |-> TRUE, name |-> op.name, first |-> op.first,
                   size |-> Len(op.content)]]
    /\ Finish("Ok")
    /\ UNCHANGED <<boot, fat, data, leaked>>

-----------------------------------------------------------------------------
(* format: the magic, the FAT sector by sector, its two reserved entries,  *)
(* the root directory sector by sector.                                    *)
Format ==
    /\ op.pc = "idle"
    /\ Begin(NoOp("magic"))

WriteMagic ==
    /\ op.pc = "magic"
    /\ boot' = TRUE
    /\ op' = [op EXCEPT !.pc = "fat"]
    /\ UNCHANGED <<fat, dir, data, ret, view, leaked>>

ZeroFatSector ==
    /\ op.pc = "fat"
    /\ fat' = [c \in Clusters |-> IF c \div FatPerSector = op.i THEN FREE ELSE fat[c]]
    /\ op' = IF (op.i + 1) * FatPerSector >= FatEntries
             THEN [op EXCEPT !.pc = "fat0", !.i = 0]
             ELSE [op EXCEPT !.i = @ + 1]
    /\ UNCHANGED <<boot, dir, data, ret, view, leaked>>

WriteReserved ==
    /\ op.pc \in {"fat0", "fat1"}
    /\ fat' = IF op.pc = "fat0" THEN [fat EXCEPT ![0] = MEDIA]
                                ELSE [fat EXCEPT ![1] = EOC]
    /\ op' = [op EXCEPT !.pc = IF @ = "fat0" THEN "fat1" ELSE "dir"]
    /\ UNCHANGED <<boot, dir, data, ret, view, leaked>>

ZeroDirSector ==
    /\ op.pc = "dir"
    /\ dir' = [s \in Slot |-> IF s \div SlotsPerSector = op.i THEN Empty ELSE dir[s]]
    /\ IF (op.i + 1) * SlotsPerSector >= Slots
       THEN Finish("Ok") /\ leaked' = {}
       ELSE /\ op' = [op EXCEPT !.i = @ + 1]
            /\ UNCHANGED <<ret, view, leaked>>
    /\ UNCHANGED <<boot, fat, data>>

(* The power fails: the call is gone, the disk stays.                      *)
PowerLoss ==
    /\ op.pc \in CrashPoints
    /\ op' = NoOp("off")
    /\ view' = IF op.pc = "idle" THEN Readable ELSE view
    /\ leaked' = leaked \cup Taken
    /\ UNCHANGED <<disk, ret>>

(* kernel_main: a volume without the magic is formatted.  The kernel then  *)
(* looks for init.kef and creates it if it must, a call like any other.    *)
Boot ==
    /\ op.pc = "off"
    /\ IF boot THEN /\ op' = NoOp("idle")
                    /\ UNCHANGED <<disk, ret, view, leaked>>
       ELSE Begin(NoOp("magic"))

(* The disk image is created full of zeros (run.sh).                       *)
Init ==
    /\ boot = FALSE
    /\ fat = [c \in Clusters |-> FREE]
    /\ dir = [s \in Slot |-> Empty]
    /\ data = [c \in Clusters |-> Zero]
    /\ op = NoOp("off")
    /\ ret = "Ok"
    /\ view = Readable
    /\ leaked = {}

Call ==
    \/ \E n \in Names \cup BadNames : \/ \E c \in Contents : CreateFile(n, c)
                                      \/ DeleteFile(n)
    \/ Format

Step ==
    \/ FreeCluster \/ ClearEntry \/ AllocCluster \/ LinkCluster \/ WriteCluster
    \/ CommitEntry \/ WriteMagic \/ ZeroFatSector \/ WriteReserved \/ ZeroDirSector

Next == Call \/ Step \/ Boot \/ PowerLoss

Spec == Init /\ [][Next]_vars

(* A call that has the lock runs to its end, and the kernel boots.         *)
FairSpec == Spec /\ WF_vars(Step \/ Boot)

-----------------------------------------------------------------------------
TypeOK ==
    /\ boot \in BOOLEAN
    /\ fat \in [Clusters -> Clusters \cup {EOC, MEDIA}]
    /\ dir \in [Slot -> [used : BOOLEAN, name : Names \cup {None},
                         first : Clusters, size : Nat]]
    /\ DOMAIN data = Clusters
    /\ op.slot \in Slot /\ op.prev \in Clusters /\ op.first \in Clusters
    /\ op.cur \in Clusters \cup {EOC}
    /\ op.pc \in {"free", "link", "data"} => Live(op.cur)
    /\ ret \in {"Ok", "NoSpace", "InvalidArgument", "FileNotFound", "NotFormatted"}

(* The clusters of a directory entry's file.                               *)
Owned(s) == {c \in Clusters : Live(c) /\ \E i \in 1 .. dir[s].size :
                                             Visited(dir[s])[i] = c}

(* Two files never share a cluster, and no call writes data into a cluster *)
(* of a file: in every state, in the middle of every overwrite, delete and *)
(* format.                                                                 *)
NoCrossLink ==
    /\ \A s, u \in Slot : dir[s].used /\ dir[u].used /\ s # u =>
          Owned(s) \cap Owned(u) = {}
    /\ op.pc \in {"link", "data"} =>
          \A s \in Slot : dir[s].used => op.cur \notin Owned(s)

(* Between calls a file of k clusters has a chain of exactly k, its last   *)
(* one marked EOC: read_file fills no tail with zeros, and                 *)
(* free_cluster_chain frees all of the file and nothing else.              *)
ChainsExact ==
    op.pc = "idle" => \A s \in Slot : dir[s].used /\ dir[s].size > 0 =>
        LET at == Visited(dir[s]) IN
          /\ \A i \in DOMAIN at : Live(at[i])
          /\ fat[at[dir[s].size]] = EOC

(* Between calls every allocated cluster belongs to a file, or to a        *)
(* create_file that failed or lost power: overwriting and deleting give    *)
(* back all the clusters that writing took, a file never takes over one    *)
(* that leaked, and format gets them all back.                             *)
NoLeak ==
    op.pc = "idle" =>
        LET owned == UNION {Owned(s) : s \in {u \in Slot : dir[u].used}}
        IN  /\ {c \in Clusters : Live(c) /\ fat[c] # FREE} = owned \cup leaked
            /\ owned \cap leaked = {}

(* A name is in the directory once, so the entry find_file returns is the  *)
(* file: an overwrite leaves no second entry behind.                       *)
OneEntryPerName == \A n \in Names : \A s, u \in Found(n) : s = u

(* create_file, delete_file and format keep the files sound and apart.     *)
FilesSound == NoCrossLink /\ ChainsExact /\ OneEntryPerName

(* Every call comes to an end unless the power fails first: no loop of     *)
(* create_file, delete_file or format runs for ever, whatever chains the   *)
(* calls and crashes before it left.                                       *)
AtRest == op.pc \in {"idle", "off"}
CallsEnd == ~AtRest ~> AtRest

(* A write that fails for want of clusters says NoSpace, as the last line  *)
(* of alloc_cluster has it: "Maximum usable cluster = 2 + TOTAL_CLUSTERS   *)
(* - 1" (fs.rs:304).                                                       *)
FullIsNoSpace ==
    [][op.pc = "alloc" /\ op'.pc = "idle" => ret' = "NoSpace"]_vars

(* The first cluster of a file in use is in a chain ("First cluster in the *)
(* FAT chain (0 = no data)", fs.rs:149), whenever a call can see it.       *)
FirstInChain ==
    op.pc = "idle" => \A s \in Slot :
        dir[s].used /\ dir[s].first # 0 => fat[dir[s].first] # FREE

(* The map of names to contents that FileStore promises: while a call      *)
(* holds FS_LOCK, the map is what it was before the call.                  *)
Abstract == INSTANCE FileStore WITH
    files <- IF op.pc = "idle" THEN Readable ELSE view

(* Every call is one step of FileStore.                                    *)
IsFileStore == Abstract!Spec
=============================================================================
