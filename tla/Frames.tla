------------------------------- MODULE Frames -------------------------------
(***************************************************************************)
(* The physical frame allocator of src/src/memory.rs: a cursor that walks  *)
(* once over the UEFI memory map and never looks back.  A frame is a page  *)
(* number.  The map is one the firmware may leave; its descriptors do not  *)
(* overlap.                                                                *)
(***************************************************************************)
EXTENDS Integers, Sequences

CONSTANT MemoryMaps  \* sequences of [type, start, pages]

Descriptors == [type : STRING, start : Nat, pages : Nat]

NoOverlap(map) ==
    \A i, j \in DOMAIN map :
        i # j => \/ map[i].start + map[i].pages <= map[j].start
                 \/ map[j].start + map[j].pages <= map[i].start

ASSUME MapsAssumption ==
    \A map \in MemoryMaps :
        /\ DOMAIN map = 1 .. Len(map) /\ Len(map) \in Nat
        /\ \A i \in DOMAIN map : map[i] \in Descriptors
        /\ NoOverlap(map)

VARIABLES
    memory_map,
    cursor,  \* current_descriptor_index (from 1), current_page_offset
    given,   \* ghost: the frames handed out
    calls    \* ghost: how often allocate_frame returned one

framesVars == <<memory_map, cursor, given, calls>>

FramesInit ==
    /\ memory_map \in MemoryMaps
    /\ cursor = [index |-> 1, offset |-> 0]
    /\ given = {} /\ calls = 0

(* What a descriptor offers at an offset.  Page 0 is never handed out, and *)
(* with it goes the whole descriptor that begins there: the loop moves on. *)
Offers(i, offset) ==
    /\ i \in DOMAIN memory_map
    /\ memory_map[i].type = "conventional"
    /\ offset < memory_map[i].pages
    /\ memory_map[i].start + offset > 0

(* The place of the next frame: where the cursor is, or the first page of  *)
(* the next descriptor that offers one.                                    *)
IsNextPlace(i, offset) ==
    \/ /\ Offers(cursor.index, cursor.offset)
       /\ i = cursor.index /\ offset = cursor.offset
    \/ /\ ~Offers(cursor.index, cursor.offset)
       /\ cursor.index < i /\ offset = 0 /\ Offers(i, 0)
       /\ \A j \in DOMAIN memory_map : cursor.index < j /\ j < i => ~Offers(j, 0)

AfterKept(i, offset) == [index |-> i, offset |-> offset]
After(i, offset) == [index |-> i, offset |-> offset + 1]

Allocate(frame) ==
    \E i \in DOMAIN memory_map :
    \E offset \in {0, cursor.offset} :
        /\ IsNextPlace(i, offset)
        /\ frame = memory_map[i].start + offset
        /\ cursor' = After(i, offset)
        /\ given' = given \cup {frame} /\ calls' = calls + 1
        /\ UNCHANGED memory_map

(* None is left: allocate_frame returns None.                              *)
OutOfFrames ==
    /\ ~Offers(cursor.index, cursor.offset)
    /\ \A j \in DOMAIN memory_map : cursor.index < j => ~Offers(j, 0)

PagesIn(map) == UNION {map[i].start .. map[i].start + map[i].pages - 1 : i \in DOMAIN map}

FramesNext == \E frame \in PagesIn(memory_map) : Allocate(frame)
FramesSpec == FramesInit /\ [][FramesNext]_framesVars

-----------------------------------------------------------------------------
(* No frame is handed out twice: each time allocate_frame returns one, the *)
(* set of frames in use grows.  A frame is never freed, so two owners of   *)
(* one frame (a page table that is also heap) could only come from here.   *)
GivenOnce == [][calls' # calls => given' # given]_framesVars

(* Only ordinary memory is handed out, and never page 0.                   *)
GivenIsUsable ==
    \A f \in given : f > 0 /\ \E i \in DOMAIN memory_map :
        /\ memory_map[i].type = "conventional"
        /\ memory_map[i].start <= f /\ f < memory_map[i].start + memory_map[i].pages
=============================================================================
