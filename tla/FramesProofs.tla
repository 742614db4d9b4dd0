---------------------------- MODULE FramesProofs ----------------------------
(***************************************************************************)
(* For every memory map the firmware may leave, the frame allocator of     *)
(* src/src/memory.rs hands out usable frames only, and each at most once.  *)
(***************************************************************************)
EXTENDS Frames, TLAPS

(* A frame given is some page of a conventional descriptor, and the cursor *)
(* has passed that page.                                                   *)
Passed(i, offset) ==
    i < cursor.index \/ (i = cursor.index /\ offset < cursor.offset)
IsPlaceOf(f, i, offset) ==
    /\ memory_map[i].type = "conventional"
    /\ offset < memory_map[i].pages
    /\ f = memory_map[i].start + offset
    /\ f > 0

FramesInv ==
    /\ memory_map \in MemoryMaps
    /\ cursor \in [index : Nat, offset : Nat]
    /\ calls \in Nat
    /\ \A f \in given : \E i \in DOMAIN memory_map : \E offset \in Nat :
        IsPlaceOf(f, i, offset) /\ Passed(i, offset)

(* The next place is on offer, and the cursor has not passed it.           *)
LEMMA NextPlaceIsNew ==
    ASSUME FramesInv, NEW i \in DOMAIN memory_map, NEW offset \in {0, cursor.offset},
           IsNextPlace(i, offset)
    PROVE  /\ i \in Nat /\ offset \in Nat
           /\ IsPlaceOf(memory_map[i].start + offset, i, offset)
           /\ ~Passed(i, offset)
           /\ \A j \in DOMAIN memory_map : \A o \in Nat :
                Passed(j, o) => j < i \/ (j = i /\ o < offset)
<1>1. /\ memory_map \in MemoryMaps /\ cursor.index \in Nat /\ cursor.offset \in Nat
  BY DEF FramesInv
<1>2. /\ DOMAIN memory_map = 1 .. Len(memory_map) /\ Len(memory_map) \in Nat
      /\ memory_map[i] \in Descriptors
  BY <1>1, MapsAssumption
<1>3. i \in Nat /\ offset \in Nat /\ memory_map[i].start \in Nat /\ memory_map[i].pages \in Nat
  BY <1>1, <1>2 DEF Descriptors
<1>4. Offers(i, offset)
  BY DEF IsNextPlace
<1>5. (i = cursor.index /\ offset = cursor.offset) \/ (cursor.index < i /\ offset = 0)
  BY DEF IsNextPlace
<1>6. DOMAIN memory_map \subseteq Nat
  BY <1>2
<1> QED
  BY <1>1, <1>3, <1>4, <1>5, <1>6 DEF Offers, IsPlaceOf, Passed

(* Pages of two descriptors, or two pages of one, are different frames.    *)
LEMMA PlacesDiffer ==
    ASSUME FramesInv, NEW i \in DOMAIN memory_map, NEW j \in DOMAIN memory_map,
           NEW o \in Nat, NEW p \in Nat, NEW f, NEW g,
           IsPlaceOf(f, i, o), IsPlaceOf(g, j, p), i # j \/ o # p
    PROVE  f # g
<1>1. memory_map \in MemoryMaps
  BY DEF FramesInv
<1>2. NoOverlap(memory_map) /\ memory_map[i] \in Descriptors /\ memory_map[j] \in Descriptors
  BY <1>1, MapsAssumption
<1>3. /\ memory_map[i].start \in Nat /\ memory_map[i].pages \in Nat
      /\ memory_map[j].start \in Nat /\ memory_map[j].pages \in Nat
  BY <1>2 DEF Descriptors
<1>4. CASE i = j
  BY <1>3, <1>4 DEF IsPlaceOf
<1>5. CASE i # j
  <2>1. \/ memory_map[i].start + memory_map[i].pages <= memory_map[j].start
        \/ memory_map[j].start + memory_map[j].pages <= memory_map[i].start
    BY <1>2, <1>5 DEF NoOverlap
  <2> QED
    BY <2>1, <1>3 DEF IsPlaceOf
<1> QED
  BY <1>4, <1>5

(* An allocation keeps the invariant and returns a frame nobody has.       *)
LEMMA AllocateIsFresh ==
    ASSUME FramesInv, NEW frame, Allocate(frame)
    PROVE  FramesInv' /\ frame \notin given /\ given' = given \cup {frame}
<1>1. PICK i \in DOMAIN memory_map, offset \in {0, cursor.offset} :
        /\ IsNextPlace(i, offset)
        /\ frame = memory_map[i].start + offset
        /\ cursor' = After(i, offset)
        /\ given' = given \cup {frame} /\ calls' = calls + 1
        /\ UNCHANGED memory_map
  BY DEF Allocate
<1>2. /\ i \in Nat /\ offset \in Nat
      /\ IsPlaceOf(frame, i, offset)
      /\ ~Passed(i, offset)
      /\ \A j \in DOMAIN memory_map : \A o \in Nat :
            Passed(j, o) => j < i \/ (j = i /\ o < offset)
  BY <1>1, NextPlaceIsNew
<1>3. frame \notin given
  <2> SUFFICES ASSUME frame \in given PROVE FALSE
    OBVIOUS
  <2>1. PICK j \in DOMAIN memory_map, o \in Nat : IsPlaceOf(frame, j, o) /\ Passed(j, o)
    BY DEF FramesInv
  <2>2. i # j \/ offset # o
    BY <1>2, <2>1
  <2> QED
    BY <1>2, <2>1, <2>2, PlacesDiffer
<1>4. cursor' = [index |-> i, offset |-> offset + 1]
  BY <1>1 DEF After
<1>5. \A f \in given' : \E j \in DOMAIN memory_map' : \E o \in Nat :
        IsPlaceOf(f, j, o)' /\ Passed(j, o)'
  <2> SUFFICES ASSUME NEW f \in given'
               PROVE  \E j \in DOMAIN memory_map : \E o \in Nat :
                        IsPlaceOf(f, j, o) /\ (j < i \/ (j = i /\ o < offset + 1))
    BY <1>1, <1>4 DEF IsPlaceOf, Passed
  <2>1. CASE f = frame
    BY <2>1, <1>2
  <2>2. CASE f \in given
    <3>1. PICK j \in DOMAIN memory_map, o \in Nat : IsPlaceOf(f, j, o) /\ Passed(j, o)
      BY <2>2 DEF FramesInv
    <3>2. j < i \/ (j = i /\ o < offset + 1)
      BY <3>1, <1>2
    <3> QED
      BY <3>1, <3>2
  <2> QED
    BY <2>1, <2>2, <1>1
<1> QED
  BY <1>1, <1>2, <1>3, <1>4, <1>5 DEF FramesInv

(* The inductive invariant: the cursor is past every frame given.          *)
THEOREM FramesInvariant == FramesSpec => []FramesInv
<1>1. FramesInit => FramesInv
  BY DEF FramesInit, FramesInv
<1>2. FramesInv /\ [FramesNext]_framesVars => FramesInv'
  <2> SUFFICES ASSUME FramesInv, [FramesNext]_framesVars PROVE FramesInv'
    OBVIOUS
  <2>1. CASE FramesNext
    BY <2>1, AllocateIsFresh DEF FramesNext
  <2>2. CASE UNCHANGED framesVars
    BY <2>2 DEF framesVars, FramesInv, IsPlaceOf, Passed
  <2> QED
    BY <2>1, <2>2
<1> QED
  BY <1>1, <1>2, PTL DEF FramesSpec

(* allocate_frame returns only pages of conventional memory, never page 0. *)
THEOREM OnlyUsableFrames == FramesSpec => []GivenIsUsable
<1>1. FramesInv => GivenIsUsable
  <2> SUFFICES ASSUME FramesInv, NEW f \in given
               PROVE  f > 0 /\ \E i \in DOMAIN memory_map :
                        /\ memory_map[i].type = "conventional"
                        /\ memory_map[i].start <= f
                        /\ f < memory_map[i].start + memory_map[i].pages
    BY DEF GivenIsUsable
  <2>1. PICK i \in DOMAIN memory_map, o \in Nat : IsPlaceOf(f, i, o)
    BY DEF FramesInv
  <2>2. memory_map[i] \in Descriptors
    BY MapsAssumption DEF FramesInv
  <2> QED
    BY <2>1, <2>2 DEF IsPlaceOf, Descriptors
<1> QED
  BY <1>1, FramesInvariant, PTL

(* allocate_frame never returns the same frame twice.                      *)
THEOREM FramesGivenOnce == FramesSpec => GivenOnce
<1>1. FramesInv /\ [FramesNext]_framesVars => [calls' # calls => given' # given]_framesVars
  <2> SUFFICES ASSUME FramesInv, [FramesNext]_framesVars, calls' # calls
               PROVE  given' # given
    OBVIOUS
  <2>1. PICK frame : Allocate(frame)
    BY DEF FramesNext, framesVars
  <2> QED
    BY <2>1, AllocateIsFresh
<1> QED
  BY <1>1, FramesInvariant, PTL DEF FramesSpec, GivenOnce
=============================================================================
