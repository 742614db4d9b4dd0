------------------------------ MODULE XhciRings ------------------------------
(***************************************************************************)
(* The rings of src/src/xhci.rs, slot by slot: a command or transfer ring, *)
(* which the driver fills and the controller empties; the event ring,      *)
(* which the controller fills and process_events empties; the buffer of    *)
(* typed characters.  The owner of a TRB is told by its cycle bit.  Module *)
(* Xhci uses the three as queues; here they are shown to be queues.        *)
(*                                                                         *)
(* The controller (external) reads a ring up to the first TRB whose cycle  *)
(* bit is not its own, follows the link TRB at the end, and writes events  *)
(* as long as the ring has room behind the dequeue pointer register.       *)
(***************************************************************************)
EXTENDS Integers, Sequences

CONSTANTS
    Items,      \* what goes through the rings
    Usable,     \* TRBs of a command or transfer ring before the link (255)
    EventSize,  \* event_ring_size (256)
    KBD_BUF_SIZE

ASSUME RingsAssumption ==
    /\ Usable \in Nat /\ Usable >= 2 /\ EventSize \in Nat /\ EventSize >= 2
    /\ KBD_BUF_SIZE \in Nat /\ KBD_BUF_SIZE >= 2

Nothing == "nothing"

VARIABLES
    trb,         \* the ring's TRBs, the link last
    enqueue_index, cycle_bit,
    dequeue, ccs,  \* the controller's place in it and its cycle state
    fetchedTrb,  \* the TRB the controller read last
    event,       \* EVENT_RING_BUFFER
    eenqueue, pcs, \* the controller's place and cycle state
    erdp,        \* the dequeue pointer register
    erdp_val, inside, \* process_events and its copy of the register
    event_cycle, \* event_ring_cycle_bit
    taken,       \* the event process_events read last
    KEYBOARD_BUFFER, KBD_BUF_HEAD, KBD_BUF_TAIL,
    typed        \* the key get_key returned last

ringVars == <<trb, enqueue_index, cycle_bit, dequeue, ccs, fetchedTrb>>
eventVars == <<event, eenqueue, pcs, erdp, erdp_val, inside, event_cycle, taken>>
keyVars == <<KEYBOARD_BUFFER, KBD_BUF_HEAD, KBD_BUF_TAIL, typed>>
ringsVars == <<ringVars, eventVars, keyVars>>

EmptyTrb(c) == [item |-> Nothing, cycle |-> c]

(* TransferRing::new and CommandRing::new, the event ring of init, and the *)
(* empty keyboard buffer.                                                  *)
RingsInit ==
    /\ trb = [i \in 0 .. Usable |-> EmptyTrb(0)]
    /\ enqueue_index = 0 /\ cycle_bit = 1
    /\ dequeue = 0 /\ ccs = 1 /\ fetchedTrb = Nothing
    /\ event = [i \in 0 .. EventSize - 1 |-> EmptyTrb(0)]
    /\ eenqueue = 0 /\ pcs = 1 /\ erdp = 0 /\ erdp_val = 0 /\ inside = FALSE
    /\ event_cycle = 1 /\ taken = Nothing
    /\ KEYBOARD_BUFFER = [i \in 0 .. KBD_BUF_SIZE - 1 |-> Nothing]
    /\ KBD_BUF_HEAD = 0 /\ KBD_BUF_TAIL = 0 /\ typed = Nothing

-----------------------------------------------------------------------------
(* What the controller would read on: from its place, over the link if the *)
(* link is its own, to the first TRB with the other cycle bit.             *)
TrbAt(k) ==
    LET over == dequeue + k >= Usable
    IN  [index |-> (dequeue + k) % Usable, cycle |-> IF over THEN 1 - ccs ELSE ccs,
         reached |-> over => trb[Usable].cycle = ccs]
TrbQueue ==
    LET stops == {k \in 0 .. Usable : \/ k = Usable \/ ~TrbAt(k).reached
                                      \/ trb[TrbAt(k).index].cycle # TrbAt(k).cycle}
        n == CHOOSE k \in stops : \A l \in stops : k <= l
    IN  [k \in 1 .. n |-> trb[TrbAt(k - 1).index].item]

(* enqueue: the TRB with the ring's cycle bit; behind the last one the     *)
(* link is handed over and the bit toggles.  It does not look whether the  *)
(* controller is done with the slot; the first conjunct is no test of the  *)
(* code but what its callers keep to, RingsHaveRoom of module Xhci.  (With *)
(* Usable TRBs in flight, a controller that has not followed the link yet  *)
(* would find it handed over twice and stop.)                              *)
LinkKept(c) == trb[Usable]
LinkGiven(c) == [trb[Usable] EXCEPT !.cycle = c]

Enqueue(x) ==
    /\ Len(TrbQueue) < Usable - 1
    /\ LET last == enqueue_index + 1 >= Usable IN
       /\ trb' = [trb EXCEPT ![enqueue_index] = [item |-> x, cycle |-> cycle_bit],
                             ![Usable] = IF last THEN LinkGiven(cycle_bit) ELSE @]
       /\ enqueue_index' = IF last THEN 0 ELSE enqueue_index + 1
       /\ cycle_bit' = IF last THEN 1 - cycle_bit ELSE cycle_bit
    /\ UNCHANGED <<dequeue, ccs, fetchedTrb, eventVars, keyVars>>

ControllerFetch ==
    /\ dequeue < Usable /\ trb[dequeue].cycle = ccs
    /\ fetchedTrb' = trb[dequeue].item
    /\ dequeue' = dequeue + 1
    /\ UNCHANGED <<trb, enqueue_index, cycle_bit, ccs, eventVars, keyVars>>

ControllerLink ==
    /\ dequeue = Usable /\ trb[Usable].cycle = ccs
    /\ dequeue' = 0 /\ ccs' = 1 - ccs
    /\ UNCHANGED <<trb, enqueue_index, cycle_bit, fetchedTrb, eventVars, keyVars>>

-----------------------------------------------------------------------------
ControllerPost(x) ==
    /\ (eenqueue + 1) % EventSize # erdp
    /\ event' = [event EXCEPT ![eenqueue] = [item |-> x, cycle |-> pcs]]
    /\ eenqueue' = (eenqueue + 1) % EventSize
    /\ pcs' = IF eenqueue + 1 = EventSize THEN 1 - pcs ELSE pcs
    /\ UNCHANGED <<ringVars, erdp, erdp_val, inside, event_cycle, taken, keyVars>>

(* process_events: the register is read, events are taken as long as their *)
(* cycle bit is the ring's, and the register is written.                   *)
EnterEvents ==
    /\ ~inside
    /\ inside' = TRUE /\ erdp_val' = erdp
    /\ UNCHANGED <<ringVars, event, eenqueue, pcs, erdp, event_cycle, taken, keyVars>>

AfterToggle(at, c) == IF at + 1 >= EventSize THEN 1 - c ELSE c
NextEvent ==
    /\ inside /\ event[erdp_val].cycle = event_cycle
    /\ taken' = event[erdp_val].item
    /\ erdp_val' = IF erdp_val + 1 >= EventSize THEN 0 ELSE erdp_val + 1
    /\ event_cycle' = AfterToggle(erdp_val, event_cycle)
    /\ UNCHANGED <<ringVars, event, eenqueue, pcs, erdp, inside, keyVars>>

LeaveEvents ==
    /\ inside /\ event[erdp_val].cycle # event_cycle
    /\ inside' = FALSE /\ erdp' = erdp_val
    /\ UNCHANGED <<ringVars, event, eenqueue, pcs, erdp_val, event_cycle, taken, keyVars>>

(* push_key drops the key when the buffer is full.                         *)
IsFull(next) == next = KBD_BUF_TAIL
PushKey(x) ==
    LET next == (KBD_BUF_HEAD + 1) % KBD_BUF_SIZE IN
    /\ ~IsFull(next)
    /\ KEYBOARD_BUFFER' = [KEYBOARD_BUFFER EXCEPT ![KBD_BUF_HEAD] = x]
    /\ KBD_BUF_HEAD' = next
    /\ UNCHANGED <<ringVars, eventVars, KBD_BUF_TAIL, typed>>

GetKey ==
    /\ KBD_BUF_HEAD # KBD_BUF_TAIL
    /\ typed' = KEYBOARD_BUFFER[KBD_BUF_TAIL]
    /\ KBD_BUF_TAIL' = (KBD_BUF_TAIL + 1) % KBD_BUF_SIZE
    /\ UNCHANGED <<ringVars, eventVars, KEYBOARD_BUFFER, KBD_BUF_HEAD>>

TrbStep == (\E x \in Items : Enqueue(x)) \/ ControllerFetch \/ ControllerLink
EventStep ==
    (\E x \in Items : ControllerPost(x)) \/ EnterEvents \/ NextEvent \/ LeaveEvents
KeyStep == (\E x \in Items : PushKey(x)) \/ GetKey

RingsNext == TrbStep \/ EventStep \/ KeyStep

RingsSpec == RingsInit /\ [][RingsNext]_ringsVars

-----------------------------------------------------------------------------
(* The events process_events has still to read.                            *)
EventFrom == IF inside THEN erdp_val ELSE erdp
EventAt(k) ==
    [index |-> (EventFrom + k) % EventSize,
     cycle |-> IF EventFrom + k >= EventSize THEN 1 - event_cycle ELSE event_cycle]
EventQueue ==
    LET stops == {k \in 0 .. EventSize :
                    k = EventSize \/ event[EventAt(k).index].cycle # EventAt(k).cycle}
        n == CHOOSE k \in stops : \A l \in stops : k <= l
    IN  [k \in 1 .. n |-> event[EventAt(k - 1).index].item]

KeyQueue ==
    [k \in 1 .. (KBD_BUF_HEAD - KBD_BUF_TAIL) % KBD_BUF_SIZE |->
        KEYBOARD_BUFFER[(KBD_BUF_TAIL + k - 1) % KBD_BUF_SIZE]]

TrbRing == INSTANCE Fifo WITH
    Item <- Items, Capacity <- Usable - 1, queue <- TrbQueue, out <- fetchedTrb
(* A command or transfer ring is a queue through every wrap: the           *)
(* controller reads each TRB once, in order, never one of an earlier lap,  *)
(* and stops where the driver stopped.                                     *)
TrbRingIsFifo == TrbRing!Spec

EventRing == INSTANCE Fifo WITH
    Item <- Items, Capacity <- EventSize - 1, queue <- EventQueue, out <- taken
(* The event ring is a queue: process_events takes each event once and in  *)
(* order, and none is overwritten before it was read.                      *)
EventRingIsFifo == EventRing!Spec

KeyBuffer == INSTANCE Fifo WITH
    Item <- Items, Capacity <- KBD_BUF_SIZE - 1, queue <- KeyQueue, out <- typed
(* The keyboard buffer is a queue of KBD_BUF_SIZE - 1 keys: get_key        *)
(* returns them as typed, and a full buffer loses new keys, not old ones.  *)
KeysAreFifo == KeyBuffer!Spec

(* enqueue, process_events and push_key keep the three rings of the driver *)
(* queues, whichever side runs ahead.                                      *)
UsbRingsAreFifo == TrbRingIsFifo /\ EventRingIsFifo /\ KeysAreFifo
=============================================================================
