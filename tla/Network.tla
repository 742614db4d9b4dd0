------------------------------- MODULE Network -------------------------------
(***************************************************************************)
(* The network code of src/src/network: the e1000 driver's two descriptor  *)
(* rings (e1000.rs), the interface above it (mod.rs, driver.rs), and the   *)
(* handler that answers ARP and ping (arp.rs).  Nothing in the kernel      *)
(* calls the handler yet; here it is called again and again by one CPU,    *)
(* with no lock.  The card (external) sends and receives in its own time.  *)
(*                                                                         *)
(* Abstractions.  A frame is what the handler can tell about it.  Lengths  *)
(* are those of well-formed frames; one below the handler's length checks  *)
(* is not answered and counts as "other".  A buffer whose frame was sent   *)
(* or polled counts as empty.                                              *)
(***************************************************************************)
EXTENDS Integers, Sequences

CONSTANT RING_SIZE   \* descriptors in each ring (16)

ASSUME NetworkAssumption == RING_SIZE \in Nat /\ RING_SIZE >= 2

Desc == 0 .. RING_SIZE - 1
Incoming == {"arp_for_me", "ping_for_me", "other"}
Outgoing == {"arp_request", "arp_reply", "echo_reply"}
NoFrame == "none"

VARIABLES
    up,       \* ACTIVE_NIC is set
    tx,       \* TX_DESC_RING and its buffers: cmd # 0, status DD, the frame
    tx_next,
    tdt, tdh, \* REG_TDT; the card's head
    rx,       \* RX_DESC_RING and its buffers: status DD, the frame
    rx_next,
    rdt, rdh, \* REG_RDT; the card's head
    polled,   \* the frame poll_rx copied out last
    pending,  \* the answer handle_incoming_packets is about to send
    wire      \* the frame the card sent last

netVars == <<up, tx, tx_next, tdt, tdh, rx, rx_next, rdt, rdh, polled, pending, wire>>
txVars == <<tx, tx_next, tdt, tdh, wire>>
rxVars == <<rx, rx_next, rdt, rdh, polled>>

NetInit ==
    /\ up = FALSE
    /\ tx = [i \in Desc |-> [cmd |-> FALSE, dd |-> FALSE, frame |-> NoFrame]]
    /\ rx = [i \in Desc |-> [dd |-> FALSE, frame |-> NoFrame]]
    /\ tx_next = 0 /\ rx_next = 0
    /\ tdt = 0 /\ tdh = 0 /\ rdt = 0 /\ rdh = 0
    /\ polled = NoFrame /\ pending = NoFrame /\ wire = NoFrame

(* network::init and E1000::init: the rings are described to the card; all *)
(* receive descriptors but the last are its own.                           *)
FirstRdt == RING_SIZE - 1
setup_rx_ring ==
    /\ rx' = [i \in Desc |-> [rx[i] EXCEPT !.dd = FALSE]]
    /\ rdh' = 0 /\ rdt' = FirstRdt

setup_tx_ring == tdh' = 0 /\ tdt' = 0

NicInit ==
    /\ ~up
    /\ setup_rx_ring /\ setup_tx_ring
    /\ rx_next' = 0 /\ tx_next' = 0
    /\ up' = TRUE
    /\ UNCHANGED <<tx, polled, pending, wire>>

NextDescPast(i) == i + 1
NextDesc(i) == (i + 1) % RING_SIZE

(* transmit: refused while the card has not given the descriptor back.     *)
Busy(i) == ~tx[i].dd /\ tx[i].cmd
Transmit(f) ==
    IF ~up \/ Busy(tx_next) THEN UNCHANGED txVars
    ELSE /\ tx' = [tx EXCEPT ![tx_next] = [cmd |-> TRUE, dd |-> FALSE, frame |-> f]]
         /\ tx_next' = NextDesc(tx_next)
         /\ tdt' = tx_next'
         /\ UNCHANGED <<tdh, wire>>

(* poll_rx: the buffer is copied out, and the descriptor goes back to the  *)
(* card by moving the tail to it.                                          *)
CopiedNext(i) == rx[(i + 1) % RING_SIZE].frame
Copied(i) == rx[i].frame
Returned(i) == i
PollRx ==
    /\ rx[rx_next].dd
    /\ polled' = Copied(rx_next)
    /\ rx' = [rx EXCEPT ![rx_next] = [dd |-> FALSE, frame |-> NoFrame]]
    /\ rdt' = Returned(rx_next)
    /\ rx_next' = NextDesc(rx_next)
    /\ UNCHANGED rdh

(* send_arp_request; what transmit returns is not looked at.               *)
SendArpRequest ==
    /\ pending = NoFrame
    /\ Transmit("arp_request")
    /\ UNCHANGED <<up, rxVars, pending>>

(* handle_incoming_packets, up to its answer, and the answer.              *)
Answer(f) == CASE f = "arp_for_me"  -> "arp_reply"
               [] f = "ping_for_me" -> "echo_reply"
               [] OTHER             -> NoFrame

HandleIncoming ==
    /\ up /\ pending = NoFrame
    /\ PollRx
    /\ pending' = Answer(rx[rx_next].frame)
    /\ UNCHANGED <<up, txVars>>

SendAnswer ==
    /\ pending # NoFrame
    /\ Transmit(pending)
    /\ pending' = NoFrame
    /\ UNCHANGED <<up, rxVars>>

-----------------------------------------------------------------------------
(* The card owns the descriptors from its head up to the tail register.    *)
CardSend ==
    /\ up /\ tdh # tdt
    /\ wire' = tx[tdh].frame
    /\ tx' = [tx EXCEPT ![tdh].dd = TRUE, ![tdh].frame = NoFrame]
    /\ tdh' = (tdh + 1) % RING_SIZE
    /\ UNCHANGED <<up, tx_next, tdt, rxVars, pending>>

CardReceive(f) ==
    /\ up /\ rdh # rdt
    /\ rx' = [rx EXCEPT ![rdh] = [dd |-> TRUE, frame |-> f]]
    /\ rdh' = (rdh + 1) % RING_SIZE
    /\ UNCHANGED <<up, rx_next, rdt, polled, txVars, pending>>

NetNext ==
    \/ NicInit \/ SendArpRequest \/ HandleIncoming \/ SendAnswer
    \/ CardSend \/ \E f \in Incoming : CardReceive(f)

NetSpec == NetInit /\ [][NetNext]_netVars

-----------------------------------------------------------------------------
Ahead(i, k) == (i + k) % RING_SIZE
Least(stops) == CHOOSE k \in stops : \A l \in stops : k <= l

(* The frames to poll: the run of done descriptors from rx_next on.  The   *)
(* frames to send: the run of busy ones from the card's head on.           *)
RxStops == {k \in 0 .. RING_SIZE : k = RING_SIZE \/ ~rx[Ahead(rx_next, k)].dd}
RxQueue == [k \in 1 .. Least(RxStops) |-> rx[Ahead(rx_next, k - 1)].frame]
TxStops ==
    {k \in 0 .. RING_SIZE :
        k = RING_SIZE \/ ~(tx[Ahead(tdh, k)].cmd /\ ~tx[Ahead(tdh, k)].dd)}
TxQueue == [k \in 1 .. Least(TxStops) |-> tx[Ahead(tdh, k - 1)].frame]

(* The state the driver and the card leave the rings in.                   *)
NetTypeOK ==
    /\ up \in BOOLEAN
    /\ tx \in [Desc -> [cmd : BOOLEAN, dd : BOOLEAN, frame : Outgoing \cup {NoFrame}]]
    /\ rx \in [Desc -> [dd : BOOLEAN, frame : Incoming \cup {NoFrame}]]
    /\ {tx_next, rx_next, tdt, tdh, rdt, rdh} \subseteq Desc
    /\ polled \in Incoming \cup {NoFrame}
    /\ pending \in Outgoing \cup {NoFrame} /\ wire \in Outgoing \cup {NoFrame}

RxRing == INSTANCE Fifo WITH
    Item <- Incoming, Capacity <- RING_SIZE - 1, queue <- RxQueue, out <- polled
(* The receive ring is a queue: poll_rx returns the frames the card stored *)
(* in the order they came, each once, and the card never writes into a     *)
(* buffer that has not been polled.                                        *)
RxIsFifo == RxRing!Spec

TxRing == INSTANCE Fifo WITH
    Item <- Outgoing, Capacity <- RING_SIZE, queue <- TxQueue, out <- wire
(* The transmit ring is a queue: the frames transmit accepted go out in    *)
(* that order, and transmit never overwrites one the card still has.       *)
TxIsFifo == TxRing!Spec

(* The card sees what the driver queued: between its head and the tail     *)
(* register lie all unsent frames (none at all once all RING_SIZE          *)
(* descriptors are taken: head and tail are then equal), and every receive *)
(* descriptor but one is the card's or holds a frame to poll.              *)
CardSeesQueue ==
    up => /\ (tdt - tdh) % RING_SIZE = Len(TxQueue) % RING_SIZE
          /\ ((rdt - rdh) % RING_SIZE) + Len(RxQueue) = RING_SIZE - 1

(* transmit and poll_rx keep both rings queues, and the head and tail      *)
(* registers give their lengths modulo RING_SIZE: with every transmit      *)
(* descriptor outstanding head and tail are equal, and the card sees none. *)
NetRingsAreFifo == RxIsFifo /\ TxIsFifo /\ []CardSeesQueue
=============================================================================
