---------------------------- MODULE NetworkProofs ----------------------------
(***************************************************************************)
(* The two descriptor rings of src/src/network/e1000.rs are queues, for    *)
(* every RING_SIZE, and the card sees in them what the driver queued.      *)
(***************************************************************************)
EXTENDS Network, RingLemmas

(* How far a head is ahead, in a ring.                                     *)
Between(from, to) == IF from <= to THEN to - from ELSE to - from + RING_SIZE
IsBetween(i, from, to) == IF from <= to THEN from <= i /\ i < to ELSE from <= i \/ i < to

RxFrames == Incoming \cup {NoFrame}
TxFrames == Outgoing \cup {NoFrame}

-----------------------------------------------------------------------------
(* The receive ring.  The done descriptors are those from rx_next up to    *)
(* the card's head; the tail register is right behind rx_next, so the head *)
(* cannot come round to it.                                                *)
RxInv ==
    /\ rx \in [Desc -> [dd : BOOLEAN, frame : RxFrames]]
    /\ rx_next \in Desc /\ rdh \in Desc /\ rdt \in Desc
    /\ up => rdt = IF rx_next = 0 THEN RING_SIZE - 1 ELSE rx_next - 1
    /\ ~up => rx_next = 0 /\ rdh = 0
    /\ \A i \in Desc : rx[i].dd <=> IsBetween(i, rx_next, rdh)

RxCount == Between(rx_next, rdh)
RxItems == [i \in Desc |-> rx[i].frame]
RxShape ==
    /\ RxQueue = View(RxItems, rx_next, RxCount, RING_SIZE)
    /\ RxCount \in 0 .. RING_SIZE - 1

(* The descriptor k places on from a place.                                *)
LEMMA AheadIs ==
    ASSUME NEW i \in Desc, NEW k \in 0 .. RING_SIZE
    PROVE  /\ Ahead(i, k) \in Desc
           /\ \/ i + k < RING_SIZE /\ Ahead(i, k) = i + k
              \/ RING_SIZE <= i + k /\ Ahead(i, k) = i + k - RING_SIZE
<1> DEFINE n == RING_SIZE  x == i + k
<1>1. n \in Nat \ {0} /\ x \in 0 .. 2 * n - 1 /\ Desc = 0 .. n - 1 /\ Ahead(i, k) = x % n
  BY NetworkAssumption DEF Desc, Ahead
<1>2. x \in Int
  BY <1>1
<1> HIDE DEF n, x
<1>3. x % n \in 0 .. n - 1 /\ ((x < n /\ x % n = x) \/ (n <= x /\ x % n = x - n))
  BY <1>1, ModPlace
<1>4. Ahead(i, k) \in Desc /\ ((x < n /\ Ahead(i, k) = x) \/ (n <= x /\ Ahead(i, k) = x - n))
  BY <1>1, <1>3
<1>5. i \in Int /\ k \in Int /\ RING_SIZE \in Int
  BY NetworkAssumption DEF Desc
<1> QED
  BY <1>4, <1>5 DEF n, x

LEMMA RxQueueIs == ASSUME RxInv PROVE RxShape
<1> DEFINE n == RING_SIZE  from == rx_next  c == RxCount
<1>0. n \in Nat \ {0} /\ n >= 2 /\ Desc = 0 .. n - 1 /\ from \in 0 .. n - 1 /\ rdh \in 0 .. n - 1
  BY NetworkAssumption DEF Desc, RxInv
<1>1. c \in 0 .. n - 1
  BY <1>0 DEF RxCount, Between
<1>2. c \in RxStops
  <2>0. /\ c = IF from <= rdh THEN rdh - from ELSE rdh - from + n
        /\ c \in 0 .. n
    BY <1>0, <1>1 DEF RxCount, Between
  <2> HIDE DEF c
  <2>1. Ahead(from, c) = rdh
    <3>1. \/ from + c < n /\ Ahead(from, c) = from + c
          \/ n <= from + c /\ Ahead(from, c) = from + c - n
      BY <1>0, <2>0, AheadIs
    <3> QED
      BY <1>0, <2>0, <3>1
  <2>2. ~rx[rdh].dd
    BY <1>0 DEF RxInv, IsBetween
  <2> QED
    BY <1>0, <1>1, <2>1, <2>2 DEF RxStops
<1>3. ASSUME NEW l \in RxStops, l < c PROVE FALSE
  <2>1. l \in 0 .. n - 1 /\ l \in 0 .. n /\ ~rx[Ahead(from, l)].dd
    BY <1>0, <1>1, <1>3 DEF RxStops
  <2>2. /\ Ahead(from, l) \in Desc
        /\ \/ from + l < n /\ Ahead(from, l) = from + l
           \/ n <= from + l /\ Ahead(from, l) = from + l - n
    BY <1>0, <2>1, AheadIs
  <2>3. l < IF from <= rdh THEN rdh - from ELSE rdh - from + n
    BY <1>3 DEF RxCount, Between
  <2>4. IsBetween(Ahead(from, l), rx_next, rdh)
    BY <1>0, <2>1, <2>2, <2>3 DEF IsBetween
  <2> QED
    BY <2>1, <2>2, <2>4 DEF RxInv
<1>4. RxStops \subseteq Int /\ \A l \in RxStops : c <= l
  BY <1>0, <1>1, <1>3 DEF RxStops
<1>5. Least(RxStops) = c
  BY <1>2, <1>4, LeastIs DEF Least
<1>6. ASSUME NEW k \in 1 .. c
      PROVE  rx[Ahead(from, k - 1)].frame = RxItems[(from + k - 1) % n]
  <2>1. k - 1 \in 0 .. n /\ from + (k - 1) = from + k - 1
    BY <1>0, <1>1
  <2>2. Ahead(from, k - 1) \in Desc
    BY <1>0, <2>1, AheadIs
  <2>3. Ahead(from, k - 1) = (from + k - 1) % n
    BY <2>1 DEF Ahead
  <2> QED
    BY <2>2, <2>3 DEF RxItems
<1>7. RxQueue = View(RxItems, from, c, n)
  BY <1>5, <1>6 DEF RxQueue, View
<1> QED
  BY <1>1, <1>7 DEF RxShape

LEMMA NextDescIs ==
    ASSUME NEW i \in Desc
    PROVE  /\ (i + 1) % RING_SIZE \in Desc
           /\ (i + 1) % RING_SIZE = IF i + 1 = RING_SIZE THEN 0 ELSE i + 1
<1> DEFINE n == RING_SIZE
<1>1. n \in Nat \ {0} /\ i \in 0 .. n - 1 /\ Desc = 0 .. n - 1
  BY NetworkAssumption DEF Desc
<1> QED
  BY <1>1, NextPlace

(* The card fills the descriptor at its head.                              *)
LEMMA ReceiveKeeps ==
    ASSUME RxInv, NEW f \in Incoming, CardReceive(f)
    PROVE  RxInv' /\ RxCount' = RxCount + 1
<1>0. RING_SIZE \in Nat /\ RING_SIZE >= 2 /\ Desc = 0 .. RING_SIZE - 1
  BY NetworkAssumption DEF Desc
<1>1. /\ up /\ rdh # rdt /\ rx' = [rx EXCEPT ![rdh] = [dd |-> TRUE, frame |-> f]]
      /\ rdh' = (rdh + 1) % RING_SIZE /\ UNCHANGED <<up, rx_next, rdt>>
  BY DEF CardReceive
<1>2. rdh' = (IF rdh + 1 = RING_SIZE THEN 0 ELSE rdh + 1) /\ rdh' \in Desc
  BY <1>1, NextDescIs DEF RxInv
<1>3. rx' \in [Desc -> [dd : BOOLEAN, frame : RxFrames]]
  BY <1>1 DEF RxInv, RxFrames
<1>4. \A i \in Desc : IF i = rdh THEN rx'[i].dd ELSE rx'[i].dd <=> rx[i].dd
  BY <1>1 DEF RxInv
<1>5. rdt = (IF rx_next = 0 THEN RING_SIZE - 1 ELSE rx_next - 1) /\ rdh # rdt
  BY <1>1 DEF RxInv
<1>6. \A i \in Desc : IsBetween(i, rx_next, rdh') <=> i = rdh \/ IsBetween(i, rx_next, rdh)
  BY <1>0, <1>2, <1>5 DEF RxInv, IsBetween
<1>7. \A i \in Desc : rx'[i].dd <=> IsBetween(i, rx_next, rdh')
  BY <1>4, <1>6 DEF RxInv
<1>8. RxInv'
  BY <1>1, <1>2, <1>3, <1>7 DEF RxInv
<1>9. RxCount' = RxCount + 1
  <2>1. RxCount' = IF rx_next <= rdh' THEN rdh' - rx_next ELSE rdh' - rx_next + RING_SIZE
    BY <1>1 DEF RxCount, Between
  <2>2. RxCount = IF rx_next <= rdh THEN rdh - rx_next ELSE rdh - rx_next + RING_SIZE
    BY DEF RxCount, Between
  <2>3. rx_next \in 0 .. RING_SIZE - 1 /\ rdh \in 0 .. RING_SIZE - 1
    BY <1>0 DEF RxInv
  <2> QED
    BY <1>0, <1>2, <1>5, <2>1, <2>2, <2>3
<1> QED
  BY <1>8, <1>9

(* poll_rx empties the one at rx_next and gives it back.                   *)
LEMMA PollKeeps ==
    ASSUME RxInv, up, PollRx, UNCHANGED up
    PROVE  RxInv' /\ RxCount >= 1 /\ RxCount' = RxCount - 1
<1>0. RING_SIZE \in Nat /\ RING_SIZE >= 2 /\ Desc = 0 .. RING_SIZE - 1
  BY NetworkAssumption DEF Desc
<1>1. /\ rx[rx_next].dd /\ rx' = [rx EXCEPT ![rx_next] = [dd |-> FALSE, frame |-> NoFrame]]
      /\ rx_next' = (rx_next + 1) % RING_SIZE /\ rdt' = rx_next /\ rdh' = rdh
  BY DEF PollRx, NextDesc, Returned
<1>2. rx_next' = (IF rx_next + 1 = RING_SIZE THEN 0 ELSE rx_next + 1) /\ rx_next' \in Desc
  BY <1>1, NextDescIs DEF RxInv
<1>3. rx' \in [Desc -> [dd : BOOLEAN, frame : RxFrames]]
  BY <1>1 DEF RxInv, RxFrames
<1>4. \A i \in Desc : IF i = rx_next THEN ~rx'[i].dd ELSE rx'[i].dd <=> rx[i].dd
  BY <1>1 DEF RxInv
<1>5. rdh # rx_next
  BY <1>0, <1>1 DEF RxInv, IsBetween
<1>6. \A i \in Desc : IsBetween(i, rx_next', rdh) <=> i # rx_next /\ IsBetween(i, rx_next, rdh)
  BY <1>0, <1>2, <1>5 DEF RxInv, IsBetween
<1>7. \A i \in Desc : rx'[i].dd <=> IsBetween(i, rx_next', rdh')
  BY <1>1, <1>4, <1>6 DEF RxInv
<1>8. rdt' = IF rx_next' = 0 THEN RING_SIZE - 1 ELSE rx_next' - 1
  BY <1>0, <1>1, <1>2 DEF RxInv
<1>9. RxInv'
  BY <1>1, <1>2, <1>3, <1>7, <1>8 DEF RxInv
<1>10. RxCount >= 1 /\ RxCount' = RxCount - 1
  <2>1. RxCount' = IF rx_next' <= rdh THEN rdh - rx_next' ELSE rdh - rx_next' + RING_SIZE
    BY <1>1 DEF RxCount, Between
  <2>2. RxCount = IF rx_next <= rdh THEN rdh - rx_next ELSE rdh - rx_next + RING_SIZE
    BY DEF RxCount, Between
  <2>3. rx_next \in 0 .. RING_SIZE - 1 /\ rdh \in 0 .. RING_SIZE - 1
    BY <1>0 DEF RxInv
  <2> QED
    BY <1>0, <1>2, <1>5, <2>1, <2>2, <2>3
<1> QED
  BY <1>9, <1>10

LEMMA NicInitRx ==
    ASSUME RxInv, NicInit
    PROVE  RxInv' /\ RxCount = 0 /\ RxCount' = 0
<1>0. RING_SIZE \in Nat /\ RING_SIZE >= 2 /\ Desc = 0 .. RING_SIZE - 1
  BY NetworkAssumption DEF Desc
<1>1. /\ ~up /\ up' /\ rx' = [i \in Desc |-> [rx[i] EXCEPT !.dd = FALSE]]
      /\ rx_next' = 0 /\ rdh' = 0 /\ rdt' = RING_SIZE - 1
  BY DEF NicInit, setup_rx_ring, setup_tx_ring, FirstRdt
<1>2. rx' \in [Desc -> [dd : BOOLEAN, frame : RxFrames]] /\ \A i \in Desc : ~rx'[i].dd
  BY <1>1 DEF RxInv
<1>3. \A i \in Desc : ~IsBetween(i, 0, 0)
  BY <1>0 DEF IsBetween
<1>4. 0 \in Desc /\ RING_SIZE - 1 \in Desc
  BY <1>0
<1>5. RxInv'
  BY <1>1, <1>2, <1>3, <1>4 DEF RxInv
<1> QED
  BY <1>1, <1>5 DEF RxCount, Between, RxInv

LEMMA RxInvariant == NetSpec => []RxInv
<1>0. RING_SIZE \in Nat /\ RING_SIZE >= 2 /\ Desc = 0 .. RING_SIZE - 1
  BY NetworkAssumption DEF Desc
<1>1. NetInit => RxInv
  <2> SUFFICES ASSUME NetInit PROVE RxInv
    OBVIOUS
  <2>1. rx \in [Desc -> [dd : BOOLEAN, frame : RxFrames]] /\ \A i \in Desc : ~rx[i].dd
    BY DEF NetInit, RxFrames
  <2>2. \A i \in Desc : ~IsBetween(i, 0, 0)
    BY <1>0 DEF IsBetween
  <2>3. ~up /\ rx_next = 0 /\ rdh = 0 /\ rdt = 0 /\ 0 \in Desc
    BY <1>0 DEF NetInit
  <2> QED
    BY <2>1, <2>2, <2>3 DEF RxInv
<1>2. RxInv /\ [NetNext]_netVars => RxInv'
  <2> SUFFICES ASSUME RxInv, [NetNext]_netVars PROVE RxInv'
    OBVIOUS
  <2>1. CASE NicInit
    BY <2>1, NicInitRx
  <2>2. CASE HandleIncoming
    BY <2>2, PollKeeps DEF HandleIncoming
  <2>3. CASE \E f \in Incoming : CardReceive(f)
    BY <2>3, ReceiveKeeps
  <2>4. CASE UNCHANGED <<up, rxVars>>
    BY <2>4 DEF rxVars, RxInv
  <2> QED
    BY <2>1, <2>2, <2>3, <2>4
    DEF NetNext, netVars, rxVars, SendArpRequest, SendAnswer, CardSend
<1> QED
  BY <1>1, <1>2, PTL DEF NetSpec

(* A frame the card stores is appended, poll_rx takes the first.           *)
LEMMA ReceiveAppends ==
    ASSUME RxInv, RxShape, RxShape', NEW f \in Incoming, CardReceive(f)
    PROVE  RxRing!Put(f)
<1> DEFINE n == RING_SIZE  from == rx_next  c == RxCount  items == RxItems
<1>0. /\ n \in Nat \ {0} /\ Desc = 0 .. n - 1 /\ from \in 0 .. n /\ c \in 0 .. n - 1 /\ c \in 0 .. n
      /\ c' \in 0 .. n - 1 /\ rdh \in 0 .. n - 1
      /\ RxQueue = View(items, from, c, n) /\ RxQueue' = View(items', from', c', n)
  <2>1. n \in Nat \ {0} /\ Desc = 0 .. n - 1 /\ from \in 0 .. n /\ rdh \in 0 .. n - 1
    BY NetworkAssumption DEF Desc, RxInv
  <2>2. RxQueue = View(items, from, c, n) /\ c \in 0 .. n - 1
    BY DEF RxShape
  <2>3. RxQueue' = View(items', from', c', n) /\ c' \in 0 .. n - 1
    BY DEF RxShape
  <2> QED
    BY <2>1, <2>2, <2>3
<1>1. /\ rx' = [rx EXCEPT ![rdh] = [dd |-> TRUE, frame |-> f]]
      /\ from' = from /\ UNCHANGED polled
  BY DEF CardReceive
<1>2. c' = c + 1
  BY ReceiveKeeps
<1>3. rdh = (from + c) % n
  <2> DEFINE s == from + c
  <2>1. s \in 0 .. 2 * n - 1 /\ (s = rdh \/ s = rdh + n)
    BY <1>0 DEF RxCount, Between
  <2> HIDE DEF s, c, n
  <2>2. (s < n /\ s % n = s) \/ (n <= s /\ s % n = s - n)
    BY <1>0, <2>1, ModPlace
  <2>3. s % n = rdh
    BY <1>0, <2>1, <2>2
  <2> QED
    BY <2>3 DEF s
<1>4. IsRing(items, n, RxFrames) /\ f \in RxFrames
  BY <1>0 DEF IsRing, RxItems, RxInv, RxFrames
<1>5. items' = [items EXCEPT ![rdh] = f]
  BY <1>0, <1>1 DEF RxItems, RxInv
<1>6. Fills(items', items, n, RxFrames, f, from, c, c')
  BY <1>0, <1>2, <1>3, <1>4, <1>5 DEF Fills
<1> HIDE DEF n, from, c, items
<1>7. RxQueue' = Append(RxQueue, f)
  BY <1>0, <1>1, <1>6, PutView
<1>8. Len(RxQueue) = c
  BY <1>0, <1>4, ViewLen
<1>9. Len(RxQueue) < RING_SIZE - 1
  BY <1>0, <1>2, <1>8 DEF n
<1> QED
  BY <1>1, <1>7, <1>9 DEF RxRing!Put

LEMMA PollTakes ==
    ASSUME RxInv, RxShape, RxShape', up, PollRx, UNCHANGED up
    PROVE  RxRing!Take
<1> DEFINE n == RING_SIZE  from == rx_next  c == RxCount  items == RxItems
<1>0. /\ n \in Nat \ {0} /\ Desc = 0 .. n - 1 /\ from \in 0 .. n - 1 /\ c \in 0 .. n - 1
      /\ RxQueue = View(items, from, c, n) /\ RxQueue' = View(items', from', c', n)
  <2>1. n \in Nat \ {0} /\ Desc = 0 .. n - 1 /\ from \in 0 .. n - 1
    BY NetworkAssumption DEF Desc, RxInv
  <2>2. RxQueue = View(items, from, c, n) /\ c \in 0 .. n - 1
    BY DEF RxShape
  <2>3. RxQueue' = View(items', from', c', n)
    BY DEF RxShape
  <2> QED
    BY <2>1, <2>2, <2>3
<1>1. /\ polled' = rx[from].frame
      /\ rx' = [rx EXCEPT ![from] = [dd |-> FALSE, frame |-> NoFrame]]
      /\ from' = (from + 1) % n
  BY DEF PollRx, NextDesc, Copied
<1>2. from' = IF from + 1 = n THEN 0 ELSE from + 1
  BY <1>0, <1>1, NextDescIs
<1>3. c >= 1 /\ c' = c - 1
  BY PollKeeps
<1>4. IsRing(items, n, RxFrames) /\ items[from] = polled'
  BY <1>0, <1>1 DEF IsRing, RxItems, RxInv
<1>5. Frees(items, n, RxFrames, from, from', c, c')
  BY <1>0, <1>2, <1>3, <1>4 DEF Frees
<1>6. View(items', from', c', n) = View(items, from', c', n)
  <2>1. ASSUME NEW k \in 1 .. c'
        PROVE  items'[(from' + k - 1) % n] = items[(from' + k - 1) % n]
    <3>1. k - 1 \in 0 .. n /\ k - 1 < n - 1 /\ from' \in Desc /\ from' + (k - 1) = from' + k - 1
      BY <1>0, <1>2, <1>3
    <3>2. /\ Ahead(from', k - 1) \in Desc /\ Ahead(from', k - 1) = (from' + k - 1) % n
          /\ \/ from' + (k - 1) < n /\ Ahead(from', k - 1) = from' + (k - 1)
             \/ n <= from' + (k - 1) /\ Ahead(from', k - 1) = from' + (k - 1) - n
      BY <3>1, AheadIs DEF Ahead
    <3>3. Ahead(from', k - 1) # from
      BY <1>0, <1>2, <3>1, <3>2
    <3> QED
      BY <1>0, <1>1, <3>2, <3>3 DEF RxItems, RxInv
  <2> QED
    BY <2>1 DEF View
<1> HIDE DEF n, from, c, items
<1>7. /\ View(items, from, c, n) # <<>> /\ Head(View(items, from, c, n)) = items[from]
      /\ Tail(View(items, from, c, n)) = View(items, from', c', n)
  BY <1>5, TakeView
<1> QED
  BY <1>0, <1>4, <1>6, <1>7 DEF RxRing!Take

(* The receive ring implements a queue, for every size of it.              *)
THEOREM ReceivesInOrder == NetSpec => RxIsFifo
<1>1. NetInit => RxRing!Init
  <2> SUFFICES ASSUME NetInit PROVE RxQueue = <<>>
    BY DEF RxRing!Init
  <2>1. 0 \in RxStops /\ RxStops \subseteq Int /\ \A l \in RxStops : 0 <= l
    <3>1. Ahead(0, 0) \in Desc
      BY AheadIs, NetworkAssumption DEF Desc
    <3> QED
      BY <3>1, NetworkAssumption DEF NetInit, RxStops
  <2>2. Least(RxStops) = 0
    BY <2>1, LeastIs DEF Least
  <2> QED
    BY <2>2 DEF RxQueue
<1>2. RxInv /\ RxShape /\ RxShape' /\ [NetNext]_netVars
        => [RxRing!Next]_<<RxQueue, polled>>
  <2> SUFFICES ASSUME RxInv, RxShape, RxShape', [NetNext]_netVars
               PROVE  [RxRing!Next]_<<RxQueue, polled>>
    OBVIOUS
  <2>1. CASE NicInit
    <3>1. RxCount = 0 /\ RxCount' = 0 /\ UNCHANGED polled
      BY <2>1, NicInitRx DEF NicInit, setup_rx_ring, setup_tx_ring
    <3> QED
      BY <3>1 DEF RxShape, View
  <2>2. CASE HandleIncoming
    BY <2>2, PollTakes DEF HandleIncoming, RxRing!Next
  <2>3. CASE \E f \in Incoming : CardReceive(f)
    BY <2>3, ReceiveAppends DEF RxRing!Next
  <2>4. CASE UNCHANGED <<up, rxVars>>
    BY <2>4 DEF rxVars, RxShape, RxItems, RxCount
  <2> QED
    BY <2>1, <2>2, <2>3, <2>4
    DEF NetNext, netVars, rxVars, SendArpRequest, SendAnswer, CardSend
<1>3. RxInv => RxShape
  BY RxQueueIs
<1> QED
  BY <1>1, <1>2, <1>3, RxInvariant, PTL DEF NetSpec, RxIsFifo, RxRing!Spec

-----------------------------------------------------------------------------
(* The transmit ring.  The busy descriptors are those from the card's head *)
(* up to tx_next; when the two meet, either none is busy or all are.       *)
TxInv ==
    /\ tx \in [Desc -> [cmd : BOOLEAN, dd : BOOLEAN, frame : TxFrames]]
    /\ tx_next \in Desc /\ tdh \in Desc /\ tdt = tx_next /\ pending \in TxFrames
    /\ ~up => tx_next = 0 /\ tdh = 0
    /\ \A i \in Desc :
         Busy(i) <=> IF tdh = tx_next THEN Busy(tdh) ELSE IsBetween(i, tdh, tx_next)

TxCount == IF tdh = tx_next THEN (IF Busy(tdh) THEN RING_SIZE ELSE 0) ELSE Between(tdh, tx_next)
TxItems == [i \in Desc |-> tx[i].frame]
TxShape ==
    /\ TxQueue = View(TxItems, tdh, TxCount, RING_SIZE)
    /\ TxCount \in 0 .. RING_SIZE

(* A call of transmit that is not refused.                                 *)
Sends(f) ==
    /\ up /\ ~Busy(tx_next)
    /\ tx' = [tx EXCEPT ![tx_next] = [cmd |-> TRUE, dd |-> FALSE, frame |-> f]]
    /\ tx_next' = (tx_next + 1) % RING_SIZE /\ tdt' = tx_next'
    /\ UNCHANGED <<up, tdh, wire>>

LEMMA TxQueueIs == ASSUME TxInv PROVE TxShape
<1> DEFINE n == RING_SIZE  from == tdh  c == TxCount
<1>0. n \in Nat \ {0} /\ n >= 2 /\ Desc = 0 .. n - 1 /\ from \in 0 .. n - 1 /\ tx_next \in 0 .. n - 1
  BY NetworkAssumption DEF Desc, TxInv
<1>1. c \in 0 .. n
  BY <1>0 DEF TxCount, Between
<1>2. c \in TxStops
  <2>1. CASE c = n
    BY <1>1, <2>1 DEF TxStops
  <2>2. CASE c # n
    <3>0. /\ c = IF from <= tx_next THEN tx_next - from ELSE tx_next - from + n
          /\ from = tx_next => ~Busy(from)
      BY <1>0, <2>2 DEF TxCount, Between
    <3> HIDE DEF c
    <3>1. \/ from + c < n /\ Ahead(from, c) = from + c
          \/ n <= from + c /\ Ahead(from, c) = from + c - n
      BY <1>0, <1>1, AheadIs
    <3>2. Ahead(from, c) = tx_next
      BY <1>0, <1>1, <3>0, <3>1
    <3>3. from # tx_next => ~IsBetween(tx_next, from, tx_next)
      BY <1>0 DEF IsBetween
    <3>4. ~Busy(tx_next)
      BY <1>0, <3>0, <3>3 DEF TxInv
    <3> QED
      BY <1>1, <3>2, <3>4 DEF TxStops, Busy
  <2> QED
    BY <2>1, <2>2
<1>3. ASSUME NEW l \in TxStops, l < c PROVE FALSE
  <2>1. l \in 0 .. n - 1 /\ l \in 0 .. n /\ ~Busy(Ahead(from, l))
    BY <1>0, <1>1, <1>3 DEF TxStops, Busy
  <2>2. /\ Ahead(from, l) \in Desc
        /\ \/ from + l < n /\ Ahead(from, l) = from + l
           \/ n <= from + l /\ Ahead(from, l) = from + l - n
    BY <1>0, <2>1, AheadIs
  <2>3. CASE from = tx_next
    <3>1. Busy(from)
      BY <1>3, <2>1, <2>3 DEF TxCount
    <3> QED
      BY <2>1, <2>2, <2>3, <3>1 DEF TxInv
  <2>4. CASE from # tx_next
    <3>1. l < IF from <= tx_next THEN tx_next - from ELSE tx_next - from + n
      BY <1>3, <2>4 DEF TxCount, Between
    <3>2. IsBetween(Ahead(from, l), tdh, tx_next)
      BY <1>0, <2>1, <2>2, <3>1 DEF IsBetween
    <3> QED
      BY <2>1, <2>2, <2>4, <3>2 DEF TxInv
  <2> QED
    BY <2>3, <2>4
<1>4. TxStops \subseteq Int /\ \A l \in TxStops : c <= l
  BY <1>0, <1>1, <1>3 DEF TxStops
<1>5. Least(TxStops) = c
  BY <1>2, <1>4, LeastIs DEF Least
<1>6. ASSUME NEW k \in 1 .. c
      PROVE  tx[Ahead(from, k - 1)].frame = TxItems[(from + k - 1) % n]
  <2>1. k - 1 \in 0 .. n /\ from + (k - 1) = from + k - 1
    BY <1>0, <1>1
  <2>2. Ahead(from, k - 1) \in Desc
    BY <1>0, <2>1, AheadIs
  <2>3. Ahead(from, k - 1) = (from + k - 1) % n
    BY <2>1 DEF Ahead
  <2> QED
    BY <2>2, <2>3 DEF TxItems
<1>7. TxQueue = View(TxItems, from, c, n)
  BY <1>5, <1>6 DEF TxQueue, View
<1> QED
  BY <1>1, <1>7 DEF TxShape

(* transmit fills the descriptor at tx_next, which is not busy.            *)
LEMMA SendKeeps ==
    ASSUME TxInv, NEW f \in Outgoing, Sends(f), pending' \in TxFrames
    PROVE  TxInv' /\ TxCount < RING_SIZE /\ TxCount' = TxCount + 1
<1>0. RING_SIZE \in Nat /\ RING_SIZE >= 2 /\ Desc = 0 .. RING_SIZE - 1
  BY NetworkAssumption DEF Desc
<1>1. /\ up /\ ~Busy(tx_next) /\ UNCHANGED <<up, tdh>> /\ tdt' = tx_next'
      /\ tx' = [tx EXCEPT ![tx_next] = [cmd |-> TRUE, dd |-> FALSE, frame |-> f]]
  BY DEF Sends
<1>2. tx_next' = (IF tx_next + 1 = RING_SIZE THEN 0 ELSE tx_next + 1) /\ tx_next' \in Desc
  BY NextDescIs DEF TxInv, Sends
<1>3. tx' \in [Desc -> [cmd : BOOLEAN, dd : BOOLEAN, frame : TxFrames]]
  BY <1>1 DEF TxInv, TxFrames
<1>4. \A i \in Desc : IF i = tx_next THEN Busy(i)' ELSE Busy(i)' <=> Busy(i)
  BY <1>1 DEF TxInv, Busy
<1>5. tx_next \in 0 .. RING_SIZE - 1 /\ tdh \in 0 .. RING_SIZE - 1 /\ tx_next' # tx_next
  BY <1>0, <1>2 DEF TxInv
<1>6. \A i \in Desc : Busy(i) <=> tdh # tx_next /\ IsBetween(i, tdh, tx_next)
  BY <1>1 DEF TxInv
<1>7. \A i \in Desc : tdh # tx_next' =>
          (IsBetween(i, tdh, tx_next') <=> i = tx_next \/ (tdh # tx_next /\ IsBetween(i, tdh, tx_next)))
  BY <1>0, <1>2, <1>5 DEF IsBetween
<1>8. \A i \in Desc : tdh = tx_next' => i = tx_next \/ (tdh # tx_next /\ IsBetween(i, tdh, tx_next))
  BY <1>0, <1>2, <1>5 DEF IsBetween
<1>9. \A i \in Desc : Busy(i)' <=> IF tdh = tx_next' THEN TRUE ELSE IsBetween(i, tdh, tx_next')
  BY <1>4, <1>6, <1>7, <1>8
<1>10. tdh = tx_next' => Busy(tdh)'
  BY <1>0, <1>1, <1>5, <1>9 DEF Busy
<1>11. TxInv'
  BY <1>1, <1>2, <1>3, <1>9, <1>10 DEF TxInv
<1>12. /\ TxCount = IF tdh = tx_next THEN 0
                    ELSE IF tdh <= tx_next THEN tx_next - tdh ELSE tx_next - tdh + RING_SIZE
       /\ TxCount' = IF tdh = tx_next' THEN RING_SIZE
                     ELSE IF tdh <= tx_next' THEN tx_next' - tdh ELSE tx_next' - tdh + RING_SIZE
  <2>1. TxCount = IF tdh = tx_next THEN 0 ELSE Between(tdh, tx_next)
    BY <1>1 DEF TxCount
  <2>2. TxCount' = IF tdh = tx_next' THEN RING_SIZE ELSE Between(tdh, tx_next')
    BY <1>1, <1>10 DEF TxCount, Between
  <2> QED
    BY <2>1, <2>2 DEF Between
<1>13. TxCount < RING_SIZE /\ TxCount' = TxCount + 1
  BY <1>0, <1>2, <1>5, <1>12
<1> QED
  BY <1>11, <1>13

(* The card sends the frame at its head, as long as head and tail differ.  *)
LEMMA CardSendKeeps ==
    ASSUME TxInv, CardSend
    PROVE  TxInv' /\ TxCount >= 1 /\ TxCount' = TxCount - 1
<1>0. RING_SIZE \in Nat /\ RING_SIZE >= 2 /\ Desc = 0 .. RING_SIZE - 1
  BY NetworkAssumption DEF Desc
<1>1. /\ up /\ tdh # tx_next /\ UNCHANGED <<up, tx_next, tdt, pending>>
      /\ tx' = [tx EXCEPT ![tdh].dd = TRUE, ![tdh].frame = NoFrame]
  BY DEF CardSend, TxInv
<1>2. tdh' = (IF tdh + 1 = RING_SIZE THEN 0 ELSE tdh + 1) /\ tdh' \in Desc
  BY NextDescIs DEF TxInv, CardSend
<1>3. tx' \in [Desc -> [cmd : BOOLEAN, dd : BOOLEAN, frame : TxFrames]]
  BY <1>1 DEF TxInv, TxFrames
<1>4. \A i \in Desc : IF i = tdh THEN ~Busy(i)' ELSE Busy(i)' <=> Busy(i)
  BY <1>1 DEF TxInv, Busy
<1>5. tx_next \in 0 .. RING_SIZE - 1 /\ tdh \in 0 .. RING_SIZE - 1 /\ tdh' # tdh
  BY <1>0, <1>2 DEF TxInv
<1>6. \A i \in Desc : Busy(i) <=> IsBetween(i, tdh, tx_next)
  BY <1>1 DEF TxInv
<1>7. \A i \in Desc : tdh' # tx_next =>
          (IsBetween(i, tdh', tx_next) <=> i # tdh /\ IsBetween(i, tdh, tx_next))
  BY <1>0, <1>1, <1>2, <1>5 DEF IsBetween
<1>8. \A i \in Desc : tdh' = tx_next => i = tdh \/ ~IsBetween(i, tdh, tx_next)
  BY <1>0, <1>1, <1>2, <1>5 DEF IsBetween
<1>9. \A i \in Desc : Busy(i)' <=> IF tdh' = tx_next THEN FALSE ELSE IsBetween(i, tdh', tx_next)
  BY <1>4, <1>6, <1>7, <1>8
<1>10. tdh' = tx_next => ~Busy(tdh)'
  BY <1>0, <1>1, <1>5, <1>9 DEF Busy
<1>11. TxInv'
  BY <1>1, <1>2, <1>3, <1>9, <1>10 DEF TxInv
<1>12. /\ TxCount = IF tdh <= tx_next THEN tx_next - tdh ELSE tx_next - tdh + RING_SIZE
       /\ TxCount' = IF tdh' = tx_next THEN 0
                     ELSE IF tdh' <= tx_next THEN tx_next - tdh' ELSE tx_next - tdh' + RING_SIZE
  <2>1. TxCount = Between(tdh, tx_next)
    BY <1>1 DEF TxCount
  <2>2. TxCount' = IF tdh' = tx_next THEN 0 ELSE Between(tdh', tx_next)
    BY <1>1, <1>10 DEF TxCount, Between
  <2> QED
    BY <2>1, <2>2 DEF Between
<1>13. TxCount >= 1 /\ TxCount' = TxCount - 1
  BY <1>0, <1>1, <1>2, <1>5, <1>12
<1> QED
  BY <1>11, <1>13

(* What transmit does, whoever calls it.                                   *)
LEMMA TransmitSends ==
    ASSUME NEW f, Transmit(f), UNCHANGED up
    PROVE  Sends(f) \/ UNCHANGED txVars
  BY DEF Transmit, Sends, NextDesc, txVars

(* A step of the transmit ring is one of these.                            *)
LEMMA TxCases ==
    ASSUME TxInv, [NetNext]_netVars
    PROVE  \/ \E f \in Outgoing : Sends(f) /\ pending' \in TxFrames
           \/ CardSend \/ NicInit
           \/ UNCHANGED <<up, txVars>> /\ pending' \in TxFrames
<1>1. CASE NicInit \/ CardSend
  BY <1>1
<1>2. CASE SendArpRequest
  <2>1. "arp_request" \in Outgoing /\ UNCHANGED <<up, pending>> /\ Transmit("arp_request")
    BY <1>2 DEF SendArpRequest, Outgoing
  <2> QED
    BY <2>1, TransmitSends DEF TxInv
<1>3. CASE SendAnswer
  <2>1. pending \in Outgoing /\ UNCHANGED up /\ Transmit(pending) /\ pending' \in TxFrames
    BY <1>3 DEF SendAnswer, TxInv, TxFrames
  <2> QED
    BY <2>1, TransmitSends
<1>4. CASE HandleIncoming
  BY <1>4 DEF HandleIncoming, Answer, TxFrames, Outgoing
<1>5. CASE \E f \in Incoming : CardReceive(f)
  BY <1>5 DEF CardReceive, TxInv
<1>6. CASE UNCHANGED netVars
  BY <1>6 DEF netVars, txVars, TxInv
<1> QED
  BY <1>1, <1>2, <1>3, <1>4, <1>5, <1>6 DEF NetNext

LEMMA NicInitTx ==
    ASSUME TxInv, NicInit
    PROVE  TxInv' /\ UNCHANGED <<tx, tdh, tx_next, wire>>
<1>1. /\ ~up /\ up' /\ tx_next' = 0 /\ tdh' = 0 /\ tdt' = 0 /\ UNCHANGED <<tx, pending, wire>>
  BY DEF NicInit, setup_rx_ring, setup_tx_ring
<1>2. tx_next = 0 /\ tdh = 0
  BY <1>1 DEF TxInv
<1> QED
  BY <1>1, <1>2 DEF TxInv, Busy

LEMMA TxInvariant == NetSpec => []TxInv
<1>1. NetInit => TxInv
  <2> SUFFICES ASSUME NetInit PROVE TxInv
    OBVIOUS
  <2>1. /\ tx \in [Desc -> [cmd : BOOLEAN, dd : BOOLEAN, frame : TxFrames]]
        /\ \A i \in Desc : ~Busy(i)
    BY DEF NetInit, TxFrames, Busy
  <2>2. 0 \in Desc /\ tx_next = 0 /\ tdh = 0 /\ tdt = 0 /\ pending \in TxFrames
    BY NetworkAssumption DEF NetInit, Desc, TxFrames
  <2> QED
    BY <2>1, <2>2 DEF TxInv
<1>2. TxInv /\ [NetNext]_netVars => TxInv'
  <2> SUFFICES ASSUME TxInv, [NetNext]_netVars PROVE TxInv'
    OBVIOUS
  <2>1. CASE \E f \in Outgoing : Sends(f) /\ pending' \in TxFrames
    BY <2>1, SendKeeps
  <2>2. CASE CardSend
    BY <2>2, CardSendKeeps
  <2>3. CASE NicInit
    BY <2>3, NicInitTx
  <2>4. CASE UNCHANGED <<up, txVars>> /\ pending' \in TxFrames
    BY <2>4 DEF txVars, TxInv, Busy
  <2> QED
    BY <2>1, <2>2, <2>3, <2>4, TxCases
<1> QED
  BY <1>1, <1>2, PTL DEF NetSpec

(* An accepted frame is appended, the card takes the first.                *)
LEMMA SendAppends ==
    ASSUME TxInv, TxShape, TxShape', NEW f \in Outgoing, Sends(f), pending' \in TxFrames
    PROVE  TxRing!Put(f)
<1> DEFINE n == RING_SIZE  from == tdh  c == TxCount  items == TxItems
<1>0. /\ n \in Nat \ {0} /\ Desc = 0 .. n - 1 /\ from \in 0 .. n - 1 /\ from \in 0 .. n
      /\ c \in 0 .. n /\ c' \in 0 .. n /\ tx_next \in 0 .. n - 1
      /\ TxQueue = View(items, from, c, n) /\ TxQueue' = View(items', from', c', n)
  <2>1. n \in Nat \ {0} /\ Desc = 0 .. n - 1 /\ from \in 0 .. n - 1 /\ tx_next \in 0 .. n - 1
    BY NetworkAssumption DEF Desc, TxInv
  <2>2. TxQueue = View(items, from, c, n) /\ c \in 0 .. n
    BY DEF TxShape
  <2>3. TxQueue' = View(items', from', c', n) /\ c' \in 0 .. n
    BY DEF TxShape
  <2> QED
    BY <2>1, <2>2, <2>3
<1>1. /\ tx' = [tx EXCEPT ![tx_next] = [cmd |-> TRUE, dd |-> FALSE, frame |-> f]]
      /\ from' = from /\ UNCHANGED wire /\ ~Busy(tx_next)
  BY DEF Sends
<1>2. c < n /\ c' = c + 1
  BY SendKeeps
<1>3. tx_next = (from + c) % n
  <2> DEFINE s == from + c
  <2>1. s \in 0 .. 2 * n - 1 /\ (s = tx_next \/ s = tx_next + n)
    BY <1>0, <1>1, <1>2 DEF TxCount, Between
  <2> HIDE DEF s, c, n
  <2>2. (s < n /\ s % n = s) \/ (n <= s /\ s % n = s - n)
    BY <1>0, <2>1, ModPlace
  <2>3. s % n = tx_next
    BY <1>0, <2>1, <2>2
  <2> QED
    BY <2>3 DEF s
<1>4. IsRing(items, n, TxFrames) /\ f \in TxFrames
  BY <1>0 DEF IsRing, TxItems, TxInv, TxFrames
<1>5. items' = [items EXCEPT ![tx_next] = f]
  BY <1>0, <1>1 DEF TxItems, TxInv
<1>6. Fills(items', items, n, TxFrames, f, from, c, c')
  BY <1>0, <1>2, <1>3, <1>4, <1>5 DEF Fills
<1> HIDE DEF n, from, c, items
<1>7. TxQueue' = Append(TxQueue, f)
  BY <1>0, <1>1, <1>6, PutView
<1>8. Len(TxQueue) = c
  BY <1>0, <1>4, ViewLen
<1>9. Len(TxQueue) < RING_SIZE
  BY <1>2, <1>8 DEF n
<1> QED
  BY <1>1, <1>7, <1>9 DEF TxRing!Put

LEMMA CardSendTakes ==
    ASSUME TxInv, TxShape, TxShape', CardSend
    PROVE  TxRing!Take
<1> DEFINE n == RING_SIZE  from == tdh  c == TxCount  items == TxItems
<1>0. /\ n \in Nat \ {0} /\ Desc = 0 .. n - 1 /\ from \in 0 .. n - 1 /\ c \in 0 .. n
      /\ TxQueue = View(items, from, c, n) /\ TxQueue' = View(items', from', c', n)
  <2>1. n \in Nat \ {0} /\ Desc = 0 .. n - 1 /\ from \in 0 .. n - 1
    BY NetworkAssumption DEF Desc, TxInv
  <2>2. TxQueue = View(items, from, c, n) /\ c \in 0 .. n
    BY DEF TxShape
  <2>3. TxQueue' = View(items', from', c', n)
    BY DEF TxShape
  <2> QED
    BY <2>1, <2>2, <2>3
<1>1. /\ wire' = tx[from].frame
      /\ tx' = [tx EXCEPT ![tdh].dd = TRUE, ![tdh].frame = NoFrame]
      /\ from' = (from + 1) % n
  BY DEF CardSend
<1>2. from' = IF from + 1 = n THEN 0 ELSE from + 1
  BY <1>0, <1>1, NextDescIs
<1>3. c >= 1 /\ c' = c - 1
  BY CardSendKeeps
<1>4. IsRing(items, n, TxFrames) /\ items[from] = wire'
  BY <1>0, <1>1 DEF IsRing, TxItems, TxInv
<1>5. Frees(items, n, TxFrames, from, from', c, c')
  BY <1>0, <1>2, <1>3, <1>4 DEF Frees
<1>6. View(items', from', c', n) = View(items, from', c', n)
  <2>1. ASSUME NEW k \in 1 .. c'
        PROVE  items'[(from' + k - 1) % n] = items[(from' + k - 1) % n]
    <3>1. k - 1 \in 0 .. n /\ k - 1 < n - 1 /\ from' \in Desc /\ from' + (k - 1) = from' + k - 1
      BY <1>0, <1>2, <1>3
    <3>2. /\ Ahead(from', k - 1) \in Desc /\ Ahead(from', k - 1) = (from' + k - 1) % n
          /\ \/ from' + (k - 1) < n /\ Ahead(from', k - 1) = from' + (k - 1)
             \/ n <= from' + (k - 1) /\ Ahead(from', k - 1) = from' + (k - 1) - n
      BY <3>1, AheadIs DEF Ahead
    <3>3. Ahead(from', k - 1) # from
      BY <1>0, <1>2, <3>1, <3>2
    <3> QED
      BY <1>0, <1>1, <3>2, <3>3 DEF TxItems, TxInv
  <2> QED
    BY <2>1 DEF View
<1> HIDE DEF n, from, c, items
<1>7. /\ View(items, from, c, n) # <<>> /\ Head(View(items, from, c, n)) = items[from]
      /\ Tail(View(items, from, c, n)) = View(items, from', c', n)
  BY <1>5, TakeView
<1> QED
  BY <1>0, <1>4, <1>6, <1>7 DEF TxRing!Take

(* The transmit ring implements a queue, for every size of it.             *)
THEOREM SendsInOrder == NetSpec => TxIsFifo
<1>1. NetInit => TxRing!Init
  <2> SUFFICES ASSUME NetInit PROVE TxQueue = <<>>
    BY DEF TxRing!Init
  <2>1. 0 \in TxStops /\ TxStops \subseteq Int /\ \A l \in TxStops : 0 <= l
    <3>1. Ahead(0, 0) \in Desc
      BY AheadIs, NetworkAssumption DEF Desc
    <3> QED
      BY <3>1, NetworkAssumption DEF NetInit, TxStops
  <2>2. Least(TxStops) = 0
    BY <2>1, LeastIs DEF Least
  <2> QED
    BY <2>2 DEF TxQueue
<1>2. TxInv /\ TxShape /\ TxShape' /\ [NetNext]_netVars
        => [TxRing!Next]_<<TxQueue, wire>>
  <2> SUFFICES ASSUME TxInv, TxShape, TxShape', [NetNext]_netVars
               PROVE  [TxRing!Next]_<<TxQueue, wire>>
    OBVIOUS
  <2>1. CASE \E f \in Outgoing : Sends(f) /\ pending' \in TxFrames
    BY <2>1, SendAppends DEF TxRing!Next
  <2>2. CASE CardSend
    BY <2>2, CardSendTakes DEF TxRing!Next
  <2>3. CASE NicInit
    BY <2>3, NicInitTx DEF TxShape, TxItems, TxCount, Busy
  <2>4. CASE UNCHANGED <<up, txVars>>
    BY <2>4 DEF txVars, TxShape, TxItems, TxCount, Busy
  <2> QED
    BY <2>1, <2>2, <2>3, <2>4, TxCases
<1>3. TxInv => TxShape
  BY TxQueueIs
<1> QED
  BY <1>1, <1>2, <1>3, TxInvariant, PTL DEF NetSpec, TxIsFifo, TxRing!Spec

(* Head and tail registers tell the card exactly what is queued, modulo    *)
(* RING_SIZE: a transmit ring whose descriptors are all taken looks empty. *)
THEOREM CardSeesWhatIsQueued == NetSpec => []CardSeesQueue
<1> DEFINE n == RING_SIZE
<1>0. n \in Nat \ {0} /\ n >= 2 /\ Desc = 0 .. n - 1
  BY NetworkAssumption DEF Desc
<1>1. RxInv /\ RxShape => (up => ((rdt - rdh) % n) + Len(RxQueue) = n - 1)
  <2> SUFFICES ASSUME RxInv, RxShape, up PROVE ((rdt - rdh) % n) + Len(RxQueue) = n - 1
    OBVIOUS
  <2> DEFINE items == RxItems  from == rx_next  c == RxCount
  <2>1. /\ IsRing(items, n, RxFrames) /\ from \in 0 .. n /\ c \in 0 .. n
        /\ RxQueue = View(items, from, c, n)
    BY <1>0 DEF IsRing, RxItems, RxInv, RxShape
  <2>2. rdt \in 0 .. n - 1 /\ rdh \in 0 .. n - 1 /\ rx_next \in 0 .. n - 1
        /\ rdt = IF rx_next = 0 THEN n - 1 ELSE rx_next - 1
    BY <1>0 DEF RxInv
  <2>3. (rdt - rdh) % n = IF rdh <= rdt THEN rdt - rdh ELSE rdt - rdh + n
    BY <1>0, <2>2, DistanceIs
  <2>4. c = IF rx_next <= rdh THEN rdh - rx_next ELSE rdh - rx_next + n
    BY DEF RxCount, Between
  <2> HIDE DEF items, from, c, n
  <2>5. Len(RxQueue) = c
    BY <2>1, ViewLen
  <2> QED
    BY <1>0, <2>2, <2>3, <2>4, <2>5
<1>2. TxInv /\ TxShape => (tdt - tdh) % n = Len(TxQueue) % n
  <2> SUFFICES ASSUME TxInv, TxShape PROVE (tdt - tdh) % n = Len(TxQueue) % n
    OBVIOUS
  <2> DEFINE items == TxItems  from == tdh  c == TxCount
  <2>1. /\ IsRing(items, n, TxFrames) /\ from \in 0 .. n /\ c \in 0 .. n
        /\ TxQueue = View(items, from, c, n)
    BY <1>0 DEF IsRing, TxItems, TxInv, TxShape
  <2>2. tdt = tx_next /\ tdt \in 0 .. n - 1 /\ tdh \in 0 .. n - 1
    BY <1>0 DEF TxInv
  <2>3. (tdt - tdh) % n = IF tdh <= tdt THEN tdt - tdh ELSE tdt - tdh + n
    BY <1>0, <2>2, DistanceIs
  <2>4. \/ c = IF tdh <= tdt THEN tdt - tdh ELSE tdt - tdh + n
        \/ tdh = tdt /\ c = n
    BY <1>0, <2>2 DEF TxCount, Between
  <2> HIDE DEF items, from, c, n
  <2>5. Len(TxQueue) = c
    BY <2>1, ViewLen
  <2>6. c \in 0 .. 2 * n - 1
    BY <1>0, <2>1
  <2>7. (c < n /\ c % n = c) \/ (n <= c /\ c % n = c - n)
    BY <1>0, <2>6, ModPlace
  <2>8. c % n = (tdt - tdh) % n
    BY <1>0, <2>2, <2>3, <2>4, <2>7
  <2> QED
    BY <2>5, <2>8
<1>3. RxInv /\ TxInv => CardSeesQueue
  BY <1>1, <1>2, RxQueueIs, TxQueueIs DEF CardSeesQueue
<1> QED
  BY <1>3, RxInvariant, TxInvariant, PTL

(* Both rings of the card and what it is told of them, for every size.     *)
THEOREM NetRingsInOrder == NetSpec => NetRingsAreFifo
BY ReceivesInOrder, SendsInOrder, CardSeesWhatIsQueued, PTL DEF NetRingsAreFifo
=============================================================================
