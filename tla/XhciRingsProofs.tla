--------------------------- MODULE XhciRingsProofs ---------------------------
(***************************************************************************)
(* The rings of src/src/xhci.rs are queues, for every size: the keyboard   *)
(* buffer, the event ring, and a command or transfer ring.                 *)
(***************************************************************************)
EXTENDS XhciRings, RingLemmas

(* What a slot may hold.                                                   *)
Stored == Items \cup {Nothing}

-----------------------------------------------------------------------------
(* The keyboard buffer.                                                    *)
KeyPlaces == 0 .. KBD_BUF_SIZE - 1
KeyInv ==
    /\ KEYBOARD_BUFFER \in [KeyPlaces -> Stored]
    /\ KBD_BUF_HEAD \in KeyPlaces /\ KBD_BUF_TAIL \in KeyPlaces

KeyCount == (KBD_BUF_HEAD - KBD_BUF_TAIL) % KBD_BUF_SIZE

LEMMA KeyInvariant == RingsSpec => []KeyInv
<1>0. KBD_BUF_SIZE \in Nat \ {0} /\ KeyPlaces = 0 .. KBD_BUF_SIZE - 1
  BY RingsAssumption DEF KeyPlaces
<1>1. RingsInit => KeyInv
  BY <1>0 DEF RingsInit, KeyInv, Stored
<1>2. KeyInv /\ [RingsNext]_ringsVars => KeyInv'
  <2> SUFFICES ASSUME KeyInv, [RingsNext]_ringsVars PROVE KeyInv'
    OBVIOUS
  <2>1. ASSUME NEW x \in Items, PushKey(x) PROVE KeyInv'
    <3>1. (KBD_BUF_HEAD + 1) % KBD_BUF_SIZE \in KeyPlaces
      BY <1>0, NextPlace DEF KeyInv
    <3> QED
      BY <2>1, <3>1 DEF KeyInv, PushKey, Stored
  <2>2. CASE GetKey
    <3>1. (KBD_BUF_TAIL + 1) % KBD_BUF_SIZE \in KeyPlaces
      BY <1>0, NextPlace DEF KeyInv
    <3> QED
      BY <2>2, <3>1 DEF KeyInv, GetKey
  <2>3. CASE UNCHANGED keyVars
    BY <2>3 DEF keyVars, KeyInv
  <2> QED
    BY <2>1, <2>2, <2>3 DEF RingsNext, KeyStep, TrbStep, EventStep, ringsVars, Enqueue,
       ControllerFetch, ControllerLink, ControllerPost, EnterEvents, NextEvent, LeaveEvents
<1> QED
  BY <1>1, <1>2, PTL DEF RingsSpec
(* push_key appends, get_key takes the first.                              *)
LEMMA PushAppends ==
    ASSUME KeyInv, NEW x \in Items, PushKey(x)
    PROVE  KeyBuffer!Put(x)
<1> DEFINE n == KBD_BUF_SIZE  h == KBD_BUF_HEAD  t == KBD_BUF_TAIL
           buf == KEYBOARD_BUFFER  c == KeyCount
<1>0. n \in Nat \ {0} /\ h \in 0 .. n - 1 /\ t \in 0 .. n - 1 /\ IsRing(buf, n, Stored)
  BY RingsAssumption DEF KeyInv, KeyPlaces, IsRing
<1>1. c = IF t <= h THEN h - t ELSE h - t + n
  BY <1>0, DistanceIs DEF KeyCount
<1>2. /\ (h + 1) % n # t /\ UNCHANGED typed
      /\ buf' = [buf EXCEPT ![h] = x] /\ KBD_BUF_HEAD' = (h + 1) % n /\ KBD_BUF_TAIL' = t
  BY DEF PushKey, IsFull
<1>3. /\ (h + 1) % n \in 0 .. n - 1
      /\ (h + 1) % n = IF h + 1 = n THEN 0 ELSE h + 1
  BY <1>0, NextPlace
<1>4. KeyCount' = IF t <= (h + 1) % n THEN ((h + 1) % n) - t ELSE ((h + 1) % n) - t + n
  BY <1>0, <1>2, <1>3, DistanceIs DEF KeyCount
<1>5. c \in 0 .. n - 2 /\ KeyCount' = c + 1
  BY <1>0, <1>1, <1>2, <1>3, <1>4
<1>6. h = (t + c) % n
  <2> DEFINE s == t + c
  <2>1. s \in 0 .. 2 * n - 1 /\ (s = h \/ s = h + n)
    BY <1>0, <1>1
  <2> HIDE DEF s, c
  <2>2. (s < n /\ s % n = s) \/ (n <= s /\ s % n = s - n)
    BY <1>0, <2>1, ModPlace
  <2>3. s % n = h
    BY <1>0, <2>1, <2>2
  <2> QED
    BY <2>3 DEF s
<1>7. KeyQueue = View(buf, t, c, n) /\ KeyQueue' = View(buf', t, KeyCount', n)
  BY <1>2 DEF KeyQueue, View, KeyCount
<1>8. Fills(buf', buf, n, Stored, x, t, c, KeyCount')
  BY <1>0, <1>2, <1>5, <1>6 DEF Fills, Stored
<1>9. t \in 0 .. n /\ c \in 0 .. n
  BY <1>0, <1>5
<1> HIDE DEF n, h, t, buf, c
<1>10. KeyQueue' = Append(KeyQueue, x)
  BY <1>7, <1>8, PutView
<1>11. Len(KeyQueue) = c
  BY <1>0, <1>7, <1>9, ViewLen
<1>12. Len(KeyQueue) < KBD_BUF_SIZE - 1
  BY <1>0, <1>5, <1>11 DEF n
<1> QED
  BY <1>2, <1>10, <1>12 DEF KeyBuffer!Put

LEMMA GetTakes == ASSUME KeyInv, GetKey PROVE KeyBuffer!Take
<1> DEFINE n == KBD_BUF_SIZE  h == KBD_BUF_HEAD  t == KBD_BUF_TAIL
           buf == KEYBOARD_BUFFER  c == KeyCount
<1>0. n \in Nat \ {0} /\ h \in 0 .. n - 1 /\ t \in 0 .. n - 1 /\ IsRing(buf, n, Stored)
  BY RingsAssumption DEF KeyInv, KeyPlaces, IsRing
<1>1. c = IF t <= h THEN h - t ELSE h - t + n
  BY <1>0, DistanceIs DEF KeyCount
<1>2. /\ h # t /\ typed' = buf[t] /\ UNCHANGED <<KEYBOARD_BUFFER, KBD_BUF_HEAD>>
      /\ KBD_BUF_TAIL' = (t + 1) % n
  BY DEF GetKey
<1>3. /\ (t + 1) % n \in 0 .. n - 1
      /\ (t + 1) % n = IF t + 1 = n THEN 0 ELSE t + 1
  BY <1>0, NextPlace
<1>4. KeyCount' = IF (t + 1) % n <= h THEN h - ((t + 1) % n) ELSE h - ((t + 1) % n) + n
  BY <1>0, <1>2, <1>3, DistanceIs DEF KeyCount
<1>5. c \in 1 .. n /\ KeyCount' = c - 1
  BY <1>0, <1>1, <1>2, <1>3, <1>4
<1>6. KeyQueue = View(buf, t, c, n) /\ KeyQueue' = View(buf, KBD_BUF_TAIL', KeyCount', n)
  BY <1>2 DEF KeyQueue, View, KeyCount
<1>7. Frees(buf, n, Stored, t, KBD_BUF_TAIL', c, KeyCount')
  BY <1>0, <1>2, <1>3, <1>5 DEF Frees
<1> HIDE DEF n, h, t, buf, c
<1>8. KeyQueue # <<>> /\ Head(KeyQueue) = buf[t] /\ Tail(KeyQueue) = KeyQueue'
  BY <1>6, <1>7, TakeView
<1> QED
  BY <1>2, <1>8 DEF KeyBuffer!Take

(* The keyboard buffer implements a queue, for every size of it.           *)
THEOREM KeyBufferIsFifo == RingsSpec => KeysAreFifo
<1>1. RingsInit => KeyBuffer!Init
  <2> SUFFICES ASSUME RingsInit PROVE KeyQueue = <<>>
    BY DEF KeyBuffer!Init
  <2>1. 0 \in 0 .. KBD_BUF_SIZE - 1 /\ KBD_BUF_SIZE \in Nat \ {0}
    BY RingsAssumption
  <2>2. KBD_BUF_HEAD = 0 /\ KBD_BUF_TAIL = 0
    BY DEF RingsInit
  <2>3. (KBD_BUF_HEAD - KBD_BUF_TAIL) % KBD_BUF_SIZE = 0
    BY <2>1, <2>2, DistanceIs
  <2> QED
    BY <2>3 DEF KeyQueue
<1>2. KeyInv /\ [RingsNext]_ringsVars => [KeyBuffer!Next]_<<KeyQueue, typed>>
  <2> SUFFICES ASSUME KeyInv, [RingsNext]_ringsVars
               PROVE  [KeyBuffer!Next]_<<KeyQueue, typed>>
    OBVIOUS
  <2>1. CASE \E x \in Items : PushKey(x)
    BY <2>1, PushAppends DEF KeyBuffer!Next
  <2>2. CASE GetKey
    BY <2>2, GetTakes DEF KeyBuffer!Next
  <2>3. CASE UNCHANGED keyVars
    BY <2>3 DEF keyVars, KeyQueue
  <2> QED
    BY <2>1, <2>2, <2>3 DEF RingsNext, KeyStep, TrbStep, EventStep, ringsVars, Enqueue,
       ControllerFetch, ControllerLink, ControllerPost, EnterEvents, NextEvent, LeaveEvents
<1> QED
  BY <1>1, <1>2, KeyInvariant, PTL DEF RingsSpec, KeysAreFifo, KeyBuffer!Spec

-----------------------------------------------------------------------------
(* The event ring.  The slots before the controller's place have its cycle *)
(* bit, the others the opposite one.  process_events is on the same lap as *)
(* the controller and behind it, or one lap behind and then before it; the *)
(* dequeue register lags behind process_events.                            *)
EventPlaces == 0 .. EventSize - 1
EventInv ==
    /\ event \in [EventPlaces -> [item : Stored, cycle : {0, 1}]]
    /\ eenqueue \in EventPlaces /\ erdp \in EventPlaces /\ erdp_val \in EventPlaces
    /\ pcs \in {0, 1} /\ event_cycle \in {0, 1}
    /\ \A i \in EventPlaces : /\ i < eenqueue => event[i].cycle = pcs
                              /\ i >= eenqueue => event[i].cycle = 1 - pcs
    /\ \/ /\ event_cycle = pcs /\ EventFrom <= eenqueue
          /\ erdp <= EventFrom \/ eenqueue < erdp
       \/ event_cycle # pcs /\ eenqueue < erdp /\ erdp <= EventFrom

EventCount == IF event_cycle = pcs THEN eenqueue - EventFrom ELSE eenqueue - EventFrom + EventSize
EventItems == [i \in EventPlaces |-> event[i].item]

(* What process_events would read on is what lies between it and the       *)
(* controller.                                                             *)
EventShape ==
    /\ EventQueue = View(EventItems, EventFrom, EventCount, EventSize)
    /\ EventCount \in 0 .. EventSize - 1 /\ EventFrom \in EventPlaces

LEMMA EventQueueIs == ASSUME EventInv PROVE EventShape
<1> DEFINE n == EventSize  from == EventFrom  c == EventCount
           stops == {k \in 0 .. n : k = n \/ event[EventAt(k).index].cycle # EventAt(k).cycle}
<1>0. /\ n \in Nat \ {0} /\ from \in 0 .. n - 1 /\ eenqueue \in 0 .. n - 1
      /\ pcs \in {0, 1} /\ event_cycle \in {0, 1} /\ EventPlaces = 0 .. n - 1
  BY RingsAssumption DEF EventInv, EventPlaces, EventFrom
<1>1. c \in 0 .. n - 1
  BY <1>0 DEF EventInv, EventCount
<1>2. ASSUME NEW k \in 0 .. n
      PROVE  /\ EventAt(k).index \in 0 .. n - 1
             /\ \/ from + k < n /\ EventAt(k).index = from + k /\ EventAt(k).cycle = event_cycle
                \/ n <= from + k /\ EventAt(k).index = from + k - n /\ EventAt(k).cycle = 1 - event_cycle
  <2> DEFINE x == from + k
  <2>1. x \in 0 .. 2 * n - 1
    BY <1>0
  <2>2. EventAt(k).index = x % n /\ EventAt(k).cycle = IF x >= n THEN 1 - event_cycle ELSE event_cycle
    BY DEF EventAt
  <2> HIDE DEF x, n
  <2>3. x % n \in 0 .. n - 1 /\ ((x < n /\ x % n = x) \/ (n <= x /\ x % n = x - n))
    BY <1>0, <2>1, ModPlace
  <2>4. /\ EventAt(k).index \in 0 .. n - 1
        /\ \/ x < n /\ EventAt(k).index = x /\ EventAt(k).cycle = event_cycle
           \/ n <= x /\ EventAt(k).index = x - n /\ EventAt(k).cycle = 1 - event_cycle
    BY <1>0, <2>1, <2>2, <2>3
  <2> QED
    BY <1>0, <2>4 DEF x
<1>3. c \in stops
  <2>1. EventAt(c).index = eenqueue /\ EventAt(c).cycle = pcs
    BY <1>0, <1>1, <1>2 DEF EventInv, EventCount
  <2>2. event[eenqueue].cycle = 1 - pcs
    BY <1>0 DEF EventInv
  <2> QED
    BY <1>0, <1>1, <2>1, <2>2
<1>4. ASSUME NEW l \in stops, l < c PROVE FALSE
  <2>1. l \in 0 .. n /\ event[EventAt(l).index].cycle # EventAt(l).cycle
    BY <1>0, <1>1, <1>4
  <2>2. event[EventAt(l).index].cycle = EventAt(l).cycle
    BY <1>0, <1>1, <1>2, <1>4, <2>1 DEF EventInv, EventCount
  <2> QED
    BY <2>1, <2>2
<1>5. stops \subseteq Int /\ \A l \in stops : c <= l
  BY <1>0, <1>1, <1>4
<1>6. (CHOOSE k \in stops : \A l \in stops : k <= l) = c
  BY <1>3, <1>5, LeastIs
<1>7. EventQueue = [k \in 1 .. c |-> event[EventAt(k - 1).index].item]
  BY <1>6 DEF EventQueue
<1>8. ASSUME NEW k \in 1 .. c
      PROVE  event[EventAt(k - 1).index].item = EventItems[(from + k - 1) % n]
  <2>1. EventAt(k - 1).index = (from + (k - 1)) % n /\ from + (k - 1) = from + k - 1 /\ k - 1 \in 0 .. n
    BY <1>0, <1>1 DEF EventAt
  <2>2. EventAt(k - 1).index \in EventPlaces
    BY <1>0, <1>2, <2>1
  <2> QED
    BY <2>1, <2>2 DEF EventItems
<1>9. EventQueue = View(EventItems, from, c, n)
  BY <1>7, <1>8 DEF View
<1> QED
  BY <1>0, <1>1, <1>9 DEF EventShape

LEMMA EventInvariant == RingsSpec => []EventInv
<1>0. EventSize \in Nat /\ EventSize >= 2 /\ EventPlaces = 0 .. EventSize - 1
  BY RingsAssumption DEF EventPlaces
<1>1. RingsInit => EventInv
  <2> SUFFICES ASSUME RingsInit PROVE EventInv
    OBVIOUS
  <2>1. event \in [EventPlaces -> [item : Stored, cycle : {0, 1}]]
        /\ \A i \in EventPlaces : event[i].cycle = 0
    BY DEF RingsInit, EventPlaces, EmptyTrb, Stored
  <2> QED
    BY <1>0, <2>1 DEF RingsInit, EventInv, EventFrom
<1>2. EventInv /\ [RingsNext]_ringsVars => EventInv'
  <2> SUFFICES ASSUME EventInv, [RingsNext]_ringsVars PROVE EventInv'
    OBVIOUS
  <2>1. ASSUME NEW x \in Items, ControllerPost(x) PROVE EventInv'
    <3>1. /\ (eenqueue + 1) % EventSize = IF eenqueue + 1 = EventSize THEN 0 ELSE eenqueue + 1
          /\ (eenqueue + 1) % EventSize \in EventPlaces
      <4>1. EventSize \in Nat \ {0} /\ eenqueue \in 0 .. EventSize - 1
        BY <1>0 DEF EventInv
      <4> QED
        BY <1>0, <4>1, NextPlace
    <3>2. /\ eenqueue' = (eenqueue + 1) % EventSize /\ eenqueue' # erdp
          /\ event' = [event EXCEPT ![eenqueue] = [item |-> x, cycle |-> pcs]]
          /\ pcs' = IF eenqueue + 1 = EventSize THEN 1 - pcs ELSE pcs
          /\ UNCHANGED <<erdp, erdp_val, inside, event_cycle>>
      BY <2>1 DEF ControllerPost
    <3>3. event' \in [EventPlaces -> [item : Stored, cycle : {0, 1}]]
      BY <3>2 DEF EventInv, Stored
    <3>4. EventFrom' = EventFrom /\ EventFrom \in EventPlaces
      BY <3>2 DEF EventFrom, EventInv
    <3>5. \A i \in EventPlaces : /\ i < eenqueue' => event'[i].cycle = pcs'
                                 /\ i >= eenqueue' => event'[i].cycle = 1 - pcs'
      <4> SUFFICES ASSUME NEW i \in EventPlaces
                   PROVE  /\ i < eenqueue' => event'[i].cycle = pcs'
                          /\ i >= eenqueue' => event'[i].cycle = 1 - pcs'
        OBVIOUS
      <4>1. /\ event \in [EventPlaces -> [item : Stored, cycle : {0, 1}]]
            /\ eenqueue \in EventPlaces /\ pcs \in {0, 1}
            /\ i < eenqueue => event[i].cycle = pcs
            /\ i >= eenqueue => event[i].cycle = 1 - pcs
        BY DEF EventInv
      <4>2. i <= eenqueue => event'[i].cycle = pcs
        <5>1. CASE i = eenqueue
          BY <3>2, <4>1, <5>1
        <5>2. CASE i # eenqueue
          <6>1. event'[i] = event[i]
            BY <3>2, <4>1, <5>2
          <6>2. i <= eenqueue => i < eenqueue
            BY <1>0, <4>1, <5>2
          <6> QED
            BY <4>1, <6>1, <6>2
        <5> QED
          BY <5>1, <5>2
      <4>3. i > eenqueue => event'[i].cycle = 1 - pcs
        <5> SUFFICES ASSUME i > eenqueue PROVE event'[i].cycle = 1 - pcs
          OBVIOUS
        <5>1. i # eenqueue /\ i >= eenqueue
          BY <1>0, <4>1
        <5>2. event'[i] = event[i]
          BY <3>2, <4>1, <5>1
        <5> QED
          BY <4>1, <5>1, <5>2
      <4>4. /\ i \in 0 .. EventSize - 1 /\ eenqueue \in 0 .. EventSize - 1
            /\ EventSize \in Nat
        BY <1>0, <4>1
      <4>5. CASE eenqueue + 1 = EventSize
        <5>1. eenqueue' = 0 /\ pcs' = 1 - pcs /\ 1 - pcs' = pcs
          BY <3>1, <3>2, <4>1, <4>5
        <5>2. i <= eenqueue /\ ~(i < 0)
          BY <4>4, <4>5
        <5> QED
          BY <4>2, <5>1, <5>2
      <4>6. CASE eenqueue + 1 # EventSize
        <5>1. eenqueue' = eenqueue + 1 /\ pcs' = pcs
          BY <3>1, <3>2, <4>6
        <5>2. (i < eenqueue + 1 => i <= eenqueue) /\ (i >= eenqueue + 1 => i > eenqueue)
          BY <4>4
        <5> QED
          BY <4>2, <4>3, <5>1, <5>2
      <4> QED
        BY <4>5, <4>6
    <3>6. pcs' \in {0, 1} /\ eenqueue' \in EventPlaces
      BY <3>1, <3>2 DEF EventInv
    <3>7. \/ /\ event_cycle = pcs' /\ EventFrom <= eenqueue'
             /\ erdp <= EventFrom \/ eenqueue' < erdp
          \/ event_cycle # pcs' /\ eenqueue' < erdp /\ erdp <= EventFrom
      BY <1>0, <3>1, <3>2, <3>4 DEF EventInv
    <3> QED
      BY <3>2, <3>3, <3>4, <3>5, <3>6, <3>7 DEF EventInv
  <2>2. CASE EnterEvents
    BY <2>2 DEF EventInv, EventFrom, EnterEvents
  <2>3. CASE NextEvent
    <3>1. /\ inside /\ event[erdp_val].cycle = event_cycle
          /\ erdp_val' = IF erdp_val + 1 >= EventSize THEN 0 ELSE erdp_val + 1
          /\ event_cycle' = IF erdp_val + 1 >= EventSize THEN 1 - event_cycle ELSE event_cycle
          /\ UNCHANGED <<event, eenqueue, pcs, erdp, inside>>
      BY <2>3 DEF NextEvent, AfterToggle
    <3>2. EventFrom = erdp_val /\ EventFrom' = erdp_val'
      BY <3>1 DEF EventFrom
    <3> QED
      BY <1>0, <3>1, <3>2 DEF EventInv
  <2>4. CASE LeaveEvents
    BY <1>0, <2>4 DEF EventInv, EventFrom, LeaveEvents
  <2>5. CASE UNCHANGED eventVars
    BY <2>5 DEF eventVars, EventInv, EventFrom
  <2> QED
    BY <2>1, <2>2, <2>3, <2>4, <2>5 DEF RingsNext, KeyStep, TrbStep, EventStep, ringsVars, Enqueue,
       ControllerFetch, ControllerLink, PushKey, GetKey
<1> QED
  BY <1>1, <1>2, PTL DEF RingsSpec

(* The controller's event is appended, process_events takes the first.     *)
LEMMA PostAppends ==
    ASSUME EventInv, EventShape, EventShape', NEW x \in Items, ControllerPost(x)
    PROVE  EventRing!Put(x)
<1> DEFINE n == EventSize  from == EventFrom  c == EventCount  items == EventItems
<1>0. /\ n \in Nat \ {0} /\ EventPlaces = 0 .. n - 1 /\ from \in 0 .. n - 1 /\ from \in 0 .. n
      /\ c \in 0 .. n - 1 /\ c \in 0 .. n /\ c' \in 0 .. n - 1
      /\ EventQueue = View(items, from, c, n) /\ EventQueue' = View(items', from', c', n)
      /\ eenqueue \in 0 .. n - 1
  <2>1. n \in Nat \ {0} /\ EventPlaces = 0 .. n - 1 /\ eenqueue \in 0 .. n - 1
    BY RingsAssumption DEF EventPlaces, EventInv
  <2>2. EventQueue = View(items, from, c, n) /\ c \in 0 .. n - 1 /\ from \in 0 .. n - 1
    BY <2>1 DEF EventShape
  <2>3. EventQueue' = View(items', from', c', n) /\ c' \in 0 .. n - 1
    BY DEF EventShape
  <2> QED
    BY <2>1, <2>2, <2>3
<1>1. /\ (eenqueue + 1) % n # erdp
      /\ event' = [event EXCEPT ![eenqueue] = [item |-> x, cycle |-> pcs]]
      /\ eenqueue' = (eenqueue + 1) % n
      /\ pcs' = IF eenqueue + 1 = n THEN 1 - pcs ELSE pcs
      /\ UNCHANGED <<erdp, erdp_val, inside, event_cycle, taken>>
  BY DEF ControllerPost
<1>2. (eenqueue + 1) % n = IF eenqueue + 1 = n THEN 0 ELSE eenqueue + 1
  BY <1>0, NextPlace
<1>3. from' = from
  BY <1>1 DEF EventFrom
<1>4. c' = c + 1
  <2>1. c' = IF event_cycle = pcs' THEN eenqueue' - from ELSE eenqueue' - from + n
    BY <1>1, <1>3 DEF EventCount
  <2>2. /\ pcs \in {0, 1} /\ event_cycle \in {0, 1} /\ erdp \in 0 .. n - 1
        /\ \/ event_cycle = pcs /\ from <= eenqueue /\ (erdp <= from \/ eenqueue < erdp)
           \/ event_cycle # pcs /\ eenqueue < erdp /\ erdp <= from
    BY DEF EventInv, EventPlaces
  <2>3. c = IF event_cycle = pcs THEN eenqueue - from ELSE eenqueue - from + n
    BY DEF EventCount
  <2> HIDE DEF c, n, from
  <2> QED
    BY <1>0, <1>1, <1>2, <2>1, <2>2, <2>3
<1>5. eenqueue = (from + c) % n
  <2> DEFINE s == from + c
  <2>1. s \in 0 .. 2 * n - 1 /\ (s = eenqueue \/ s = eenqueue + n)
    BY <1>0 DEF EventCount, EventInv
  <2> HIDE DEF s, c, n
  <2>2. (s < n /\ s % n = s) \/ (n <= s /\ s % n = s - n)
    BY <1>0, <2>1, ModPlace
  <2>3. s % n = eenqueue
    BY <1>0, <2>1, <2>2
  <2> QED
    BY <2>3 DEF s
<1>6. IsRing(items, n, Stored) /\ x \in Stored
  BY <1>0 DEF IsRing, EventItems, EventInv, Stored
<1>7. items' = [items EXCEPT ![eenqueue] = x]
  BY <1>0, <1>1 DEF EventItems, EventInv
<1>8. Fills(items', items, n, Stored, x, from, c, c')
  BY <1>0, <1>4, <1>5, <1>6, <1>7 DEF Fills
<1> HIDE DEF n, from, c, items
<1>9. EventQueue' = Append(EventQueue, x)
  BY <1>0, <1>3, <1>8, PutView
<1>10. Len(EventQueue) = c
  BY <1>0, <1>6, ViewLen
<1>11. Len(EventQueue) < EventSize - 1
  BY <1>0, <1>4, <1>10 DEF n
<1> QED
  BY <1>1, <1>9, <1>11 DEF EventRing!Put

LEMMA NextTakes ==
    ASSUME EventInv, EventShape, EventShape', NextEvent
    PROVE  EventRing!Take
<1> DEFINE n == EventSize  from == EventFrom  c == EventCount  items == EventItems
<1>0. /\ n \in Nat \ {0} /\ EventPlaces = 0 .. n - 1 /\ from \in 0 .. n - 1
      /\ c \in 0 .. n - 1 /\ c' \in 0 .. n - 1
      /\ EventQueue = View(items, from, c, n) /\ EventQueue' = View(items', from', c', n)
  <2>1. n \in Nat \ {0} /\ EventPlaces = 0 .. n - 1
    BY RingsAssumption DEF EventPlaces
  <2>2. EventQueue = View(items, from, c, n) /\ c \in 0 .. n - 1 /\ from \in 0 .. n - 1
    BY <2>1 DEF EventShape
  <2>3. EventQueue' = View(items', from', c', n) /\ c' \in 0 .. n - 1
    BY DEF EventShape
  <2> QED
    BY <2>1, <2>2, <2>3
<1>1. /\ inside /\ event[erdp_val].cycle = event_cycle
      /\ taken' = event[erdp_val].item
      /\ erdp_val' = IF erdp_val + 1 >= n THEN 0 ELSE erdp_val + 1
      /\ event_cycle' = IF erdp_val + 1 >= n THEN 1 - event_cycle ELSE event_cycle
      /\ UNCHANGED <<event, eenqueue, pcs, erdp, inside>>
  BY DEF NextEvent, AfterToggle
<1>2. from = erdp_val /\ from' = erdp_val'
  BY <1>1 DEF EventFrom
<1>3. c >= 1 /\ c' = c - 1
  BY <1>0, <1>1, <1>2 DEF EventCount, EventInv
<1>4. IsRing(items, n, Stored) /\ items' = items /\ items[from] = taken'
  BY <1>0, <1>1, <1>2 DEF IsRing, EventItems, EventInv
<1>5. Frees(items, n, Stored, from, from', c, c')
  BY <1>0, <1>1, <1>2, <1>3, <1>4 DEF Frees
<1> HIDE DEF n, from, c, items
<1>6. EventQueue # <<>> /\ Head(EventQueue) = items[from] /\ Tail(EventQueue) = EventQueue'
  BY <1>0, <1>4, <1>5, TakeView
<1> QED
  BY <1>4, <1>6 DEF EventRing!Take

(* The event ring implements a queue, for every size of it.                *)
THEOREM EventsAreFifo == RingsSpec => EventRingIsFifo
<1>1. RingsInit => EventRing!Init
  <2> SUFFICES ASSUME RingsInit PROVE EventQueue = <<>>
    BY DEF EventRing!Init
  <2>1. EventSize \in Nat \ {0} /\ eenqueue = 0 /\ EventFrom = 0 /\ event_cycle = 1 /\ pcs = 1
    BY RingsAssumption DEF RingsInit, EventFrom
  <2>2. EventInv
    <3>1. event \in [EventPlaces -> [item : Stored, cycle : {0, 1}]]
          /\ \A i \in EventPlaces : event[i].cycle = 0
      BY DEF RingsInit, EventPlaces, EmptyTrb, Stored
    <3> QED
      BY <2>1, <3>1 DEF RingsInit, EventInv, EventPlaces, EventFrom
  <2>3. EventCount = 0
    BY <2>1 DEF EventCount
  <2> QED
    BY <2>2, <2>3, EventQueueIs DEF EventShape, View
<1>2. EventInv /\ EventShape /\ EventShape' /\ [RingsNext]_ringsVars
        => [EventRing!Next]_<<EventQueue, taken>>
  <2> SUFFICES ASSUME EventInv, EventShape, EventShape', [RingsNext]_ringsVars
               PROVE  [EventRing!Next]_<<EventQueue, taken>>
    OBVIOUS
  <2>1. CASE \E x \in Items : ControllerPost(x)
    BY <2>1, PostAppends DEF EventRing!Next
  <2>2. CASE NextEvent
    BY <2>2, NextTakes DEF EventRing!Next
  <2>3. CASE EnterEvents \/ LeaveEvents
    <3>1. /\ UNCHANGED <<event, eenqueue, pcs, event_cycle, taken>>
          /\ EventFrom' = EventFrom
      BY <2>3 DEF EnterEvents, LeaveEvents, EventFrom
    <3> QED
      BY <3>1 DEF EventShape, EventItems, EventCount
  <2>4. CASE UNCHANGED eventVars
    <3>1. UNCHANGED <<event, eenqueue, pcs, event_cycle, taken>> /\ EventFrom' = EventFrom
      BY <2>4 DEF eventVars, EventFrom
    <3> QED
      BY <3>1 DEF EventShape, EventItems, EventCount
  <2> QED
    BY <2>1, <2>2, <2>3, <2>4 DEF RingsNext, KeyStep, TrbStep, EventStep, ringsVars, Enqueue,
       ControllerFetch, ControllerLink, PushKey, GetKey
<1>3. EventInv => EventShape
  BY EventQueueIs
<1> QED
  BY <1>1, <1>2, <1>3, EventInvariant, PTL DEF RingsSpec, EventRingIsFifo, EventRing!Spec

-----------------------------------------------------------------------------
(* A command or transfer ring.  The slots before the driver's index have   *)
(* its cycle bit, the others and the link the opposite one.  The           *)
(* controller is on the same lap and behind, or one lap behind and then    *)
(* beyond the index.                                                       *)
TrbPlaces == 0 .. Usable - 1
TrbInv ==
    /\ trb \in [0 .. Usable -> [item : Stored, cycle : {0, 1}]]
    /\ enqueue_index \in TrbPlaces /\ dequeue \in 0 .. Usable
    /\ cycle_bit \in {0, 1} /\ ccs \in {0, 1}
    /\ \A i \in TrbPlaces : /\ i < enqueue_index => trb[i].cycle = cycle_bit
                            /\ i >= enqueue_index => trb[i].cycle = 1 - cycle_bit
    /\ trb[Usable].cycle = 1 - cycle_bit
    /\ (cycle_bit = ccs /\ dequeue <= enqueue_index) \/ (cycle_bit # ccs /\ enqueue_index < dequeue)

TrbCount == IF cycle_bit = ccs THEN enqueue_index - dequeue ELSE enqueue_index - dequeue + Usable
TrbItems == [i \in TrbPlaces |-> trb[i].item]

(* What the controller would read on lies between it and the driver.       *)
TrbShape ==
    /\ TrbQueue = View(TrbItems, dequeue, TrbCount, Usable)
    /\ TrbCount \in 0 .. Usable - 1

LEMMA TrbQueueIs == ASSUME TrbInv PROVE TrbShape
<1> DEFINE n == Usable  from == dequeue  c == TrbCount
           stops == {k \in 0 .. n : \/ k = n \/ ~TrbAt(k).reached
                                    \/ trb[TrbAt(k).index].cycle # TrbAt(k).cycle}
<1>0. /\ n \in Nat \ {0} /\ from \in 0 .. n /\ enqueue_index \in 0 .. n - 1
      /\ cycle_bit \in {0, 1} /\ ccs \in {0, 1} /\ TrbPlaces = 0 .. n - 1
  BY RingsAssumption DEF TrbInv, TrbPlaces
<1>1. c \in 0 .. n - 1
  BY <1>0 DEF TrbInv, TrbCount
<1>2. ASSUME NEW k \in 0 .. n - 1
      PROVE  /\ TrbAt(k).index \in 0 .. n - 1
             /\ \/ /\ from + k < n /\ TrbAt(k).index = from + k /\ TrbAt(k).cycle = ccs
                   /\ TrbAt(k).reached
                \/ /\ n <= from + k /\ TrbAt(k).index = from + k - n /\ TrbAt(k).cycle = 1 - ccs
                   /\ TrbAt(k).reached <=> cycle_bit # ccs
  <2> DEFINE x == from + k
  <2>1. x \in 0 .. 2 * n - 1
    BY <1>0
  <2>2. /\ TrbAt(k).index = x % n /\ TrbAt(k).cycle = IF x >= n THEN 1 - ccs ELSE ccs
        /\ TrbAt(k).reached <=> (x >= n => trb[n].cycle = ccs)
    BY DEF TrbAt
  <2>3. trb[n].cycle = ccs <=> cycle_bit # ccs
    BY <1>0 DEF TrbInv
  <2> HIDE DEF x, n, from
  <2>4. x % n \in 0 .. n - 1 /\ ((x < n /\ x % n = x) \/ (n <= x /\ x % n = x - n))
    BY <1>0, <2>1, ModPlace
  <2>5. /\ TrbAt(k).index \in 0 .. n - 1
        /\ \/ x < n /\ TrbAt(k).index = x /\ TrbAt(k).cycle = ccs /\ TrbAt(k).reached
           \/ /\ n <= x /\ TrbAt(k).index = x - n /\ TrbAt(k).cycle = 1 - ccs
              /\ TrbAt(k).reached <=> cycle_bit # ccs
    BY <1>0, <2>1, <2>2, <2>3, <2>4
  <2> QED
    BY <1>0, <2>5 DEF x
<1>3. c \in stops
  <2>1. TrbAt(c).index = enqueue_index /\ TrbAt(c).cycle = cycle_bit
    BY <1>0, <1>1, <1>2 DEF TrbInv, TrbCount
  <2>2. trb[enqueue_index].cycle = 1 - cycle_bit
    BY <1>0 DEF TrbInv
  <2> QED
    BY <1>0, <1>1, <2>1, <2>2
<1>4. ASSUME NEW l \in stops, l < c PROVE FALSE
  <2>1. l \in 0 .. n - 1 /\ (~TrbAt(l).reached \/ trb[TrbAt(l).index].cycle # TrbAt(l).cycle)
    BY <1>0, <1>1, <1>4
  <2>2. trb[TrbAt(l).index].cycle = TrbAt(l).cycle /\ TrbAt(l).reached
    BY <1>0, <1>1, <1>2, <1>4, <2>1 DEF TrbInv, TrbCount
  <2> QED
    BY <2>1, <2>2
<1>5. stops \subseteq Int /\ \A l \in stops : c <= l
  BY <1>0, <1>1, <1>4
<1>6. (CHOOSE k \in stops : \A l \in stops : k <= l) = c
  BY <1>3, <1>5, LeastIs
<1>7. TrbQueue = [k \in 1 .. c |-> trb[TrbAt(k - 1).index].item]
  BY <1>6 DEF TrbQueue
<1>8. ASSUME NEW k \in 1 .. c
      PROVE  trb[TrbAt(k - 1).index].item = TrbItems[(from + k - 1) % n]
  <2>1. TrbAt(k - 1).index = (from + (k - 1)) % n /\ from + (k - 1) = from + k - 1
        /\ k - 1 \in 0 .. n - 1
    BY <1>0, <1>1 DEF TrbAt
  <2>2. TrbAt(k - 1).index \in TrbPlaces
    BY <1>0, <1>2, <2>1
  <2> QED
    BY <2>1, <2>2 DEF TrbItems
<1>9. TrbQueue = View(TrbItems, from, c, n)
  BY <1>7, <1>8 DEF View
<1> QED
  BY <1>1, <1>9 DEF TrbShape

(* The number of TRBs on the way is what the guard of enqueue looks at.    *)
LEMMA TrbLen == ASSUME TrbInv, TrbShape PROVE Len(TrbQueue) = TrbCount
<1> DEFINE n == Usable  from == dequeue  c == TrbCount  items == TrbItems
<1>1. /\ from \in 0 .. n /\ c \in 0 .. n /\ IsRing(items, n, Stored)
      /\ TrbQueue = View(items, from, c, n)
  BY RingsAssumption DEF TrbInv, TrbShape, TrbPlaces, TrbItems, IsRing
<1> HIDE DEF n, from, c, items
<1>2. Len(TrbQueue) = c
  BY <1>1, ViewLen
<1> QED
  BY <1>2 DEF c

LEMMA EnqueueKeeps ==
    ASSUME TrbInv, TrbShape, NEW x \in Items, Enqueue(x)
    PROVE  TrbInv' /\ TrbCount' = TrbCount + 1
<1>0. Usable \in Nat /\ Usable >= 2 /\ TrbPlaces = 0 .. Usable - 1
  BY RingsAssumption DEF TrbPlaces
<1>1. TrbCount < Usable - 1
  BY TrbLen DEF Enqueue
<1>2. CASE enqueue_index + 1 >= Usable
  <2>1. /\ trb' = [trb EXCEPT ![enqueue_index] = [item |-> x, cycle |-> cycle_bit],
                              ![Usable] = [trb[Usable] EXCEPT !.cycle = cycle_bit]]
        /\ enqueue_index' = 0 /\ cycle_bit' = 1 - cycle_bit /\ UNCHANGED <<dequeue, ccs>>
    BY <1>2 DEF Enqueue, LinkGiven
  <2>2. trb' \in [0 .. Usable -> [item : Stored, cycle : {0, 1}]]
    BY <1>0, <2>1 DEF TrbInv, Stored
  <2>3. enqueue_index = Usable - 1 /\ enqueue_index # Usable
    BY <1>0, <1>2 DEF TrbInv
  <2>4. \A i \in TrbPlaces : trb'[i].cycle = cycle_bit
    BY <1>0, <2>1, <2>3 DEF TrbInv
  <2>5. trb'[Usable].cycle = cycle_bit
    BY <1>0, <2>1, <2>3 DEF TrbInv
  <2>6. cycle_bit \in {0, 1} /\ cycle_bit' \in {0, 1} /\ cycle_bit = 1 - cycle_bit'
    BY <2>1 DEF TrbInv
  <2>7. cycle_bit = ccs /\ 0 < dequeue /\ dequeue <= enqueue_index
    BY <1>0, <1>1, <2>3 DEF TrbInv, TrbCount
  <2>8. TrbInv'
    BY <1>0, <2>1, <2>2, <2>4, <2>5, <2>6, <2>7 DEF TrbInv
  <2>9. cycle_bit' # ccs'
    BY <2>1, <2>6, <2>7
  <2>10. TrbCount' = 0 - dequeue + Usable /\ TrbCount = enqueue_index - dequeue
    BY <2>1, <2>7, <2>9 DEF TrbCount
  <2>11. dequeue \in Int /\ Usable \in Int
    BY <1>0 DEF TrbInv
  <2> QED
    BY <2>3, <2>8, <2>10, <2>11
<1>3. CASE ~(enqueue_index + 1 >= Usable)
  <2>1. /\ trb' = [trb EXCEPT ![enqueue_index] = [item |-> x, cycle |-> cycle_bit],
                              ![Usable] = @]
        /\ enqueue_index' = enqueue_index + 1 /\ UNCHANGED <<cycle_bit, dequeue, ccs>>
    BY <1>3 DEF Enqueue
  <2>2. trb' \in [0 .. Usable -> [item : Stored, cycle : {0, 1}]]
    BY <1>0, <2>1 DEF TrbInv, Stored
  <2>3. enqueue_index + 1 \in TrbPlaces /\ enqueue_index # Usable /\ enqueue_index \in 0 .. Usable
    BY <1>0, <1>3 DEF TrbInv
  <2>4. /\ trb'[Usable].cycle = trb[Usable].cycle /\ trb'[enqueue_index].cycle = cycle_bit
        /\ \A i \in TrbPlaces : i # enqueue_index => trb'[i].cycle = trb[i].cycle
    BY <1>0, <2>1, <2>3 DEF TrbInv
  <2>5. \A i \in TrbPlaces : /\ i < enqueue_index + 1 => trb'[i].cycle = cycle_bit
                             /\ i >= enqueue_index + 1 => trb'[i].cycle = 1 - cycle_bit
    BY <1>0, <2>3, <2>4 DEF TrbInv
  <2>6. \/ cycle_bit = ccs /\ dequeue <= enqueue_index + 1
        \/ cycle_bit # ccs /\ enqueue_index + 1 < dequeue
    BY <1>0, <1>1 DEF TrbInv, TrbCount
  <2>7. TrbInv'
    BY <1>0, <2>1, <2>2, <2>3, <2>4, <2>5, <2>6 DEF TrbInv
  <2>8. TrbCount' = TrbCount + 1
    BY <1>0, <2>1 DEF TrbCount, TrbInv
  <2> QED
    BY <2>7, <2>8
<1> QED
  BY <1>2, <1>3

LEMMA TrbInvariant == RingsSpec => []TrbInv
<1>0. Usable \in Nat /\ Usable >= 2 /\ TrbPlaces = 0 .. Usable - 1
  BY RingsAssumption DEF TrbPlaces
<1>1. RingsInit => TrbInv
  <2> SUFFICES ASSUME RingsInit PROVE TrbInv
    OBVIOUS
  <2>1. trb \in [0 .. Usable -> [item : Stored, cycle : {0, 1}]]
        /\ \A i \in 0 .. Usable : trb[i].cycle = 0
    BY DEF RingsInit, EmptyTrb, Stored
  <2> QED
    BY <1>0, <2>1 DEF RingsInit, TrbInv
<1>2. TrbInv /\ [RingsNext]_ringsVars => TrbInv'
  <2> SUFFICES ASSUME TrbInv, [RingsNext]_ringsVars PROVE TrbInv'
    OBVIOUS
  <2>1. CASE \E x \in Items : Enqueue(x)
    BY <2>1, TrbQueueIs, EnqueueKeeps
  <2>2. CASE ControllerFetch
    BY <1>0, <2>2 DEF TrbInv, ControllerFetch
  <2>3. CASE ControllerLink
    BY <1>0, <2>3 DEF TrbInv, ControllerLink
  <2>4. CASE UNCHANGED ringVars
    BY <2>4 DEF ringVars, TrbInv
  <2> QED
    BY <2>1, <2>2, <2>3, <2>4 DEF RingsNext, KeyStep, TrbStep, EventStep, ringsVars,
       ControllerPost, EnterEvents, NextEvent, LeaveEvents, PushKey, GetKey
<1> QED
  BY <1>1, <1>2, PTL DEF RingsSpec

(* enqueue appends, the controller takes the first.                        *)
LEMMA EnqueueAppends ==
    ASSUME TrbInv, TrbShape, TrbShape', NEW x \in Items, Enqueue(x)
    PROVE  TrbRing!Put(x)
<1> DEFINE n == Usable  from == dequeue  c == TrbCount  items == TrbItems
<1>0. /\ n \in Nat \ {0} /\ TrbPlaces = 0 .. n - 1 /\ from \in 0 .. n
      /\ c \in 0 .. n - 1 /\ enqueue_index \in 0 .. n - 1
      /\ TrbQueue = View(items, from, c, n) /\ TrbQueue' = View(items', from', c', n)
  <2>1. n \in Nat \ {0} /\ TrbPlaces = 0 .. n - 1 /\ from \in 0 .. n /\ enqueue_index \in 0 .. n - 1
    BY RingsAssumption DEF TrbPlaces, TrbInv
  <2>2. TrbQueue = View(items, from, c, n) /\ c \in 0 .. n - 1
    BY DEF TrbShape
  <2>3. TrbQueue' = View(items', from', c', n)
    BY DEF TrbShape
  <2> QED
    BY <2>1, <2>2, <2>3
<1>1. from' = from /\ UNCHANGED fetchedTrb /\ Len(TrbQueue) < n - 1
  BY DEF Enqueue
<1>2. c' = c + 1
  BY EnqueueKeeps
<1>3. enqueue_index = (from + c) % n
  <2> DEFINE s == from + c
  <2>1. s \in 0 .. 2 * n - 1 /\ (s = enqueue_index \/ s = enqueue_index + n)
    BY <1>0 DEF TrbCount, TrbInv
  <2> HIDE DEF s, c, n
  <2>2. (s < n /\ s % n = s) \/ (n <= s /\ s % n = s - n)
    BY <1>0, <2>1, ModPlace
  <2>3. s % n = enqueue_index
    BY <1>0, <2>1, <2>2
  <2> QED
    BY <2>3 DEF s
<1>4. IsRing(items, n, Stored) /\ x \in Stored
  BY <1>0 DEF IsRing, TrbItems, TrbInv, Stored
<1>5. items' = [items EXCEPT ![enqueue_index] = x]
  <2>1. /\ trb'[enqueue_index].item = x
        /\ \A i \in TrbPlaces : i # enqueue_index => trb'[i] = trb[i]
    BY <1>0 DEF TrbInv, Enqueue
  <2> QED
    BY <1>0, <2>1 DEF TrbItems
<1>6. Fills(items', items, n, Stored, x, from, c, c')
  BY <1>0, <1>2, <1>3, <1>4, <1>5 DEF Fills
<1> HIDE DEF n, from, c, items
<1>7. TrbQueue' = Append(TrbQueue, x)
  BY <1>0, <1>1, <1>6, PutView
<1> QED
  BY <1>1, <1>7 DEF TrbRing!Put, n

LEMMA FetchTakes ==
    ASSUME TrbInv, TrbShape, TrbShape', ControllerFetch
    PROVE  TrbRing!Take
<1> DEFINE n == Usable  from == dequeue  c == TrbCount  items == TrbItems
<1>0. /\ n \in Nat \ {0} /\ TrbPlaces = 0 .. n - 1 /\ c \in 0 .. n - 1
      /\ TrbQueue = View(items, from, c, n) /\ TrbQueue' = View(items', from', c', n)
  <2>1. n \in Nat \ {0} /\ TrbPlaces = 0 .. n - 1
    BY RingsAssumption DEF TrbPlaces
  <2>2. TrbQueue = View(items, from, c, n) /\ c \in 0 .. n - 1
    BY DEF TrbShape
  <2>3. TrbQueue' = View(items', from', c', n)
    BY DEF TrbShape
  <2> QED
    BY <2>1, <2>2, <2>3
<1>1. /\ from \in 0 .. n - 1 /\ trb[from].cycle = ccs /\ fetchedTrb' = trb[from].item
      /\ from' = from + 1 /\ UNCHANGED <<trb, enqueue_index, cycle_bit, ccs>>
  BY <1>0 DEF ControllerFetch, TrbInv
<1>2. c >= 1 /\ c' = c - 1
  BY <1>0, <1>1 DEF TrbCount, TrbInv
<1>3. IsRing(items, n, Stored) /\ items' = items /\ items[from] = fetchedTrb'
  BY <1>0, <1>1 DEF IsRing, TrbItems, TrbInv
<1>4. Frees(items, n, Stored, from, from', c, c')
  BY <1>0, <1>1, <1>2, <1>3 DEF Frees
<1> HIDE DEF n, from, c, items
<1>5. TrbQueue # <<>> /\ Head(TrbQueue) = items[from] /\ Tail(TrbQueue) = TrbQueue'
  BY <1>0, <1>3, <1>4, TakeView
<1> QED
  BY <1>3, <1>5 DEF TrbRing!Take

(* Following the link is no step of the queue.                             *)
LEMMA LinkStutters ==
    ASSUME TrbInv, TrbShape, TrbShape', ControllerLink
    PROVE  UNCHANGED <<TrbQueue, fetchedTrb>>
<1> DEFINE n == Usable  c == TrbCount  items == TrbItems
<1>1. /\ dequeue = n /\ dequeue' = 0 /\ ccs' = 1 - ccs /\ trb[n].cycle = ccs
      /\ UNCHANGED <<trb, enqueue_index, cycle_bit, fetchedTrb>>
  BY DEF ControllerLink
<1>2. n \in Nat \ {0} /\ c \in 0 .. n
  BY RingsAssumption DEF TrbShape
<1>3. cycle_bit # ccs /\ cycle_bit = ccs'
  BY <1>1 DEF TrbInv
<1>4. c' = c
  BY <1>1, <1>2, <1>3 DEF TrbCount, TrbInv, TrbPlaces
<1>5. /\ TrbQueue = View(items, n, c, n)
      /\ TrbQueue' = View(items, 0, c, n)
  BY <1>1, <1>4 DEF TrbShape, TrbItems
<1> HIDE DEF n, c, items
<1>6. View(items, n, c, n) = View(items, 0, c, n)
  BY <1>2, WrapView
<1> QED
  BY <1>1, <1>5, <1>6

(* A command or transfer ring implements a queue, for every size of it.    *)
THEOREM TrbsAreFifo == RingsSpec => TrbRingIsFifo
<1>1. RingsInit => TrbRing!Init
  <2> SUFFICES ASSUME RingsInit PROVE TrbQueue = <<>>
    BY DEF TrbRing!Init
  <2>1. TrbInv
    <3>1. trb \in [0 .. Usable -> [item : Stored, cycle : {0, 1}]]
          /\ \A i \in 0 .. Usable : trb[i].cycle = 0
      BY DEF RingsInit, EmptyTrb, Stored
    <3> QED
      BY <3>1, RingsAssumption DEF RingsInit, TrbInv, TrbPlaces
  <2>2. TrbCount = 0
    BY DEF RingsInit, TrbCount
  <2> QED
    BY <2>1, <2>2, TrbQueueIs DEF TrbShape, View
<1>2. TrbInv /\ TrbShape /\ TrbShape' /\ [RingsNext]_ringsVars
        => [TrbRing!Next]_<<TrbQueue, fetchedTrb>>
  <2> SUFFICES ASSUME TrbInv, TrbShape, TrbShape', [RingsNext]_ringsVars
               PROVE  [TrbRing!Next]_<<TrbQueue, fetchedTrb>>
    OBVIOUS
  <2>1. CASE \E x \in Items : Enqueue(x)
    BY <2>1, EnqueueAppends DEF TrbRing!Next
  <2>2. CASE ControllerFetch
    BY <2>2, FetchTakes DEF TrbRing!Next
  <2>3. CASE ControllerLink
    BY <2>3, LinkStutters
  <2>4. CASE UNCHANGED ringVars
    BY <2>4 DEF ringVars, TrbShape, TrbItems, TrbCount
  <2> QED
    BY <2>1, <2>2, <2>3, <2>4 DEF RingsNext, KeyStep, TrbStep, EventStep, ringsVars,
       ControllerPost, EnterEvents, NextEvent, LeaveEvents, PushKey, GetKey
<1>3. TrbInv => TrbShape
  BY TrbQueueIs
<1> QED
  BY <1>1, <1>2, <1>3, TrbInvariant, PTL DEF RingsSpec, TrbRingIsFifo, TrbRing!Spec

(* All three rings of the USB driver, for every size.                      *)
THEOREM UsbRingsInOrder == RingsSpec => UsbRingsAreFifo
BY TrbsAreFifo, EventsAreFifo, KeyBufferIsFifo DEF UsbRingsAreFifo
=============================================================================
