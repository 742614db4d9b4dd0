----------------------------- MODULE RingLemmas -----------------------------
(***************************************************************************)
(* What the circular buffers of the drivers have in common: how a run of   *)
(* slots, read as a sequence, changes when a slot is filled behind it or   *)
(* taken from its front.  Nothing here is about one driver; the proofs     *)
(* about the keyboard buffer, the TRB rings and the descriptor rings of    *)
(* the network card rest on it.                                            *)
(***************************************************************************)
EXTENDS Integers, Sequences, SequenceTheorems, TLAPS

(* The items of slots from, from + 1, ... of a ring of n slots.  The       *)
(* place n is the same as 0.                                               *)
View(buf, from, count, n) == [k \in 1 .. count |-> buf[(from + k - 1) % n]]

IsRing(buf, n, S) == n \in Nat \ {0} /\ buf \in [0 .. n - 1 -> S]

(* The slot behind the run is filled with x.                               *)
Fills(new, buf, n, S, x, from, count, more) ==
    /\ IsRing(buf, n, S) /\ x \in S
    /\ from \in 0 .. n /\ count \in 0 .. n - 1 /\ more = count + 1
    /\ new = [buf EXCEPT ![(from + count) % n] = x]

(* The run begins one slot later.                                          *)
Frees(buf, n, S, from, after, count, fewer) ==
    /\ IsRing(buf, n, S)
    /\ from \in 0 .. n - 1 /\ count \in 1 .. n /\ fewer = count - 1
    /\ after = from + 1 \/ (after = 0 /\ from + 1 = n)

(* Remainders of sums and differences of two places.                       *)
LEMMA ModFacts ==
    ASSUME NEW n \in Nat \ {0}
    PROVE  /\ \A x \in 0 .. n - 1 : x % n = x
           /\ \A x \in n .. 2 * n - 1 : x % n = x - n
           /\ \A x \in (-n) .. -1 : x % n = x + n
           /\ \A x \in Int : x % n \in 0 .. n - 1
<1>1. ASSUME NEW x \in 0 .. n - 1 PROVE x % n = x
  OBVIOUS
<1>2. ASSUME NEW x \in n .. 2 * n - 1 PROVE x % n = x - n
  OBVIOUS
<1>3. ASSUME NEW x \in (-n) .. -1 PROVE x % n = x + n
  OBVIOUS
<1>4. ASSUME NEW x \in Int PROVE x % n \in 0 .. n - 1
  OBVIOUS
<1> QED
  BY <1>1, <1>2, <1>3, <1>4

LEMMA ModPlace ==
    ASSUME NEW n \in Nat \ {0}, NEW x \in 0 .. 2 * n - 1
    PROVE  /\ x % n \in 0 .. n - 1
           /\ (x < n /\ x % n = x) \/ (n <= x /\ x % n = x - n)
<1>1. CASE x < n
  <2>1. x \in 0 .. n - 1
    BY <1>1
  <2> QED
    BY <1>1, <2>1, ModFacts
<1>2. CASE n <= x
  <2>1. x \in n .. 2 * n - 1
    BY <1>2
  <2>2. x % n = x - n
    BY <2>1, ModFacts
  <2> QED
    BY <1>2, <2>2
<1> QED
  BY <1>1, <1>2

LEMMA ViewLen ==
    ASSUME NEW n, NEW S, NEW buf, NEW from, NEW count,
           IsRing(buf, n, S), from \in 0 .. n, count \in 0 .. n
    PROVE  Len(View(buf, from, count, n)) = count
<1> USE DEF IsRing
<1>1. \A k \in 1 .. count : buf[(from + k - 1) % n] \in S
  BY ModFacts
<1> QED
  BY <1>1 DEF View

(* A slot filled right behind the run is appended to it.                   *)
LEMMA PutView ==
    ASSUME NEW n, NEW S, NEW buf, NEW x, NEW from, NEW count, NEW more, NEW new,
           Fills(new, buf, n, S, x, from, count, more)
    PROVE  View(new, from, more, n) = Append(View(buf, from, count, n), x)
<1> USE DEF IsRing, Fills
<1> DEFINE old == View(buf, from, count, n)
           put == View(new, from, count + 1, n)
           at == (from + count) % n
<1>1. at \in 0 .. n - 1 /\ new \in [0 .. n - 1 -> S] /\ new[at] = x
  BY ModFacts
<1>2. ASSUME NEW k \in 1 .. count PROVE (from + k - 1) % n \in 0 .. n - 1 /\ (from + k - 1) % n # at
  <2>1. /\ from + k - 1 \in 0 .. 2 * n - 1 /\ from + count \in 0 .. 2 * n - 1
        /\ from + k - 1 < from + count /\ from + count - (from + k - 1) < n
    OBVIOUS
  <2> DEFINE i == from + k - 1   j == from + count
  <2>4. i % n \in 0 .. n - 1 /\ ((i < n /\ i % n = i) \/ (n <= i /\ i % n = i - n))
    BY <2>1, ModPlace
  <2>5. (j < n /\ j % n = j) \/ (n <= j /\ j % n = j - n)
    BY <2>1, ModPlace
  <2>6. i \in Int /\ j \in Int /\ i < j /\ j - i < n /\ at = j % n
    BY <2>1
  <2> HIDE DEF i, j
  <2>8. i % n # at
    BY <2>4, <2>5, <2>6
  <2> QED
    BY <2>4, <2>8 DEF i
<1>3. \A k \in 1 .. count : put[k] = old[k]
  BY <1>1, <1>2 DEF View
<1>4. put[count + 1] = x
  BY <1>1 DEF View
<1>5. old \in Seq(S) /\ Len(old) = count /\ put \in Seq(S) /\ Len(put) = count + 1
  <2>1. \A k \in 1 .. count : buf[(from + k - 1) % n] \in S
    BY <1>2
  <2>2. \A k \in 1 .. count + 1 : new[(from + k - 1) % n] \in S
    BY <1>1, ModFacts
  <2> QED
    BY <2>1, <2>2 DEF View
<1> HIDE DEF old, put
<1>6. /\ Append(old, x) \in Seq(S) /\ Len(Append(old, x)) = count + 1
      /\ \A k \in 1 .. count : Append(old, x)[k] = old[k]
      /\ Append(old, x)[count + 1] = x
  BY <1>5, AppendProperties
<1>7. \A k \in 1 .. count + 1 : put[k] = Append(old, x)[k]
  BY <1>3, <1>4, <1>6
<1>8. put = Append(old, x)
  BY <1>5, <1>6, <1>7, SeqEqual
<1>9. more = count + 1
  OBVIOUS
<1> QED
  BY <1>8, <1>9 DEF old, put

(* The end of the ring is its beginning.                                   *)
LEMMA WrapView ==
    ASSUME NEW n, NEW buf, NEW count, n \in Nat \ {0}, count \in 0 .. n
    PROVE  View(buf, n, count, n) = View(buf, 0, count, n)
<1>1. ASSUME NEW k \in 1 .. count PROVE (n + k - 1) % n = (0 + k - 1) % n
  <2> DEFINE x == n + k - 1   y == 0 + k - 1
  <2>1. x \in 0 .. 2 * n - 1 /\ n <= x /\ y \in 0 .. n - 1 /\ y \in 0 .. 2 * n - 1 /\ x - n = y
    OBVIOUS
  <2> HIDE DEF x, y
  <2>2. x % n = x - n
    BY <2>1, ModPlace
  <2>3. y % n = y
    BY <2>1, ModPlace
  <2> QED
    BY <2>1, <2>2, <2>3 DEF x, y
<1> QED
  BY <1>1 DEF View

(* The first slot of the run is the head of the sequence; behind it the    *)
(* rest begins.                                                            *)
LEMMA TakeView ==
    ASSUME NEW n, NEW S, NEW buf, NEW from, NEW after, NEW count, NEW fewer,
           Frees(buf, n, S, from, after, count, fewer)
    PROVE  /\ View(buf, from, count, n) # <<>>
           /\ Head(View(buf, from, count, n)) = buf[from]
           /\ Tail(View(buf, from, count, n)) = View(buf, after, fewer, n)
<1> DEFINE old == View(buf, from, count, n)
           rest == View(buf, from + 1, count - 1, n)
<1>0. /\ n \in Nat \ {0} /\ buf \in [0 .. n - 1 -> S]
      /\ from \in 0 .. n - 1 /\ count \in 1 .. n /\ fewer = count - 1
      /\ after = from + 1 \/ (after = 0 /\ from + 1 = n)
  BY DEF IsRing, Frees
<1>1. /\ old \in Seq(S) /\ Len(old) = count
      /\ \A k \in 1 .. count : old[k] = buf[(from + k - 1) % n]
  <2>0. \A k \in 1 .. count : (from + k - 1) % n \in 0 .. n - 1
    BY <1>0
  <2>1. \A k \in 1 .. count : buf[(from + k - 1) % n] \in S
    BY <1>0, <2>0
  <2> QED
    BY <1>0, <2>1 DEF View
<1>2. /\ rest \in Seq(S) /\ Len(rest) = count - 1
      /\ \A k \in 1 .. count - 1 : rest[k] = buf[(from + 1 + k - 1) % n]
  <2>0. \A k \in 1 .. count - 1 : (from + 1 + k - 1) % n \in 0 .. n - 1
    BY <1>0
  <2>1. \A k \in 1 .. count - 1 : buf[(from + 1 + k - 1) % n] \in S
    BY <1>0, <2>0
  <2> QED
    BY <1>0, <2>1 DEF View
<1>3. old[1] = buf[from]
  <2>0. from % n = from
    BY <1>0, ModFacts, Zenon
  <2>1. 1 \in 1 .. count /\ from + 1 - 1 = from /\ from % n = from
    BY <1>0, <2>0
  <2>2. old[1] = buf[(from + 1 - 1) % n]
    BY <1>1, <2>1
  <2> QED
    BY <2>1, <2>2
<1>4. ASSUME NEW k \in 1 .. count - 1 PROVE rest[k] = old[k + 1]
  <2>1. from + 1 + k - 1 = from + (k + 1) - 1 /\ k + 1 \in 1 .. count
    BY <1>0
  <2>2. old[k + 1] = buf[(from + (k + 1) - 1) % n]
    BY <1>1, <2>1
  <2> QED
    BY <1>2, <2>1, <2>2
<1> HIDE DEF old, rest
<1>5. old # <<>> /\ Head(old) = buf[from]
  BY <1>0, <1>1, <1>3
<1>6. /\ Tail(old) \in Seq(S) /\ Len(Tail(old)) = count - 1
      /\ \A k \in 1 .. count - 1 : Tail(old)[k] = old[k + 1]
  BY <1>0, <1>1, <1>5, HeadTailProperties
<1>7. Tail(old) = rest
  BY <1>2, <1>4, <1>6, SeqEqual
<1>8. View(buf, after, fewer, n) = View(buf, from + 1, count - 1, n)
  <2>1. fewer = count - 1 /\ count - 1 \in 0 .. n /\ n \in Nat \ {0}
    BY <1>0
  <2>2. CASE after = from + 1
    BY <2>1, <2>2
  <2>3. CASE after = 0 /\ from + 1 = n
    BY <2>1, <2>3, WrapView
  <2> QED
    BY <1>0, <2>2, <2>3
<1> QED
  BY <1>5, <1>7, <1>8 DEF old, rest

(* The least of a set of numbers.                                          *)
LEMMA LeastIs ==
    ASSUME NEW stops, NEW c, stops \subseteq Int, c \in stops, \A l \in stops : c <= l
    PROVE  (CHOOSE k \in stops : \A l \in stops : k <= l) = c
<1>1. \A k \in stops : (\A l \in stops : k <= l) => k = c
  OBVIOUS
<1> QED
  BY <1>1

(* The place after a place.                                                *)
LEMMA NextPlace ==
    ASSUME NEW n \in Nat \ {0}, NEW i \in 0 .. n - 1
    PROVE  /\ (i + 1) % n \in 0 .. n - 1
           /\ (i + 1) % n = IF i + 1 = n THEN 0 ELSE i + 1
<1> DEFINE x == i + 1
<1>1. x \in 0 .. 2 * n - 1 /\ x <= n
  OBVIOUS
<1> HIDE DEF x
<1>2. /\ x % n \in 0 .. n - 1
      /\ (x < n /\ x % n = x) \/ (n <= x /\ x % n = x - n)
  BY <1>1, ModPlace
<1> QED
  BY <1>1, <1>2 DEF x

(* The distance from one place to another.                                 *)
LEMMA DistanceIs ==
    ASSUME NEW n \in Nat \ {0}, NEW h \in 0 .. n - 1, NEW t \in 0 .. n - 1
    PROVE  (h - t) % n = IF t <= h THEN h - t ELSE h - t + n
<1> DEFINE d == h - t
<1>1. d \in Int /\ d < n /\ -n < d /\ (t <= h <=> 0 <= d)
  OBVIOUS
<1> HIDE DEF d
<1>2. CASE 0 <= d
  <2>1. d \in 0 .. n - 1
    BY <1>1, <1>2
  <2>2. d % n = d
    BY <2>1, ModFacts
  <2> QED
    BY <1>1, <1>2, <2>2 DEF d
<1>3. CASE d < 0
  <2>1. d \in (-n) .. -1
    BY <1>1, <1>3
  <2>2. d % n = d + n
    BY <2>1, ModFacts
  <2> QED
    BY <1>1, <1>3, <2>2 DEF d
<1> QED
  BY <1>1, <1>2, <1>3
=============================================================================
