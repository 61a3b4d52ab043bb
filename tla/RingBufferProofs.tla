-------------------------- MODULE RingBufferProofs --------------------------
(***************************************************************************)
(* For every capacity, and every interleaving of reservations and          *)
(* completions, a RingBuffer never hands out bytes that are still in use.  *)
(***************************************************************************)
EXTENDS RingBuffer, TLAPS

\* A position not past the end of the ring does not wrap.
LEMMA ModInside ==
  ASSUME NEW m \in Nat \ {0}, NEW x \in 0 .. m - 1
  PROVE  x % m = x
  BY SMT

\* A position past the end of the ring wraps once.
LEMMA ModWrapped ==
  ASSUME NEW m \in Nat \ {0}, NEW x \in m .. 2 * m - 1
  PROVE  x % m = x - m
  BY SMT

\* What RingBuffer::reserve returns, with the remainder resolved: the space it
\* picks lies between the tail and the head of the unrolled ring.
LEMMA ReserveResult ==
  ASSUME NEW cap \in Nat \ {0}, NEW h \in 0 .. cap - 1, NEW t \in 0 .. cap - 1,
         NEW len \in Nat, Reserve(cap, h, t, len).ok
  PROVE  LET r == Reserve(cap, h, t, len)
         IN  /\ len > 0
             /\ r.offset \in Nat /\ r.padding \in Nat /\ r.tail \in 0 .. cap - 1
             /\ r.offset + len <= cap
             /\ r.tail # h
             /\ \/ /\ r.padding = 0
                   /\ r.offset = t
                   /\ t + len < cap /\ r.tail = t + len
                   /\ t < h => t + len < h
                \/ /\ r.padding = 0
                   /\ r.offset = t
                   /\ t + len = cap /\ r.tail = 0
                   /\ 0 < h /\ h <= t
                \/ /\ r.padding = cap - t
                   /\ r.offset = 0
                   /\ r.tail = len
                   /\ len < h /\ h <= t
<1> DEFINE r == Reserve(cap, h, t, len)
<1>1. CASE FitsContiguous(cap, h, t, len)
  <2>1. r = [ok |-> TRUE, offset |-> t, padding |-> 0, tail |-> (t + len) % cap]
    BY <1>1 DEF Reserve
  <2>2. /\ len > 0
        /\ t >= h /\ h = 0 => t + len < cap
        /\ t >= h /\ h # 0 => t + len <= cap
        /\ t < h => t + len < h
    BY <1>1 DEF FitsContiguous, ContiguousFree
  <2>3. CASE t + len < cap
    <3>1. (t + len) % cap = t + len
      BY <2>3, ModInside
    <3> QED BY <2>1, <2>2, <2>3, <3>1
  <2>4. CASE t + len = cap
    <3>1. (t + len) % cap = 0
      BY <2>4, ModWrapped
    <3> QED BY <2>1, <2>2, <2>4, <3>1
  <2> QED BY <2>2, <2>3, <2>4
<1>2. CASE ~ FitsContiguous(cap, h, t, len) /\ FitsWrapped(cap, h, t, len)
  <2>1. r = [ok |-> TRUE, offset |-> 0, padding |-> cap - t, tail |-> len]
    BY <1>2 DEF Reserve
  <2>2. len > 0 /\ len < h /\ cap - t + len <= Available(cap, h, t) + 1
    BY <1>2 DEF FitsWrapped
  <2>3. h <= t
    BY <2>2 DEF Available, Used
  <2> QED BY <2>1, <2>2, <2>3
<1>3. CASE ~ FitsContiguous(cap, h, t, len) /\ ~ FitsWrapped(cap, h, t, len)
  BY <1>3 DEF Reserve
<1> QED BY <1>1, <1>2, <1>3

\* The fields of an unreleased reservation are natural numbers.
LEMMA ExtentFields ==
  ASSUME NEW s \in Seq(Extent), NEW i \in 1 .. Len(s)
  PROVE  s[i].offset \in Nat /\ s[i].len \in Nat /\ s[i].padding \in Nat
<1>1. s[i] \in Extent
  OBVIOUS
<1> QED BY <1>1 DEF Extent

\* Unrolling an offset gives a natural number.
LEMMA UnrolledNat ==
  ASSUME Capacity \in Nat \ {0},
         NEW offset \in Nat, head \in 0 .. Capacity - 1
  PROVE  Unrolled(offset) \in Nat
  BY DEF Unrolled

\* Extents that are apart in the unrolled ring are apart in the ring.
LEMMA UnrolledApart ==
  ASSUME Capacity \in Nat \ {0},
         head \in 0 .. Capacity - 1,
         NEW o1 \in Nat, NEW l1 \in Nat, NEW o2 \in Nat, NEW l2 \in Nat,
         Unrolled(o1) + l1 <= Unrolled(o2), Unrolled(o2) + l2 <= head + Capacity
  PROVE  o1 + l1 <= o2 \/ o2 + l2 <= o1
  BY DEF Unrolled

\* RingBuffer::new gives a ring that satisfies the invariant.
LEMMA InitRingInv ==
  ASSUME Capacity \in Nat \ {0}
  PROVE  Init => RingInv
  BY DEF Init, RingInv, TypeOK, Whole, Tiled, Ordered, TailAtEnd, Unrolled, Start, End, Extent

\* RingBuffer::reserve keeps the reservations tiled.
LEMMA ReserveKeepsRingInv ==
  ASSUME Capacity \in Nat \ {0},
         RingInv, NEW len \in 1 .. Capacity, ReserveBytes(len)
  PROVE  RingInv'
<1> DEFINE r == Reserve(Capacity, head, tail, len)
           x == [offset |-> r.offset, len |-> len, padding |-> r.padding]
           n == Len(live)
<1>1. /\ head \in 0 .. Capacity - 1 /\ tail \in 0 .. Capacity - 1
      /\ live \in Seq(Extent) /\ n \in Nat
      /\ r.ok /\ head' = head /\ tail' = r.tail /\ live' = Append(live, x)
  BY DEF RingInv, TypeOK, ReserveBytes
<1>2. /\ r.offset \in Nat /\ r.padding \in Nat /\ r.tail \in 0 .. Capacity - 1
      /\ r.offset + len <= Capacity /\ r.tail # head
  BY <1>1, ReserveResult
<1>3. x \in Extent
  BY <1>2 DEF Extent
<1>4. /\ live' \in Seq(Extent)
      /\ Len(live') = n + 1
      /\ live'[n + 1] = x
      /\ \A i \in 1 .. n : live'[i] = live[i]
  BY <1>1, <1>3
<1>5. TypeOK'
  BY <1>1, <1>2, <1>4 DEF TypeOK
<1>6. Whole'
  BY <1>1, <1>2, <1>4 DEF RingInv, Whole
<1>7. \A i \in 1 .. n : /\ live[i].offset \in Nat /\ live[i].len \in Nat /\ live[i].padding \in Nat
                        /\ live'[i].offset = live[i].offset
                        /\ live'[i].len = live[i].len
                        /\ live'[i].padding = live[i].padding
  <2>1. \A i \in 1 .. n : live[i].offset \in Nat /\ live[i].len \in Nat /\ live[i].padding \in Nat
    BY <1>1, ExtentFields
  <2> QED BY <1>4, <2>1
<1>8. /\ live'[n + 1].offset = r.offset
      /\ live'[n + 1].len = len
      /\ live'[n + 1].padding = r.padding
  BY <1>4
<1>9. live' # <<>>
  BY <1>4
<1>10. n = 0 <=> live = <<>>
  BY <1>1
<1> HIDE DEF x
<1> DEFINE S(i) == Unrolled(live[i].offset)
           E(i) == S(i) + live[i].len
           last == IF n = 0 THEN head ELSE E(n)
<1>11. last = Unrolled(tail)
  BY <1>1, <1>10 DEF RingInv, TailAtEnd, Unrolled, Start, End
<1>12. /\ Unrolled(r.offset) = last + r.padding
       /\ Unrolled(r.tail) = Unrolled(r.offset) + len
  <2>1. /\ Unrolled(r.offset) = Unrolled(tail) + r.padding
        /\ Unrolled(r.tail) = Unrolled(r.offset) + len
    <3> HIDE DEF r
    <3>1. \/ /\ r.padding = 0
             /\ r.offset = tail
             /\ tail + len < Capacity /\ r.tail = tail + len
             /\ tail < head => tail + len < head
          \/ /\ r.padding = 0
             /\ r.offset = tail
             /\ tail + len = Capacity /\ r.tail = 0
             /\ 0 < head /\ head <= tail
          \/ /\ r.padding = Capacity - tail
             /\ r.offset = 0
             /\ r.tail = len
             /\ len < head /\ head <= tail
      BY <1>1, ReserveResult, SMTT(30) DEF r
    <3>2. len \in Nat /\ head \in Nat /\ tail \in Nat
      BY <1>1
    <3>3. CASE r.padding = 0 /\ r.offset = tail /\ r.tail = tail + len
      BY <1>1, <3>1, <3>2, <3>3 DEF Unrolled
    <3>4. CASE r.padding = 0 /\ r.offset = tail /\ r.tail = 0 /\ tail + len = Capacity
      BY <1>1, <3>1, <3>2, <3>4 DEF Unrolled
    <3>5. CASE r.padding = Capacity - tail /\ r.offset = 0 /\ r.tail = len
      BY <1>1, <3>1, <3>2, <3>5 DEF Unrolled
    <3> QED BY <3>1, <3>3, <3>4, <3>5
  <2> QED BY <1>11, <2>1
<1> HIDE DEF r
<1>13. \A i \in 1 .. n : S(i) \in Nat /\ E(i) \in Nat /\ S(i) <= E(i) /\ E(i) <= last
  <2> SUFFICES ASSUME NEW i \in 1 .. n
               PROVE  S(i) \in Nat /\ E(i) \in Nat /\ S(i) <= E(i) /\ E(i) <= last
    OBVIOUS
  <2>1. \A k \in 1 .. n : S(k) \in Nat /\ E(k) \in Nat /\ S(k) <= E(k)
    <3> TAKE k \in 1 .. n
    <3>1. live[k].offset \in Nat /\ live[k].len \in Nat
      BY <1>7
    <3>2. Unrolled(live[k].offset) \in Nat
      BY <3>1 DEF Unrolled
    <3> QED BY <3>1, <3>2
  <2>2. i < n => E(i) <= S(n)
    BY <1>1 DEF RingInv, Ordered, Start, End
  <2>3. n # 0 /\ n \in 1 .. n
    BY <1>1
  <2> HIDE DEF S, E, n
  <2> QED BY <1>1, <2>1, <2>2, <2>3
<1>14. Tiled'
  <2>1. Unrolled(live'[1].offset) = head + live'[1].padding
    <3>1. CASE n = 0
      BY <1>8, <1>12, <3>1
    <3>2. CASE n # 0
      <4>1. Unrolled(live[1].offset) = head + live[1].padding
        BY <1>10, <3>2 DEF RingInv, Tiled, Start
      <4> QED BY <1>1, <1>7, <3>2, <4>1
    <3> QED BY <3>1, <3>2
  <2>2. ASSUME NEW i \in 1 .. n
        PROVE  Unrolled(live'[i + 1].offset)
                 = Unrolled(live'[i].offset) + live'[i].len + live'[i + 1].padding
    <3>1. CASE i = n
      BY <1>1, <1>7, <1>8, <1>12, <3>1
    <3>2. CASE i < n
      <4>1. Unrolled(live[i + 1].offset)
              = Unrolled(live[i].offset) + live[i].len + live[i + 1].padding
        BY <1>1, <3>2 DEF RingInv, Tiled, Start, End
      <4>2. i + 1 \in 1 .. n
        BY <1>1, <3>2
      <4> QED BY <1>7, <4>1, <4>2
    <3> QED BY <1>1, <3>1, <3>2
  <2> QED BY <1>1, <1>4, <2>1, <2>2 DEF Tiled, Start, End, Unrolled
<1>15. Ordered'
  <2>1. ASSUME NEW i \in 1 .. n + 1, NEW j \in 1 .. n + 1, i < j
        PROVE  Unrolled(live'[i].offset) + live'[i].len <= Unrolled(live'[j].offset)
    <3>1. i \in 1 .. n
      BY <1>1, <2>1
    <3>2. CASE j = n + 1
      <4>1. E(i) \in Nat /\ E(i) <= last /\ last \in Nat
        BY <1>1, <1>13, <3>1
      <4>2. Unrolled(live'[j].offset) = last + r.padding
        BY <1>8, <1>12, <3>2
      <4>3. Unrolled(live'[i].offset) + live'[i].len = E(i)
        BY <1>7, <3>1
      <4> HIDE DEF E, last
      <4> QED BY <1>2, <4>1, <4>2, <4>3
    <3>3. CASE j \in 1 .. n
      <4>1. Unrolled(live[i].offset) + live[i].len <= Unrolled(live[j].offset)
        BY <2>1, <3>1, <3>3 DEF RingInv, Ordered, Start, End
      <4> QED BY <1>7, <3>1, <3>3, <4>1
    <3> QED BY <1>1, <3>2, <3>3
  <2> QED BY <1>1, <1>4, <2>1 DEF Ordered, Start, End, Unrolled
<1>16. TailAtEnd'
  BY <1>1, <1>2, <1>4, <1>8, <1>9, <1>12 DEF TailAtEnd, Start, End, Unrolled
<1> QED BY <1>5, <1>6, <1>14, <1>15, <1>16 DEF RingInv

\* RingBuffer::release of the oldest reservation keeps the rest tiled.
LEMMA ReleaseKeepsRingInv ==
  ASSUME Capacity \in Nat \ {0},
         RingInv, ReleaseOldest
  PROVE  RingInv'
<1> DEFINE n == Len(live)
           S(i) == Unrolled(live[i].offset)
           E(i) == S(i) + live[i].len
           U(h, offset) == IF offset < h THEN offset + Capacity ELSE offset
<1>1. /\ head \in 0 .. Capacity - 1 /\ tail \in 0 .. Capacity - 1
      /\ live \in Seq(Extent) /\ live # <<>>
      /\ tail' = tail
      /\ live' = Tail(live)
      /\ head' = (head + (live[1].padding + live[1].len)) % Capacity
  BY DEF RingInv, TypeOK, ReleaseOldest, Release
<1>2. n \in Nat /\ n >= 1 /\ 1 \in 1 .. n /\ n \in 1 .. n
  BY <1>1
<1>3. /\ live' \in Seq(Extent)
      /\ Len(live') = n - 1
      /\ \A i \in 1 .. n - 1 : i + 1 \in 1 .. n /\ live'[i] = live[i + 1]
  BY <1>1, <1>2
<1>4. \A i \in 1 .. n : /\ live[i].offset \in Nat /\ live[i].len \in Nat /\ live[i].padding \in Nat
                        /\ live[i].len > 0 /\ live[i].offset + live[i].len <= Capacity
  BY <1>1, ExtentFields DEF RingInv, Whole
<1>5. \A i \in 1 .. n : S(i) \in Nat /\ E(i) \in Nat /\ S(i) < E(i)
  <2> TAKE i \in 1 .. n
  <2>1. live[i].offset \in Nat /\ live[i].len \in Nat /\ live[i].len > 0
    BY <1>4
  <2>2. Unrolled(live[i].offset) \in Nat
    BY <2>1 DEF Unrolled
  <2> QED BY <2>1, <2>2
<1>6. /\ E(1) = head + (live[1].padding + live[1].len)
      /\ head < E(1)
  <2>1. S(1) = head + live[1].padding
    BY <1>1 DEF RingInv, Tiled, Start
  <2> QED BY <1>1, <1>2, <1>4, <2>1
<1>7. \A i \in 1 .. n : i # 1 => E(1) <= S(i)
  BY <1>2 DEF RingInv, Ordered, Start, End
<1>8. tail # head /\ Unrolled(tail) = E(n)
  BY <1>1 DEF RingInv, TailAtEnd, Start, End
<1>9. \A offset \in 0 .. Capacity - 1 : Unrolled(offset) < head + Capacity
  BY <1>1 DEF Unrolled
<1> HIDE DEF S, E, n
<1>10. E(1) <= E(n) /\ E(1) < head + Capacity /\ E(1) \in Nat
  <2>1. E(n) < head + Capacity
    BY <1>1, <1>8, <1>9
  <2>2. E(1) <= E(n)
    <3>1. CASE n = 1
      BY <1>2, <1>5, <3>1
    <3>2. CASE n # 1
      <4>1. E(1) <= S(n)
        BY <1>2, <1>7, <3>2
      <4> QED BY <1>2, <1>5, <4>1
    <3> QED BY <3>1, <3>2
  <2> QED BY <1>1, <1>2, <1>5, <2>1, <2>2
\* Moving the head to the end of the oldest reservation, the unrolled positions
\* of everything behind it stay, or all move down by one turn of the ring.
<1> DEFINE shift == IF E(1) < Capacity THEN 0 ELSE Capacity
<1>11. head' = E(1) - shift /\ head' \in 0 .. Capacity - 1
  <2>1. head' = E(1) % Capacity
    BY <1>1, <1>6
  <2>2. CASE E(1) < Capacity
    <3>1. E(1) % Capacity = E(1)
      BY <1>10, <2>2, ModInside
    <3> QED BY <1>10, <2>1, <2>2, <3>1
  <2>3. CASE E(1) >= Capacity
    <3>1. E(1) \in Capacity .. 2 * Capacity - 1
      BY <1>1, <1>10, <2>3
    <3>2. E(1) % Capacity = E(1) - Capacity
      BY <3>1, ModWrapped
    <3> QED BY <1>10, <2>1, <2>3, <3>1, <3>2
  <2> QED BY <1>10, <2>2, <2>3
<1>12. ASSUME NEW offset \in 0 .. Capacity - 1, E(1) <= Unrolled(offset)
       PROVE  U(head', offset) = Unrolled(offset) - shift
  <2>1. CASE E(1) < Capacity
    BY <1>1, <1>6, <1>10, <1>11, <1>12, <2>1 DEF Unrolled
  <2>2. CASE E(1) >= Capacity
    BY <1>1, <1>6, <1>10, <1>11, <1>12, <2>2 DEF Unrolled
  <2> QED BY <1>10, <2>1, <2>2
<1>13. \A i \in 1 .. n : i # 1 => U(head', live[i].offset) = S(i) - shift
  <2> SUFFICES ASSUME NEW i \in 1 .. n, i # 1
               PROVE  U(head', live[i].offset) = S(i) - shift
    OBVIOUS
  <2>1. live[i].offset \in 0 .. Capacity - 1
    BY <1>4
  <2>2. E(1) <= Unrolled(live[i].offset)
    BY <1>7 DEF S
  <2> QED BY <1>12, <2>1, <2>2 DEF S
<1>14. TypeOK'
  BY <1>1, <1>3, <1>11 DEF TypeOK
<1>15. Whole'
  BY <1>2, <1>3, <1>4, Zenon DEF Whole
<1> DEFINE S2(i) == U(head', live'[i].offset)
           E2(i) == S2(i) + live'[i].len
<1>16. \A i \in 1 .. n - 1 : /\ S2(i) = S(i + 1) - shift
                             /\ E2(i) = E(i + 1) - shift
                             /\ live'[i].padding = live[i + 1].padding
  <2> SUFFICES ASSUME NEW i \in 1 .. n - 1
               PROVE  /\ S2(i) = S(i + 1) - shift
                      /\ E2(i) = E(i + 1) - shift
                      /\ live'[i].padding = live[i + 1].padding
    OBVIOUS
  <2>1. i + 1 \in 1 .. n /\ i + 1 # 1 /\ live'[i] = live[i + 1]
    BY <1>2, <1>3
  <2>2. S2(i) = S(i + 1) - shift
    BY <1>13, <2>1
  <2>3. E(i + 1) = S(i + 1) + live[i + 1].len /\ S(i + 1) \in Nat /\ live[i + 1].len \in Nat
    BY <1>4, <1>5, <2>1 DEF E
  <2> HIDE DEF U
  <2> QED BY <2>1, <2>2, <2>3
<1> HIDE DEF shift
<1>17. \A i \in 1 .. n - 1 : S(i + 1) = E(i) + live[i + 1].padding
  BY DEF RingInv, Tiled, Start, End, S, E, n
<1>18. shift \in Nat
  BY DEF shift
<1>19. /\ live' # <<>> => S2(1) = head' + live'[1].padding
       /\ \A i \in 1 .. Len(live') - 1 : S2(i + 1) = E2(i) + live'[i + 1].padding
  <2> HIDE DEF S2, E2
  <2>1. ASSUME live' # <<>> PROVE S2(1) = head' + live'[1].padding
    <3>1. 1 \in 1 .. n - 1
      BY <1>2, <1>3, <2>1
    <3>2. live[2].padding \in Nat
      BY <1>2, <1>4, <3>1
    <3> QED BY <1>10, <1>11, <1>16, <1>17, <1>18, <3>1, <3>2
  <2>2. ASSUME NEW i \in 1 .. n - 2 PROVE S2(i + 1) = E2(i) + live'[i + 1].padding
    <3>1. i \in 1 .. n - 1 /\ i + 1 \in 1 .. n - 1 /\ i + 1 \in 1 .. n /\ (i + 1) + 1 \in 1 .. n
      BY <1>2
    <3>2. E(i + 1) \in Nat /\ live[(i + 1) + 1].padding \in Nat
      BY <1>4, <1>5, <3>1
    <3> QED BY <1>16, <1>17, <1>18, <3>1, <3>2
  <2> QED BY <1>2, <1>3, <2>1, <2>2
<1>20. \A i, j \in 1 .. Len(live') : i < j => E2(i) <= S2(j)
  <2> SUFFICES ASSUME NEW i \in 1 .. n - 1, NEW j \in 1 .. n - 1, i < j
               PROVE  E2(i) <= S2(j)
    BY <1>2, <1>3
  <2>1. E(i + 1) <= S(j + 1)
    BY <1>2 DEF RingInv, Ordered, Start, End, S, E, n
  <2>2. E(i + 1) \in Nat /\ S(j + 1) \in Nat
    BY <1>2, <1>5
  <2> HIDE DEF S2, E2
  <2> QED BY <1>16, <1>18, <2>1, <2>2
<1>21. /\ live' = <<>> => tail' = head'
       /\ live' # <<>> => tail' # head' /\ U(head', tail') = E2(Len(live'))
  <2>1. E(1) <= Unrolled(tail)
    BY <1>8, <1>10
  <2>2. U(head', tail') = E(n) - shift
    BY <1>1, <1>8, <1>12, <2>1
  <2>3. CASE n = 1
    <3>1. live' = <<>>
      BY <1>3, <2>3
    <3>2. U(head', tail) = head'
      BY <1>1, <1>11, <2>2, <2>3
    <3>3. tail = head'
      BY <1>1, <1>11, <3>2
    <3> QED BY <1>1, <3>1, <3>3
  <2>4. CASE n # 1
    <3>1. n - 1 \in 1 .. n - 1 /\ live' # <<>> /\ Len(live') = n - 1 /\ (n - 1) + 1 = n
      BY <1>2, <1>3, <2>4
    <3>2. E2(n - 1) = E(n) - shift
      <4> HIDE DEF E2
      <4> QED BY <1>16, <3>1
    <3>3. E(1) < E(n)
      <4>1. E(1) <= S(n) /\ S(n) < E(n) /\ S(n) \in Nat /\ E(n) \in Nat
        BY <1>2, <1>5, <1>7, <2>4
      <4> QED BY <1>10, <4>1
    <3>4. U(head', tail') # head'
      BY <1>2, <1>5, <1>10, <1>11, <1>18, <2>2, <3>3
    <3>5. tail' # head'
      BY <1>11, <3>4
    <3> QED BY <2>2, <3>1, <3>2, <3>5
  <2> QED BY <2>3, <2>4
<1>22. Tiled'
  BY <1>19 DEF Tiled, Start, End, Unrolled
<1>23. Ordered'
  BY <1>20 DEF Ordered, Start, End, Unrolled
<1>24. TailAtEnd'
  BY <1>21 DEF TailAtEnd, Start, End, Unrolled
<1> QED BY <1>14, <1>15, <1>22, <1>23, <1>24 DEF RingInv

\* The reservations tile the ring in every reachable state: reserve and release,
\* interleaved in any order, keep the inductive invariant.
THEOREM RingInvariant ==
  ASSUME Capacity \in Nat \ {0}
  PROVE  Spec => []RingInv
<1>1. RingInv /\ [Next]_vars => RingInv'
  <2> SUFFICES ASSUME RingInv, [Next]_vars PROVE RingInv'
    OBVIOUS
  <2>1. CASE ReleaseOldest
    BY <2>1, ReleaseKeepsRingInv
  <2>2. ASSUME NEW len \in 1 .. Capacity, ReserveBytes(len) PROVE RingInv'
    BY <2>2, ReserveKeepsRingInv
  <2>3. CASE UNCHANGED vars
    BY <2>3 DEF vars, RingInv, TypeOK, Whole, Tiled, Ordered, TailAtEnd, Start, End, Unrolled
  <2> QED BY <2>1, <2>2, <2>3 DEF Next
<1> QED BY InitRingInv, <1>1, PTL DEF Spec

\* head and tail stay inside the ring whatever RingBuffer::reserve and release
\* are asked to do.
THEOREM TypeCorrect ==
  ASSUME Capacity \in Nat \ {0}
  PROVE  Spec => []TypeOK
<1>1. RingInv => TypeOK
  BY DEF RingInv
<1> QED BY RingInvariant, <1>1, PTL

\* RingBuffer::reserve never returns bytes of a reservation whose send has not
\* completed, for every ring capacity.
THEOREM NoOverlapTheorem ==
  ASSUME Capacity \in Nat \ {0}
  PROVE  Spec => []NoOverlap
<1>1. RingInv => NoOverlap
  <2> SUFFICES ASSUME RingInv PROVE NoOverlap
    OBVIOUS
  <2>1. live \in Seq(Extent) /\ head \in 0 .. Capacity - 1
    BY DEF RingInv, TypeOK
  <2>2. ASSUME NEW i \in 1 .. Len(live), NEW j \in 1 .. Len(live), i < j
        PROVE  Disjoint(live[i], live[j])
    <3>1. /\ live[i].offset \in Nat /\ live[i].len \in Nat
          /\ live[j].offset \in Nat /\ live[j].len \in Nat
      BY <2>1, ExtentFields
    <3>2. End(i) <= Start(j) /\ End(j) <= head + Capacity
      <4>1. End(i) <= Start(j)
        BY <2>2 DEF RingInv, Ordered
      <4>2. End(j) <= End(Len(live)) /\ End(Len(live)) = Unrolled(tail) /\ tail \in 0 .. Capacity - 1
        <5>1. j < Len(live) => End(j) <= Start(Len(live))
          BY <2>1 DEF RingInv, Ordered
        <5>2. Len(live) \in 1 .. Len(live) /\ live[Len(live)].offset \in Nat
                /\ live[Len(live)].len \in Nat
          BY <2>1, ExtentFields
        <5>3. Start(Len(live)) <= End(Len(live)) /\ Start(Len(live)) \in Nat
          BY <5>2 DEF Start, End, Unrolled
        <5>4. End(j) \in Nat /\ End(Len(live)) \in Nat
          <6>1. Unrolled(live[j].offset) \in Nat /\ Unrolled(live[Len(live)].offset) \in Nat
            BY <2>1, <3>1, <5>2, UnrolledNat, Zenon
          <6>2. End(j) \in Nat
            BY <3>1, <6>1 DEF Start, End
          <6>3. End(Len(live)) \in Nat
            BY <5>2, <6>1 DEF Start, End
          <6> QED BY <6>2, <6>3
        <5>5. End(j) <= End(Len(live))
          <6>1. CASE j = Len(live)
            BY <5>4, <6>1
          <6>2. CASE j < Len(live)
            BY <5>1, <5>3, <5>4, <6>2
          <6> QED BY <2>1, <6>1, <6>2
        <5> QED BY <5>2, <5>5 DEF RingInv, TailAtEnd, TypeOK
      <4>3. Unrolled(tail) < head + Capacity /\ Unrolled(tail) \in Nat
        BY <2>1, <4>2 DEF Unrolled
      <4>4. End(j) \in Nat
        <5>1. Unrolled(live[j].offset) \in Nat
          BY <2>1, <3>1, UnrolledNat, Zenon
        <5> QED BY <3>1, <5>1 DEF Start, End
      <4> QED BY <2>1, <4>1, <4>2, <4>3, <4>4
    <3>3. Unrolled(live[i].offset) + live[i].len <= Unrolled(live[j].offset)
      BY <3>2 DEF End, Start
    <3>4. Unrolled(live[j].offset) + live[j].len <= head + Capacity
      BY <3>2 DEF End, Start
    <3> QED BY <2>1, <3>1, <3>3, <3>4, UnrolledApart, SMTT(30) DEF Disjoint
  <2> QED BY <2>2 DEF NoOverlap, RingInv, Whole
<1> QED BY RingInvariant, <1>1, PTL

\* used() = 0 exactly when everything reserved has been released.
THEOREM EmptyIffDrainedTheorem ==
  ASSUME Capacity \in Nat \ {0}
  PROVE  Spec => []EmptyIffDrained
<1>1. RingInv => EmptyIffDrained
  BY DEF RingInv, TailAtEnd, EmptyIffDrained
<1> QED BY RingInvariant, <1>1, PTL

\* A ring with nothing in flight takes any message of at most half its size, so
\* the Ok(0) of send_gather is transient for such messages.
THEOREM DrainedRingAcceptsTheorem ==
  ASSUME Capacity \in Nat \ {0}
  PROVE  Spec => []DrainedRingAccepts
<1>1. RingInv => DrainedRingAccepts
  <2> SUFFICES ASSUME RingInv, live = <<>>, NEW len \in 1 .. Capacity, 2 * len <= Capacity
               PROVE  Reserve(Capacity, head, tail, len).ok
    BY DEF DrainedRingAccepts
  <2>1. head \in 0 .. Capacity - 1 /\ tail = head
    BY DEF RingInv, TypeOK, TailAtEnd
  <2>2. Available(Capacity, head, tail) = Capacity - 1
    BY <2>1 DEF Available, Used
  <2>3. FitsContiguous(Capacity, head, tail, len) \/ FitsWrapped(Capacity, head, tail, len)
    BY <2>1, <2>2 DEF FitsContiguous, FitsWrapped, ContiguousFree
  <2> QED BY <2>3 DEF Reserve
<1> QED BY RingInvariant, <1>1, PTL
=============================================================================
