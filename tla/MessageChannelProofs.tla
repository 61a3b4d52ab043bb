------------------------ MODULE MessageChannelProofs ------------------------
(***************************************************************************)
(* Whatever the endpoints and however often the connection breaks, the     *)
(* channel every transport is compared with delivers in order and once.    *)
(***************************************************************************)
EXTENDS MessageChannel, SequenceTheorems, TLAPS

\* What Break leaves of a wire: the k oldest messages, as they were.
LEMMA PrefixKept ==
  ASSUME NEW w \in Seq(Nat), NEW k \in 0 .. Len(w)
  PROVE  /\ SubSeq(w, 1, k) \in Seq(Nat)
         /\ Len(SubSeq(w, 1, k)) = k
         /\ \A i \in 1 .. k : SubSeq(w, 1, k)[i] = w[i]
<1>1. k \in Int /\ 1 \in Int /\ \A i \in 1 .. k : w[i] \in Nat
  OBVIOUS
<1>2. SubSeq(w, 1, k) \in Seq(Nat)
  BY <1>1
<1>3. Len(SubSeq(w, 1, k)) = k
  BY <1>1
<1>4. \A i \in 1 .. k : SubSeq(w, 1, k)[i] = w[i]
  BY <1>1
<1> QED BY <1>2, <1>3, <1>4

\* Two facts of arithmetic, for the counts of messages returned (x), on the
\* wire (y) and accepted (a).
LEMMA CountsGrow ==
  \A x, y, a \in Nat : x + y <= a => x + y <= a + 1
OBVIOUS

LEMMA CountsShrink ==
  \A x, y, a \in Nat : \A k \in 0 .. y : x + y <= a => x + k <= a
OBVIOUS

\* The wire w of a receiver that was returned x messages, after one more send.
LEMMA AppendKeepsOrder ==
  ASSUME NEW w \in Seq(Nat), NEW x \in Nat, NEW a \in Nat, x + Len(w) = a,
         \A i \in 1 .. Len(w) : w[i] = x + i
  PROVE  /\ \A i \in 1 .. Len(Append(w, a + 1)) : Append(w, a + 1)[i] = x + i
         /\ x + Len(Append(w, a + 1)) = a + 1
OBVIOUS

\* Counters, queues and flags of the channel keep their types.
THEOREM ChannelTypeCorrect ==
  ASSUME ChannelAssumption
  PROVE  Spec => []TypeOK
<1>1. Init => TypeOK
  BY DEF Init, TypeOK
<1>2. TypeOK /\ [Next]_vars => TypeOK'
  <2> SUFFICES ASSUME TypeOK, [Next]_vars PROVE TypeOK'
    OBVIOUS
  <2>1. ASSUME NEW e \in Endpoint, Accept(e) PROVE TypeOK'
    <3>1. accepted' \in [Endpoint -> Nat]
      BY <2>1 DEF TypeOK, Accept
    <3>2. wire' \in [Endpoint -> Seq(Nat)]
      <4>1. Append(wire[Peer(e)], accepted[e] + 1) \in Seq(Nat)
        BY <2>1, ChannelAssumption DEF ChannelAssumption, TypeOK
      <4> QED BY <2>1, <4>1, ChannelAssumption DEF ChannelAssumption, TypeOK, Accept
    <3> QED BY <2>1, <3>1, <3>2 DEF TypeOK, Accept
  <2>2. ASSUME NEW e \in Endpoint, NEW n \in 1 .. Len(wire[e]), Return(e, n) PROVE TypeOK'
    <3>1. /\ got[e] \o SubSeq(wire[e], 1, n) \in Seq(Nat)
          /\ SubSeq(wire[e], n + 1, Len(wire[e])) \in Seq(Nat)
      BY DEF TypeOK
    <3> QED BY <2>2, <3>1 DEF TypeOK, Return
  <2>3. ASSUME NEW E \in SUBSET Endpoint,
               NEW keep \in [E -> UNION {0 .. Len(wire[e]) : e \in E}], Break(E, keep)
        PROVE  TypeOK'
    <3>1. ASSUME NEW e \in E PROVE SubSeq(wire[e], 1, keep[e]) \in Seq(Nat)
      <4>1. wire[e] \in Seq(Nat) /\ keep[e] \in 0 .. Len(wire[e])
        BY <2>3 DEF TypeOK, Break
      <4> QED BY <4>1, PrefixKept
    <3>2. wire' \in [Endpoint -> Seq(Nat)]
      BY <2>3, <3>1 DEF TypeOK, Break
    <3>3. broken' \in [Endpoint -> BOOLEAN]
      BY <2>3, Zenon DEF TypeOK, Break
    <3> QED BY <2>3, <3>2, <3>3 DEF TypeOK, Break
  <2>4. CASE UNCHANGED vars
    BY <2>4 DEF vars, TypeOK
  <2> QED BY <2>1, <2>2, <2>3, <2>4 DEF Next, AnyReturn, AnyBreak
<1> QED BY <1>1, <1>2, PTL DEF Spec

\* Accepted messages reach the peer's application in order, without loss,
\* duplication or invention, up to the break of the connection.
THEOREM ChannelInOrder ==
  ASSUME ChannelAssumption
  PROVE  Spec => []InOrder
<1>1. Init => InOrder
  <2> SUFFICES ASSUME Init PROVE InOrder
    OBVIOUS
  <2>1. \A e \in Endpoint : /\ got[e] = <<>> /\ wire[e] = <<>>
                            /\ accepted[Peer(e)] = 0
    BY ChannelAssumption, Zenon DEF ChannelAssumption, Init
  <2>2. Len(<<>>) = 0
    OBVIOUS
  <2>3. ASSUME NEW e \in Endpoint
        PROVE  /\ \A i \in 1 .. Len(got[e]) : got[e][i] = i
               /\ \A i \in 1 .. Len(wire[e]) : wire[e][i] = Len(got[e]) + i
               /\ Len(got[e]) + Len(wire[e]) <= accepted[Peer(e)]
               /\ Len(got[e]) + Len(wire[e]) = accepted[Peer(e)]
    <3>1. Len(got[e]) = 0 /\ Len(wire[e]) = 0
      BY <2>1, <2>2
    <3>2. 1 .. 0 = {}
      OBVIOUS
    <3> QED BY <2>1, <3>1, <3>2
  <2> QED BY <2>3, Zenon DEF InOrder
<1>2. TypeOK /\ InOrder /\ [Next]_vars => InOrder'
  <2> SUFFICES ASSUME TypeOK, InOrder, [Next]_vars PROVE InOrder'
    OBVIOUS
  <2> DEFINE Good(g, w, a, b) ==
               /\ \A i \in 1 .. Len(g) : g[i] = i
               /\ \A i \in 1 .. Len(w) : w[i] = Len(g) + i
               /\ Len(g) + Len(w) <= a
               /\ ~ b => Len(g) + Len(w) = a
  <2>0. \A e \in Endpoint : /\ got[e] \in Seq(Nat) /\ wire[e] \in Seq(Nat)
                            /\ accepted[e] \in Nat /\ broken[e] \in BOOLEAN
                            /\ Peer(e) \in Endpoint /\ Peer(Peer(e)) = e
                            /\ Good(got[e], wire[e], accepted[Peer(e)], broken[e])
    BY ChannelAssumption DEF ChannelAssumption, TypeOK, InOrder
  <2>1. ASSUME NEW e \in Endpoint, Accept(e), NEW f \in Endpoint
        PROVE  Good(got'[f], wire'[f], accepted'[Peer(f)], broken'[f])
    <3>1. got' = got /\ broken' = broken
      BY <2>1 DEF Accept
    <3>2. CASE Peer(f) # e
      <4>1. f # Peer(e)
        BY <2>0, <3>2, Zenon
      <4>2. wire'[f] = wire[f] /\ accepted'[Peer(f)] = accepted[Peer(f)]
        BY <2>0, <2>1, <3>2, <4>1 DEF Accept, TypeOK
      <4> QED BY <2>0, <3>1, <4>2, Zenon
    <3>3. CASE Peer(f) = e
      <4>1. f = Peer(e) /\ accepted'[Peer(f)] = accepted[e] + 1
        BY <2>0, <2>1, <3>3 DEF Accept, TypeOK
      <4>2. CASE broken[f]
        <5>1. wire'[f] = wire[f]
          BY <2>1, <4>1, <4>2 DEF Accept
        <5>2. Good(got[f], wire[f], accepted[e], broken[f]) /\ accepted[e] \in Nat
                /\ got[f] \in Seq(Nat) /\ wire[f] \in Seq(Nat)
          BY <2>0, <3>3, Zenon
        <5>3. Len(got[f]) + Len(wire[f]) <= accepted[e] + 1
          <6>1. Len(got[f]) + Len(wire[f]) <= accepted[e]
            BY <5>2, Zenon
          <6>2. Len(got[f]) \in Nat /\ Len(wire[f]) \in Nat
            BY <2>0, LenProperties
          <6>3. accepted[e] \in Nat
            BY <5>2, Zenon
          <6> QED BY <6>1, <6>2, <6>3, CountsGrow, Zenon
        <5> QED BY <3>1, <4>1, <4>2, <5>1, <5>2, <5>3, Zenon
      <4>3. CASE ~ broken[f]
        <5>1. wire'[f] = Append(wire[f], accepted[e] + 1)
          BY <2>1, <4>1, <4>3 DEF Accept, TypeOK
        <5>2. Good(got[f], wire[f], accepted[e], FALSE) /\ got[f] \in Seq(Nat) /\ wire[f] \in Seq(Nat)
                /\ accepted[e] \in Nat
          BY <2>0, <3>3, <4>3, Zenon
        <5> DEFINE w2 == Append(wire[f], accepted[e] + 1)
        <5> HIDE DEF w2
        <5>3. Len(got[f]) + Len(wire[f]) = accepted[e]
          BY <5>2, Zenon
        <5>4. \A i \in 1 .. Len(wire[f]) : wire[f][i] = Len(got[f]) + i
          BY <5>2, Zenon
        <5>5. Len(got[f]) \in Nat /\ Len(wire[f]) \in Nat
          BY <2>0, LenProperties
        <5>6. /\ \A i \in 1 .. Len(w2) : w2[i] = Len(got[f]) + i
              /\ Len(got[f]) + Len(w2) = accepted[e] + 1
          BY <5>2, <5>3, <5>4, <5>5, AppendKeepsOrder, ZenonT(30) DEF w2
        <5>7. accepted[e] + 1 \in Nat
          BY <5>2
        <5>8. Len(got[f]) + Len(w2) <= accepted[e] + 1
          BY <5>6, <5>7
        <5>9. Good(got[f], w2, accepted[e] + 1, broken[f])
          BY <5>2, <5>6, <5>8, Zenon
        <5> QED BY <3>1, <4>1, <5>1, <5>9, Zenon DEF w2
      <4> QED BY <4>2, <4>3, Zenon
    <3> QED BY <3>2, <3>3, Zenon
  <2>2. ASSUME NEW e \in Endpoint, NEW n \in 1 .. Len(wire[e]), Return(e, n), NEW f \in Endpoint
        PROVE  Good(got'[f], wire'[f], accepted'[Peer(f)], broken'[f])
    <3>1. accepted' = accepted /\ broken' = broken
      BY <2>2 DEF Return
    <3>2. CASE f # e
      <4>1. wire'[f] = wire[f] /\ got'[f] = got[f]
        BY <2>2, <3>2 DEF Return, TypeOK
      <4> QED BY <2>0, <3>1, <4>1, Zenon
    <3>3. CASE f = e
      <4> DEFINE w == wire[e]
                 g == got[e]
                 w2 == SubSeq(w, n + 1, Len(w))
                 g2 == g \o SubSeq(w, 1, n)
      <4>1. wire'[f] = w2 /\ got'[f] = g2
        BY <2>2, <3>3 DEF Return, TypeOK
      <4>2. w \in Seq(Nat) /\ g \in Seq(Nat) /\ Good(g, w, accepted[Peer(e)], broken[e])
              /\ accepted[Peer(e)] \in Nat
        BY <2>0, Zenon
      <4> HIDE DEF w, g
      <4>3. n \in 1 .. Len(w)
        BY DEF w
      <4>4. Len(w2) = Len(w) - n /\ \A i \in 1 .. Len(w2) : w2[i] = w[n + i]
        BY <4>2, <4>3
      <4>5. Len(SubSeq(w, 1, n)) = n /\ \A i \in 1 .. n : SubSeq(w, 1, n)[i] = w[i]
        BY <4>2, <4>3
      <4>6. /\ Len(g2) = Len(g) + n
            /\ \A i \in 1 .. Len(g) : g2[i] = g[i]
            /\ \A i \in 1 .. n : g2[Len(g) + i] = w[i]
        BY <4>2, <4>3, <4>5
      <4> HIDE DEF w2, g2
      <4>7. \A i \in 1 .. Len(g2) : g2[i] = i
        <5> SUFFICES ASSUME NEW i \in 1 .. Len(g2) PROVE g2[i] = i
          OBVIOUS
        <5>1. CASE i <= Len(g)
          BY <4>2, <4>6, <5>1
        <5>2. CASE i > Len(g)
          <6>1. i - Len(g) \in 1 .. n /\ i - Len(g) \in 1 .. Len(w)
            BY <4>2, <4>3, <4>6, <5>2
          <6>2. g2[Len(g) + (i - Len(g))] = w[i - Len(g)] /\ w[i - Len(g)] = Len(g) + (i - Len(g))
            BY <4>2, <4>6, <6>1
          <6> QED BY <4>2, <4>6, <6>1, <6>2
        <5> QED BY <4>2, <5>1, <5>2
      <4>8. \A i \in 1 .. Len(w2) : w2[i] = Len(g2) + i
        BY <4>2, <4>3, <4>4, <4>6
      <4>9. Len(g2) + Len(w2) = Len(g) + Len(w)
        BY <4>2, <4>3, <4>4, <4>6
      <4> QED BY <3>1, <3>3, <4>1, <4>2, <4>7, <4>8, <4>9
    <3> QED BY <3>2, <3>3, Zenon
  <2>3. ASSUME NEW E \in SUBSET Endpoint,
               NEW keep \in [E -> UNION {0 .. Len(wire[e]) : e \in E}], Break(E, keep),
               NEW f \in Endpoint
        PROVE  Good(got'[f], wire'[f], accepted'[Peer(f)], broken'[f])
    <3>1. accepted' = accepted /\ got' = got
      BY <2>3 DEF Break
    <3>2. CASE f \notin E
      <4>1. wire'[f] = wire[f] /\ (broken'[f] <=> broken[f])
        BY <2>3, <3>2, Zenon DEF Break
      <4> QED BY <2>0, <3>1, <4>1, Zenon
    <3>3. CASE f \in E
      <4>1. wire'[f] = SubSeq(wire[f], 1, keep[f]) /\ broken'[f] /\ keep[f] \in 0 .. Len(wire[f])
        BY <2>3, <3>3, Zenon DEF Break
      <4>2. wire[f] \in Seq(Nat) /\ got[f] \in Seq(Nat) /\ accepted[Peer(f)] \in Nat
              /\ Good(got[f], wire[f], accepted[Peer(f)], broken[f])
        BY <2>0, Zenon
      <4>3. Len(wire'[f]) = keep[f] /\ \A i \in 1 .. keep[f] : wire'[f][i] = wire[f][i]
        BY <4>1, <4>2, PrefixKept
      <4>4. Len(got[f]) + keep[f] <= accepted[Peer(f)]
        <5>1. Len(got[f]) + Len(wire[f]) <= accepted[Peer(f)]
          BY <4>2, Zenon
        <5>2. Len(got[f]) \in Nat /\ Len(wire[f]) \in Nat
          BY <2>0, LenProperties
        <5>3. accepted[Peer(f)] \in Nat /\ keep[f] \in 0 .. Len(wire[f])
          BY <4>1, <4>2, Zenon
        <5> QED BY <5>1, <5>2, <5>3, CountsShrink, Zenon
      <4> QED BY <3>1, <4>1, <4>2, <4>3, <4>4, SMTT(30)
    <3> QED BY <3>2, <3>3, Zenon
  <2>4. CASE UNCHANGED vars
    BY <2>4, Zenon DEF vars, InOrder
  <2>5. (\A f \in Endpoint : Good(got'[f], wire'[f], accepted'[Peer(f)], broken'[f])) => InOrder'
    BY Zenon DEF InOrder
  <2> HIDE DEF Good
  <2> QED BY <2>1, <2>2, <2>3, <2>4, <2>5 DEF Next, AnyReturn, AnyBreak
<1>3. Spec => []TypeOK
  BY ChannelTypeCorrect
<1> QED BY <1>1, <1>2, <1>3, PTL DEF Spec
=============================================================================
