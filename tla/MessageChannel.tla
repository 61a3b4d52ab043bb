--------------------------- MODULE MessageChannel ---------------------------
(***************************************************************************)
(* What the Transport trait (transport.rs) promises the two applications   *)
(* of a connection, whatever moves the bytes: a message send_copy accepted *)
(* is returned by the peer's poll_recv once, unchanged and in sending      *)
(* order, until the connection breaks.  Then a receiver may still be given *)
(* some of what was on its way, in order, and loses the rest.              *)
(*                                                                         *)
(* Messages are numbered by their sender from 1.                           *)
(***************************************************************************)
EXTENDS Naturals, Sequences

CONSTANTS
  Endpoint,
  Peer(_),
  Quota        \* per sender, how many messages it sends

\* What the theorems assume of the constants.
ChannelAssumption ==
  /\ \A e \in Endpoint : Peer(e) \in Endpoint /\ Peer(Peer(e)) = e
  /\ Quota \in [Endpoint -> Nat]

VARIABLES
  accepted,   \* per sender, how many messages send_copy has accepted
  wire,       \* per receiver, the messages accepted and not yet returned
  got,        \* per receiver, the messages poll_recv has returned
  broken      \* per receiver, has the connection broken for it?

vars == <<accepted, wire, got, broken>>

Init ==
  /\ accepted = [e \in Endpoint |-> 0]
  /\ wire = [e \in Endpoint |-> <<>>]
  /\ got = [e \in Endpoint |-> <<>>]
  /\ broken = [e \in Endpoint |-> FALSE]

\* e sends; on a broken connection the message goes nowhere.
Accept(e) ==
  LET r == Peer(e)
  IN  /\ accepted[e] < Quota[e]
      /\ accepted' = [accepted EXCEPT ![e] = @ + 1]
      /\ wire' = IF broken[r] THEN wire
                              ELSE [wire EXCEPT ![r] = Append(@, accepted[e] + 1)]
      /\ UNCHANGED <<got, broken>>

\* e is given the n oldest messages on its wire.
Return(e, n) ==
  /\ n \in 1 .. Len(wire[e])
  /\ got' = [got EXCEPT ![e] = @ \o SubSeq(wire[e], 1, n)]
  /\ wire' = [wire EXCEPT ![e] = SubSeq(@, n + 1, Len(@))]
  /\ UNCHANGED <<accepted, broken>>

\* The connection breaks, for the receivers in E; each keeps the keep[e]
\* oldest messages of its wire.
Break(E, keep) ==
  /\ \A e \in E : keep[e] \in 0 .. Len(wire[e])
  /\ broken' = [e \in Endpoint |-> broken[e] \/ e \in E]
  /\ wire' = [e \in Endpoint |-> IF e \in E THEN SubSeq(wire[e], 1, keep[e]) ELSE wire[e]]
  /\ UNCHANGED <<accepted, got>>

AnyReturn(e) == \E n \in 1 .. Len(wire[e]) : Return(e, n)

AnyBreak ==
  \E E \in SUBSET Endpoint :
  \E keep \in [E -> UNION {0 .. Len(wire[e]) : e \in E}] : Break(E, keep)

Next == AnyBreak \/ \E e \in Endpoint : Accept(e) \/ AnyReturn(e)

Spec == Init /\ [][Next]_vars

TypeOK ==
  /\ accepted \in [Endpoint -> Nat]
  /\ wire \in [Endpoint -> Seq(Nat)]
  /\ got \in [Endpoint -> Seq(Nat)]
  /\ broken \in [Endpoint -> BOOLEAN]

\* No message is lost, duplicated, reordered or invented: a receiver has been
\* given the messages 1, 2, 3 ... and those still on its wire follow; while the
\* connection stands, the two together are everything its peer sent.
InOrder ==
  \A e \in Endpoint :
    /\ \A i \in 1 .. Len(got[e]) : got[e][i] = i
    /\ \A i \in 1 .. Len(wire[e]) : wire[e][i] = Len(got[e]) + i
    /\ Len(got[e]) + Len(wire[e]) <= accepted[Peer(e)]
    /\ ~ broken[e] => Len(got[e]) + Len(wire[e]) = accepted[Peer(e)]
=============================================================================
