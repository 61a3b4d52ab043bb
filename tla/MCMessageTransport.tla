------------------------- MODULE MCMessageTransport -------------------------
(* Instances of MessageTransport for TLC: two ends, 1 and 2.               *)
EXTENDS MessageTransport

TwoSides == {1, 2}

OtherSide(s) == 3 - s

OneEach == <<1, 1>>

OneFromOne == <<1, 0>>

TwoFromOne == <<2, 0>>
=============================================================================
