----------------------------- MODULE MCReadRing -----------------------------
(* An instance of ReadRing for TLC.                                        *)
EXTENDS ReadRing

OneWay == <<4, 0>>
=============================================================================
