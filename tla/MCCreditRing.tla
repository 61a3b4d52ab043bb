---------------------------- MODULE MCCreditRing ----------------------------
(* An instance of CreditRing for TLC.                                      *)
EXTENDS CreditRing

OneWay == <<4, 0>>
=============================================================================
