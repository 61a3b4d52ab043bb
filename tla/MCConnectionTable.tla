------------------------- MODULE MCConnectionTable --------------------------
(* Two connections at a time, in slots of two pages with two generations    *)
(* each, and fewer QP numbers than connections over time.                   *)
EXTENDS ConnectionTable
=============================================================================
