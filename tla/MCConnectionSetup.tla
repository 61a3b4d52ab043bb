------------------------- MODULE MCConnectionSetup -------------------------
(***************************************************************************)
(* Instances of ConnectionSetup for TLC.                                   *)
(***************************************************************************)
EXTENDS ConnectionSetup

CONSTANTS a1, a2, k1, k2, o1

Scenario(who, faults, strikes) == [who |-> who, faults |-> faults, strikes |-> strikes]

\* Two accepts and two children of one listener; an accept and a connect that
\* share the permits; a connect under two strikes.
Setups ==
  {Scenario({a1, a2, k1, k2}, 1, 1),
   Scenario({a1, k1, o1}, 0, 1),
   Scenario({o1}, 1, 2)}

\* A connect and one strike, without a provider fault.
OneConnect == {Scenario({o1}, 0, 1)}
=============================================================================
