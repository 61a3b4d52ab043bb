------------------------------ MODULE MCEngine ------------------------------
(***************************************************************************)
(* Instances of Engine for TLC.                                            *)
(***************************************************************************)
EXTENDS Engine

CONSTANTS f1, f2, c1

OneConnection == [f \in Futures |-> c1]

Scenario(drop, close, faults, events, dups) ==
  [drop |-> drop, close |-> close, faults |-> faults, events |-> events, dups |-> dups]

\* Frontends that drop their futures and a provider that posts badly or reports
\* twice; connections that end in every way while destruction may fail.
DropsAndCloses ==
  {Scenario(Futures, {}, {"post", "ambiguous"}, {}, 1),
   Scenario({}, Conns, {"error", "destroy", "cm"},
            {"disconnect", "cmfailure", "shutdown", "driverdrop"}, 0)}

\* A close and a shutdown under every fault that can hold one up.
Endings == {Scenario({f1}, Conns, {"ambiguous", "error", "destroy", "cm"}, {"shutdown"}, 0)}

\* Sound where all futures use one connection and may do the same.
Interchangeable == Permutations(Futures)
=============================================================================
