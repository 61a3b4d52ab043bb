---------------------------- MODULE MCCoreDriver ----------------------------
(***************************************************************************)
(* Instances of CoreDriver for TLC.                                        *)
(***************************************************************************)
EXTENDS CoreDriver

CONSTANTS k1, k2, q1, q2

Inboxes == [send |-> MaxOutstanding + SqHeadroom, recv |-> MaxOutstanding + 2]

Symmetric == Permutations(Conns) \cup Permutations(QpNums)
=============================================================================
