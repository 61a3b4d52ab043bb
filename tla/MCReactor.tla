----------------------------- MODULE MCReactor -----------------------------
EXTENDS Reactor

Scenario(arrivals, source) ==
  [arrivals |-> [k \in Arrivals |-> IF k \in DOMAIN arrivals THEN arrivals[k] ELSE 0],
   watch |-> source]

SmallScenarios ==
  {Scenario([operation |-> 2, completion |-> 1], "Commands"),
   Scenario([close |-> 2, instant |-> 1], "Deadline"),
   Scenario([close |-> 1, completion |-> 1], "DeadlineIngress"),
   Scenario([listen |-> 2, event |-> 1], "Commands"),
   Scenario([completion |-> 3], "CompletionDispatch"),
   Scenario([event |-> 3], "CmDestruction"),
   Scenario([completion |-> 1, event |-> 1], "CmSoftware"),
   Scenario([completion |-> 1, event |-> 1], "CmDestruction")}
=============================================================================
