------------------------- MODULE MCSchedulingQueue -------------------------
(* Two sandboxes, one of a premium tenant's objects and one of a free one's: *)
(* the boost decides against the arrival order.                              *)
EXTENDS SchedulingQueue, TLC

MCSpecs == {[priority |-> 100, tenant |-> "free"], [priority |-> 0, tenant |-> "premium"]}

Symmetry == Permutations(Keys)
=============================================================================
