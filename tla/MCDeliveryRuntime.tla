------------------------- MODULE MCDeliveryRuntime --------------------------
(***************************************************************************)
(* Instances of the delivery runtime for TLC.                              *)
(***************************************************************************)
EXTENDS DeliveryRuntime

CONSTANTS w1, w2, k1, x1, p1

JobCases == {"progress", "retry", "requestRetry", "timeout"}

\* The plans stand in the order opposite to their deliveries.
PlansReversed == [y \in Deliveries \X PlanIds |-> 10 - y[1]]

Note(d, use, n, k) ==
  [delivery |-> d, attempt |-> n, ref |-> x1, use |-> use, key |-> k]

\* A timeout for the first attempt of the first delivery.
Post == {Note(1, "timeout", 1, k1)}
=============================================================================
