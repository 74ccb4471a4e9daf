--------------------------- MODULE DeliveryLedger ---------------------------
(***************************************************************************)
(* Properties of the delivery services that add up the numbers of several  *)
(* records.                                                                *)
(***************************************************************************)
EXTENDS DeliveryServices, Functions

\* The attempts that the retry plans of a delivery have paid for.
Spent(d) == SumFunction([p \in PlanIds |->
                           plan[d][p].budget - plan[d][p].remaining])

\* Apart from the first, every attempt of a delivery was paid for from the
\* budget of a retry plan, and every payment bought an attempt, although the
\* plan and the delivery are two records and commits fail in between.
AttemptsArePaidFor ==
  \A d \in Deliveries :
    LastAttempt(delivery[d]) = IF delivery[d].status = "Scheduled"
                                 THEN 0 ELSE 1 + Spent(d)

=============================================================================
