------------------------- MODULE MCDeliveryServices -------------------------
(***************************************************************************)
(* Instances of the delivery services for TLC.                             *)
(***************************************************************************)
EXTENDS DeliveryLedger, TLC

CONSTANTS w1, w2, d1, d2, k1, k2, x1, x2, p1, p2

\* The use cases, and the families that race each other.
AllUses == Use
FeedbackCases == {"progress"} \cup FeedbackUse

\* Keys, references and plans are interchangeable, and so are workers.
DataSymmetry ==
  Permutations(Keys) \cup Permutations(Refs) \cup Permutations(PlanIds)

WorkerAndData == DataSymmetry \cup Permutations(Workers)
=============================================================================
