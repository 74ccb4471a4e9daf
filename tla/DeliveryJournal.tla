-------------------------- MODULE DeliveryJournal ---------------------------
(***************************************************************************)
(* What the bus promises about deliveries, with no transaction, worker or  *)
(* aggregate in sight: each delivery has a journal of status changes that  *)
(* only ever grows at its end, by changes the lifecycle allows, so that a  *)
(* delivery that reached a terminal status stays there.                    *)
(***************************************************************************)
EXTENDS Delivery

CONSTANT Deliveries

VARIABLE journal

\* A delivery is handed over scheduled, or already being dispatched.
HandedOver == { <<>>, << <<"Scheduled", "Dispatching">> >> }

Init == journal \in [Deliveries -> HandedOver]

\* One unit of work appends a few entries to the journal of one delivery.
Record(d) ==
  /\ IsChain(journal'[d])
  /\ IsPrefixOf(journal[d], journal'[d])
  /\ journal' = [journal EXCEPT ![d] = journal'[d]]

Next == \E d \in Deliveries : Record(d)

Spec == Init /\ [][Next]_journal
=============================================================================
