------------------------- MODULE MCOutboxPublisher --------------------------
(***************************************************************************)
(* An instance of the outbound publisher for TLC.                          *)
(***************************************************************************)
EXTENDS OutboxPublisher

CONSTANTS e1, e2, e3, e4, bad

\* Two events of one key, two batches that overlap in opposite orders, one
\* with an invalid event, and a single event that occurs nowhere else.
Sharing == [e \in Events |-> IF e \in {e1, e2} THEN "k" ELSE e]
Overlapping == {<<e1, e3>>, <<e3, e2>>, <<e4, bad>>}
=============================================================================
