---------------------------- MODULE MCReadOutput ----------------------------
(***************************************************************************)
(* An instance of the read-only queries for TLC.                           *)
(***************************************************************************)
EXTENDS ReadOutput

CONSTANTS w1, d1, k1, x1, p1, r1

\* No property is about two queries of different kinds, so a reader of each
\* kind will do.
OneEach == {{q} : q \in Query}

Watched == {"progress", "ack", "requestRetry", "retry"}
=============================================================================
