--------------------------- MODULE MC_EventsStats ---------------------------
EXTENDS EventsStats, TLC

CONSTANTS o1, o2, k1, k2

(* Two services, each with the queue of its own event type.               *)
MCOwnerKey == (o1 :> k1) @@ (o2 :> k2)
=============================================================================
