-------------------------- MODULE MCTranslateQueue --------------------------
(* A small instance of the request/result queues: three requests of one    *)
(* pair and two of the other fill the channel (2) and a batch (3).  No     *)
(* decision depends on an item's status, so one status is enough.          *)
EXTENDS TranslateQueueRefinement

CONSTANTS a1, a2, a3, b1, b2

FiveRequests == {a1, a2, a3, b1, b2}
MCPairs == {"zh>en", "en>zh"}
MCPairOf == [r \in FiveRequests |-> IF r \in {b1, b2} THEN "en>zh" ELSE "zh>en"]
=============================================================================
