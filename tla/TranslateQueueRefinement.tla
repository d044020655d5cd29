---------------------- MODULE TranslateQueueRefinement ----------------------
(***************************************************************************)
(* The queues of queue.rs implement one reliable FIFO channel per language *)
(* pair (PairChannels): the channel of a pair is what the pipeline holds   *)
(* for it, read from the end that is delivered next.                       *)
(***************************************************************************)
EXTENDS TranslateQueue

Ids(completed) == [i \in 1 .. Len(completed) |-> completed[i].req_id]

(* The requests of s that are of pair p, in their order.  (A recursive     *)
(* function, and not SelectSeq, so that it can be proved about.)           *)
ForPair(s, p) ==
  LET kept[i \in 0 .. Len(s)] ==
        IF i = 0 THEN <<>>
        ELSE IF PairOf[s[i]] = p THEN Append(kept[i - 1], s[i]) ELSE kept[i - 1]
  IN  kept[Len(s)]

(* The group of p in the worker's hand: there is at most one.              *)
GroupOf(gs, p) ==
  LET of == {g \in DOMAIN gs : PairOf[gs[g][1]] = p} IN
  IF of = {} THEN <<>> ELSE gs[CHOOSE g \in of : TRUE]

Pipeline(p) ==
  ForPair(Ids(doneQ \o out), p) \o (GroupOf(groups, p) \o ForPair(batch \o workQ, p))

Channels == INSTANCE PairChannels WITH
  closed   <- pc = "gone",
  channel  <- [p \in Pairs |-> Pipeline(p)],
  decided  <- issued,
  answered <- [p \in Pairs |-> ForPair(Ids(delivered), p)]

(* Everything the addon can observe of the queues - which requests are     *)
(* refused, which results surface, in which order those of a pair do - is  *)
(* a behaviour of the per-pair channels.                                   *)
ImplementsPairChannels == Channels!Spec
=============================================================================
