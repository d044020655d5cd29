---------------------------- MODULE PairChannels ----------------------------
(***************************************************************************)
(* What the request/result queues promise the addon: one FIFO channel per  *)
(* language pair, reliable until the worker is gone.  A request is refused *)
(* on the spot or enters the channel of its pair, and every channel        *)
(* delivers from its head.  How requests are batched, grouped and handed   *)
(* between threads is not visible here.                                    *)
(***************************************************************************)
EXTENDS Naturals, Sequences

CONSTANTS Requests, Pairs, PairOf

VARIABLES
  channel,   \* per pair, the accepted requests not delivered yet, in order
  closed,    \* the worker is gone
  decided,   \* requests that were accepted or refused
  answered   \* per pair, the requests delivered, in order

vars == <<channel, closed, decided, answered>>

Init ==
  /\ channel = [p \in Pairs |-> <<>>]
  /\ closed = FALSE
  /\ decided = {}
  /\ answered = [p \in Pairs |-> <<>>]

(* "ok"                                                                    *)
Accept(r) ==
  /\ ~closed /\ r \notin decided
  /\ decided' = decided \cup {r}
  /\ channel' = [channel EXCEPT ![PairOf[r]] = Append(@, r)]
  /\ UNCHANGED <<closed, answered>>

(* "error|queue full" or "error|queue closed"                              *)
Refuse(r) ==
  /\ r \notin decided
  /\ decided' = decided \cup {r}
  /\ UNCHANGED <<channel, closed, answered>>

(* How much of each channel one poll, or the end of the worker, can cut.   *)
Cuts ==
  {n \in [Pairs -> UNION {0 .. Len(channel[p]) : p \in Pairs}] :
     \A p \in Pairs : n[p] <= Len(channel[p])}

(* One poll takes some of the head of each channel.                        *)
Deliver(n) ==
  /\ answered' = [p \in Pairs |-> answered[p] \o SubSeq(channel[p], 1, n[p])]
  /\ channel' = [p \in Pairs |-> SubSeq(channel[p], n[p] + 1, Len(channel[p]))]
  /\ UNCHANGED <<closed, decided>>

(* The worker ends: the results it has parked survive, the rest is lost.   *)
Close(n) ==
  /\ ~closed /\ decided # {}
  /\ closed' = TRUE
  /\ channel' = [p \in Pairs |-> SubSeq(channel[p], 1, n[p])]
  /\ UNCHANGED <<decided, answered>>

Next ==
  \/ \E r \in Requests : Accept(r) \/ Refuse(r)
  \/ \E n \in Cuts : Deliver(n) \/ Close(n)

Spec == Init /\ [][Next]_vars
=============================================================================
