--------------------------- MODULE TranslateQueue ---------------------------
(***************************************************************************)
(* The request/result queues of wow_translate (windows/translate/src/      *)
(* queue.rs) and the two UnitXP sub-commands that reach them (hook.rs):    *)
(* the Lua thread hands requests to a bounded channel and polls an         *)
(* unbounded one; one worker thread coalesces what is queued into a batch, *)
(* groups the batch by language pair and issues one thunk call per group.  *)
(*                                                                         *)
(* A request is a model value carrying its language pair; a translation is *)
(* abstracted to the status the unix side returned for the item.  Every    *)
(* channel operation is one step, because the two threads interleave at    *)
(* the channels and nowhere else.                                          *)
(***************************************************************************)
EXTENDS Naturals, Sequences, FiniteSets, Functions

CONSTANTS
  Requests,        \* requests the client may hand over, each at most once
  Pairs,           \* (src_lang, tgt_lang) pairs
  PairOf,          \* the pair each request is for
  Statuses,        \* TranslateStatus values an item can come back with
  Internal,        \* the status every item starts with (out_status default)
  MAX_BATCH,       \* requests one batch coalesces
  WORK_QUEUE_DEPTH,\* capacity of the work channel
  POLL_MAX_RECORDS \* results one poll returns

ASSUME QueueAssumption ==
  /\ PairOf \in [Requests -> Pairs]
  /\ Internal \in Statuses
  /\ MAX_BATCH \in Nat \ {0}
  /\ WORK_QUEUE_DEPTH \in Nat \ {0}
  /\ POLL_MAX_RECORDS \in Nat \ {0}

VARIABLES
  workQ,     \* the work channel
  pc,        \* where the worker thread is
  batch,     \* Vec<Request> being coalesced, then partitioned
  groups,    \* Vec<Vec<Request>>: the groups not translated yet
  out,       \* Vec<Completed> of the last thunk call, not sent yet
  doneQ,     \* the completed channel
  issued,    \* history: requests the hook has tried to enqueue
  accepted,  \* history: requests try_send took, in order
  delivered  \* history: results poll has returned to Lua, in order

workerVars == <<pc, batch, groups, out>>
vars == <<workQ, pc, batch, groups, out, doneQ, issued, accepted, delivered>>

Completed == [req_id : Requests, status : Statuses]

Group == Seq(Requests) \ {<<>>}

\* Lower of two numbers.
AtMost(n, bound) == IF n <= bound THEN n ELSE bound

(* The worker's loop: "recv" blocks for the first request of a batch,      *)
(* "coalesce" takes what else is queued, "group" partitions the batch,     *)
(* "translate" is inside the thunk call of the first group, "send" parks   *)
(* its results; "gone" is a worker that has ended, taking the receiver     *)
(* with it.                                                                *)
WorkerStates == {"recv", "coalesce", "group", "translate", "send", "gone"}

Init ==
  /\ workQ = <<>> /\ doneQ = <<>>
  /\ pc = "recv" /\ batch = <<>> /\ groups = <<>> /\ out = <<>>
  /\ issued = {} /\ accepted = <<>> /\ delivered = <<>>

-----------------------------------------------------------------------------
(* The Lua thread.                                                         *)

(* handle_translate_async -> enqueue -> try_send: "ok".                    *)
EnqueueOk(r) ==
  /\ r \notin issued
  /\ pc # "gone" /\ Len(workQ) < WORK_QUEUE_DEPTH
  /\ workQ' = Append(workQ, r)
  /\ accepted' = Append(accepted, r)
  /\ issued' = issued \cup {r}
  /\ UNCHANGED <<workerVars, doneQ, delivered>>

(* try_send on a full channel: "error|queue full".  The request is shed.   *)
EnqueueFull(r) ==
  /\ r \notin issued
  /\ pc # "gone" /\ Len(workQ) >= WORK_QUEUE_DEPTH
  /\ issued' = issued \cup {r}
  /\ UNCHANGED <<workQ, workerVars, doneQ, accepted, delivered>>

(* try_send on a channel whose receiver is gone: "error|queue closed".     *)
EnqueueClosed(r) ==
  /\ r \notin issued
  /\ pc = "gone"
  /\ issued' = issued \cup {r}
  /\ UNCHANGED <<workQ, workerVars, doneQ, accepted, delivered>>

PollKeepingLast ==
  LET n == AtMost(Len(doneQ), POLL_MAX_RECORDS) IN
  /\ doneQ # <<>>
  /\ delivered' = delivered \o SubSeq(doneQ, 1, n)
  /\ doneQ' = SubSeq(doneQ, n, Len(doneQ))
  /\ UNCHANGED <<workQ, workerVars, issued, accepted>>

(* handle_poll -> drain_completed(POLL_MAX_RECORDS).  The try_recv loop    *)
(* commutes with the worker's sends to the other end, so it is one step    *)
(* that takes a prefix of the channel.                                     *)
Poll ==
  LET n == AtMost(Len(doneQ), POLL_MAX_RECORDS) IN
  /\ doneQ # <<>>
  /\ delivered' = delivered \o SubSeq(doneQ, 1, n)
  /\ doneQ' = SubSeq(doneQ, n + 1, Len(doneQ))
  /\ UNCHANGED <<workQ, workerVars, issued, accepted>>

-----------------------------------------------------------------------------
(* The worker thread.                                                      *)

(* while let Ok(first) = work_rx.recv()                                    *)
Recv ==
  /\ pc = "recv" /\ workQ # <<>>
  /\ batch' = <<Head(workQ)>>
  /\ workQ' = Tail(workQ)
  /\ pc' = "coalesce"
  /\ UNCHANGED <<groups, out, doneQ, issued, accepted, delivered>>

(* while batch.len() < MAX_BATCH, try_recv returns Ok(req)                 *)
Coalesce ==
  /\ pc = "coalesce" /\ Len(batch) < MAX_BATCH /\ workQ # <<>>
  /\ batch' = Append(batch, Head(workQ))
  /\ workQ' = Tail(workQ)
  /\ UNCHANGED <<pc, groups, out, doneQ, issued, accepted, delivered>>

CloseBatchOnlyFull ==
  /\ pc = "coalesce" /\ Len(batch) = MAX_BATCH
  /\ pc' = "group"
  /\ UNCHANGED <<workQ, batch, groups, out, doneQ, issued, accepted, delivered>>

(* ... the batch is full, or try_recv finds nothing.                       *)
CloseBatch ==
  /\ pc = "coalesce" /\ (Len(batch) = MAX_BATCH \/ workQ = <<>>)
  /\ pc' = "group"
  /\ UNCHANGED <<workQ, batch, groups, out, doneQ, issued, accepted, delivered>>

PlaceInFront(gs, r) ==
  LET same == {g \in DOMAIN gs : PairOf[gs[g][1]] = PairOf[r]} IN
  IF same = {} THEN Append(gs, <<r>>)
  ELSE LET g == CHOOSE k \in same : TRUE IN [gs EXCEPT ![g] = <<r>> \o @]

(* One turn of group_by_pair's loop: the group that already holds r's pair *)
(* takes r at its end, otherwise r opens a new last group.                 *)
Place(gs, r) ==
  LET same == {g \in DOMAIN gs : PairOf[gs[g][1]] = PairOf[r]} IN
  IF same = {} THEN Append(gs, <<r>>)
  ELSE LET g == CHOOSE k \in same : \A j \in same : k <= j
       IN [gs EXCEPT ![g] = Append(@, r)]

(* for req in batch: the batch is consumed in arrival order.               *)
GroupOne ==
  /\ pc = "group"
  /\ batch' = Tail(batch)
  /\ groups' = Place(groups, Head(batch))
  /\ pc' = IF Len(batch) = 1 THEN "translate" ELSE "group"
  /\ UNCHANGED <<workQ, out, doneQ, issued, accepted, delivered>>

TranslateGroupOneItem(statuses) ==
  /\ pc = "translate"
  /\ out' = <<[req_id |-> Head(groups)[1], status |-> statuses[1]]>>
  /\ groups' = <<Tail(Head(groups))>> \o Tail(groups)
  /\ pc' = "send"
  /\ UNCHANGED <<workQ, batch, doneQ, issued, accepted, delivered>>

(* translate_group: the thunk call returns and every item of the group     *)
(* gets a Completed, in input order, with the status of its slot.  A       *)
(* handler that returns early leaves every slot at Internal.               *)
TranslateGroup(statuses) ==
  /\ pc = "translate"
  /\ out' = [i \in 1 .. Len(Head(groups)) |->
               [req_id |-> Head(groups)[i], status |-> statuses[i]]]
  /\ groups' = Tail(groups)
  /\ pc' = "send"
  /\ UNCHANGED <<workQ, batch, doneQ, issued, accepted, delivered>>

SlotStatuses(n) == [1 .. n -> Statuses]

SendForgettingGroups ==
  /\ pc = "send"
  /\ doneQ' = Append(doneQ, Head(out))
  /\ out' = Tail(out)
  /\ groups' = IF Len(out) > 1 THEN groups ELSE <<>>
  /\ pc' = IF Len(out) > 1 THEN "send" ELSE "recv"
  /\ UNCHANGED <<workQ, batch, issued, accepted, delivered>>

(* done_tx.send(completed); after the last one the next group is           *)
(* translated, after the last group the worker blocks again.  The send     *)
(* cannot fail: the receiver lives in a LazyLock that is never dropped.    *)
Send ==
  /\ pc = "send"
  /\ doneQ' = Append(doneQ, Head(out))
  /\ out' = Tail(out)
  /\ pc' = IF Len(out) > 1 THEN "send"
           ELSE IF groups # <<>> THEN "translate" ELSE "recv"
  /\ UNCHANGED <<workQ, batch, groups, issued, accepted, delivered>>

(* The thread ends.  None of its own steps does that, and a panic aborts   *)
(* the whole process in the shipped profiles; it is the fault that         *)
(* EnqueueError::Closed provides for.  Nothing restarts the worker (the    *)
(* LazyLock builds it once).  The channel's receiver goes with it, and so  *)
(* does everything the worker and the work channel hold.                   *)
WorkerGone ==
  /\ pc # "gone" /\ issued # {}
  /\ pc' = "gone"
  /\ workQ' = <<>> /\ batch' = <<>> /\ groups' = <<>> /\ out' = <<>>
  /\ UNCHANGED <<doneQ, issued, accepted, delivered>>

Client == (\E r \in Requests : EnqueueOk(r) \/ EnqueueFull(r)) \/ Poll

Translate == \E statuses \in SlotStatuses(Len(Head(groups))) : TranslateGroup(statuses)

Worker == Recv \/ Coalesce \/ CloseBatch \/ GroupOne \/ (pc = "translate" /\ Translate) \/ Send

Next == Client \/ Worker

Fairness == WF_vars(Worker) /\ WF_vars(Poll)

Spec == Init /\ [][Next]_vars

(* With a worker that may end at any step.                                 *)
CrashNext == Next \/ WorkerGone \/ \E r \in Requests : EnqueueClosed(r)

CrashSpec == Init /\ [][CrashNext]_vars /\ Fairness

-----------------------------------------------------------------------------
(* Properties                                                              *)

(* Every result on the Lua side of the thunk, in the order it was produced.*)
Emitted == delivered \o doneQ \o out

Grouped == UNION {Range(groups[g]) : g \in DOMAIN groups}

(* The channels and the worker hold what their Rust types say.             *)
TypeOK ==
  /\ workQ \in Seq(Requests)
  /\ pc \in WorkerStates
  /\ batch \in Seq(Requests)
  /\ groups \in Seq(Group)
  /\ out \in Seq(Completed)
  /\ doneQ \in Seq(Completed)
  /\ issued \in SUBSET Requests
  /\ accepted \in Seq(Requests)
  /\ delivered \in Seq(Completed)

(* Chat lines of one language pair come back in the order they were sent:  *)
(* when a result reaches Lua, every earlier request of the same pair has   *)
(* already reached it, whatever batches and groups they travelled in       *)
(* (group_by_pair: "Arrival order is preserved within each run").          *)
PairFifo ==
  \A i, j \in DOMAIN accepted, m \in DOMAIN delivered :
    /\ i < j /\ PairOf[accepted[i]] = PairOf[accepted[j]]
    /\ delivered[m].req_id = accepted[j]
    => \E k \in 1 .. m - 1 : delivered[k].req_id = accepted[i]

(* poll never surfaces two results for one request, so the addon's         *)
(* pendingRequests lookup of a second one never has to be relied on.       *)
AtMostOnce ==
  \A m, n \in DOMAIN delivered : delivered[m].req_id = delivered[n].req_id => m = n

(* "Each item's UTF-8 result is parked into the completed channel": while  *)
(* there is a worker, a request answered "ok" is in the work channel, with *)
(* the worker, parked or delivered at every moment.                        *)
NothingLost ==
  pc # "gone" => \A k \in DOMAIN accepted :
    \/ \E m \in DOMAIN Emitted : Emitted[m].req_id = accepted[k]
    \/ accepted[k] \in Grouped \cup Range(batch) \cup Range(workQ)

(* A request answered "ok" is eventually delivered, as long as thunk calls *)
(* return and the addon keeps polling - and if the worker ends, what it    *)
(* has parked is: nothing but the end of the worker keeps a result back.   *)
AcceptedIsDelivered ==
  \A r \in Requests :
    r \in Range(accepted)
      ~> \/ \E m \in DOMAIN delivered : delivered[m].req_id = r
         \/ pc = "gone" /\ doneQ = <<>>
=============================================================================
