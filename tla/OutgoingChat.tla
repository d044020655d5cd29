---------------------------- MODULE OutgoingChat ----------------------------
(***************************************************************************)
(* What the player types, held while it is translated: outgoingQueue of    *)
(* addon/WoWTranslate/WoWTranslate.lua over the request bookkeeping of     *)
(* AddonApi.  Two clocks run on a typed message.  Its request is answered, *)
(* times out after REQUEST_TIMEOUT or is cleared by a reset, and each of   *)
(* them runs the callback that sends the message; and a sweep of the queue *)
(* of its own sends the original after 30 s, whatever became of the        *)
(* request.                                                                *)
(*                                                                         *)
(* A typed message is named by the request it makes: queueId and requestId *)
(* are two counters that the callback's closure ties together.  A message  *)
(* that is turned away before it gets a request is sent inside the hook,   *)
(* or by the callback TranslateOutgoing runs inside it, and leaves nothing *)
(* behind: that is no step here.                                           *)
(***************************************************************************)
EXTENDS AddonApi

VARIABLES
  outgoingQueue,  \* messages held back
  sent            \* history: how often each message went out

outgoingVars == <<outgoingQueue, sent>>
allVars == <<vars, outgoingVars>>

OutgoingInit ==
  /\ Init
  /\ outgoingQueue = {}
  /\ sent = [id \in RequestIds |-> 0]

Sends(ids) == sent' = [id \in RequestIds |-> IF id \in ids THEN sent[id] + 1 ELSE sent[id]]

(* The hook on SendChatMessage: the message is queued and its translation  *)
(* asked for.  A refusal runs the callback before TranslateOutgoing        *)
(* returns; it finds the entry and sends the original.                     *)
HookedSendChatMessage(text) ==
  LET id == <<"out", requestCounter + 1>> IN
  /\ TranslateOutgoing(text)
  /\ IF id \in DOMAIN pendingRequests'
     THEN outgoingQueue' = outgoingQueue \cup {id} /\ UNCHANGED sent
     ELSE Sends({id}) /\ UNCHANGED outgoingQueue

OutgoingCallbackKeepingEntry(id) == Sends({id}) /\ UNCHANGED outgoingQueue

(* The callback: the entry is taken out and the translation, or after an   *)
(* error the original, goes out.  An entry that is gone has been sent.     *)
OutgoingCallback(id) ==
  IF id \in outgoingQueue
  THEN outgoingQueue' = outgoingQueue \ {id} /\ Sends({id})
  ELSE UNCHANGED outgoingVars

(* A handler goes on; when that starts an outgoing request's callback, the *)
(* callback, which asks for nothing further, runs to its end.              *)
Handle ==
  /\ HandlerStep
  /\ IF lua'.current # <<>> THEN OutgoingCallback(lua'.current) ELSE UNCHANGED outgoingVars

CleanupOutgoingQueueAfterApi(n) ==
  LET timedOut == {id \in outgoingQueue : id[2] <= n /\ id \notin DOMAIN pendingRequests} IN
  /\ Handling("idle") /\ timedOut # {}
  /\ outgoingQueue' = outgoingQueue \ timedOut
  /\ Sends(timedOut)
  /\ UNCHANGED vars

(* The sweep, run by the addon's frame script: the messages held for more  *)
(* than 30 s go out as they were typed.  They are among those whose        *)
(* request is older than REQUEST_TIMEOUT (25 s), and the oldest of them.   *)
CleanupOutgoingQueue(n) ==
  LET timedOut == {id \in outgoingQueue : id[2] <= n} IN
  /\ Handling("idle") /\ timedOut # {}
  /\ outgoingQueue' = outgoingQueue \ timedOut
  /\ Sends(timedOut)
  /\ UNCHANGED vars

Cleanup == \E n \in 1 .. staleUpTo : CleanupOutgoingQueue(n)

OutgoingNext ==
  \/ \E text \in Texts :
       \/ Translate(text) /\ UNCHANGED outgoingVars
       \/ HookedSendChatMessage(text)
  \/ (PollTick \/ StartClear \/ CheckDLL \/ TimePasses \/ WorkerGone) /\ UNCHANGED outgoingVars
  \/ Handle \/ Cleanup

(* As in AddonApi; the frame that runs the sweep is never hidden, so the   *)
(* sweep comes round however busy the other handlers are.                  *)
OutgoingSpec ==
  /\ OutgoingInit /\ [][OutgoingNext]_allVars
  /\ Fairness /\ SF_allVars(Cleanup)

-----------------------------------------------------------------------------
(* Properties                                                              *)

(* What the player typed goes out exactly once: while it is held it has    *)
(* not been sent, afterwards it has been sent once, however the answer,    *)
(* the 25 s timeout, a reset, a refusal and the 30 s sweep race for it.    *)
SentOnce ==
  \A id \in RequestIds :
    id[1] = "out" /\ id \in decided => sent[id] = IF id \in outgoingQueue THEN 0 ELSE 1

(* Nothing the player typed is held for ever, not even when a reset that a *)
(* callback disturbed leaves its request pending with the polling stopped. *)
TypedIsSent == \A id \in {"out"} \X (1 .. MaxRequests) : id \in outgoingQueue ~> sent[id] > 0
=============================================================================
