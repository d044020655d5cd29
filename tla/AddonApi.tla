------------------------------ MODULE AddonApi ------------------------------
(***************************************************************************)
(* The request bookkeeping of addon/WoWTranslate/WoWTranslate_API.lua over *)
(* the channels the DLL implements (PairChannels).                         *)
(*                                                                         *)
(* Lua is single threaded: one handler runs at a time, and what makes it   *)
(* hard is that handlers call back.  A request's callback may itself call  *)
(* Translate (ResolveGuildDisplayName asks for the rank once the guild is  *)
(* known, or once it failed), while PollTranslations or ClearPending is in *)
(* the middle of a pairs() traversal of the table Translate inserts into.  *)
(* Each callback is therefore a step of its own, in which any number of    *)
(* Translate calls may be nested.                                          *)
(*                                                                         *)
(* A request id is its direction and its number; a translation is          *)
(* abstracted away; an error matters only when it is UnsupportedPair.      *)
(***************************************************************************)
EXTENDS Naturals, Sequences, FiniteSets, Functions

CONSTANTS
  Texts,          \* what incoming lines, names and outgoing messages say
  FollowUpTexts,  \* the texts a callback may ask for
  MaxRequests,    \* bound on requestCounter
  MaxPending      \* GetMaxPending()

ASSUME ApiAssumption ==
  /\ FollowUpTexts \subseteq Texts
  /\ MaxRequests \in Nat \ {0}
  /\ MaxPending \in Nat \ {0}

Pairs == {"in", "out"}

RequestIds == Pairs \X (1 .. MaxRequests)

VARIABLES
  channel, closed, decided, answered,  \* the DLL
  pendingRequests,     \* requestId -> text
  pendingTexts,        \* text -> requestId
  unsupportedPairs,
  dllAvailable,
  requestCounter,
  pollingActive,
  activePendingCount,
  staleUpTo,           \* requests up to this number are older than REQUEST_TIMEOUT
  lua,                 \* the handler that is running
  records,             \* the poll response, per pair, not handled yet
  calls,               \* history: how often each request's callback ran
  disturbedClear       \* history: a request was made while ClearPending traversed

dllVars == <<channel, closed, decided, answered>>
apiVars == <<pendingRequests, pendingTexts, unsupportedPairs, dllAvailable,
             requestCounter, pollingActive, activePendingCount>>
vars == <<dllVars, apiVars, staleUpTo, lua, records, calls, disturbedClear>>

Dll == INSTANCE PairChannels WITH
  Requests <- RequestIds, PairOf <- [r \in RequestIds |-> r[1]]

(* at       : the handler ("drain" and "sweep" are the two halves of       *)
(*            PollTranslations, "clear" is ClearPending)                   *)
(* todo     : what the traversal has still to visit                        *)
(* current  : the request whose callback is running, <<>> for none         *)
(* disturbed: a key was added to the table during its traversal            *)
Idle == [at |-> "idle", todo |-> {}, current |-> <<>>, disturbed |-> FALSE]

Calling == lua.current # <<>>

Handling(handler) == lua.at = handler /\ ~Calling

Without(f, x) == Restrict(f, DOMAIN f \ {x})

With(f, x, v) == [y \in DOMAIN f \cup {x} |-> IF y = x THEN v ELSE f[y]]

(* The addon has loaded: OnAddonLoaded's CheckDLL found the DLL.            *)
Init ==
  /\ Dll!Init
  /\ pendingRequests = <<>> /\ pendingTexts = <<>> /\ unsupportedPairs = {}
  /\ dllAvailable = TRUE /\ requestCounter = 0
  /\ pollingActive = FALSE /\ activePendingCount = 0
  /\ staleUpTo = 0 /\ lua = Idle
  /\ records = [p \in Pairs |-> <<>>]
  /\ calls = [r \in RequestIds |-> 0] /\ disturbedClear = FALSE

-----------------------------------------------------------------------------
(* Translate and TranslateOutgoing                                         *)

(* Any handler may call in from the top, and the callback of an incoming   *)
(* request may ask for a follow-up.  (A callback Translate runs itself, to *)
(* turn a request away, returns before Translate does: what it asks for is *)
(* a call like any other.)                                                 *)
MayCall(t) ==
  \/ Handling("idle")
  \/ Calling /\ lua.current[1] = "in" /\ t \in FollowUpTexts

(* pairs() is undefined once a key is added: the new key may or may not be *)
(* visited, and keys not visited yet may be skipped.                       *)
AddKey(id) ==
  /\ disturbedClear' = (disturbedClear \/ lua.at = "clear")
  /\ IF lua.at \in {"sweep", "clear"}
     THEN \E visited \in BOOLEAN :
            lua' = [lua EXCEPT !.disturbed = TRUE, !.todo = IF visited THEN @ \cup {id} ELSE @]
     ELSE UNCHANGED lua

OnRequestQueued ==
  /\ activePendingCount' = activePendingCount + 1
  /\ pollingActive' = TRUE

OnRequestCompleted ==
  /\ activePendingCount' = IF activePendingCount <= 1 THEN 0 ELSE activePendingCount - 1
  /\ pollingActive' = (pollingActive /\ activePendingCount > 1)

(* The guards the two entry points share; each early return leaves the     *)
(* state as it was.                                                        *)
Admits(pair) ==
  /\ dllAvailable
  /\ pair \notin unsupportedPairs
  /\ activePendingCount < MaxPending
  /\ requestCounter < MaxRequests

(* The DLL answers "ok".                                                   *)
Queued(id, text) ==
  /\ Dll!Accept(id)
  /\ pendingRequests' = With(pendingRequests, id, text)
  /\ OnRequestQueued
  /\ requestCounter' = requestCounter + 1
  /\ AddKey(id)
  /\ UNCHANGED <<unsupportedPairs, dllAvailable, staleUpTo, records, calls>>

(* The DLL answers "error|...": the entry is taken out again, "queue       *)
(* closed" latches dllAvailable off, and the callback runs at once.        *)
Refused(id) ==
  /\ Dll!Refuse(id)
  /\ dllAvailable' = ~closed
  /\ requestCounter' = requestCounter + 1
  /\ calls' = [calls EXCEPT ![id] = @ + 1]
  /\ AddKey(id)
  /\ UNCHANGED <<pendingRequests, pendingTexts, unsupportedPairs, pollingActive,
                 activePendingCount, staleUpTo, records>>

TranslateSwapped(text) ==
  LET id == <<"in", requestCounter + 1>> IN
  /\ MayCall(text) /\ Admits("in")
  /\ text \notin DOMAIN pendingTexts
  /\ \/ Queued(id, text) /\ pendingTexts' = With(pendingTexts, id, text)
     \/ Refused(id)

Translate(text) ==
  LET id == <<"in", requestCounter + 1>> IN
  /\ MayCall(text) /\ Admits("in")
  /\ text \notin DOMAIN pendingTexts
  /\ \/ Queued(id, text) /\ pendingTexts' = With(pendingTexts, text, id)
     \/ Refused(id)

(* Typed messages are not deduplicated and only come from the top.         *)
TranslateOutgoing(text) ==
  LET id == <<"out", requestCounter + 1>> IN
  /\ Handling("idle") /\ Admits("out")
  /\ \/ Queued(id, text) /\ UNCHANGED pendingTexts
     \/ Refused(id)

-----------------------------------------------------------------------------
(* PollTranslations                                                        *)

(* The poll: what the DLL has ready is drained in one call.                *)
PollTick ==
  /\ Handling("idle") /\ pollingActive /\ dllAvailable
  /\ \E n \in Dll!Cuts :
       /\ Dll!Deliver(n)
       /\ records' = [p \in Pairs |-> SubSeq(channel[p], 1, n[p])]
  /\ lua' = [lua EXCEPT !.at = "drain"]
  /\ UNCHANGED <<apiVars, staleUpTo, calls, disturbedClear>>

CompleteKeepingText(id) ==
  /\ pendingRequests' = Without(pendingRequests, id)
  /\ OnRequestCompleted
  /\ UNCHANGED pendingTexts

(* Taking a request out: its table entry, the dedup entry of its text, the *)
(* count and with the last one the polling.                                *)
Complete(id) ==
  /\ pendingRequests' = Without(pendingRequests, id)
  /\ pendingTexts' = Without(pendingTexts, pendingRequests[id])
  /\ OnRequestCompleted

CallBack(id) ==
  /\ calls' = [calls EXCEPT ![id] = @ + 1]
  /\ lua' = [lua EXCEPT !.current = id, !.todo = @ \ {id}]

(* HandlePollRecord on a record whose request is still pending.            *)
HandlePollRecord(p) ==
  /\ Handling("drain") /\ records[p] # <<>>
  /\ records' = [records EXCEPT ![p] = Tail(@)]
  /\ LET id == Head(records[p]) IN
       /\ id \in DOMAIN pendingRequests
       /\ Complete(id)
       /\ CallBack(id)
       /\ unsupportedPairs' \in {unsupportedPairs, unsupportedPairs \cup {id[1]}}
  /\ UNCHANGED <<dllVars, dllAvailable, requestCounter, staleUpTo, disturbedClear>>

(* A record whose request has timed out or was cleared: not for anyone.    *)
HandleLateRecord(p) ==
  /\ Handling("drain") /\ records[p] # <<>>
  /\ Head(records[p]) \notin DOMAIN pendingRequests
  /\ records' = [records EXCEPT ![p] = Tail(@)]
  /\ UNCHANGED <<dllVars, apiVars, staleUpTo, lua, calls, disturbedClear>>

(* The batch is drained: the timeout sweep starts its traversal.           *)
StartSweep ==
  /\ Handling("drain") /\ \A p \in Pairs : records[p] = <<>>
  /\ lua' = [lua EXCEPT !.at = "sweep", !.todo = DOMAIN pendingRequests]
  /\ UNCHANGED <<dllVars, apiVars, staleUpTo, records, calls, disturbedClear>>

Expired == {id \in lua.todo \cap DOMAIN pendingRequests : id[2] <= staleUpTo}

SweepOne(id) ==
  /\ Handling("sweep") /\ id \in Expired
  /\ Complete(id)
  /\ CallBack(id)
  /\ UNCHANGED <<dllVars, unsupportedPairs, dllAvailable, requestCounter, staleUpTo,
                 records, disturbedClear>>

EndSweep ==
  /\ Handling("sweep") /\ (Expired = {} \/ lua.disturbed)
  /\ lua' = Idle
  /\ UNCHANGED <<dllVars, apiVars, staleUpTo, records, calls, disturbedClear>>

-----------------------------------------------------------------------------
(* ClearPending, called by /wt reset                                       *)

StartClear ==
  /\ Handling("idle")
  /\ lua' = [lua EXCEPT !.at = "clear", !.todo = DOMAIN pendingRequests]
  /\ UNCHANGED <<dllVars, apiVars, staleUpTo, records, calls, disturbedClear>>

ClearOne(id) ==
  /\ Handling("clear") /\ id \in lua.todo \cap DOMAIN pendingRequests
  /\ CallBack(id)
  /\ UNCHANGED <<dllVars, apiVars, staleUpTo, records, disturbedClear>>

EndClearKeepingCount ==
  /\ Handling("clear") /\ (lua.todo \cap DOMAIN pendingRequests = {} \/ lua.disturbed)
  /\ pendingTexts' = <<>> /\ unsupportedPairs' = {}
  /\ pollingActive' = FALSE
  /\ dllAvailable' = TRUE
  /\ lua' = Idle
  /\ UNCHANGED <<dllVars, pendingRequests, requestCounter, activePendingCount, staleUpTo,
                 records, calls, disturbedClear>>

EndClearAfterFirst ==
  /\ Handling("clear")
  /\ pendingTexts' = <<>> /\ unsupportedPairs' = {}
  /\ activePendingCount' = 0 /\ pollingActive' = FALSE
  /\ dllAvailable' = TRUE
  /\ lua' = Idle
  /\ UNCHANGED <<dllVars, pendingRequests, requestCounter, staleUpTo, records, calls,
                 disturbedClear>>

(* After the loop everything else is reset; /wt reset then pings the DLL.  *)
EndClear ==
  /\ Handling("clear") /\ (lua.todo \cap DOMAIN pendingRequests = {} \/ lua.disturbed)
  /\ pendingTexts' = <<>> /\ unsupportedPairs' = {}
  /\ activePendingCount' = 0 /\ pollingActive' = FALSE
  /\ dllAvailable' = TRUE
  /\ lua' = Idle
  /\ UNCHANGED <<dllVars, pendingRequests, requestCounter, staleUpTo, records, calls,
                 disturbedClear>>

CallbackReturnsKeepingEntry ==
  /\ Calling
  /\ lua' = [lua EXCEPT !.current = <<>>]
  /\ UNCHANGED <<dllVars, apiVars, staleUpTo, records, calls, disturbedClear>>

(* A callback returns to the handler; ClearPending removes the entry only  *)
(* now, the other two did before they called.                              *)
CallbackReturns ==
  /\ Calling
  /\ pendingRequests' = IF lua.at = "clear" THEN Without(pendingRequests, lua.current)
                        ELSE pendingRequests
  /\ lua' = [lua EXCEPT !.current = <<>>]
  /\ UNCHANGED <<dllVars, pendingTexts, unsupportedPairs, dllAvailable, requestCounter,
                 pollingActive, activePendingCount, staleUpTo, records, calls, disturbedClear>>

-----------------------------------------------------------------------------
(* CheckDLL: at login, on zoning and every HEALTH_CHECK_INTERVAL.  The     *)
(* hook answers "pong" whatever has become of its worker.                  *)
CheckDLL ==
  /\ Handling("idle")
  /\ dllAvailable' = TRUE
  /\ UNCHANGED <<dllVars, pendingRequests, pendingTexts, unsupportedPairs, requestCounter,
                 pollingActive, activePendingCount, staleUpTo, lua, records, calls, disturbedClear>>

(* GetTime() moves on: one more request is older than REQUEST_TIMEOUT.     *)
TimePasses ==
  /\ Handling("idle") /\ staleUpTo < requestCounter
  /\ staleUpTo' = staleUpTo + 1
  /\ UNCHANGED <<dllVars, apiVars, lua, records, calls, disturbedClear>>

(* The worker thread, which the first request spawned, ends: the fault     *)
(* "queue closed" is the answer to (see TranslateQueue).                   *)
WorkerGone ==
  /\ Handling("idle") /\ decided # {}
  /\ \E n \in Dll!Cuts : Dll!Close(n)
  /\ UNCHANGED <<apiVars, staleUpTo, lua, records, calls, disturbedClear>>

(* What a handler that has started goes on to do.                          *)
HandlerStep ==
  \/ \E p \in Pairs : HandlePollRecord(p) \/ HandleLateRecord(p)
  \/ StartSweep \/ EndSweep \/ EndClear \/ CallbackReturns
  \/ \E id \in RequestIds : SweepOne(id) \/ ClearOne(id)

Next ==
  \/ \E text \in Texts : Translate(text) \/ TranslateOutgoing(text)
  \/ PollTick \/ StartClear \/ HandlerStep
  \/ CheckDLL \/ TimePasses \/ WorkerGone

(* The frame scripts keep running, handlers return, the clock moves.       *)
Fairness ==
  /\ WF_vars(HandlerStep) /\ WF_vars(PollTick)
  /\ WF_vars(CheckDLL) /\ SF_vars(TimePasses)

Spec == Init /\ [][Next]_vars /\ Fairness

-----------------------------------------------------------------------------
(* Properties                                                              *)

TypeOK ==
  /\ \A p \in Pairs : channel[p] \in Seq(RequestIds) /\ records[p] \in Seq(RequestIds)
  /\ DOMAIN pendingRequests \subseteq RequestIds
  /\ Range(pendingRequests) \subseteq Texts
  /\ DOMAIN pendingTexts \subseteq Texts
  /\ Range(pendingTexts) \subseteq RequestIds
  /\ unsupportedPairs \subseteq Pairs
  /\ requestCounter \in 0 .. MaxRequests
  /\ activePendingCount \in Nat
  /\ staleUpTo \in 0 .. MaxRequests
  /\ dllAvailable \in BOOLEAN /\ pollingActive \in BOOLEAN
  /\ lua \in [at : {"idle", "drain", "sweep", "clear"}, todo : SUBSET RequestIds,
              current : RequestIds \cup {<<>>}, disturbed : BOOLEAN]
  /\ disturbedClear \in BOOLEAN

(* activePendingCount, which gates both the in-flight cap and the polling, *)
(* agrees with the table between handlers, and the poll frame runs exactly *)
(* while something is pending -- until a callback that ClearPending runs   *)
(* asks for something else.                                                *)
CountTracksTable ==
  Handling("idle") /\ ~disturbedClear =>
    /\ activePendingCount = Cardinality(DOMAIN pendingRequests)
    /\ pollingActive = (pendingRequests # <<>>)

(* A dedup entry always belongs to a request that is still pending for     *)
(* that very text.  A stale one would swallow every later line saying the  *)
(* same for the rest of the session.                                       *)
NoTextBlocked ==
  lua.at # "clear" =>
    \A t \in DOMAIN pendingTexts :
      /\ pendingTexts[t] \in DOMAIN pendingRequests
      /\ pendingRequests[pendingTexts[t]] = t

(* However a result, the timeout sweep, a reset and a refusal race for a   *)
(* request, its callback runs once, and it has run when the request is     *)
(* neither pending nor unknown to the DLL.                                 *)
CallbackOnce ==
  \A id \in RequestIds :
    /\ calls[id] <= 1
    /\ id \in decided /\ id \notin DOMAIN pendingRequests => calls[id] = 1

(* "callback(translation, error) will be called when complete": no request *)
(* stays pending for ever, with a dead worker and across health checks and *)
(* resets too -- until a callback that ClearPending runs asks for something*)
(* else: the new request may then stay pending with the polling stopped.   *)
AlwaysAnswered ==
  \A id \in RequestIds :
    id \in DOMAIN pendingRequests ~> calls[id] > 0 \/ disturbedClear
=============================================================================
