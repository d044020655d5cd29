---------------------------- MODULE AddonProofs ----------------------------
(***************************************************************************)
(* The addon's Lua, in two parts: its request bookkeeping and what the     *)
(* player types (AddonApi, OutgoingChat), for any texts, any number of     *)
(* requests and any limit on those in flight; and the chat frame hook with *)
(* the names it resolves (ChatFrames, NameResolver), for any frames, lines,*)
(* texts and senders, with and without replaceMode.                        *)
(*                                                                         *)
(* Of the requests: CountTracksTable, NoTextBlocked, CallbackOnce, SentOnce*)
(* and the refinement of the API's specification.  Of the hook:            *)
(* NoReappearance, and that every line that waits for a name is pursued.   *)
(***************************************************************************)
EXTENDS OutgoingChat, ChatLines, FiniteSetTheorems, SequenceTheorems, TLAPS

Handlers == {"idle", "drain", "sweep", "clear"}

ApiTypes ==
  /\ requestCounter \in Nat /\ activePendingCount \in Nat
  /\ pollingActive \in BOOLEAN /\ disturbedClear \in BOOLEAN
  /\ decided \subseteq RequestIds
  /\ pendingRequests \in [DOMAIN pendingRequests -> Texts]
  /\ calls \in [RequestIds -> Nat]
  /\ lua \in [at : Handlers, todo : SUBSET RequestIds, current : RequestIds \cup {<<>>},
              disturbed : BOOLEAN]

(* What is pending has been given to the DLL; the numbers used are behind  *)
(* the counter.                                                            *)
Accepted ==
  /\ DOMAIN pendingRequests \subseteq decided
  /\ \A id \in decided : id[2] <= requestCounter

(* What is known of a handler at each point.                               *)
HandlerShape ==
  /\ lua.at = "idle" => lua = Idle
  /\ lua.at = "drain" => ~lua.disturbed
  /\ lua.current # <<>> /\ lua.at = "clear" => lua.current \in DOMAIN pendingRequests

(* Until a callback disturbs it, ClearPending has every entry still to     *)
(* visit, or is at it.                                                     *)
ClearCovers ==
  lua.at = "clear" /\ ~disturbedClear =>
    /\ ~lua.disturbed
    /\ DOMAIN pendingRequests \subseteq lua.todo \cup {lua.current}

(* A callback has run when the request is decided and no longer pending;   *)
(* ClearPending takes the entry out a step after the call.                 *)
CalledBack(id) ==
  id \in decided /\ (id \in DOMAIN pendingRequests => lua.at = "clear" /\ lua.current = id)

Called == \A id \in RequestIds : calls[id] = IF CalledBack(id) THEN 1 ELSE 0

Counted ==
  lua.at # "clear" /\ ~disturbedClear =>
    /\ activePendingCount = Cardinality(DOMAIN pendingRequests)
    /\ pollingActive <=> DOMAIN pendingRequests # {}

ApiInv ==
  /\ ApiTypes /\ Accepted /\ HandlerShape /\ ClearCovers /\ Called /\ Counted /\ NoTextBlocked

-----------------------------------------------------------------------------

LEMMA RequestIdsFinite == IsFiniteSet(RequestIds)
  <1>1. IsFiniteSet({"in"} \cup {"out"})
    BY FS_Singleton, FS_AddElement
  <1>2. Pairs = {"in"} \cup {"out"}
    BY DEF Pairs
  <1>3. IsFiniteSet(1 .. MaxRequests)
    BY FS_Interval, ApiAssumption
  <1> QED BY <1>1, <1>2, <1>3, FS_Product DEF RequestIds

LEMMA NoRequest == \A id \in RequestIds : id # <<>>
  BY DEF RequestIds

(* An empty table is the empty function.                                   *)
LEMMA EmptyTable ==
  ASSUME NEW S, NEW f, f \in [DOMAIN f -> S]
  PROVE  (f = <<>>) <=> (DOMAIN f = {})
  <1>1. ASSUME DOMAIN f = {} PROVE f = <<>>
    <2>1. f \in [1 .. 0 -> S]
      BY <1>1
    <2> QED BY <2>1, SeqDef, EmptySeq
  <1> QED BY <1>1

LEMMA ApiInvInit == Init => ApiInv
  <1> SUFFICES ASSUME Init PROVE ApiInv
    OBVIOUS
  <1>1. DOMAIN pendingRequests = {} /\ DOMAIN pendingTexts = {} /\ decided = {} /\ lua = Idle
    BY DEF Init, Dll!Init
  <1>2. ApiTypes
    <2>1. <<>> \in [{} -> Texts]
      BY EmptyTable, <1>1 DEF Init
    <2>2. pendingRequests \in [DOMAIN pendingRequests -> Texts]
      BY <1>1, <2>1 DEF Init
    <2>3. lua \in [at : Handlers, todo : SUBSET RequestIds, current : RequestIds \cup {<<>>},
                   disturbed : BOOLEAN]
      BY <1>1 DEF Idle, Handlers
    <2> QED BY <1>1, <2>2, <2>3 DEF Init, ApiTypes
  <1>3. Counted
    BY <1>1, FS_EmptySet DEF Init, Counted
  <1> QED BY <1>1, <1>2, <1>3
    DEF Init, ApiInv, Accepted, HandlerShape, ClearCovers, Called, CalledBack, NoTextBlocked, Idle

-----------------------------------------------------------------------------
(* The steps, by what they do to the table.                                *)

(* A new key comes in while a handler may be traversing the table.         *)
LEMMA KeyAdded ==
  ASSUME ApiInv, NEW id \in RequestIds, AddKey(id)
  PROVE  /\ lua'.at = lua.at /\ lua'.current = lua.current
         /\ lua.at \in {"idle", "drain"} => lua' = lua
         /\ lua.at = "clear" => disturbedClear'
         /\ lua.at # "clear" => disturbedClear' = disturbedClear
         /\ disturbedClear' \in BOOLEAN
         /\ lua' \in [at : Handlers, todo : SUBSET RequestIds,
                      current : RequestIds \cup {<<>>}, disturbed : BOOLEAN]
  <1>1. ApiTypes
    BY DEF ApiInv
  <1>2. CASE lua.at \in {"sweep", "clear"}
    <2>1. PICK visited \in BOOLEAN :
            lua' = [lua EXCEPT !.disturbed = TRUE,
                               !.todo = IF visited THEN @ \cup {id} ELSE @]
      BY <1>2 DEF AddKey
    <2> QED BY <1>1, <1>2, <2>1 DEF AddKey, ApiTypes
  <1>3. CASE lua.at \notin {"sweep", "clear"}
    BY <1>1, <1>3 DEF AddKey, ApiTypes
  <1> QED BY <1>2, <1>3

(* The next number has not been used.                                      *)
LEMMA NextIdIsNew ==
  ASSUME ApiInv, NEW pair \in Pairs, Admits(pair)
  PROVE  /\ <<pair, requestCounter + 1>> \in RequestIds
         /\ <<pair, requestCounter + 1>> \notin decided
         /\ <<pair, requestCounter + 1>> \notin DOMAIN pendingRequests
  <1>1. ApiTypes /\ Accepted
    BY DEF ApiInv
  <1>2. <<pair, requestCounter + 1>> \in RequestIds
    BY <1>1, ApiAssumption DEF ApiTypes, Admits, RequestIds
  <1> QED BY <1>1, <1>2 DEF ApiTypes, Accepted

LEMMA QueuedKeeps ==
  ASSUME ApiInv, NEW pair \in Pairs, NEW text \in Texts, Admits(pair),
         Queued(<<pair, requestCounter + 1>>, text),
         \/ pendingTexts' = pendingTexts
         \/ pendingTexts' = With(pendingTexts, text, <<pair, requestCounter + 1>>)
  PROVE  ApiInv'
  <1> DEFINE id == <<pair, requestCounter + 1>>
  <1>0. /\ ApiTypes /\ Accepted /\ HandlerShape /\ ClearCovers /\ Called /\ Counted
        /\ NoTextBlocked
    BY DEF ApiInv
  <1>1. id \in RequestIds /\ id \notin decided /\ id \notin DOMAIN pendingRequests
    BY NextIdIsNew
  <1>2. id[2] = requestCounter + 1
    OBVIOUS
  <1> HIDE DEF id
  <1>3. Queued(id, text) /\ AddKey(id)
    BY DEF id, Queued
  <1>4. /\ decided' = decided \cup {id}
        /\ calls' = calls
        /\ activePendingCount' = activePendingCount + 1 /\ pollingActive' = TRUE
        /\ requestCounter' = requestCounter + 1
    BY <1>3 DEF Queued, Dll!Accept, OnRequestQueued
  <1>5. /\ DOMAIN pendingRequests' = DOMAIN pendingRequests \cup {id}
        /\ pendingRequests'[id] = text
        /\ \A r \in DOMAIN pendingRequests : pendingRequests'[r] = pendingRequests[r]
        /\ pendingRequests' \in [DOMAIN pendingRequests' -> Texts]
    BY <1>0, <1>1, <1>3 DEF Queued, With, ApiTypes
  <1>6. /\ lua'.at = lua.at /\ lua'.current = lua.current
        /\ lua.at \in {"idle", "drain"} => lua' = lua
        /\ lua.at = "clear" => disturbedClear'
        /\ lua.at # "clear" => disturbedClear' = disturbedClear
        /\ disturbedClear' \in BOOLEAN
        /\ lua' \in [at : Handlers, todo : SUBSET RequestIds,
                     current : RequestIds \cup {<<>>}, disturbed : BOOLEAN]
    BY <1>1, <1>3, KeyAdded
  <1>7. ApiTypes'
    BY <1>0, <1>1, <1>4, <1>5, <1>6 DEF ApiTypes
  <1>8. Accepted'
    BY <1>0, <1>1, <1>2, <1>4, <1>5 DEF Accepted, ApiTypes, RequestIds
  <1>9. HandlerShape' /\ ClearCovers'
    BY <1>0, <1>5, <1>6 DEF HandlerShape, ClearCovers
  <1>10. Called'
    <2>1. ASSUME NEW r \in RequestIds PROVE CalledBack(r)' <=> CalledBack(r)
      BY <1>0, <1>1, <1>4, <1>5, <1>6, <2>1, NoRequest DEF CalledBack, HandlerShape, Accepted
    <2> QED BY <1>0, <1>4, <2>1 DEF Called
  <1>11. Counted'
    <2>1. IsFiniteSet(DOMAIN pendingRequests)
      BY <1>0, RequestIdsFinite, FS_Subset DEF ApiTypes, Accepted
    <2>2. Cardinality(DOMAIN pendingRequests') = Cardinality(DOMAIN pendingRequests) + 1
      BY <1>1, <1>5, <2>1, FS_AddElement
    <2> QED BY <1>0, <1>4, <1>5, <1>6, <2>2 DEF Counted
  <1>12. NoTextBlocked'
    <2> SUFFICES ASSUME lua.at # "clear", NEW t \in DOMAIN pendingTexts'
                 PROVE  /\ pendingTexts'[t] \in DOMAIN pendingRequests'
                        /\ pendingRequests'[pendingTexts'[t]] = t
      BY <1>6 DEF NoTextBlocked
    <2>1. \/ t \in DOMAIN pendingTexts /\ pendingTexts'[t] = pendingTexts[t]
          \/ t = text /\ pendingTexts'[t] = id
      BY DEF With, id
    <2> QED BY <1>0, <1>5, <2>1 DEF NoTextBlocked
  <1> QED BY <1>7, <1>8, <1>9, <1>10, <1>11, <1>12 DEF ApiInv

LEMMA RefusedKeeps ==
  ASSUME ApiInv, NEW pair \in Pairs, Admits(pair), Refused(<<pair, requestCounter + 1>>)
  PROVE  ApiInv'
  <1> DEFINE id == <<pair, requestCounter + 1>>
  <1>0. /\ ApiTypes /\ Accepted /\ HandlerShape /\ ClearCovers /\ Called /\ Counted
        /\ NoTextBlocked
    BY DEF ApiInv
  <1>1. id \in RequestIds /\ id \notin decided /\ id \notin DOMAIN pendingRequests
    BY NextIdIsNew
  <1>2. id[2] = requestCounter + 1
    OBVIOUS
  <1> HIDE DEF id
  <1>3. Refused(id) /\ AddKey(id)
    BY DEF id, Refused
  <1>4. /\ decided' = decided \cup {id}
        /\ calls' = [calls EXCEPT ![id] = @ + 1]
        /\ requestCounter' = requestCounter + 1
        /\ UNCHANGED <<pendingRequests, pendingTexts, pollingActive, activePendingCount>>
    BY <1>3 DEF Refused, Dll!Refuse
  <1>6. /\ lua'.at = lua.at /\ lua'.current = lua.current
        /\ lua.at \in {"idle", "drain"} => lua' = lua
        /\ lua.at = "clear" => disturbedClear'
        /\ lua.at # "clear" => disturbedClear' = disturbedClear
        /\ disturbedClear' \in BOOLEAN
        /\ lua' \in [at : Handlers, todo : SUBSET RequestIds,
                     current : RequestIds \cup {<<>>}, disturbed : BOOLEAN]
    BY <1>1, <1>3, KeyAdded
  <1>7. ApiTypes'
    BY <1>0, <1>1, <1>4, <1>6 DEF ApiTypes
  <1>8. Accepted'
    BY <1>0, <1>1, <1>2, <1>4 DEF Accepted, ApiTypes, RequestIds
  <1>9. HandlerShape' /\ ClearCovers'
    BY <1>0, <1>4, <1>6 DEF HandlerShape, ClearCovers
  <1>10. Called'
    BY <1>0, <1>1, <1>4, <1>6 DEF Called, CalledBack, ApiTypes
  <1>11. Counted' /\ NoTextBlocked'
    BY <1>0, <1>4, <1>6 DEF Counted, NoTextBlocked
  <1> QED BY <1>7, <1>8, <1>9, <1>10, <1>11 DEF ApiInv

(* A request is taken out of the table before its callback runs.           *)
LEMMA CompleteKeeps ==
  ASSUME ApiInv, NEW id \in DOMAIN pendingRequests, lua.current = <<>>,
         lua.at \in {"drain", "sweep"}, Complete(id), CallBack(id),
         UNCHANGED <<decided, requestCounter, disturbedClear>>
  PROVE  ApiInv'
  <1>0. /\ ApiTypes /\ Accepted /\ HandlerShape /\ ClearCovers /\ Called /\ Counted
        /\ NoTextBlocked
    BY DEF ApiInv
  <1>1. id \in RequestIds /\ id \in decided
    BY <1>0 DEF ApiTypes, Accepted
  <1>2. /\ DOMAIN pendingRequests' = DOMAIN pendingRequests \ {id}
        /\ \A r \in DOMAIN pendingRequests' : pendingRequests'[r] = pendingRequests[r]
        /\ pendingRequests' \in [DOMAIN pendingRequests' -> Texts]
    BY <1>0 DEF Complete, Without, Restrict, ApiTypes
  <1>3. /\ lua' = [lua EXCEPT !.current = id, !.todo = @ \ {id}]
        /\ lua'.at = lua.at /\ lua'.disturbed = lua.disturbed /\ lua'.current = id
        /\ calls' = [calls EXCEPT ![id] = @ + 1]
    BY <1>0 DEF CallBack, ApiTypes
  <1>4. IsFiniteSet(DOMAIN pendingRequests)
    BY <1>0, RequestIdsFinite, FS_Subset DEF ApiTypes, Accepted
  <1>5. /\ Cardinality(DOMAIN pendingRequests') = Cardinality(DOMAIN pendingRequests) - 1
        /\ Cardinality(DOMAIN pendingRequests) \in Nat
        /\ DOMAIN pendingRequests' = {} <=> Cardinality(DOMAIN pendingRequests) = 1
    <2>1. /\ Cardinality(DOMAIN pendingRequests') = Cardinality(DOMAIN pendingRequests) - 1
          /\ IsFiniteSet(DOMAIN pendingRequests')
      BY <1>2, <1>4, FS_RemoveElement
    <2>2. Cardinality(DOMAIN pendingRequests) \in Nat
      BY <1>4, FS_CardinalityType
    <2>3. DOMAIN pendingRequests' = {} <=> Cardinality(DOMAIN pendingRequests') = 0
      BY <2>1, FS_EmptySet
    <2> QED BY <2>1, <2>2, <2>3
  <1>6. ApiTypes'
    <2>1. activePendingCount' \in Nat /\ pollingActive' \in BOOLEAN
      BY <1>0 DEF Complete, OnRequestCompleted, ApiTypes
    <2>2. lua' \in [at : Handlers, todo : SUBSET RequestIds,
                    current : RequestIds \cup {<<>>}, disturbed : BOOLEAN]
      BY <1>0, <1>1, <1>3 DEF ApiTypes
    <2>3. calls' \in [RequestIds -> Nat]
      BY <1>0, <1>1, <1>3 DEF ApiTypes
    <2>4. decided' \subseteq RequestIds /\ requestCounter' \in Nat /\ disturbedClear' \in BOOLEAN
      BY <1>0 DEF ApiTypes
    <2> QED BY <1>2, <2>1, <2>2, <2>3, <2>4 DEF ApiTypes
  <1>7. Accepted' /\ HandlerShape' /\ ClearCovers'
    BY <1>0, <1>2, <1>3 DEF Accepted, HandlerShape, ClearCovers
  <1>8. Called'
    BY <1>0, <1>1, <1>2, <1>3 DEF Called, CalledBack, ApiTypes
  <1>9. Counted'
    <2> SUFFICES ASSUME ~disturbedClear
                 PROVE  /\ activePendingCount' = Cardinality(DOMAIN pendingRequests')
                        /\ pollingActive' <=> DOMAIN pendingRequests' # {}
      BY <1>3 DEF Counted
    <2>1. /\ activePendingCount = Cardinality(DOMAIN pendingRequests)
          /\ pollingActive <=> DOMAIN pendingRequests # {}
      BY <1>0 DEF Counted
    <2>2. pollingActive /\ Cardinality(DOMAIN pendingRequests) >= 1
      BY <1>4, <1>5, <2>1, FS_EmptySet
    <2>3. activePendingCount' = Cardinality(DOMAIN pendingRequests')
      BY <1>5, <2>1, <2>2 DEF Complete, OnRequestCompleted
    <2>4. pollingActive' <=> activePendingCount > 1
      BY <2>2 DEF Complete, OnRequestCompleted
    <2>5. activePendingCount > 1 <=> DOMAIN pendingRequests' # {}
      BY <1>5, <2>1, <2>2
    <2> QED BY <2>3, <2>4, <2>5
  <1>10. NoTextBlocked'
    <2>1. \A t \in DOMAIN pendingTexts' :
            t \in DOMAIN pendingTexts /\ pendingTexts'[t] = pendingTexts[t]
            /\ t # pendingRequests[id]
      BY DEF Complete, Without, Restrict
    <2> QED BY <1>0, <1>2, <2>1 DEF NoTextBlocked
  <1> QED BY <1>6, <1>7, <1>8, <1>9, <1>10 DEF ApiInv

(* What moves a handler on without touching the table.                     *)
LEMMA TableAlone ==
  ASSUME ApiInv,
         UNCHANGED <<decided, pendingRequests, pendingTexts, requestCounter, pollingActive,
                     activePendingCount, calls, disturbedClear>>,
         lua' \in [at : Handlers, todo : SUBSET RequestIds, current : RequestIds \cup {<<>>},
                   disturbed : BOOLEAN],
         HandlerShape', ClearCovers', lua.at # "clear" \/ lua' = lua,
         lua'.at # "clear" \/ lua' = lua \/ lua'.current = <<>>
  PROVE  ApiInv'
  <1>0. /\ ApiTypes /\ Accepted /\ HandlerShape /\ ClearCovers /\ Called /\ Counted
        /\ NoTextBlocked
    BY DEF ApiInv
  <1>1. ApiTypes' /\ Accepted'
    BY <1>0 DEF ApiTypes, Accepted
  <1>2. Called'
    <2>1. ASSUME NEW r \in RequestIds PROVE CalledBack(r)' <=> CalledBack(r)
      BY <1>0, NoRequest, <2>1 DEF CalledBack
    <2> QED BY <1>0, <2>1 DEF Called
  <1>3. Counted' /\ NoTextBlocked'
    BY <1>0 DEF Counted, NoTextBlocked
  <1> QED BY <1>1, <1>2, <1>3 DEF ApiInv

-----------------------------------------------------------------------------
(* The handlers.                                                           *)

LEMMA HandlerStepKeeps == ApiInv /\ HandlerStep => ApiInv'
  <1> SUFFICES ASSUME ApiInv, HandlerStep PROVE ApiInv'
    OBVIOUS
  <1>0. /\ ApiTypes /\ Accepted /\ HandlerShape /\ ClearCovers /\ Called /\ Counted
        /\ NoTextBlocked
    BY DEF ApiInv
  <1>1. ASSUME NEW p \in Pairs, HandlePollRecord(p) PROVE ApiInv'
    <2>1. Head(records[p]) \in DOMAIN pendingRequests
      BY <1>1 DEF HandlePollRecord
    <2> QED BY <1>1, <2>1, CompleteKeeps DEF HandlePollRecord, Handling, Calling, dllVars
  <1>2. ASSUME NEW p \in Pairs, HandleLateRecord(p) PROVE ApiInv'
    BY <1>0, <1>2, TableAlone
    DEF HandleLateRecord, dllVars, apiVars, HandlerShape, ClearCovers, ApiTypes
  <1>3. CASE StartSweep
    <2>1. lua' = [lua EXCEPT !.at = "sweep", !.todo = DOMAIN pendingRequests]
          /\ lua.at = "drain" /\ lua.current = <<>>
      BY <1>3 DEF StartSweep, Handling, Calling
    <2>2. DOMAIN pendingRequests \subseteq RequestIds
      BY <1>0 DEF ApiTypes, Accepted
    <2>3. lua' \in [at : Handlers, todo : SUBSET RequestIds, current : RequestIds \cup {<<>>},
                    disturbed : BOOLEAN]
          /\ lua'.at = "sweep"
      BY <1>0, <2>1, <2>2 DEF ApiTypes, Handlers
    <2>4. HandlerShape' /\ ClearCovers'
      BY <2>3 DEF HandlerShape, ClearCovers
    <2> QED BY <1>3, <2>1, <2>3, <2>4, TableAlone DEF StartSweep, dllVars, apiVars
  <1>4. ASSUME NEW id \in RequestIds, SweepOne(id) PROVE ApiInv'
    <2>1. id \in DOMAIN pendingRequests
      BY <1>4 DEF SweepOne, Expired
    <2> QED BY <1>4, <2>1, CompleteKeeps DEF SweepOne, Handling, Calling, dllVars
  <1>5. CASE EndSweep
    <2>1. lua' = Idle /\ lua.at = "sweep"
      BY <1>5 DEF EndSweep, Handling
    <2>2. lua' \in [at : Handlers, todo : SUBSET RequestIds, current : RequestIds \cup {<<>>},
                    disturbed : BOOLEAN]
          /\ lua'.at = "idle" /\ lua'.current = <<>>
      BY <2>1 DEF Idle, Handlers
    <2>3. HandlerShape' /\ ClearCovers'
      BY <2>1, <2>2 DEF HandlerShape, ClearCovers, Idle
    <2> QED BY <1>5, <2>1, <2>2, <2>3, TableAlone DEF EndSweep, dllVars, apiVars
  <1>6. ASSUME NEW id \in RequestIds, ClearOne(id) PROVE ApiInv'
    <2>1. /\ lua.at = "clear" /\ lua.current = <<>>
          /\ id \in lua.todo /\ id \in DOMAIN pendingRequests /\ id \in decided
          /\ UNCHANGED <<decided, pendingRequests, pendingTexts, requestCounter, pollingActive,
                         activePendingCount, disturbedClear>>
          /\ calls' = [calls EXCEPT ![id] = @ + 1]
      BY <1>0, <1>6 DEF ClearOne, Handling, Calling, CallBack, dllVars, apiVars, Accepted
    <2>2. lua' \in [at : Handlers, todo : SUBSET RequestIds, current : RequestIds \cup {<<>>},
                    disturbed : BOOLEAN]
          /\ lua'.at = "clear" /\ lua'.current = id /\ lua'.disturbed = lua.disturbed
          /\ lua'.todo = lua.todo \ {id}
      BY <1>0, <1>6, <2>1 DEF ClearOne, CallBack, ApiTypes
    <2>3. ApiTypes' /\ Accepted'
      BY <1>0, <2>1, <2>2 DEF ApiTypes, Accepted
    <2>4. HandlerShape' /\ ClearCovers' /\ Counted' /\ NoTextBlocked'
      <3>1. HandlerShape' /\ Counted' /\ NoTextBlocked'
        BY <2>1, <2>2 DEF HandlerShape, Counted, NoTextBlocked
      <3>2. ClearCovers'
        <4> SUFFICES ASSUME ~disturbedClear
                     PROVE  ~lua'.disturbed /\ DOMAIN pendingRequests \subseteq lua'.todo \cup {id}
          BY <2>1, <2>2 DEF ClearCovers
        <4>1. ~lua.disturbed /\ DOMAIN pendingRequests \subseteq lua.todo \cup {<<>>}
          BY <1>0, <2>1 DEF ClearCovers
        <4>2. \A r \in DOMAIN pendingRequests : r # <<>>
          BY <1>0, NoRequest DEF ApiTypes, Accepted
        <4> QED BY <2>2, <4>1, <4>2
      <3> QED BY <3>1, <3>2
    <2>5. Called'
      <3>1. ASSUME NEW r \in RequestIds, r # id PROVE CalledBack(r)' <=> CalledBack(r)
        BY <2>1, <2>2, <3>1, NoRequest DEF CalledBack
      <3>2. CalledBack(id)' /\ ~CalledBack(id)
        BY <2>1, <2>2, NoRequest DEF CalledBack
      <3> QED BY <1>0, <2>1, <3>1, <3>2 DEF Called, ApiTypes
    <2> QED BY <2>3, <2>4, <2>5 DEF ApiInv
  <1>7. CASE EndClear
    <2>1. /\ lua.at = "clear" /\ lua.current = <<>>
          /\ lua.todo \cap DOMAIN pendingRequests = {} \/ lua.disturbed
          /\ lua' = Idle /\ lua'.at = "idle" /\ lua'.current = <<>>
          /\ pendingTexts' = <<>> /\ activePendingCount' = 0 /\ pollingActive' = FALSE
          /\ UNCHANGED <<decided, pendingRequests, requestCounter, calls, disturbedClear>>
      BY <1>7 DEF EndClear, Handling, Calling, Idle, dllVars
    <2>2. lua' \in [at : Handlers, todo : SUBSET RequestIds, current : RequestIds \cup {<<>>},
                    disturbed : BOOLEAN]
      BY <2>1 DEF Idle, Handlers
    <2>3. ApiTypes' /\ Accepted'
      BY <1>0, <2>1, <2>2 DEF ApiTypes, Accepted
    <2>4. HandlerShape' /\ ClearCovers' /\ NoTextBlocked'
      BY <2>1 DEF HandlerShape, ClearCovers, NoTextBlocked, Idle
    <2>5. Called'
      <3>1. ASSUME NEW r \in RequestIds PROVE CalledBack(r)' <=> CalledBack(r)
        BY <2>1, <3>1, NoRequest DEF CalledBack
      <3> QED BY <1>0, <2>1, <3>1 DEF Called
    <2>6. Counted'
      <3> SUFFICES ASSUME ~disturbedClear PROVE DOMAIN pendingRequests = {}
        BY <2>1, FS_EmptySet DEF Counted
      <3> QED BY <1>0, <2>1, NoRequest DEF ClearCovers, Accepted, ApiTypes
    <2> QED BY <2>3, <2>4, <2>5, <2>6 DEF ApiInv
  <1>8. CASE CallbackReturns
    <2> DEFINE current == lua.current
    <2>1. /\ current # <<>>
          /\ lua' = [lua EXCEPT !.current = <<>>]
          /\ pendingRequests' = IF lua.at = "clear" THEN Without(pendingRequests, current)
                                ELSE pendingRequests
          /\ UNCHANGED <<decided, pendingTexts, requestCounter, pollingActive,
                         activePendingCount, calls, disturbedClear>>
      BY <1>8 DEF CallbackReturns, Calling, dllVars
    <2>2. lua' \in [at : Handlers, todo : SUBSET RequestIds, current : RequestIds \cup {<<>>},
                    disturbed : BOOLEAN]
          /\ lua'.at = lua.at /\ lua'.current = <<>> /\ lua'.disturbed = lua.disturbed
          /\ lua'.todo = lua.todo
      BY <1>0, <2>1 DEF ApiTypes
    <2>3. lua.at # "idle"
      BY <1>0, <2>1 DEF HandlerShape, Idle
    <2>4. CASE lua.at # "clear"
      <3>1. HandlerShape' /\ ClearCovers'
        BY <1>0, <2>2, <2>3, <2>4 DEF HandlerShape, ClearCovers
      <3> QED BY <2>1, <2>2, <2>4, <3>1, TableAlone
    <2>5. CASE lua.at = "clear"
      <3>1. /\ DOMAIN pendingRequests' = DOMAIN pendingRequests \ {current}
            /\ pendingRequests' \in [DOMAIN pendingRequests' -> Texts]
        BY <1>0, <2>1, <2>5 DEF Without, Restrict, ApiTypes
      <3>2. ApiTypes' /\ Accepted'
        BY <1>0, <2>1, <2>2, <3>1 DEF ApiTypes, Accepted
      <3>3. HandlerShape' /\ ClearCovers' /\ Counted' /\ NoTextBlocked'
        BY <1>0, <2>1, <2>2, <2>5, <3>1 DEF HandlerShape, ClearCovers, Counted, NoTextBlocked
      <3>4. Called'
        <4>1. ASSUME NEW r \in RequestIds PROVE CalledBack(r)' <=> CalledBack(r)
          BY <1>0, <2>1, <2>2, <2>5, <3>1, <4>1, NoRequest DEF CalledBack, HandlerShape
        <4> QED BY <1>0, <2>1, <4>1 DEF Called
      <3> QED BY <3>2, <3>3, <3>4 DEF ApiInv
    <2> QED BY <2>4, <2>5
  <1> QED BY <1>1, <1>2, <1>3, <1>4, <1>5, <1>6, <1>7, <1>8 DEF HandlerStep

LEMMA ApiInvStep == ApiInv /\ [Next]_vars => ApiInv'
  <1> SUFFICES ASSUME ApiInv, [Next]_vars PROVE ApiInv'
    OBVIOUS
  <1>0. ApiTypes /\ HandlerShape /\ ClearCovers
    BY DEF ApiInv
  <1>1. CASE UNCHANGED <<dllVars, pendingRequests, pendingTexts, requestCounter, pollingActive,
                         activePendingCount, lua, calls, disturbedClear>>
    BY <1>0, <1>1, TableAlone DEF dllVars, HandlerShape, ClearCovers, ApiTypes
  <1>2. ASSUME NEW text \in Texts, Translate(text) PROVE ApiInv'
    BY <1>2, QueuedKeeps, RefusedKeeps DEF Translate, Pairs, Refused
  <1>3. ASSUME NEW text \in Texts, TranslateOutgoing(text) PROVE ApiInv'
    BY <1>3, QueuedKeeps, RefusedKeeps DEF TranslateOutgoing, Pairs, Refused
  <1>4. CASE PollTick
    <2>1. /\ lua' = [lua EXCEPT !.at = "drain"] /\ lua = Idle
          /\ UNCHANGED <<apiVars, calls, disturbedClear, decided>>
      BY <1>0, <1>4 DEF PollTick, Handling, HandlerShape, Dll!Deliver
    <2>2. /\ lua' \in [at : Handlers, todo : SUBSET RequestIds, current : RequestIds \cup {<<>>},
                       disturbed : BOOLEAN]
          /\ lua'.at = "drain" /\ ~lua'.disturbed
      BY <2>1 DEF Idle, Handlers
    <2>3. HandlerShape' /\ ClearCovers'
      BY <2>2 DEF HandlerShape, ClearCovers
    <2> QED BY <2>1, <2>2, <2>3, TableAlone DEF apiVars, Idle
  <1>5. CASE StartClear
    <2>1. /\ lua' = [lua EXCEPT !.at = "clear", !.todo = DOMAIN pendingRequests] /\ lua = Idle
          /\ UNCHANGED <<apiVars, calls, disturbedClear, decided>>
      BY <1>0, <1>5 DEF StartClear, Handling, HandlerShape, dllVars
    <2>2. DOMAIN pendingRequests \subseteq RequestIds
      BY DEF ApiInv, ApiTypes, Accepted
    <2>3. /\ lua' \in [at : Handlers, todo : SUBSET RequestIds, current : RequestIds \cup {<<>>},
                       disturbed : BOOLEAN]
          /\ lua'.at = "clear" /\ ~lua'.disturbed /\ lua'.current = <<>>
          /\ lua'.todo = DOMAIN pendingRequests
      BY <2>1, <2>2 DEF Idle, Handlers
    <2>4. HandlerShape' /\ ClearCovers'
      BY <2>1, <2>3 DEF HandlerShape, ClearCovers, apiVars
    <2> QED BY <2>1, <2>3, <2>4, TableAlone DEF apiVars, Idle
  <1>6. CASE WorkerGone
    <2>1. UNCHANGED <<apiVars, lua, calls, disturbedClear, decided>>
      BY <1>6 DEF WorkerGone, Dll!Close
    <2>2. HandlerShape' /\ ClearCovers'
      BY <1>0, <2>1 DEF HandlerShape, ClearCovers, apiVars
    <2> QED BY <1>0, <2>1, <2>2, TableAlone DEF apiVars, ApiTypes
  <1>7. CASE CheckDLL \/ TimePasses \/ UNCHANGED vars
    BY <1>1, <1>7 DEF CheckDLL, TimePasses, vars, apiVars
  <1> QED BY <1>2, <1>3, <1>4, <1>5, <1>6, <1>7, HandlerStepKeeps DEF Next

-----------------------------------------------------------------------------
(* The messages held back.                                                 *)

(* A message that is held has been given to the DLL and not been sent.     *)
HeldOrSent ==
  /\ outgoingQueue \subseteq {id \in decided : id[1] = "out"}
  /\ sent \in [RequestIds -> Nat]
  /\ \A id \in RequestIds : id \notin decided => sent[id] = 0

OutgoingInv == ApiInv /\ HeldOrSent /\ SentOnce

(* Every step of the composition is one of the bookkeeping or leaves it    *)
(* alone.                                                                  *)
LEMMA OutgoingStepIsApiStep == [OutgoingNext]_allVars => [Next]_vars
  BY DEF OutgoingNext, HookedSendChatMessage, Handle, Cleanup, CleanupOutgoingQueue, Next,
         allVars, outgoingVars

(* The DLL hears of a request only where one is made.                      *)
LEMMA HandlerDecidesNothing == HandlerStep \/ PollTick \/ StartClear \/ CheckDLL \/ TimePasses
                               \/ WorkerGone => decided' = decided
  BY DEF HandlerStep, HandlePollRecord, HandleLateRecord, StartSweep, EndSweep, EndClear,
         CallbackReturns, SweepOne, ClearOne, PollTick, StartClear, CheckDLL, TimePasses,
         WorkerGone, dllVars, Dll!Deliver, Dll!Close

LEMMA OutgoingInvInit == OutgoingInit => OutgoingInv
  <1> SUFFICES ASSUME OutgoingInit PROVE OutgoingInv
    OBVIOUS
  <1>1. decided = {} /\ outgoingQueue = {} /\ sent = [id \in RequestIds |-> 0]
    BY DEF OutgoingInit, Init, Dll!Init
  <1> QED BY <1>1, ApiInvInit DEF OutgoingInit, OutgoingInv, HeldOrSent, SentOnce

(* Messages that were held go out.                                         *)
LEMMA HeldGoOut ==
  ASSUME ApiTypes, HeldOrSent, SentOnce, NEW ids \in SUBSET outgoingQueue,
         outgoingQueue' = outgoingQueue \ ids, Sends(ids), decided' = decided
  PROVE  HeldOrSent' /\ SentOnce'
  <1>1. /\ outgoingQueue' \subseteq outgoingQueue /\ ids \subseteq RequestIds
        /\ \A id \in ids : id \in decided
    BY DEF HeldOrSent, ApiTypes
  <1>2. \A id \in RequestIds : sent'[id] = IF id \in ids THEN sent[id] + 1 ELSE sent[id]
    BY DEF Sends
  <1>3. sent' \in [RequestIds -> Nat]
    BY <1>2 DEF Sends, HeldOrSent
  <1>4. HeldOrSent'
    BY <1>1, <1>2, <1>3 DEF HeldOrSent
  <1>5. SentOnce'
    BY <1>1, <1>2 DEF SentOnce, HeldOrSent
  <1> QED BY <1>4, <1>5

LEMMA OutgoingInvStep == OutgoingInv /\ [OutgoingNext]_allVars => OutgoingInv'
  <1> SUFFICES ASSUME OutgoingInv, [OutgoingNext]_allVars PROVE OutgoingInv'
    OBVIOUS
  <1>0. ApiInv /\ ApiTypes /\ HeldOrSent /\ SentOnce
    BY DEF OutgoingInv, ApiInv
  <1>1. ApiInv'
    BY <1>0, ApiInvStep, OutgoingStepIsApiStep
  <1>2. CASE UNCHANGED <<decided, outgoingQueue, sent>>
    BY <1>0, <1>1, <1>2 DEF OutgoingInv, HeldOrSent, SentOnce
  <1>3. ASSUME NEW text \in Texts, Translate(text), UNCHANGED outgoingVars PROVE OutgoingInv'
    <2> DEFINE id == <<"in", requestCounter + 1>>
    <2>1. decided' = decided \cup {id} /\ id[1] = "in"
      BY <1>3 DEF Translate, Queued, Refused, Dll!Accept, Dll!Refuse
    <2> HIDE DEF id
    <2>2. HeldOrSent' /\ SentOnce'
      BY <1>0, <1>3, <2>1 DEF HeldOrSent, SentOnce, outgoingVars
    <2> QED BY <1>1, <2>2 DEF OutgoingInv
  <1>4. ASSUME NEW text \in Texts, HookedSendChatMessage(text) PROVE OutgoingInv'
    <2> DEFINE id == <<"out", requestCounter + 1>>
    <2>1. /\ decided' = decided \cup {id} /\ id[1] = "out"
          /\ \/ id \in DOMAIN pendingRequests'
                /\ outgoingQueue' = outgoingQueue \cup {id} /\ UNCHANGED sent
             \/ Sends({id}) /\ UNCHANGED outgoingQueue
      BY <1>4 DEF HookedSendChatMessage, TranslateOutgoing, Queued, Refused, Dll!Accept, Dll!Refuse
    <2>2. id \in RequestIds /\ id \notin decided
      BY <1>0, <1>4, NextIdIsNew DEF HookedSendChatMessage, TranslateOutgoing, Pairs
    <2> HIDE DEF id
    <2>3. id \notin outgoingQueue /\ sent[id] = 0
      BY <1>0, <2>2 DEF HeldOrSent
    <2>4. CASE outgoingQueue' = outgoingQueue \cup {id} /\ UNCHANGED sent
      <3>1. HeldOrSent' /\ SentOnce'
        BY <1>0, <2>1, <2>2, <2>3, <2>4 DEF HeldOrSent, SentOnce
      <3> QED BY <1>1, <3>1 DEF OutgoingInv
    <2>5. CASE Sends({id}) /\ UNCHANGED outgoingQueue
      <3>1. /\ sent' \in [RequestIds -> Nat]
            /\ \A r \in RequestIds : sent'[r] = IF r = id THEN sent[r] + 1 ELSE sent[r]
        BY <1>0, <2>5 DEF Sends, HeldOrSent
      <3>2. HeldOrSent' /\ SentOnce'
        BY <1>0, <2>1, <2>2, <2>3, <2>5, <3>1 DEF HeldOrSent, SentOnce
      <3> QED BY <1>1, <3>2 DEF OutgoingInv
    <2> QED BY <2>1, <2>4, <2>5
  <1>5. CASE Handle
    <2>1. decided' = decided
      BY <1>5, HandlerDecidesNothing DEF Handle
    <2>2. CASE UNCHANGED outgoingVars
      BY <1>2, <2>1, <2>2 DEF outgoingVars
    <2>3. CASE OutgoingCallback(lua'.current) /\ ~UNCHANGED outgoingVars
      <3>1. PICK id \in outgoingQueue : outgoingQueue' = outgoingQueue \ {id} /\ Sends({id})
        BY <2>3 DEF OutgoingCallback
      <3>2. {id} \in SUBSET outgoingQueue
        BY <3>1
      <3> QED BY <1>0, <1>1, <2>1, <3>1, <3>2, HeldGoOut DEF OutgoingInv
    <2> QED BY <1>5, <2>2, <2>3 DEF Handle
  <1>6. CASE Cleanup
    <2>1. PICK n \in 1 .. staleUpTo : CleanupOutgoingQueue(n)
      BY <1>6 DEF Cleanup
    <2> DEFINE timedOut == {id \in outgoingQueue : id[2] <= n}
    <2>2. /\ timedOut \in SUBSET outgoingQueue
          /\ outgoingQueue' = outgoingQueue \ timedOut /\ Sends(timedOut) /\ decided' = decided
      BY <2>1 DEF CleanupOutgoingQueue, vars, dllVars
    <2> HIDE DEF timedOut
    <2> QED BY <1>0, <1>1, <2>2, HeldGoOut DEF OutgoingInv
  <1>7. CASE (PollTick \/ StartClear \/ CheckDLL \/ TimePasses \/ WorkerGone)
             /\ UNCHANGED outgoingVars
    BY <1>2, <1>7, HandlerDecidesNothing DEF outgoingVars
  <1>8. CASE UNCHANGED allVars
    BY <1>2, <1>8 DEF allVars, vars, dllVars, outgoingVars
  <1> QED BY <1>3, <1>4, <1>5, <1>6, <1>7, <1>8 DEF OutgoingNext

LEMMA OutgoingInvHolds == OutgoingSpec => []OutgoingInv
  BY OutgoingInvInit, OutgoingInvStep, PTL DEF OutgoingSpec

-----------------------------------------------------------------------------
(* The results                                                             *)

(* Holding messages back adds nothing to what the bookkeeping does: its    *)
(* steps are steps of AddonApi, so what the other chat modules assume of   *)
(* AddonApi stays true under the hook on SendChatMessage.                  *)
THEOREM OutgoingKeepsToApi == OutgoingSpec => Init /\ [][Next]_vars
  BY OutgoingStepIsApiStep, PTL DEF OutgoingSpec, OutgoingInit

(* The count that gates the in-flight cap and the polling is the size of   *)
(* the table, and polling runs while there is an entry, until a callback   *)
(* that ClearPending runs makes another request.                           *)
THEOREM PollingTracksTable == OutgoingSpec => []CountTracksTable
  <1>1. ApiInv => CountTracksTable
    <2> SUFFICES ASSUME ApiInv, Handling("idle"), ~disturbedClear
                 PROVE  /\ activePendingCount = Cardinality(DOMAIN pendingRequests)
                        /\ pollingActive = (pendingRequests # <<>>)
      BY DEF CountTracksTable
    <2>1. /\ activePendingCount = Cardinality(DOMAIN pendingRequests)
          /\ pollingActive <=> DOMAIN pendingRequests # {}
      BY DEF ApiInv, Counted, Handling
    <2>2. pendingRequests = <<>> <=> DOMAIN pendingRequests = {}
      BY EmptyTable DEF ApiInv, ApiTypes
    <2>3. pollingActive \in BOOLEAN
      BY DEF ApiInv, ApiTypes
    <2> QED BY <2>1, <2>2, <2>3
  <1> QED BY <1>1, OutgoingInvHolds, PTL DEF OutgoingInv

(* A dedup entry belongs to a request pending for its text, so that no     *)
(* line is swallowed.                                                      *)
THEOREM DedupIsPending == OutgoingSpec => []NoTextBlocked
  <1>1. OutgoingInv => NoTextBlocked
    BY DEF OutgoingInv, ApiInv
  <1> QED BY <1>1, OutgoingInvHolds, PTL

(* A request's callback runs once, whichever of the answer, the timeout,   *)
(* the reset and the refusal comes for it.                                 *)
THEOREM EveryCallbackOnce == OutgoingSpec => []CallbackOnce
  <1>1. OutgoingInv => CallbackOnce
    BY DEF OutgoingInv, ApiInv, Called, CalledBack, CallbackOnce
  <1> QED BY <1>1, OutgoingInvHolds, PTL

(* What the player typed is held and not sent, or sent once.               *)
THEOREM TypedSentOnce == OutgoingSpec => []SentOnce
  <1>1. OutgoingInv => SentOnce
    BY DEF OutgoingInv
  <1> QED BY <1>1, OutgoingInvHolds, PTL

-----------------------------------------------------------------------------
(***************************************************************************)
(* The chat frame hook.  No line whose text is not cached is posted yet,   *)
(* and what the safety net has is held by a request that is in flight; a   *)
(* line leaves "resolving" only to be posted.                              *)
(***************************************************************************)
CONSTANTS TextOf, SenderOf, replaceMode, MayFail, Senders, ApiOutcomes

VARIABLES
  raised, event, targets, pendingMessages, overdue, inFlight, cache,
  pendingNameTranslations, nameRequests, nameRetryWaiters, nameCache

Chat == INSTANCE ChatFrames

(* A line of a frame.                                                      *)
Cell(m, f) == <<m, f>>

Cells == Messages \X Frames

(* A frame the message has not visited shows nothing of it.                *)
Unvisited ==
  /\ event.message \subseteq raised
  /\ \A m \in Messages, f \in Frames : m \notin raised \/ Chat!Visits(m, f) => line[m][f] = ""

(* Without replaceMode nothing is held back.                               *)
Plain == ~replaceMode => DOMAIN pendingMessages = {}

(* A translation is cached as it is posted: a text in flight has none, no  *)
(* line of a message that waits for one is posted, and the asker has been  *)
(* raised.                                                                 *)
Untranslated ==
  /\ DOMAIN inFlight \cap cache = {}
  /\ \A text \in DOMAIN inFlight :
       TextOf[inFlight[text].message] = text /\ inFlight[text].message \in raised
  /\ \A m \in Messages, f \in Frames :
       TextOf[m] \notin cache => line[m][f] \notin {"resolving", "translated"}

(* The safety net has one entry for a text: a line its request holds.      *)
Netted ==
  \A key \in DOMAIN pendingMessages :
    /\ key[2] \in DOMAIN inFlight /\ inFlight[key[2]].frame = key[1]
    /\ TextOf[pendingMessages[key]] = key[2]
    /\ line[pendingMessages[key]][key[1]] = "held"

(* A line that waits for a name has its translation, and waits for one     *)
(* name.                                                                   *)
Waiters ==
  \A n \in DOMAIN pendingNameTranslations, m \in Messages, f \in Frames :
    Cell(m, f) \in pendingNameTranslations[n] => line[m][f] = "resolving"

OneName ==
  \A n, k \in DOMAIN pendingNameTranslations :
    n # k => pendingNameTranslations[n] \cap pendingNameTranslations[k] = {}

(* Somebody will run finish() for every name that is waited for, and every *)
(* line whose translation is not shown yet waits for one.                  *)
NamesPursued == DOMAIN pendingNameTranslations \subseteq nameRequests \cup nameRetryWaiters

ResolvingWaits ==
  \A m \in Messages, f \in Frames : line[m][f] = "resolving" =>
    \E n \in DOMAIN pendingNameTranslations : Cell(m, f) \in pendingNameTranslations[n]

NamesInv == Waiters /\ OneName /\ NamesPursued /\ ResolvingWaits

ChatInv == Chat!TypeOK /\ Unvisited /\ Plain /\ Untranslated /\ Netted /\ NamesInv

Names ==
  /\ DOMAIN pendingNameTranslations \subseteq Senders
  /\ \A n \in DOMAIN pendingNameTranslations : pendingNameTranslations[n] \subseteq Cells

Lines == [Messages -> [Frames -> Chat!LineStates]]

Events == [message : SUBSET Messages, frames : SUBSET Frames]

(* What NoReappearance forbids of a step.                                  *)
LinesStay ==
  \A m \in Messages, f \in Frames :
    line[m][f] \in {"resolving", "translated"} => line'[m][f] \in {"resolving", "translated"}

(* The type invariant, entry by entry.                                     *)
TargetsOK ==
  DOMAIN targets \subseteq Chat!Texts /\ \A text \in DOMAIN targets : targets[text] \subseteq Frames

NetOK ==
  /\ DOMAIN pendingMessages \subseteq Frames \X Chat!Texts
  /\ \A key \in DOMAIN pendingMessages : pendingMessages[key] \in Messages
  /\ overdue \subseteq DOMAIN pendingMessages

RequestsOK ==
  /\ DOMAIN inFlight \subseteq Chat!Texts
  /\ \A text \in DOMAIN inFlight : inFlight[text] \in [frame : Frames, message : Messages]

LEMMA CellIsPair == \A l \in Cells : \E m \in Messages, f \in Frames : l = Cell(m, f)
  BY DEF Cell, Cells

(* What the types say of the tables' entries.                              *)
LEMMA Entries ==
  ASSUME Chat!TypeOK
  PROVE  /\ Names
         /\ \A text \in DOMAIN targets : text \in Chat!Texts /\ targets[text] \subseteq Frames
         /\ \A key \in DOMAIN pendingMessages :
              /\ key[1] \in Frames /\ key[2] \in Chat!Texts /\ key = <<key[1], key[2]>>
              /\ pendingMessages[key] \in Messages
         /\ \A text \in DOMAIN inFlight :
              inFlight[text].frame \in Frames /\ inFlight[text].message \in Messages
  BY DEF Chat!TypeOK, Names, Cells, Chat!Range

-----------------------------------------------------------------------------
(* Lines that are posted                                                   *)

LEMMA Becomes ==
  ASSUME Chat!TypeOK, NEW lines \in SUBSET Cells, NEW what \in Chat!LineStates, Chat!Become(lines, what)
  PROVE  /\ line' \in Lines
         /\ \A m \in Messages, f \in Frames :
              line'[m][f] = IF Cell(m, f) \in lines THEN what ELSE line[m][f]
  BY DEF Chat!TypeOK, Chat!Become, Lines, Chat!LineStates, Cell

(* Lines that can be posted, and what posting does.                        *)
Postable(lines) ==
  \A m \in Messages, f \in Frames : Cell(m, f) \in lines => line[m][f] \notin {"resolving", "translated"}

Post(lines) ==
  \A m \in Messages, f \in Frames :
    /\ Cell(m, f) \in lines => line'[m][f] \in {"resolving", "translated"}
    /\ Cell(m, f) \notin lines => line'[m][f] = line[m][f]

(* Lines nobody waits for yet are posted or wait for the sender's name,    *)
(* and then somebody will answer for it.                                   *)
LEMMA PostKeeps ==
  ASSUME Chat!TypeOK, NamesInv, NEW sender \in Senders, NEW lines \in SUBSET Cells,
         Postable(lines), Chat!ResolveNamesAndPost(sender, lines)
  PROVE  NamesInv' /\ Names' /\ line' \in Lines /\ Post(lines)
  <1>0. Names /\ Waiters /\ OneName /\ NamesPursued /\ ResolvingWaits
    BY Entries DEF NamesInv
  <1>n. \A n \in DOMAIN pendingNameTranslations, m \in Messages, f \in Frames :
          Cell(m, f) \in pendingNameTranslations[n] => Cell(m, f) \notin lines
    BY <1>0 DEF Waiters, Postable
  <1>1. CASE Chat!NameAtOnce(sender) /\ Chat!Become(lines, "translated")
    <2>1. /\ line' \in Lines
          /\ \A m \in Messages, f \in Frames :
              line'[m][f] = IF Cell(m, f) \in lines THEN "translated" ELSE line[m][f]
      <3>1. "translated" \in Chat!LineStates
        BY DEF Chat!LineStates
      <3> QED BY <1>1, <3>1, Becomes
    <2>2. /\ pendingNameTranslations' = pendingNameTranslations
          /\ nameRequests' = nameRequests /\ nameRetryWaiters \subseteq nameRetryWaiters'
      BY <1>1 DEF Chat!NameAtOnce, Chat!nameVars, Chat!WatchNameCache
    <2>3. Names' /\ NamesPursued'
      BY <1>0, <2>2 DEF Names, NamesPursued
    <2>4. Waiters'
      <3>1. \A n \in DOMAIN pendingNameTranslations, m \in Messages, f \in Frames :
              Cell(m, f) \in pendingNameTranslations[n] => line'[m][f] = line[m][f]
        BY <1>n, <2>1
      <3> QED BY <1>0, <2>2, <3>1 DEF Waiters
    <2>5. OneName'
      BY <1>0, <2>2 DEF OneName
    <2>6. ResolvingWaits'
      BY <1>0, <2>1, <2>2 DEF ResolvingWaits
    <2>7. Post(lines)
      BY <2>1 DEF Post
    <2> QED BY <2>1, <2>3, <2>4, <2>5, <2>6, <2>7 DEF NamesInv
  <1>2. CASE Chat!NameAwaited(sender, lines) /\ Chat!Become(lines, "resolving")
    <2> DEFINE old == IF sender \in DOMAIN pendingNameTranslations
                      THEN pendingNameTranslations[sender] ELSE {}
    <2>1. /\ line' \in Lines
          /\ \A m \in Messages, f \in Frames :
              line'[m][f] = IF Cell(m, f) \in lines THEN "resolving" ELSE line[m][f]
      <3>1. "resolving" \in Chat!LineStates
        BY DEF Chat!LineStates
      <3> QED BY <1>2, <3>1, Becomes
    <2>2. /\ DOMAIN pendingNameTranslations' = DOMAIN pendingNameTranslations \cup {sender}
          /\ pendingNameTranslations'[sender] = old \cup lines
          /\ \A n \in DOMAIN pendingNameTranslations :
               n # sender => pendingNameTranslations'[n] = pendingNameTranslations[n]
      <3>1. CASE sender \in DOMAIN pendingNameTranslations
        BY <1>2, <3>1 DEF Chat!NameAwaited
      <3>2. CASE sender \notin DOMAIN pendingNameTranslations
        <4>1. pendingNameTranslations' = Chat!With(pendingNameTranslations, sender, lines)
          BY <1>2, <3>2 DEF Chat!NameAwaited
        <4>2. old = {}
          BY <3>2
        <4> HIDE DEF old
        <4>3. old \cup lines = lines
          BY <4>2
        <4>4. /\ DOMAIN pendingNameTranslations' = DOMAIN pendingNameTranslations \cup {sender}
              /\ pendingNameTranslations'[sender] = lines
              /\ \A n \in DOMAIN pendingNameTranslations :
                   n # sender => pendingNameTranslations'[n] = pendingNameTranslations[n]
          BY <4>1 DEF Chat!With
        <4> QED BY <4>3, <4>4
      <3> QED BY <3>1, <3>2
    <2>3. /\ nameRequests \subseteq nameRequests' /\ nameRetryWaiters \subseteq nameRetryWaiters'
          /\ \/ sender \in DOMAIN pendingNameTranslations
             \/ sender \in nameRequests' \cup nameRetryWaiters'
      BY <1>2 DEF Chat!NameAwaited, Chat!WatchNameCache
    <2>4. \A n \in DOMAIN pendingNameTranslations' :
            /\ n \in DOMAIN pendingNameTranslations => pendingNameTranslations[n] \subseteq pendingNameTranslations'[n]
            /\ \A l \in pendingNameTranslations'[n] :
                 \/ n \in DOMAIN pendingNameTranslations /\ l \in pendingNameTranslations[n]
                 \/ n = sender /\ l \in lines
      BY <2>2
    <2>5. Names'
      BY <1>0, <2>2, <2>4 DEF Names
    <2>6. NamesPursued'
      BY <1>0, <2>2, <2>3 DEF NamesPursued
    <2>8. \A n \in DOMAIN pendingNameTranslations : pendingNameTranslations[n] \cap lines = {}
      BY <1>0, <1>n, CellIsPair DEF Names
    <2>9. Waiters'
      <3>1. ASSUME NEW n \in DOMAIN pendingNameTranslations', NEW m \in Messages, NEW f \in Frames,
                   Cell(m, f) \in pendingNameTranslations'[n]
            PROVE  line'[m][f] = "resolving"
        <4>1. CASE Cell(m, f) \in lines
          BY <2>1, <4>1
        <4>2. CASE Cell(m, f) \notin lines
          <5>1. n \in DOMAIN pendingNameTranslations /\ Cell(m, f) \in pendingNameTranslations[n]
            BY <2>4, <3>1, <4>2
          <5> QED BY <1>0, <2>1, <4>2, <5>1 DEF Waiters
        <4> QED BY <4>1, <4>2
      <3> QED BY <3>1 DEF Waiters
    <2>10. OneName'
      <3>1. ASSUME NEW n \in DOMAIN pendingNameTranslations',
                   NEW k \in DOMAIN pendingNameTranslations', n # k
            PROVE  pendingNameTranslations'[n] \cap pendingNameTranslations'[k] = {}
        BY <1>0, <2>4, <2>8, <3>1 DEF OneName
      <3> QED BY <3>1 DEF OneName
    <2>11. ResolvingWaits'
      <3> SUFFICES ASSUME NEW m \in Messages, NEW f \in Frames, line'[m][f] = "resolving"
                   PROVE  \E n \in DOMAIN pendingNameTranslations' : Cell(m, f) \in pendingNameTranslations'[n]
        BY DEF ResolvingWaits
      <3>1. CASE Cell(m, f) \in lines
        BY <2>2, <3>1
      <3>2. CASE Cell(m, f) \notin lines
        <4>1. line[m][f] = "resolving"
          BY <2>1, <3>2
        <4>2. PICK n \in DOMAIN pendingNameTranslations : Cell(m, f) \in pendingNameTranslations[n]
          BY <1>0, <4>1 DEF ResolvingWaits
        <4> QED BY <2>2, <2>4, <4>2
      <3> QED BY <3>1, <3>2
    <2>12. Post(lines)
      BY <2>1 DEF Post
    <2> QED BY <2>1, <2>5, <2>6, <2>9, <2>10, <2>11, <2>12 DEF NamesInv
  <1> QED BY <1>1, <1>2 DEF Chat!ResolveNamesAndPost

(* finish(): the lines that waited for some names are posted.              *)
LEMMA FinishKeeps ==
  ASSUME Chat!TypeOK, NamesInv, NEW names, Chat!Finish(names), Chat!Become(Chat!Waiting(names), "translated"),
         nameRequests \cup nameRetryWaiters \subseteq nameRequests' \cup nameRetryWaiters' \cup names
  PROVE  /\ NamesInv' /\ Names' /\ line' \in Lines
         /\ \A m \in Messages, f \in Frames :
              \/ line'[m][f] = line[m][f]
              \/ line[m][f] = "resolving" /\ line'[m][f] = "translated"
  <1>0. Names /\ Waiters /\ OneName /\ NamesPursued /\ ResolvingWaits
    BY Entries DEF NamesInv
  <1>1. /\ line' \in Lines
        /\ \A m \in Messages, f \in Frames :
            line'[m][f] = IF Cell(m, f) \in Chat!Waiting(names)
                          THEN "translated" ELSE line[m][f]
    <2>1. "translated" \in Chat!LineStates
      BY DEF Chat!LineStates
    <2>2. Chat!Waiting(names) \in SUBSET Cells
      BY <1>0 DEF Chat!Waiting, Names
    <2> QED BY <2>1, <2>2, Becomes
  <1>2. /\ DOMAIN pendingNameTranslations' = DOMAIN pendingNameTranslations \ names
        /\ \A n \in DOMAIN pendingNameTranslations' :
             pendingNameTranslations'[n] = pendingNameTranslations[n]
    BY DEF Chat!Finish, Chat!Restrict
  <1>3. \A l : l \in Chat!Waiting(names) <=>
          \E n \in DOMAIN pendingNameTranslations : n \in names /\ l \in pendingNameTranslations[n]
    BY DEF Chat!Waiting
  <1>4. Names' /\ NamesPursued'
    BY <1>0, <1>2 DEF Names, NamesPursued
  <1>5. \A m \in Messages, f \in Frames : Cell(m, f) \in Chat!Waiting(names) =>
          line[m][f] = "resolving"
    BY <1>0, <1>3 DEF Waiters
  <1>6. Waiters'
    <2>1. ASSUME NEW n \in DOMAIN pendingNameTranslations', NEW m \in Messages, NEW f \in Frames,
                 Cell(m, f) \in pendingNameTranslations'[n]
          PROVE  line'[m][f] = "resolving"
      <3>1. /\ n \in DOMAIN pendingNameTranslations /\ n \notin names
            /\ Cell(m, f) \in pendingNameTranslations[n]
        BY <1>2, <2>1
      <3>2. line[m][f] = "resolving"
        BY <1>0, <3>1 DEF Waiters
      <3>3. Cell(m, f) \notin Chat!Waiting(names)
        BY <1>0, <1>3, <3>1 DEF OneName
      <3> QED BY <1>1, <3>2, <3>3
    <2> QED BY <2>1 DEF Waiters
  <1>8. OneName'
    BY <1>0, <1>2 DEF OneName
  <1>7. ResolvingWaits'
    <2> SUFFICES ASSUME NEW m \in Messages, NEW f \in Frames, line'[m][f] = "resolving"
                 PROVE  \E n \in DOMAIN pendingNameTranslations' : Cell(m, f) \in pendingNameTranslations'[n]
      BY DEF ResolvingWaits
    <2>1. Cell(m, f) \notin Chat!Waiting(names) /\ line[m][f] = "resolving"
      BY <1>1
    <2>2. PICK n \in DOMAIN pendingNameTranslations : Cell(m, f) \in pendingNameTranslations[n]
      BY <1>0, <2>1 DEF ResolvingWaits
    <2> QED BY <1>2, <1>3, <2>1, <2>2
  <1>9. \A m \in Messages, f \in Frames :
          \/ line'[m][f] = line[m][f]
          \/ line[m][f] = "resolving" /\ line'[m][f] = "translated"
    BY <1>1, <1>5
  <1> QED BY <1>1, <1>4, <1>6, <1>7, <1>8, <1>9 DEF NamesInv

-----------------------------------------------------------------------------
(* What several actions have in common                                     *)

LEMMA TypesAre ==
  ASSUME Chat!TypeOK
  PROVE  /\ raised \subseteq Messages /\ event \in Events /\ line \in Lines
         /\ TargetsOK /\ NetOK /\ RequestsOK /\ cache \subseteq Chat!Texts /\ Names
  BY DEF Chat!TypeOK, Events, Lines, TargetsOK, NetOK, RequestsOK, Names, Cells, Chat!Range

LEMMA TypesStep ==
  ASSUME raised' \subseteq Messages, event' \in Events, line' \in Lines,
         TargetsOK', NetOK', RequestsOK', cache' \subseteq Chat!Texts, Names'
  PROVE  Chat!TypeOK'
  BY DEF Chat!TypeOK, Events, Lines, TargetsOK, NetOK, RequestsOK, Names, Cells, Chat!Range

LEMMA TextsAre == \A m \in Messages : TextOf[m] \in Chat!Texts
  BY DEF Chat!Texts

(* One line of one frame changes.                                          *)
LEMMA Shown ==
  ASSUME Chat!TypeOK, NEW m \in Messages, NEW f \in Frames, NEW what \in Chat!LineStates, Chat!Show(m, f, what)
  PROVE  /\ line' \in Lines /\ line'[m][f] = what
         /\ \A k \in Messages, g \in Frames : k # m \/ g # f => line'[k][g] = line[k][g]
  BY DEF Chat!TypeOK, Lines, Chat!Show

(* A visit finds nothing of its message in the frame.                      *)
LEMMA VisitFresh ==
  ASSUME ChatInv, NEW m \in Messages, NEW f \in Frames, Chat!Visits(m, f), Chat!VisitDone(f),
         raised' = raised, line' \in Lines,
         \A k \in Messages, g \in Frames : k # m \/ g # f => line'[k][g] = line[k][g]
  PROVE  /\ line[m][f] = "" /\ Unvisited' /\ event' \in Events /\ LinesStay
         /\ \A key \in DOMAIN pendingMessages : line'[pendingMessages[key]][key[1]] = "held"
  <1>1. Chat!TypeOK /\ Unvisited /\ Netted
    BY DEF ChatInv
  <1>2. line[m][f] = "" /\ m \in raised
    BY <1>1 DEF Unvisited, Chat!Visits
  <1>3. event' \in Events /\ event'.message \subseteq event.message
        /\ event'.frames \subseteq event.frames
        /\ \A g \in event'.frames : g # f
    BY <1>1 DEF Chat!VisitDone, Chat!NoEvent, Chat!TypeOK, Events
  <1>4. Unvisited'
    <2>1. ASSUME NEW k \in Messages, NEW g \in Frames, k \notin raised' \/ Chat!Visits(k, g)'
          PROVE  line'[k][g] = ""
      <3>1. k # m \/ g # f
        BY <1>2, <1>3, <2>1 DEF Chat!Visits
      <3>2. k \notin raised \/ Chat!Visits(k, g)
        BY <1>3, <2>1 DEF Chat!Visits
      <3> QED BY <1>1, <3>1, <3>2 DEF Unvisited
    <2> QED BY <1>1, <1>3, <2>1 DEF Unvisited
  <1>5. LinesStay
    BY <1>2 DEF LinesStay
  <1>6. ASSUME NEW key \in DOMAIN pendingMessages
        PROVE  line'[pendingMessages[key]][key[1]] = "held"
    BY <1>1, <1>2, Entries DEF Netted
  <1> QED BY <1>2, <1>3, <1>4, <1>5, <1>6

(* Lines that are held back or shown touch no name.                        *)
LEMMA NamesUntouched ==
  ASSUME Chat!TypeOK, NamesInv, UNCHANGED Chat!nameVars,
         \A m \in Messages, f \in Frames :
           \/ line'[m][f] = line[m][f]
           \/ line[m][f] # "resolving" /\ line'[m][f] # "resolving"
  PROVE  NamesInv' /\ Names'
  <1>0. Names /\ Waiters /\ OneName /\ NamesPursued /\ ResolvingWaits
    BY Entries DEF NamesInv
  <1>1. /\ pendingNameTranslations' = pendingNameTranslations
        /\ nameRequests' = nameRequests /\ nameRetryWaiters' = nameRetryWaiters
    BY DEF Chat!nameVars
  <1>2. Names' /\ OneName' /\ NamesPursued'
    BY <1>0, <1>1 DEF Names, OneName, NamesPursued
  <1>3. Waiters'
    <2>1. ASSUME NEW n \in DOMAIN pendingNameTranslations, NEW m \in Messages, NEW f \in Frames,
                 Cell(m, f) \in pendingNameTranslations[n]
          PROVE  line'[m][f] = "resolving"
      BY <1>0, <2>1 DEF Waiters
    <2> QED BY <1>1, <2>1 DEF Waiters
  <1>4. ResolvingWaits'
    <2>1. ASSUME NEW m \in Messages, NEW f \in Frames, line'[m][f] = "resolving"
          PROVE  line[m][f] = "resolving"
      BY <2>1
    <2> QED BY <1>0, <1>1, <2>1 DEF ResolvingWaits
  <1> QED BY <1>2, <1>3, <1>4 DEF NamesInv

-----------------------------------------------------------------------------
(* The visits                                                              *)

LEMMA HeldIs ==
  Chat!Held \in {"held", "original"} /\ (~replaceMode => Chat!Held = "original") /\ (replaceMode => Chat!Held = "held")
  BY DEF Chat!Held

LEMMA RaiseKeeps ==
  ASSUME ChatInv, NEW m \in Messages, Chat!Raise(m)
  PROVE  ChatInv' /\ LinesStay
  <1>1. Chat!TypeOK /\ Unvisited /\ Plain /\ Untranslated /\ Netted /\ NamesInv
    BY DEF ChatInv
  <1>2. /\ m \notin raised /\ raised' = raised \cup {m} /\ event' = [message |-> {m}, frames |-> Frames]
        /\ line' = line /\ targets' = targets /\ pendingMessages' = pendingMessages
        /\ overdue' = overdue /\ inFlight' = inFlight /\ cache' = cache /\ UNCHANGED Chat!nameVars
    BY DEF Chat!Raise
  <1>3. NamesInv' /\ Names'
    <2>1. \A k \in Messages, g \in Frames : line'[k][g] = line[k][g]
      BY <1>2
    <2> QED BY <1>1, <1>2, <2>1, NamesUntouched
  <1>4. Chat!TypeOK'
    <2>1. event' \in Events
      BY <1>2 DEF Events
    <2> QED BY <1>1, <1>2, <1>3, <2>1, TypesAre, TypesStep DEF TargetsOK, NetOK, RequestsOK
  <1>5. Unvisited'
    BY <1>1, <1>2 DEF Unvisited, Chat!Visits
  <1>6. Plain' /\ Netted'
    BY <1>1, <1>2 DEF Plain, Netted
  <1>7. Untranslated'
    BY <1>1, <1>2 DEF Untranslated
  <1>8. LinesStay
    BY <1>2 DEF LinesStay
  <1> QED BY <1>3, <1>4, <1>5, <1>6, <1>7, <1>8 DEF ChatInv

(* A visit that leaves the safety net alone and gives the frame a line     *)
(* that is not posted.                                                     *)
LEMMA VisitKeeps ==
  ASSUME ChatInv, NEW m \in Messages, NEW f \in Frames, Chat!Visits(m, f), Chat!VisitDone(f),
         line' \in Lines, line'[m][f] \in {"", Chat!Held, "original"},
         \A k \in Messages, g \in Frames : k # m \/ g # f => line'[k][g] = line[k][g],
         TargetsOK',
         UNCHANGED <<raised, pendingMessages, overdue, inFlight, cache, Chat!nameVars>>
  PROVE  ChatInv' /\ LinesStay
  <1>1. Chat!TypeOK /\ Unvisited /\ Plain /\ Untranslated /\ Netted /\ NamesInv
    BY DEF ChatInv
  <1>2. /\ line[m][f] = "" /\ Unvisited' /\ event' \in Events /\ LinesStay
        /\ \A key \in DOMAIN pendingMessages : line'[pendingMessages[key]][key[1]] = "held"
    BY VisitFresh
  <1>3. NamesInv' /\ Names'
    <2>1. line'[m][f] # "resolving"
      BY HeldIs
    <2>2. \A k \in Messages, g \in Frames :
            \/ line'[k][g] = line[k][g]
            \/ line[k][g] # "resolving" /\ line'[k][g] # "resolving"
      BY <1>2, <2>1
    <2> QED BY <1>1, <2>2, NamesUntouched
  <1>4. Chat!TypeOK'
    BY <1>1, <1>2, <1>3, TypesAre, TypesStep DEF NetOK, RequestsOK
  <1>5. Plain'
    BY <1>1 DEF Plain
  <1>6. Untranslated'
    <2>1. line'[m][f] \notin {"resolving", "translated"}
      BY HeldIs
    <2> QED BY <1>1, <2>1 DEF Untranslated
  <1>7. Netted'
    BY <1>1, <1>2 DEF Netted
  <1> QED BY <1>2, <1>3, <1>4, <1>5, <1>6, <1>7 DEF ChatInv

LEMMA FilteredKeeps ==
  ASSUME ChatInv, NEW m \in Messages, NEW f \in Frames, Chat!Filtered(m, f)
  PROVE  ChatInv' /\ LinesStay
  <1>1. Chat!TypeOK /\ Unvisited
    BY DEF ChatInv
  <1>2. line' \in Lines /\ line'[m][f] = "" /\ TargetsOK'
    BY <1>1, TypesAre DEF Chat!Filtered, Unvisited, TargetsOK
  <1> QED BY <1>2, VisitKeeps DEF Chat!Filtered

LEMMA FlushOriginalKeeps ==
  ASSUME ChatInv, NEW m \in Messages, NEW f \in Frames, Chat!FlushOriginal(m, f)
  PROVE  ChatInv' /\ LinesStay
  <1>1. Chat!TypeOK
    BY DEF ChatInv
  <1>2. "original" \in Chat!LineStates
    BY DEF Chat!LineStates
  <1>3. /\ line' \in Lines /\ line'[m][f] = "original"
        /\ \A k \in Messages, g \in Frames : k # m \/ g # f => line'[k][g] = line[k][g]
    BY <1>1, <1>2, Shown DEF Chat!FlushOriginal
  <1>4. TargetsOK'
    BY <1>1, TypesAre DEF Chat!FlushOriginal, TargetsOK
  <1> QED BY <1>3, <1>4, VisitKeeps DEF Chat!FlushOriginal

LEMMA RegisterKeeps ==
  ASSUME Chat!TypeOK, NEW m \in Messages, NEW f \in Frames, Chat!Register(m, f)
  PROVE  TargetsOK'
  <1> DEFINE frames == IF TextOf[m] \in DOMAIN targets THEN targets[TextOf[m]] \cup {f} ELSE {f}
  <1>1. frames \subseteq Frames /\ TargetsOK /\ TextOf[m] \in Chat!Texts
    BY TypesAre, TextsAre DEF TargetsOK
  <1>2. targets' = Chat!With(targets, TextOf[m], frames)
    BY DEF Chat!Register
  <1> HIDE DEF frames
  <1>3. /\ DOMAIN targets' = DOMAIN targets \cup {TextOf[m]} /\ targets'[TextOf[m]] = frames
        /\ \A text \in DOMAIN targets : text # TextOf[m] => targets'[text] = targets[text]
    BY <1>2 DEF Chat!With
  <1> QED BY <1>1, <1>3 DEF TargetsOK

LEMMA UnregisterKeeps ==
  ASSUME Chat!TypeOK, NEW text, targets' = Chat!Without(targets, text)
  PROVE  TargetsOK'
  <1>1. DOMAIN targets' = DOMAIN targets \ {text}
        /\ \A k \in DOMAIN targets : k # text => targets'[k] = targets[k]
    BY DEF Chat!Without, Chat!Restrict
  <1> QED BY <1>1, TypesAre DEF TargetsOK

LEMMA FlushUnavailableKeeps ==
  ASSUME ChatInv, NEW m \in Messages, NEW f \in Frames, Chat!FlushUnavailable(m, f)
  PROVE  ChatInv' /\ LinesStay
  <1>1. Chat!TypeOK
    BY DEF ChatInv
  <1>2. Chat!Visits(m, f) /\ Chat!VisitDone(f) /\ Chat!Show(m, f, "original") /\ Chat!Register(m, f)
        /\ UNCHANGED <<raised, pendingMessages, overdue, inFlight, cache, Chat!nameVars>>
    BY DEF Chat!FlushUnavailable
  <1>3. "original" \in Chat!LineStates
    BY DEF Chat!LineStates
  <1>4. /\ line' \in Lines /\ line'[m][f] = "original"
        /\ \A k \in Messages, g \in Frames : k # m \/ g # f => line'[k][g] = line[k][g]
    BY <1>1, <1>2, <1>3, Shown
  <1> QED BY <1>1, <1>2, <1>4, RegisterKeeps, VisitKeeps

LEMMA AskShows ==
  ASSUME Chat!TypeOK, NEW m \in Messages, NEW f \in Frames, Chat!Show(m, f, Chat!Held)
  PROVE  /\ line' \in Lines /\ line'[m][f] = Chat!Held
         /\ \A k \in Messages, g \in Frames : k # m \/ g # f => line'[k][g] = line[k][g]
  <1>1. Chat!Held \in Chat!LineStates
    BY HeldIs DEF Chat!LineStates
  <1> QED BY <1>1, Shown

LEMMA AskSkippedKeeps ==
  ASSUME ChatInv, NEW m \in Messages, NEW f \in Frames, Chat!AskSkipped(m, f)
  PROVE  ChatInv' /\ LinesStay
  <1>1. Chat!TypeOK
    BY DEF ChatInv
  <1>2. Chat!Visits(m, f) /\ Chat!VisitDone(f) /\ Chat!Show(m, f, Chat!Held) /\ Chat!Register(m, f)
        /\ UNCHANGED <<raised, pendingMessages, overdue, inFlight, cache, Chat!nameVars>>
    BY DEF Chat!AskSkipped
  <1> QED BY <1>1, <1>2, AskShows, RegisterKeeps, VisitKeeps

LEMMA AskRefusedKeeps ==
  ASSUME ChatInv, NEW m \in Messages, NEW f \in Frames, Chat!AskRefused(m, f)
  PROVE  ChatInv' /\ LinesStay
  <1>1. Chat!TypeOK
    BY DEF ChatInv
  <1>2. Chat!Visits(m, f) /\ Chat!VisitDone(f) /\ Chat!Show(m, f, Chat!Held) /\ targets' = Chat!Without(targets, TextOf[m])
        /\ UNCHANGED <<raised, pendingMessages, overdue, inFlight, cache, Chat!nameVars>>
    BY DEF Chat!AskRefused
  <1>3. TargetsOK'
    BY <1>1, <1>2, UnregisterKeeps
  <1> QED BY <1>1, <1>2, <1>3, AskShows, VisitKeeps

LEMMA AskQueuedKeeps ==
  ASSUME Chat!ChatAssumption, ChatInv, NEW m \in Messages, NEW f \in Frames, Chat!AskQueued(m, f)
  PROVE  ChatInv' /\ LinesStay
  <1> DEFINE text == TextOf[m]
             key == <<f, text>>
             request == [frame |-> f, message |-> m]
  <1>1. Chat!TypeOK /\ Unvisited /\ Plain /\ Untranslated /\ Netted /\ NamesInv
    BY DEF ChatInv
  <1>2. /\ Chat!Visits(m, f) /\ Chat!VisitDone(f) /\ Chat!Show(m, f, Chat!Held) /\ Chat!Register(m, f)
        /\ text \notin cache \cup DOMAIN inFlight /\ inFlight' = Chat!With(inFlight, text, request)
        /\ pendingMessages' = IF replaceMode THEN Chat!With(pendingMessages, key, m) ELSE pendingMessages
        /\ overdue' = overdue \ {key}
        /\ raised' = raised /\ cache' = cache /\ UNCHANGED Chat!nameVars
    BY DEF Chat!AskQueued
  <1>3. /\ line' \in Lines /\ line'[m][f] = Chat!Held
        /\ \A k \in Messages, g \in Frames : k # m \/ g # f => line'[k][g] = line[k][g]
    BY <1>1, <1>2, AskShows
  <1>4. /\ line[m][f] = "" /\ Unvisited' /\ event' \in Events /\ LinesStay
        /\ \A k \in DOMAIN pendingMessages : line'[pendingMessages[k]][k[1]] = "held"
    BY <1>2, <1>3, VisitFresh
  <1>5. NamesInv' /\ Names'
    <2>1. \A k \in Messages, g \in Frames :
            \/ line'[k][g] = line[k][g]
            \/ line[k][g] # "resolving" /\ line'[k][g] # "resolving"
      BY <1>3, <1>4, HeldIs
    <2> QED BY <1>1, <1>2, <2>1, NamesUntouched
  <1>6. text \in Chat!Texts /\ key \in Frames \X Chat!Texts /\ key[1] = f /\ key[2] = text
    BY TextsAre
  <1>7. request \in [frame : Frames, message : Messages] /\ request.frame = f /\ request.message = m
    BY DEF request
  <1> HIDE DEF text, key, request
  <1>8. /\ DOMAIN inFlight' = DOMAIN inFlight \cup {text} /\ inFlight'[text] = request
        /\ \A t \in DOMAIN inFlight : t # text => inFlight'[t] = inFlight[t]
    BY <1>2 DEF Chat!With
  <1>9. RequestsOK'
    BY <1>1, <1>6, <1>7, <1>8, TypesAre DEF RequestsOK
  <1>10. TargetsOK'
    BY <1>1, <1>2, RegisterKeeps
  <1>11. Untranslated'
    <2>1. line'[m][f] \notin {"resolving", "translated"}
      BY <1>3, HeldIs
    <2>2. \A k \in Messages, g \in Frames :
            TextOf[k] \notin cache' => line'[k][g] \notin {"resolving", "translated"}
      BY <1>1, <1>2, <1>3, <2>1 DEF Untranslated
    <2>3. m \in raised
      BY <1>1, <1>2 DEF Unvisited, Chat!Visits
    <2>4. TextOf[m] = text
      BY DEF text
    <2>5. \A t \in DOMAIN inFlight' :
            TextOf[inFlight'[t].message] = t /\ inFlight'[t].message \in raised'
      <3> SUFFICES ASSUME NEW t \in DOMAIN inFlight'
                   PROVE  TextOf[inFlight'[t].message] = t /\ inFlight'[t].message \in raised'
        OBVIOUS
      <3>1. CASE t = text
        BY <1>2, <1>7, <1>8, <2>3, <2>4, <3>1
      <3>2. CASE t # text
        BY <1>1, <1>2, <1>8, <3>2 DEF Untranslated
      <3> QED BY <3>1, <3>2
    <2> QED BY <1>1, <1>2, <1>8, <2>2, <2>5 DEF Untranslated
  <1>12. CASE replaceMode
    <2>1. /\ DOMAIN pendingMessages' = DOMAIN pendingMessages \cup {key}
          /\ pendingMessages'[key] = m
          /\ \A k \in DOMAIN pendingMessages : k # key => pendingMessages'[k] = pendingMessages[k]
      BY <1>2, <1>12 DEF Chat!With
    <2>2. NetOK'
      BY <1>1, <1>2, <1>6, <2>1, TypesAre DEF NetOK
    <2>3. Chat!TypeOK'
      BY <1>1, <1>2, <1>3, <1>4, <1>5, <1>9, <1>10, <2>2, TypesAre, TypesStep
    <2>4. Plain'
      BY <1>12 DEF Plain
    <2>5. Netted'
      <3> SUFFICES ASSUME NEW k \in DOMAIN pendingMessages'
                   PROVE  /\ k[2] \in DOMAIN inFlight' /\ inFlight'[k[2]].frame = k[1]
                          /\ TextOf[pendingMessages'[k]] = k[2]
                          /\ line'[pendingMessages'[k]][k[1]] = "held"
        BY DEF Netted
      <3>1. CASE k = key
        BY <1>3, <1>6, <1>7, <1>8, <1>12, <2>1, <3>1, HeldIs DEF text
      <3>2. CASE k # key
        <4>1. /\ k \in DOMAIN pendingMessages /\ pendingMessages'[k] = pendingMessages[k]
              /\ k[2] \in DOMAIN inFlight /\ inFlight[k[2]].frame = k[1]
              /\ TextOf[pendingMessages[k]] = k[2]
          BY <1>1, <2>1, <3>2 DEF Netted
        <4>2. k[2] # text
          BY <1>2, <4>1
        <4> QED BY <1>4, <1>8, <4>1, <4>2
      <3> QED BY <3>1, <3>2
    <2> QED BY <1>4, <1>5, <1>11, <2>3, <2>4, <2>5 DEF ChatInv
  <1>13. CASE ~replaceMode
    <2>1. pendingMessages' = pendingMessages /\ DOMAIN pendingMessages = {}
      BY <1>1, <1>2, <1>13 DEF Plain
    <2>2. NetOK'
      BY <1>1, <1>2, <2>1, TypesAre DEF NetOK
    <2>3. Chat!TypeOK'
      BY <1>1, <1>2, <1>3, <1>4, <1>5, <1>9, <1>10, <2>2, TypesAre, TypesStep
    <2>4. Plain'
      BY <2>1 DEF Plain
    <2>5. Netted'
      BY <2>1 DEF Netted
    <2> QED BY <1>4, <1>5, <1>11, <2>3, <2>4, <2>5 DEF ChatInv
  <1> QED BY <1>12, <1>13

LEMMA PostCachedKeeps ==
  ASSUME Chat!ChatAssumption, ChatInv, NEW m \in Messages, NEW f \in Frames, Chat!PostCached(m, f)
  PROVE  ChatInv' /\ LinesStay
  <1>1. Chat!TypeOK /\ Unvisited /\ Plain /\ Untranslated /\ Netted /\ NamesInv
    BY DEF ChatInv
  <1>2. /\ Chat!Visits(m, f) /\ Chat!VisitDone(f) /\ TextOf[m] \in cache
        /\ Chat!ResolveNamesAndPost(SenderOf[m], {Cell(m, f)})
        /\ targets' = Chat!Without(targets, TextOf[m])
        /\ raised' = raised /\ pendingMessages' = pendingMessages /\ overdue' = overdue
        /\ inFlight' = inFlight /\ cache' = cache
    BY DEF Chat!PostCached, Cell
  <1>3. /\ {Cell(m, f)} \in SUBSET Cells /\ SenderOf[m] \in Senders
        /\ \A k \in Messages, g \in Frames : Cell(k, g) \in {Cell(m, f)} <=> k = m /\ g = f
    BY DEF Chat!ChatAssumption, Cell, Cells
  <1>4. line[m][f] = ""
    BY <1>1, <1>2 DEF Unvisited
  <1>5. NamesInv' /\ Names' /\ line' \in Lines /\ Post({Cell(m, f)})
    <2>1. Postable({Cell(m, f)})
      BY <1>3, <1>4 DEF Postable
    <2> QED BY <1>1, <1>2, <1>3, <2>1, PostKeeps
  <1>6. \A k \in Messages, g \in Frames : k # m \/ g # f => line'[k][g] = line[k][g]
    BY <1>3, <1>5 DEF Post
  <1>7. /\ Unvisited' /\ event' \in Events /\ LinesStay
        /\ \A k \in DOMAIN pendingMessages : line'[pendingMessages[k]][k[1]] = "held"
    BY <1>2, <1>5, <1>6, VisitFresh
  <1>8. Chat!TypeOK'
    <2>1. TargetsOK'
      BY <1>1, <1>2, UnregisterKeeps
    <2> QED BY <1>1, <1>2, <1>5, <1>7, <2>1, TypesAre, TypesStep DEF NetOK, RequestsOK
  <1>9. Plain' /\ Untranslated'
    BY <1>1, <1>2, <1>6 DEF Plain, Untranslated
  <1>10. Netted'
    BY <1>1, <1>2, <1>7 DEF Netted
  <1> QED BY <1>5, <1>7, <1>8, <1>9, <1>10 DEF ChatInv

-----------------------------------------------------------------------------
(* The answers                                                             *)

(* The lines an answer posts are of the message that asked, and none of    *)
(* them is posted yet.                                                     *)
LEMMA AskersLinesAre ==
  ASSUME Chat!TypeOK, Untranslated, NEW text \in DOMAIN inFlight
  PROVE  /\ Chat!AskersLines(text) \in SUBSET Cells /\ Postable(Chat!AskersLines(text))
         /\ \A m \in Messages, f \in Frames :
              Cell(m, f) \in Chat!AskersLines(text) => TextOf[m] = text /\ m \in raised
  <1> DEFINE frames == IF text \in DOMAIN targets THEN targets[text] ELSE {}
             asker == inFlight[text].message
  <1>1. frames \subseteq Frames /\ asker \in Messages
    BY Entries
  <1>2. TextOf[asker] = text /\ asker \in raised /\ text \notin cache
    BY DEF Untranslated
  <1>3. Chat!AskersLines(text) = {asker} \X frames
    BY DEF Chat!AskersLines
  <1> HIDE DEF frames, asker
  <1>4. \A m \in Messages, f \in Frames : Cell(m, f) \in Chat!AskersLines(text) => m = asker
    BY <1>3 DEF Cell
  <1>5. Chat!AskersLines(text) \in SUBSET Cells
    BY <1>1, <1>3 DEF Cells
  <1>6. Postable(Chat!AskersLines(text))
    BY <1>2, <1>4 DEF Postable, Untranslated
  <1> QED BY <1>2, <1>4, <1>5, <1>6

(* The entries of a text in the safety net: the callback's own.            *)
LEMMA NetOfText ==
  ASSUME Chat!TypeOK, Netted, NEW text \in DOMAIN inFlight, NEW key \in DOMAIN pendingMessages,
         key # Chat!KeyOfNet(text)
  PROVE  key[2] # text
  <1>1. key = <<key[1], key[2]>> /\ inFlight[key[2]].frame = key[1]
    BY Entries DEF Netted
  <1> QED BY <1>1 DEF Chat!KeyOfNet, Chat!Asker

LEMMA InFlightWithout ==
  ASSUME Chat!TypeOK, NEW text, inFlight' = Chat!Without(inFlight, text)
  PROVE  /\ RequestsOK' /\ DOMAIN inFlight' = DOMAIN inFlight \ {text}
         /\ \A t \in DOMAIN inFlight' : inFlight'[t] = inFlight[t]
  <1>1. /\ DOMAIN inFlight' = DOMAIN inFlight \ {text}
        /\ \A t \in DOMAIN inFlight' : inFlight'[t] = inFlight[t]
    BY DEF Chat!Without, Chat!Restrict
  <1> QED BY <1>1, TypesAre DEF RequestsOK

LEMMA NetWithout ==
  ASSUME Chat!TypeOK, NEW key, pendingMessages' = Chat!Without(pendingMessages, key), overdue' = overdue \ {key}
  PROVE  /\ NetOK' /\ DOMAIN pendingMessages' = DOMAIN pendingMessages \ {key}
         /\ \A k \in DOMAIN pendingMessages' : pendingMessages'[k] = pendingMessages[k]
  <1>1. /\ DOMAIN pendingMessages' = DOMAIN pendingMessages \ {key}
        /\ \A k \in DOMAIN pendingMessages' : pendingMessages'[k] = pendingMessages[k]
    BY DEF Chat!Without, Chat!Restrict
  <1> QED BY <1>1, TypesAre DEF NetOK

(* Between two events a line is changed only if its message was raised.    *)
LEMMA BetweenEvents ==
  ASSUME Chat!TypeOK, Unvisited, event = Chat!NoEvent, event' = event, raised' = raised,
         \A m \in Messages, f \in Frames : m \notin raised /\ line[m][f] = "" => line'[m][f] = ""
  PROVE  Unvisited' /\ event' \in Events
  BY TypesAre DEF Unvisited, Chat!NoEvent, Chat!Visits

LEMMA TranslatedKeeps ==
  ASSUME Chat!ChatAssumption, ChatInv, NEW text \in Chat!Texts, Chat!Translated(text)
  PROVE  ChatInv' /\ LinesStay
  <1>1. Chat!TypeOK /\ Unvisited /\ Plain /\ Untranslated /\ Netted /\ NamesInv
    BY DEF ChatInv
  <1>2. /\ event = Chat!NoEvent /\ text \in DOMAIN inFlight /\ cache' = cache \cup {text}
        /\ inFlight' = Chat!Without(inFlight, text)
        /\ pendingMessages' = Chat!Without(pendingMessages, Chat!KeyOfNet(text))
        /\ overdue' = overdue \ {Chat!KeyOfNet(text)}
        /\ Chat!ResolveNamesAndPost(SenderOf[inFlight[text].message], Chat!AskersLines(text))
        /\ targets' = Chat!Without(targets, text) /\ raised' = raised /\ event' = event
    BY DEF Chat!Translated
  <1>3. SenderOf[inFlight[text].message] \in Senders
    <2>1. inFlight[text].message \in Messages
      BY <1>1, <1>2, Entries
    <2> QED BY <2>1 DEF Chat!ChatAssumption
  <1>4. /\ Chat!AskersLines(text) \in SUBSET Cells /\ Postable(Chat!AskersLines(text))
        /\ \A m \in Messages, f \in Frames :
             Cell(m, f) \in Chat!AskersLines(text) => TextOf[m] = text /\ m \in raised
    BY <1>1, <1>2, AskersLinesAre
  <1>5. NamesInv' /\ Names' /\ line' \in Lines /\ Post(Chat!AskersLines(text))
    BY <1>1, <1>2, <1>3, <1>4, PostKeeps
  <1>6. Unvisited' /\ event' \in Events
    <2>1. \A m \in Messages, f \in Frames : m \notin raised /\ line[m][f] = "" => line'[m][f] = ""
      BY <1>4, <1>5 DEF Post
    <2> QED BY <1>1, <1>2, <2>1, BetweenEvents
  <1>7. /\ RequestsOK' /\ DOMAIN inFlight' = DOMAIN inFlight \ {text}
        /\ \A t \in DOMAIN inFlight' : inFlight'[t] = inFlight[t]
    BY <1>1, <1>2, InFlightWithout
  <1>8. /\ NetOK' /\ DOMAIN pendingMessages' = DOMAIN pendingMessages \ {Chat!KeyOfNet(text)}
        /\ \A k \in DOMAIN pendingMessages' : pendingMessages'[k] = pendingMessages[k]
    BY <1>1, <1>2, NetWithout
  <1>9. Chat!TypeOK'
    <2>1. TargetsOK' /\ cache' \subseteq Chat!Texts
      BY <1>1, <1>2, UnregisterKeeps, TypesAre
    <2> QED BY <1>1, <1>2, <1>5, <1>6, <1>7, <1>8, <2>1, TypesAre, TypesStep
  <1>10. Plain' /\ Untranslated'
    <2>1. Plain'
      BY <1>1, <1>8 DEF Plain
    <2>2. \A m \in Messages, f \in Frames :
            TextOf[m] \notin cache' => line'[m][f] \notin {"resolving", "translated"}
      BY <1>1, <1>2, <1>4, <1>5 DEF Untranslated, Post
    <2> QED BY <1>1, <1>2, <1>7, <2>1, <2>2 DEF Untranslated
  <1>11. Netted'
    <2> SUFFICES ASSUME NEW k \in DOMAIN pendingMessages'
                 PROVE  /\ k[2] \in DOMAIN inFlight' /\ inFlight'[k[2]].frame = k[1]
                        /\ TextOf[pendingMessages'[k]] = k[2]
                        /\ line'[pendingMessages'[k]][k[1]] = "held"
      BY DEF Netted
    <2>1. /\ k \in DOMAIN pendingMessages /\ k # Chat!KeyOfNet(text)
          /\ pendingMessages'[k] = pendingMessages[k]
          /\ pendingMessages[k] \in Messages /\ k[1] \in Frames
      BY <1>1, <1>8, Entries
    <2>2. /\ k[2] \in DOMAIN inFlight /\ inFlight[k[2]].frame = k[1]
          /\ TextOf[pendingMessages[k]] = k[2] /\ line[pendingMessages[k]][k[1]] = "held"
      BY <1>1, <2>1 DEF Netted
    <2>3. k[2] # text
      BY <1>1, <1>2, <2>1, NetOfText
    <2> QED BY <1>4, <1>5, <1>7, <2>1, <2>2, <2>3 DEF Post
  <1>12. LinesStay
    BY <1>5 DEF LinesStay, Post
  <1> QED BY <1>5, <1>6, <1>9, <1>10, <1>11, <1>12 DEF ChatInv

LEMMA FailedKeeps ==
  ASSUME ChatInv, NEW text \in Chat!Texts, Chat!Failed(text)
  PROVE  ChatInv' /\ LinesStay
  <1>1. Chat!TypeOK /\ Unvisited /\ Plain /\ Untranslated /\ Netted /\ NamesInv
    BY DEF ChatInv
  <1>2. PICK key : key = Chat!KeyOfNet(text)
    OBVIOUS
  <1>3. /\ event = Chat!NoEvent /\ text \in DOMAIN inFlight
        /\ inFlight' = Chat!Without(inFlight, text) /\ targets' = Chat!Without(targets, text)
        /\ pendingMessages' = Chat!Without(pendingMessages, key) /\ overdue' = overdue \ {key}
        /\ raised' = raised /\ event' = event /\ cache' = cache /\ UNCHANGED Chat!nameVars
    BY <1>2 DEF Chat!Failed
  <1>4. /\ key \in DOMAIN pendingMessages => Chat!Show(pendingMessages[key], Chat!Asker(text), "original")
        /\ key \notin DOMAIN pendingMessages => line' = line
    BY <1>2 DEF Chat!Failed
  <1>5. key[1] = Chat!Asker(text) /\ key[2] = text
    BY <1>2 DEF Chat!KeyOfNet
  <1>6. /\ line' \in Lines
        /\ \A m \in Messages, f \in Frames :
             \/ line'[m][f] = line[m][f]
             \/ /\ key \in DOMAIN pendingMessages /\ m = pendingMessages[key] /\ f = key[1]
                /\ line[m][f] = "held" /\ line'[m][f] = "original"
    <2>1. CASE key \in DOMAIN pendingMessages
      <3>1. pendingMessages[key] \in Messages /\ Chat!Asker(text) \in Frames /\ "original" \in Chat!LineStates
        BY <1>1, <1>3, <2>1, Entries DEF Chat!Asker, Chat!LineStates
      <3>2. line[pendingMessages[key]][Chat!Asker(text)] = "held"
        BY <1>1, <1>5, <2>1 DEF Netted
      <3>3. Chat!Show(pendingMessages[key], Chat!Asker(text), "original")
        BY <1>4, <2>1
      <3>4. PICK k \in Messages, g \in Frames : k = pendingMessages[key] /\ g = Chat!Asker(text)
        BY <3>1
      <3>5. /\ line' \in Lines /\ line'[k][g] = "original"
            /\ \A m \in Messages, f \in Frames : m # k \/ f # g => line'[m][f] = line[m][f]
        BY <1>1, <3>1, <3>3, <3>4, Shown
      <3> QED BY <1>5, <2>1, <3>2, <3>4, <3>5
    <2>2. CASE key \notin DOMAIN pendingMessages
      BY <1>1, <1>4, <2>2, TypesAre
    <2> QED BY <2>1, <2>2
  <1>7. NamesInv' /\ Names'
    <2>1. \A m \in Messages, f \in Frames :
            \/ line'[m][f] = line[m][f]
            \/ line[m][f] # "resolving" /\ line'[m][f] # "resolving"
      BY <1>6
    <2> QED BY <1>1, <1>3, <2>1, NamesUntouched
  <1>8. Unvisited' /\ event' \in Events
    <2>1. \A m \in Messages, f \in Frames : m \notin raised /\ line[m][f] = "" => line'[m][f] = ""
      BY <1>6
    <2> QED BY <1>1, <1>3, <2>1, BetweenEvents
  <1>9. /\ RequestsOK' /\ DOMAIN inFlight' = DOMAIN inFlight \ {text}
        /\ \A t \in DOMAIN inFlight' : inFlight'[t] = inFlight[t]
    BY <1>1, <1>3, InFlightWithout
  <1>10. /\ NetOK' /\ DOMAIN pendingMessages' = DOMAIN pendingMessages \ {key}
         /\ \A k \in DOMAIN pendingMessages' : pendingMessages'[k] = pendingMessages[k]
    BY <1>1, <1>3, NetWithout
  <1>11. Chat!TypeOK'
    <2>1. TargetsOK'
      BY <1>1, <1>3, UnregisterKeeps
    <2> QED BY <1>1, <1>3, <1>6, <1>7, <1>8, <1>9, <1>10, <2>1, TypesAre, TypesStep
  <1>12. Plain' /\ Untranslated'
    BY <1>1, <1>3, <1>6, <1>9, <1>10 DEF Plain, Untranslated
  <1>13. Netted'
    <2> SUFFICES ASSUME NEW k \in DOMAIN pendingMessages'
                 PROVE  /\ k[2] \in DOMAIN inFlight' /\ inFlight'[k[2]].frame = k[1]
                        /\ TextOf[pendingMessages'[k]] = k[2]
                        /\ line'[pendingMessages'[k]][k[1]] = "held"
      BY DEF Netted
    <2>1. /\ k \in DOMAIN pendingMessages /\ k # Chat!KeyOfNet(text)
          /\ pendingMessages'[k] = pendingMessages[k]
          /\ pendingMessages[k] \in Messages /\ k[1] \in Frames
      BY <1>1, <1>2, <1>10, Entries
    <2>2. /\ k[2] \in DOMAIN inFlight /\ inFlight[k[2]].frame = k[1]
          /\ TextOf[pendingMessages[k]] = k[2] /\ line[pendingMessages[k]][k[1]] = "held"
      BY <1>1, <2>1 DEF Netted
    <2>3. k[2] # text
      BY <1>1, <1>3, <2>1, NetOfText
    <2>4. key \in DOMAIN pendingMessages => pendingMessages[key] # pendingMessages[k]
      BY <1>1, <1>5, <2>2, <2>3 DEF Netted
    <2> QED BY <1>6, <1>9, <2>1, <2>2, <2>3, <2>4
  <1>14. LinesStay
    BY <1>6 DEF LinesStay
  <1> QED BY <1>7, <1>8, <1>11, <1>12, <1>13, <1>14 DEF ChatInv

-----------------------------------------------------------------------------
(* Names, and the safety net                                               *)

(* A name is finished, and nothing but the lines that wait for it changes. *)
LEMMA NameKeeps ==
  ASSUME ChatInv, NEW names, Chat!Finish(names), Chat!Become(Chat!Waiting(names), "translated"),
         nameRequests \cup nameRetryWaiters \subseteq nameRequests' \cup nameRetryWaiters' \cup names,
         event = Chat!NoEvent,
         UNCHANGED <<raised, event, targets, pendingMessages, overdue, inFlight, cache>>
  PROVE  ChatInv' /\ LinesStay
  <1>1. Chat!TypeOK /\ Unvisited /\ Plain /\ Untranslated /\ Netted /\ NamesInv
    BY DEF ChatInv
  <1>2. /\ NamesInv' /\ Names' /\ line' \in Lines
        /\ \A m \in Messages, f \in Frames :
             \/ line'[m][f] = line[m][f]
             \/ line[m][f] = "resolving" /\ line'[m][f] = "translated"
    BY <1>1, FinishKeeps
  <1>3. Unvisited' /\ event' \in Events
    <2>1. \A m \in Messages, f \in Frames : m \notin raised /\ line[m][f] = "" => line'[m][f] = ""
      BY <1>2
    <2> QED BY <1>1, <2>1, BetweenEvents
  <1>4. Chat!TypeOK'
    BY <1>1, <1>2, <1>3, TypesAre, TypesStep DEF TargetsOK, NetOK, RequestsOK
  <1>5. Plain' /\ Untranslated'
    BY <1>1, <1>2 DEF Plain, Untranslated
  <1>6. Netted'
    <2>1. ASSUME NEW k \in DOMAIN pendingMessages
          PROVE  line'[pendingMessages[k]][k[1]] = "held"
      <3>1. /\ line[pendingMessages[k]][k[1]] = "held"
            /\ pendingMessages[k] \in Messages /\ k[1] \in Frames
        BY <1>1, Entries DEF Netted
      <3> QED BY <1>2, <3>1
    <2> QED BY <1>1, <2>1 DEF Netted
  <1>7. LinesStay
    BY <1>2 DEF LinesStay
  <1> QED BY <1>2, <1>3, <1>4, <1>5, <1>6, <1>7 DEF ChatInv

LEMMA SenderAnsweredKeeps ==
  ASSUME ChatInv, NEW name \in Senders, Chat!SenderAnswered(name)
  PROVE  ChatInv' /\ LinesStay
  BY NameKeeps DEF Chat!SenderAnswered, Chat!NameAnswered

LEMMA SendersWatchedKeeps ==
  ASSUME ChatInv, NEW names \in SUBSET Senders, Chat!SendersWatched(names)
  PROVE  ChatInv' /\ LinesStay
  BY NameKeeps DEF Chat!SendersWatched, Chat!NameRetryOnUpdate

LEMMA TimePassesKeeps ==
  ASSUME ChatInv, Chat!TimePasses
  PROVE  ChatInv' /\ LinesStay
  <1>1. Chat!TypeOK /\ Unvisited /\ Plain /\ Untranslated /\ Netted /\ NamesInv
    BY DEF ChatInv
  <1>2. /\ event = Chat!NoEvent /\ overdue' \subseteq DOMAIN pendingMessages
        /\ raised' = raised /\ event' = event /\ line' = line /\ targets' = targets
        /\ pendingMessages' = pendingMessages /\ inFlight' = inFlight /\ cache' = cache
        /\ UNCHANGED Chat!nameVars
    BY <1>1, TypesAre DEF Chat!TimePasses, NetOK
  <1>3. NamesInv' /\ Names'
    <2>1. \A k \in Messages, g \in Frames : line'[k][g] = line[k][g]
      BY <1>2
    <2> QED BY <1>1, <1>2, <2>1, NamesUntouched
  <1>4. Chat!TypeOK'
    BY <1>1, <1>2, <1>3, TypesAre, TypesStep DEF TargetsOK, NetOK, RequestsOK
  <1>5. Unvisited' /\ Plain' /\ Untranslated' /\ Netted'
    <2>1. Unvisited'
      BY <1>1, <1>2 DEF Unvisited, Chat!Visits
    <2> QED BY <1>1, <1>2, <2>1 DEF Plain, Untranslated, Netted
  <1>6. LinesStay
    BY <1>2 DEF LinesStay
  <1> QED BY <1>3, <1>4, <1>5, <1>6 DEF ChatInv

LEMMA CleanupKeeps ==
  ASSUME ChatInv, Chat!CleanupPendingMessages
  PROVE  ChatInv' /\ LinesStay
  <1>1. Chat!TypeOK /\ Unvisited /\ Plain /\ Untranslated /\ Netted /\ NamesInv
    BY DEF ChatInv
  <1>2. /\ event = Chat!NoEvent /\ overdue' = {}
        /\ raised' = raised /\ event' = event /\ targets' = targets
        /\ inFlight' = inFlight /\ cache' = cache /\ UNCHANGED Chat!nameVars
    BY DEF Chat!CleanupPendingMessages
  <1>3. /\ DOMAIN pendingMessages' = DOMAIN pendingMessages \ overdue
        /\ \A k \in DOMAIN pendingMessages' : pendingMessages'[k] = pendingMessages[k]
    BY DEF Chat!CleanupPendingMessages, Chat!Restrict
  <1>4. /\ line' \in Lines
        /\ \A m \in Messages, f \in Frames :
             line'[m][f] = IF \E key \in overdue : key[1] = f /\ pendingMessages[key] = m
                           THEN "original" ELSE line[m][f]
    BY <1>1, TypesAre DEF Chat!CleanupPendingMessages, Lines, Chat!LineStates
  <1>5. overdue \subseteq DOMAIN pendingMessages
    BY <1>1, TypesAre DEF NetOK
  <1>6. \A m \in Messages, f \in Frames :
          \/ line'[m][f] = line[m][f]
          \/ /\ line[m][f] = "held" /\ line'[m][f] = "original"
    BY <1>1, <1>4, <1>5 DEF Netted
  <1>7. NamesInv' /\ Names'
    <2>1. \A m \in Messages, f \in Frames :
            \/ line'[m][f] = line[m][f]
            \/ line[m][f] # "resolving" /\ line'[m][f] # "resolving"
      BY <1>6
    <2> QED BY <1>1, <1>2, <2>1, NamesUntouched
  <1>8. Unvisited' /\ event' \in Events
    <2>1. \A m \in Messages, f \in Frames : m \notin raised /\ line[m][f] = "" => line'[m][f] = ""
      BY <1>6
    <2> QED BY <1>1, <1>2, <2>1, BetweenEvents
  <1>9. Chat!TypeOK'
    <2>1. NetOK'
      BY <1>1, <1>2, <1>3, TypesAre DEF NetOK
    <2> QED BY <1>1, <1>2, <1>4, <1>7, <1>8, <2>1, TypesAre, TypesStep DEF TargetsOK, RequestsOK
  <1>10. Plain' /\ Untranslated'
    BY <1>1, <1>2, <1>3, <1>6 DEF Plain, Untranslated
  <1>11. Netted'
    <2> SUFFICES ASSUME NEW k \in DOMAIN pendingMessages'
                 PROVE  /\ k[2] \in DOMAIN inFlight' /\ inFlight'[k[2]].frame = k[1]
                        /\ TextOf[pendingMessages'[k]] = k[2]
                        /\ line'[pendingMessages'[k]][k[1]] = "held"
      BY DEF Netted
    <2>1. /\ k \in DOMAIN pendingMessages /\ k \notin overdue
          /\ pendingMessages'[k] = pendingMessages[k]
          /\ pendingMessages[k] \in Messages /\ k[1] \in Frames
          /\ k = <<k[1], k[2]>>
      BY <1>1, <1>3, Entries
    <2>2. /\ k[2] \in DOMAIN inFlight /\ inFlight[k[2]].frame = k[1]
          /\ TextOf[pendingMessages[k]] = k[2] /\ line[pendingMessages[k]][k[1]] = "held"
      BY <1>1, <2>1 DEF Netted
    <2>3. ASSUME NEW key \in overdue, key[1] = k[1], pendingMessages[key] = pendingMessages[k]
          PROVE  FALSE
      <3>1. key \in DOMAIN pendingMessages /\ key = <<key[1], key[2]>>
        BY <1>1, <1>5, Entries
      <3>2. key[2] = k[2]
        BY <1>1, <2>2, <2>3, <3>1 DEF Netted
      <3> QED BY <2>1, <2>3, <3>1, <3>2
    <2> QED BY <1>2, <1>4, <2>1, <2>2, <2>3
  <1>12. LinesStay
    BY <1>6 DEF LinesStay
  <1> QED BY <1>7, <1>8, <1>9, <1>10, <1>11, <1>12 DEF ChatInv

-----------------------------------------------------------------------------
(* The invariant, and what follows from it                                 *)

LEMMA ChatInvInit ==
  ASSUME Chat!Init
  PROVE  ChatInv
  <1>1. Chat!TypeOK
    <2>1. pendingMessages = <<>> /\ targets = <<>> /\ inFlight = <<>> /\ pendingNameTranslations = <<>>
          /\ raised = {} /\ overdue = {} /\ cache = {}
      BY DEF Chat!Init, Chat!NamesInit
    <2>2. TargetsOK /\ NetOK /\ RequestsOK /\ Names /\ cache \subseteq Chat!Texts /\ raised \subseteq Messages
      BY <2>1 DEF TargetsOK, NetOK, RequestsOK, Names
    <2>3. event \in Events /\ line \in Lines
      BY DEF Chat!Init, Chat!NoEvent, Events, Lines, Chat!LineStates
    <2> QED BY <2>2, <2>3 DEF Chat!TypeOK, Events, Lines, TargetsOK, NetOK, RequestsOK, Names,
             Cells, Chat!Range
  <1>2. Unvisited
    BY DEF Chat!Init, Chat!NoEvent, Unvisited, Chat!Visits
  <1>3. Plain /\ Netted
    <2>1. DOMAIN pendingMessages = {}
      <3>1. pendingMessages = <<>>
        BY DEF Chat!Init
      <3> QED BY <3>1
    <2>2. \A m \in Messages, f \in Frames : line[m][f] = ""
      BY DEF Chat!Init
    <2> QED BY <2>1, <2>2 DEF Plain, Netted
  <1>4. Untranslated
    <2>1. DOMAIN inFlight = {}
      <3>1. inFlight = <<>>
        BY DEF Chat!Init
      <3> QED BY <3>1
    <2>2. \A m \in Messages, f \in Frames : line[m][f] = ""
      BY DEF Chat!Init
    <2> QED BY <2>1, <2>2 DEF Untranslated
  <1>5. NamesInv
    <2>1. DOMAIN pendingNameTranslations = {}
      <3>1. pendingNameTranslations = <<>>
        BY DEF Chat!Init, Chat!NamesInit
      <3> QED BY <3>1
    <2>2. \A m \in Messages, f \in Frames : line[m][f] = ""
      BY DEF Chat!Init
    <2> QED BY <2>1, <2>2 DEF NamesInv, Waiters, OneName, NamesPursued, ResolvingWaits
  <1> QED BY <1>1, <1>2, <1>3, <1>5, <1>4 DEF ChatInv

LEMMA ChatInvStep ==
  ASSUME Chat!ChatAssumption, ChatInv, [Chat!Next]_(Chat!vars)
  PROVE  ChatInv' /\ LinesStay
  <1>1. ASSUME NEW m \in Messages, NEW f \in Frames,
               \/ Chat!Filtered(m, f) \/ Chat!FlushOriginal(m, f)
               \/ Chat!FlushUnavailable(m, f) \/ Chat!PostCached(m, f)
               \/ Chat!AskQueued(m, f) \/ Chat!AskSkipped(m, f) \/ Chat!AskRefused(m, f)
        PROVE  ChatInv' /\ LinesStay
    BY <1>1, FilteredKeeps, FlushOriginalKeeps, FlushUnavailableKeeps, PostCachedKeeps,
       AskQueuedKeeps, AskSkippedKeeps,
       AskRefusedKeeps
  <1>2. ASSUME NEW text \in Chat!Texts, Chat!Answer(text)
        PROVE  ChatInv' /\ LinesStay
    BY <1>2, TranslatedKeeps, FailedKeeps DEF Chat!Answer
  <1>3. CASE UNCHANGED Chat!vars
    <2>1. Chat!TypeOK /\ Unvisited /\ Plain /\ Untranslated /\ Netted /\ NamesInv
      BY DEF ChatInv
    <2>2. Chat!TypeOK' /\ Unvisited'
      BY <1>3, <2>1 DEF Chat!TypeOK, Unvisited, Chat!Visits, Chat!vars, Chat!lineVars, Chat!nameVars
    <2>3. Plain' /\ Untranslated' /\ Netted'
      BY <1>3, <2>1 DEF Plain, Untranslated, Netted, Chat!vars, Chat!lineVars
    <2>4. NamesInv'
      BY <1>3, <2>1 DEF NamesInv, Waiters, OneName, NamesPursued, ResolvingWaits, Chat!vars,
         Chat!lineVars, Chat!nameVars
    <2>5. LinesStay
      BY <1>3 DEF LinesStay, Chat!vars, Chat!lineVars
    <2> QED BY <2>2, <2>3, <2>4, <2>5 DEF ChatInv
  <1> QED BY <1>1, <1>2, <1>3, RaiseKeeps, SenderAnsweredKeeps, SendersWatchedKeeps,
           TimePassesKeeps,
             CleanupKeeps DEF Chat!Next, Chat!Visit

LEMMA ChatInvHolds ==
  ASSUME Chat!ChatAssumption
  PROVE  Chat!Spec => []ChatInv
  <1>1. ChatInv /\ [Chat!Next]_(Chat!vars) => ChatInv'
    BY ChatInvStep
  <1> QED BY <1>1, ChatInvInit, PTL DEF Chat!Spec

(* NoReappearance: what the safety net has is held by a request that is in *)
(* flight, and the callback of that request takes its entry out before it  *)
(* posts the line (pendingMessages[replacePendingKey] = nil), so that      *)
(* neither CleanupPendingMessages nor an error meets a line that is posted.*)
THEOREM TranslationsStay ==
  ASSUME Chat!ChatAssumption
  PROVE  Chat!Spec => NoReappearance
  <1>1. ChatInv /\ [Chat!Next]_(Chat!vars) =>
          [\A m \in Messages, f \in Frames :
             line[m][f] \in {"resolving", "translated"}
               => line'[m][f] \in {"resolving", "translated"}]_line
    BY ChatInvStep DEF LinesStay
  <1> QED BY <1>1, ChatInvHolds, PTL DEF Chat!Spec, NoReappearance

(* The lines that have left the safety net and wait for a sender's name    *)
(* are each on the table under a name that is asked for or watched, and    *)
(* finish() of that name will find them there: what OwedLineAppears rests  *)
(* on (ResolvePlayerDisplayName, WatchNameCache).                          *)
Pursued ==
  \A m \in Messages, f \in Frames : line[m][f] = "resolving" =>
    \E n \in nameRequests \cup nameRetryWaiters :
      n \in DOMAIN pendingNameTranslations /\ Cell(m, f) \in pendingNameTranslations[n]

(* No line waits for a name nobody pursues.                                *)
THEOREM WaitingLinesPursued ==
  ASSUME Chat!ChatAssumption
  PROVE  Chat!Spec => []Pursued
  <1>1. ChatInv => Pursued
    BY DEF ChatInv, NamesInv, NamesPursued, ResolvingWaits, Pursued
  <1> QED BY <1>1, ChatInvHolds, PTL
=============================================================================
