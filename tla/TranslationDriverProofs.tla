---------------------- MODULE TranslationDriverProofs ----------------------
(***************************************************************************)
(* StreamIsServed and AbandonedNotTranslated of TranslationDriver, for any *)
(* requests, pairs, window churn and number of pumps.                      *)
(*                                                                         *)
(* The argument for the streams: a stream is staged for the current        *)
(* instance of the pair it serves, until that instance's pump takes it     *)
(* (Staged, Readers); only the end of its pump terminates it, and nothing  *)
(* but a terminated stream is replaced.  For the requests: each is in one  *)
(* place, the main queue, one buffer or one session (OneCopy, InSession),  *)
(* so that while it is queued only its age can have answered it            *)
(* (QueuedAwaited).                                                        *)
(***************************************************************************)
EXTENDS TranslationDriver, SequenceTheorems, TLAPS

Reads(t) == tasks[t].phase \in {"pumping", "translating"}

(* A pair has a stream once it has a generation, and no two pairs share it.*)
Routes ==
  \A p \in Pairs :
    /\ continuations[p] = NoStream <=> activePairs[p] = NoGen
    /\ \A q \in Pairs : continuations[p] = continuations[q] /\ continuations[p] # NoStream => p = q

(* What is staged is live, belongs to the current instance, and is unread. *)
Staged ==
  \A i \in DOMAIN pendingStreams :
    /\ i = Current(i[1]) /\ pendingStreams[i] = continuations[i[1]]
    /\ streams[pendingStreams[i]].open
    /\ \A t \in DOMAIN tasks : Reads(t) => tasks[t].stream # pendingStreams[i]

(* A pump has a live stream to itself; a pair's stream is in the hands of  *)
(* its current instance.                                                   *)
Readers ==
  \A t \in DOMAIN tasks : Reads(t) =>
    /\ tasks[t].stream \in DOMAIN streams /\ streams[tasks[t].stream].open
    /\ \A u \in DOMAIN tasks : Reads(u) /\ tasks[u].stream = tasks[t].stream => u = t
    /\ \A p \in Pairs : continuations[p] = tasks[t].stream => tasks[t].inst = Current(p)

Served ==
  \A p \in Pairs :
    /\ continuations[p] # NoStream /\ streams[continuations[p]].open
    /\ Current(p) \notin DOMAIN pendingStreams
    => \E t \in DOMAIN tasks : Reads(t) /\ tasks[t].stream = continuations[p]

ServeInv == Routes /\ Staged /\ Readers /\ Served

Buf(s) == streams[s].buf

(* No request is queued twice.                                             *)
OneCopy ==
  /\ \A i, j \in DOMAIN mainQ : mainQ[i] = mainQ[j] => i = j
  /\ \A s \in DOMAIN streams : \A i, j \in DOMAIN Buf(s) : Buf(s)[i] = Buf(s)[j] => i = j
  /\ \A s, u \in DOMAIN streams : \A i \in DOMAIN Buf(s), j \in DOMAIN Buf(u) :
       Buf(s)[i] = Buf(u)[j] => s = u
  /\ \A i \in DOMAIN mainQ : \A s \in DOMAIN streams : \A j \in DOMAIN Buf(s) :
       mainQ[i] # Buf(s)[j]

(* What a session translates has left the queues.                          *)
InSession ==
  \A t \in DOMAIN tasks : tasks[t].phase = "translating" =>
    /\ outcome[tasks[t].req] # "unasked"
    /\ \A i \in DOMAIN mainQ : mainQ[i] # tasks[t].req
    /\ \A s \in DOMAIN streams : \A j \in DOMAIN Buf(s) : Buf(s)[j] # tasks[t].req

Queued(r) ==
  \/ \E i \in DOMAIN mainQ : mainQ[i] = r
  \/ \E s \in DOMAIN streams : \E j \in DOMAIN Buf(s) : Buf(s)[j] = r

Awaited(r) == outcome[r] = "waiting" \/ (outcome[r] # "unasked" /\ r \in expired)

QueuedAwaited ==
  /\ \A i \in DOMAIN mainQ : Awaited(mainQ[i])
  /\ \A s \in DOMAIN streams : \A j \in DOMAIN Buf(s) : Awaited(Buf(s)[j])

RequestInv == OneCopy /\ InSession /\ QueuedAwaited

DriverInv == TypeOK /\ ServeInv /\ RequestInv

TaskRecords(n) == [inst : Instances, phase : Phases, stream : 0 .. n,
                   req : Requests \cup {NoReq}, cancelled : BOOLEAN]

StreamRecords == [buf : Seq(Requests), open : BOOLEAN]

-----------------------------------------------------------------------------
(* Sequences                                                               *)

(* Replacing elements of a sequence leaves a sequence of the same length.  *)
LEMMA SameLength ==
  ASSUME NEW S, NEW T, NEW q \in Seq(S), NEW w \in [DOMAIN q -> T]
  PROVE  w \in Seq(T) /\ Len(w) = Len(q) /\ DOMAIN w = DOMAIN q
  <1>1. Len(q) \in Nat /\ DOMAIN q = 1 .. Len(q)
    BY LenProperties
  <1>2. w \in Seq(T)
    BY <1>1, SeqDef
  <1>3. Len(w) \in Nat /\ DOMAIN w = 1 .. Len(w)
    BY <1>2, LenProperties
  <1> QED BY <1>1, <1>2, <1>3

(* Appending to a sequence keeps what it has and adds one element.         *)
LEMMA Appended ==
  ASSUME NEW S, NEW q \in Seq(S), NEW x \in S
  PROVE  /\ Append(q, x) \in Seq(S)
         /\ Len(q) \in Nat /\ DOMAIN q = 1 .. Len(q)
         /\ Len(Append(q, x)) = Len(q) + 1
         /\ DOMAIN Append(q, x) = 1 .. (Len(q) + 1)
         /\ \A i \in 1 .. Len(q) : Append(q, x)[i] = q[i]
         /\ Append(q, x)[Len(q) + 1] = x
  BY AppendProperties, LenProperties

(* Taking the first element off a sequence moves the others up by one.     *)
LEMMA Shifted ==
  ASSUME NEW S, NEW q \in Seq(S), q # <<>>
  PROVE  /\ Head(q) = q[1] /\ Head(q) \in S /\ Tail(q) \in Seq(S)
         /\ Len(q) \in Nat /\ Len(q) >= 1 /\ DOMAIN q = 1 .. Len(q)
         /\ DOMAIN Tail(q) = 1 .. (Len(q) - 1)
         /\ \A i \in 1 .. (Len(q) - 1) : Tail(q)[i] = q[i + 1]
  BY HeadTailProperties, LenProperties, EmptySeq

(* What the types say of the streams and the tasks.                        *)
LEMMA Shapes ==
  ASSUME TypeOK
  PROVE  /\ Len(streams) \in Nat /\ DOMAIN streams = 1 .. Len(streams)
         /\ streams \in Seq(StreamRecords)
         /\ \A s \in DOMAIN streams : streams[s] \in StreamRecords
         /\ Len(tasks) \in Nat /\ DOMAIN tasks = 1 .. Len(tasks)
         /\ tasks \in Seq(TaskRecords(Len(streams)))
         /\ \A t \in DOMAIN tasks : tasks[t] \in TaskRecords(Len(streams))
  <1>1. streams \in Seq(StreamRecords) /\ tasks \in Seq(TaskRecords(Len(streams)))
    BY DEF TypeOK, TaskRecords, StreamRecords
  <1>2. \A s \in 1 .. Len(streams) : streams[s] \in StreamRecords
    BY <1>1, ElementOfSeq
  <1>3. \A t \in 1 .. Len(tasks) : tasks[t] \in TaskRecords(Len(streams))
    BY <1>1, ElementOfSeq
  <1>4. Len(streams) \in Nat /\ DOMAIN streams = 1 .. Len(streams)
    BY <1>1, LenProperties
  <1>5. Len(tasks) \in Nat /\ DOMAIN tasks = 1 .. Len(tasks)
    BY <1>1, LenProperties
  <1> QED BY <1>1, <1>2, <1>3, <1>4, <1>5

(* The tasks keep their types when some of them are replaced.              *)
LEMMA TasksTyped ==
  ASSUME TypeOK, tasks' \in [DOMAIN tasks -> TaskRecords(Len(streams))]
  PROVE  tasks' \in Seq(TaskRecords(Len(streams))) /\ DOMAIN tasks' = DOMAIN tasks
  BY Shapes, SameLength

(* The requests in the queues and the sessions are requests.               *)
LEMMA QueuedAreRequests ==
  ASSUME TypeOK
  PROVE  /\ \A i \in DOMAIN mainQ : mainQ[i] \in Requests
         /\ \A s \in DOMAIN streams : \A j \in DOMAIN Buf(s) : Buf(s)[j] \in Requests
         /\ \A t \in DOMAIN tasks : tasks[t].phase = "translating" => tasks[t].req \in Requests
  <1>1. \A i \in DOMAIN mainQ : mainQ[i] \in Requests
    BY ElementOfSeq, LenProperties DEF TypeOK
  <1>2. ASSUME NEW s \in DOMAIN streams, NEW j \in DOMAIN Buf(s) PROVE Buf(s)[j] \in Requests
    <2>1. Buf(s) \in Seq(Requests)
      BY Shapes DEF StreamRecords, Buf
    <2> QED BY <1>2, <2>1, ElementOfSeq, LenProperties
  <1>3. \A t \in DOMAIN tasks : tasks[t].phase = "translating" => tasks[t].req \in Requests
    BY Shapes DEF TypeOK, TaskRecords
  <1> QED BY <1>1, <1>2, <1>3

-----------------------------------------------------------------------------
(* What a step leaves alone                                                *)

(* The service does not notice a step that leaves the driver's tables, the *)
(* streams' lives and the readers as they are.                             *)
LEMMA ServiceStays ==
  ASSUME TypeOK, ServeInv, UNCHANGED driverVars,
         DOMAIN streams' = DOMAIN streams,
         \A s \in DOMAIN streams : streams'[s].open = streams[s].open,
         DOMAIN tasks \subseteq DOMAIN tasks',
         \A t \in DOMAIN tasks' : Reads(t)' <=> t \in DOMAIN tasks /\ Reads(t),
         \A t \in DOMAIN tasks : /\ tasks'[t].inst = tasks[t].inst
                                 /\ Reads(t) => tasks'[t].stream = tasks[t].stream
  PROVE  ServeInv'
  <1>1. continuations' = continuations /\ activePairs' = activePairs /\ pendingStreams' = pendingStreams
    BY DEF driverVars
  <1>2. \A p : Current(p)' = Current(p)
    BY <1>1 DEF Current
  <1>3. \A p \in Pairs : continuations[p] # NoStream => continuations[p] \in DOMAIN streams
    BY Shapes DEF TypeOK, NoStream
  <1>4. \A i \in DOMAIN pendingStreams : pendingStreams[i] \in DOMAIN streams
    BY Shapes DEF TypeOK
  <1>5. Routes'
    BY <1>1 DEF ServeInv, Routes
  <1>6. Staged'
    BY <1>1, <1>2, <1>4 DEF ServeInv, Staged
  <1>7. Readers'
    BY <1>1, <1>2 DEF ServeInv, Readers
  <1>8. Served'
    BY <1>1, <1>2, <1>3 DEF ServeInv, Served
  <1> QED BY <1>5, <1>6, <1>7, <1>8 DEF ServeInv

(* The requests do not notice one that queues nothing and starts nothing,  *)
(* as long as only old ones are answered while they are queued.            *)
LEMMA RequestsStay ==
  ASSUME TypeOK, RequestInv, mainQ' = mainQ,
         DOMAIN streams' = DOMAIN streams,
         \A s \in DOMAIN streams : Buf(s)' = Buf(s) \/ Buf(s)' = <<>>,
         \A t \in DOMAIN tasks' : tasks'[t].phase = "translating" =>
           t \in DOMAIN tasks /\ tasks[t].phase = "translating" /\ tasks'[t].req = tasks[t].req,
         \A r \in Requests : outcome[r] # "unasked" => outcome'[r] # "unasked",
         \A r \in Requests : Queued(r) /\ Awaited(r) => Awaited(r)'
  PROVE  RequestInv'
  <1>1. \A s \in DOMAIN streams' : \A j \in DOMAIN Buf(s)' :
          s \in DOMAIN streams /\ j \in DOMAIN Buf(s) /\ Buf(s)'[j] = Buf(s)[j]
    <2>1. DOMAIN <<>> = {}
      OBVIOUS
    <2> QED BY <2>1
  <1>2. OneCopy'
    BY <1>1 DEF RequestInv, OneCopy
  <1>3. InSession'
    <2>1. \A t \in DOMAIN tasks : tasks[t].phase = "translating" => tasks[t].req \in Requests
      BY Shapes DEF TypeOK, TaskRecords
    <2> QED BY <1>1, <2>1 DEF RequestInv, InSession
  <1>4. QueuedAwaited'
    BY <1>1, QueuedAreRequests DEF RequestInv, QueuedAwaited, Queued
  <1> QED BY <1>2, <1>3, <1>4 DEF RequestInv

(* An answer reaches a caller that waits, and changes nobody else's status.*)
LEMMA Answered ==
  ASSUME TypeOK, NEW r \in Requests, NEW status \in Outcomes \ {"unasked"}, OnResult(r, status)
  PROVE  /\ outcome' \in [Requests -> Outcomes]
         /\ \A q \in Requests : q # r => outcome'[q] = outcome[q]
         /\ \A q \in Requests : outcome[q] # "unasked" => outcome'[q] # "unasked"
  BY DEF TypeOK, OnResult

-----------------------------------------------------------------------------
(* The calling thread                                                      *)

LEMMA CallKeeps ==
  ASSUME DriverInv, NEW r \in Requests, Call(r)
  PROVE  DriverInv'
  <1>0. /\ TypeOK /\ ServeInv /\ RequestInv
        /\ UNCHANGED <<expired, window, attached, driverVars, streams, viewVars, tasks, churns>>
        /\ outcome[r] = "unasked" /\ outcome' = [outcome EXCEPT ![r] = "waiting"]
        /\ mainQ' = Append(mainQ, r)
    BY DEF DriverInv, Call
  <1>1. /\ mainQ' \in Seq(Requests) /\ Len(mainQ) \in Nat
        /\ DOMAIN mainQ = 1 .. Len(mainQ) /\ DOMAIN mainQ' = 1 .. (Len(mainQ) + 1)
        /\ \A i \in 1 .. Len(mainQ) : mainQ'[i] = mainQ[i]
        /\ mainQ'[Len(mainQ) + 1] = r
    BY <1>0, Appended DEF TypeOK
  <1>2. TypeOK'
    BY <1>0, <1>1 DEF TypeOK, Outcomes, driverVars, viewVars
  <1>3. ServeInv'
    BY <1>0, ServiceStays DEF Reads
  <1>4. /\ \A q \in Requests : outcome[q] # "unasked" => q # r /\ outcome'[q] = outcome[q]
        /\ outcome'[r] = "waiting"
    BY <1>0 DEF TypeOK
  <1>5. \A q \in Requests : Awaited(q) => q # r /\ Awaited(q)'
    BY <1>0, <1>4 DEF Awaited
  <1>7. /\ \A i \in DOMAIN mainQ : mainQ[i] # r
        /\ \A s \in DOMAIN streams : \A j \in DOMAIN Buf(s) : Buf(s)[j] # r
        /\ \A t \in DOMAIN tasks : tasks[t].phase = "translating" => tasks[t].req # r
    BY <1>0, <1>5, QueuedAreRequests DEF RequestInv, QueuedAwaited, InSession
  <1>8. OneCopy'
    BY <1>0, <1>1, <1>7 DEF RequestInv, OneCopy, Buf
  <1>9. InSession'
    BY <1>0, <1>1, <1>4, <1>7, QueuedAreRequests DEF RequestInv, InSession, Buf
  <1>10. QueuedAwaited'
    <2>1. Awaited(r)'
      BY <1>4 DEF Awaited
    <2> QED BY <1>0, <1>1, <1>5, <2>1, QueuedAreRequests DEF RequestInv, QueuedAwaited, Buf
  <1> QED BY <1>2, <1>3, <1>8, <1>9, <1>10 DEF DriverInv, RequestInv

LEMMA ClockKeeps ==
  ASSUME DriverInv, NEW r \in Requests, Expire(r) \/ WaitTimesOut(r)
  PROVE  DriverInv'
  <1>0. /\ TypeOK /\ ServeInv /\ RequestInv
        /\ UNCHANGED <<mainQ, window, attached, driverVars, streams, viewVars, tasks, churns>>
    BY DEF DriverInv, Expire, WaitTimesOut
  <1>1. /\ outcome' \in [Requests -> Outcomes] /\ expired' \subseteq Requests
        /\ expired \subseteq expired'
        /\ \A q \in Requests : outcome'[q] = outcome[q] \/ (outcome'[q] = "Timeout" /\ q \in expired)
    BY <1>0 DEF Expire, WaitTimesOut, TypeOK, Waiting, Outcomes
  <1>2. TypeOK'
    BY <1>0, <1>1 DEF TypeOK, driverVars, viewVars
  <1>3. ServeInv'
    BY <1>0, ServiceStays DEF Reads
  <1>4. \A q \in Requests : Awaited(q) => Awaited(q)'
    BY <1>1 DEF Awaited
  <1>5. RequestInv'
    BY <1>0, <1>1, <1>4, RequestsStay DEF Buf
  <1> QED BY <1>2, <1>3, <1>5 DEF DriverInv

-----------------------------------------------------------------------------
(* Windows and views                                                       *)

LEMMA WindowKeeps ==
  ASSUME DriverInv, WindowDestroyed \/ WindowCreated
  PROVE  DriverInv'
  <1>0. /\ TypeOK /\ ServeInv /\ RequestInv
        /\ UNCHANGED <<callVars, mainQ, driverVars, streams, mounted, tasks>>
    BY DEF DriverInv, WindowDestroyed, WindowCreated, viewVars
  <1>1. TypeOK'
    <2>1. /\ window' \in BOOLEAN /\ attached' \in BOOLEAN /\ leaving' \in SUBSET mounted'
          /\ churns' \in 0 .. MaxChurns
      <3>1. CASE WindowDestroyed
        <4>1. MaxChurns \in Nat /\ churns \in 0 .. MaxChurns /\ leaving' = mounted
              /\ churns < MaxChurns /\ churns' = churns + 1
          BY <1>0, <3>1, DriverAssumption DEF TypeOK, WindowDestroyed
        <4>2. window' \in BOOLEAN /\ attached' \in BOOLEAN
          BY <3>1 DEF WindowDestroyed
        <4>3. leaving' \in SUBSET mounted'
          BY <1>0, <4>1
        <4>4. churns' \in 0 .. MaxChurns
          BY <4>1
        <4> QED BY <4>2, <4>3, <4>4
      <3>2. CASE WindowCreated
        BY <1>0, <3>2 DEF TypeOK, WindowCreated, viewVars
      <3> QED BY <3>1, <3>2
    <2> QED BY <1>0, <2>1 DEF TypeOK, callVars, driverVars
  <1>2. ServeInv'
    BY <1>0, ServiceStays DEF Reads
  <1>3. RequestInv'
    BY <1>0, RequestsStay DEF Buf, callVars, Awaited
  <1> QED BY <1>1, <1>2, <1>3 DEF DriverInv

LEMMA MountKeeps ==
  ASSUME DriverInv, NEW p \in Pairs, Mount(p)
  PROVE  DriverInv'
  <1> DEFINE new == [inst |-> Current(p), phase |-> "fired", stream |-> NoStream,
                     req |-> NoReq, cancelled |-> FALSE]
  <1>0. /\ TypeOK /\ ServeInv /\ RequestInv
        /\ UNCHANGED <<callVars, mainQ, window, attached, driverVars, streams, leaving, churns>>
        /\ mounted' = mounted \cup {Current(p)} /\ tasks' = Append(tasks, new)
    BY DEF DriverInv, Mount
  <1>1. Current(p) \in Instances
    BY <1>0 DEF TypeOK, Current, Instances
  <1>2. new \in TaskRecords(Len(streams))
    BY <1>0, <1>1, Shapes DEF TaskRecords, Phases, NoStream
  <1>3. /\ tasks' \in Seq(TaskRecords(Len(streams)))
        /\ Len(tasks) \in Nat /\ DOMAIN tasks = 1 .. Len(tasks)
        /\ DOMAIN tasks' = 1 .. (Len(tasks) + 1)
        /\ \A t \in 1 .. Len(tasks) : tasks'[t] = tasks[t]
        /\ tasks'[Len(tasks) + 1] = new
    BY <1>0, <1>2, Appended, Shapes
  <1>4. TypeOK'
    <2>1. \A t \in DOMAIN tasks' : (tasks'[t].phase = "translating") <=> (tasks'[t].req # NoReq)
      BY <1>0, <1>3 DEF TypeOK
    <2>2. mounted' \in SUBSET Instances /\ leaving' \in SUBSET mounted'
      BY <1>0, <1>1 DEF TypeOK
    <2> QED BY <1>0, <1>3, <2>1, <2>2 DEF TypeOK, TaskRecords, callVars, driverVars
  <1>5. \A t \in DOMAIN tasks' : t \notin DOMAIN tasks => t = Len(tasks) + 1
    BY <1>3
  <1>6. ServeInv'
    <2>1. \A t \in DOMAIN tasks' : Reads(t)' <=> t \in DOMAIN tasks /\ Reads(t)
      BY <1>3, <1>5 DEF Reads
    <2> QED BY <1>0, <1>3, <2>1, ServiceStays
  <1>7. RequestInv'
    <2>1. \A t \in DOMAIN tasks' : tasks'[t].phase = "translating" =>
            t \in DOMAIN tasks /\ tasks[t].phase = "translating" /\ tasks'[t].req = tasks[t].req
      BY <1>3, <1>5
    <2> QED BY <1>0, <2>1, RequestsStay DEF Buf, callVars, Awaited
  <1> QED BY <1>4, <1>6, <1>7 DEF DriverInv

LEMMA UnmountKeeps ==
  ASSUME DriverInv, NEW i \in mounted, Unmount(i)
  PROVE  DriverInv'
  <1>0. /\ TypeOK /\ ServeInv /\ RequestInv
        /\ UNCHANGED <<callVars, mainQ, window, attached, driverVars, streams, churns>>
        /\ mounted' = mounted \ {i} /\ leaving' = leaving \ {i}
        /\ tasks' = [t \in DOMAIN tasks |->
             IF tasks[t].inst = i THEN [tasks[t] EXCEPT !.cancelled = TRUE] ELSE tasks[t]]
    BY DEF DriverInv, Unmount
  <1>1. \A t \in DOMAIN tasks :
          /\ tasks'[t] \in TaskRecords(Len(streams)) /\ tasks'[t].inst = tasks[t].inst
          /\ tasks'[t].phase = tasks[t].phase /\ tasks'[t].stream = tasks[t].stream
          /\ tasks'[t].req = tasks[t].req
    BY <1>0, Shapes DEF TaskRecords
  <1>2. tasks' \in Seq(TaskRecords(Len(streams))) /\ DOMAIN tasks' = DOMAIN tasks
    <2>1. tasks' \in [DOMAIN tasks -> TaskRecords(Len(streams))]
      BY <1>0, <1>1
    <2> QED BY <1>0, <2>1, TasksTyped
  <1>3. TypeOK'
    <2>1. \A t \in DOMAIN tasks' : (tasks'[t].phase = "translating") <=> (tasks'[t].req # NoReq)
      BY <1>0, <1>1, <1>2 DEF TypeOK
    <2>2. mounted' \in SUBSET Instances /\ leaving' \in SUBSET mounted'
      BY <1>0 DEF TypeOK
    <2> QED BY <1>0, <1>2, <2>1, <2>2 DEF TypeOK, TaskRecords, callVars, driverVars
  <1>4. ServeInv'
    BY <1>0, <1>1, <1>2, ServiceStays DEF Reads
  <1>5. RequestInv'
    BY <1>0, <1>1, <1>2, RequestsStay DEF Buf, callVars, Awaited
  <1> QED BY <1>3, <1>4, <1>5 DEF DriverInv

-----------------------------------------------------------------------------
(* submit                                                                  *)

(* The request taken off the main queue is in it no more.                  *)
LEMMA HeadLeaves ==
  ASSUME TypeOK, OneCopy, mainQ # <<>>, mainQ' = Tail(mainQ)
  PROVE  /\ mainQ' \in Seq(Requests) /\ Head(mainQ) \in Requests
         /\ \E i \in DOMAIN mainQ : mainQ[i] = Head(mainQ)
         /\ \A i \in DOMAIN mainQ' :
              /\ i + 1 \in DOMAIN mainQ /\ mainQ'[i] = mainQ[i + 1]
              /\ mainQ'[i] # Head(mainQ)
         /\ \A i, j \in DOMAIN mainQ' : mainQ'[i] = mainQ'[j] => i = j
  <1>1. /\ Head(mainQ) = mainQ[1] /\ Head(mainQ) \in Requests /\ Tail(mainQ) \in Seq(Requests)
        /\ Len(mainQ) \in Nat /\ Len(mainQ) >= 1 /\ DOMAIN mainQ = 1 .. Len(mainQ)
        /\ DOMAIN Tail(mainQ) = 1 .. (Len(mainQ) - 1)
        /\ \A i \in 1 .. (Len(mainQ) - 1) : Tail(mainQ)[i] = mainQ[i + 1]
    BY Shifted DEF TypeOK
  <1>2. \A i \in DOMAIN mainQ' : i \in Nat /\ i + 1 \in DOMAIN mainQ /\ i + 1 # 1
    BY <1>1
  <1>3. \A i, j \in DOMAIN mainQ' : i + 1 = j + 1 => i = j
    BY <1>2
  <1> QED BY <1>1, <1>2, <1>3 DEF OneCopy

(* It goes to one buffer, at its end.                                      *)
LEMMA RequestMoves ==
  ASSUME TypeOK, RequestInv, mainQ # <<>>, mainQ' = Tail(mainQ),
         UNCHANGED <<outcome, expired, tasks>>,
         NEW s \in DOMAIN streams', NEW old \in Seq(Requests),
         old = <<>> \/ (s \in DOMAIN streams /\ old = Buf(s)),
         Buf(s)' = Append(old, Head(mainQ)),
         \A u \in DOMAIN streams' : u # s => u \in DOMAIN streams /\ Buf(u)' = Buf(u)
  PROVE  RequestInv'
  <1> DEFINE r == Head(mainQ)
  <1>1. /\ mainQ' \in Seq(Requests) /\ r \in Requests
        /\ \E i \in DOMAIN mainQ : mainQ[i] = r
        /\ \A i \in DOMAIN mainQ' : i + 1 \in DOMAIN mainQ /\ mainQ'[i] = mainQ[i + 1] /\ mainQ'[i] # r
        /\ \A i, j \in DOMAIN mainQ' : mainQ'[i] = mainQ'[j] => i = j
    BY HeadLeaves DEF RequestInv
  <1>2. /\ \A u \in DOMAIN streams : \A j \in DOMAIN Buf(u) : Buf(u)[j] # r
        /\ \A t \in DOMAIN tasks : tasks[t].phase = "translating" => tasks[t].req # r
        /\ Awaited(r)
    BY <1>1 DEF RequestInv, OneCopy, InSession, QueuedAwaited
  <1>3. /\ Len(old) \in Nat /\ DOMAIN old = 1 .. Len(old)
        /\ DOMAIN Buf(s)' = 1 .. (Len(old) + 1)
        /\ \A j \in 1 .. Len(old) : Buf(s)'[j] = old[j]
        /\ Buf(s)'[Len(old) + 1] = r
    BY <1>1, Appended
  <1>4. \A j \in DOMAIN old : s \in DOMAIN streams /\ j \in DOMAIN Buf(s) /\ old[j] = Buf(s)[j]
    <2>1. DOMAIN <<>> = {}
      OBVIOUS
    <2> QED BY <2>1
  <1>5. \A j \in DOMAIN Buf(s)' :
          \/ s \in DOMAIN streams /\ j \in DOMAIN Buf(s) /\ Buf(s)'[j] = Buf(s)[j]
          \/ j = Len(old) + 1 /\ Buf(s)'[j] = r
    BY <1>3, <1>4
  <1>6. \A u \in DOMAIN streams' : \A j \in DOMAIN Buf(u)' :
          \/ u \in DOMAIN streams /\ j \in DOMAIN Buf(u) /\ Buf(u)'[j] = Buf(u)[j]
          \/ u = s /\ j = Len(old) + 1 /\ Buf(u)'[j] = r
    BY <1>5
  <1>7. OneCopy'
    <2>1. \A u \in DOMAIN streams' : \A i, j \in DOMAIN Buf(u)' : Buf(u)'[i] = Buf(u)'[j] => i = j
      BY <1>2, <1>6 DEF RequestInv, OneCopy
    <2>2. \A u, v \in DOMAIN streams' : \A i \in DOMAIN Buf(u)', j \in DOMAIN Buf(v)' :
            Buf(u)'[i] = Buf(v)'[j] => u = v
      BY <1>2, <1>6 DEF RequestInv, OneCopy
    <2>3. \A i \in DOMAIN mainQ' : \A u \in DOMAIN streams' : \A j \in DOMAIN Buf(u)' :
            mainQ'[i] # Buf(u)'[j]
      BY <1>1, <1>6 DEF RequestInv, OneCopy
    <2> QED BY <1>1, <2>1, <2>2, <2>3 DEF OneCopy
  <1>8. InSession'
    BY <1>1, <1>2, <1>6 DEF RequestInv, InSession
  <1>9. QueuedAwaited'
    BY <1>1, <1>2, <1>6 DEF RequestInv, QueuedAwaited, Awaited
  <1> QED BY <1>7, <1>8, <1>9 DEF RequestInv

LEMMA UnhostedKeeps ==
  ASSUME DriverInv, SubmitUnhosted
  PROVE  DriverInv'
  <1>0. /\ TypeOK /\ ServeInv /\ RequestInv /\ mainQ # <<>> /\ mainQ' = Tail(mainQ)
        /\ OnResult(Head(mainQ), "Unavailable")
        /\ UNCHANGED <<expired, window, attached, driverVars, streams, viewVars, tasks, churns>>
    BY DEF DriverInv, SubmitUnhosted
  <1>1. /\ mainQ' \in Seq(Requests) /\ Head(mainQ) \in Requests
        /\ \E i \in DOMAIN mainQ : mainQ[i] = Head(mainQ)
        /\ \A i \in DOMAIN mainQ' :
             i + 1 \in DOMAIN mainQ /\ mainQ'[i] = mainQ[i + 1] /\ mainQ'[i] # Head(mainQ)
        /\ \A i, j \in DOMAIN mainQ' : mainQ'[i] = mainQ'[j] => i = j
    BY <1>0, HeadLeaves DEF RequestInv
  <1>2. /\ outcome' \in [Requests -> Outcomes]
        /\ \A q \in Requests : q # Head(mainQ) => outcome'[q] = outcome[q]
        /\ \A q \in Requests : outcome[q] # "unasked" => outcome'[q] # "unasked"
    BY <1>0, <1>1, Answered DEF Outcomes
  <1>3. TypeOK'
    BY <1>0, <1>1, <1>2 DEF TypeOK, driverVars, viewVars
  <1>4. ServeInv'
    BY <1>0, ServiceStays DEF Reads
  <1>5. OneCopy'
    BY <1>0, <1>1 DEF RequestInv, OneCopy, Buf
  <1>6. InSession'
    BY <1>0, <1>1, <1>2, QueuedAreRequests DEF RequestInv, InSession, Buf
  <1>7. QueuedAwaited'
    <2>1. \A q \in Requests : q # Head(mainQ) /\ Awaited(q) => Awaited(q)'
      BY <1>0, <1>2 DEF Awaited
    <2>2. \A s \in DOMAIN streams : \A j \in DOMAIN Buf(s) : Buf(s)[j] # Head(mainQ)
      BY <1>0, <1>1 DEF RequestInv, OneCopy
    <2> QED BY <1>0, <1>1, <2>1, <2>2, QueuedAreRequests DEF RequestInv, QueuedAwaited, Buf
  <1> QED BY <1>3, <1>4, <1>5, <1>6, <1>7 DEF DriverInv, RequestInv

(* A fresh stream replaces none or a terminated one: neither is staged or  *)
(* read, so nothing of the service is disturbed.                           *)
LEMMA StageServes ==
  ASSUME TypeOK, ServeInv, NEW p \in Pairs, NEW gen \in Nat \ {NoGen}, NEW r \in Requests,
         continuations[p] = NoStream \/ ~streams[continuations[p]].open,
         Stage(p, gen, r), tasks' = tasks
  PROVE  /\ ServeInv'
         /\ continuations' \in [Pairs -> 0 .. Len(streams')] /\ activePairs' \in [Pairs -> Nat]
         /\ DOMAIN pendingStreams' \subseteq Instances
         /\ \A i \in DOMAIN pendingStreams' : pendingStreams'[i] \in 1 .. Len(streams')
         /\ streams' \in Seq(StreamRecords) /\ Len(streams') = Len(streams) + 1
         /\ Buf(Len(streams))' = <<r>>
         /\ \A s \in DOMAIN streams : Buf(s)' = Buf(s)
  <1> DEFINE n == Len(streams) + 1
             new == [buf |-> <<r>>, open |-> TRUE]
  <1>1. /\ streams' \in Seq(StreamRecords) /\ Len(streams') = n
        /\ Len(streams) \in Nat /\ DOMAIN streams = 1 .. Len(streams) /\ DOMAIN streams' = 1 .. n
        /\ \A s \in 1 .. Len(streams) : streams'[s] = streams[s]
        /\ streams'[n] = new
    <2>1. <<r>> \in Seq(Requests)
      OBVIOUS
    <2>2. new \in StreamRecords
      BY <2>1 DEF StreamRecords
    <2> QED BY <2>2, Shapes, Appended DEF Stage, WithStream
  <1>2. /\ continuations'[p] = n /\ activePairs'[p] = gen
        /\ \A q \in Pairs : q # p => /\ continuations'[q] = continuations[q]
                                     /\ activePairs'[q] = activePairs[q] /\ Current(q)' = Current(q)
        /\ Current(p)' = <<p, gen>>
    BY DEF Stage, TypeOK, Current
  <1>3. \A i \in DOMAIN pendingStreams : i[1] # p /\ i[1] \in Pairs /\ i = Current(i[1])
    <2>1. \A i \in DOMAIN pendingStreams :
            /\ i[1] \in Pairs /\ pendingStreams[i] # NoStream /\ i = Current(i[1])
            /\ pendingStreams[i] = continuations[i[1]] /\ streams[pendingStreams[i]].open
      BY DEF TypeOK, ServeInv, Staged, Instances, NoStream
    <2> QED BY <2>1
  <1>4. /\ DOMAIN pendingStreams' = DOMAIN pendingStreams \cup {<<p, gen>>}
        /\ pendingStreams'[<<p, gen>>] = n
        /\ \A i \in DOMAIN pendingStreams : pendingStreams'[i] = pendingStreams[i]
    <2>1. Current(p) \notin DOMAIN pendingStreams /\ <<p, gen>> \notin DOMAIN pendingStreams
      BY <1>3 DEF Current
    <2> QED BY <2>1 DEF Stage
  <1>5. \A q \in Pairs : continuations[q] \in 0 .. Len(streams) /\ continuations[q] # n
    BY <1>1 DEF TypeOK
  <1>6. \A t \in DOMAIN tasks : Reads(t)' = Reads(t) /\ (Reads(t) => tasks[t].stream # n)
    BY <1>1 DEF Reads, ServeInv, Readers
  <1>7. Routes'
    <2>1. n # NoStream /\ gen # NoGen
      BY <1>1 DEF NoStream
    <2> QED BY <1>2, <1>5, <2>1 DEF ServeInv, Routes
  <1>8. Staged'
    <2>1. ASSUME NEW i \in DOMAIN pendingStreams
          PROVE  /\ i = Current(i[1])' /\ pendingStreams'[i] = continuations'[i[1]]
                 /\ streams'[pendingStreams'[i]].open
                 /\ \A t \in DOMAIN tasks' : Reads(t)' => tasks'[t].stream # pendingStreams'[i]
      <3>1. /\ i = Current(i[1]) /\ pendingStreams[i] = continuations[i[1]]
            /\ i[1] \in Pairs /\ pendingStreams[i] \in DOMAIN streams
            /\ streams[pendingStreams[i]].open
            /\ \A t \in DOMAIN tasks : Reads(t) => tasks[t].stream # pendingStreams[i]
        <4>1. i[1] \in Pairs
          BY <1>3, <2>1
        <4>2. pendingStreams[i] \in DOMAIN streams
          BY <1>1, <2>1 DEF TypeOK
        <4> QED BY <2>1, <4>1, <4>2 DEF ServeInv, Staged
      <3>2. i = Current(i[1])' /\ continuations'[i[1]] = continuations[i[1]]
        BY <1>2, <1>3, <2>1, <3>1
      <3>3. pendingStreams'[i] = pendingStreams[i]
        BY <1>4, <2>1
      <3>4. streams'[pendingStreams[i]] = streams[pendingStreams[i]]
        BY <1>1, <3>1
      <3>5. \A t \in DOMAIN tasks' : Reads(t)' => tasks'[t].stream # pendingStreams[i]
        BY <1>6, <3>1
      <3> QED BY <3>1, <3>2, <3>3, <3>4, <3>5
    <2>2. /\ <<p, gen>> = Current(p)' /\ pendingStreams'[<<p, gen>>] = continuations'[p]
          /\ streams'[n].open /\ <<p, gen>>[1] = p
      BY <1>1, <1>2, <1>4
    <2> QED BY <1>4, <1>6, <2>1, <2>2 DEF Staged
  <1>9. Readers'
    <2>1. \A t \in DOMAIN tasks, q \in Pairs :
            Reads(t) /\ continuations'[q] = tasks[t].stream => continuations[q] = tasks[t].stream /\ q # p
      BY <1>2, <1>6
    <2> QED BY <1>1, <1>2, <1>6, <2>1 DEF ServeInv, Readers
  <1>10. Served'
    <2> SUFFICES ASSUME NEW q \in Pairs, continuations'[q] # NoStream,
                        streams'[continuations'[q]].open, Current(q)' \notin DOMAIN pendingStreams'
                 PROVE  \E t \in DOMAIN tasks' : Reads(t)' /\ tasks'[t].stream = continuations'[q]
      BY DEF Served
    <2>1. q # p
      BY <1>2, <1>4
    <2>2. continuations[q] \in 1 .. Len(streams)
      BY <1>1, <1>2, <1>5, <2>1 DEF NoStream
    <2> QED BY <1>1, <1>2, <1>4, <1>6, <2>1, <2>2 DEF ServeInv, Served
  <1>11. /\ continuations' \in [Pairs -> 0 .. Len(streams')] /\ activePairs' \in [Pairs -> Nat]
         /\ DOMAIN pendingStreams' \subseteq Instances
         /\ \A i \in DOMAIN pendingStreams' : pendingStreams'[i] \in 1 .. Len(streams')
    <2>1. continuations' \in [Pairs -> 0 .. n] /\ activePairs' \in [Pairs -> Nat]
      BY <1>1 DEF Stage, TypeOK
    <2>2. <<p, gen>> \in Instances
      BY DEF Instances
    <2>3. \A i \in DOMAIN pendingStreams' : pendingStreams'[i] \in 1 .. n
      <3>1. \A i \in DOMAIN pendingStreams : pendingStreams[i] \in 1 .. Len(streams)
        BY DEF TypeOK
      <3>2. n \in 1 .. n /\ 1 .. Len(streams) \subseteq 1 .. n
        BY <1>1
      <3> QED BY <1>4, <3>1, <3>2
    <2>4. DOMAIN pendingStreams' \subseteq Instances
      BY <1>4, <2>2 DEF TypeOK
    <2> QED BY <1>1, <2>1, <2>3, <2>4
  <1> QED BY <1>1, <1>7, <1>8, <1>9, <1>10, <1>11 DEF ServeInv, Buf

LEMMA HostedKeeps ==
  ASSUME DriverInv, SubmitHosted
  PROVE  DriverInv'
  <1> DEFINE r == Head(mainQ)
             p == PairOf[r]
             c == continuations[p]
  <1>0. /\ TypeOK /\ ServeInv /\ RequestInv /\ mainQ # <<>> /\ mainQ' = Tail(mainQ)
        /\ attached' = TRUE
        /\ UNCHANGED <<callVars, window, viewVars, tasks, churns>>
    BY DEF DriverInv, SubmitHosted
  <1>1. mainQ' \in Seq(Requests) /\ r \in Requests /\ p \in Pairs
    BY <1>0, HeadLeaves, DriverAssumption DEF RequestInv
  <1>2. Len(streams) \in Nat /\ DOMAIN streams = 1 .. Len(streams)
    BY <1>0, Shapes
  <1>3. ASSUME NEW gen \in Nat \ {NoGen}, Stage(p, gen, r), c = NoStream \/ ~streams[c].open
        PROVE  DriverInv'
    <2>1. /\ ServeInv'
          /\ continuations' \in [Pairs -> 0 .. Len(streams')] /\ activePairs' \in [Pairs -> Nat]
          /\ DOMAIN pendingStreams' \subseteq Instances
          /\ \A i \in DOMAIN pendingStreams' : pendingStreams'[i] \in 1 .. Len(streams')
          /\ streams' \in Seq(StreamRecords) /\ Len(streams') = Len(streams) + 1
          /\ Buf(Len(streams))' = <<r>>
          /\ \A s \in DOMAIN streams : Buf(s)' = Buf(s)
      BY <1>0, <1>1, <1>3, StageServes
    <2>2. DOMAIN streams' = 1 .. (Len(streams) + 1)
      BY <2>1, LenProperties
    <2>3. tasks' \in Seq(TaskRecords(Len(streams')))
      <3>1. TaskRecords(Len(streams)) \subseteq TaskRecords(Len(streams'))
        BY <1>2, <2>1 DEF TaskRecords
      <3> QED BY <1>0, <3>1, Shapes, SeqMonotonic
    <2>4. TypeOK'
      BY <1>0, <1>1, <2>1, <2>3 DEF TypeOK, TaskRecords, StreamRecords, callVars, viewVars
    <2>5. RequestInv'
      <3>1. <<>> \in Seq(Requests) /\ Append(<<>>, r) = <<r>>
        BY <1>1
      <3>2. Len(streams') \in DOMAIN streams' /\ Buf(Len(streams))' = Append(<<>>, r)
        BY <1>2, <2>1, <2>2, <3>1
      <3>3. \A u \in DOMAIN streams' : u # Len(streams') => u \in DOMAIN streams /\ Buf(u)' = Buf(u)
        BY <1>2, <2>1, <2>2
      <3> QED BY <1>0, <3>1, <3>2, <3>3, RequestMoves DEF callVars, Buf
    <2> QED BY <2>1, <2>4, <2>5 DEF DriverInv
  <1>4. CASE c = NoStream /\ Stage(p, FirstGen, r)
    <2>1. FirstGen \in Nat \ {NoGen}
      BY DEF FirstGen, NoGen
    <2> QED BY <1>3, <1>4, <2>1
  <1>5. CASE c # NoStream /\ ~streams[c].open /\ Stage(p, activePairs[p] + 1, r)
    <2>1. activePairs[p] + 1 \in Nat \ {NoGen}
      BY <1>0, <1>1 DEF TypeOK, NoGen
    <2> QED BY <1>3, <1>5, <2>1
  <1>6. CASE /\ c # NoStream /\ streams' = [streams EXCEPT ![c].buf = Append(@, r)]
             /\ UNCHANGED driverVars
    <2>1. c \in DOMAIN streams /\ Buf(c) \in Seq(Requests) /\ Append(Buf(c), r) \in Seq(Requests)
      <3>1. c \in DOMAIN streams
        <4>1. c \in 0 .. Len(streams)
          BY <1>0, <1>1 DEF TypeOK
        <4>2. c # 0
          BY <1>6 DEF NoStream
        <4> HIDE DEF c
        <4> QED BY <1>2, <4>1, <4>2
      <3>2. Buf(c) \in Seq(Requests)
        BY <1>0, <3>1, Shapes DEF StreamRecords, Buf
      <3> QED BY <1>1, <3>1, <3>2, Appended
    <2>2. \A s \in DOMAIN streams : /\ streams'[s] \in StreamRecords
                                    /\ streams'[s].open = streams[s].open
                                    /\ s # c => Buf(s)' = Buf(s)
                                    /\ s = c => Buf(s)' = Append(Buf(s), r)
      BY <1>0, <1>6, <2>1, Shapes DEF StreamRecords, Buf
    <2>3. streams' \in Seq(StreamRecords) /\ Len(streams') = Len(streams) /\ DOMAIN streams' = DOMAIN streams
      <3>1. streams' \in [DOMAIN streams -> StreamRecords]
        BY <1>6, <2>2
      <3> QED BY <1>0, <3>1, SameLength, Shapes
    <2>4. TypeOK'
      BY <1>0, <1>1, <1>6, <2>3 DEF TypeOK, StreamRecords, callVars, driverVars, viewVars
    <2>5. ServeInv'
      <3>1. \A t : Reads(t)' = Reads(t)
        BY <1>0 DEF Reads
      <3> QED BY <1>0, <1>6, <2>2, <2>3, <3>1, ServiceStays
    <2>6. RequestInv'
      <3>1. PICK s \in DOMAIN streams : s = c
        BY <2>1
      <3>2. s \in DOMAIN streams' /\ Buf(s) \in Seq(Requests) /\ Buf(s)' = Append(Buf(s), r)
        BY <2>1, <2>2, <2>3, <3>1
      <3>3. \A u \in DOMAIN streams' : u # s => u \in DOMAIN streams /\ Buf(u)' = Buf(u)
        BY <2>2, <2>3, <3>1
      <3>4. UNCHANGED <<outcome, expired, tasks>>
        BY <1>0 DEF callVars
      <3> QED BY <1>0, <3>2, <3>3, <3>4, RequestMoves
    <2> QED BY <2>4, <2>5, <2>6 DEF DriverInv
  <1> QED BY <1>4, <1>5, <1>6 DEF SubmitHosted

-----------------------------------------------------------------------------
(* The pumps                                                               *)

LEMMA TakeServes ==
  ASSUME TypeOK, ServeInv, NEW t \in DOMAIN tasks, TakeStream(t),
         tasks[t].inst \in DOMAIN pendingStreams,
         DOMAIN tasks' = DOMAIN tasks,
         \A u \in DOMAIN tasks : u # t => tasks'[u] = tasks[u],
         tasks'[t].inst = tasks[t].inst, tasks'[t].phase = "pumping",
         tasks'[t].stream = pendingStreams[tasks[t].inst]
  PROVE  ServeInv'
  <1> DEFINE i == tasks[t].inst
             s == pendingStreams[i]
  <1>1. /\ UNCHANGED <<continuations, activePairs, streams>>
        /\ DOMAIN pendingStreams' = DOMAIN pendingStreams \ {i}
        /\ \A j \in DOMAIN pendingStreams' : pendingStreams'[j] = pendingStreams[j]
        /\ tasks[t].phase = "fired"
    BY DEF TakeStream, Restrict
  <1>2. /\ i[1] \in Pairs /\ i = Current(i[1]) /\ s = continuations[i[1]] /\ streams[s].open
        /\ s # NoStream /\ s \in DOMAIN streams
        /\ \A u \in DOMAIN tasks : Reads(u) => tasks[u].stream # s
    <2>1. i[1] \in Pairs /\ s \in 1 .. Len(streams)
      BY DEF TypeOK, Instances
    <2>2. s # NoStream /\ s \in DOMAIN streams
      BY <2>1, Shapes DEF NoStream
    <2> QED BY <2>1, <2>2 DEF ServeInv, Staged
  <1>3. \A p : Current(p)' = Current(p)
    BY <1>1 DEF Current
  <1>4. \A p \in Pairs : continuations[p] = s => p = i[1]
    BY <1>2 DEF ServeInv, Routes
  <1>5. \A u \in DOMAIN tasks : /\ u # t => Reads(u)' = Reads(u) /\ tasks'[u] = tasks[u]
                                /\ u = t => Reads(u)' /\ ~Reads(u)
    BY <1>1 DEF Reads
  <1>6. Routes'
    BY <1>1 DEF ServeInv, Routes
  <1>7. Staged'
    <2> SUFFICES ASSUME NEW j \in DOMAIN pendingStreams, j # i
                 PROVE  /\ j = Current(j[1]) /\ pendingStreams[j] = continuations[j[1]]
                        /\ streams[pendingStreams[j]].open
                        /\ \A u \in DOMAIN tasks : Reads(u)' => tasks'[u].stream # pendingStreams[j]
      BY <1>1, <1>3 DEF Staged
    <2>1. j[1] \in Pairs
      BY DEF TypeOK, Instances
    <2>2. pendingStreams[j] # s
      BY <1>2, <1>4, <2>1 DEF ServeInv, Staged
    <2> QED BY <1>5, <2>2 DEF ServeInv, Staged
  <1>8. Readers'
    <2>1. ASSUME NEW u \in DOMAIN tasks, u # t, Reads(u)
          PROVE  /\ tasks[u].stream \in DOMAIN streams /\ streams[tasks[u].stream].open
                 /\ \A v \in DOMAIN tasks : Reads(v)' /\ tasks'[v].stream = tasks[u].stream => v = u
                 /\ \A p \in Pairs : continuations[p] = tasks[u].stream => tasks[u].inst = Current(p)
      BY <1>2, <1>5, <2>1 DEF ServeInv, Readers
    <2>2. /\ s \in DOMAIN streams /\ streams[s].open
          /\ \A v \in DOMAIN tasks : Reads(v)' /\ tasks'[v].stream = s => v = t
          /\ \A p \in Pairs : continuations[p] = s => i = Current(p)
      BY <1>2, <1>4, <1>5
    <2> QED BY <1>1, <1>3, <1>5, <2>1, <2>2 DEF Readers
  <1>9. Served'
    <2> SUFFICES ASSUME NEW p \in Pairs, continuations[p] # NoStream, streams[continuations[p]].open,
                        Current(p) \notin DOMAIN pendingStreams'
                 PROVE  \E u \in DOMAIN tasks : Reads(u)' /\ tasks'[u].stream = continuations[p]
      BY <1>1, <1>3 DEF Served
    <2>1. CASE Current(p) = i
      <3>1. i[1] = p
        BY <2>1 DEF Current
      <3> QED BY <1>2, <1>5, <3>1
    <2>2. CASE Current(p) # i
      <3>1. PICK u \in DOMAIN tasks : Reads(u) /\ tasks[u].stream = continuations[p]
        BY <1>1, <2>2 DEF ServeInv, Served
      <3> QED BY <1>5, <3>1
    <2> QED BY <2>1, <2>2
  <1> QED BY <1>6, <1>7, <1>8, <1>9 DEF ServeInv

LEMMA TakeKeeps ==
  ASSUME DriverInv, NEW t \in DOMAIN tasks, TakeStream(t)
  PROVE  DriverInv'
  <1> DEFINE i == tasks[t].inst
  <1>0. /\ TypeOK /\ ServeInv /\ RequestInv /\ tasks[t].phase = "fired"
        /\ UNCHANGED <<callVars, mainQ, window, attached, continuations, activePairs, streams,
                       viewVars, churns>>
    BY DEF DriverInv, TakeStream
  <1>1. i \in DOMAIN pendingStreams => pendingStreams[i] \in 0 .. Len(streams)
    BY <1>0, Shapes DEF TypeOK
  <1>2. /\ \A u \in DOMAIN tasks : u # t => tasks'[u] = tasks[u]
        /\ tasks'[t] \in TaskRecords(Len(streams))
        /\ tasks'[t].inst = i /\ tasks'[t].req = tasks[t].req
        /\ tasks'[t].phase \in {"pumping", "done"}
        /\ tasks' \in [DOMAIN tasks -> TaskRecords(Len(streams))]
    <2>0. \A u \in DOMAIN tasks : tasks[u] \in TaskRecords(Len(streams))
      BY <1>0, Shapes
    <2>1. CASE i \in DOMAIN pendingStreams
      <3>1. tasks' = [tasks EXCEPT ![t].phase = "pumping", ![t].stream = pendingStreams[i]]
        BY <2>1 DEF TakeStream
      <3> QED BY <1>1, <2>0, <2>1, <3>1 DEF TaskRecords, Phases
    <2>2. CASE i \notin DOMAIN pendingStreams
      <3>1. tasks' = [tasks EXCEPT ![t].phase = "done"]
        BY <2>2 DEF TakeStream
      <3> QED BY <2>0, <3>1 DEF TaskRecords, Phases
    <2> QED BY <2>1, <2>2
  <1>3. tasks' \in Seq(TaskRecords(Len(streams))) /\ DOMAIN tasks' = DOMAIN tasks
    BY <1>0, <1>2, TasksTyped
  <1>4. TypeOK'
    <2>1. /\ DOMAIN pendingStreams' \subseteq Instances
          /\ \A j \in DOMAIN pendingStreams' : pendingStreams'[j] \in 1 .. Len(streams)
      BY <1>0 DEF TakeStream, Restrict, TypeOK
    <2>2. \A u \in DOMAIN tasks' : (tasks'[u].phase = "translating") <=> (tasks'[u].req # NoReq)
      BY <1>0, <1>2, <1>3 DEF TypeOK
    <2> QED BY <1>0, <1>3, <2>1, <2>2 DEF TypeOK, TaskRecords, callVars, viewVars
  <1>5. ServeInv'
    <2>1. CASE i \in DOMAIN pendingStreams
      <3>1. tasks'[t].phase = "pumping" /\ tasks'[t].stream = pendingStreams[i]
        <4>1. tasks[t] \in TaskRecords(Len(streams))
          BY <1>0, Shapes
        <4>2. tasks' = [tasks EXCEPT ![t].phase = "pumping", ![t].stream = pendingStreams[i]]
          BY <2>1 DEF TakeStream
        <4> HIDE DEF i
        <4> QED BY <4>1, <4>2 DEF TaskRecords
      <3>2. TypeOK /\ ServeInv /\ TakeStream(t) /\ tasks[t].inst \in DOMAIN pendingStreams
        BY <1>0, <2>1
      <3>3. /\ DOMAIN tasks' = DOMAIN tasks /\ tasks'[t].inst = tasks[t].inst
            /\ tasks'[t].phase = "pumping" /\ tasks'[t].stream = pendingStreams[tasks[t].inst]
        BY <1>2, <1>3, <3>1
      <3>4. \A u \in DOMAIN tasks : u # t => tasks'[u] = tasks[u]
        BY <1>2
      <3> HIDE DEF i
      <3> QED BY <3>2, <3>3, <3>4, TakeServes
    <2>2. CASE i \notin DOMAIN pendingStreams
      <3>1. tasks'[t].phase = "done" /\ UNCHANGED pendingStreams
        BY <1>0, <2>2, Shapes DEF TakeStream, TaskRecords
      <3>2. \A u \in DOMAIN tasks : Reads(u)' = Reads(u)
        BY <1>0, <1>2, <3>1 DEF Reads
      <3>3. ~Reads(t)
        BY <1>0 DEF Reads
      <3> QED BY <1>0, <1>2, <1>3, <3>1, <3>2, <3>3, ServiceStays DEF driverVars
    <2> QED BY <2>1, <2>2
  <1>6. RequestInv'
    <2>1. \A u \in DOMAIN tasks' : tasks'[u].phase = "translating" =>
            u \in DOMAIN tasks /\ tasks[u].phase = "translating" /\ tasks'[u].req = tasks[u].req
      BY <1>2, <1>3
    <2> QED BY <1>0, <2>1, RequestsStay DEF Buf, callVars, Awaited
  <1> QED BY <1>4, <1>5, <1>6 DEF DriverInv

(* The stream of a pump exists.                                            *)
LEMMA OwnStream ==
  ASSUME TypeOK, ServeInv, NEW t \in DOMAIN tasks, Reads(t)
  PROVE  /\ tasks[t].stream \in DOMAIN streams /\ Buf(tasks[t].stream) \in Seq(Requests)
         /\ streams[tasks[t].stream] \in StreamRecords
  <1>1. tasks[t].stream \in DOMAIN streams
    BY DEF ServeInv, Readers
  <1> QED BY <1>1, Shapes DEF StreamRecords, Buf

(* A stream is replaced by one with another buffer or another life.        *)
LEMMA StreamsTyped ==
  ASSUME TypeOK, NEW s \in DOMAIN streams, NEW w \in StreamRecords,
         streams' = [streams EXCEPT ![s] = w]
  PROVE  /\ streams' \in Seq(StreamRecords)
         /\ Len(streams') = Len(streams) /\ DOMAIN streams' = DOMAIN streams
         /\ streams'[s] = w
         /\ \A u \in DOMAIN streams : u # s => streams'[u] = streams[u]
  <1>1. streams' \in [DOMAIN streams -> StreamRecords]
    BY Shapes
  <1> QED BY <1>1, SameLength, Shapes

(* What is left in a buffer when its head is taken.                        *)
LEMMA BufferShifts ==
  ASSUME TypeOK, OneCopy, NEW s \in DOMAIN streams, Buf(s) \in Seq(Requests), Buf(s) # <<>>,
         NEW r, r = Head(Buf(s)),
         DOMAIN streams' = DOMAIN streams, Buf(s)' = Tail(Buf(s)),
         \A u \in DOMAIN streams : u # s => Buf(u)' = Buf(u)
  PROVE  /\ r \in Requests
         /\ \E j \in DOMAIN Buf(s) : Buf(s)[j] = r
         /\ \A i \in DOMAIN mainQ : mainQ[i] # r
         /\ \A u \in DOMAIN streams : \A j \in DOMAIN Buf(u)' :
              /\ Buf(u)'[j] # r
              /\ \E k \in DOMAIN Buf(u) : Buf(u)'[j] = Buf(u)[k]
         /\ \A u \in DOMAIN streams : \A i, j \in DOMAIN Buf(u)' : Buf(u)'[i] = Buf(u)'[j] => i = j
  <1>1. /\ r = Buf(s)[1] /\ r \in Requests
        /\ Len(Buf(s)) \in Nat /\ Len(Buf(s)) >= 1 /\ DOMAIN Buf(s) = 1 .. Len(Buf(s))
        /\ DOMAIN Tail(Buf(s)) = 1 .. (Len(Buf(s)) - 1)
        /\ \A i \in 1 .. (Len(Buf(s)) - 1) : Tail(Buf(s))[i] = Buf(s)[i + 1]
    BY Shifted
  <1>2. 1 \in DOMAIN Buf(s)
    BY <1>1
  <1>3. \A j \in DOMAIN Buf(s)' : j \in Nat /\ j + 1 \in DOMAIN Buf(s) /\ j + 1 # 1 /\ Buf(s)'[j] = Buf(s)[j + 1]
    BY <1>1
  <1>4. \A i, j \in DOMAIN Buf(s)' : i + 1 = j + 1 => i = j
    BY <1>3
  <1>5. \A i \in DOMAIN mainQ : mainQ[i] # r
    BY <1>1, <1>2 DEF OneCopy
  <1>6. ASSUME NEW u \in DOMAIN streams, NEW j \in DOMAIN Buf(u)'
        PROVE  Buf(u)'[j] # r /\ \E k \in DOMAIN Buf(u) : Buf(u)'[j] = Buf(u)[k]
    <2>1. CASE u = s
      BY <1>1, <1>2, <1>3, <1>6, <2>1 DEF OneCopy
    <2>2. CASE u # s
      BY <1>1, <1>2, <1>6, <2>2 DEF OneCopy
    <2> QED BY <2>1, <2>2
  <1>7. ASSUME NEW u \in DOMAIN streams, NEW i \in DOMAIN Buf(u)', NEW j \in DOMAIN Buf(u)',
               Buf(u)'[i] = Buf(u)'[j]
        PROVE  i = j
    <2>1. CASE u = s
      BY <1>3, <1>4, <1>7, <2>1 DEF OneCopy
    <2>2. CASE u # s
      BY <1>7, <2>2 DEF OneCopy
    <2> QED BY <2>1, <2>2
  <1> QED BY <1>1, <1>2, <1>5, <1>6, <1>7

(* A task is replaced by one in another phase or with another request.     *)
LEMMA TaskReplaced ==
  ASSUME TypeOK, NEW t \in DOMAIN tasks, NEW w \in TaskRecords(Len(streams)),
         tasks' = [tasks EXCEPT ![t] = w]
  PROVE  /\ tasks'[t] = w
         /\ \A u \in DOMAIN tasks : u # t => tasks'[u] = tasks[u]
         /\ tasks' \in [DOMAIN tasks -> TaskRecords(Len(streams))]
  <1>1. \A u \in DOMAIN tasks : tasks[u] \in TaskRecords(Len(streams))
    BY Shapes
  <1>2. tasks' = [u \in DOMAIN tasks |-> IF u = t THEN w ELSE tasks[u]]
    OBVIOUS
  <1>3. tasks'[t] = w /\ \A u \in DOMAIN tasks : u # t => tasks'[u] = tasks[u]
    BY <1>2
  <1>4. tasks' \in [DOMAIN tasks -> TaskRecords(Len(streams))]
    BY <1>1, <1>2
  <1> QED BY <1>3, <1>4

(* The types of what a pump writes, when it leaves the rest alone.         *)
LEMMA TypeFrame ==
  ASSUME TypeOK, UNCHANGED <<expired, mainQ, window, attached, driverVars, viewVars, churns>>,
         outcome' \in [Requests -> Outcomes],
         streams' \in Seq(StreamRecords), Len(streams') = Len(streams),
         tasks' \in Seq(TaskRecords(Len(streams'))),
         \A u \in DOMAIN tasks' : (tasks'[u].phase = "translating") <=> (tasks'[u].req # NoReq)
  PROVE  TypeOK'
  <1>1. streams' \in Seq([buf : Seq(Requests), open : BOOLEAN])
    BY DEF StreamRecords
  <1>2. tasks' \in Seq([inst : Instances, phase : Phases, stream : 0 .. Len(streams'),
                        req : Requests \cup {NoReq}, cancelled : BOOLEAN])
    BY DEF TaskRecords
  <1>3. UNCHANGED <<expired, mainQ, window, attached, continuations, activePairs, pendingStreams,
                    viewVars, churns>>
    BY DEF driverVars
  <1> QED BY <1>1, <1>2, <1>3 DEF TypeOK, viewVars

LEMMA PumpNextKeeps ==
  ASSUME DriverInv, NEW t \in DOMAIN tasks, PumpNext(t)
  PROVE  DriverInv'
  <1>0. /\ TypeOK /\ ServeInv /\ RequestInv /\ OneCopy
        /\ UNCHANGED <<expired, mainQ, window, attached, driverVars, viewVars, churns>>
        /\ tasks[t].phase = "pumping" /\ Reads(t)
    BY DEF DriverInv, RequestInv, PumpNext, Reads
  <1>1. PICK s \in DOMAIN streams : s = tasks[t].stream
    BY <1>0, OwnStream
  <1>2. PICK r : r = Head(Buf(s))
    OBVIOUS
  <1>3. /\ Buf(s) \in Seq(Requests) /\ Buf(s) # <<>> /\ streams[s] \in StreamRecords
        /\ streams' = [streams EXCEPT ![s].buf = Tail(@)]
        /\ \/ r \in expired /\ OnResult(r, "Timeout") /\ UNCHANGED tasks
           \/ /\ r \notin expired
              /\ tasks' = [tasks EXCEPT ![t].phase = "translating", ![t].req = r]
              /\ UNCHANGED outcome
    BY <1>0, <1>1, <1>2, OwnStream DEF PumpNext, Buf
  <1>4. /\ streams' \in Seq(StreamRecords) /\ Len(streams') = Len(streams)
        /\ DOMAIN streams' = DOMAIN streams
        /\ streams'[s].buf = Tail(Buf(s)) /\ streams'[s].open = streams[s].open
        /\ \A u \in DOMAIN streams : u # s => streams'[u] = streams[u]
    <2> DEFINE w == [streams[s] EXCEPT !.buf = Tail(@)]
    <2>1. w \in StreamRecords /\ w.buf = Tail(Buf(s)) /\ w.open = streams[s].open
      BY <1>3, Shifted DEF StreamRecords, Buf
    <2>2. streams' = [streams EXCEPT ![s] = w]
      BY <1>3
    <2> HIDE DEF w
    <2> QED BY <1>0, <2>1, <2>2, StreamsTyped
  <1>5. /\ r \in Requests
        /\ \E j \in DOMAIN Buf(s) : Buf(s)[j] = r
        /\ \A i \in DOMAIN mainQ : mainQ[i] # r
        /\ \A u \in DOMAIN streams : \A j \in DOMAIN Buf(u)' :
             /\ Buf(u)'[j] # r
             /\ \E k \in DOMAIN Buf(u) : Buf(u)'[j] = Buf(u)[k]
        /\ \A u \in DOMAIN streams : \A i, j \in DOMAIN Buf(u)' : Buf(u)'[i] = Buf(u)'[j] => i = j
    <2>1. Buf(s)' = Tail(Buf(s)) /\ \A u \in DOMAIN streams : u # s => Buf(u)' = Buf(u)
      BY <1>4 DEF Buf
    <2>2. DOMAIN streams' = DOMAIN streams /\ Buf(s) \in Seq(Requests) /\ Buf(s) # <<>>
      BY <1>3, <1>4
    <2>3. TypeOK /\ OneCopy
      BY <1>0
    <2> QED BY <1>2, <2>1, <2>2, <2>3, BufferShifts
  <1>6. /\ outcome' \in [Requests -> Outcomes]
        /\ \A q \in Requests : q # r => outcome'[q] = outcome[q]
        /\ \A q \in Requests : outcome[q] # "unasked" => outcome'[q] # "unasked"
    <2>1. CASE OnResult(r, "Timeout")
      BY <1>0, <1>5, <2>1, Answered DEF Outcomes
    <2>2. CASE UNCHANGED outcome
      BY <1>0, <2>2 DEF TypeOK
    <2> QED BY <1>3, <2>1, <2>2
  <1>7. /\ \A u \in DOMAIN tasks : u # t => tasks'[u] = tasks[u]
        /\ tasks'[t].inst = tasks[t].inst /\ tasks'[t].stream = s
        /\ \/ tasks'[t] = tasks[t]
           \/ tasks'[t].phase = "translating" /\ tasks'[t].req = r
        /\ tasks' \in [DOMAIN tasks -> TaskRecords(Len(streams))]
    <2>1. CASE UNCHANGED tasks
      <3>1. tasks \in [DOMAIN tasks -> TaskRecords(Len(streams))]
        BY <1>0, Shapes, LenProperties
      <3> QED BY <1>1, <2>1, <3>1
    <2>2. CASE tasks' = [tasks EXCEPT ![t].phase = "translating", ![t].req = r]
      <3> DEFINE w == [tasks[t] EXCEPT !.phase = "translating", !.req = r]
      <3>1. tasks[t] \in TaskRecords(Len(streams))
        BY <1>0, Shapes
      <3>2. "translating" \in Phases /\ r \in Requests \cup {NoReq}
        BY <1>5 DEF Phases
      <3>3. /\ w \in TaskRecords(Len(streams)) /\ w.phase = "translating" /\ w.req = r
            /\ w.inst = tasks[t].inst /\ w.stream = tasks[t].stream
        BY <3>1, <3>2 DEF TaskRecords
      <3>4. TypeOK /\ tasks' = [tasks EXCEPT ![t] = w]
        BY <1>0, <2>2
      <3> HIDE DEF w
      <3>5. /\ tasks'[t] = w
            /\ \A u \in DOMAIN tasks : u # t => tasks'[u] = tasks[u]
            /\ tasks' \in [DOMAIN tasks -> TaskRecords(Len(streams))]
        BY <3>3, <3>4, TaskReplaced
      <3> QED BY <1>1, <3>3, <3>5
    <2> QED BY <1>3, <2>1, <2>2
  <1>8. tasks' \in Seq(TaskRecords(Len(streams))) /\ DOMAIN tasks' = DOMAIN tasks
    BY <1>0, <1>7, TasksTyped
  <1>9. TypeOK'
    <2>1. r # NoReq
      BY <1>5, DriverAssumption
    <2>2. \A u \in DOMAIN tasks' : (tasks'[u].phase = "translating") <=> (tasks'[u].req # NoReq)
      BY <1>0, <1>7, <1>8, <2>1 DEF TypeOK
    <2>3. Len(streams') = Len(streams) /\ streams' \in Seq(StreamRecords)
          /\ tasks' \in Seq(TaskRecords(Len(streams'))) /\ outcome' \in [Requests -> Outcomes]
      BY <1>4, <1>6, <1>8
    <2>4. TypeOK /\ UNCHANGED <<expired, mainQ, window, attached, driverVars, viewVars, churns>>
      BY <1>0
    <2> QED BY <2>2, <2>3, <2>4, TypeFrame
  <1>10. ServeInv'
    <2>1. \A u \in DOMAIN tasks : Reads(u)' = Reads(u)
      BY <1>0, <1>7 DEF Reads
    <2>2. \A u \in DOMAIN streams : streams'[u].open = streams[u].open
      BY <1>4
    <2> QED BY <1>0, <1>1, <1>4, <1>7, <1>8, <2>1, <2>2, ServiceStays
  <1>11. OneCopy'
    <2>1. \A u, v \in DOMAIN streams : \A i \in DOMAIN Buf(u)', j \in DOMAIN Buf(v)' :
            Buf(u)'[i] = Buf(v)'[j] => u = v
      BY <1>0, <1>5 DEF OneCopy
    <2>2. \A i \in DOMAIN mainQ : \A u \in DOMAIN streams : \A j \in DOMAIN Buf(u)' : mainQ[i] # Buf(u)'[j]
      BY <1>0, <1>5 DEF OneCopy
    <2> QED BY <1>0, <1>4, <1>5, <2>1, <2>2 DEF OneCopy
  <1>12. InSession'
    <2>1. outcome[r] # "unasked"
      BY <1>0, <1>5 DEF RequestInv, QueuedAwaited, Awaited
    <2>2. ASSUME NEW u \in DOMAIN tasks, tasks'[u].phase = "translating"
          PROVE  \/ tasks'[u].req = r
                 \/ tasks[u].phase = "translating" /\ tasks'[u].req = tasks[u].req
      BY <1>0, <1>7, <2>2
    <2> QED BY <1>0, <1>4, <1>5, <1>6, <1>8, <2>1, <2>2, QueuedAreRequests
      DEF RequestInv, InSession
  <1>13. QueuedAwaited'
    <2>1. \A q \in Requests : q # r /\ Awaited(q) => Awaited(q)'
      BY <1>0, <1>6 DEF Awaited
    <2> QED BY <1>0, <1>4, <1>5, <2>1, QueuedAreRequests DEF RequestInv, QueuedAwaited
  <1> QED BY <1>9, <1>10, <1>11, <1>12, <1>13 DEF DriverInv, RequestInv

LEMMA TranslatedKeeps ==
  ASSUME DriverInv, NEW t \in DOMAIN tasks, NEW status \in {"Ok", "Error"}, Translated(t, status)
  PROVE  DriverInv'
  <1> DEFINE r == tasks[t].req
  <1>0. /\ TypeOK /\ ServeInv /\ RequestInv
        /\ UNCHANGED <<expired, mainQ, window, attached, driverVars, streams, viewVars, churns>>
        /\ tasks[t].phase = "translating" /\ OnResult(r, status)
        /\ tasks' = [tasks EXCEPT ![t].phase = "pumping", ![t].req = NoReq]
    BY DEF DriverInv, Translated
  <1>1. r \in Requests
    BY <1>0, QueuedAreRequests
  <1>2. /\ outcome' \in [Requests -> Outcomes]
        /\ \A q \in Requests : q # r => outcome'[q] = outcome[q]
        /\ \A q \in Requests : outcome[q] # "unasked" => outcome'[q] # "unasked"
    BY <1>0, <1>1, Answered DEF Outcomes
  <1>3. /\ \A u \in DOMAIN tasks : u # t => tasks'[u] = tasks[u]
        /\ tasks'[t].inst = tasks[t].inst /\ tasks'[t].stream = tasks[t].stream
        /\ tasks'[t].phase = "pumping" /\ tasks'[t].req = NoReq
        /\ tasks' \in [DOMAIN tasks -> TaskRecords(Len(streams))]
    <2> DEFINE w == [tasks[t] EXCEPT !.phase = "pumping", !.req = NoReq]
    <2>1. tasks[t] \in TaskRecords(Len(streams))
      BY <1>0, Shapes
    <2>2. "pumping" \in Phases /\ NoReq \in Requests \cup {NoReq}
      BY DEF Phases
    <2>3. /\ w \in TaskRecords(Len(streams)) /\ w.phase = "pumping" /\ w.req = NoReq
          /\ w.inst = tasks[t].inst /\ w.stream = tasks[t].stream
      BY <2>1, <2>2 DEF TaskRecords
    <2>4. TypeOK /\ tasks' = [tasks EXCEPT ![t] = w]
      BY <1>0
    <2> HIDE DEF w
    <2>5. /\ tasks'[t] = w
          /\ \A u \in DOMAIN tasks : u # t => tasks'[u] = tasks[u]
          /\ tasks' \in [DOMAIN tasks -> TaskRecords(Len(streams))]
      BY <2>3, <2>4, TaskReplaced
    <2> QED BY <2>3, <2>5
  <1>4. tasks' \in Seq(TaskRecords(Len(streams))) /\ DOMAIN tasks' = DOMAIN tasks
    BY <1>0, <1>3, TasksTyped
  <1>5. TypeOK'
    <2>1. \A u \in DOMAIN tasks' : (tasks'[u].phase = "translating") <=> (tasks'[u].req # NoReq)
      BY <1>0, <1>3, <1>4 DEF TypeOK
    <2>2. Len(streams') = Len(streams) /\ streams' \in Seq(StreamRecords)
          /\ tasks' \in Seq(TaskRecords(Len(streams'))) /\ outcome' \in [Requests -> Outcomes]
      BY <1>0, <1>2, <1>4, Shapes
    <2>3. TypeOK /\ UNCHANGED <<expired, mainQ, window, attached, driverVars, viewVars, churns>>
      BY <1>0
    <2> QED BY <2>1, <2>2, <2>3, TypeFrame
  <1>6. ServeInv'
    <2>1. \A u \in DOMAIN tasks : Reads(u)' = Reads(u)
      BY <1>0, <1>3 DEF Reads
    <2> QED BY <1>0, <1>3, <1>4, <2>1, ServiceStays
  <1>7. RequestInv'
    <2>1. ~Queued(r)
      BY <1>0 DEF RequestInv, InSession, Queued
    <2>2. \A q \in Requests : Queued(q) /\ Awaited(q) => Awaited(q)'
      BY <1>0, <1>2, <2>1 DEF Awaited
    <2>3. \A u \in DOMAIN tasks' : tasks'[u].phase = "translating" =>
            u \in DOMAIN tasks /\ tasks[u].phase = "translating" /\ tasks'[u].req = tasks[u].req
      BY <1>3, <1>4
    <2> QED BY <1>0, <1>2, <2>2, <2>3, RequestsStay DEF Buf
  <1> QED BY <1>5, <1>6, <1>7 DEF DriverInv

(* A pump that ends takes its stream with it: it is terminated, and it was *)
(* neither staged nor read by another.                                     *)
LEMMA EndServes ==
  ASSUME TypeOK, ServeInv, NEW t \in DOMAIN tasks, Reads(t), NEW s \in DOMAIN streams,
         s = tasks[t].stream, UNCHANGED driverVars,
         DOMAIN streams' = DOMAIN streams, streams'[s].open = FALSE,
         \A u \in DOMAIN streams : u # s => streams'[u] = streams[u],
         DOMAIN tasks' = DOMAIN tasks, tasks'[t].phase = "done",
         \A u \in DOMAIN tasks : u # t => tasks'[u] = tasks[u]
  PROVE  ServeInv'
  <1>1. continuations' = continuations /\ activePairs' = activePairs /\ pendingStreams' = pendingStreams
    BY DEF driverVars
  <1>2. \A p : Current(p)' = Current(p)
    BY <1>1 DEF Current
  <1>3. \A u \in DOMAIN tasks : Reads(u)' => u # t /\ Reads(u) /\ tasks'[u] = tasks[u] /\ tasks[u].stream # s
    BY DEF Reads, ServeInv, Readers
  <1>4. \A u \in DOMAIN tasks : u # t /\ Reads(u) => Reads(u)' /\ tasks'[u] = tasks[u]
    BY DEF Reads
  <1>5. \A i \in DOMAIN pendingStreams : pendingStreams[i] \in DOMAIN streams /\ pendingStreams[i] # s
    BY Shapes DEF TypeOK, ServeInv, Staged
  <1>6. Routes'
    BY <1>1 DEF ServeInv, Routes
  <1>7. Staged'
    BY <1>1, <1>2, <1>3, <1>5 DEF ServeInv, Staged
  <1>8. Readers'
    BY <1>1, <1>2, <1>3 DEF ServeInv, Readers
  <1>9. Served'
    <2>1. \A p \in Pairs : continuations[p] # NoStream => continuations[p] \in DOMAIN streams
      BY Shapes DEF TypeOK, NoStream
    <2> QED BY <1>1, <1>2, <1>4, <2>1 DEF ServeInv, Served
  <1> QED BY <1>6, <1>7, <1>8, <1>9 DEF ServeInv

LEMMA CancelKeeps ==
  ASSUME DriverInv, NEW t \in DOMAIN tasks, PumpCancelled(t)
  PROVE  DriverInv'
  <1> DEFINE new == [buf |-> <<>>, open |-> FALSE]
  <1>0. /\ TypeOK /\ ServeInv /\ RequestInv
        /\ UNCHANGED <<expired, mainQ, window, attached, driverVars, viewVars, churns>>
        /\ Reads(t)
        /\ \/ tasks[t].phase = "pumping" /\ UNCHANGED outcome
           \/ tasks[t].phase = "translating" /\ OnResult(tasks[t].req, "Timeout")
        /\ tasks' = [tasks EXCEPT ![t].phase = "done", ![t].req = NoReq]
    BY DEF DriverInv, PumpCancelled, Reads
  <1>1. PICK s \in DOMAIN streams : s = tasks[t].stream
    BY <1>0, OwnStream
  <1>2. /\ streams' \in Seq(StreamRecords) /\ Len(streams') = Len(streams)
        /\ DOMAIN streams' = DOMAIN streams
        /\ streams'[s].buf = <<>> /\ streams'[s].open = FALSE
        /\ \A u \in DOMAIN streams : u # s => streams'[u] = streams[u]
    <2>1. new \in StreamRecords
      BY DEF StreamRecords
    <2>2. streams' = [streams EXCEPT ![s] = new]
      BY <1>1 DEF PumpCancelled
    <2> QED BY <1>0, <2>1, <2>2, StreamsTyped
  <1>3. /\ \A u \in DOMAIN tasks : u # t => tasks'[u] = tasks[u]
        /\ tasks'[t].phase = "done" /\ tasks'[t].req = NoReq
        /\ tasks' \in [DOMAIN tasks -> TaskRecords(Len(streams))]
    <2> DEFINE w == [tasks[t] EXCEPT !.phase = "done", !.req = NoReq]
    <2>1. tasks[t] \in TaskRecords(Len(streams))
      BY <1>0, Shapes
    <2>2. "done" \in Phases /\ NoReq \in Requests \cup {NoReq}
      BY DEF Phases
    <2>3. /\ w \in TaskRecords(Len(streams)) /\ w.phase = "done" /\ w.req = NoReq
          /\ w.inst = tasks[t].inst /\ w.stream = tasks[t].stream
      BY <2>1, <2>2 DEF TaskRecords
    <2>4. TypeOK /\ tasks' = [tasks EXCEPT ![t] = w]
      BY <1>0
    <2> HIDE DEF w
    <2>5. /\ tasks'[t] = w
          /\ \A u \in DOMAIN tasks : u # t => tasks'[u] = tasks[u]
          /\ tasks' \in [DOMAIN tasks -> TaskRecords(Len(streams))]
      BY <2>3, <2>4, TaskReplaced
    <2> QED BY <2>3, <2>5
  <1>4. tasks' \in Seq(TaskRecords(Len(streams))) /\ DOMAIN tasks' = DOMAIN tasks
    BY <1>0, <1>3, TasksTyped
  <1>5. /\ outcome' \in [Requests -> Outcomes]
        /\ \A q \in Requests : outcome[q] # "unasked" => outcome'[q] # "unasked"
        /\ \A q \in Requests :
             outcome'[q] = outcome[q] \/ (tasks[t].phase = "translating" /\ q = tasks[t].req)
    <2>1. CASE tasks[t].phase = "pumping" /\ UNCHANGED outcome
      BY <1>0, <2>1 DEF TypeOK
    <2>2. CASE tasks[t].phase = "translating" /\ OnResult(tasks[t].req, "Timeout")
      <3>1. tasks[t].req \in Requests
        BY <1>0, <2>2, QueuedAreRequests
      <3> QED BY <1>0, <2>2, <3>1, Answered DEF Outcomes
    <2> QED BY <1>0, <2>1, <2>2
  <1>6. TypeOK'
    <2>1. \A u \in DOMAIN tasks' : (tasks'[u].phase = "translating") <=> (tasks'[u].req # NoReq)
      BY <1>0, <1>3, <1>4 DEF TypeOK
    <2>2. Len(streams') = Len(streams) /\ streams' \in Seq(StreamRecords)
          /\ tasks' \in Seq(TaskRecords(Len(streams'))) /\ outcome' \in [Requests -> Outcomes]
      BY <1>2, <1>4, <1>5
    <2>3. TypeOK /\ UNCHANGED <<expired, mainQ, window, attached, driverVars, viewVars, churns>>
      BY <1>0
    <2> QED BY <2>1, <2>2, <2>3, TypeFrame
  <1>7. ServeInv'
    <2>1. TypeOK /\ ServeInv /\ Reads(t) /\ UNCHANGED driverVars
      BY <1>0
    <2>2. /\ DOMAIN tasks' = DOMAIN tasks /\ tasks'[t].phase = "done"
          /\ \A u \in DOMAIN tasks : u # t => tasks'[u] = tasks[u]
      BY <1>3, <1>4
    <2>3. /\ DOMAIN streams' = DOMAIN streams /\ streams'[s].open = FALSE
          /\ \A u \in DOMAIN streams : u # s => streams'[u] = streams[u]
      BY <1>2
    <2> QED BY <1>1, <2>1, <2>2, <2>3, EndServes
  <1>8. RequestInv'
    <2>1. tasks[t].phase = "translating" => ~Queued(tasks[t].req)
      BY <1>0 DEF RequestInv, InSession, Queued
    <2>2. \A q \in Requests : Queued(q) /\ Awaited(q) => Awaited(q)'
      BY <1>0, <1>5, <2>1 DEF Awaited
    <2>3. \A u \in DOMAIN streams : Buf(u)' = Buf(u) \/ Buf(u)' = <<>>
      BY <1>2 DEF Buf
    <2>4. \A u \in DOMAIN tasks' : tasks'[u].phase = "translating" =>
            u \in DOMAIN tasks /\ tasks[u].phase = "translating" /\ tasks'[u].req = tasks[u].req
      BY <1>3, <1>4
    <2> QED BY <1>0, <1>2, <1>5, <2>2, <2>3, <2>4, RequestsStay
  <1> QED BY <1>6, <1>7, <1>8 DEF DriverInv

-----------------------------------------------------------------------------

LEMMA DriverInvInit == Init => DriverInv
  <1> SUFFICES ASSUME Init PROVE DriverInv
    OBVIOUS
  <1>1. /\ DOMAIN pendingStreams = {} /\ DOMAIN streams = {} /\ DOMAIN tasks = {} /\ DOMAIN mainQ = {}
        /\ Len(streams) = 0
    BY DEF Init
  <1>2. TypeOK
    <2>1. mainQ \in Seq(Requests) /\ streams \in Seq([buf : Seq(Requests), open : BOOLEAN])
      BY EmptySeq DEF Init
    <2>2. tasks \in Seq([inst : Instances, phase : Phases, stream : 0 .. Len(streams),
                         req : Requests \cup {NoReq}, cancelled : BOOLEAN])
      BY EmptySeq DEF Init
    <2>3. churns \in 0 .. MaxChurns
      BY DriverAssumption DEF Init
    <2>4. outcome \in [Requests -> Outcomes] /\ window \in BOOLEAN /\ attached \in BOOLEAN
      BY DEF Init, Outcomes
    <2>5. continuations \in [Pairs -> 0 .. Len(streams)] /\ activePairs \in [Pairs -> Nat]
      BY <1>1 DEF Init, NoStream, NoGen
    <2> QED BY <1>1, <2>1, <2>2, <2>3, <2>4, <2>5 DEF Init, TypeOK
  <1>3. ServeInv
    BY <1>1 DEF Init, ServeInv, Routes, Staged, Readers, Served
  <1>4. RequestInv
    BY <1>1 DEF RequestInv, OneCopy, InSession, QueuedAwaited
  <1> QED BY <1>2, <1>3, <1>4 DEF DriverInv

LEMMA DriverInvStep == DriverInv /\ [Next]_vars => DriverInv'
  <1> SUFFICES ASSUME DriverInv, [Next]_vars PROVE DriverInv'
    OBVIOUS
  <1>1. ASSUME NEW r \in Requests, Call(r) \/ Expire(r) \/ WaitTimesOut(r) PROVE DriverInv'
    BY <1>1, CallKeeps, ClockKeeps
  <1>2. CASE Submit
    BY <1>2, UnhostedKeeps, HostedKeeps DEF Submit
  <1>3. CASE WindowDestroyed \/ WindowCreated
    BY <1>3, WindowKeeps
  <1>4. ASSUME NEW p \in Pairs, Mount(p) PROVE DriverInv'
    BY <1>4, MountKeeps
  <1>5. ASSUME NEW i \in mounted, Unmount(i) PROVE DriverInv'
    BY <1>5, UnmountKeeps
  <1>6. ASSUME NEW t \in DOMAIN tasks, Pump(t) PROVE DriverInv'
    BY <1>6, TakeKeeps, PumpNextKeeps, CancelKeeps, TranslatedKeeps DEF Pump
  <1>7. CASE UNCHANGED vars
    <2>1. UNCHANGED <<outcome, expired, mainQ, window, attached, continuations, activePairs,
                      pendingStreams, streams, mounted, leaving, tasks, churns>>
      BY <1>7 DEF vars
    <2>2. TypeOK'
      BY <2>1 DEF DriverInv, TypeOK
    <2>3. ServeInv'
      BY <2>1 DEF DriverInv, ServeInv, Routes, Staged, Readers, Served, Reads, Current
    <2>4. RequestInv'
      BY <2>1 DEF DriverInv, RequestInv, OneCopy, InSession, QueuedAwaited, Awaited, Buf
    <2> QED BY <2>2, <2>3, <2>4 DEF DriverInv
  <1> QED BY <1>1, <1>2, <1>3, <1>4, <1>5, <1>6, <1>7 DEF Next

LEMMA DriverInvHolds == Spec => []DriverInv
  BY DriverInvInit, DriverInvStep, PTL DEF Spec

(* The driver's tables, streams and pumps keep their types: no stream is   *)
(* referred to that was not made, and a pump has a request exactly while it*)
(* translates.                                                             *)
THEOREM DriverTypes == Spec => []TypeOK
  BY DriverInvHolds, PTL DEF DriverInv

(* The service described by the invariant is the one StreamIsServed asks   *)
(* for.                                                                    *)
LEMMA ServiceServes == DriverInv => StreamIsServed
  <1> SUFFICES ASSUME DriverInv, NEW p \in Pairs, continuations[p] # NoStream
               PROVE  LET s == continuations[p]
                          staged == /\ Current(p) \in DOMAIN pendingStreams
                                    /\ pendingStreams[Current(p)] = s IN
                      CASE ~streams[s].open -> ~staged /\ Pumps(s) = {}
                        [] staged           -> Pumps(s) = {}
                        [] OTHER            -> \E t \in DOMAIN tasks :
                                                 Pumps(s) = {t} /\ tasks[t].inst = Current(p)
    BY DEF StreamIsServed
  <1> DEFINE s == continuations[p]
             staged == Current(p) \in DOMAIN pendingStreams /\ pendingStreams[Current(p)] = s
  <1>0. TypeOK /\ Routes /\ Staged /\ Readers /\ Served
    BY DEF DriverInv, ServeInv
  <1>1. Pumps(s) = {t \in DOMAIN tasks : Reads(t) /\ tasks[t].stream = s}
    BY DEF Pumps, Reads
  <1>2. Current(p) \in DOMAIN pendingStreams => staged
    <2>1. Current(p)[1] = p
      BY DEF Current
    <2> QED BY <1>0, <2>1 DEF Staged
  <1>3. staged => streams[s].open /\ Pumps(s) = {}
    BY <1>0, <1>1 DEF Staged
  <1>4. Pumps(s) # {} => streams[s].open
    BY <1>0, <1>1 DEF Readers
  <1>5. streams[s].open /\ ~staged => \E t \in DOMAIN tasks : Pumps(s) = {t} /\ tasks[t].inst = Current(p)
    <2> SUFFICES ASSUME streams[s].open, ~staged
                 PROVE  \E t \in DOMAIN tasks : Pumps(s) = {t} /\ tasks[t].inst = Current(p)
      OBVIOUS
    <2>1. PICK t \in DOMAIN tasks : Reads(t) /\ tasks[t].stream = s
      BY <1>0, <1>2 DEF Served
    <2>2. Pumps(s) = {t} /\ tasks[t].inst = Current(p)
      BY <1>0, <1>1, <2>1 DEF Readers
    <2> QED BY <2>2
  <1> HIDE DEF s, staged
  <1>6. CASE ~streams[s].open
    BY <1>3, <1>4, <1>6 DEF s, staged
  <1>7. CASE streams[s].open /\ staged
    BY <1>3, <1>7 DEF s, staged
  <1>8. CASE streams[s].open /\ ~staged
    BY <1>5, <1>8 DEF s, staged
  <1> QED BY <1>6, <1>7, <1>8

(* The stream a pair's requests go to is staged for its current instance,  *)
(* read by that instance's pump alone, or terminated, whatever the order of*)
(* window churn, cancellation and restaging, and for any number of pairs.  *)
THEOREM StreamsAreServed == Spec => []StreamIsServed
  BY DriverInvHolds, ServiceServes, PTL

LEMMA StartsOnAwaited ==
  ASSUME DriverInv, [Next]_vars, NEW t \in DOMAIN tasks,
         tasks[t].phase = "pumping", tasks'[t].phase = "translating"
  PROVE  outcome[tasks'[t].req] = "waiting"
  <1>0. TypeOK /\ ServeInv /\ QueuedAwaited
    BY DEF DriverInv, RequestInv
  <1>1. tasks[t] \in TaskRecords(Len(streams))
    BY <1>0, Shapes
  <1>2. tasks' # tasks
    OBVIOUS
  <1>3. ~ \E p \in Pairs : Mount(p)
    <2> SUFFICES ASSUME NEW p \in Pairs, Mount(p) PROVE FALSE
      OBVIOUS
    <2>1. tasks'[t] = tasks[t]
      BY <1>0, Shapes, AppendProperties DEF Mount
    <2> QED BY <2>1
  <1>4. ~ \E i \in mounted : Unmount(i)
    BY <1>1 DEF Unmount, TaskRecords
  <1>5. PICK u \in DOMAIN tasks : Pump(u)
    BY <1>2, <1>3, <1>4
    DEF Next, vars, Call, Expire, WaitTimesOut, Submit, SubmitUnhosted, SubmitHosted,
        WindowDestroyed, WindowCreated
  <1>6. PumpNext(u) /\ u = t
    BY <1>1, <1>5 DEF Pump, TakeStream, Translated, PumpCancelled, PumpNext, TaskRecords
  <1>7. PICK s \in DOMAIN streams : s = tasks[t].stream /\ Buf(s) \in Seq(Requests)
    BY <1>0, OwnStream DEF Reads
  <1>8. /\ Buf(s) # <<>> /\ Head(Buf(s)) \notin expired
        /\ tasks'[t].req = Head(Buf(s))
    <2>1. Buf(s) # <<>> /\ Head(Buf(s)) = Head(streams[tasks[t].stream].buf)
      BY <1>6, <1>7 DEF PumpNext, Buf
    <2>2. /\ Head(Buf(s)) \notin expired
          /\ tasks' = [tasks EXCEPT ![t].phase = "translating", ![t].req = Head(Buf(s))]
      BY <1>2, <1>6, <2>1 DEF PumpNext
    <2>3. "req" \in DOMAIN tasks[t]
      BY <1>1 DEF TaskRecords
    <2>4. tasks'[t].req = Head(Buf(s))
      BY <2>2, <2>3
    <2> QED BY <2>1, <2>2, <2>4
  <1>9. 1 \in DOMAIN Buf(s) /\ Head(Buf(s)) = Buf(s)[1]
    BY <1>7, <1>8, Shifted
  <1> QED BY <1>0, <1>8, <1>9 DEF QueuedAwaited, Awaited

(* A pump starts only on a request whose caller still waits, for any number*)
(* of requests and however they queue up behind a slow session.            *)
THEOREM SessionsWorkForCallers == Spec => AbandonedNotTranslated
  <1>1. DriverInv /\ [Next]_vars =>
          [\A t \in DOMAIN tasks : tasks[t].phase = "pumping" /\ tasks'[t].phase = "translating"
             => outcome[tasks'[t].req] = "waiting"]_vars
    BY StartsOnAwaited
  <1> QED BY <1>1, DriverInvHolds, PTL DEF Spec, AbandonedNotTranslated
=============================================================================
