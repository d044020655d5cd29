------------------------- MODULE TranslationDriver -------------------------
(***************************************************************************)
(* The Apple Translation side of wow_translate (unix/translate-sys/swift/  *)
(* translate.swift): a C call that waits for one batch with a deadline, the*)
(* main-actor driver that keeps one request stream per language pair, and  *)
(* the SwiftUI view of each pair whose .translationTask pumps that stream  *)
(* through a TranslationSession.                                           *)
(*                                                                         *)
(* The game window may be destroyed at any moment (a D3D9 Reset); SwiftUI  *)
(* then cancels the pumps it hosted, when it gets round to it, and each    *)
(* cancelled pump terminates its stream.  SwiftUI, the windows and the     *)
(* session are outside this repository and modelled from how the driver    *)
(* uses them.                                                              *)
(*                                                                         *)
(* A request is a whole batch; its answer is abstracted to one outcome.    *)
(* Time is abstracted to whether a request is older than TIMEOUT.          *)
(***************************************************************************)
EXTENDS Naturals, Sequences, FiniteSets, Functions

CONSTANTS
  Requests,   \* calls of wow_translate_sync, each made at most once
  NoReq,      \* what a pump that translates nothing holds
  Pairs,
  PairOf,     \* the pair key of each request
  MaxChurns   \* bound: how often the game window is destroyed

ASSUME DriverAssumption ==
  /\ NoReq \notin Requests
  /\ PairOf \in [Requests -> Pairs]
  /\ MaxChurns \in Nat

VARIABLES
  outcome,        \* per call: "unasked", "waiting" on the semaphore, or its status
  expired,        \* requests older than TIMEOUT
  mainQ,          \* submit blocks dispatched to the main queue, not run yet
  window,         \* a suitable host NSWindow exists
  attached,       \* hostingView.window # nil
  continuations,  \* per pair, the stream requests are yielded to, or NoStream
  activePairs,    \* per pair, the generation of its PairInstance, or NoGen
  pendingStreams, \* staged streams by PairInstance
  streams,        \* every stream made: [buf, open]
  mounted,        \* PairInstances SwiftUI has mounted
  leaving,        \* those mounted in a window that has been destroyed since
  tasks,          \* every .translationTask fired: [inst, phase, stream, req, cancelled]
  churns

callVars == <<outcome, expired>>
driverVars == <<continuations, activePairs, pendingStreams>>
viewVars == <<mounted, leaving>>
vars == <<outcome, expired, mainQ, window, attached, continuations, activePairs,
          pendingStreams, streams, mounted, leaving, tasks, churns>>

NoStream == 0
NoGen == 0
FirstGen == 1

Outcomes == {"unasked", "waiting", "Ok", "Error", "Timeout", "Unavailable"}
Phases == {"fired", "pumping", "translating", "done"}
Instances == Pairs \X Nat

Waiting == {r \in Requests : outcome[r] = "waiting"}

Current(p) == <<p, activePairs[p]>>

Init ==
  /\ outcome = [r \in Requests |-> "unasked"] /\ expired = {}
  /\ mainQ = <<>> /\ window = TRUE /\ attached = FALSE
  /\ continuations = [p \in Pairs |-> NoStream]
  /\ activePairs = [p \in Pairs |-> NoGen]
  /\ pendingStreams = <<>> /\ streams = <<>>
  /\ mounted = {} /\ leaving = {} /\ tasks = <<>> /\ churns = 0

(* onResult: the results are stored and the semaphore signalled; a caller  *)
(* that has timed out is not there to read them.                           *)
OnResult(r, status) ==
  outcome' = [outcome EXCEPT ![r] = IF @ = "waiting" THEN status ELSE @]

-----------------------------------------------------------------------------
(* The calling thread: the one worker of wow_translate, so one call at a   *)
(* time.                                                                   *)

Call(r) ==
  /\ outcome[r] = "unasked" /\ Waiting = {}
  /\ outcome' = [outcome EXCEPT ![r] = "waiting"]
  /\ mainQ' = Append(mainQ, r)
  /\ UNCHANGED <<expired, window, attached, driverVars, streams, viewVars, tasks, churns>>

(* TIMEOUT passes since enqueuedAt.                                        *)
Expire(r) ==
  /\ r \in Waiting \ expired
  /\ expired' = expired \cup {r}
  /\ UNCHANGED <<outcome, mainQ, window, attached, driverVars, streams, viewVars, tasks, churns>>

(* semaphore.wait(timeout:) gives up; it started after enqueuedAt.         *)
WaitTimesOut(r) ==
  /\ r \in Waiting \cap expired
  /\ outcome' = [outcome EXCEPT ![r] = "Timeout"]
  /\ UNCHANGED <<expired, mainQ, window, attached, driverVars, streams, viewVars, tasks, churns>>

-----------------------------------------------------------------------------
(* The driver, on the main actor.                                          *)

(* makeStream, and r yielded to it: the value of streams.                  *)
WithStream(r) == Append(streams, [buf |-> <<r>>, open |-> TRUE])

StageWithoutBump(p, gen, r) ==
  LET g == IF activePairs[p] = NoGen THEN gen ELSE activePairs[p] IN
  /\ streams' = WithStream(r)
  /\ continuations' = [continuations EXCEPT ![p] = Len(streams) + 1]
  /\ activePairs' = [activePairs EXCEPT ![p] = g]
  /\ pendingStreams' = [i \in DOMAIN pendingStreams \cup {<<p, g>>} |->
       IF i = <<p, g>> THEN Len(streams) + 1 ELSE pendingStreams[i]]

(* stage: a fresh stream under generation gen, which replaces the pair's   *)
(* entry in activePairs and drops the stream staged for the old one; then  *)
(* the yield that follows every call of stage.                             *)
Stage(p, gen, r) ==
  /\ streams' = WithStream(r)
  /\ continuations' = [continuations EXCEPT ![p] = Len(streams) + 1]
  /\ activePairs' = [activePairs EXCEPT ![p] = gen]
  /\ pendingStreams' =
       [i \in (DOMAIN pendingStreams \ {Current(p)}) \cup {<<p, gen>>} |->
          IF i = <<p, gen>> THEN Len(streams) + 1 ELSE pendingStreams[i]]

(* submit without a host window.                                           *)
SubmitUnhosted ==
  /\ mainQ # <<>> /\ ~attached /\ ~window
  /\ OnResult(Head(mainQ), "Unavailable")
  /\ mainQ' = Tail(mainQ)
  /\ UNCHANGED <<expired, window, attached, driverVars, streams, viewVars, tasks, churns>>

(* submit with one: ensureHostingViewAttached re-attaches if it must, then *)
(* the first request of a pair stages generation 0, a live stream takes    *)
(* the request, and a terminated one is restaged under the next generation.*)
SubmitHosted ==
  LET r == Head(mainQ)
      p == PairOf[r]
      s == continuations[p] IN
  /\ mainQ # <<>> /\ (attached \/ window)
  /\ attached' = TRUE
  /\ mainQ' = Tail(mainQ)
  /\ \/ /\ s = NoStream
        /\ Stage(p, FirstGen, r)
     \/ /\ s # NoStream /\ streams[s].open
        /\ streams' = [streams EXCEPT ![s].buf = Append(@, r)]
        /\ UNCHANGED driverVars
     \/ /\ s # NoStream /\ ~streams[s].open
        /\ Stage(p, activePairs[p] + 1, r)
  /\ UNCHANGED <<callVars, window, viewVars, tasks, churns>>

Submit == SubmitUnhosted \/ SubmitHosted

-----------------------------------------------------------------------------
(* Windows and SwiftUI.                                                    *)

WindowDestroyed ==
  /\ window /\ churns < MaxChurns
  /\ window' = FALSE /\ attached' = FALSE
  /\ leaving' = mounted
  /\ churns' = churns + 1
  /\ UNCHANGED <<callVars, mainQ, driverVars, streams, mounted, tasks>>

WindowCreated ==
  /\ ~window
  /\ window' = TRUE
  /\ UNCHANGED <<callVars, mainQ, attached, driverVars, streams, viewVars, tasks, churns>>

(* ForEach(activePairs, id: \.self): an instance of a new identity, or one *)
(* hosted again, is mounted and its .translationTask fires once.           *)
Mount(p) ==
  /\ attached /\ activePairs[p] # NoGen /\ Current(p) \notin mounted
  /\ mounted' = mounted \cup {Current(p)}
  /\ tasks' = Append(tasks, [inst |-> Current(p), phase |-> "fired", stream |-> NoStream,
                             req |-> NoReq, cancelled |-> FALSE])
  /\ UNCHANGED <<callVars, mainQ, window, attached, driverVars, streams, leaving, churns>>

(* A view whose window went, or whose identity left activePairs, is taken  *)
(* down and its task cancelled.                                            *)
Unmount(i) ==
  /\ i \in mounted /\ (i \in leaving \/ i # Current(i[1]))
  /\ mounted' = mounted \ {i} /\ leaving' = leaving \ {i}
  /\ tasks' = [t \in DOMAIN tasks |->
       IF tasks[t].inst = i THEN [tasks[t] EXCEPT !.cancelled = TRUE] ELSE tasks[t]]
  /\ UNCHANGED <<callVars, mainQ, window, attached, driverVars, streams, churns>>

-----------------------------------------------------------------------------
(* The pumps.                                                              *)

TakeAnyOfThePair(t) ==
  LET staged == {i \in DOMAIN pendingStreams : i[1] = tasks[t].inst[1]} IN
  /\ tasks[t].phase = "fired"
  /\ \/ \E i \in staged :
          /\ tasks' = [tasks EXCEPT ![t].phase = "pumping", ![t].stream = pendingStreams[i]]
          /\ pendingStreams' = Restrict(pendingStreams, DOMAIN pendingStreams \ {i})
     \/ /\ staged = {}
        /\ tasks' = [tasks EXCEPT ![t].phase = "done"]
        /\ UNCHANGED pendingStreams
  /\ UNCHANGED <<callVars, mainQ, window, attached, continuations, activePairs, streams,
                 viewVars, churns>>

(* takeStream: one-shot, and only the stream staged for this very instance;*)
(* a view that finds none backs off.  Nothing asks whether the task has    *)
(* been cancelled meanwhile.                                               *)
TakeStream(t) ==
  LET i == tasks[t].inst IN
  /\ tasks[t].phase = "fired"
  /\ \/ /\ i \in DOMAIN pendingStreams
        /\ tasks' = [tasks EXCEPT ![t].phase = "pumping", ![t].stream = pendingStreams[i]]
        /\ pendingStreams' = Restrict(pendingStreams, DOMAIN pendingStreams \ {i})
     \/ /\ i \notin DOMAIN pendingStreams
        /\ tasks' = [tasks EXCEPT ![t].phase = "done"]
        /\ UNCHANGED pendingStreams
  /\ UNCHANGED <<callVars, mainQ, window, attached, continuations, activePairs, streams,
                 viewVars, churns>>

PumpNextStale(t) ==
  LET s == tasks[t].stream
      r == Head(streams[s].buf) IN
  /\ tasks[t].phase = "pumping" /\ streams[s].buf # <<>>
  /\ streams' = [streams EXCEPT ![s].buf = Tail(@)]
  /\ tasks' = [tasks EXCEPT ![t].phase = "translating", ![t].req = r]
  /\ UNCHANGED <<callVars, mainQ, window, attached, driverVars, viewVars, churns>>

(* for await req in stream: a request older than TIMEOUT is answered       *)
(* without troubling the session, another one is translated.  A cancelled  *)
(* task may still be handed what was buffered.                             *)
PumpNext(t) ==
  LET s == tasks[t].stream
      r == Head(streams[s].buf) IN
  /\ tasks[t].phase = "pumping" /\ streams[s].buf # <<>>
  /\ streams' = [streams EXCEPT ![s].buf = Tail(@)]
  /\ \/ /\ r \in expired
        /\ OnResult(r, "Timeout")
        /\ UNCHANGED tasks
     \/ /\ r \notin expired
        /\ tasks' = [tasks EXCEPT ![t].phase = "translating", ![t].req = r]
        /\ UNCHANGED outcome
  /\ UNCHANGED <<expired, mainQ, window, attached, driverVars, viewVars, churns>>

TranslatedKeepingReq(t, status) ==
  /\ tasks[t].phase = "translating"
  /\ OnResult(tasks[t].req, status)
  /\ tasks' = [tasks EXCEPT ![t].phase = "pumping"]
  /\ UNCHANGED <<expired, mainQ, window, attached, driverVars, streams, viewVars, churns>>

(* session.translations(from:) returns, or throws an error of the pair.    *)
Translated(t, status) ==
  /\ tasks[t].phase = "translating"
  /\ OnResult(tasks[t].req, status)
  /\ tasks' = [tasks EXCEPT ![t].phase = "pumping", ![t].req = NoReq]
  /\ UNCHANGED <<expired, mainQ, window, attached, driverVars, streams, viewVars, churns>>

(* Cancellation reaches the pump: waiting for a request it ends, in flight *)
(* it answers a timeout and returns.  Either way its stream terminates and *)
(* what is still buffered is never read.                                   *)
PumpCancelled(t) ==
  /\ tasks[t].cancelled
  /\ \/ /\ tasks[t].phase = "pumping"
        /\ UNCHANGED outcome
     \/ /\ tasks[t].phase = "translating"
        /\ OnResult(tasks[t].req, "Timeout")
  /\ tasks' = [tasks EXCEPT ![t].phase = "done", ![t].req = NoReq]
  /\ streams' = [streams EXCEPT ![tasks[t].stream] = [buf |-> <<>>, open |-> FALSE]]
  /\ UNCHANGED <<expired, mainQ, window, attached, driverVars, viewVars, churns>>

Pump(t) ==
  \/ TakeStream(t) \/ PumpNext(t) \/ PumpCancelled(t)
  \/ \E status \in {"Ok", "Error"} : Translated(t, status)

Next ==
  \/ \E r \in Requests : Call(r) \/ Expire(r) \/ WaitTimesOut(r)
  \/ Submit
  \/ WindowDestroyed \/ WindowCreated
  \/ \E p \in Pairs : Mount(p)
  \/ \E i \in mounted : Unmount(i)
  \/ \E t \in DOMAIN tasks : Pump(t)

Spec == Init /\ [][Next]_vars

(* The main queue drains, SwiftUI follows activePairs and the windows,     *)
(* sessions answer and cancellations arrive.  Nobody has to call, and no   *)
(* window has to come back.                                                *)
Fairness ==
  /\ WF_vars(Submit)
  /\ WF_vars(\E p \in Pairs : Mount(p))
  /\ WF_vars(\E i \in mounted : Unmount(i))
  /\ WF_vars(\E t \in DOMAIN tasks : Pump(t))
  /\ \A r \in Requests : WF_vars(Expire(r)) /\ WF_vars(WaitTimesOut(r))

FairSpec == Spec /\ Fairness

-----------------------------------------------------------------------------
(* Properties                                                              *)

TypeOK ==
  /\ outcome \in [Requests -> Outcomes] /\ expired \in SUBSET Requests
  /\ mainQ \in Seq(Requests)
  /\ window \in BOOLEAN /\ attached \in BOOLEAN
  /\ continuations \in [Pairs -> 0 .. Len(streams)]
  /\ activePairs \in [Pairs -> Nat]
  /\ DOMAIN pendingStreams \subseteq Instances
  /\ \A i \in DOMAIN pendingStreams : pendingStreams[i] \in 1 .. Len(streams)
  /\ streams \in Seq([buf : Seq(Requests), open : BOOLEAN])
  /\ mounted \in SUBSET Instances /\ leaving \in SUBSET mounted
  /\ tasks \in Seq([inst : Instances, phase : Phases, stream : 0 .. Len(streams),
                    req : Requests \cup {NoReq}, cancelled : BOOLEAN])
  /\ \A t \in DOMAIN tasks : (tasks[t].phase = "translating") <=> (tasks[t].req # NoReq)
  /\ churns \in 0 .. MaxChurns

(* Tasks that read stream s.                                               *)
Pumps(s) == {t \in DOMAIN tasks : tasks[t].phase \in {"pumping", "translating"} /\ tasks[t].stream = s}

(* Whatever the order of window churn, cancellation and restaging, the     *)
(* stream a pair's requests go to is staged for the instance in            *)
(* activePairs, or read by exactly one pump, which is that instance's, or  *)
(* terminated so that the next submit restages it: no request is yielded to*)
(* a stream that has no reader and no instance to come for it, or that a   *)
(* view of an older generation took ("it can never steal a newer           *)
(* generation's stream").  A current view that is on its way out counts as *)
(* a reader: it still drains what it has, or ends the stream.              *)
StreamIsServed ==
  \A p \in Pairs : continuations[p] # NoStream =>
    LET s == continuations[p]
        staged == Current(p) \in DOMAIN pendingStreams /\ pendingStreams[Current(p)] = s IN
    CASE ~streams[s].open -> ~staged /\ Pumps(s) = {}
      [] staged           -> Pumps(s) = {}
      [] OTHER            -> \E t \in DOMAIN tasks : Pumps(s) = {t} /\ tasks[t].inst = Current(p)

(* A session is never tied up "translating a result no one will read": when*)
(* a pump starts on a request, its caller is still waiting for it.         *)
AbandonedNotTranslated ==
  [][\A t \in DOMAIN tasks :
       tasks[t].phase = "pumping" /\ tasks'[t].phase = "translating"
       => outcome[tasks'[t].req] = "waiting"]_vars

(* After any window churn the driver recovers: a request in a stream is    *)
(* read, or its stream terminates, or the window is gone again.  A session *)
(* is never wedged for good by a restage.                                  *)
YieldedIsRead ==
  \A r \in Requests :
    (\E s \in DOMAIN streams : r \in Range(streams[s].buf))
      ~> (~attached \/ \A s \in DOMAIN streams : r \notin Range(streams[s].buf))
=============================================================================
