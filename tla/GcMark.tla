------------------------------- MODULE GcMark -------------------------------
(* The parallel mark of a Lua collection (win/hooks.rs):                    *)
(* lua_gc_mark_parallel, gc_par_propagate and GcParSink.  Two passes run on *)
(* the pool: one from the roots, one from the userdata that are to be       *)
(* finalised.  In each the coordinator (the game thread) and the workers    *)
(* take claimed objects off a shared injector and traverse them, until the  *)
(* coordinator finds that nothing is left.                                  *)
(*                                                                          *)
(* Objects that cannot refer to others (strings) and userdata, which stand  *)
(* for their metatable, need no model of their own.  The coordinator alone  *)
(* traverses threads, with the client's own code, whose mark is a plain     *)
(* test and a plain store.                                                  *)
EXTENDS Naturals, FiniteSets, SequencesExt

CONSTANTS
  Objects,
  Threads,       \* the objects only the coordinator traverses
  Refs,          \* object -> the strong references in it, in order
  Roots,         \* what markroots finds
  Finalised,     \* what separateudata moves to tmudata if it is unmarked
  Workers, Coordinator,
  GrabMax,       \* the most a lane takes off the injector (256)
  SurplusOver,   \* a local stack longer than this is shared (1024)
  Shared         \* how much of it (512)

ASSUME MarkAssumption ==
  /\ Threads \subseteq Objects /\ Finalised \subseteq Objects \ Threads
  /\ Refs \in [Objects -> Seq(Objects)]
  /\ Roots \subseteq Objects /\ IsFiniteSet(Objects)
  /\ Coordinator \notin Workers /\ IsFiniteSet(Workers)
  /\ GrabMax \in Nat \ {0} /\ SurplusOver \in Nat /\ Shared \in 1 .. SurplusOver

Lanes == Workers \cup {Coordinator}

VARIABLES
  marked,
  injector,      \* claimed objects, not traversed yet
  thread_q,      \* claimed threads
  active, done,
  epoch,         \* 0 before the first pass, then the pass published last
  seen,          \* the pass each worker has last joined
  lane,          \* at, local stack, references still to mark, tested: see below
  phase,         \* what the coordinator is doing between its two passes
  traversed      \* history: how often each object was traversed

vars == <<marked, injector, thread_q, active, done, epoch, seen, lane, phase, traversed>>

(* refs  : the references of the object under traversal still to be marked *)
(* tested: the stock mark has found the first of them unmarked             *)
Out == [at |-> "out", local |-> <<>>, refs |-> <<>>, tested |-> FALSE]

At(p, where) == lane[p].at = where

Goto(p, where) == lane' = [lane EXCEPT ![p].at = where]

Orders(S) == Bijection(1 .. Cardinality(S), S)

(* The seeds are claimed, the threads among them queued for the            *)
(* coordinator, and the rest goes to the injector, before the job begins.  *)
(* In which order they are found is left open.                             *)
Seed(S) ==
  LET new == S \ marked IN
  /\ marked' = marked \cup new
  /\ \E q \in Orders(new \cap Threads) : thread_q' = thread_q \o q
  /\ \E q \in Orders(new \ Threads) : injector' = injector \o q

Init ==
  /\ marked = {} /\ injector = <<>> /\ thread_q = <<>>
  /\ active = 0 /\ done = FALSE /\ epoch = 0
  /\ seen = [w \in Workers |-> 0]
  /\ lane = [p \in Lanes |-> Out]
  /\ phase = "roots"
  /\ traversed = [o \in Objects |-> 0]

-----------------------------------------------------------------------------
(* lua_gc_mark_parallel                                                    *)

SeedRoots ==
  /\ phase = "roots"
  /\ Seed(Roots)
  /\ phase' = "begin"
  /\ UNCHANGED <<active, done, epoch, seen, lane, traversed>>

(* gc_par_begin, the coordinator then takes part.                          *)
LowerDone ==
  /\ phase = "begin"
  /\ done' = FALSE
  /\ phase' = "publish"
  /\ UNCHANGED <<marked, injector, thread_q, active, epoch, seen, lane, traversed>>

Publish ==
  /\ phase = "publish"
  /\ epoch' = epoch + 1
  /\ phase' = "propagate"
  /\ Goto(Coordinator, "loop")
  /\ UNCHANGED <<marked, injector, thread_q, active, done, seen, traversed>>

(* separateudata picks what has not been marked; marktmu unmarks it and    *)
(* marks it again.                                                         *)
SeedFinalised ==
  /\ phase = "propagate" /\ At(Coordinator, "out") /\ epoch = 1
  /\ Seed(Finalised)
  /\ phase' = "begin"
  /\ UNCHANGED <<active, done, epoch, seen, lane, traversed>>

(* A worker joins the pass that was published last.                        *)
Wake(w) ==
  /\ At(w, "out") /\ seen[w] # epoch
  /\ seen' = [seen EXCEPT ![w] = epoch]
  /\ Goto(w, "loop")
  /\ UNCHANGED <<marked, injector, thread_q, active, done, epoch, phase, traversed>>

-----------------------------------------------------------------------------
(* gc_par_propagate                                                        *)

(* The coordinator keeps the injector's lock while it looks whether        *)
(* everything is quiet.                                                    *)
InjectorLocked == lane[Coordinator].at \in {"quiet", "no threads"}

Least(m, n) == IF m < n THEN m ELSE n

(* A batch off the end of the injector, active raised under its lock.      *)
Grab(p) ==
  LET split == Len(injector) - Least(GrabMax, Len(injector)) IN
  /\ At(p, "loop") /\ ~InjectorLocked /\ injector # <<>>
  /\ active' = active + 1
  /\ injector' = SubSeq(injector, 1, split)
  /\ lane' = [lane EXCEPT ![p].local = SubSeq(injector, split + 1, Len(injector)),
                          ![p].at = "drain"]
  /\ UNCHANGED <<marked, thread_q, done, epoch, seen, phase, traversed>>

(* The injector is empty: a worker looks at done, the coordinator whether  *)
(* everything is quiet.                                                    *)
NothingToGrab(p) ==
  /\ At(p, "loop") /\ ~InjectorLocked /\ injector = <<>>
  /\ Goto(p, IF p = Coordinator THEN "quiet" ELSE "leave?")
  /\ UNCHANGED <<marked, injector, thread_q, active, done, epoch, seen, phase, traversed>>

Leave(w) ==
  /\ At(w, "leave?")
  /\ Goto(w, IF done THEN "out" ELSE "loop")
  /\ UNCHANGED <<marked, injector, thread_q, active, done, epoch, seen, phase, traversed>>

NobodyActiveUnasked ==
  /\ At(Coordinator, "quiet")
  /\ Goto(Coordinator, "no threads")
  /\ UNCHANGED <<marked, injector, thread_q, active, done, epoch, seen, phase, traversed>>

NobodyActive ==
  /\ At(Coordinator, "quiet")
  /\ Goto(Coordinator, IF active = 0 THEN "no threads" ELSE "threads")
  /\ UNCHANGED <<marked, injector, thread_q, active, done, epoch, seen, phase, traversed>>

RaiseDoneForgotten ==
  /\ At(Coordinator, "no threads") /\ thread_q = <<>>
  /\ Goto(Coordinator, "out")
  /\ UNCHANGED <<marked, injector, thread_q, active, done, epoch, seen, phase, traversed>>

(* Quiescence: the pass is over.                                           *)
RaiseDone ==
  /\ At(Coordinator, "no threads") /\ thread_q = <<>>
  /\ done' = TRUE
  /\ Goto(Coordinator, "out")
  /\ UNCHANGED <<marked, injector, thread_q, active, epoch, seen, phase, traversed>>

ThreadsLeft ==
  /\ At(Coordinator, "no threads") /\ thread_q # <<>>
  /\ Goto(Coordinator, "threads")
  /\ UNCHANGED <<marked, injector, thread_q, active, done, epoch, seen, phase, traversed>>

(* The coordinator services a thread through stock traversestack.          *)
ServiceThread ==
  /\ At(Coordinator, "threads") /\ thread_q # <<>>
  /\ thread_q' = Front(thread_q)
  /\ active' = active + 1
  /\ traversed' = [traversed EXCEPT ![Last(thread_q)] = @ + 1]
  /\ lane' = [lane EXCEPT ![Coordinator].refs = Refs[Last(thread_q)],
                          ![Coordinator].at = "stock"]
  /\ UNCHANGED <<marked, injector, done, epoch, seen, phase>>

NoThread ==
  /\ At(Coordinator, "threads") /\ thread_q = <<>>
  /\ Goto(Coordinator, "loop")
  /\ UNCHANGED <<marked, injector, thread_q, active, done, epoch, seen, phase, traversed>>

OwnThreadsToo(p, o) ==
  /\ lane' = [lane EXCEPT ![p].refs = Tail(@), ![p].tested = FALSE, ![p].local = Append(@, o)]
  /\ UNCHANGED thread_q

(* Who marked o first owns its traversal, and puts it where it belongs.    *)
Own(p, o) ==
  IF o \in Threads
  THEN /\ thread_q' = Append(thread_q, o)
       /\ lane' = [lane EXCEPT ![p].refs = Tail(@), ![p].tested = FALSE]
  ELSE /\ lane' = [lane EXCEPT ![p].refs = Tail(@), ![p].tested = FALSE,
                     ![p].local = Append(@, o)]
       /\ UNCHANGED thread_q

(* The stock mark: a plain test...                                         *)
StockTest ==
  LET c == lane[Coordinator] IN
  /\ At(Coordinator, "stock") /\ c.refs # <<>> /\ ~c.tested
  /\ lane' = [lane EXCEPT ![Coordinator] =
                IF Head(c.refs) \in marked THEN [c EXCEPT !.refs = Tail(@)]
                ELSE [c EXCEPT !.tested = TRUE]]
  /\ UNCHANGED <<marked, injector, thread_q, active, done, epoch, seen, phase, traversed>>

(* ... and a plain store.                                                  *)
StockMark ==
  LET c == lane[Coordinator] IN
  /\ At(Coordinator, "stock") /\ c.tested
  /\ marked' = marked \cup {Head(c.refs)}
  /\ Own(Coordinator, Head(c.refs))
  /\ UNCHANGED <<injector, active, done, epoch, seen, phase, traversed>>

StockEnds ==
  /\ At(Coordinator, "stock") /\ lane[Coordinator].refs = <<>>
  /\ Goto(Coordinator, "drain")
  /\ UNCHANGED <<marked, injector, thread_q, active, done, epoch, seen, phase, traversed>>

-----------------------------------------------------------------------------
(* drain_local                                                             *)

PopLocal(p) ==
  /\ At(p, "drain") /\ lane[p].local # <<>>
  /\ LET o == Last(lane[p].local) IN
       /\ traversed' = [traversed EXCEPT ![o] = @ + 1]
       /\ lane' = [lane EXCEPT ![p].local = Front(@), ![p].refs = Refs[o],
                               ![p].at = "traverse"]
  /\ UNCHANGED <<marked, injector, thread_q, active, done, epoch, seen, phase>>

MarkWithoutClaim(p) ==
  /\ At(p, "traverse") /\ lane[p].refs # <<>>
  /\ LET o == Head(lane[p].refs) IN
       /\ marked' = marked \cup {o}
       /\ Own(p, o)
  /\ UNCHANGED <<injector, active, done, epoch, seen, phase, traversed>>

(* GcParSink::mark: the fetch_or has one winner.                           *)
Mark(p) ==
  /\ At(p, "traverse") /\ lane[p].refs # <<>>
  /\ LET o == Head(lane[p].refs) IN
       /\ marked' = marked \cup {o}
       /\ IF o \in marked
          THEN lane' = [lane EXCEPT ![p].refs = Tail(@)] /\ UNCHANGED thread_q
          ELSE Own(p, o)
  /\ UNCHANGED <<injector, active, done, epoch, seen, phase, traversed>>

(* An object is done; a long stack gives its oldest part to the injector.  *)
TraverseEnds(p) ==
  /\ At(p, "traverse") /\ lane[p].refs = <<>>
  /\ Len(lane[p].local) <= SurplusOver
  /\ Goto(p, "drain")
  /\ UNCHANGED <<marked, injector, thread_q, active, done, epoch, seen, phase, traversed>>

ShareSurplus(p) ==
  /\ At(p, "traverse") /\ lane[p].refs = <<>>
  /\ Len(lane[p].local) > SurplusOver /\ ~InjectorLocked
  /\ injector' = injector \o SubSeq(lane[p].local, 1, Shared)
  /\ lane' = [lane EXCEPT ![p].local = SubSeq(@, Shared + 1, Len(@)), ![p].at = "drain"]
  /\ UNCHANGED <<marked, thread_q, active, done, epoch, seen, phase, traversed>>

Lower(p) ==
  /\ At(p, "drain") /\ lane[p].local = <<>>
  /\ active' = active - 1
  /\ Goto(p, "loop")
  /\ UNCHANGED <<marked, injector, thread_q, done, epoch, seen, phase, traversed>>

-----------------------------------------------------------------------------

LaneStep(p) ==
  \/ Grab(p) \/ NothingToGrab(p)
  \/ PopLocal(p) \/ Mark(p) \/ TraverseEnds(p) \/ ShareSurplus(p) \/ Lower(p)

WorkerStep(w) == Wake(w) \/ Leave(w) \/ LaneStep(w)

CoordinatorStep ==
  \/ SeedRoots \/ LowerDone \/ Publish \/ SeedFinalised
  \/ NobodyActive \/ RaiseDone \/ ThreadsLeft
  \/ ServiceThread \/ NoThread \/ StockTest \/ StockMark \/ StockEnds
  \/ LaneStep(Coordinator)

Next == CoordinatorStep \/ \E w \in Workers : WorkerStep(w)

(* The threads of the process keep running, and a worker that waits for    *)
(* the injector's lock, which is never held for long, gets it some time.   *)
Fairness ==
  /\ WF_vars(CoordinatorStep)
  /\ \A w \in Workers :
       WF_vars(WorkerStep(w)) /\ SF_vars(Grab(w) \/ NothingToGrab(w) \/ ShareSurplus(w))

Spec == Init /\ [][Next]_vars /\ Fairness
-----------------------------------------------------------------------------
(* Properties                                                              *)

TypeOK ==
  /\ marked \subseteq Objects
  /\ injector \in Seq(Objects \ Threads) /\ thread_q \in Seq(Threads)
  /\ active \in 0 .. Cardinality(Lanes) /\ done \in BOOLEAN /\ epoch \in 0 .. 2
  /\ seen \in [Workers -> 0 .. 2]
  /\ phase \in {"roots", "begin", "publish", "propagate"}
  /\ \A p \in Lanes :
       /\ lane[p].at \in {"out", "loop", "leave?", "quiet", "no threads", "threads", "stock",
                          "drain", "traverse"}
       /\ lane[p].local \in Seq(Objects \ Threads) /\ lane[p].refs \in Seq(Objects)
       /\ lane[p].tested \in BOOLEAN
  /\ traversed \in [Objects -> Nat]

Closed(S) == \A o \in S : ToSet(Refs[o]) \subseteq S

(* S is what can be reached: the least closed set around these objects.    *)
Reachable(S, from) ==
  /\ from \subseteq S /\ Closed(S)
  /\ \A T \in SUBSET S : from \subseteq T /\ Closed(T) => T = S

PassOver == phase = "propagate" /\ At(Coordinator, "out")

(* When the coordinator takes a pass to be over, what is reachable is      *)
(* marked and traversed, nothing else is marked, and no work is left with  *)
(* anyone: what would be missed here, the sweep frees while it is in use.  *)
PassComplete ==
  PassOver =>
    /\ Reachable(marked, Roots \cup IF epoch = 2 THEN Finalised ELSE {})
    /\ \A o \in marked : traversed[o] > 0
    /\ injector = <<>> /\ thread_q = <<>>
    /\ \A p \in Lanes : lane[p].local = <<>> /\ lane[p].refs = <<>>

(* "The winner owns the traversal": an object is traversed once, but for   *)
(* the referents of a thread, which the stock mark may claim a second time.*)
TraversedOnce ==
  \A o \in Objects :
    traversed[o] <= IF \E t \in Threads : o \in ToSet(Refs[t]) THEN 2 ELSE 1

(* Both passes come to their end, and every worker goes back to wait.      *)
MarkTerminates == <>[](PassOver /\ epoch = 2 /\ \A w \in Workers : At(w, "out"))
=============================================================================
