---------------------------- MODULE GcMarkProofs ----------------------------
(***************************************************************************)
(* The safety of the parallel mark, for any heap, any number of workers    *)
(* and any size of batches and stacks.                                     *)
(*                                                                         *)
(* The argument: a lane that may hold work has raised active (Busy), and   *)
(* it can only start to under the injector's lock or, as the coordinator,  *)
(* for a thread; so what the coordinator finds while it keeps the lock     *)
(* stays true (Quiescent).  A claim is never lost (ClaimsKept), so when    *)
(* nobody holds work and nothing waits, what is marked is traversed and    *)
(* closed under references.  Between them, the times an object has been    *)
(* traversed and the places where it waits are never more than its claims  *)
(* (OnceInv).                                                              *)
(***************************************************************************)
EXTENDS GcMark, FiniteSetTheorems, SequenceTheorems, TLAPS

-----------------------------------------------------------------------------
(* The inductive invariant                                                 *)

LaneTypes ==
  [at : {"out", "loop", "leave?", "quiet", "no threads", "threads", "stock", "drain",
         "traverse"},
   local : Seq(Objects \ Threads), refs : Seq(Objects), tested : BOOLEAN]

GcTypes ==
  /\ marked \subseteq Objects
  /\ injector \in Seq(Objects \ Threads) /\ thread_q \in Seq(Threads)
  /\ active \in Nat /\ done \in BOOLEAN
  /\ phase \in {"roots", "begin", "publish", "propagate"}
  /\ epoch \in IF phase = "roots" THEN {0}
               ELSE IF phase = "propagate" THEN {1, 2} ELSE {0, 1}
  /\ seen \in [Workers -> 0 .. 2]
  /\ lane \in [Lanes -> LaneTypes]
  /\ traversed \in [Objects -> Nat]

(* What a lane holds where it is.                                          *)
LaneShape(p) ==
  /\ lane[p].at \notin {"drain", "traverse", "stock"} => lane[p].local = <<>>
  /\ lane[p].at \notin {"traverse", "stock"} => lane[p].refs = <<>>
  /\ lane[p].tested => p = Coordinator /\ At(p, "stock") /\ lane[p].refs # <<>>
  /\ p = Coordinator => ~At(p, "leave?")
  /\ p # Coordinator => lane[p].at \notin {"quiet", "no threads", "threads", "stock"}

(* A lane has raised active while it may hold work.                        *)
Busy == {p \in Lanes : lane[p].at \in {"drain", "traverse", "stock"}}

ActiveCounts == active = Cardinality(Busy)

(* What the coordinator has found out, stays so while it keeps the lock,   *)
(* and until it seeds the next pass.                                       *)
Quiescent ==
  /\ phase # "propagate" => At(Coordinator, "out")
  /\ lane[Coordinator].at \in {"quiet", "no threads"} => injector = <<>>
  /\ At(Coordinator, "no threads") => Busy = {}
  /\ PassOver => injector = <<>> /\ thread_q = <<>> /\ Busy = {}
  /\ phase = "roots" => injector = <<>> /\ thread_q = <<>> /\ Busy = {} /\ marked = {}

(* What has been seeded.                                                   *)
Seeds ==
  Roots \cup IF epoch = 2 \/ (epoch = 1 /\ phase # "propagate") THEN Finalised ELSE {}

Waiting == ToSet(injector) \cup ToSet(thread_q) \cup UNION {ToSet(lane[p].local) : p \in Lanes}

ToMark == UNION {ToSet(lane[p].refs) : p \in Lanes}

(* A claim is not lost: what is marked waits somewhere, or it has been     *)
(* traversed and what it refers to is marked or about to be.               *)
ClaimsKept ==
  /\ phase # "roots" => Seeds \subseteq marked
  /\ \A o \in marked \ Waiting :
       traversed[o] > 0 /\ ToSet(Refs[o]) \subseteq marked \cup ToMark

(* What waits is marked.                                                   *)
WaitingMarked == Waiting \subseteq marked

(* Nothing beyond what is reachable is ever come across.                   *)
OnlyReachable ==
  \A T \in SUBSET Objects :
    Seeds \subseteq T /\ Closed(T) => marked \subseteq T /\ ToMark \subseteq T

ActiveInv == GcTypes /\ (\A p \in Lanes : LaneShape(p)) /\ ActiveCounts /\ Quiescent

ClaimInv == ClaimsKept /\ WaitingMarked /\ OnlyReachable

-----------------------------------------------------------------------------
(* Sequences and the sets of what is in them                               *)

LEMMA SetOfAppend ==
  ASSUME NEW S, NEW s \in Seq(S), NEW e \in S
  PROVE  Append(s, e) \in Seq(S) /\ ToSet(Append(s, e)) = ToSet(s) \cup {e}
  <1> DEFINE a == Append(s, e)
  <1>1. /\ Len(s) \in Nat /\ DOMAIN s = 1 .. Len(s)
        /\ a \in Seq(S) /\ Len(a) = Len(s) + 1 /\ DOMAIN a = 1 .. Len(s) + 1
        /\ \A i \in 1 .. Len(s) : a[i] = s[i]
        /\ a[Len(s) + 1] = e
    BY AppendProperties, LenProperties
  <1> HIDE DEF a
  <1>2. 1 .. Len(s) + 1 = 1 .. Len(s) \cup {Len(s) + 1}
    BY <1>1
  <1>3. ToSet(a) = ToSet(s) \cup {e}
    BY <1>1, <1>2 DEF ToSet
  <1> QED BY <1>1, <1>3 DEF a

LEMMA SetOfConcat ==
  ASSUME NEW S, NEW s \in Seq(S), NEW t \in Seq(S)
  PROVE  s \o t \in Seq(S) /\ ToSet(s \o t) = ToSet(s) \cup ToSet(t)
  <1> DEFINE c == s \o t
  <1>1. /\ Len(s) \in Nat /\ DOMAIN s = 1 .. Len(s)
        /\ Len(t) \in Nat /\ DOMAIN t = 1 .. Len(t)
        /\ c \in Seq(S) /\ Len(c) = Len(s) + Len(t) /\ DOMAIN c = 1 .. Len(s) + Len(t)
        /\ \A i \in 1 .. Len(s) + Len(t) :
             c[i] = IF i <= Len(s) THEN s[i] ELSE t[i - Len(s)]
    BY ConcatProperties, LenProperties
  <1> HIDE DEF c
  <1>2. ASSUME NEW i \in DOMAIN c
        PROVE  c[i] \in ToSet(s) \cup ToSet(t)
    <2>1. CASE i <= Len(s)
      <3>1. i \in DOMAIN s /\ c[i] = s[i]
        BY <1>1, <2>1
      <3> QED BY <3>1 DEF ToSet
    <2>2. CASE i > Len(s)
      <3>1. i - Len(s) \in DOMAIN t /\ c[i] = t[i - Len(s)]
        BY <1>1, <2>2
      <3> QED BY <3>1 DEF ToSet
    <2> QED BY <1>1, <2>1, <2>2
  <1>3. \A i \in 1 .. Len(s) : i \in DOMAIN c /\ c[i] = s[i]
    BY <1>1
  <1>4. \A i \in 1 .. Len(t) : Len(s) + i \in DOMAIN c /\ c[Len(s) + i] = t[i]
    BY <1>1
  <1>5. ToSet(s) \subseteq ToSet(c)
    BY <1>1, <1>3 DEF ToSet
  <1>6. ToSet(t) \subseteq ToSet(c)
    BY <1>1, <1>4 DEF ToSet
  <1>7. ToSet(c) \subseteq ToSet(s) \cup ToSet(t)
    BY <1>2 DEF ToSet
  <1> QED BY <1>1, <1>5, <1>6, <1>7 DEF c

(* A sequence cut in two.                                                  *)
LEMMA SetOfCut ==
  ASSUME NEW S, NEW s \in Seq(S), NEW k \in 0 .. Len(s)
  PROVE  LET front == SubSeq(s, 1, k)
             back  == SubSeq(s, k + 1, Len(s))
         IN /\ front \in Seq(S) /\ Len(front) = k
            /\ \A i \in 1 .. k : front[i] = s[i]
            /\ back \in Seq(S) /\ Len(back) = Len(s) - k
            /\ \A i \in 1 .. Len(s) - k : back[i] = s[k + i]
            /\ ToSet(front) \cup ToSet(back) = ToSet(s)
  <1> DEFINE front == SubSeq(s, 1, k)
             back  == SubSeq(s, k + 1, Len(s))
  <1>0. Len(s) \in Nat /\ DOMAIN s = 1 .. Len(s) /\ k \in Nat /\ k <= Len(s)
    BY LenProperties
  <1>1. front \in Seq(S) /\ Len(front) = k /\ \A i \in 1 .. k : front[i] = s[i]
    BY <1>0, SubSeqProperties
  <1>2. back \in Seq(S) /\ Len(back) = Len(s) - k /\ \A i \in 1 .. Len(s) - k : back[i] = s[k + i]
    <2>1. \A i \in k + 1 .. Len(s) : s[i] \in S
      BY <1>0, ElementOfSeq
    <2>2. back \in Seq(S) /\ Len(back) = Len(s) - k
      <3>1. k + 1 \in Int /\ Len(s) \in Int
        BY <1>0
      <3>2. /\ back \in Seq(S)
            /\ Len(back) = IF k + 1 <= Len(s) THEN Len(s) - (k + 1) + 1 ELSE 0
        BY <2>1, <3>1, SubSeqProperties
      <3>3. CASE k + 1 <= Len(s)
        <4>1. Len(s) - (k + 1) + 1 = Len(s) - k
          BY <1>0
        <4> QED BY <3>2, <3>3, <4>1
      <3>4. CASE ~(k + 1 <= Len(s))
        <4>1. \A n, m \in Nat : m <= n /\ ~(m + 1 <= n) => n - m = 0
          OBVIOUS
        <4>2. Len(s) - k = 0
          BY <1>0, <3>4, <4>1
        <4> QED BY <3>2, <3>4, <4>2
      <3> QED BY <3>3, <3>4
    <2>3. \A i \in 1 .. Len(s) - k : back[i] = s[k + i]
      <3> TAKE i \in 1 .. Len(s) - k
      <3>1. back[i] = s[(k + 1) + i - 1]
        BY <1>0, SubSeqProperties
      <3>2. (k + 1) + i - 1 = k + i
        BY <1>0
      <3> QED BY <3>1, <3>2
    <2> QED BY <2>2, <2>3
  <1>3. DOMAIN front = 1 .. k /\ DOMAIN back = 1 .. Len(s) - k
    BY <1>1, <1>2, LenProperties
  <1> HIDE DEF front, back
  <1>4. ToSet(front) \subseteq ToSet(s)
    BY <1>0, <1>1, <1>3 DEF ToSet
  <1>5. \A i \in 1 .. Len(s) - k : k + i \in DOMAIN s
    BY <1>0
  <1>6. ToSet(back) \subseteq ToSet(s)
    BY <1>0, <1>2, <1>3, <1>5 DEF ToSet
  <1>7. ASSUME NEW i \in DOMAIN s
        PROVE  s[i] \in ToSet(front) \cup ToSet(back)
    <2>1. CASE i <= k
      BY <1>0, <1>1, <1>3, <2>1 DEF ToSet
    <2>2. CASE i > k
      <3>1. i - k \in DOMAIN back /\ back[i - k] = s[k + (i - k)] /\ k + (i - k) = i
        BY <1>0, <1>2, <1>3, <2>2
      <3> QED BY <3>1 DEF ToSet
    <2> QED BY <1>0, <2>1, <2>2
  <1>8. ToSet(s) \subseteq ToSet(front) \cup ToSet(back)
    BY <1>7 DEF ToSet
  <1>9. ToSet(front) \cup ToSet(back) = ToSet(s)
    BY <1>4, <1>6, <1>8
  <1> QED BY <1>1, <1>2, <1>9 DEF front, back

LEMMA SetOfFront ==
  ASSUME NEW S, NEW s \in Seq(S), s # <<>>
  PROVE  /\ Front(s) \in Seq(S) /\ Len(Front(s)) = Len(s) - 1
         /\ \A i \in 1 .. Len(s) - 1 : Front(s)[i] = s[i]
         /\ Last(s) \in S /\ Last(s) \in ToSet(s)
         /\ ToSet(Front(s)) \cup {Last(s)} = ToSet(s)
  <1>0. Len(s) \in Nat /\ Len(s) # 0 /\ DOMAIN s = 1 .. Len(s)
    BY LenProperties, EmptySeq
  <1>1. /\ Front(s) \in Seq(S) /\ Len(Front(s)) = Len(s) - 1
        /\ \A i \in 1 .. Len(s) - 1 : Front(s)[i] = s[i]
    BY <1>0, SubSeqProperties DEF Front
  <1>2. DOMAIN Front(s) = 1 .. Len(s) - 1
    BY <1>1, LenProperties
  <1>3. Last(s) \in S /\ Last(s) \in ToSet(s)
    BY <1>0, ElementOfSeq DEF Last, ToSet
  <1>4. 1 .. Len(s) = 1 .. Len(s) - 1 \cup {Len(s)}
    BY <1>0
  <1>5. ToSet(Front(s)) \cup {Last(s)} = ToSet(s)
    BY <1>0, <1>1, <1>2, <1>4 DEF ToSet, Last
  <1> QED BY <1>1, <1>3, <1>5

LEMMA SetOfTail ==
  ASSUME NEW S, NEW s \in Seq(S), s # <<>>
  PROVE  /\ Tail(s) \in Seq(S)
         /\ Head(s) \in S
         /\ ToSet(Tail(s)) \cup {Head(s)} = ToSet(s)
  <1>0. Len(s) \in Nat /\ Len(s) # 0 /\ DOMAIN s = 1 .. Len(s)
    BY LenProperties, EmptySeq
  <1>1. /\ Tail(s) \in Seq(S) /\ Len(Tail(s)) = Len(s) - 1
        /\ \A i \in 1 .. Len(s) - 1 : Tail(s)[i] = s[i + 1]
        /\ Head(s) \in S /\ Head(s) = s[1]
    BY <1>0, HeadTailProperties
  <1>2. DOMAIN Tail(s) = 1 .. Len(s) - 1
    BY <1>1, LenProperties
  <1>3. \A i \in 1 .. Len(s) : i = 1 \/ (i - 1 \in 1 .. Len(s) - 1 /\ s[i] = Tail(s)[i - 1])
    <2> TAKE i \in 1 .. Len(s)
    <2>1. CASE i # 1
      <3>1. i - 1 \in 1 .. Len(s) - 1 /\ (i - 1) + 1 = i
        BY <1>0, <2>1
      <3> QED BY <1>1, <3>1
    <2> QED BY <2>1
  <1>4. ToSet(s) \subseteq ToSet(Tail(s)) \cup {Head(s)}
    <2>1. \A i \in DOMAIN s : s[i] = Head(s) \/ s[i] \in ToSet(Tail(s))
      BY <1>0, <1>1, <1>2, <1>3 DEF ToSet
    <2> QED BY <2>1 DEF ToSet
  <1>5. \A i \in 1 .. Len(s) - 1 : i + 1 \in DOMAIN s
    BY <1>0
  <1>6. ToSet(Tail(s)) \cup {Head(s)} \subseteq ToSet(s)
    BY <1>0, <1>1, <1>2, <1>5 DEF ToSet
  <1> QED BY <1>1, <1>4, <1>6

LEMMA SetOfNothing == ToSet(<<>>) = {}
  BY DEF ToSet

(* Everything of a finite set is put in, once.                             *)
LEMMA SetOfOrder ==
  ASSUME NEW S, IsFiniteSet(S), NEW q \in Orders(S)
  PROVE  /\ q \in Seq(S) /\ ToSet(q) = S
         /\ \A i, j \in DOMAIN q : q[i] = q[j] => i = j
  <1>1. Cardinality(S) \in Nat
    BY FS_CardinalityType
  <1>2. /\ q \in [1 .. Cardinality(S) -> S] /\ IsInjective(q)
        /\ \A t \in S : \E i \in 1 .. Cardinality(S) : q[i] = t
    BY DEF Orders, Bijection, Injection, Surjection
  <1>3. q \in Seq(S)
    BY <1>1, <1>2
  <1> QED BY <1>2, <1>3 DEF ToSet, IsInjective

-----------------------------------------------------------------------------
(* What the steps do to a lane                                             *)

(* Nothing happens to the other lanes.                                     *)
OnlyLane(p) ==
  /\ lane' \in [Lanes -> LaneTypes]
  /\ \A q \in Lanes \ {p} : lane'[q] = lane[q]

LEMMA LaneBecomes ==
  ASSUME GcTypes, NEW p \in Lanes, NEW c \in LaneTypes, lane' = [lane EXCEPT ![p] = c]
  PROVE  OnlyLane(p) /\ lane'[p] = c
  BY DEF OnlyLane, GcTypes

(* A lane goes on, and holds what it held.                                 *)
Moves(p, where) ==
  /\ OnlyLane(p)
  /\ lane'[p].at = where /\ lane'[p].local = lane[p].local
  /\ lane'[p].refs = lane[p].refs /\ lane'[p].tested = lane[p].tested

LaneStates ==
  {"out", "loop", "leave?", "quiet", "no threads", "threads", "stock", "drain", "traverse"}

LEMMA GotoMoves ==
  ASSUME GcTypes, NEW p \in Lanes, NEW where \in LaneStates, Goto(p, where)
  PROVE  Moves(p, where)
  <1> DEFINE c == [lane[p] EXCEPT !.at = where]
  <1>1. lane[p] \in LaneTypes
    BY DEF GcTypes
  <1>2. /\ c \in LaneTypes /\ c.at = where /\ c.local = lane[p].local
        /\ c.refs = lane[p].refs /\ c.tested = lane[p].tested
    BY <1>1 DEF LaneTypes, LaneStates
  <1>3. lane' = [lane EXCEPT ![p] = c]
    BY DEF Goto
  <1> HIDE DEF c
  <1> QED BY <1>2, <1>3, LaneBecomes DEF Moves

(* A batch off the injector.                                               *)
LEMMA GrabEffect ==
  ASSUME GcTypes, NEW p \in Lanes, LaneShape(p), Grab(p)
  PROVE  /\ OnlyLane(p)
         /\ lane'[p].at = "drain" /\ lane'[p].refs = <<>> /\ lane'[p].tested = FALSE
         /\ lane[p].local = <<>> /\ lane[p].refs = <<>>
         /\ \E k \in 0 .. Len(injector) :
              /\ injector' = SubSeq(injector, 1, k)
              /\ lane'[p].local = SubSeq(injector, k + 1, Len(injector))
         /\ injector' \in Seq(Objects \ Threads)
         /\ ToSet(injector') \cup ToSet(lane'[p].local) = ToSet(injector)
  <1> DEFINE split == Len(injector) - Least(GrabMax, Len(injector))
             local == SubSeq(injector, split + 1, Len(injector))
             c == [lane[p] EXCEPT !.local = local, !.at = "drain"]
  <1>0. lane[p] \in LaneTypes /\ injector \in Seq(Objects \ Threads)
    BY DEF GcTypes
  <1>1. split \in 0 .. Len(injector)
    BY <1>0, MarkAssumption, LenProperties DEF Least
  <1> HIDE DEF split
  <1>2. /\ SubSeq(injector, 1, split) \in Seq(Objects \ Threads)
        /\ local \in Seq(Objects \ Threads)
        /\ ToSet(SubSeq(injector, 1, split)) \cup ToSet(local) = ToSet(injector)
    BY <1>0, <1>1, SetOfCut
  <1>3. injector' = SubSeq(injector, 1, split) /\ lane' = [lane EXCEPT ![p] = c]
    BY DEF Grab, split
  <1>4. At(p, "loop")
    BY DEF Grab
  <1>5. lane[p].local = <<>> /\ lane[p].refs = <<>> /\ lane[p].tested = FALSE
    BY <1>0, <1>4 DEF LaneShape, At, LaneTypes
  <1> HIDE DEF local
  <1>6. /\ c \in LaneTypes /\ c.at = "drain" /\ c.local = local
        /\ c.refs = <<>> /\ c.tested = FALSE
    BY <1>0, <1>2, <1>5 DEF LaneTypes
  <1> HIDE DEF c
  <1>7. OnlyLane(p) /\ lane'[p] = c
    BY <1>3, <1>6, LaneBecomes
  <1>8. lane'[p].local = SubSeq(injector, split + 1, Len(injector))
    BY <1>6, <1>7 DEF local
  <1> QED BY <1>1, <1>2, <1>3, <1>5, <1>6, <1>7, <1>8

(* The winner of a claim puts the object where it belongs.                 *)
LEMMA OwnEffect ==
  ASSUME GcTypes, NEW p \in Lanes, NEW o \in Objects, Own(p, o), lane[p].refs # <<>>
  PROVE  /\ OnlyLane(p)
         /\ lane'[p].at = lane[p].at /\ lane'[p].tested = FALSE
         /\ lane'[p].refs = Tail(lane[p].refs)
         /\ \/ o \in Threads /\ thread_q' = Append(thread_q, o) /\ lane'[p].local = lane[p].local
            \/ /\ o \notin Threads /\ thread_q' = thread_q
               /\ lane'[p].local = Append(lane[p].local, o)
         /\ ToSet(thread_q') \cup ToSet(lane'[p].local)
              = ToSet(thread_q) \cup ToSet(lane[p].local) \cup {o}
  <1>0. lane[p] \in LaneTypes /\ thread_q \in Seq(Threads)
    BY DEF GcTypes
  <1>1. /\ lane[p].local \in Seq(Objects \ Threads) /\ lane[p].refs \in Seq(Objects)
        /\ Tail(lane[p].refs) \in Seq(Objects)
    BY <1>0, SetOfTail DEF LaneTypes
  <1>2. CASE o \in Threads
    <2> DEFINE c == [lane[p] EXCEPT !.refs = Tail(@), !.tested = FALSE]
    <2>1. lane' = [lane EXCEPT ![p] = c]
      BY <1>2 DEF Own
    <2>2. /\ c \in LaneTypes /\ c.at = lane[p].at /\ c.local = lane[p].local
          /\ c.refs = Tail(lane[p].refs) /\ c.tested = FALSE
      BY <1>0, <1>1 DEF LaneTypes
    <2> HIDE DEF c
    <2>3. ToSet(Append(thread_q, o)) = ToSet(thread_q) \cup {o}
      BY <1>0, <1>2, SetOfAppend
    <2>4. OnlyLane(p) /\ lane'[p] = c
      BY <2>1, <2>2, LaneBecomes
    <2>5. thread_q' = Append(thread_q, o)
      BY <1>2 DEF Own
    <2> QED BY <1>2, <2>2, <2>3, <2>4, <2>5
  <1>3. CASE o \notin Threads
    <2> DEFINE longer == Append(lane[p].local, o)
               c == [lane[p] EXCEPT !.refs = Tail(@), !.tested = FALSE, !.local = longer]
    <2>1. lane' = [lane EXCEPT ![p] = c]
      BY <1>3 DEF Own
    <2>2. longer \in Seq(Objects \ Threads) /\ ToSet(longer) = ToSet(lane[p].local) \cup {o}
      BY <1>1, <1>3, SetOfAppend
    <2> HIDE DEF longer
    <2>3. /\ c \in LaneTypes /\ c.at = lane[p].at /\ c.local = longer
          /\ c.refs = Tail(lane[p].refs) /\ c.tested = FALSE
      BY <1>0, <1>1, <2>2 DEF LaneTypes
    <2> HIDE DEF c
    <2>4. OnlyLane(p) /\ lane'[p] = c
      BY <2>1, <2>3, LaneBecomes
    <2>5. thread_q' = thread_q /\ lane'[p].local = longer
      BY <1>3, <2>3, <2>4 DEF Own
    <2>6. ToSet(thread_q') \cup ToSet(lane'[p].local)
            = ToSet(thread_q) \cup ToSet(lane[p].local) \cup {o}
      BY <2>2, <2>5
    <2>7. lane'[p].local = Append(lane[p].local, o)
      BY <2>5 DEF longer
    <2> QED BY <1>3, <2>3, <2>4, <2>5, <2>6, <2>7
  <1> QED BY <1>2, <1>3

(* The next reference is passed over: it was marked before.                *)
Passes(p) ==
  /\ OnlyLane(p)
  /\ lane'[p].at = lane[p].at /\ lane'[p].local = lane[p].local
  /\ lane'[p].refs = Tail(lane[p].refs) /\ lane'[p].tested = lane[p].tested

LEMMA PassEffect ==
  ASSUME GcTypes, NEW p \in Lanes, lane[p].refs # <<>>,
         lane' = [lane EXCEPT ![p] = [lane[p] EXCEPT !.refs = Tail(@)]]
  PROVE  Passes(p)
  <1> DEFINE c == [lane[p] EXCEPT !.refs = Tail(@)]
  <1>0. lane[p] \in LaneTypes
    BY DEF GcTypes
  <1>1. Tail(lane[p].refs) \in Seq(Objects)
    BY <1>0, SetOfTail DEF LaneTypes
  <1>2. /\ c \in LaneTypes /\ c.at = lane[p].at /\ c.local = lane[p].local
        /\ c.refs = Tail(lane[p].refs) /\ c.tested = lane[p].tested
    BY <1>0, <1>1 DEF LaneTypes
  <1> HIDE DEF c
  <1>3. OnlyLane(p) /\ lane'[p] = c
    BY <1>2, LaneBecomes DEF c
  <1> QED BY <1>2, <1>3 DEF Passes

(* The last object of the local stack is traversed.                        *)
LEMMA PopEffect ==
  ASSUME GcTypes, NEW p \in Lanes, LaneShape(p), PopLocal(p)
  PROVE  LET o == Last(lane[p].local)
         IN /\ OnlyLane(p)
            /\ lane'[p].at = "traverse" /\ lane'[p].refs = Refs[o]
            /\ lane'[p].local = Front(lane[p].local) /\ lane'[p].tested = lane[p].tested
            /\ lane[p].refs = <<>>
            /\ o \in Objects \ Threads
            /\ ToSet(lane'[p].local) \cup {o} = ToSet(lane[p].local)
  <1> DEFINE o == Last(lane[p].local)
             c == [lane[p] EXCEPT !.local = Front(@), !.refs = Refs[o], !.at = "traverse"]
  <1>0. lane[p] \in LaneTypes /\ lane[p].local # <<>> /\ At(p, "drain")
    BY DEF GcTypes, PopLocal
  <1>1. lane[p].local \in Seq(Objects \ Threads)
    BY <1>0 DEF LaneTypes
  <1>2. /\ o \in Objects \ Threads /\ Front(lane[p].local) \in Seq(Objects \ Threads)
        /\ ToSet(Front(lane[p].local)) \cup {o} = ToSet(lane[p].local)
    BY <1>0, <1>1, SetOfFront
  <1>3. Refs[o] \in Seq(Objects)
    BY <1>2, MarkAssumption
  <1>4. lane' = [lane EXCEPT ![p] = c]
    BY DEF PopLocal
  <1> HIDE DEF o
  <1>5. /\ c \in LaneTypes /\ c.at = "traverse" /\ c.local = Front(lane[p].local)
        /\ c.refs = Refs[o] /\ c.tested = lane[p].tested
    BY <1>0, <1>2, <1>3 DEF LaneTypes
  <1> HIDE DEF c
  <1>6. OnlyLane(p) /\ lane'[p] = c
    BY <1>4, <1>5, LaneBecomes
  <1>7. lane[p].refs = <<>>
    BY <1>0 DEF LaneShape, At
  <1> QED BY <1>2, <1>5, <1>6, <1>7 DEF o

(* A thread is serviced.                                                   *)
LEMMA ServiceEffect ==
  ASSUME GcTypes, LaneShape(Coordinator), ServiceThread
  PROVE  LET o == Last(thread_q)
             p == Coordinator
         IN /\ OnlyLane(p)
            /\ lane'[p].at = "stock" /\ lane'[p].refs = Refs[o]
            /\ lane'[p].local = <<>> /\ lane'[p].tested = FALSE
            /\ lane[p].refs = <<>> /\ lane[p].local = <<>>
            /\ o \in Threads /\ thread_q' \in Seq(Threads)
            /\ ToSet(thread_q') \cup {o} = ToSet(thread_q)
  <1> DEFINE o == Last(thread_q)
             p == Coordinator
             c == [lane[p] EXCEPT !.refs = Refs[o], !.at = "stock"]
  <1>0. p \in Lanes /\ lane[p] \in LaneTypes /\ thread_q # <<>> /\ At(p, "threads")
    BY DEF GcTypes, ServiceThread, Lanes
  <1>1. thread_q \in Seq(Threads)
    BY DEF GcTypes
  <1>2. /\ o \in Threads /\ Front(thread_q) \in Seq(Threads)
        /\ ToSet(Front(thread_q)) \cup {o} = ToSet(thread_q)
    BY <1>0, <1>1, SetOfFront
  <1>3. Refs[o] \in Seq(Objects)
    BY <1>2, MarkAssumption
  <1>4. lane' = [lane EXCEPT ![p] = c] /\ thread_q' = Front(thread_q)
    BY DEF ServiceThread
  <1> HIDE DEF o
  <1>5. lane[p].refs = <<>> /\ lane[p].local = <<>> /\ lane[p].tested = FALSE
    BY <1>0 DEF LaneShape, At, LaneTypes
  <1>6. /\ c \in LaneTypes /\ c.at = "stock" /\ c.local = <<>>
        /\ c.refs = Refs[o] /\ c.tested = FALSE
    BY <1>0, <1>3, <1>5 DEF LaneTypes
  <1> HIDE DEF c
  <1>7. OnlyLane(p) /\ lane'[p] = c
    BY <1>0, <1>4, <1>6, LaneBecomes
  <1> QED BY <1>2, <1>4, <1>5, <1>6, <1>7 DEF o

(* The oldest part of a stack is shared.                                   *)
LEMMA ShareEffect ==
  ASSUME GcTypes, NEW p \in Lanes, ShareSurplus(p)
  PROVE  /\ OnlyLane(p)
         /\ lane'[p].at = "drain" /\ lane'[p].refs = lane[p].refs
         /\ lane'[p].tested = lane[p].tested
         /\ Shared \in 0 .. Len(lane[p].local)
         /\ lane'[p].local = SubSeq(lane[p].local, Shared + 1, Len(lane[p].local))
         /\ injector' \in Seq(Objects \ Threads)
         /\ ToSet(injector') \cup ToSet(lane'[p].local)
              = ToSet(injector) \cup ToSet(lane[p].local)
  <1> DEFINE stack == lane[p].local
             oldest == SubSeq(stack, 1, Shared)
             rest == SubSeq(stack, Shared + 1, Len(stack))
             c == [lane[p] EXCEPT !.local = rest, !.at = "drain"]
  <1>0. lane[p] \in LaneTypes /\ injector \in Seq(Objects \ Threads)
    BY DEF GcTypes
  <1>1. stack \in Seq(Objects \ Threads) /\ Len(stack) \in Nat
    BY <1>0, LenProperties DEF LaneTypes
  <1>2. Shared \in 0 .. Len(stack)
    BY <1>1, MarkAssumption DEF ShareSurplus
  <1>3. /\ oldest \in Seq(Objects \ Threads) /\ rest \in Seq(Objects \ Threads)
        /\ ToSet(oldest) \cup ToSet(rest) = ToSet(stack)
    BY <1>1, <1>2, SetOfCut
  <1>4. injector' = injector \o oldest /\ lane' = [lane EXCEPT ![p] = c]
    BY DEF ShareSurplus
  <1> HIDE DEF oldest, rest
  <1>5. injector' \in Seq(Objects \ Threads) /\ ToSet(injector') = ToSet(injector) \cup ToSet(oldest)
    BY <1>0, <1>3, <1>4, SetOfConcat
  <1>6. /\ c \in LaneTypes /\ c.at = "drain" /\ c.local = rest
        /\ c.refs = lane[p].refs /\ c.tested = lane[p].tested
    BY <1>0, <1>3 DEF LaneTypes
  <1> HIDE DEF c
  <1>7. OnlyLane(p) /\ lane'[p] = c
    BY <1>4, <1>6, LaneBecomes
  <1>8. lane'[p].local = SubSeq(stack, Shared + 1, Len(stack))
    BY <1>6, <1>7 DEF rest
  <1>9. ToSet(injector') \cup ToSet(lane'[p].local) = ToSet(injector) \cup ToSet(stack)
    BY <1>3, <1>5, <1>6, <1>7
  <1> QED BY <1>2, <1>5, <1>6, <1>7, <1>8, <1>9

(* The stock mark's test.                                                  *)
LEMMA TestEffect ==
  ASSUME GcTypes, StockTest
  PROVE  LET p == Coordinator
         IN /\ lane[p].refs # <<>> /\ At(p, "stock")
            /\ \/ Head(lane[p].refs) \in marked /\ Passes(p)
               \/ /\ Head(lane[p].refs) \notin marked
                  /\ OnlyLane(p) /\ lane'[p].tested = TRUE
                  /\ lane'[p].at = lane[p].at /\ lane'[p].local = lane[p].local
                  /\ lane'[p].refs = lane[p].refs
  <1> DEFINE p == Coordinator
             c == [lane[p] EXCEPT !.tested = TRUE]
  <1>0. p \in Lanes /\ lane[p] \in LaneTypes /\ lane[p].refs # <<>> /\ At(p, "stock")
    BY DEF GcTypes, StockTest, Lanes
  <1>1. CASE Head(lane[p].refs) \in marked
    <2>1. lane' = [lane EXCEPT ![p] = [lane[p] EXCEPT !.refs = Tail(@)]]
      BY <1>1 DEF StockTest
    <2>2. Passes(p)
      BY <1>0, <2>1, PassEffect
    <2> QED BY <1>0, <1>1, <2>2
  <1>2. CASE Head(lane[p].refs) \notin marked
    <2>1. lane' = [lane EXCEPT ![p] = c]
      BY <1>2 DEF StockTest
    <2>2. /\ c \in LaneTypes /\ c.at = lane[p].at /\ c.local = lane[p].local
          /\ c.refs = lane[p].refs /\ c.tested = TRUE
      BY <1>0 DEF LaneTypes
    <2> HIDE DEF c
    <2>3. OnlyLane(p) /\ lane'[p] = c
      BY <1>0, <2>1, <2>2, LaneBecomes
    <2> QED BY <1>0, <1>2, <2>2, <2>3
  <1> QED BY <1>1, <1>2

-----------------------------------------------------------------------------
(* Types, who is active, and what the coordinator finds out                *)

Working == {"drain", "traverse", "stock"}

LEMMA LanesAre == Coordinator \in Lanes /\ Workers \subseteq Lanes /\ Coordinator \notin Workers
  BY MarkAssumption DEF Lanes

LEMMA BusyIsFinite == IsFiniteSet(Lanes) /\ IsFiniteSet(Busy) /\ Cardinality(Busy) \in 0 .. Cardinality(Lanes)
  <1>1. IsFiniteSet(Lanes)
    BY MarkAssumption, FS_AddElement DEF Lanes
  <1>2. Busy \subseteq Lanes
    BY DEF Busy
  <1>3. IsFiniteSet(Busy) /\ Cardinality(Busy) <= Cardinality(Lanes)
    BY <1>1, <1>2, FS_Subset
  <1>4. Cardinality(Busy) \in Nat /\ Cardinality(Lanes) \in Nat
    BY <1>1, <1>3, FS_CardinalityType
  <1> QED BY <1>1, <1>3, <1>4

LEMMA SameBusy ==
  ASSUME NEW p \in Lanes, OnlyLane(p), ActiveCounts, active' = active,
         lane'[p].at \in Working <=> lane[p].at \in Working
  PROVE  Busy' = Busy /\ ActiveCounts'
  <1>1. Busy' = Busy
    BY DEF Busy, Working, OnlyLane
  <1> QED BY <1>1 DEF ActiveCounts

LEMMA MoreBusy ==
  ASSUME NEW p \in Lanes, OnlyLane(p), ActiveCounts, active' = active + 1,
         lane'[p].at \in Working, lane[p].at \notin Working
  PROVE  Busy' = Busy \cup {p} /\ ActiveCounts'
  <1>1. Busy' = Busy \cup {p} /\ p \notin Busy
    BY DEF Busy, Working, OnlyLane
  <1>2. Cardinality(Busy \cup {p}) = Cardinality(Busy) + 1
    BY <1>1, BusyIsFinite, FS_AddElement
  <1> QED BY <1>1, <1>2 DEF ActiveCounts

LEMMA LessBusy ==
  ASSUME NEW p \in Lanes, OnlyLane(p), ActiveCounts, active' = active - 1,
         lane'[p].at \notin Working, lane[p].at \in Working
  PROVE  Busy' = Busy \ {p} /\ ActiveCounts' /\ active' \in Nat
  <1>1. Busy' = Busy \ {p} /\ p \in Busy
    BY DEF Busy, Working, OnlyLane
  <1>2. /\ Cardinality(Busy \ {p}) = Cardinality(Busy) - 1
        /\ IsFiniteSet(Busy \ {p})
    BY <1>1, BusyIsFinite, FS_RemoveElement
  <1>3. Cardinality(Busy \ {p}) \in Nat
    BY <1>2, FS_CardinalityType
  <1> QED BY <1>1, <1>2, <1>3 DEF ActiveCounts

LEMMA ShapesKept ==
  ASSUME NEW p \in Lanes, OnlyLane(p), \A q \in Lanes : LaneShape(q), LaneShape(p)'
  PROVE  \A q \in Lanes : LaneShape(q)'
  BY DEF OnlyLane, LaneShape, At

(* Of the lanes that work, none sees the pass over.                        *)
LEMMA QuietWhileWorking ==
  ASSUME Quiescent, NEW p \in Lanes, OnlyLane(p), lane[p].at \in Working,
         lane'[p].at \in Working \cup {"loop"}, phase' = phase,
         injector' = injector \/ ~InjectorLocked
  PROVE  Quiescent'
  <1>1. Busy # {}
    BY DEF Busy, Working
  <1>2. /\ phase = "propagate" \/ (phase # "roots" /\ p # Coordinator)
        /\ ~At(Coordinator, "no threads")
        /\ ~PassOver
    BY <1>1 DEF Quiescent, Working, At
  <1>3. CASE p = Coordinator
    BY <1>2, <1>3 DEF Quiescent, Working, At, PassOver
  <1>4. CASE p # Coordinator
    <2>1. lane'[Coordinator] = lane[Coordinator]
      BY <1>4, LanesAre DEF OnlyLane
    <2> QED BY <1>2, <2>1 DEF Quiescent, At, PassOver, InjectorLocked
  <1> QED BY <1>3, <1>4

(* A worker that does not work comes and goes.                             *)
LEMMA QuietWhileIdling ==
  ASSUME Quiescent, NEW w \in Workers, OnlyLane(w),
         lane[w].at \notin Working, lane'[w].at \notin Working,
         UNCHANGED <<phase, injector, thread_q, marked>>
  PROVE  Quiescent'
  <1>1. lane'[Coordinator] = lane[Coordinator]
    BY LanesAre DEF OnlyLane
  <1>2. Busy' = Busy
    BY DEF Busy, Working, OnlyLane
  <1> QED BY <1>1, <1>2 DEF Quiescent, At, PassOver

LEMMA SeedEffect ==
  ASSUME GcTypes, NEW S \in SUBSET Objects, Seed(S)
  PROVE  LET new == S \ marked
         IN /\ marked' = marked \cup S
            /\ \E q \in Orders(new \cap Threads) : thread_q' = thread_q \o q
            /\ \E q \in Orders(new \ Threads) : injector' = injector \o q
            /\ thread_q' \in Seq(Threads)
            /\ ToSet(thread_q') = ToSet(thread_q) \cup (new \cap Threads)
            /\ injector' \in Seq(Objects \ Threads)
            /\ ToSet(injector') = ToSet(injector) \cup (new \ Threads)
  <1> DEFINE new == S \ marked
  <1>0. IsFiniteSet(new \cap Threads) /\ IsFiniteSet(new \ Threads)
    BY MarkAssumption, FS_Subset
  <1>1. PICK q \in Orders(new \cap Threads) : thread_q' = thread_q \o q
    BY DEF Seed
  <1>2. PICK r \in Orders(new \ Threads) : injector' = injector \o r
    BY DEF Seed
  <1>3. q \in Seq(new \cap Threads) /\ ToSet(q) = new \cap Threads
    BY <1>0, SetOfOrder
  <1>4. r \in Seq(new \ Threads) /\ ToSet(r) = new \ Threads
    BY <1>0, SetOfOrder
  <1>5. q \in Seq(Threads) /\ r \in Seq(Objects \ Threads)
    BY <1>3, <1>4, SeqMonotonic
  <1>6. thread_q' \in Seq(Threads) /\ ToSet(thread_q') = ToSet(thread_q) \cup ToSet(q)
    BY <1>1, <1>5, SetOfConcat DEF GcTypes
  <1>7. injector' \in Seq(Objects \ Threads) /\ ToSet(injector') = ToSet(injector) \cup ToSet(r)
    BY <1>2, <1>5, SetOfConcat DEF GcTypes
  <1>8. marked' = marked \cup S
    BY DEF Seed
  <1> QED BY <1>1, <1>2, <1>3, <1>4, <1>6, <1>7, <1>8

LEMMA ActiveLaneStep ==
  ASSUME ActiveInv, NEW p \in Lanes, LaneStep(p)
  PROVE  ActiveInv'
  <1>0. /\ GcTypes /\ ActiveCounts /\ Quiescent /\ active \in Nat
        /\ \A q \in Lanes : LaneShape(q)
        /\ lane[p] \in LaneTypes
    BY DEF ActiveInv, GcTypes
  <1>1. CASE Grab(p)
    <2>1. /\ OnlyLane(p) /\ injector' \in Seq(Objects \ Threads)
          /\ lane'[p].at = "drain" /\ lane'[p].refs = <<>> /\ lane'[p].tested = FALSE
      BY <1>0, <1>1, GrabEffect
    <2>2. /\ At(p, "loop") /\ ~InjectorLocked /\ injector # <<>> /\ active' = active + 1
          /\ UNCHANGED <<marked, thread_q, done, epoch, seen, phase, traversed>>
      BY <1>1 DEF Grab
    <2>3. GcTypes'
      BY <1>0, <2>1, <2>2 DEF GcTypes, OnlyLane
    <2>4. LaneShape(p)'
      BY <2>1 DEF LaneShape, At
    <2>5. Busy' = Busy \cup {p} /\ ActiveCounts'
      BY <1>0, <2>1, <2>2, MoreBusy DEF Working, At
    <2>6. Quiescent'
      <3>1. phase # "roots" /\ ~PassOver
        BY <1>0, <2>2 DEF Quiescent
      <3>2. CASE p = Coordinator
        BY <1>0, <2>1, <2>2, <3>1, <3>2 DEF Quiescent, At, PassOver
      <3>3. CASE p # Coordinator
        <4>1. lane'[Coordinator] = lane[Coordinator]
          BY <2>1, <3>3, LanesAre DEF OnlyLane
        <4> QED BY <1>0, <2>2, <3>1, <4>1 DEF Quiescent, At, PassOver, InjectorLocked
      <3> QED BY <3>2, <3>3
    <2> QED BY <1>0, <2>1, <2>3, <2>4, <2>5, <2>6, ShapesKept DEF ActiveInv
  <1>2. CASE NothingToGrab(p)
    <2> DEFINE where == IF p = Coordinator THEN "quiet" ELSE "leave?"
    <2>1. /\ At(p, "loop") /\ injector = <<>>
          /\ UNCHANGED <<marked, injector, thread_q, active, done, epoch, seen, phase, traversed>>
      BY <1>2 DEF NothingToGrab
    <2>2. Moves(p, where)
      BY <1>0, <1>2, GotoMoves DEF NothingToGrab, LaneStates
    <2>3. GcTypes'
      BY <1>0, <2>1, <2>2 DEF GcTypes, OnlyLane, Moves
    <2>4. LaneShape(p)'
      BY <1>0, <2>1, <2>2 DEF LaneShape, At, Moves
    <2>5. Busy' = Busy /\ ActiveCounts'
      BY <1>0, <2>1, <2>2, SameBusy DEF Working, At, Moves
    <2>6. Quiescent'
      <3>1. CASE p = Coordinator
        BY <1>0, <2>1, <2>2, <3>1 DEF Quiescent, At, PassOver, Moves
      <3>2. CASE p # Coordinator
        BY <1>0, <2>1, <2>2, <3>2, QuietWhileIdling DEF Working, At, Moves, Lanes
      <3> QED BY <3>1, <3>2
    <2> QED BY <1>0, <2>2, <2>3, <2>4, <2>5, <2>6, ShapesKept DEF ActiveInv, Moves
  <1>3. CASE PopLocal(p)
    <2> DEFINE o == Last(lane[p].local)
    <2>1. /\ OnlyLane(p) /\ o \in Objects /\ lane[p].refs = <<>>
          /\ lane'[p].at = "traverse" /\ lane'[p].tested = lane[p].tested
      BY <1>0, <1>3, PopEffect
    <2>2. /\ At(p, "drain") /\ traversed' = [traversed EXCEPT ![o] = @ + 1]
          /\ UNCHANGED <<marked, injector, thread_q, active, done, epoch, seen, phase>>
      BY <1>3 DEF PopLocal
    <2> HIDE DEF o
    <2>3. GcTypes'
      BY <1>0, <2>1, <2>2 DEF GcTypes, OnlyLane
    <2>4. LaneShape(p)'
      BY <1>0, <2>1, <2>2 DEF LaneShape, At
    <2>5. Busy' = Busy /\ ActiveCounts'
      BY <1>0, <2>1, <2>2, SameBusy DEF Working, At
    <2>6. Quiescent'
      BY <1>0, <2>1, <2>2, QuietWhileWorking DEF Working, At
    <2> QED BY <1>0, <2>1, <2>3, <2>4, <2>5, <2>6, ShapesKept DEF ActiveInv
  <1>4. CASE Mark(p)
    <2> DEFINE o == Head(lane[p].refs)
    <2>1. /\ At(p, "traverse") /\ lane[p].refs # <<>> /\ marked' = marked \cup {o}
          /\ UNCHANGED <<injector, active, done, epoch, seen, phase, traversed>>
      BY <1>4 DEF Mark
    <2>2. o \in Objects
      BY <1>0, <2>1, SetOfTail DEF LaneTypes
    <2>3. /\ OnlyLane(p) /\ lane'[p].at = "traverse" /\ lane'[p].tested = FALSE
          /\ thread_q' \in Seq(Threads)
      <3>1. CASE o \in marked
        <4>1. lane' = [lane EXCEPT ![p] = [lane[p] EXCEPT !.refs = Tail(@)]] /\ thread_q' = thread_q
          BY <1>4, <3>1 DEF Mark
        <4>2. Passes(p)
          BY <1>0, <2>1, <4>1, PassEffect
        <4>3. lane[p].tested = FALSE
          BY <1>0, <2>1 DEF LaneShape, At, LaneTypes
        <4> QED BY <1>0, <2>1, <4>1, <4>2, <4>3 DEF Passes, GcTypes, At
      <3>2. CASE o \notin marked
        <4>1. Own(p, o)
          BY <1>4, <3>2 DEF Mark
        <4>2. /\ OnlyLane(p) /\ lane'[p].at = lane[p].at /\ lane'[p].tested = FALSE
              /\ (o \in Threads /\ thread_q' = Append(thread_q, o)) \/ thread_q' = thread_q
          BY <1>0, <2>1, <2>2, <4>1, OwnEffect
        <4>3. thread_q \in Seq(Threads)
          BY <1>0 DEF GcTypes
        <4>4. thread_q' \in Seq(Threads)
          BY <4>2, <4>3, SetOfAppend
        <4> QED BY <2>1, <4>2, <4>4 DEF At
      <3> QED BY <3>1, <3>2
    <2> HIDE DEF o
    <2>4. GcTypes'
      BY <1>0, <2>1, <2>2, <2>3 DEF GcTypes, OnlyLane
    <2>5. LaneShape(p)'
      BY <1>0, <2>1, <2>3 DEF LaneShape, At
    <2>6. Busy' = Busy /\ ActiveCounts'
      BY <1>0, <2>1, <2>3, SameBusy DEF Working, At
    <2>7. Quiescent'
      BY <1>0, <2>1, <2>3, QuietWhileWorking DEF Working, At
    <2> QED BY <1>0, <2>3, <2>4, <2>5, <2>6, <2>7, ShapesKept DEF ActiveInv
  <1>5. CASE TraverseEnds(p)
    <2>1. /\ At(p, "traverse") /\ lane[p].refs = <<>>
          /\ UNCHANGED <<marked, injector, thread_q, active, done, epoch, seen, phase, traversed>>
      BY <1>5 DEF TraverseEnds
    <2>2. Moves(p, "drain")
      BY <1>0, <1>5, GotoMoves DEF TraverseEnds, LaneStates
    <2>3. GcTypes'
      BY <1>0, <2>1, <2>2 DEF GcTypes, OnlyLane, Moves
    <2>4. LaneShape(p)'
      BY <1>0, <2>1, <2>2 DEF LaneShape, At, Moves
    <2>5. Busy' = Busy /\ ActiveCounts'
      BY <1>0, <2>1, <2>2, SameBusy DEF Working, At, Moves
    <2>6. Quiescent'
      BY <1>0, <2>1, <2>2, QuietWhileWorking DEF Working, At, Moves
    <2> QED BY <1>0, <2>2, <2>3, <2>4, <2>5, <2>6, ShapesKept DEF ActiveInv, Moves
  <1>6. CASE ShareSurplus(p)
    <2>1. /\ OnlyLane(p) /\ injector' \in Seq(Objects \ Threads)
          /\ lane'[p].at = "drain" /\ lane'[p].refs = lane[p].refs
          /\ lane'[p].tested = lane[p].tested
      BY <1>0, <1>6, ShareEffect
    <2>2. /\ At(p, "traverse") /\ lane[p].refs = <<>> /\ ~InjectorLocked
          /\ UNCHANGED <<marked, thread_q, active, done, epoch, seen, phase, traversed>>
      BY <1>6 DEF ShareSurplus
    <2>3. GcTypes'
      BY <1>0, <2>1, <2>2 DEF GcTypes, OnlyLane
    <2>4. LaneShape(p)'
      BY <1>0, <2>1, <2>2 DEF LaneShape, At
    <2>5. Busy' = Busy /\ ActiveCounts'
      BY <1>0, <2>1, <2>2, SameBusy DEF Working, At
    <2>6. Quiescent'
      BY <1>0, <2>1, <2>2, QuietWhileWorking DEF Working, At
    <2> QED BY <1>0, <2>1, <2>3, <2>4, <2>5, <2>6, ShapesKept DEF ActiveInv
  <1>7. CASE Lower(p)
    <2>1. /\ At(p, "drain") /\ lane[p].local = <<>> /\ active' = active - 1
          /\ UNCHANGED <<marked, injector, thread_q, done, epoch, seen, phase, traversed>>
      BY <1>7 DEF Lower
    <2>2. Moves(p, "loop")
      BY <1>0, <1>7, GotoMoves DEF Lower, LaneStates
    <2>3. ActiveCounts' /\ active' \in Nat
      BY <1>0, <2>1, <2>2, LessBusy DEF Working, At, Moves
    <2>4. GcTypes'
      BY <1>0, <2>1, <2>2, <2>3 DEF GcTypes, OnlyLane, Moves
    <2>5. LaneShape(p)'
      BY <1>0, <2>1, <2>2 DEF LaneShape, At, Moves
    <2>6. Quiescent'
      BY <1>0, <2>1, <2>2, QuietWhileWorking DEF Working, At, Moves
    <2> QED BY <1>0, <2>2, <2>3, <2>4, <2>5, <2>6, ShapesKept DEF ActiveInv, Moves
  <1> QED BY <1>1, <1>2, <1>3, <1>4, <1>5, <1>6, <1>7 DEF LaneStep

LEMMA ActiveWorkerStep ==
  ASSUME ActiveInv, NEW w \in Workers, Wake(w) \/ Leave(w)
  PROVE  ActiveInv'
  <1>0. /\ GcTypes /\ ActiveCounts /\ Quiescent
        /\ \A q \in Lanes : LaneShape(q)
        /\ w \in Lanes /\ w # Coordinator /\ lane[w] \in LaneTypes
    BY LanesAre DEF ActiveInv, GcTypes
  <1>1. \E where \in {"out", "loop"} : Moves(w, where)
    BY <1>0, GotoMoves DEF Wake, Leave, LaneStates
  <1>2. /\ lane[w].at \in {"out", "leave?"}
        /\ seen' \in [Workers -> 0 .. 2]
        /\ UNCHANGED <<marked, injector, thread_q, active, done, epoch, phase, traversed>>
    <2>1. epoch \in 0 .. 2 /\ seen \in [Workers -> 0 .. 2]
      BY <1>0 DEF GcTypes
    <2>2. CASE Wake(w)
      BY <2>1, <2>2 DEF Wake, At
    <2>3. CASE Leave(w)
      BY <2>1, <2>3 DEF Leave, At
    <2> QED BY <2>2, <2>3
  <1>3. GcTypes'
    BY <1>0, <1>1, <1>2 DEF GcTypes, OnlyLane, Moves
  <1>4. LaneShape(w)'
    BY <1>0, <1>1, <1>2 DEF LaneShape, At, Moves
  <1>5. ActiveCounts'
    BY <1>0, <1>1, <1>2, SameBusy DEF Working, Moves
  <1>6. Quiescent'
    BY <1>0, <1>1, <1>2, QuietWhileIdling DEF Working, Moves
  <1>7. \A q \in Lanes : LaneShape(q)'
    BY <1>0, <1>1, <1>4, ShapesKept DEF Moves
  <1> QED BY <1>3, <1>5, <1>6, <1>7 DEF ActiveInv

(* The coordinator between the passes.                                     *)
LEMMA ActivePassStep ==
  ASSUME ActiveInv, SeedRoots \/ LowerDone \/ Publish \/ SeedFinalised
  PROVE  ActiveInv'
  <1>0. /\ GcTypes /\ ActiveCounts /\ Quiescent
        /\ \A q \in Lanes : LaneShape(q)
        /\ Coordinator \in Lanes
    BY LanesAre DEF ActiveInv, GcTypes
  <1>1. ASSUME NEW S \in SUBSET Objects, Seed(S), phase' = "begin",
               \/ phase = "roots"
               \/ phase = "propagate" /\ At(Coordinator, "out") /\ epoch = 1,
               UNCHANGED <<active, done, epoch, seen, lane, traversed>>
        PROVE  ActiveInv'
    <2>1. /\ thread_q' \in Seq(Threads) /\ injector' \in Seq(Objects \ Threads)
          /\ marked' \subseteq Objects
      BY <1>0, <1>1, SeedEffect DEF GcTypes
    <2>2. GcTypes'
      BY <1>0, <1>1, <2>1 DEF GcTypes
    <2>3. ActiveCounts' /\ \A q \in Lanes : LaneShape(q)'
      BY <1>0, <1>1 DEF ActiveCounts, Busy, LaneShape, At
    <2>4. At(Coordinator, "out")
      BY <1>0, <1>1 DEF Quiescent
    <2>5. Quiescent'
      BY <1>1, <2>4 DEF Quiescent, At, PassOver
    <2> QED BY <2>2, <2>3, <2>5 DEF ActiveInv
  <1>2. CASE SeedRoots
    BY <1>1, <1>2, MarkAssumption DEF SeedRoots
  <1>3. CASE SeedFinalised
    BY <1>1, <1>3, MarkAssumption DEF SeedFinalised
  <1>4. CASE LowerDone
    <2>1. GcTypes'
      BY <1>0, <1>4 DEF LowerDone, GcTypes
    <2>2. ActiveCounts' /\ \A q \in Lanes : LaneShape(q)'
      BY <1>0, <1>4 DEF LowerDone, ActiveCounts, Busy, LaneShape, At
    <2>3. Quiescent'
      BY <1>0, <1>4 DEF LowerDone, Quiescent, Busy, At, PassOver
    <2> QED BY <2>1, <2>2, <2>3 DEF ActiveInv
  <1>5. CASE Publish
    <2>1. /\ phase = "publish" /\ phase' = "propagate" /\ epoch' = epoch + 1
          /\ At(Coordinator, "out")
          /\ UNCHANGED <<marked, injector, thread_q, active, done, seen, traversed>>
      BY <1>0, <1>5 DEF Publish, Quiescent
    <2>2. Moves(Coordinator, "loop")
      BY <1>0, <1>5, GotoMoves DEF Publish, LaneStates
    <2>3. GcTypes'
      <3>1. epoch \in {0, 1}
        BY <1>0, <2>1 DEF GcTypes
      <3>2. epoch' \in {1, 2}
        BY <2>1, <3>1
      <3> QED BY <1>0, <2>1, <2>2, <3>2 DEF GcTypes, OnlyLane, Moves
    <2>4. LaneShape(Coordinator)'
      BY <1>0, <2>1, <2>2 DEF LaneShape, At, Moves
    <2>5. ActiveCounts'
      BY <1>0, <2>1, <2>2, SameBusy DEF Working, At, Moves
    <2>6. Quiescent'
      BY <2>1, <2>2 DEF Quiescent, At, PassOver, Moves
    <2> QED BY <1>0, <2>2, <2>3, <2>4, <2>5, <2>6, ShapesKept DEF ActiveInv, Moves
  <1> QED BY <1>2, <1>3, <1>4, <1>5

(* The coordinator at its own place of a pass.                             *)
LEMMA ActiveCoordinatorStep ==
  ASSUME ActiveInv,
         \/ NobodyActive \/ RaiseDone \/ ThreadsLeft
         \/ ServiceThread \/ NoThread \/ StockTest \/ StockMark \/ StockEnds
  PROVE  ActiveInv'
  <1> DEFINE c == Coordinator
  <1>0. /\ GcTypes /\ ActiveCounts /\ Quiescent
        /\ \A q \in Lanes : LaneShape(q)
        /\ c \in Lanes /\ lane[c] \in LaneTypes
    BY LanesAre DEF ActiveInv, GcTypes
  <1>1. ASSUME NEW where \in LaneStates, Moves(c, where), lane[c].at \in LaneStates,
               UNCHANGED <<marked, injector, thread_q, active, epoch, seen, phase, traversed>>,
               done' \in BOOLEAN, where \in Working <=> lane[c].at \in Working,
               lane[c].refs = <<>>, lane[c].tested = FALSE, where # "leave?", Quiescent'
        PROVE  ActiveInv'
    <2>1. GcTypes'
      BY <1>0, <1>1 DEF GcTypes, OnlyLane, Moves
    <2>2. LaneShape(c)'
      BY <1>0, <1>1 DEF LaneShape, At, Moves, Working
    <2>3. ActiveCounts'
      BY <1>0, <1>1, SameBusy DEF Moves
    <2> QED BY <1>0, <1>1, <2>1, <2>2, <2>3, ShapesKept DEF ActiveInv, Moves
  <1>2. CASE NobodyActive
    <2> DEFINE where == IF active = 0 THEN "no threads" ELSE "threads"
    <2>1. /\ At(c, "quiet")
          /\ UNCHANGED <<marked, injector, thread_q, active, done, epoch, seen, phase, traversed>>
      BY <1>2 DEF NobodyActive
    <2>2. Moves(c, where)
      BY <1>0, <1>2, GotoMoves DEF NobodyActive, LaneStates
    <2>3. lane[c].refs = <<>> /\ lane[c].tested = FALSE
      BY <1>0, <2>1 DEF LaneShape, At, LaneTypes
    <2>4. Busy' = Busy
      BY <1>0, <2>1, <2>2, SameBusy DEF Working, At, Moves
    <2>5. active = 0 => Busy = {}
      BY <1>0, BusyIsFinite, FS_EmptySet DEF ActiveCounts
    <2>6. Quiescent'
      BY <1>0, <2>1, <2>2, <2>4, <2>5 DEF Quiescent, At, PassOver, Moves
    <2>7. done' \in BOOLEAN
      BY <1>0, <2>1 DEF GcTypes
    <2> QED BY <1>1, <2>1, <2>2, <2>3, <2>6, <2>7 DEF LaneStates, Working, At
  <1>3. CASE RaiseDone
    <2>1. /\ At(c, "no threads") /\ thread_q = <<>> /\ done' = TRUE
          /\ UNCHANGED <<marked, injector, thread_q, active, epoch, seen, phase, traversed>>
      BY <1>3 DEF RaiseDone
    <2>2. Moves(c, "out")
      BY <1>0, <1>3, GotoMoves DEF RaiseDone, LaneStates
    <2>3. lane[c].refs = <<>> /\ lane[c].tested = FALSE
      BY <1>0, <2>1 DEF LaneShape, At, LaneTypes
    <2>4. Busy' = Busy
      BY <1>0, <2>1, <2>2, SameBusy DEF Working, At, Moves
    <2>5. Quiescent'
      BY <1>0, <2>1, <2>2, <2>4 DEF Quiescent, At, PassOver, Moves
    <2> QED BY <1>1, <2>1, <2>2, <2>3, <2>5 DEF LaneStates, Working, At
  <1>4. CASE ThreadsLeft \/ NoThread
    <2>1. /\ lane[c].at \in {"no threads", "threads"}
          /\ UNCHANGED <<marked, injector, thread_q, active, done, epoch, seen, phase, traversed>>
      BY <1>4 DEF ThreadsLeft, NoThread, At
    <2>2. \E where \in {"threads", "loop"} : Moves(c, where)
      BY <1>0, <1>4, GotoMoves DEF ThreadsLeft, NoThread, LaneStates
    <2>3. lane[c].refs = <<>> /\ lane[c].tested = FALSE
      BY <1>0, <2>1 DEF LaneShape, At, LaneTypes
    <2>4. Busy' = Busy
      BY <1>0, <2>1, <2>2, SameBusy DEF Working, At, Moves
    <2>5. Quiescent'
      BY <1>0, <2>1, <2>2, <2>4 DEF Quiescent, At, PassOver, Moves
    <2>6. done' \in BOOLEAN
      BY <1>0, <2>1 DEF GcTypes
    <2> QED BY <1>1, <2>1, <2>2, <2>3, <2>5, <2>6 DEF LaneStates, Working, At
  <1>5. CASE ServiceThread
    <2> DEFINE o == Last(thread_q)
    <2>1. /\ OnlyLane(c) /\ o \in Objects /\ thread_q' \in Seq(Threads)
          /\ lane'[c].at = "stock" /\ lane'[c].tested = FALSE
      BY <1>0, <1>5, ServiceEffect, MarkAssumption
    <2>2. /\ At(c, "threads") /\ active' = active + 1
          /\ traversed' = [traversed EXCEPT ![o] = @ + 1]
          /\ UNCHANGED <<marked, injector, done, epoch, seen, phase>>
      BY <1>5 DEF ServiceThread
    <2> HIDE DEF o
    <2>3. GcTypes'
      BY <1>0, <2>1, <2>2 DEF GcTypes, OnlyLane
    <2>4. LaneShape(c)'
      BY <2>1 DEF LaneShape, At
    <2>5. ActiveCounts'
      BY <1>0, <2>1, <2>2, MoreBusy DEF Working, At
    <2>6. Quiescent'
      BY <1>0, <2>1, <2>2 DEF Quiescent, At, PassOver
    <2> QED BY <1>0, <2>1, <2>3, <2>4, <2>5, <2>6, ShapesKept DEF ActiveInv
  <1>6. CASE StockTest
    <2>1. /\ OnlyLane(c) /\ lane'[c].at = "stock" /\ At(c, "stock")
          /\ lane'[c].tested => lane'[c].refs # <<>>
      <3>1. ~lane[c].tested
        BY <1>6 DEF StockTest
      <3> QED BY <1>0, <1>6, <3>1, TestEffect DEF Passes, At
    <2>2. UNCHANGED <<marked, injector, thread_q, active, done, epoch, seen, phase, traversed>>
      BY <1>6 DEF StockTest
    <2>3. GcTypes'
      BY <1>0, <2>1, <2>2 DEF GcTypes, OnlyLane
    <2>4. LaneShape(c)'
      BY <2>1 DEF LaneShape, At
    <2>5. ActiveCounts'
      BY <1>0, <2>1, <2>2, SameBusy DEF Working, At
    <2>6. Quiescent'
      BY <1>0, <2>1, <2>2, QuietWhileWorking DEF Working, At
    <2> QED BY <1>0, <2>1, <2>3, <2>4, <2>5, <2>6, ShapesKept DEF ActiveInv
  <1>7. CASE StockMark
    <2> DEFINE o == Head(lane[c].refs)
    <2>1. /\ At(c, "stock") /\ lane[c].tested /\ marked' = marked \cup {o} /\ Own(c, o)
          /\ UNCHANGED <<injector, active, done, epoch, seen, phase, traversed>>
      BY <1>7 DEF StockMark
    <2>2. lane[c].refs # <<>>
      BY <1>0, <2>1 DEF LaneShape
    <2>3. o \in Objects
      BY <1>0, <2>2, SetOfTail DEF LaneTypes
    <2>4. /\ OnlyLane(c) /\ lane'[c].at = "stock" /\ lane'[c].tested = FALSE
          /\ (o \in Threads /\ thread_q' = Append(thread_q, o)) \/ thread_q' = thread_q
      BY <1>0, <2>1, <2>2, <2>3, OwnEffect DEF At
    <2>5. thread_q \in Seq(Threads)
      BY <1>0 DEF GcTypes
    <2>6. thread_q' \in Seq(Threads)
      BY <2>4, <2>5, SetOfAppend
    <2> HIDE DEF o
    <2>7. GcTypes'
      BY <1>0, <2>1, <2>3, <2>4, <2>6 DEF GcTypes, OnlyLane
    <2>8. LaneShape(c)'
      BY <2>4 DEF LaneShape, At
    <2>9. ActiveCounts'
      BY <1>0, <2>1, <2>4, SameBusy DEF Working, At
    <2>10. Quiescent'
      BY <1>0, <2>1, <2>4, QuietWhileWorking DEF Working, At
    <2> QED BY <1>0, <2>4, <2>7, <2>8, <2>9, <2>10, ShapesKept DEF ActiveInv
  <1>8. CASE StockEnds
    <2>1. /\ At(c, "stock") /\ lane[c].refs = <<>>
          /\ UNCHANGED <<marked, injector, thread_q, active, done, epoch, seen, phase, traversed>>
      BY <1>8 DEF StockEnds
    <2>2. Moves(c, "drain")
      BY <1>0, <1>8, GotoMoves DEF StockEnds, LaneStates
    <2>3. lane[c].tested = FALSE
      BY <1>0, <2>1 DEF LaneShape, LaneTypes
    <2>4. Quiescent'
      BY <1>0, <2>1, <2>2, QuietWhileWorking DEF Working, At, Moves
    <2>5. done' \in BOOLEAN
      BY <1>0, <2>1 DEF GcTypes
    <2> QED BY <1>1, <2>1, <2>2, <2>3, <2>4, <2>5 DEF LaneStates, Working, At
  <1> QED BY <1>2, <1>3, <1>4, <1>5, <1>6, <1>7, <1>8

LEMMA ActiveInvStep == ActiveInv /\ [Next]_vars => ActiveInv'
  <1> SUFFICES ASSUME ActiveInv, [Next]_vars PROVE ActiveInv'
    OBVIOUS
  <1>1. CASE UNCHANGED vars
    BY <1>1 DEF vars, ActiveInv, GcTypes, LaneShape, ActiveCounts, Busy, Quiescent, PassOver, At
  <1>2. CASE CoordinatorStep
    BY <1>2, LanesAre, ActiveLaneStep, ActivePassStep, ActiveCoordinatorStep DEF CoordinatorStep
  <1>3. ASSUME NEW w \in Workers, WorkerStep(w) PROVE ActiveInv'
    BY <1>3, LanesAre, ActiveLaneStep, ActiveWorkerStep DEF WorkerStep
  <1> QED BY <1>1, <1>2, <1>3 DEF Next

LEMMA ActiveInvInit == Init => ActiveInv
  <1> SUFFICES ASSUME Init PROVE ActiveInv
    OBVIOUS
  <1>1. Out \in LaneTypes /\ Out.at = "out" /\ Out.local = <<>> /\ Out.refs = <<>> /\ Out.tested = FALSE
    BY EmptySeq DEF Out, LaneTypes
  <1>2. \A p \in Lanes : lane[p] = Out
    BY DEF Init
  <1>3. Busy = {}
    BY <1>1, <1>2 DEF Busy
  <1>4. GcTypes
    <2>1. lane \in [Lanes -> LaneTypes]
      BY <1>1 DEF Init
    <2>2. injector \in Seq(Objects \ Threads) /\ thread_q \in Seq(Threads)
      BY EmptySeq DEF Init
    <2>3. /\ marked = {} /\ active = 0 /\ done = FALSE /\ epoch = 0 /\ phase = "roots"
          /\ seen \in [Workers -> 0 .. 2] /\ traversed \in [Objects -> Nat]
      BY DEF Init
    <2> QED BY <2>1, <2>2, <2>3 DEF GcTypes
  <1>5. \A p \in Lanes : LaneShape(p)
    BY <1>1, <1>2 DEF LaneShape, At
  <1>6. ActiveCounts
    BY <1>3, FS_EmptySet DEF Init, ActiveCounts
  <1>7. Quiescent
    BY <1>1, <1>2, <1>3, LanesAre DEF Init, Quiescent, PassOver, At
  <1> QED BY <1>4, <1>5, <1>6, <1>7 DEF ActiveInv

(* active is always the number of the lanes that may hold work, and a pass  *)
(* that is over finds none: ActiveInv, on which the rest stands.            *)
THEOREM ActiveAlways == Spec => []ActiveInv
  BY ActiveInvInit, ActiveInvStep, PTL DEF Spec

(* The types, and active, which is never above the number of the lanes:    *)
(* TypeOK.                                                                 *)
THEOREM MarkTypes == Spec => []TypeOK
  <1>1. ActiveInv => TypeOK
    <2> SUFFICES ASSUME ActiveInv PROVE TypeOK
      OBVIOUS
    <2>1. GcTypes /\ active \in 0 .. Cardinality(Lanes)
      BY BusyIsFinite DEF ActiveInv, ActiveCounts
    <2>2. epoch \in 0 .. 2
      BY <2>1 DEF GcTypes
    <2>3. \A p \in Lanes : lane[p] \in LaneTypes
      BY <2>1 DEF GcTypes
    <2> QED BY <2>1, <2>2, <2>3 DEF GcTypes, TypeOK, LaneTypes
  <1> QED BY <1>1, ActiveAlways, PTL

-----------------------------------------------------------------------------
(* Claims                                                                  *)

(* A step in which the claims go on: what is marked in addition is put     *)
(* somewhere, what waited still does or has been traversed, and what was   *)
(* still to be marked is marked or still is.                               *)
Onward ==
  /\ marked \subseteq marked' /\ Waiting' \subseteq marked'
  /\ marked' \subseteq marked \cup Waiting'
  /\ \A o \in Objects : traversed'[o] >= traversed[o]
  /\ \A o \in Waiting \ Waiting' : traversed'[o] > 0 /\ ToSet(Refs[o]) \subseteq marked' \cup ToMark'
  /\ ToMark \subseteq marked' \cup ToMark'

(* Nothing new is come across, but by following a reference.               *)
Follows ==
  /\ marked' \subseteq marked \cup ToMark
  /\ ToMark' \subseteq ToMark \cup UNION {ToSet(Refs[o]) : o \in marked}

LEMMA ClaimsOnward ==
  ASSUME GcTypes, GcTypes', ClaimInv, Onward, Follows,
         Seeds' = Seeds, phase = "roots" <=> phase' = "roots"
  PROVE  ClaimInv'
  <1>0. /\ ClaimsKept /\ WaitingMarked /\ OnlyReachable
        /\ marked \subseteq Objects /\ marked' \subseteq Objects
        /\ traversed \in [Objects -> Nat] /\ traversed' \in [Objects -> Nat]
    BY DEF ClaimInv, GcTypes
  <1>1. Seeds' = Seeds
    OBVIOUS
  <1>2. ClaimsKept'
    <2>1. phase' # "roots" => Seeds' \subseteq marked'
      BY <1>0, <1>1 DEF ClaimsKept, Onward
    <2>2. ASSUME NEW o \in marked', o \notin Waiting'
          PROVE  traversed'[o] > 0 /\ ToSet(Refs[o]) \subseteq marked' \cup ToMark'
      <3>1. o \in marked /\ o \in Objects
        BY <1>0, <2>2 DEF Onward
      <3>2. CASE o \in Waiting
        BY <2>2, <3>2 DEF Onward
      <3>3. CASE o \notin Waiting
        <4>1. traversed[o] > 0 /\ ToSet(Refs[o]) \subseteq marked \cup ToMark
          BY <1>0, <3>1, <3>3 DEF ClaimsKept
        <4>2. traversed'[o] > 0
          BY <1>0, <3>1, <4>1 DEF Onward
        <4> QED BY <4>1, <4>2 DEF Onward
      <3> QED BY <3>2, <3>3
    <2> QED BY <2>1, <2>2 DEF ClaimsKept
  <1>3. WaitingMarked'
    BY DEF WaitingMarked, Onward
  <1>4. ASSUME NEW T \in SUBSET Objects, Seeds' \subseteq T, Closed(T)
        PROVE  marked' \subseteq T /\ ToMark' \subseteq T
    <2>1. marked \subseteq T /\ ToMark \subseteq T
      BY <1>0, <1>1, <1>4 DEF OnlyReachable
    <2>2. \A o \in marked : ToSet(Refs[o]) \subseteq T
      BY <1>4, <2>1 DEF Closed
    <2> QED BY <2>1, <2>2 DEF Follows
  <1>5. OnlyReachable'
    BY <1>4 DEF OnlyReachable
  <1> QED BY <1>2, <1>3, <1>5 DEF ClaimInv

(* What waits and what is to be marked, seen from one lane.                *)
LEMMA AroundLane ==
  ASSUME NEW p \in Lanes, OnlyLane(p)
  PROVE  \E locals, refs :
           /\ Waiting = ToSet(injector) \cup ToSet(thread_q) \cup ToSet(lane[p].local) \cup locals
           /\ Waiting' = ToSet(injector') \cup ToSet(thread_q') \cup ToSet(lane'[p].local) \cup locals
           /\ ToMark = ToSet(lane[p].refs) \cup refs
           /\ ToMark' = ToSet(lane'[p].refs) \cup refs
  <1> DEFINE locals == UNION {ToSet(lane[q].local) : q \in Lanes \ {p}}
             refs == UNION {ToSet(lane[q].refs) : q \in Lanes \ {p}}
  <1>1. /\ Waiting = ToSet(injector) \cup ToSet(thread_q) \cup ToSet(lane[p].local) \cup locals
        /\ ToMark = ToSet(lane[p].refs) \cup refs
    BY DEF Waiting, ToMark
  <1>2. /\ locals = UNION {ToSet(lane'[q].local) : q \in Lanes \ {p}}
        /\ refs = UNION {ToSet(lane'[q].refs) : q \in Lanes \ {p}}
    BY DEF OnlyLane
  <1>3. /\ Waiting' = ToSet(injector') \cup ToSet(thread_q') \cup ToSet(lane'[p].local) \cup locals
        /\ ToMark' = ToSet(lane'[p].refs) \cup refs
    BY <1>2 DEF Waiting, ToMark
  <1> QED BY <1>1, <1>3

(* Steps of one lane that move no claim.                                   *)
LEMMA ClaimsMoved ==
  ASSUME GcTypes, GcTypes', ClaimInv, NEW p \in Lanes, OnlyLane(p),
         UNCHANGED <<marked, traversed>>,
         ToSet(injector') \cup ToSet(thread_q') \cup ToSet(lane'[p].local)
           = ToSet(injector) \cup ToSet(thread_q) \cup ToSet(lane[p].local),
         ToSet(lane'[p].refs) = ToSet(lane[p].refs),
         Seeds' = Seeds, phase = "roots" <=> phase' = "roots"
  PROVE  ClaimInv'
  <1>1. PICK locals, refs :
           /\ Waiting = ToSet(injector) \cup ToSet(thread_q) \cup ToSet(lane[p].local) \cup locals
           /\ Waiting' = ToSet(injector') \cup ToSet(thread_q') \cup ToSet(lane'[p].local) \cup locals
           /\ ToMark = ToSet(lane[p].refs) \cup refs
           /\ ToMark' = ToSet(lane'[p].refs) \cup refs
    BY AroundLane
  <1>2. Waiting' = Waiting /\ ToMark' = ToMark
    BY <1>1
  <1>3. \A o \in Objects : traversed'[o] >= traversed[o]
    BY DEF GcTypes
  <1>4. Waiting \subseteq marked
    BY DEF ClaimInv, WaitingMarked
  <1>5. Onward
    BY <1>2, <1>3, <1>4 DEF Onward
  <1>6. Follows
    BY <1>2 DEF Follows
  <1> QED BY <1>5, <1>6, ClaimsOnward

(* An object is taken up.                                                  *)
LEMMA ClaimTakenUp ==
  ASSUME GcTypes, GcTypes', ClaimInv, NEW p \in Lanes, OnlyLane(p), NEW o \in Objects,
         traversed' = [traversed EXCEPT ![o] = @ + 1],
         ToSet(injector') \cup ToSet(thread_q') \cup ToSet(lane'[p].local) \cup {o}
           = ToSet(injector) \cup ToSet(thread_q) \cup ToSet(lane[p].local),
         lane[p].refs = <<>>, lane'[p].refs = Refs[o],
         UNCHANGED <<marked, phase, epoch>>
  PROVE  ClaimInv'
  <1>1. PICK locals, refs :
           /\ Waiting = ToSet(injector) \cup ToSet(thread_q) \cup ToSet(lane[p].local) \cup locals
           /\ Waiting' = ToSet(injector') \cup ToSet(thread_q') \cup ToSet(lane'[p].local) \cup locals
           /\ ToMark = ToSet(lane[p].refs) \cup refs
           /\ ToMark' = ToSet(lane'[p].refs) \cup refs
    BY AroundLane
  <1>2. Waiting' \cup {o} = Waiting /\ ToMark' = ToMark \cup ToSet(Refs[o])
    BY <1>1, SetOfNothing
  <1>3. \A x \in Objects : traversed'[x] >= traversed[x] /\ traversed[x] \in Nat
    BY DEF GcTypes
  <1>4. traversed'[o] > 0
    BY DEF GcTypes
  <1>5. Waiting \subseteq marked
    BY DEF ClaimInv, WaitingMarked
  <1>6. Onward
    BY <1>2, <1>3, <1>4, <1>5 DEF Onward
  <1>7. Follows
    BY <1>2, <1>5 DEF Follows
  <1> QED BY <1>6, <1>7, ClaimsOnward DEF Seeds

(* A reference is marked, and its object put somewhere, or it was marked.  *)
LEMMA ClaimMade ==
  ASSUME GcTypes, GcTypes', ClaimInv, NEW p \in Lanes, OnlyLane(p), NEW o \in Objects,
         marked' = marked \cup {o},
         LET before == ToSet(injector) \cup ToSet(thread_q) \cup ToSet(lane[p].local)
             after == ToSet(injector') \cup ToSet(thread_q') \cup ToSet(lane'[p].local)
         IN after = before \cup {o} \/ (o \in marked /\ after = before),
         ToSet(lane'[p].refs) \cup {o} = ToSet(lane[p].refs),
         UNCHANGED <<traversed, phase, epoch>>
  PROVE  ClaimInv'
  <1>1. PICK locals, refs :
           /\ Waiting = ToSet(injector) \cup ToSet(thread_q) \cup ToSet(lane[p].local) \cup locals
           /\ Waiting' = ToSet(injector') \cup ToSet(thread_q') \cup ToSet(lane'[p].local) \cup locals
           /\ ToMark = ToSet(lane[p].refs) \cup refs
           /\ ToMark' = ToSet(lane'[p].refs) \cup refs
    BY AroundLane
  <1>2. Waiting' = Waiting \cup {o} \/ (o \in marked /\ Waiting' = Waiting)
    BY <1>1
  <1>3. ToMark' \cup {o} = ToMark
    BY <1>1
  <1>4. \A x \in Objects : traversed'[x] >= traversed[x]
    BY DEF GcTypes
  <1>5. Waiting \subseteq marked
    BY DEF ClaimInv, WaitingMarked
  <1>6. Onward
    BY <1>2, <1>3, <1>4, <1>5 DEF Onward
  <1>7. Follows
    BY <1>3 DEF Follows
  <1> QED BY <1>6, <1>7, ClaimsOnward DEF Seeds

LEMMA ClaimLaneStep ==
  ASSUME ActiveInv, ActiveInv', ClaimInv, NEW p \in Lanes, LaneStep(p)
  PROVE  ClaimInv'
  <1>0. GcTypes /\ GcTypes' /\ LaneShape(p) /\ lane[p] \in LaneTypes
    BY DEF ActiveInv, GcTypes
  <1>1. CASE Grab(p)
    <2>1. /\ OnlyLane(p) /\ lane'[p].refs = lane[p].refs /\ lane[p].local = <<>>
          /\ ToSet(injector') \cup ToSet(lane'[p].local) = ToSet(injector)
      BY <1>0, <1>1, GrabEffect
    <2>2. UNCHANGED <<marked, traversed, thread_q, phase, epoch>>
      BY <1>1 DEF Grab
    <2>3. ToSet(injector') \cup ToSet(thread_q') \cup ToSet(lane'[p].local)
            = ToSet(injector) \cup ToSet(thread_q) \cup ToSet(lane[p].local)
      BY <2>1, <2>2, SetOfNothing
    <2> QED BY <1>0, <2>1, <2>2, <2>3, ClaimsMoved DEF Seeds
  <1>2. CASE NothingToGrab(p) \/ TraverseEnds(p) \/ Lower(p)
    <2>1. \E where \in LaneStates : Moves(p, where)
      BY <1>0, <1>2, GotoMoves DEF NothingToGrab, TraverseEnds, Lower, LaneStates
    <2>2. UNCHANGED <<marked, traversed, thread_q, injector, phase, epoch>>
      BY <1>2 DEF NothingToGrab, TraverseEnds, Lower
    <2> QED BY <1>0, <2>1, <2>2, ClaimsMoved DEF Seeds, Moves
  <1>3. CASE PopLocal(p)
    <2> DEFINE o == Last(lane[p].local)
    <2>1. /\ OnlyLane(p) /\ o \in Objects /\ lane[p].refs = <<>> /\ lane'[p].refs = Refs[o]
          /\ ToSet(lane'[p].local) \cup {o} = ToSet(lane[p].local)
      BY <1>0, <1>3, PopEffect
    <2>2. /\ traversed' = [traversed EXCEPT ![o] = @ + 1]
          /\ UNCHANGED <<marked, thread_q, injector, phase, epoch>>
      BY <1>3 DEF PopLocal
    <2> HIDE DEF o
    <2>3. ToSet(injector') \cup ToSet(thread_q') \cup ToSet(lane'[p].local) \cup {o}
            = ToSet(injector) \cup ToSet(thread_q) \cup ToSet(lane[p].local)
      BY <2>1, <2>2
    <2> QED BY <1>0, <2>1, <2>2, <2>3, ClaimTakenUp
  <1>4. CASE Mark(p)
    <2> DEFINE o == Head(lane[p].refs)
    <2>1. /\ lane[p].refs # <<>> /\ marked' = marked \cup {o}
          /\ UNCHANGED <<injector, epoch, phase, traversed>>
      BY <1>4 DEF Mark
    <2>2. /\ lane[p].refs \in Seq(Objects) /\ lane[p].local \in Seq(Objects \ Threads)
          /\ thread_q \in Seq(Threads)
      BY <1>0 DEF LaneTypes, GcTypes
    <2>3. o \in Objects /\ ToSet(Tail(lane[p].refs)) \cup {o} = ToSet(lane[p].refs)
      BY <2>1, <2>2, SetOfTail
    <2>4. CASE o \in marked
      <3>1. lane' = [lane EXCEPT ![p] = [lane[p] EXCEPT !.refs = Tail(@)]] /\ thread_q' = thread_q
        BY <1>4, <2>4 DEF Mark
      <3>2. Passes(p)
        BY <1>0, <2>1, <3>1, PassEffect
      <3> QED BY <1>0, <2>1, <2>3, <2>4, <3>1, <3>2, ClaimMade DEF Passes
    <2>5. CASE o \notin marked
      <3>1. Own(p, o)
        BY <1>4, <2>5 DEF Mark
      <3> HIDE DEF o
      <3>2. /\ OnlyLane(p) /\ lane'[p].refs = Tail(lane[p].refs)
            /\ ToSet(thread_q') \cup ToSet(lane'[p].local)
                 = ToSet(thread_q) \cup ToSet(lane[p].local) \cup {o}
        BY <1>0, <2>1, <2>3, <3>1, OwnEffect
      <3>3. ToSet(injector') \cup ToSet(thread_q') \cup ToSet(lane'[p].local)
              = ToSet(injector) \cup ToSet(thread_q) \cup ToSet(lane[p].local) \cup {o}
        BY <2>1, <3>2
      <3> QED BY <1>0, <2>1, <2>3, <3>2, <3>3, ClaimMade
    <2> QED BY <2>4, <2>5
  <1>5. CASE ShareSurplus(p)
    <2>1. /\ OnlyLane(p) /\ lane'[p].refs = lane[p].refs
          /\ ToSet(injector') \cup ToSet(lane'[p].local) = ToSet(injector) \cup ToSet(lane[p].local)
      BY <1>0, <1>5, ShareEffect
    <2>2. UNCHANGED <<marked, traversed, thread_q, phase, epoch>>
      BY <1>5 DEF ShareSurplus
    <2>3. ToSet(injector') \cup ToSet(thread_q') \cup ToSet(lane'[p].local)
            = ToSet(injector) \cup ToSet(thread_q) \cup ToSet(lane[p].local)
      BY <2>1, <2>2
    <2> QED BY <1>0, <2>1, <2>2, <2>3, ClaimsMoved DEF Seeds
  <1> QED BY <1>1, <1>2, <1>3, <1>4, <1>5 DEF LaneStep

LEMMA ClaimWorkerStep ==
  ASSUME ActiveInv, ActiveInv', ClaimInv, NEW w \in Workers, Wake(w) \/ Leave(w)
  PROVE  ClaimInv'
  <1>0. GcTypes /\ GcTypes' /\ w \in Lanes
    BY LanesAre DEF ActiveInv
  <1>1. \E where \in LaneStates : Moves(w, where)
    BY <1>0, GotoMoves DEF Wake, Leave, LaneStates
  <1>2. UNCHANGED <<marked, injector, thread_q, epoch, phase, traversed>>
    BY DEF Wake, Leave
  <1> QED BY <1>0, <1>1, <1>2, ClaimsMoved DEF Seeds, Moves

LEMMA ClaimCoordinatorStep ==
  ASSUME ActiveInv, ActiveInv', ClaimInv,
         \/ NobodyActive \/ RaiseDone \/ ThreadsLeft
         \/ ServiceThread \/ NoThread \/ StockTest \/ StockMark \/ StockEnds
  PROVE  ClaimInv'
  <1> DEFINE c == Coordinator
  <1>0. GcTypes /\ GcTypes' /\ LaneShape(c) /\ c \in Lanes /\ lane[c] \in LaneTypes
    BY LanesAre DEF ActiveInv, GcTypes
  <1>1. CASE NobodyActive \/ RaiseDone \/ ThreadsLeft \/ NoThread \/ StockEnds
    <2>1. \E where \in LaneStates : Moves(c, where)
      BY <1>0, <1>1, GotoMoves DEF NobodyActive, RaiseDone, ThreadsLeft, NoThread, StockEnds,
         LaneStates
    <2>2. UNCHANGED <<marked, traversed, thread_q, injector, phase, epoch>>
      BY <1>1 DEF NobodyActive, RaiseDone, ThreadsLeft, NoThread, StockEnds
    <2> QED BY <1>0, <2>1, <2>2, ClaimsMoved DEF Seeds, Moves
  <1>2. CASE ServiceThread
    <2> DEFINE o == Last(thread_q)
    <2>1. /\ OnlyLane(c) /\ o \in Threads /\ lane[c].refs = <<>> /\ lane'[c].refs = Refs[o]
          /\ lane[c].local = <<>> /\ lane'[c].local = <<>>
          /\ ToSet(thread_q') \cup {o} = ToSet(thread_q)
      BY <1>0, <1>2, ServiceEffect
    <2>2. /\ traversed' = [traversed EXCEPT ![o] = @ + 1]
          /\ UNCHANGED <<marked, injector, phase, epoch>>
      BY <1>2 DEF ServiceThread
    <2>3. o \in Objects
      BY <2>1, MarkAssumption
    <2> HIDE DEF o
    <2>4. ToSet(injector') \cup ToSet(thread_q') \cup ToSet(lane'[c].local) \cup {o}
            = ToSet(injector) \cup ToSet(thread_q) \cup ToSet(lane[c].local)
      BY <2>1, <2>2
    <2> QED BY <1>0, <2>1, <2>2, <2>3, <2>4, ClaimTakenUp
  <1>3. CASE StockTest
    <2> DEFINE o == Head(lane[c].refs)
    <2>1. UNCHANGED <<marked, traversed, thread_q, injector, phase, epoch>>
      BY <1>3 DEF StockTest
    <2>2. /\ lane[c].refs # <<>>
          /\ \/ o \in marked /\ Passes(c)
             \/ OnlyLane(c) /\ lane'[c].local = lane[c].local /\ lane'[c].refs = lane[c].refs
      BY <1>0, <1>3, TestEffect
    <2>3. o \in Objects /\ ToSet(Tail(lane[c].refs)) \cup {o} = ToSet(lane[c].refs)
      BY <1>0, <2>2, SetOfTail DEF LaneTypes
    <2>4. CASE o \in marked /\ Passes(c)
      <3>1. marked' = marked \cup {o}
        BY <2>1, <2>4
      <3> QED BY <1>0, <2>1, <2>3, <2>4, <3>1, ClaimMade DEF Passes
    <2>5. CASE OnlyLane(c) /\ lane'[c].local = lane[c].local /\ lane'[c].refs = lane[c].refs
      BY <1>0, <2>1, <2>5, ClaimsMoved DEF Seeds
    <2> QED BY <2>2, <2>4, <2>5
  <1>4. CASE StockMark
    <2> DEFINE o == Head(lane[c].refs)
    <2>1. /\ lane[c].tested /\ marked' = marked \cup {o} /\ Own(c, o)
          /\ UNCHANGED <<injector, epoch, phase, traversed>>
      BY <1>4 DEF StockMark
    <2>2. /\ lane[c].refs \in Seq(Objects) /\ lane[c].local \in Seq(Objects \ Threads)
          /\ thread_q \in Seq(Threads) /\ lane[c].refs # <<>>
      BY <1>0, <2>1 DEF LaneTypes, GcTypes, LaneShape
    <2>3. o \in Objects /\ ToSet(Tail(lane[c].refs)) \cup {o} = ToSet(lane[c].refs)
      BY <2>2, SetOfTail
    <2> HIDE DEF o
    <2>4. /\ OnlyLane(c) /\ lane'[c].refs = Tail(lane[c].refs)
          /\ ToSet(thread_q') \cup ToSet(lane'[c].local)
               = ToSet(thread_q) \cup ToSet(lane[c].local) \cup {o}
      BY <1>0, <2>1, <2>2, <2>3, OwnEffect
    <2>5. ToSet(injector') \cup ToSet(thread_q') \cup ToSet(lane'[c].local)
            = ToSet(injector) \cup ToSet(thread_q) \cup ToSet(lane[c].local) \cup {o}
      BY <2>1, <2>4
    <2> QED BY <1>0, <2>1, <2>3, <2>4, <2>5, ClaimMade
  <1> QED BY <1>1, <1>2, <1>3, <1>4

LEMMA ClaimPassStep ==
  ASSUME ActiveInv, ActiveInv', ClaimInv, SeedRoots \/ LowerDone \/ Publish \/ SeedFinalised
  PROVE  ClaimInv'
  <1>0. /\ GcTypes /\ GcTypes' /\ Quiescent /\ Coordinator \in Lanes
        /\ ClaimsKept /\ WaitingMarked /\ OnlyReachable
    BY LanesAre DEF ActiveInv, ClaimInv
  <1>1. ASSUME NEW S \in SUBSET Objects, Seed(S), Seeds' = Seeds \cup S,
               Seeds \ Roots = {}, phase = "roots" \/ Roots \subseteq marked \cup S,
               phase = "roots" => S = Roots,
               UNCHANGED <<lane, traversed>>
        PROVE  ClaimInv'
    <2>1. /\ marked' = marked \cup S
          /\ ToSet(thread_q') = ToSet(thread_q) \cup ((S \ marked) \cap Threads)
          /\ ToSet(injector') = ToSet(injector) \cup ((S \ marked) \ Threads)
      BY <1>0, <1>1, SeedEffect
    <2>2. Waiting' = Waiting \cup (S \ marked) /\ ToMark' = ToMark
      BY <1>1, <2>1 DEF Waiting, ToMark
    <2>3. Seeds' \subseteq marked'
      BY <1>1, <2>1
    <2>4. \A o \in marked' \ Waiting' :
            traversed'[o] > 0 /\ ToSet(Refs[o]) \subseteq marked' \cup ToMark'
      BY <1>0, <1>1, <2>1, <2>2 DEF ClaimsKept
    <2>5. WaitingMarked'
      BY <1>0, <2>1, <2>2 DEF WaitingMarked
    <2>6. OnlyReachable'
      BY <1>0, <1>1, <2>1, <2>2 DEF OnlyReachable, Closed
    <2> QED BY <2>3, <2>4, <2>5, <2>6 DEF ClaimInv, ClaimsKept
  <1>2. CASE SeedRoots
    <2>1. epoch = 0 /\ phase = "roots" /\ phase' = "begin" /\ epoch' = 0
      BY <1>0, <1>2 DEF SeedRoots, GcTypes
    <2>2. Seeds = Roots /\ Seeds' = Roots
      BY <2>1 DEF Seeds
    <2> QED BY <1>1, <1>2, <2>1, <2>2, MarkAssumption DEF SeedRoots
  <1>3. CASE SeedFinalised
    <2>1. epoch = 1 /\ phase = "propagate" /\ phase' = "begin" /\ epoch' = 1
      BY <1>3 DEF SeedFinalised
    <2>2. Seeds = Roots /\ Seeds' = Roots \cup Finalised
      BY <2>1 DEF Seeds
    <2>3. Roots \subseteq marked
      BY <1>0, <2>1, <2>2 DEF ClaimsKept
    <2> QED BY <1>1, <1>3, <2>1, <2>2, <2>3, MarkAssumption DEF SeedFinalised
  <1>4. CASE LowerDone
    <2>1. /\ phase = "begin" /\ phase' = "publish"
          /\ UNCHANGED <<marked, injector, thread_q, epoch, lane, traversed>>
      BY <1>4 DEF LowerDone
    <2>2. Seeds' = Seeds
      BY <2>1 DEF Seeds
    <2>3. OnlyLane(Coordinator)
      BY <1>0, <2>1 DEF OnlyLane, GcTypes
    <2> QED BY <1>0, <2>1, <2>2, <2>3, ClaimsMoved DEF ClaimInv
  <1>5. CASE Publish
    <2>1. /\ phase = "publish" /\ phase' = "propagate" /\ epoch' = epoch + 1
          /\ UNCHANGED <<marked, injector, thread_q, traversed>>
      BY <1>5 DEF Publish
    <2>2. epoch \in {0, 1}
      BY <1>0, <2>1 DEF GcTypes
    <2>3. Seeds' = Seeds
      BY <2>1, <2>2 DEF Seeds
    <2>4. Moves(Coordinator, "loop")
      BY <1>0, <1>5, GotoMoves DEF Publish, LaneStates
    <2> QED BY <1>0, <2>1, <2>3, <2>4, ClaimsMoved DEF ClaimInv, Moves
  <1> QED BY <1>2, <1>3, <1>4, <1>5

LEMMA ClaimInvStep == ActiveInv /\ ActiveInv' /\ ClaimInv /\ [Next]_vars => ClaimInv'
  <1> SUFFICES ASSUME ActiveInv, ActiveInv', ClaimInv, [Next]_vars PROVE ClaimInv'
    OBVIOUS
  <1>1. CASE UNCHANGED vars
    <2>1. Waiting' = Waiting /\ ToMark' = ToMark /\ Seeds' = Seeds
      BY <1>1 DEF vars, Waiting, ToMark, Seeds
    <2> QED BY <1>1, <2>1 DEF vars, ClaimInv, ClaimsKept, WaitingMarked, OnlyReachable
  <1>2. CASE CoordinatorStep
    BY <1>2, LanesAre, ClaimLaneStep, ClaimPassStep, ClaimCoordinatorStep DEF CoordinatorStep
  <1>3. ASSUME NEW w \in Workers, WorkerStep(w) PROVE ClaimInv'
    BY <1>3, LanesAre, ClaimLaneStep, ClaimWorkerStep DEF WorkerStep
  <1> QED BY <1>1, <1>2, <1>3 DEF Next

LEMMA ClaimInvInit == Init => ClaimInv
  <1> SUFFICES ASSUME Init PROVE ClaimInv
    OBVIOUS
  <1>1. \A p \in Lanes : ToSet(lane[p].local) = {} /\ ToSet(lane[p].refs) = {}
    BY SetOfNothing DEF Init, Out
  <1>2. ToSet(injector) = {} /\ ToSet(thread_q) = {} /\ marked = {}
    BY SetOfNothing DEF Init
  <1>3. Waiting = {} /\ ToMark = {}
    BY <1>1, <1>2 DEF Waiting, ToMark
  <1> QED BY <1>2, <1>3 DEF Init, ClaimInv, ClaimsKept, WaitingMarked, OnlyReachable

(* When the coordinator takes a pass to be over, what is reachable is      *)
(* marked and traversed, nothing else is marked, and no work is left with  *)
(* anyone: PassComplete.                                                   *)
THEOREM PassIsComplete == Spec => []PassComplete
  <1>1. ActiveInv /\ ClaimInv => PassComplete
    <2> SUFFICES ASSUME ActiveInv, ClaimInv, PassOver
                 PROVE  /\ Reachable(marked, Roots \cup IF epoch = 2 THEN Finalised ELSE {})
                        /\ \A o \in marked : traversed[o] > 0
                        /\ injector = <<>> /\ thread_q = <<>>
                        /\ \A p \in Lanes : lane[p].local = <<>> /\ lane[p].refs = <<>>
      BY DEF PassComplete
    <2>1. phase = "propagate" /\ injector = <<>> /\ thread_q = <<>> /\ Busy = {}
      BY DEF ActiveInv, Quiescent, PassOver
    <2>2. \A p \in Lanes : lane[p].local = <<>> /\ lane[p].refs = <<>>
      BY <2>1 DEF ActiveInv, LaneShape, Busy
    <2>3. Waiting = {} /\ ToMark = {}
      BY <2>1, <2>2, SetOfNothing DEF Waiting, ToMark
    <2>4. Seeds = Roots \cup IF epoch = 2 THEN Finalised ELSE {}
      BY <2>1 DEF Seeds
    <2>5. Seeds \subseteq marked /\ Closed(marked) /\ \A o \in marked : traversed[o] > 0
      BY <2>1, <2>3 DEF ClaimInv, ClaimsKept, Closed
    <2>6. ASSUME NEW T \in SUBSET marked, Seeds \subseteq T, Closed(T)
          PROVE  T = marked
      <3>1. T \in SUBSET Objects
        BY DEF ActiveInv, GcTypes
      <3> QED BY <2>6, <3>1 DEF ClaimInv, OnlyReachable
    <2>7. Reachable(marked, Seeds)
      BY <2>5, <2>6 DEF Reachable
    <2> QED BY <2>1, <2>2, <2>4, <2>5, <2>7
  <1>2. Init => ClaimInv
    BY ClaimInvInit
  <1>3. ActiveInv /\ ActiveInv' /\ ClaimInv /\ [Next]_vars => ClaimInv'
    BY ClaimInvStep
  <1> QED BY <1>1, <1>2, <1>3, ActiveAlways, PTL DEF Spec

-----------------------------------------------------------------------------
(* How often an object is claimed                                          *)

(* The places where claimed objects wait: an index in one of the queues.   *)
QueueNames == {<<"injector", Coordinator>>, <<"threads", Coordinator>>} \cup ({"local"} \X Lanes)

QueueAt(n) ==
  IF n[1] = "injector" THEN injector
  ELSE IF n[1] = "threads" THEN thread_q ELSE lane[n[2]].local

PlacesOf(o) == {x \in QueueNames \X Nat : x[2] \in DOMAIN QueueAt(x[1]) /\ QueueAt(x[1])[x[2]] = o}

AtMostOne(S) == \A x, y \in S : x = y

AtMostTwo(S) == \A x, y, z \in S : x = y \/ y = z \/ x = z

(* The object has been traversed or waits so often in all.                 *)
Few(o, k) ==
  \/ traversed[o] = k /\ PlacesOf(o) = {}
  \/ traversed[o] + 1 = k /\ AtMostOne(PlacesOf(o))
  \/ traversed[o] + 2 = k /\ AtMostTwo(PlacesOf(o))

OfThread(o) == \E t \in Threads : o \in ToSet(Refs[t])

(* An object is claimed once, and once more by the stock mark if a thread  *)
(* refers to it: between the test and the store another lane may claim.    *)
OnceInv ==
  /\ \A o \in Objects : Few(o, IF OfThread(o) THEN 2 ELSE 1)
  /\ \A o \in Objects \ marked : Few(o, 0)
  /\ lane[Coordinator].tested => Few(Head(lane[Coordinator].refs), 1)
  /\ At(Coordinator, "stock") => \A o \in ToSet(lane[Coordinator].refs) : OfThread(o)

(* Nothing comes to wait in addition.                                      *)
LEMMA FewKept ==
  ASSUME NEW o, NEW m,
         \A x \in PlacesOf(o)' : m[x] \in PlacesOf(o),
         \A x, y \in PlacesOf(o)' : m[x] = m[y] => x = y,
         traversed'[o] = traversed[o]
  PROVE  \A k : Few(o, k) => Few(o, k)'
  <1>1. PlacesOf(o) = {} => PlacesOf(o)' = {}
    OBVIOUS
  <1>2. AtMostOne(PlacesOf(o)) => AtMostOne(PlacesOf(o)')
    BY DEF AtMostOne
  <1>3. AtMostTwo(PlacesOf(o)) => AtMostTwo(PlacesOf(o)')
    BY DEF AtMostTwo
  <1> QED BY <1>1, <1>2, <1>3 DEF Few

LEMMA FewSame ==
  ASSUME NEW o, PlacesOf(o)' = PlacesOf(o), traversed'[o] = traversed[o]
  PROVE  \A k : Few(o, k) => Few(o, k)'
  BY DEF Few

(* What waited is traversed.                                               *)
LEMMA FewTaken ==
  ASSUME NEW o, NEW z \in PlacesOf(o), PlacesOf(o)' = PlacesOf(o) \ {z},
         traversed[o] \in Nat, traversed'[o] = traversed[o] + 1
  PROVE  \A k : Few(o, k) => Few(o, k)'
  <1>1. AtMostOne(PlacesOf(o)) => PlacesOf(o)' = {}
    BY DEF AtMostOne
  <1>2. AtMostTwo(PlacesOf(o)) => AtMostOne(PlacesOf(o)')
    BY DEF AtMostTwo, AtMostOne
  <1>3. traversed[o] + 2 = traversed'[o] + 1
    OBVIOUS
  <1> QED BY <1>1, <1>2, <1>3 DEF Few

(* One more is put to wait.                                                *)
LEMMA FewClaimed ==
  ASSUME NEW o, AtMostOne(PlacesOf(o)' \ PlacesOf(o)), traversed[o] \in Nat, traversed'[o] = traversed[o]
  PROVE  (Few(o, 0) => Few(o, 1)') /\ (Few(o, 1) => Few(o, 2)')
  <1>1. PlacesOf(o) = {} => AtMostOne(PlacesOf(o)')
    BY DEF AtMostOne
  <1>2. AtMostOne(PlacesOf(o)) => AtMostTwo(PlacesOf(o)')
    BY DEF AtMostOne, AtMostTwo
  <1>3. Few(o, 0) => traversed[o] = 0 /\ PlacesOf(o) = {}
    BY DEF Few
  <1>4. Few(o, 1) => \/ traversed[o] = 1 /\ PlacesOf(o) = {}
                     \/ traversed[o] = 0 /\ AtMostOne(PlacesOf(o))
    BY DEF Few
  <1>5. Few(o, 0) => Few(o, 1)'
    BY <1>1, <1>3 DEF Few
  <1>6. Few(o, 1) => Few(o, 2)'
    BY <1>1, <1>2, <1>4 DEF Few
  <1> QED BY <1>5, <1>6

LEMMA FewMore ==
  ASSUME NEW o, traversed[o] \in Nat
  PROVE  (Few(o, 0) => Few(o, 1)) /\ (Few(o, 1) => Few(o, 2))
  <1>1. PlacesOf(o) = {} => AtMostOne(PlacesOf(o))
    BY DEF AtMostOne
  <1>2. AtMostOne(PlacesOf(o)) => AtMostTwo(PlacesOf(o))
    BY DEF AtMostOne, AtMostTwo
  <1> QED BY <1>1, <1>2 DEF Few

LEMMA QueuesAre ==
  ASSUME GcTypes
  PROVE  /\ <<"injector", Coordinator>> \in QueueNames /\ QueueAt(<<"injector", Coordinator>>) = injector
         /\ <<"threads", Coordinator>> \in QueueNames /\ QueueAt(<<"threads", Coordinator>>) = thread_q
         /\ \A p \in Lanes : <<"local", p>> \in QueueNames /\ QueueAt(<<"local", p>>) = lane[p].local
         /\ \A n \in QueueNames : /\ QueueAt(n) \in Seq(Objects)
                                  /\ Len(QueueAt(n)) \in Nat
                                  /\ DOMAIN QueueAt(n) = 1 .. Len(QueueAt(n))
         /\ \A n \in QueueNames : \/ n = <<"injector", Coordinator>>
                                  \/ n = <<"threads", Coordinator>>
                                  \/ \E p \in Lanes : n = <<"local", p>>
  <1>1. /\ <<"injector", Coordinator>> \in QueueNames /\ QueueAt(<<"injector", Coordinator>>) = injector
        /\ <<"threads", Coordinator>> \in QueueNames /\ QueueAt(<<"threads", Coordinator>>) = thread_q
    BY DEF QueueNames, QueueAt
  <1>2. \A p \in Lanes : <<"local", p>> \in QueueNames /\ QueueAt(<<"local", p>>) = lane[p].local
    BY DEF QueueNames, QueueAt
  <1>3. \A n \in QueueNames : \/ n = <<"injector", Coordinator>>
                              \/ n = <<"threads", Coordinator>>
                              \/ \E p \in Lanes : n = <<"local", p>>
    BY DEF QueueNames
  <1>4. injector \in Seq(Objects) /\ thread_q \in Seq(Objects)
    BY SeqMonotonic, MarkAssumption DEF GcTypes
  <1>5. \A p \in Lanes : lane[p].local \in Seq(Objects)
    <2> TAKE p \in Lanes
    <2>1. lane[p].local \in Seq(Objects \ Threads)
      BY DEF GcTypes, LaneTypes
    <2> QED BY <2>1, SeqMonotonic
  <1>6. \A n \in QueueNames : QueueAt(n) \in Seq(Objects)
    BY <1>1, <1>2, <1>3, <1>4, <1>5
  <1>7. \A n \in QueueNames : Len(QueueAt(n)) \in Nat /\ DOMAIN QueueAt(n) = 1 .. Len(QueueAt(n))
    <2> TAKE n \in QueueNames
    <2> QED BY <1>6, LenProperties
  <1> QED BY <1>1, <1>2, <1>3, <1>6, <1>7

(* The last is taken off a queue.                                          *)
LEMMA LastTaken ==
  ASSUME GcTypes, NEW n \in QueueNames, QueueAt(n) # <<>>, NEW o, o = Last(QueueAt(n)),
         QueueAt(n)' = Front(QueueAt(n)),
         \A q \in QueueNames \ {n} : QueueAt(q)' = QueueAt(q)
  PROVE  /\ \E z \in PlacesOf(o) : PlacesOf(o)' = PlacesOf(o) \ {z}
         /\ \A x : x # o => PlacesOf(x)' = PlacesOf(x)
  <1> DEFINE s == QueueAt(n)
             z == <<n, Len(s)>>
  <1>1. /\ s \in Seq(Objects) /\ Len(s) \in Nat /\ DOMAIN s = 1 .. Len(s)
        /\ \A q \in QueueNames : DOMAIN QueueAt(q) = 1 .. Len(QueueAt(q))
    BY QueuesAre
  <1>2. /\ Front(s) \in Seq(Objects) /\ Len(Front(s)) = Len(s) - 1
        /\ \A i \in 1 .. Len(s) - 1 : Front(s)[i] = s[i]
    BY <1>1, SetOfFront
  <1>3. DOMAIN Front(s) = 1 .. Len(s) - 1 /\ Len(s) # 0
    BY <1>1, <1>2, LenProperties, EmptySeq
  <1>4. z \in PlacesOf(o)
    BY <1>1, <1>3 DEF PlacesOf, Last
  <1>5. ASSUME NEW x, NEW y \in QueueNames \X Nat
        PROVE  y \in PlacesOf(x)' <=> y \in PlacesOf(x) /\ y # z
    <2>1. CASE y[1] # n
      BY <2>1 DEF PlacesOf
    <2>2. CASE y[1] = n
      <3>1. y = <<n, y[2]>> /\ y[2] \in Nat
        BY <2>2
      <3>2. QueueAt(n)' = Front(s)
        OBVIOUS
      <3>3. y \in PlacesOf(x)' <=> y[2] \in 1 .. Len(s) - 1 /\ Front(s)[y[2]] = x
        BY <1>3, <2>2, <3>2 DEF PlacesOf
      <3>4. y \in PlacesOf(x) <=> y[2] \in 1 .. Len(s) /\ s[y[2]] = x
        BY <1>1, <2>2 DEF PlacesOf
      <3>5. y # z <=> y[2] # Len(s)
        BY <3>1
      <3> QED BY <1>1, <1>2, <3>3, <3>4, <3>5
    <2> QED BY <2>1, <2>2
  <1>6. \A x : PlacesOf(x)' = PlacesOf(x) \ {z}
    <2> TAKE x
    <2>1. PlacesOf(x)' \subseteq QueueNames \X Nat /\ PlacesOf(x) \subseteq QueueNames \X Nat
      BY DEF PlacesOf
    <2> QED BY <1>5, <2>1
  <1>7. \A x : x # o => z \notin PlacesOf(x)
    BY DEF PlacesOf, Last
  <1> HIDE DEF z
  <1>8. PlacesOf(o)' = PlacesOf(o) \ {z}
    BY <1>6
  <1>9. \A x : x # o => PlacesOf(x)' = PlacesOf(x)
    <2> TAKE x
    <2>1. PlacesOf(x)' = PlacesOf(x) \ {z}
      BY <1>6
    <2>2. x # o => z \notin PlacesOf(x)
      BY <1>7
    <2> QED BY <2>1, <2>2
  <1> QED BY <1>4, <1>8, <1>9

(* Something is put at the end of a queue.                                 *)
LEMMA LastPut ==
  ASSUME GcTypes, NEW n \in QueueNames, NEW o \in Objects,
         QueueAt(n)' = Append(QueueAt(n), o),
         \A q \in QueueNames \ {n} : QueueAt(q)' = QueueAt(q)
  PROVE  /\ AtMostOne(PlacesOf(o)' \ PlacesOf(o))
         /\ \A x : x # o => PlacesOf(x)' = PlacesOf(x)
  <1> DEFINE s == QueueAt(n)
             z == <<n, Len(s) + 1>>
             t == Append(s, o)
  <1>1. /\ s \in Seq(Objects) /\ Len(s) \in Nat /\ DOMAIN s = 1 .. Len(s)
    BY QueuesAre
  <1>2. /\ t \in Seq(Objects) /\ DOMAIN t = 1 .. Len(s) + 1
        /\ \A i \in 1 .. Len(s) : t[i] = s[i]
        /\ t[Len(s) + 1] = o
    BY <1>1, AppendProperties, LenProperties
  <1> HIDE DEF t
  <1>3. ASSUME NEW x, NEW y \in QueueNames \X Nat
        PROVE  y \in PlacesOf(x)' <=> y \in PlacesOf(x) \/ (x = o /\ y = z)
    <2>1. CASE y[1] # n
      <3>1. y # z
        BY <2>1
      <3> QED BY <2>1, <3>1 DEF PlacesOf
    <2>2. CASE y[1] = n
      <3>1. y = <<n, y[2]>> /\ y[2] \in Nat
        BY <2>2
      <3>2. QueueAt(n)' = t
        BY DEF t
      <3>3. y \in PlacesOf(x)' <=> y[2] \in 1 .. Len(s) + 1 /\ t[y[2]] = x
        BY <1>2, <2>2, <3>2 DEF PlacesOf
      <3>4. y \in PlacesOf(x) <=> y[2] \in 1 .. Len(s) /\ s[y[2]] = x
        BY <1>1, <2>2 DEF PlacesOf
      <3>5. y = z <=> y[2] = Len(s) + 1
        BY <3>1
      <3> QED BY <1>1, <1>2, <3>3, <3>4, <3>5
    <2> QED BY <2>1, <2>2
  <1>4. \A x : PlacesOf(x)' \subseteq QueueNames \X Nat /\ PlacesOf(x) \subseteq QueueNames \X Nat
    BY DEF PlacesOf
  <1>5. PlacesOf(o)' \ PlacesOf(o) \subseteq {z}
    BY <1>3, <1>4
  <1>6. \A x : x # o => PlacesOf(x)' = PlacesOf(x)
    <2> SUFFICES ASSUME NEW x, x # o PROVE PlacesOf(x)' = PlacesOf(x)
      OBVIOUS
    <2>1. PlacesOf(x)' \subseteq QueueNames \X Nat /\ PlacesOf(x) \subseteq QueueNames \X Nat
      BY <1>4
    <2>2. \A y \in QueueNames \X Nat : y \in PlacesOf(x)' <=> y \in PlacesOf(x)
      BY <1>3
    <2> QED BY <2>1, <2>2
  <1> QED BY <1>5, <1>6 DEF AtMostOne

LEMMA QueuesAround ==
  ASSUME GcTypes, NEW p \in Lanes, OnlyLane(p)
  PROVE  /\ QueueAt(<<"injector", Coordinator>>)' = injector'
         /\ QueueAt(<<"threads", Coordinator>>)' = thread_q'
         /\ QueueAt(<<"local", p>>)' = lane'[p].local
         /\ \A n \in QueueNames \ {<<"injector", Coordinator>>, <<"threads", Coordinator>>, <<"local", p>>} :
              QueueAt(n)' = QueueAt(n)
  <1>1. /\ QueueAt(<<"injector", Coordinator>>)' = injector'
        /\ QueueAt(<<"threads", Coordinator>>)' = thread_q'
        /\ \A q \in Lanes : QueueAt(<<"local", q>>)' = lane'[q].local
    BY DEF QueueAt
  <1>2. \A n \in QueueNames \ {<<"injector", Coordinator>>, <<"threads", Coordinator>>, <<"local", p>>} :
          \E q \in Lanes \ {p} : n = <<"local", q>>
    BY DEF QueueNames
  <1>3. \A q \in Lanes \ {p} : QueueAt(<<"local", q>>)' = QueueAt(<<"local", q>>)
    BY <1>1, QueuesAre DEF OnlyLane
  <1> QED BY <1>1, <1>2, <1>3

(* Nothing changes in the queues.                                          *)
LEMMA QueuesSame ==
  ASSUME GcTypes, NEW p \in Lanes, OnlyLane(p), UNCHANGED <<injector, thread_q, traversed>>,
         lane'[p].local = lane[p].local
  PROVE  \A o : PlacesOf(o)' = PlacesOf(o)
  <1>1. \A n \in QueueNames : QueueAt(n)' = QueueAt(n)
    BY QueuesAround, QueuesAre
  <1> QED BY <1>1 DEF PlacesOf

(* No claim is made, and the coordinator tests nothing.                    *)
LEMMA OnceKept ==
  ASSUME GcTypes, OnceInv, \A o \in Objects : \A k : Few(o, k) => Few(o, k)',
         marked \subseteq marked',
         \/ ~lane'[Coordinator].tested
         \/ lane'[Coordinator].tested = lane[Coordinator].tested
            /\ lane'[Coordinator].refs = lane[Coordinator].refs
            /\ Head(lane[Coordinator].refs) \in Objects,
         At(Coordinator, "stock")' => \A o \in ToSet(lane'[Coordinator].refs) : OfThread(o)
  PROVE  OnceInv'
  <1>1. \A o \in Objects : Few(o, IF OfThread(o) THEN 2 ELSE 1)'
    BY DEF OnceInv, OfThread
  <1>2. \A o \in Objects \ marked' : Few(o, 0)'
    BY DEF OnceInv
  <1>3. lane'[Coordinator].tested => Few(Head(lane[Coordinator].refs), 1)
    BY DEF OnceInv
  <1>4. ASSUME NEW o \in Objects, o = Head(lane[Coordinator].refs),
               lane'[Coordinator].refs = lane[Coordinator].refs, lane'[Coordinator].tested
        PROVE  Few(Head(lane[Coordinator].refs), 1)'
    <2>1. Few(o, 1)'
      BY <1>3, <1>4
    <2>2. o = Head(lane'[Coordinator].refs)
      BY <1>4
    <2> QED BY <2>1, <2>2
  <1>5. lane'[Coordinator].tested => Few(Head(lane[Coordinator].refs), 1)'
    BY <1>4
  <1> QED BY <1>1, <1>2, <1>5 DEF OnceInv, OfThread

(* A step of a lane that claims nothing.                                   *)
LEMMA OnceOfLane ==
  ASSUME GcTypes, OnceInv, LaneShape(Coordinator), LaneShape(Coordinator)',
         NEW p \in Lanes, OnlyLane(p), marked \subseteq marked',
         p = Coordinator => lane'[p].at # "stock",
         \A o \in Objects : \A k : Few(o, k) => Few(o, k)'
  PROVE  OnceInv'
  <1>1. CASE p = Coordinator
    <2>1. ~lane'[Coordinator].tested /\ ~At(Coordinator, "stock")'
      BY <1>1 DEF LaneShape, At
    <2> QED BY <2>1, OnceKept
  <1>2. CASE p # Coordinator
    <2>1. lane'[Coordinator] = lane[Coordinator]
      BY <1>2, LanesAre DEF OnlyLane
    <2>2. lane[Coordinator].tested => Head(lane[Coordinator].refs) \in Objects
      <3>1. lane[Coordinator].refs \in Seq(Objects)
        BY LanesAre DEF GcTypes, LaneTypes
      <3> QED BY <3>1, SetOfTail DEF LaneShape
    <2>3. At(Coordinator, "stock")' => \A o \in ToSet(lane'[Coordinator].refs) : OfThread(o)
      BY <2>1 DEF OnceInv, At
    <2>4. lane[Coordinator].tested \in BOOLEAN
      BY LanesAre DEF GcTypes, LaneTypes
    <2>5. CASE lane[Coordinator].tested
      BY <2>1, <2>2, <2>3, <2>5, OnceKept
    <2>6. CASE ~lane[Coordinator].tested
      BY <2>1, <2>3, <2>6, OnceKept
    <2> QED BY <2>4, <2>5, <2>6
  <1> QED BY <1>1, <1>2

(* An object is claimed: it is new, or the stock mark claims it again.     *)
LEMMA OnceClaimed ==
  ASSUME GcTypes, OnceInv, LaneShape(Coordinator), NEW o \in Objects, marked' = marked \cup {o},
         AtMostOne(PlacesOf(o)' \ PlacesOf(o)), \A x : x # o => PlacesOf(x)' = PlacesOf(x),
         traversed' = traversed,
         Few(o, 0) \/ (Few(o, 1) /\ OfThread(o)),
         \/ ~lane'[Coordinator].tested
         \/ Few(o, 0) /\ lane'[Coordinator] = lane[Coordinator],
         At(Coordinator, "stock")' => \A x \in ToSet(lane'[Coordinator].refs) : OfThread(x)
  PROVE  OnceInv'
  <1>1. traversed[o] \in Nat /\ traversed'[o] \in Nat
    BY DEF GcTypes
  <1>2. (Few(o, 0) => Few(o, 1)') /\ (Few(o, 1) => Few(o, 2)')
    BY <1>1, FewClaimed
  <1>3. (Few(o, 1) => Few(o, 2))'
    <2> DEFINE P == PlacesOf(o)
    <2>1. (P = {} => AtMostOne(P))' /\ (AtMostOne(P) => AtMostTwo(P))'
      BY DEF AtMostOne, AtMostTwo
    <2> QED BY <1>1, <2>1 DEF Few
  <1>4. Few(o, IF OfThread(o) THEN 2 ELSE 1)'
    BY <1>2, <1>3 DEF OfThread
  <1>5. ASSUME NEW x \in Objects, x # o
        PROVE  \A k : Few(x, k) => Few(x, k)'
    BY <1>5, FewSame
  <1>6. \A x \in Objects : Few(x, IF OfThread(x) THEN 2 ELSE 1)'
    <2> TAKE x \in Objects
    <2>1. CASE x = o
      BY <1>4, <2>1
    <2>2. CASE x # o
      <3>1. Few(x, IF OfThread(x) THEN 2 ELSE 1)
        BY DEF OnceInv
      <3> QED BY <1>5, <2>2, <3>1 DEF OfThread
    <2> QED BY <2>1, <2>2
  <1>7. \A x \in Objects \ marked' : Few(x, 0)'
    BY <1>5 DEF OnceInv
  <1>8. (lane[Coordinator].tested => Few(Head(lane[Coordinator].refs), 1))'
    <2> SUFFICES ASSUME lane'[Coordinator].tested
                 PROVE  Few(Head(lane[Coordinator].refs), 1)'
      OBVIOUS
    <2>1. Few(o, 0) /\ lane'[Coordinator] = lane[Coordinator]
      OBVIOUS
    <2>2. lane[Coordinator].refs \in Seq(Objects) /\ lane[Coordinator].refs # <<>>
      BY <2>1, LanesAre DEF GcTypes, LaneTypes, LaneShape
    <2>3. PICK x \in Objects : x = Head(lane[Coordinator].refs)
      BY <2>2, SetOfTail
    <2>4. Few(x, 1)
      BY <2>1, <2>3 DEF OnceInv
    <2>5. Few(x, 1)'
      <3>1. CASE x = o
        BY <1>2, <2>1, <3>1
      <3>2. CASE x # o
        BY <1>5, <2>4, <3>2
      <3> QED BY <3>1, <3>2
    <2>6. x = Head(lane'[Coordinator].refs)
      BY <2>1, <2>3
    <2> QED BY <2>5, <2>6
  <1> QED BY <1>6, <1>7, <1>8 DEF OnceInv, OfThread

(* What is in a sequence made of two.                                      *)
LEMMA Appended ==
  ASSUME NEW S, NEW s \in Seq(S), NEW r \in Seq(S), NEW x, NEW i \in Nat
  PROVE  i \in DOMAIN (s \o r) /\ (s \o r)[i] = x
           <=> \/ i \in DOMAIN s /\ s[i] = x
               \/ i > Len(s) /\ i - Len(s) \in DOMAIN r /\ r[i - Len(s)] = x
  <1> DEFINE c == s \o r
  <1>1. /\ Len(s) \in Nat /\ DOMAIN s = 1 .. Len(s)
        /\ Len(r) \in Nat /\ DOMAIN r = 1 .. Len(r)
        /\ DOMAIN c = 1 .. Len(s) + Len(r)
        /\ \A j \in 1 .. Len(s) + Len(r) :
             c[j] = IF j <= Len(s) THEN s[j] ELSE r[j - Len(s)]
    BY ConcatProperties, LenProperties
  <1> HIDE DEF c
  <1>2. CASE i <= Len(s)
    <2>1. i \in DOMAIN c <=> i \in DOMAIN s
      BY <1>1, <1>2
    <2>2. i \in DOMAIN c => c[i] = s[i]
      BY <1>1, <1>2
    <2> QED BY <1>1, <1>2, <2>1, <2>2 DEF c
  <1>3. CASE i > Len(s)
    <2>1. i \in DOMAIN c <=> i - Len(s) \in DOMAIN r
      BY <1>1, <1>3
    <2>2. i \in DOMAIN c => c[i] = r[i - Len(s)]
      BY <1>1, <1>3
    <2>3. i \notin DOMAIN s
      BY <1>1, <1>3
    <2> QED BY <1>3, <2>1, <2>2, <2>3 DEF c
  <1> QED BY <1>1, <1>2, <1>3

(* What is taken off the injector in a batch waits where it is put.        *)
LEMMA OnceGrab ==
  ASSUME ActiveInv, ActiveInv', OnceInv, NEW p \in Lanes, Grab(p)
  PROVE  OnceInv'
  <1> DEFINE inj == <<"injector", Coordinator>>
             own == <<"local", p>>
  <1>0. GcTypes /\ LaneShape(p) /\ LaneShape(Coordinator) /\ LaneShape(Coordinator)'
    BY LanesAre DEF ActiveInv
  <1>1. /\ OnlyLane(p) /\ lane'[p].at = "drain" /\ lane[p].local = <<>>
        /\ \E k \in 0 .. Len(injector) :
             /\ injector' = SubSeq(injector, 1, k)
             /\ lane'[p].local = SubSeq(injector, k + 1, Len(injector))
    BY <1>0, GrabEffect
  <1>2. UNCHANGED <<marked, thread_q, traversed>>
    BY DEF Grab
  <1>3. PICK k \in 0 .. Len(injector) : /\ injector' = SubSeq(injector, 1, k)
                                        /\ lane'[p].local = SubSeq(injector, k + 1, Len(injector))
    BY <1>1
  <1>4. injector \in Seq(Objects \ Threads) /\ Len(injector) \in Nat /\ DOMAIN injector = 1 .. Len(injector)
    BY <1>0, LenProperties DEF GcTypes
  <1>5. /\ DOMAIN injector' = 1 .. k /\ \A i \in 1 .. k : injector'[i] = injector[i]
        /\ DOMAIN lane'[p].local = 1 .. Len(injector) - k
        /\ \A i \in 1 .. Len(injector) - k : lane'[p].local[i] = injector[k + i]
    BY <1>3, <1>4, SetOfCut, LenProperties
  <1>6. /\ inj \in QueueNames /\ own \in QueueNames /\ inj # own
        /\ QueueAt(inj) = injector /\ QueueAt(inj)' = injector'
        /\ QueueAt(own)' = lane'[p].local
        /\ \A n \in QueueNames \ {inj, own} : QueueAt(n)' = QueueAt(n)
    <2>1. inj # own
      OBVIOUS
    <2>2. /\ QueueAt(<<"threads", Coordinator>>)' = QueueAt(<<"threads", Coordinator>>)
      BY <1>0, <1>1, <1>2, QueuesAround, QueuesAre
    <2>3. \A n \in QueueNames \ {inj, own} : QueueAt(n)' = QueueAt(n)
      BY <1>0, <1>1, <2>2, QueuesAround
    <2> QED BY <1>0, <1>1, <2>1, <2>3, QueuesAround, QueuesAre
  <1> DEFINE m == [y \in QueueNames \X Nat |-> IF y[1] = own THEN <<inj, k + y[2]>> ELSE y]
  <1> HIDE DEF inj, own
  <1>7. ASSUME NEW o, NEW y \in PlacesOf(o)'
        PROVE  /\ y \in QueueNames \X Nat /\ m[y] \in PlacesOf(o)
               /\ y[1] = own => m[y] = <<inj, k + y[2]>> /\ y[2] \in Nat \ {0}
               /\ y[1] # own => m[y] = y
               /\ y[1] = inj => y[2] <= k
    <2>1. y \in QueueNames \X Nat /\ y[2] \in DOMAIN QueueAt(y[1])' /\ QueueAt(y[1])'[y[2]] = o
      BY DEF PlacesOf
    <2>2. CASE y[1] = own
      <3>1. /\ m[y] = <<inj, k + y[2]>> /\ y[2] \in 1 .. Len(injector) - k
            /\ injector[k + y[2]] = o
        BY <1>5, <1>6, <2>1, <2>2
      <3>2. k + y[2] \in 1 .. Len(injector) /\ k + y[2] \in Nat
        BY <1>4, <3>1
      <3>3. <<inj, k + y[2]>> \in PlacesOf(o)
        BY <1>4, <1>6, <3>1, <3>2 DEF PlacesOf
      <3> QED BY <1>6, <2>1, <2>2, <3>1, <3>3
    <2>3. CASE y[1] = inj
      <3>1. m[y] = y /\ y[2] \in 1 .. k /\ injector[y[2]] = o
        BY <1>5, <1>6, <2>1, <2>3
      <3>2. y \in PlacesOf(o)
        BY <1>4, <1>6, <2>1, <2>3, <3>1 DEF PlacesOf
      <3> QED BY <1>6, <2>1, <2>3, <3>1, <3>2
    <2>4. CASE y[1] \notin {own, inj}
      <3>1. m[y] = y /\ QueueAt(y[1])' = QueueAt(y[1])
        BY <1>6, <2>1, <2>4
      <3>2. y \in PlacesOf(o)
        BY <2>1, <3>1 DEF PlacesOf
      <3> QED BY <2>1, <2>4, <3>1, <3>2
    <2> QED BY <2>2, <2>3, <2>4
  <1> HIDE DEF m
  <1>8. ASSUME NEW o, NEW y \in PlacesOf(o)', NEW z \in PlacesOf(o)', m[y] = m[z]
        PROVE  y = z
    <2>1. y \in QueueNames \X Nat /\ z \in QueueNames \X Nat
      BY <1>7
    <2>2. CASE y[1] = own /\ z[1] = own
      <3>1. k + y[2] = k + z[2]
        BY <1>7, <1>8, <2>2
      <3>2. y[2] = z[2]
        BY <2>1, <3>1
      <3> QED BY <2>1, <2>2, <3>2
    <2>3. CASE y[1] # own /\ z[1] # own
      BY <1>7, <1>8, <2>3
    <2>4. CASE y[1] = own /\ z[1] # own
      <3>1. z = <<inj, k + y[2]>> /\ y[2] \in Nat \ {0}
        BY <1>7, <1>8, <2>4
      <3>2. z[1] = inj /\ z[2] = k + y[2] /\ z[2] <= k
        BY <1>7, <3>1
      <3> QED BY <3>1, <3>2
    <2>5. CASE y[1] # own /\ z[1] = own
      <3>1. y = <<inj, k + z[2]>> /\ z[2] \in Nat \ {0}
        BY <1>7, <1>8, <2>5
      <3>2. y[1] = inj /\ y[2] = k + z[2] /\ y[2] <= k
        BY <1>7, <3>1
      <3> QED BY <3>1, <3>2
    <2> QED BY <2>2, <2>3, <2>4, <2>5
  <1>9. ASSUME NEW o \in Objects
        PROVE  \A i : Few(o, i) => Few(o, i)'
    <2>1. \A y \in PlacesOf(o)' : m[y] \in PlacesOf(o)
      BY <1>7
    <2>2. \A y, z \in PlacesOf(o)' : m[y] = m[z] => y = z
      BY <1>8
    <2>3. traversed'[o] = traversed[o]
      BY <1>2
    <2> QED BY <2>1, <2>2, <2>3, FewKept
  <1> QED BY <1>0, <1>1, <1>2, <1>9, OnceOfLane

(* The oldest part of a long stack waits on the injector instead.          *)
LEMMA OnceShare ==
  ASSUME ActiveInv, ActiveInv', OnceInv, NEW p \in Lanes, ShareSurplus(p)
  PROVE  OnceInv'
  <1> DEFINE inj == <<"injector", Coordinator>>
             own == <<"local", p>>
             s == lane[p].local
             oldest == SubSeq(s, 1, Shared)
  <1>0. GcTypes /\ LaneShape(p) /\ LaneShape(Coordinator) /\ LaneShape(Coordinator)'
    BY LanesAre DEF ActiveInv
  <1>1. /\ OnlyLane(p) /\ lane'[p].at = "drain"
        /\ Shared \in 0 .. Len(s)
        /\ lane'[p].local = SubSeq(s, Shared + 1, Len(s))
    BY <1>0, ShareEffect
  <1>2. UNCHANGED <<marked, thread_q, traversed>> /\ injector' = injector \o oldest
    BY DEF ShareSurplus
  <1>3. /\ s \in Seq(Objects \ Threads) /\ Len(s) \in Nat /\ DOMAIN s = 1 .. Len(s)
        /\ injector \in Seq(Objects \ Threads) /\ Len(injector) \in Nat
    BY <1>0, LenProperties DEF GcTypes, LaneTypes
  <1>4. /\ oldest \in Seq(Objects \ Threads)
        /\ DOMAIN oldest = 1 .. Shared /\ \A i \in 1 .. Shared : oldest[i] = s[i]
        /\ DOMAIN lane'[p].local = 1 .. Len(s) - Shared
        /\ \A i \in 1 .. Len(s) - Shared : lane'[p].local[i] = s[Shared + i]
    BY <1>1, <1>3, SetOfCut, LenProperties
  <1> HIDE DEF oldest
  <1>5. ASSUME NEW o, NEW i \in Nat
        PROVE  i \in DOMAIN injector' /\ injector'[i] = o
                 <=> \/ i \in DOMAIN injector /\ injector[i] = o
                     \/ i > Len(injector) /\ i - Len(injector) \in DOMAIN oldest
                        /\ oldest[i - Len(injector)] = o
    <2>1. i \in DOMAIN (injector \o oldest) /\ (injector \o oldest)[i] = o
            <=> \/ i \in DOMAIN injector /\ injector[i] = o
                \/ i > Len(injector) /\ i - Len(injector) \in DOMAIN oldest
                   /\ oldest[i - Len(injector)] = o
      <3>1. injector \in Seq(Objects \ Threads) /\ oldest \in Seq(Objects \ Threads)
        BY <1>3, <1>4
      <3> HIDE DEF s
      <3> QED BY ONLY <3>1, <1>5, Appended
    <2> QED BY <1>2, <2>1
  <1>6. /\ inj \in QueueNames /\ own \in QueueNames /\ inj # own
        /\ QueueAt(inj) = injector /\ QueueAt(inj)' = injector'
        /\ QueueAt(own) = s /\ QueueAt(own)' = lane'[p].local
        /\ \A n \in QueueNames \ {inj, own} : QueueAt(n)' = QueueAt(n)
    <2>1. inj # own
      OBVIOUS
    <2>2. /\ QueueAt(<<"threads", Coordinator>>)' = QueueAt(<<"threads", Coordinator>>)
      BY <1>0, <1>1, <1>2, QueuesAround, QueuesAre
    <2>3. \A n \in QueueNames \ {inj, own} : QueueAt(n)' = QueueAt(n)
      BY <1>0, <1>1, <2>2, QueuesAround
    <2> QED BY <1>0, <1>1, <2>1, <2>3, QueuesAround, QueuesAre
  <1>7. DOMAIN injector = 1 .. Len(injector)
    BY <1>3, LenProperties
  <1> DEFINE m == [y \in QueueNames \X Nat |->
                     IF y[1] = own THEN <<own, Shared + y[2]>>
                     ELSE IF y[1] = inj /\ y[2] > Len(injector) THEN <<own, y[2] - Len(injector)>>
                     ELSE y]
  <1> HIDE DEF inj, own, s
  <1>8. ASSUME NEW o, NEW y \in PlacesOf(o)'
        PROVE  /\ y \in QueueNames \X Nat /\ m[y] \in PlacesOf(o)
               /\ y[1] = own => m[y] = <<own, Shared + y[2]>> /\ y[2] \in Nat \ {0}
               /\ y[1] = inj /\ y[2] > Len(injector) =>
                    m[y] = <<own, y[2] - Len(injector)>> /\ y[2] - Len(injector) <= Shared
               /\ y[1] = inj /\ ~(y[2] > Len(injector)) => m[y] = y
               /\ y[1] \notin {own, inj} => m[y] = y
    <2>1. /\ y \in QueueNames \X Nat
          /\ y[2] \in DOMAIN QueueAt(y[1])' /\ QueueAt(y[1])'[y[2]] = o
          /\ y = <<y[1], y[2]>>
      BY DEF PlacesOf
    <2>2. CASE y[1] = own
      <3>1. /\ m[y] = <<own, Shared + y[2]>> /\ y[2] \in 1 .. Len(s) - Shared
            /\ s[Shared + y[2]] = o
        BY <1>4, <1>6, <2>1, <2>2
      <3>2. Shared + y[2] \in 1 .. Len(s) /\ Shared + y[2] \in Nat
        BY <1>1, <1>3, <3>1
      <3>3. <<own, Shared + y[2]>> \in PlacesOf(o)
        BY <1>3, <1>6, <3>1, <3>2 DEF PlacesOf
      <3> QED BY <1>6, <2>1, <2>2, <3>1, <3>3
    <2>3. CASE y[1] = inj /\ y[2] > Len(injector)
      <3>1. m[y] = <<own, y[2] - Len(injector)>>
        BY <1>6, <2>1, <2>3
      <3>2. y[2] - Len(injector) \in DOMAIN oldest /\ oldest[y[2] - Len(injector)] = o
        <4>1. y[2] \notin DOMAIN injector
          BY <1>3, <1>7, <2>3
        <4>2. y[2] \in Nat /\ y[2] \in DOMAIN injector' /\ injector'[y[2]] = o
          BY <1>6, <2>1, <2>3
        <4> QED BY <1>5, <4>1, <4>2
      <3>3. /\ y[2] - Len(injector) \in 1 .. Shared /\ y[2] - Len(injector) \in Nat
            /\ y[2] - Len(injector) <= Shared
            /\ y[2] - Len(injector) \in 1 .. Len(s) /\ s[y[2] - Len(injector)] = o
        BY <1>1, <1>3, <1>4, <3>2
      <3>4. <<own, y[2] - Len(injector)>> \in PlacesOf(o)
        BY <1>3, <1>6, <3>3 DEF PlacesOf
      <3> QED BY <1>6, <2>1, <2>3, <3>1, <3>3, <3>4
    <2>4. CASE y[1] = inj /\ ~(y[2] > Len(injector))
      <3>1. m[y] = y
        BY <1>6, <2>1, <2>4
      <3>2. y[2] \in DOMAIN injector /\ injector[y[2]] = o
        <4>1. y[2] \in Nat /\ y[2] \in DOMAIN injector' /\ injector'[y[2]] = o
          BY <1>6, <2>1, <2>4
        <4> QED BY <1>5, <2>4, <4>1
      <3>3. y \in PlacesOf(o)
        BY <1>6, <2>1, <2>4, <3>2 DEF PlacesOf
      <3> QED BY <1>6, <2>1, <2>4, <3>1, <3>3
    <2>5. CASE y[1] \notin {own, inj}
      <3>1. m[y] = y /\ QueueAt(y[1])' = QueueAt(y[1])
        BY <1>6, <2>1, <2>5
      <3>2. y \in PlacesOf(o)
        BY <2>1, <3>1 DEF PlacesOf
      <3> QED BY <2>1, <2>5, <3>1, <3>2
    <2> QED BY <2>2, <2>3, <2>4, <2>5
  <1> HIDE DEF m
  <1>9. ASSUME NEW o, NEW y \in PlacesOf(o)', NEW z \in PlacesOf(o)', m[y] = m[z]
        PROVE  y = z
    <2> DEFINE Old(x) == x[1] \notin {own, inj} \/ (x[1] = inj /\ ~(x[2] > Len(injector)))
               Given(x) == x[1] = inj /\ x[2] > Len(injector)
    <2>1. /\ y \in QueueNames \X Nat /\ z \in QueueNames \X Nat
          /\ y = <<y[1], y[2]>> /\ z = <<z[1], z[2]>>
          /\ Shared \in Nat
      BY <1>1, <1>3, <1>8
    <2>2. \A x \in {y, z} :
            /\ x[1] = own \/ Given(x) \/ Old(x)
            /\ Old(x) => m[x] = x /\ x[1] # own
            /\ Given(x) => m[x] = <<own, x[2] - Len(injector)>> /\ x[2] - Len(injector) <= Shared
            /\ x[1] = own => m[x] = <<own, Shared + x[2]>> /\ x[2] \in Nat \ {0}
      BY <1>6, <1>8
    <2> HIDE DEF Old
    <2>3. CASE Old(y) \/ Old(z)
      <3>1. \A x \in {y, z} : m[x][1] = own <=> ~Old(x)
        BY <2>2
      <3>2. Old(y) /\ Old(z)
        BY <1>9, <2>3, <3>1
      <3> QED BY <1>9, <2>2, <3>2
    <2>4. CASE y[1] = own /\ z[1] = own
      <3>1. Shared + y[2] = Shared + z[2]
        BY <1>9, <2>2, <2>4
      <3>2. y[2] = z[2]
        BY <2>1, <3>1
      <3> QED BY <2>1, <2>4, <3>2
    <2>5. CASE Given(y) /\ Given(z)
      <3>1. y[2] - Len(injector) = z[2] - Len(injector)
        BY <1>9, <2>2, <2>5
      <3>2. y[2] = z[2]
        BY <1>3, <2>1, <3>1
      <3> QED BY <2>1, <2>5, <3>2
    <2>6. CASE y[1] = own /\ Given(z)
      <3>1. Shared + y[2] = z[2] - Len(injector) /\ z[2] - Len(injector) <= Shared /\ y[2] \in Nat \ {0}
        BY <1>9, <2>2, <2>6
      <3> QED BY <1>3, <2>1, <3>1
    <2>7. CASE z[1] = own /\ Given(y)
      <3>1. Shared + z[2] = y[2] - Len(injector) /\ y[2] - Len(injector) <= Shared /\ z[2] \in Nat \ {0}
        BY <1>9, <2>2, <2>7
      <3> QED BY <1>3, <2>1, <3>1
    <2> QED BY <2>2, <2>3, <2>4, <2>5, <2>6, <2>7
  <1>10. ASSUME NEW o \in Objects
         PROVE  \A i : Few(o, i) => Few(o, i)'
    <2>1. \A y \in PlacesOf(o)' : m[y] \in PlacesOf(o)
      BY <1>8
    <2>2. \A y, z \in PlacesOf(o)' : m[y] = m[z] => y = z
      BY <1>9
    <2>3. traversed'[o] = traversed[o]
      BY <1>2
    <2> QED BY <2>1, <2>2, <2>3, FewKept
  <1> QED BY <1>0, <1>1, <1>2, <1>10, OnceOfLane

(* A claim that is new: the seeds of a pass.                               *)
LEMMA OnceSeed ==
  ASSUME ActiveInv, OnceInv, NEW S \in SUBSET Objects, Seed(S), At(Coordinator, "out"),
         UNCHANGED <<lane, traversed>>
  PROVE  OnceInv'
  <1> DEFINE inj == <<"injector", Coordinator>>
             thr == <<"threads", Coordinator>>
             new == S \ marked
  <1>0. GcTypes /\ LaneShape(Coordinator)
    BY LanesAre DEF ActiveInv
  <1>1. PICK q \in Orders(new \cap Threads) : thread_q' = thread_q \o q
    BY <1>0, SeedEffect
  <1>2. PICK r \in Orders(new \ Threads) : injector' = injector \o r
    BY <1>0, SeedEffect
  <1>3. marked' = marked \cup S
    BY <1>0, SeedEffect
  <1>4. /\ q \in Seq(new \cap Threads) /\ ToSet(q) = new \cap Threads
        /\ \A i, j \in DOMAIN q : q[i] = q[j] => i = j
    <2>1. IsFiniteSet(new \cap Threads)
      BY MarkAssumption, FS_Subset
    <2> QED BY <2>1, SetOfOrder
  <1>5. /\ r \in Seq(new \ Threads) /\ ToSet(r) = new \ Threads
        /\ \A i, j \in DOMAIN r : r[i] = r[j] => i = j
    <2>1. IsFiniteSet(new \ Threads)
      BY MarkAssumption, FS_Subset
    <2> QED BY <2>1, SetOfOrder
  <1>6. /\ thread_q \in Seq(Objects) /\ q \in Seq(Objects)
        /\ injector \in Seq(Objects) /\ r \in Seq(Objects)
    <2>1. new \cap Threads \subseteq Objects /\ new \ Threads \subseteq Objects
          /\ Threads \subseteq Objects /\ Objects \ Threads \subseteq Objects
      BY MarkAssumption
    <2>2. thread_q \in Seq(Threads) /\ injector \in Seq(Objects \ Threads)
      BY <1>0 DEF GcTypes
    <2>3. thread_q \in Seq(Objects) /\ q \in Seq(Objects)
      BY <1>4, <2>1, <2>2, SeqMonotonic
    <2>4. injector \in Seq(Objects) /\ r \in Seq(Objects)
      BY <1>5, <2>1, <2>2, SeqMonotonic
    <2> QED BY <2>3, <2>4
  <1> HIDE DEF new
  <1>7. ASSUME NEW o, NEW i \in Nat
        PROVE  /\ i \in DOMAIN thread_q' /\ thread_q'[i] = o
                    <=> \/ i \in DOMAIN thread_q /\ thread_q[i] = o
                        \/ i > Len(thread_q) /\ i - Len(thread_q) \in DOMAIN q
                           /\ q[i - Len(thread_q)] = o
               /\ i \in DOMAIN injector' /\ injector'[i] = o
                    <=> \/ i \in DOMAIN injector /\ injector[i] = o
                        \/ i > Len(injector) /\ i - Len(injector) \in DOMAIN r
                           /\ r[i - Len(injector)] = o
    <2>1. i \in DOMAIN (thread_q \o q) /\ (thread_q \o q)[i] = o
            <=> \/ i \in DOMAIN thread_q /\ thread_q[i] = o
                \/ i > Len(thread_q) /\ i - Len(thread_q) \in DOMAIN q
                   /\ q[i - Len(thread_q)] = o
      BY ONLY <1>6, <1>7, Appended
    <2>2. i \in DOMAIN (injector \o r) /\ (injector \o r)[i] = o
            <=> \/ i \in DOMAIN injector /\ injector[i] = o
                \/ i > Len(injector) /\ i - Len(injector) \in DOMAIN r
                   /\ r[i - Len(injector)] = o
      BY ONLY <1>6, <1>7, Appended
    <2> QED BY <1>1, <1>2, <2>1, <2>2
  <1>8. /\ inj \in QueueNames /\ thr \in QueueNames /\ inj # thr
        /\ QueueAt(inj) = injector /\ QueueAt(inj)' = injector'
        /\ QueueAt(thr) = thread_q /\ QueueAt(thr)' = thread_q'
        /\ \A n \in QueueNames \ {inj, thr} : QueueAt(n)' = QueueAt(n)
    <2>1. OnlyLane(Coordinator)
      BY <1>0 DEF OnlyLane, GcTypes
    <2>2. lane'[Coordinator].local = lane[Coordinator].local /\ inj # thr
      OBVIOUS
    <2>3. QueueAt(<<"local", Coordinator>>)' = QueueAt(<<"local", Coordinator>>)
      BY <1>0, <2>1, <2>2, LanesAre, QueuesAround, QueuesAre
    <2> QED BY <1>0, <2>1, <2>2, <2>3, LanesAre, QueuesAround, QueuesAre
  <1> HIDE DEF inj, thr
  <1>9. Len(thread_q) \in Nat /\ Len(injector) \in Nat
    BY <1>6, LenProperties
  <1>10. ASSUME NEW o, NEW y \in PlacesOf(o)', y \notin PlacesOf(o)
         PROVE  /\ y = <<y[1], y[2]>> /\ y[2] \in Nat
                /\ \/ /\ y[1] = thr /\ o \in new \cap Threads
                      /\ y[2] - Len(thread_q) \in DOMAIN q /\ q[y[2] - Len(thread_q)] = o
                   \/ /\ y[1] = inj /\ o \in new \ Threads
                      /\ y[2] - Len(injector) \in DOMAIN r /\ r[y[2] - Len(injector)] = o
    <2>1. /\ y \in QueueNames \X Nat /\ y = <<y[1], y[2]>> /\ y[2] \in Nat
          /\ y[2] \in DOMAIN QueueAt(y[1])' /\ QueueAt(y[1])'[y[2]] = o
      BY DEF PlacesOf
    <2>2. ~(y[2] \in DOMAIN QueueAt(y[1]) /\ QueueAt(y[1])[y[2]] = o)
      BY <1>10, <2>1 DEF PlacesOf
    <2>3. y[1] = thr \/ y[1] = inj
      <3>1. QueueAt(y[1])' # QueueAt(y[1])
        BY <2>1, <2>2
      <3> QED BY <1>8, <2>1, <3>1
    <2>4. CASE y[1] = thr
      <3>1. y[2] - Len(thread_q) \in DOMAIN q /\ q[y[2] - Len(thread_q)] = o
        BY <1>7, <1>8, <2>1, <2>2, <2>4
      <3>2. o \in new \cap Threads
        BY <1>4, <3>1 DEF ToSet
      <3> QED BY <2>1, <2>4, <3>1, <3>2
    <2>5. CASE y[1] = inj
      <3>1. y[2] - Len(injector) \in DOMAIN r /\ r[y[2] - Len(injector)] = o
        BY <1>7, <1>8, <2>1, <2>2, <2>5
      <3>2. o \in new \ Threads
        BY <1>5, <3>1 DEF ToSet
      <3> QED BY <2>1, <2>5, <3>1, <3>2
    <2> QED BY <2>3, <2>4, <2>5
  <1>11. \A o : AtMostOne(PlacesOf(o)' \ PlacesOf(o))
    <2> SUFFICES ASSUME NEW o, NEW y \in PlacesOf(o)' \ PlacesOf(o), NEW z \in PlacesOf(o)' \ PlacesOf(o)
                 PROVE  y = z
      BY DEF AtMostOne
    <2>1. y = <<y[1], y[2]>> /\ y[2] \in Nat /\ z = <<z[1], z[2]>> /\ z[2] \in Nat
      BY <1>10
    <2>2. CASE y[1] = thr
      <3>1. /\ z[1] = thr
            /\ y[2] - Len(thread_q) \in DOMAIN q /\ q[y[2] - Len(thread_q)] = o
            /\ z[2] - Len(thread_q) \in DOMAIN q /\ q[z[2] - Len(thread_q)] = o
        BY <1>8, <1>10, <2>2
      <3>2. y[2] - Len(thread_q) = z[2] - Len(thread_q)
        BY <1>4, <3>1
      <3>3. y[2] = z[2]
        BY <1>9, <2>1, <3>2
      <3> QED BY <2>1, <2>2, <3>1, <3>3
    <2>3. CASE y[1] # thr
      <3>1. /\ y[1] = inj /\ z[1] = inj
            /\ y[2] - Len(injector) \in DOMAIN r /\ r[y[2] - Len(injector)] = o
            /\ z[2] - Len(injector) \in DOMAIN r /\ r[z[2] - Len(injector)] = o
        BY <1>8, <1>10, <2>3
      <3>2. y[2] - Len(injector) = z[2] - Len(injector)
        BY <1>5, <3>1
      <3>3. y[2] = z[2]
        BY <1>9, <2>1, <3>2
      <3> QED BY <2>1, <3>1, <3>3
    <2> QED BY <2>2, <2>3
  <1>12. \A o : o \notin new => PlacesOf(o)' = PlacesOf(o)
    <2> SUFFICES ASSUME NEW o, o \notin new
                 PROVE  PlacesOf(o)' = PlacesOf(o)
      OBVIOUS
    <2>1. PlacesOf(o)' \subseteq PlacesOf(o)
      BY <1>10
    <2>2. ASSUME NEW y \in PlacesOf(o)
          PROVE  y \in PlacesOf(o)'
      <3>1. /\ y \in QueueNames \X Nat /\ y[2] \in Nat
            /\ y[2] \in DOMAIN QueueAt(y[1]) /\ QueueAt(y[1])[y[2]] = o
        BY DEF PlacesOf
      <3>2. y[2] \in DOMAIN QueueAt(y[1])' /\ QueueAt(y[1])'[y[2]] = o
        <4>1. CASE y[1] = thr
          BY <1>7, <1>8, <3>1, <4>1
        <4>2. CASE y[1] = inj
          BY <1>7, <1>8, <3>1, <4>2
        <4>3. CASE y[1] \notin {inj, thr}
          BY <1>8, <3>1, <4>3
        <4> QED BY <4>1, <4>2, <4>3
      <3> QED BY <3>1, <3>2 DEF PlacesOf
    <2> QED BY <2>1, <2>2
  <1>13. ASSUME NEW o \in Objects
         PROVE  /\ o \notin new => \A k : Few(o, k) => Few(o, k)'
                /\ o \in new => Few(o, 1)' /\ Few(o, 2)'
    <2>1. traversed'[o] = traversed[o] /\ traversed[o] \in Nat
      BY <1>0 DEF GcTypes
    <2>2. o \notin new => \A k : Few(o, k) => Few(o, k)'
      BY <1>12, <2>1, FewSame
    <2>3. ASSUME o \in new
          PROVE  Few(o, 1)' /\ Few(o, 2)'
      <3>1. Few(o, 0)
        BY <2>3 DEF OnceInv, new
      <3>2. Few(o, 1)
        BY <2>1, <3>1, FewMore
      <3> QED BY <1>11, <2>1, <3>1, <3>2, FewClaimed
    <2> QED BY <2>2, <2>3
  <1>14. \A o \in Objects : Few(o, IF OfThread(o) THEN 2 ELSE 1)'
    BY <1>13 DEF OnceInv, OfThread
  <1>15. \A o \in Objects \ marked' : Few(o, 0)'
    BY <1>3, <1>13 DEF OnceInv, new
  <1>16. ~lane'[Coordinator].tested /\ ~At(Coordinator, "stock")'
    BY <1>0 DEF LaneShape, At
  <1> QED BY <1>14, <1>15, <1>16 DEF OnceInv, OfThread

(* The last of a queue is traversed.                                       *)
LEMMA FewOfTraversed ==
  ASSUME GcTypes, NEW n \in QueueNames, QueueAt(n) # <<>>, NEW o \in Objects, o = Last(QueueAt(n)),
         QueueAt(n)' = Front(QueueAt(n)),
         \A q \in QueueNames \ {n} : QueueAt(q)' = QueueAt(q),
         traversed' = [traversed EXCEPT ![o] = @ + 1]
  PROVE  \A x \in Objects : \A k : Few(x, k) => Few(x, k)'
  <1>1. /\ \E z \in PlacesOf(o) : PlacesOf(o)' = PlacesOf(o) \ {z}
        /\ \A x : x # o => PlacesOf(x)' = PlacesOf(x)
    BY LastTaken
  <1>2. /\ \A x \in Objects : traversed[x] \in Nat
        /\ traversed'[o] = traversed[o] + 1
        /\ \A x \in Objects : x # o => traversed'[x] = traversed[x]
    BY DEF GcTypes
  <1>3. \A k : Few(o, k) => Few(o, k)'
    <2>1. PICK z \in PlacesOf(o) : PlacesOf(o)' = PlacesOf(o) \ {z}
      BY <1>1
    <2> QED BY <1>2, <2>1, FewTaken
  <1>4. \A x \in Objects : x # o => \A k : Few(x, k) => Few(x, k)'
    <2> TAKE x \in Objects
    <2> QED BY <1>1, <1>2, FewSame
  <1>5. ASSUME NEW x \in Objects
        PROVE  \A k : Few(x, k) => Few(x, k)'
    <2>1. CASE x = o
      BY <1>3, <2>1
    <2>2. CASE x # o
      BY <1>4, <2>2
    <2> QED BY <2>1, <2>2
  <1> QED BY <1>5

LEMMA OncePop ==
  ASSUME ActiveInv, ActiveInv', OnceInv, NEW p \in Lanes, PopLocal(p)
  PROVE  OnceInv'
  <1> DEFINE own == <<"local", p>>
  <1>0. GcTypes /\ LaneShape(p) /\ LaneShape(Coordinator) /\ LaneShape(Coordinator)'
    BY LanesAre DEF ActiveInv
  <1>1. PICK o \in Objects : o = Last(lane[p].local)
    BY <1>0, PopEffect
  <1>2. /\ OnlyLane(p) /\ lane'[p].at = "traverse"
        /\ lane'[p].local = Front(lane[p].local) /\ lane[p].local # <<>>
        /\ traversed' = [traversed EXCEPT ![o] = @ + 1]
        /\ UNCHANGED <<marked, injector, thread_q>>
    BY <1>0, <1>1, PopEffect DEF PopLocal
  <1>3. /\ own \in QueueNames /\ QueueAt(own) = lane[p].local /\ QueueAt(own)' = Front(QueueAt(own))
        /\ \A n \in QueueNames \ {own} : QueueAt(n)' = QueueAt(n)
    <2>1. own \in QueueNames /\ QueueAt(own) = lane[p].local /\ QueueAt(own)' = lane'[p].local
      BY <1>0, <1>2, QueuesAre, QueuesAround
    <2>2. /\ QueueAt(<<"injector", Coordinator>>)' = QueueAt(<<"injector", Coordinator>>)
          /\ QueueAt(<<"threads", Coordinator>>)' = QueueAt(<<"threads", Coordinator>>)
      BY <1>0, <1>2, QueuesAre, QueuesAround
    <2>3. \A n \in QueueNames \ {own} : QueueAt(n)' = QueueAt(n)
      BY <1>0, <1>2, <2>2, QueuesAround
    <2> QED BY <1>2, <2>1, <2>3
  <1> HIDE DEF own
  <1>4. \A x \in Objects : \A k : Few(x, k) => Few(x, k)'
    BY <1>0, <1>1, <1>2, <1>3, FewOfTraversed
  <1> QED BY <1>0, <1>2, <1>4, OnceOfLane

LEMMA OnceService ==
  ASSUME ActiveInv, OnceInv, ServiceThread
  PROVE  OnceInv'
  <1> DEFINE thr == <<"threads", Coordinator>>
             c == Coordinator
  <1>0. GcTypes /\ LaneShape(c) /\ c \in Lanes
    BY LanesAre DEF ActiveInv
  <1>1. PICK o \in Threads : o = Last(thread_q)
    BY <1>0, ServiceEffect
  <1>2. /\ OnlyLane(c) /\ lane'[c].refs = Refs[o] /\ lane'[c].tested = FALSE
        /\ lane'[c].local = lane[c].local
        /\ thread_q # <<>> /\ thread_q' = Front(thread_q)
        /\ traversed' = [traversed EXCEPT ![o] = @ + 1]
        /\ UNCHANGED <<marked, injector>>
    BY <1>0, <1>1, ServiceEffect DEF ServiceThread
  <1>3. /\ thr \in QueueNames /\ QueueAt(thr) = thread_q /\ QueueAt(thr)' = Front(QueueAt(thr))
        /\ \A n \in QueueNames \ {thr} : QueueAt(n)' = QueueAt(n)
    <2>1. thr \in QueueNames /\ QueueAt(thr) = thread_q /\ QueueAt(thr)' = thread_q'
      BY <1>0, <1>2, QueuesAre, QueuesAround
    <2>2. /\ QueueAt(<<"injector", Coordinator>>)' = QueueAt(<<"injector", Coordinator>>)
          /\ QueueAt(<<"local", c>>)' = QueueAt(<<"local", c>>)
      BY <1>0, <1>2, QueuesAre, QueuesAround
    <2>3. \A n \in QueueNames \ {thr} : QueueAt(n)' = QueueAt(n)
      BY <1>0, <1>2, <2>2, QueuesAround
    <2> QED BY <1>2, <2>1, <2>3
  <1> HIDE DEF thr
  <1>4. \A x \in Objects : \A k : Few(x, k) => Few(x, k)'
    <2>1. o \in Objects
      BY MarkAssumption
    <2> QED BY <1>0, <1>1, <1>2, <1>3, <2>1, FewOfTraversed
  <1>5. \A x \in ToSet(lane'[c].refs) : OfThread(x)
    BY <1>2 DEF OfThread
  <1> QED BY <1>0, <1>2, <1>4, <1>5, OnceKept

(* A lane goes on without a change to what waits.                          *)
LEMMA OnceStill ==
  ASSUME ActiveInv, ActiveInv', OnceInv, NEW p \in Lanes, OnlyLane(p),
         UNCHANGED <<marked, injector, thread_q, traversed>>,
         lane'[p].local = lane[p].local, p = Coordinator => lane'[p].at # "stock"
  PROVE  OnceInv'
  <1>0. GcTypes /\ LaneShape(Coordinator) /\ LaneShape(Coordinator)'
    BY LanesAre DEF ActiveInv
  <1>1. \A o : PlacesOf(o)' = PlacesOf(o)
    BY <1>0, QueuesSame
  <1>2. \A o \in Objects : \A k : Few(o, k) => Few(o, k)'
    BY <1>1, FewSame
  <1> QED BY <1>0, <1>2, OnceOfLane

(* The places of an object that is put where it belongs.                   *)
LEMMA PlacesOfOwned ==
  ASSUME GcTypes, NEW p \in Lanes, NEW o \in Objects, Own(p, o), lane[p].refs # <<>>,
         injector' = injector
  PROVE  /\ AtMostOne(PlacesOf(o)' \ PlacesOf(o))
         /\ \A x : x # o => PlacesOf(x)' = PlacesOf(x)
  <1> DEFINE own == <<"local", p>>
             thr == <<"threads", Coordinator>>
             inj == <<"injector", Coordinator>>
  <1>1. /\ OnlyLane(p)
        /\ \/ thread_q' = Append(thread_q, o) /\ lane'[p].local = lane[p].local
           \/ thread_q' = thread_q /\ lane'[p].local = Append(lane[p].local, o)
    BY OwnEffect
  <1>2. /\ {own, thr, inj} \subseteq QueueNames /\ own # thr
        /\ QueueAt(inj)' = QueueAt(inj)
        /\ QueueAt(own) = lane[p].local /\ QueueAt(own)' = lane'[p].local
        /\ QueueAt(thr) = thread_q /\ QueueAt(thr)' = thread_q'
        /\ \A n \in QueueNames \ {own, thr, inj} : QueueAt(n)' = QueueAt(n)
    BY <1>1, QueuesAre, QueuesAround
  <1> HIDE DEF own, thr, inj
  <1>3. CASE thread_q' = Append(thread_q, o) /\ lane'[p].local = lane[p].local
    <2>1. QueueAt(thr)' = Append(QueueAt(thr), o) /\ \A n \in QueueNames \ {thr} : QueueAt(n)' = QueueAt(n)
      BY <1>2, <1>3
    <2> QED BY <1>2, <2>1, LastPut
  <1>4. CASE thread_q' = thread_q /\ lane'[p].local = Append(lane[p].local, o)
    <2>1. QueueAt(own)' = Append(QueueAt(own), o) /\ \A n \in QueueNames \ {own} : QueueAt(n)' = QueueAt(n)
      BY <1>2, <1>4
    <2> QED BY <1>2, <2>1, LastPut
  <1> QED BY <1>1, <1>3, <1>4

LEMMA OnceMark ==
  ASSUME ActiveInv, ActiveInv', OnceInv, NEW p \in Lanes, Mark(p)
  PROVE  OnceInv'
  <1>0. /\ GcTypes /\ LaneShape(p) /\ LaneShape(Coordinator) /\ LaneShape(Coordinator)'
        /\ lane[p].at = "traverse" /\ lane[p].refs # <<>>
        /\ UNCHANGED <<injector, traversed>>
    BY LanesAre DEF ActiveInv, Mark, At
  <1>1. lane[p].refs \in Seq(Objects)
    BY <1>0 DEF GcTypes, LaneTypes
  <1>2. PICK o \in Objects : o = Head(lane[p].refs)
    BY <1>0, <1>1, SetOfTail
  <1>3. marked' = marked \cup {o}
    BY <1>2 DEF Mark
  <1>4. CASE o \in marked
    <2>1. lane' = [lane EXCEPT ![p] = [lane[p] EXCEPT !.refs = Tail(@)]] /\ UNCHANGED thread_q
      BY <1>2, <1>4 DEF Mark
    <2>2. Passes(p)
      BY <1>0, <2>1, PassEffect
    <2>3. OnlyLane(p) /\ lane'[p].local = lane[p].local /\ lane'[p].at # "stock"
      BY <1>0, <2>2 DEF Passes
    <2>4. marked' = marked
      BY <1>3, <1>4
    <2> QED BY <1>0, <2>1, <2>3, <2>4, OnceStill
  <1>5. CASE o \notin marked
    <2>1. Own(p, o)
      BY <1>2, <1>5 DEF Mark
    <2>2. /\ AtMostOne(PlacesOf(o)' \ PlacesOf(o))
          /\ \A x : x # o => PlacesOf(x)' = PlacesOf(x)
      BY <1>0, <2>1, PlacesOfOwned
    <2>3. Few(o, 0)
      BY <1>5 DEF OnceInv
    <2>4. OnlyLane(p) /\ lane'[p].at = "traverse" /\ lane'[p].tested = FALSE
      BY <1>0, <2>1, OwnEffect
    <2>5. /\ ~lane'[Coordinator].tested \/ lane'[Coordinator] = lane[Coordinator]
          /\ At(Coordinator, "stock")' => \A x \in ToSet(lane'[Coordinator].refs) : OfThread(x)
      <3>1. CASE p = Coordinator
        BY <2>4, <3>1 DEF At
      <3>2. CASE p # Coordinator
        <4>1. lane'[Coordinator] = lane[Coordinator]
          BY <2>4, <3>2, LanesAre DEF OnlyLane
        <4> QED BY <4>1 DEF OnceInv, At
      <3> QED BY <3>1, <3>2
    <2>6. traversed' = traversed
      BY <1>0
    <2> HIDE DEF At
    <2> QED BY <1>0, <1>3, <2>2, <2>3, <2>5, <2>6, OnceClaimed
  <1> QED BY <1>4, <1>5

LEMMA OnceStock ==
  ASSUME ActiveInv, ActiveInv', OnceInv, StockTest \/ StockMark
  PROVE  OnceInv'
  <1> DEFINE c == Coordinator
  <1>0. GcTypes /\ LaneShape(c) /\ LaneShape(c)' /\ c \in Lanes
    BY LanesAre DEF ActiveInv
  <1>1. At(c, "stock") /\ lane[c].refs # <<>> /\ UNCHANGED <<injector, traversed>>
    BY <1>0 DEF StockTest, StockMark, LaneShape
  <1>2. lane[c].refs \in Seq(Objects)
    BY <1>0 DEF GcTypes, LaneTypes
  <1>3. PICK o \in Objects : o = Head(lane[c].refs)
    BY <1>1, <1>2, SetOfTail
  <1>4. \A x \in ToSet(lane[c].refs) : OfThread(x)
    BY <1>1 DEF OnceInv
  <1>5. OfThread(o) /\ \A x \in ToSet(Tail(lane[c].refs)) : OfThread(x)
    BY <1>1, <1>2, <1>3, <1>4, SetOfTail
  <1>6. CASE StockTest
    <2>1. UNCHANGED <<marked, thread_q>> /\ ~lane[c].tested
      BY <1>6 DEF StockTest
    <2>2. /\ OnlyLane(c) /\ lane'[c].local = lane[c].local
          /\ \/ lane'[c].refs = Tail(lane[c].refs) /\ lane'[c].tested = lane[c].tested
             \/ lane'[c].refs = lane[c].refs /\ o \notin marked
      BY <1>0, <1>3, <1>6, TestEffect DEF Passes
    <2>3. \A x : PlacesOf(x)' = PlacesOf(x)
      BY <1>0, <1>1, <2>1, <2>2, QueuesSame
    <2>4. \A x \in Objects : \A k : Few(x, k) => Few(x, k)'
      BY <1>1, <2>3, FewSame
    <2>5. \A x \in ToSet(lane'[c].refs) : OfThread(x)
      BY <1>4, <1>5, <2>2
    <2>6. CASE lane'[c].refs = Tail(lane[c].refs) /\ lane'[c].tested = lane[c].tested
      <3>1. ~lane'[c].tested
        BY <2>1, <2>6
      <3> QED BY <1>0, <2>1, <2>4, <2>5, <3>1, OnceKept
    <2>7. CASE lane'[c].refs = lane[c].refs /\ o \notin marked
      <3>1. Few(o, 1)
        <4>1. Few(o, 0) /\ traversed[o] \in Nat
          BY <1>0, <2>7 DEF OnceInv, GcTypes
        <4> QED BY <4>1, FewMore
      <3>2. Few(o, 1)' /\ o = Head(lane'[c].refs)
        BY <1>3, <2>4, <2>7, <3>1
      <3>3. Few(Head(lane[c].refs), 1)'
        BY <3>2
      <3>4. \A x \in Objects : Few(x, IF OfThread(x) THEN 2 ELSE 1)'
        BY <2>4 DEF OnceInv, OfThread
      <3>5. \A x \in Objects \ marked' : Few(x, 0)'
        BY <2>1, <2>4 DEF OnceInv
      <3> QED BY <2>5, <3>3, <3>4, <3>5 DEF OnceInv, OfThread
    <2> QED BY <2>2, <2>6, <2>7
  <1>7. CASE StockMark
    <2>1. Own(c, o) /\ marked' = marked \cup {o} /\ lane[c].tested
      BY <1>3, <1>7 DEF StockMark
    <2>2. lane'[c].tested = FALSE /\ lane'[c].refs = Tail(lane[c].refs)
      BY <1>0, <1>1, <2>1, OwnEffect
    <2>3. /\ AtMostOne(PlacesOf(o)' \ PlacesOf(o))
          /\ \A x : x # o => PlacesOf(x)' = PlacesOf(x)
      BY <1>0, <1>1, <2>1, PlacesOfOwned
    <2>4. Few(o, 1)
      BY <1>3, <2>1 DEF OnceInv
    <2>5. \A x \in ToSet(lane'[c].refs) : OfThread(x)
      BY <1>5, <2>2
    <2>6. traversed' = traversed
      BY <1>1
    <2> QED BY <1>0, <1>5, <2>1, <2>2, <2>3, <2>4, <2>5, <2>6, OnceClaimed
  <1> QED BY <1>6, <1>7

LEMMA OnceLaneStep ==
  ASSUME ActiveInv, ActiveInv', OnceInv, NEW p \in Lanes, LaneStep(p)
  PROVE  OnceInv'
  <1>0. GcTypes
    BY DEF ActiveInv
  <1>1. CASE NothingToGrab(p)
    <2>1. \E where \in LaneStates \ {"stock"} : Moves(p, where)
      BY <1>0, <1>1, GotoMoves DEF NothingToGrab, LaneStates
    <2>2. UNCHANGED <<marked, injector, thread_q, traversed>>
      BY <1>1 DEF NothingToGrab
    <2> QED BY <2>1, <2>2, OnceStill DEF Moves
  <1>2. CASE TraverseEnds(p)
    <2>1. \E where \in LaneStates \ {"stock"} : Moves(p, where)
      BY <1>0, <1>2, GotoMoves DEF TraverseEnds, LaneStates
    <2>2. UNCHANGED <<marked, injector, thread_q, traversed>>
      BY <1>2 DEF TraverseEnds
    <2> QED BY <2>1, <2>2, OnceStill DEF Moves
  <1>3. CASE Lower(p)
    <2>1. \E where \in LaneStates \ {"stock"} : Moves(p, where)
      BY <1>0, <1>3, GotoMoves DEF Lower, LaneStates
    <2>2. UNCHANGED <<marked, injector, thread_q, traversed>>
      BY <1>3 DEF Lower
    <2> QED BY <2>1, <2>2, OnceStill DEF Moves
  <1> QED BY <1>1, <1>2, <1>3, OnceGrab, OnceShare, OncePop, OnceMark DEF LaneStep

LEMMA OnceWorkerStep ==
  ASSUME ActiveInv, ActiveInv', OnceInv, NEW w \in Workers, Wake(w) \/ Leave(w)
  PROVE  OnceInv'
  <1>1. w \in Lanes /\ w # Coordinator /\ GcTypes
    BY LanesAre DEF ActiveInv
  <1>2. \E where \in LaneStates : Moves(w, where)
    BY <1>1, GotoMoves DEF Wake, Leave, LaneStates
  <1>3. UNCHANGED <<marked, injector, thread_q, traversed>>
    BY DEF Wake, Leave
  <1> QED BY <1>1, <1>2, <1>3, OnceStill DEF Moves

LEMMA OnceCoordinatorStep ==
  ASSUME ActiveInv, ActiveInv', OnceInv, CoordinatorStep
  PROVE  OnceInv'
  <1> DEFINE c == Coordinator
  <1>0. GcTypes /\ Quiescent /\ c \in Lanes
    BY LanesAre DEF ActiveInv
  <1>1. CASE SeedRoots \/ SeedFinalised
    <2>1. \E S \in SUBSET Objects : Seed(S)
      BY <1>1, MarkAssumption DEF SeedRoots, SeedFinalised
    <2>2. At(c, "out") /\ UNCHANGED <<lane, traversed>>
      BY <1>0, <1>1 DEF SeedRoots, SeedFinalised, Quiescent
    <2> QED BY <2>1, <2>2, OnceSeed
  <1>2. CASE LowerDone
    <2>1. OnlyLane(c) /\ lane'[c] = lane[c] /\ lane'[c].at # "stock"
      BY <1>0, <1>2 DEF LowerDone, OnlyLane, GcTypes, Quiescent, At
    <2>2. UNCHANGED <<marked, injector, thread_q, traversed>>
      BY <1>2 DEF LowerDone
    <2> QED BY <1>0, <2>1, <2>2, OnceStill
  <1>3. CASE Publish \/ NobodyActive \/ RaiseDone \/ ThreadsLeft \/ NoThread \/ StockEnds
    <2>1. \E where \in LaneStates \ {"stock"} : Moves(c, where)
      <3>1. \E where \in LaneStates \ {"stock"} : Goto(c, where)
        BY <1>3 DEF Publish, NobodyActive, RaiseDone, ThreadsLeft, NoThread, StockEnds, LaneStates
      <3> QED BY <1>0, <3>1, GotoMoves
    <2>2. UNCHANGED <<marked, injector, thread_q, traversed>>
      BY <1>3 DEF Publish, NobodyActive, RaiseDone, ThreadsLeft, NoThread, StockEnds
    <2> QED BY <1>0, <2>1, <2>2, OnceStill DEF Moves
  <1> QED BY <1>0, <1>1, <1>2, <1>3, OnceService, OnceStock, OnceLaneStep DEF CoordinatorStep

LEMMA OnceInvStep == OnceInv /\ ActiveInv /\ ActiveInv' /\ [Next]_vars => OnceInv'
  <1> SUFFICES ASSUME OnceInv, ActiveInv, ActiveInv', [Next]_vars PROVE OnceInv'
    OBVIOUS
  <1>1. CASE UNCHANGED vars
    <2>1. UNCHANGED <<marked, injector, thread_q, traversed, lane>>
      BY <1>1 DEF vars
    <2>2. \A n : QueueAt(n)' = QueueAt(n)
      BY <2>1 DEF QueueAt
    <2>3. \A o : PlacesOf(o)' = PlacesOf(o)
      BY <2>2 DEF PlacesOf
    <2>4. \A o, k : Few(o, k)' = Few(o, k)
      BY <2>1, <2>3 DEF Few
    <2> QED BY <2>1, <2>4 DEF OnceInv, At
  <1>2. ASSUME NEW w \in Workers, WorkerStep(w) PROVE OnceInv'
    BY <1>2, LanesAre, OnceLaneStep, OnceWorkerStep DEF WorkerStep
  <1> QED BY <1>1, <1>2, OnceCoordinatorStep DEF Next

LEMMA OnceInvInit == Init => OnceInv
  <1> SUFFICES ASSUME Init PROVE OnceInv
    OBVIOUS
  <1>1. ActiveInv
    BY ActiveInvInit
  <1>2. \A n \in QueueNames : QueueAt(n) = <<>>
    <2>1. \A p \in Lanes : lane[p].local = <<>>
      BY DEF Init, Out
    <2> QED BY <1>1, <2>1, QueuesAre DEF Init, ActiveInv
  <1>3. \A o : PlacesOf(o) = {}
    BY <1>2 DEF PlacesOf
  <1>4. \A o \in Objects : traversed[o] = 0 /\ PlacesOf(o) = {}
    BY <1>3 DEF Init
  <1>5. \A o \in Objects : Few(o, 0) /\ Few(o, 1) /\ Few(o, 2)
    BY <1>4 DEF Few, AtMostOne, AtMostTwo
  <1>6. ~lane[Coordinator].tested /\ ~At(Coordinator, "stock")
    BY LanesAre DEF Init, Out, At
  <1> QED BY <1>5, <1>6 DEF OnceInv

(* The winner of a mark owns the traversal: no object is traversed twice,  *)
(* but what a thread refers to, which the stock mark may claim again; and  *)
(* none is ever traversed a third time.                                    *)
THEOREM WinnerTraverses == Spec => []TraversedOnce
  <1>1. ActiveInv /\ OnceInv => TraversedOnce
    <2> SUFFICES ASSUME ActiveInv, OnceInv, NEW o \in Objects
                 PROVE  traversed[o] <= IF OfThread(o) THEN 2 ELSE 1
      BY DEF TraversedOnce, OfThread
    <2>1. traversed[o] \in Nat
      BY DEF ActiveInv, GcTypes
    <2>2. \A k \in Nat : Few(o, k) => traversed[o] <= k
      BY <2>1 DEF Few
    <2>3. Few(o, IF OfThread(o) THEN 2 ELSE 1)
      BY DEF OnceInv
    <2> QED BY <2>2, <2>3
  <1>2. ActiveInv /\ [Next]_vars => ActiveInv'
    BY ActiveInvStep
  <1>3. Spec => []OnceInv
    BY OnceInvInit, OnceInvStep, <1>2, ActiveAlways, PTL DEF Spec
  <1> QED BY <1>1, <1>3, ActiveAlways, PTL
=============================================================================
