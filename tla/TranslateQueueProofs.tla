------------------------ MODULE TranslateQueueProofs ------------------------
(***************************************************************************)
(* What holds of the request/result queues for every set of requests and   *)
(* pairs and every size of the channels, batches and polls: the invariants *)
(* of a worker that stays and of one that may end anywhere, and that the   *)
(* queues implement the channels of PairChannels.                          *)
(***************************************************************************)
EXTENDS TranslateQueueRefinement, SequenceTheorems, WellFoundedInduction, TLAPS

(* What the worker holds at each point of its loop.                        *)
WorkerShape ==
  /\ pc \in WorkerStates \ {"gone"}
  /\ pc = "recv" => batch = <<>> /\ groups = <<>> /\ out = <<>>
  /\ pc = "coalesce" => batch # <<>> /\ groups = <<>> /\ out = <<>>
  /\ pc = "group" => batch # <<>> /\ out = <<>>
  /\ pc = "translate" => batch = <<>> /\ groups # <<>> /\ out = <<>>
  /\ pc = "send" => batch = <<>> /\ out # <<>>

(* One thunk call per language pair: a group holds one pair, a pair has one *)
(* group.                                                                  *)
OnePair(gs) ==
  /\ \A g \in 1 .. Len(gs) : \A i \in 1 .. Len(gs[g]) : PairOf[gs[g][i]] = PairOf[gs[g][1]]
  /\ \A g, k \in 1 .. Len(gs) : PairOf[gs[g][1]] = PairOf[gs[k][1]] => g = k

OnePairPerGroup == OnePair(groups)

(* What bounds a thunk call: a group and what is left of its batch.        *)
BatchBounded ==
  /\ Len(out) <= MAX_BATCH /\ Len(batch) <= MAX_BATCH
  /\ \A g \in 1 .. Len(groups) : Len(groups[g]) + Len(batch) <= MAX_BATCH

WorkerInv == TypeOK /\ WorkerShape /\ OnePairPerGroup /\ BatchBounded

-----------------------------------------------------------------------------
(* Helpers of the model.                                                   *)

(* The sequence operations of the channels, in the form the proofs use.    *)
LEMMA NonEmptySeq ==
  ASSUME NEW S, NEW s \in Seq(S), s # <<>>
  PROVE  /\ Len(s) \in Nat \ {0}
         /\ Head(s) = s[1] /\ s[1] \in S
         /\ Tail(s) \in Seq(S) /\ Len(Tail(s)) = Len(s) - 1
         /\ DOMAIN s = 1 .. Len(s) /\ DOMAIN Tail(s) = 1 .. Len(s) - 1
         /\ \A i \in 1 .. Len(s) - 1 : Tail(s)[i] = s[i + 1]
         /\ Tail(s) = <<>> <=> Len(s) = 1
  <1>1. /\ Len(s) \in Nat \ {0}
        /\ Head(s) = s[1] /\ s[1] \in S
        /\ Tail(s) \in Seq(S) /\ Len(Tail(s)) = Len(s) - 1
        /\ \A i \in 1 .. Len(s) - 1 : Tail(s)[i] = s[i + 1]
    BY EmptySeq, HeadTailProperties
  <1>2. DOMAIN s = 1 .. Len(s) /\ DOMAIN Tail(s) = 1 .. Len(Tail(s))
    BY <1>1, LenProperties
  <1>3. Tail(s) = <<>> <=> Len(Tail(s)) = 0
    BY <1>1, EmptySeq
  <1> QED BY <1>1, <1>2, <1>3

(* A sequence is its first element and the rest.                           *)
LEMMA FirstAndRest ==
  ASSUME NEW S, NEW s \in Seq(S), s # <<>>
  PROVE  <<s[1]>> \o Tail(s) = s
  <1>1. Len(s) \in Nat \ {0}
    BY EmptySeq
  <1>2. SubSeq(s, 1, Len(s)) = <<s[1]>> \o SubSeq(s, 1 + 1, Len(s))
    BY <1>1, SubSeqRecursiveFirst
  <1>3. SubSeq(s, 1, Len(s)) = s
    BY SubSeqFull
  <1>4. Tail(s) = SubSeq(s, 2, Len(s))
    BY TailIsSubSeq
  <1> QED BY <1>2, <1>3, <1>4

(* Laws of the concatenation of requests and of results, each in a form    *)
(* that can be cited.                                                      *)
LEMMA Joined == \A x, y \in Seq(Requests) : x \o y \in Seq(Requests)
  BY ConcatProperties

LEMMA Assoc == \A x, y, z \in Seq(Requests) : (x \o y) \o z = x \o (y \o z)
  BY ConcatAssociative

LEMMA JoinNone == \A x \in Seq(Requests) : x \o <<>> = x /\ <<>> \o x = x
  BY ConcatEmptySeq

LEMMA JoinOne ==
  \A x \in Seq(Requests), e \in Requests : Append(x, e) = x \o <<e>> /\ <<e>> \in Seq(Requests)
  BY AppendIsConcat

LEMMA ResultsJoined == \A x, y \in Seq(Completed) : x \o y \in Seq(Completed)
  BY ConcatProperties

LEMMA ResultsAssoc == \A x, y, z \in Seq(Completed) : (x \o y) \o z = x \o (y \o z)
  BY ConcatAssociative

(* Every group has a first request and a length.                           *)
LEMMA GroupElement ==
  ASSUME NEW gs \in Seq(Group), NEW g \in DOMAIN gs
  PROVE  /\ gs[g] \in Group /\ gs[g] \in Seq(Requests)
         /\ Len(gs[g]) \in Nat \ {0} /\ DOMAIN gs[g] = 1 .. Len(gs[g])
         /\ \A i \in 1 .. Len(gs[g]) : gs[g][i] \in Requests
         /\ 1 \in DOMAIN gs[g]
  <1>1. gs[g] \in Group
    BY LenProperties, ElementOfSeq
  <1>2. gs[g] \in Seq(Requests) /\ gs[g] # <<>>
    BY <1>1 DEF Group
  <1> QED BY <1>1, <1>2, LenProperties, ElementOfSeq, EmptySeq

(* Cutting a sequence anywhere and joining the two pieces changes nothing: *)
(* what one poll takes and what it leaves is what the channel held.        *)
LEMMA CutAndJoin ==
  ASSUME NEW S, NEW s \in Seq(S), NEW n \in 0 .. Len(s)
  PROVE  /\ SubSeq(s, 1, n) \in Seq(S)
         /\ SubSeq(s, n + 1, Len(s)) \in Seq(S)
         /\ SubSeq(s, 1, n) \o SubSeq(s, n + 1, Len(s)) = s
  <1>1. Len(s) \in Nat /\ \A i \in 1 .. Len(s) : s[i] \in S
    BY LenProperties, ElementOfSeq
  <1>2. SubSeq(s, 1, n) \in Seq(S)
    BY <1>1, SubSeqProperties
  <1>3. SubSeq(s, n + 1, Len(s)) \in Seq(S)
    BY <1>1, SubSeqProperties
  <1>4. SubSeq(s, 1, n) \o SubSeq(s, n + 1, Len(s)) = SubSeq(s, 1, Len(s))
    <2>1. /\ 1 \in 1 .. Len(s) + 1
          /\ n \in 1 - 1 .. Len(s)
          /\ Len(s) \in n .. Len(s)
      BY <1>1
    <2> QED BY <2>1, ConcatAdjacentSubSeq
  <1> QED BY <1>2, <1>3, <1>4, SubSeqFull

(* r opens a new last group.                                               *)
Opens(gs, new, r) ==
  /\ new \in Seq(Group) /\ Len(new) = Len(gs) + 1
  /\ \A k \in 1 .. Len(gs) : new[k] = gs[k] /\ PairOf[gs[k][1]] # PairOf[r]
  /\ Len(new[Len(gs) + 1]) = 1 /\ new[Len(gs) + 1][1] = r

(* r joins group g at its end.                                             *)
Joins(gs, new, g, r) ==
  /\ new \in Seq(Group) /\ Len(new) = Len(gs)
  /\ \A k \in 1 .. Len(gs) : k # g => new[k] = gs[k]
  /\ PairOf[gs[g][1]] = PairOf[r]
  /\ Len(new[g]) = Len(gs[g]) + 1
  /\ \A i \in 1 .. Len(gs[g]) : new[g][i] = gs[g][i]
  /\ new[g][Len(gs[g]) + 1] = r

LEMMA AppendOpens ==
  ASSUME NEW gs \in Seq(Group), NEW r \in Requests,
         \A g \in 1 .. Len(gs) : PairOf[gs[g][1]] # PairOf[r]
  PROVE  Opens(gs, Append(gs, <<r>>), r)
  <1>1. <<r>> \in Group /\ Len(<<r>>) = 1 /\ <<r>>[1] = r
    BY DEF Group
  <1> DEFINE one == <<r>>
  <1> HIDE DEF one
  <1>2. one \in Group /\ Len(one) = 1 /\ one[1] = r
    BY <1>1 DEF one
  <1>3. /\ Append(gs, one) \in Seq(Group) /\ Len(Append(gs, one)) = Len(gs) + 1
        /\ \A k \in 1 .. Len(gs) : Append(gs, one)[k] = gs[k]
        /\ Append(gs, one)[Len(gs) + 1] = one
    BY <1>2, AppendProperties
  <1>4. Opens(gs, Append(gs, one), r)
    BY <1>2, <1>3 DEF Opens
  <1> QED BY <1>4 DEF one

LEMMA ExceptJoins ==
  ASSUME NEW gs \in Seq(Group), NEW r \in Requests, NEW g \in 1 .. Len(gs),
         PairOf[gs[g][1]] = PairOf[r]
  PROVE  Joins(gs, [gs EXCEPT ![g] = Append(gs[g], r)], g, r)
  <1> DEFINE longer == Append(gs[g], r)
             new == [gs EXCEPT ![g] = longer]
  <1>1. g \in DOMAIN gs /\ DOMAIN gs = 1 .. Len(gs)
    BY LenProperties
  <1>2. gs[g] \in Seq(Requests)
    BY <1>1, GroupElement
  <1>3. /\ longer \in Seq(Requests) /\ longer # <<>> /\ Len(longer) = Len(gs[g]) + 1
        /\ \A i \in 1 .. Len(gs[g]) : longer[i] = gs[g][i]
        /\ longer[Len(gs[g]) + 1] = r
    BY <1>2, AppendProperties
  <1>4. longer \in Group
    BY <1>3 DEF Group
  <1> HIDE DEF longer
  <1>5. /\ new \in Seq(Group) /\ Len(new) = Len(gs)
        /\ \A k \in 1 .. Len(gs) : new[k] = IF k = g THEN longer ELSE gs[k]
    BY <1>4, ExceptSeq
  <1> HIDE DEF new
  <1>6. Joins(gs, new, g, r)
    BY <1>3, <1>5 DEF Joins
  <1> QED BY <1>6 DEF new, longer

(* One turn of the partition: r joins the group of its pair, or opens one. *)
LEMMA PlaceEffect ==
  ASSUME NEW gs \in Seq(Group), NEW r \in Requests,
         OnePair(gs)
  PROVE  \/ Opens(gs, Place(gs, r), r)
         \/ \E g \in 1 .. Len(gs) : Joins(gs, Place(gs, r), g, r)
  <1> DEFINE same == {g \in DOMAIN gs : PairOf[gs[g][1]] = PairOf[r]}
             least == CHOOSE k \in same : \A j \in same : k <= j
  <1>0. DOMAIN gs = 1 .. Len(gs)
    BY LenProperties
  <1>1. CASE same = {}
    <2>1. Place(gs, r) = Append(gs, <<r>>)
      BY <1>1 DEF Place
    <2>2. \A g \in 1 .. Len(gs) : PairOf[gs[g][1]] # PairOf[r]
      BY <1>0, <1>1
    <2> QED BY <2>1, <2>2, AppendOpens
  <1>2. CASE same # {}
    <2>1. PICK g \in same : TRUE
      BY <1>2
    <2>2. \A j \in same : g <= j
      <3>1. \A j \in same : j = g
        BY <1>0, <2>1 DEF OnePair
      <3>2. g \in Nat
        BY <2>1, <1>0
      <3> QED BY <3>1, <3>2
    <2>3. least \in same
      BY <2>1, <2>2
    <2>4. Place(gs, r) = [gs EXCEPT ![least] = Append(gs[least], r)]
      BY <1>2 DEF Place
    <2>5. least \in 1 .. Len(gs) /\ PairOf[gs[least][1]] = PairOf[r]
      BY <2>3, <1>0
    <2> HIDE DEF least
    <2>6. Joins(gs, Place(gs, r), least, r)
      <3>1. Joins(gs, [gs EXCEPT ![least] = Append(gs[least], r)], least, r)
        BY <2>5, ExceptJoins
      <3> QED BY <2>4, <3>1
    <2> QED BY <2>5, <2>6
  <1> QED BY <1>1, <1>2

-----------------------------------------------------------------------------
(* Types and the shape of the worker.                                      *)

LEMMA WorkerInvInit == Init => WorkerInv
  BY QueueAssumption, EmptySeq
  DEF Init, WorkerInv, TypeOK, WorkerShape, OnePairPerGroup, OnePair, BatchBounded, WorkerStates

LEMMA WorkerInvStep == WorkerInv /\ [Next]_vars => WorkerInv'
  <1> SUFFICES ASSUME WorkerInv, [Next]_vars PROVE WorkerInv'
    OBVIOUS
  <1>0. TypeOK /\ WorkerShape /\ OnePairPerGroup /\ BatchBounded
    BY DEF WorkerInv
  <1>1. CASE UNCHANGED vars
    BY <1>0, <1>1
    DEF vars, workerVars, WorkerInv, TypeOK, WorkerShape, OnePairPerGroup, OnePair, BatchBounded
  <1>2. ASSUME NEW r \in Requests, EnqueueOk(r) PROVE WorkerInv'
    BY <1>0, <1>2, AppendProperties
    DEF EnqueueOk, workerVars, WorkerInv, TypeOK, WorkerShape, OnePairPerGroup, OnePair, BatchBounded
  <1>3. ASSUME NEW r \in Requests, EnqueueFull(r) PROVE WorkerInv'
    BY <1>0, <1>3
    DEF EnqueueFull, workerVars, WorkerInv, TypeOK, WorkerShape, OnePairPerGroup, OnePair, BatchBounded
  <1>4. CASE Poll
    <2> DEFINE n == AtMost(Len(doneQ), POLL_MAX_RECORDS)
    <2>1. n \in 0 .. Len(doneQ)
      BY <1>0, LenProperties, QueueAssumption DEF AtMost, TypeOK
    <2>2. delivered' \in Seq(Completed) /\ doneQ' \in Seq(Completed)
      BY <1>0, <1>4, <2>1, CutAndJoin, ConcatProperties DEF Poll, TypeOK
    <2> QED BY <1>0, <1>4, <2>2
            DEF Poll, workerVars, WorkerInv, TypeOK, WorkerShape, OnePairPerGroup, OnePair, BatchBounded
  <1>5. CASE Recv
    <2>1. /\ batch' \in Seq(Requests) /\ batch' # <<>> /\ Len(batch') = 1
          /\ workQ' \in Seq(Requests)
      BY <1>0, <1>5, NonEmptySeq DEF Recv, TypeOK
    <2> QED BY <1>0, <1>5, <2>1, QueueAssumption
            DEF Recv, WorkerInv, TypeOK, WorkerShape, WorkerStates, OnePairPerGroup, OnePair, BatchBounded
  <1>6. CASE Coalesce
    <2>1. Head(workQ) \in Requests /\ Tail(workQ) \in Seq(Requests)
      BY <1>0, <1>6, NonEmptySeq DEF Coalesce, TypeOK
    <2>2. /\ workQ' \in Seq(Requests) /\ batch' \in Seq(Requests) /\ batch' # <<>>
          /\ Len(batch') = Len(batch) + 1 /\ Len(batch) \in Nat
      BY <1>0, <1>6, <2>1, AppendProperties, LenProperties, SMTT(30) DEF Coalesce, TypeOK
    <2> QED BY <1>0, <1>6, <2>2, QueueAssumption
            DEF Coalesce, WorkerInv, TypeOK, WorkerShape, OnePairPerGroup, OnePair, BatchBounded
  <1>7. CASE CloseBatch
    BY <1>0, <1>7
    DEF CloseBatch, WorkerInv, TypeOK, WorkerShape, WorkerStates, OnePairPerGroup, OnePair, BatchBounded
  <1>8. CASE GroupOne
    <2> DEFINE r == Head(batch)
    <2>1. /\ r \in Requests /\ batch' \in Seq(Requests)
          /\ Len(batch') = Len(batch) - 1 /\ Len(batch) \in Nat \ {0}
          /\ batch' = <<>> <=> Len(batch) = 1
      <3>1. batch \in Seq(Requests) /\ batch # <<>> /\ batch' = Tail(batch)
        BY <1>0, <1>8 DEF GroupOne, TypeOK, WorkerShape
      <3> QED BY <3>1, NonEmptySeq
    <2>2. /\ groups \in Seq(Group) /\ groups' = Place(groups, r)
          /\ DOMAIN groups = 1 .. Len(groups) /\ Len(groups) \in Nat
      BY <1>0, <1>8, LenProperties DEF GroupOne, TypeOK
    <2>3. \A g \in 1 .. Len(groups) :
            Len(groups[g]) \in Nat \ {0} /\ DOMAIN groups[g] = 1 .. Len(groups[g])
      BY <2>2, GroupElement
    <2>4. \/ Opens(groups, groups', r)
          \/ \E g \in 1 .. Len(groups) : Joins(groups, groups', g, r)
      BY <1>0, <2>1, <2>2, PlaceEffect DEF OnePairPerGroup
    <2>5. /\ groups' \in Seq(Group) /\ groups' # <<>>
          /\ DOMAIN groups' = 1 .. Len(groups')
          /\ \A g \in 1 .. Len(groups') :
               Len(groups'[g]) \in Nat \ {0} /\ DOMAIN groups'[g] = 1 .. Len(groups'[g])
      <3>1. groups' \in Seq(Group) /\ Len(groups') > 0
        BY <2>2, <2>4 DEF Opens, Joins
      <3> QED BY <3>1, LenProperties, GroupElement, EmptySeq
    <2>6. OnePairPerGroup' /\ (\A k \in 1 .. Len(groups') : Len(groups'[k]) + Len(batch') <= MAX_BATCH)
      <3>1. CASE Opens(groups, groups', r)
        <4>1. OnePairPerGroup'
          <5> DEFINE n == Len(groups)
          <5>1. /\ Len(groups') = n + 1 /\ n \in Nat
                /\ \A k \in 1 .. n : groups'[k] = groups[k] /\ PairOf[groups[k][1]] # PairOf[r]
                /\ Len(groups'[n + 1]) = 1 /\ groups'[n + 1][1] = r
            BY <2>2, <3>1 DEF Opens
          <5>2. \A k \in 1 .. n + 1 : k \in 1 .. n \/ k = n + 1
            BY <5>1
          <5> HIDE DEF n
          <5>3. ASSUME NEW k \in 1 .. n + 1, NEW i \in 1 .. Len(groups'[k])
                PROVE  PairOf[groups'[k][i]] = PairOf[groups'[k][1]]
            <6>1. CASE k \in 1 .. n
              BY <1>0, <5>1, <6>1 DEF OnePairPerGroup, OnePair, n
            <6>2. CASE k = n + 1
              BY <5>1, <5>3, <6>2
            <6> QED BY <5>2, <6>1, <6>2
          <5>4. \A j, k \in 1 .. n + 1 : PairOf[groups'[j][1]] = PairOf[groups'[k][1]] => j = k
            <6>1. \A j, k \in 1 .. n : PairOf[groups[j][1]] = PairOf[groups[k][1]] => j = k
              BY <1>0 DEF OnePairPerGroup, OnePair, n
            <6> QED BY <5>1, <5>2, <6>1
          <5> QED BY <5>1, <5>3, <5>4 DEF OnePairPerGroup, OnePair
        <4>2. \A k \in 1 .. Len(groups') : Len(groups'[k]) + Len(batch') <= MAX_BATCH
          <5> SUFFICES ASSUME NEW k \in 1 .. Len(groups')
                       PROVE  Len(groups'[k]) + Len(batch') <= MAX_BATCH
            OBVIOUS
          <5>1. CASE k \in 1 .. Len(groups)
            BY <1>0, <2>1, <2>3, <3>1, <5>1, QueueAssumption DEF BatchBounded, Opens
          <5>2. CASE k = Len(groups) + 1
            <6>1. Len(groups'[k]) = 1 /\ Len(batch) <= MAX_BATCH
              BY <1>0, <3>1, <5>2 DEF BatchBounded, Opens
            <6> QED BY <2>1, <6>1, QueueAssumption
          <5> QED BY <2>2, <3>1, <5>1, <5>2 DEF Opens
        <4> QED BY <4>1, <4>2
      <3>2. ASSUME NEW g \in 1 .. Len(groups), Joins(groups, groups', g, r)
            PROVE  OnePairPerGroup' /\ (\A k \in 1 .. Len(groups') : Len(groups'[k]) + Len(batch') <= MAX_BATCH)
        <4>1. \A k \in DOMAIN groups : groups'[k][1] = groups[k][1]
          BY <2>2, <2>3, <3>2 DEF Joins
        <4>2. OnePairPerGroup'
          <5>1. Len(groups') = Len(groups)
            BY <3>2 DEF Joins
          <5>2. ASSUME NEW k \in 1 .. Len(groups), NEW i \in 1 .. Len(groups'[k])
                PROVE  PairOf[groups'[k][i]] = PairOf[groups'[k][1]]
            <6>1. CASE k # g
              BY <1>0, <3>2, <6>1 DEF OnePairPerGroup, OnePair, Joins
            <6>2. CASE k = g /\ i \in 1 .. Len(groups[g])
              BY <1>0, <2>2, <3>2, <4>1, <6>2 DEF OnePairPerGroup, OnePair, Joins
            <6>3. CASE k = g /\ i = Len(groups[g]) + 1
              BY <2>2, <3>2, <4>1, <6>3 DEF Joins
            <6> QED BY <2>3, <3>2, <6>1, <6>2, <6>3 DEF Joins
          <5>3. \A j, k \in 1 .. Len(groups) : PairOf[groups'[j][1]] = PairOf[groups'[k][1]] => j = k
            BY <1>0, <2>2, <4>1 DEF OnePairPerGroup, OnePair
          <5> QED BY <5>1, <5>2, <5>3 DEF OnePairPerGroup, OnePair
        <4>3. \A k \in 1 .. Len(groups') : Len(groups'[k]) + Len(batch') <= MAX_BATCH
          <5> SUFFICES ASSUME NEW k \in 1 .. Len(groups)
                       PROVE  Len(groups'[k]) + Len(batch') <= MAX_BATCH
            BY <3>2 DEF Joins
          <5>1. CASE k = g
            BY <1>0, <2>1, <2>3, <3>2, <5>1, QueueAssumption DEF BatchBounded, Joins
          <5>2. CASE k # g
            <6>1. groups'[k] = groups[k]
              BY <3>2, <5>2 DEF Joins
            <6>2. Len(groups[k]) + Len(batch) <= MAX_BATCH /\ Len(groups[k]) \in Nat
              BY <1>0, <2>3 DEF BatchBounded
            <6> QED BY <2>1, <6>1, <6>2, QueueAssumption
          <5> QED BY <5>1, <5>2
        <4> QED BY <4>2, <4>3
      <3> QED BY <2>4, <3>1, <3>2
    <2>7. /\ workQ' = workQ /\ out' = out /\ doneQ' = doneQ /\ issued' = issued
          /\ accepted' = accepted /\ delivered' = delivered
          /\ pc' = IF Len(batch) = 1 THEN "translate" ELSE "group"
      BY <1>8 DEF GroupOne
    <2>8. WorkerShape' /\ TypeOK'
      BY <1>0, <1>8, <2>1, <2>5, <2>7 DEF GroupOne, TypeOK, WorkerShape, WorkerStates
    <2>9. BatchBounded'
      BY <1>0, <2>1, <2>6, <2>7, QueueAssumption DEF BatchBounded
    <2> QED BY <2>6, <2>8, <2>9 DEF WorkerInv
  <1>9. ASSUME pc = "translate", NEW statuses \in SlotStatuses(Len(Head(groups))),
               TranslateGroup(statuses)
        PROVE  WorkerInv'
    <2> DEFINE g == groups[1]
    <2>1. groups # <<>> /\ groups \in Seq(Group) /\ batch = <<>> /\ batch' = batch
      BY <1>0, <1>9 DEF TypeOK, WorkerShape, TranslateGroup
    <2>2. /\ Head(groups) = g /\ g \in Group /\ groups' \in Seq(Group)
          /\ Len(groups) \in Nat \ {0} /\ DOMAIN groups = 1 .. Len(groups)
          /\ Len(groups') = Len(groups) - 1
          /\ \A k \in 1 .. Len(groups) - 1 : groups'[k] = groups[k + 1]
      <3>1. groups' = Tail(groups)
        BY <1>9 DEF TranslateGroup
      <3> QED BY <2>1, <3>1, NonEmptySeq
    <2>3. /\ Len(g) \in Nat \ {0} /\ \A i \in 1 .. Len(g) : g[i] \in Requests
          /\ Len(g) <= MAX_BATCH
      <3>1. 1 \in DOMAIN groups /\ Len(batch) = 0
        BY <2>1, <2>2, EmptySeq
      <3>2. Len(g) \in Nat \ {0} /\ \A i \in 1 .. Len(g) : g[i] \in Requests
        BY <2>1, <3>1, GroupElement
      <3> QED BY <1>0, <3>1, <3>2, QueueAssumption DEF BatchBounded
    <2>4. out' \in Seq(Completed) /\ Len(out') = Len(g) /\ out' # <<>>
      <3>1. out' = [i \in 1 .. Len(g) |-> [req_id |-> g[i], status |-> statuses[i]]]
        BY <1>9, <2>2 DEF TranslateGroup
      <3>2. \A i \in 1 .. Len(g) : statuses[i] \in Statuses
        BY <1>9, <2>2 DEF SlotStatuses
      <3>3. \A i \in 1 .. Len(g) : [req_id |-> g[i], status |-> statuses[i]] \in Completed
        BY <2>3, <3>2 DEF Completed
      <3>4. out' \in [1 .. Len(g) -> Completed]
        BY <3>1, <3>3
      <3>5. out' \in Seq(Completed)
        BY <3>4, <2>3, SeqDef
      <3>6. Len(out') = Len(g)
        BY <3>1, <3>5, <2>3, LenProperties
      <3> QED BY <3>5, <3>6, <2>3, EmptySeq
    <2>5. OnePairPerGroup'
      <3>1. \A k \in 1 .. Len(groups') : k + 1 \in 1 .. Len(groups) /\ groups'[k] = groups[k + 1]
        BY <2>2
      <3>2. \A k \in 1 .. Len(groups') : \A i \in 1 .. Len(groups'[k]) :
              PairOf[groups'[k][i]] = PairOf[groups'[k][1]]
        BY <1>0, <3>1 DEF OnePairPerGroup, OnePair
      <3>3. ASSUME NEW j \in 1 .. Len(groups'), NEW k \in 1 .. Len(groups'),
                   PairOf[groups'[j][1]] = PairOf[groups'[k][1]]
            PROVE  j = k
        <4>1. j + 1 = k + 1
          BY <1>0, <3>1, <3>3, SMTT(30) DEF OnePairPerGroup, OnePair
        <4> QED BY <2>2, <4>1
      <3> QED BY <3>2, <3>3 DEF OnePairPerGroup, OnePair
    <2>6. \A k \in 1 .. Len(groups') : Len(groups'[k]) + Len(batch') <= MAX_BATCH
      BY <1>0, <2>1, <2>2 DEF BatchBounded
    <2>7. BatchBounded'
      BY <1>0, <2>1, <2>3, <2>4, <2>6 DEF BatchBounded
    <2>8. TypeOK' /\ WorkerShape'
      BY <1>0, <1>9, <2>1, <2>2, <2>4 DEF TranslateGroup, TypeOK, WorkerShape, WorkerStates
    <2> QED BY <2>5, <2>7, <2>8 DEF WorkerInv
  <1>10. CASE Send
    <2>1. /\ Head(out) \in Completed /\ out' \in Seq(Completed)
          /\ Len(out) \in Nat \ {0} /\ Len(out') = Len(out) - 1
          /\ out' = <<>> <=> Len(out) = 1
      <3>1. out # <<>> /\ out \in Seq(Completed) /\ out' = Tail(out)
        BY <1>0, <1>10 DEF Send, TypeOK, WorkerShape
      <3>2. Head(out) = out[1] /\ out[1] \in Completed
        BY <3>1, NonEmptySeq
      <3> QED BY <3>1, <3>2, NonEmptySeq
    <2>2. doneQ' \in Seq(Completed)
      BY <1>0, <1>10, <2>1, AppendProperties DEF Send, TypeOK
    <2>3. /\ batch = <<>> /\ UNCHANGED <<workQ, batch, groups, issued, accepted, delivered>>
          /\ pc' = IF Len(out) > 1 THEN "send"
                    ELSE IF groups # <<>> THEN "translate" ELSE "recv"
      BY <1>0, <1>10 DEF Send, WorkerShape
    <2>4. TypeOK'
      BY <1>0, <2>1, <2>2, <2>3 DEF TypeOK, WorkerStates
    <2>5. WorkerShape'
      BY <2>1, <2>3 DEF WorkerShape, WorkerStates
    <2>6. OnePairPerGroup' /\ BatchBounded'
      BY <1>0, <2>1, <2>3, QueueAssumption DEF OnePairPerGroup, OnePair, BatchBounded
    <2> QED BY <2>4, <2>5, <2>6 DEF WorkerInv
  <1> QED
    BY <1>1, <1>2, <1>3, <1>4, <1>5, <1>6, <1>7, <1>8, <1>9, <1>10
    DEF Next, Client, Worker, Translate

(* The channels and the worker always hold what their Rust types say.      *)
THEOREM QueueTypes == Spec => []TypeOK
  <1>1. WorkerInv => TypeOK
    BY DEF WorkerInv
  <1> QED BY <1>1, WorkerInvInit, WorkerInvStep, PTL DEF Spec

-----------------------------------------------------------------------------
(* The order of the requests.                                              *)

(* How many accepted requests have left the work channel and the batch.    *)
Taken == Len(accepted) - Len(workQ) - Len(batch)

Distinct(acc, n) == \A i, j \in 1 .. n : acc[i] = acc[j] => i = j

(* try_send takes a request once.                                          *)
Tickets ==
  /\ \A i \in 1 .. Len(accepted) : accepted[i] \in issued
  /\ Distinct(accepted, Len(accepted))

(* The batch and the work channel are the last accepted requests, in order.*)
WaitingInOrder ==
  /\ Taken \in Nat
  /\ \A i \in 1 .. Len(batch) : batch[i] = accepted[Taken + i]
  /\ \A i \in 1 .. Len(workQ) : workQ[i] = accepted[Taken + Len(batch) + i]

(* The other accepted requests, 1 .. taken, and the results es and groups  *)
(* gs they are spread over.  Each is in a group or has its result ...      *)
Accounted(es, gs, acc, taken) ==
  \A i \in 1 .. taken :
    \/ \E m \in 1 .. Len(es) : es[m].req_id = acc[i]
    \/ \E g \in 1 .. Len(gs) : \E k \in 1 .. Len(gs[g]) : gs[g][k] = acc[i]

(* ... and nothing else is.                                                *)
ResultsAsked(es, acc, taken) ==
  \A m \in 1 .. Len(es) : \E i \in 1 .. taken : es[m].req_id = acc[i]

GroupsAsked(gs, acc, taken) ==
  \A g \in 1 .. Len(gs) : \A k \in 1 .. Len(gs[g]) :
    \E i \in 1 .. taken : gs[g][k] = acc[i]

(* The requests of one pair are in the order they were accepted: among the *)
(* results, in each group, and from the results to the groups.             *)
ResultsInOrder(es, acc, taken) ==
  \A m, n \in 1 .. Len(es) : \A i, j \in 1 .. taken :
    /\ m < n /\ es[m].req_id = acc[i] /\ es[n].req_id = acc[j]
    /\ PairOf[acc[i]] = PairOf[acc[j]]
    => i < j

GroupsInOrder(gs, acc, taken) ==
  \A g \in 1 .. Len(gs) : \A k, l \in 1 .. Len(gs[g]) : \A i, j \in 1 .. taken :
    k < l /\ gs[g][k] = acc[i] /\ gs[g][l] = acc[j] => i < j

ResultsBeforeGroups(es, gs, acc, taken) ==
  \A m \in 1 .. Len(es) : \A g \in 1 .. Len(gs) : \A k \in 1 .. Len(gs[g]) : \A i, j \in 1 .. taken :
    /\ es[m].req_id = acc[i] /\ gs[g][k] = acc[j]
    /\ PairOf[acc[i]] = PairOf[acc[j]]
    => i < j

Ordered(es, gs, acc, taken) ==
  /\ Accounted(es, gs, acc, taken)
  /\ ResultsAsked(es, acc, taken) /\ GroupsAsked(gs, acc, taken)
  /\ ResultsInOrder(es, acc, taken) /\ GroupsInOrder(gs, acc, taken)
  /\ ResultsBeforeGroups(es, gs, acc, taken)

OrderInv ==
  /\ WorkerInv /\ Tickets /\ WaitingInOrder
  /\ Ordered(Emitted, groups, accepted, Taken)

(* Requests still in front of the partition do not matter to the order.    *)
LEMMA OrderedLocal ==
  ASSUME NEW es, NEW gs, NEW acc, NEW acc2, NEW taken \in Nat,
         \A i \in 1 .. taken : acc2[i] = acc[i],
         Ordered(es, gs, acc, taken)
  PROVE  Ordered(es, gs, acc2, taken)
  <1>0. /\ Accounted(es, gs, acc, taken)
        /\ ResultsAsked(es, acc, taken) /\ GroupsAsked(gs, acc, taken)
        /\ ResultsInOrder(es, acc, taken) /\ GroupsInOrder(gs, acc, taken)
        /\ ResultsBeforeGroups(es, gs, acc, taken)
    BY DEF Ordered
  <1>1. Accounted(es, gs, acc2, taken)
    BY <1>0 DEF Accounted
  <1>2. ResultsAsked(es, acc2, taken) /\ GroupsAsked(gs, acc2, taken)
    BY <1>0 DEF ResultsAsked, GroupsAsked
  <1>3. ResultsInOrder(es, acc2, taken)
    BY <1>0 DEF ResultsInOrder
  <1>4. GroupsInOrder(gs, acc2, taken)
    BY <1>0 DEF GroupsInOrder
  <1>5. ResultsBeforeGroups(es, gs, acc2, taken)
    BY <1>0 DEF ResultsBeforeGroups
  <1> QED BY <1>1, <1>2, <1>3, <1>4, <1>5 DEF Ordered

(* The partition of one more request, into a group of its own.             *)
LEMMA OrderedOpens ==
  ASSUME NEW es \in Seq(Completed), NEW gs \in Seq(Group), NEW new,
         NEW acc, NEW taken \in Nat,
         Distinct(acc, taken + 1),
         Opens(gs, new, acc[taken + 1]),
         Ordered(es, gs, acc, taken)
  PROVE  Ordered(es, new, acc, taken + 1)
  <1>0. /\ Accounted(es, gs, acc, taken)
        /\ ResultsAsked(es, acc, taken) /\ GroupsAsked(gs, acc, taken)
        /\ ResultsInOrder(es, acc, taken) /\ GroupsInOrder(gs, acc, taken)
        /\ ResultsBeforeGroups(es, gs, acc, taken)
    BY DEF Ordered
  <1> DEFINE n == Len(gs)
             r == acc[taken + 1]
  <1>1. /\ n \in Nat /\ Len(new) = n + 1
        /\ \A k \in 1 .. n : new[k] = gs[k]
        /\ Len(new[n + 1]) = 1 /\ new[n + 1][1] = r
    BY LenProperties DEF Opens
  <1>2. \A g \in 1 .. n + 1 : g \in 1 .. n \/ g = n + 1
    BY <1>1
  <1>3. \A i \in 1 .. taken + 1 : i \in 1 .. taken \/ i = taken + 1
    OBVIOUS
  <1>4. \A i \in 1 .. taken : i \in 1 .. taken + 1 /\ acc[i] # r
    BY DEF Distinct
  <1> HIDE DEF n, r
  <1>5. Accounted(es, new, acc, taken + 1)
    <2> SUFFICES ASSUME NEW i \in 1 .. taken + 1
                 PROVE  \/ \E m \in 1 .. Len(es) : es[m].req_id = acc[i]
                        \/ \E g \in 1 .. n + 1 : \E k \in 1 .. Len(new[g]) : new[g][k] = acc[i]
      BY <1>1 DEF Accounted
    <2>1. CASE i = taken + 1
      BY <1>1, <2>1 DEF r
    <2>2. CASE i \in 1 .. taken
      <3>1. CASE \E m \in 1 .. Len(es) : es[m].req_id = acc[i]
        BY <3>1
      <3>2. CASE \E g \in 1 .. Len(gs) : \E k \in 1 .. Len(gs[g]) : gs[g][k] = acc[i]
        <4>1. PICK g \in 1 .. n : \E k \in 1 .. Len(gs[g]) : gs[g][k] = acc[i]
          BY <3>2 DEF n
        <4>2. g \in 1 .. n + 1 /\ new[g] = gs[g]
          BY <1>1
        <4> QED BY <4>1, <4>2
      <3> QED BY <1>0, <2>2, <3>1, <3>2 DEF Accounted
    <2> QED BY <1>3, <2>1, <2>2
  <1>6. ResultsAsked(es, acc, taken + 1)
    BY <1>0 DEF ResultsAsked
  <1>7. GroupsAsked(new, acc, taken + 1)
    <2> SUFFICES ASSUME NEW g \in 1 .. n + 1, NEW k \in 1 .. Len(new[g])
                 PROVE  \E i \in 1 .. taken + 1 : new[g][k] = acc[i]
      BY <1>1 DEF GroupsAsked
    <2>1. CASE g = n + 1
      BY <1>1, <2>1 DEF r
    <2>2. CASE g \in 1 .. n
      BY <1>0, <1>1, <1>4, <2>2 DEF GroupsAsked, n
    <2> QED BY <1>2, <2>1, <2>2
  <1>8. ResultsInOrder(es, acc, taken + 1)
    <2> SUFFICES ASSUME NEW m \in 1 .. Len(es), NEW o \in 1 .. Len(es),
                        NEW i \in 1 .. taken + 1, NEW j \in 1 .. taken + 1,
                        m < o, es[m].req_id = acc[i], es[o].req_id = acc[j],
                        PairOf[acc[i]] = PairOf[acc[j]]
                 PROVE  i < j
      BY Zenon DEF ResultsInOrder
    <2>1. i \in 1 .. taken /\ j \in 1 .. taken
      BY <1>0, <1>3, <1>4 DEF ResultsAsked, r
    <2> QED BY <1>0, <2>1 DEF ResultsInOrder
  <1>9. GroupsInOrder(new, acc, taken + 1)
    <2> SUFFICES ASSUME NEW g \in 1 .. Len(new),
                        NEW k \in 1 .. Len(new[g]), NEW l \in 1 .. Len(new[g]),
                        NEW i \in 1 .. taken + 1, NEW j \in 1 .. taken + 1,
                        k < l, new[g][k] = acc[i], new[g][l] = acc[j]
                 PROVE  i < j
      BY Zenon DEF GroupsInOrder
    <2>1. g \in 1 .. n
      BY <1>1, <1>2
    <2>2. i \in 1 .. taken /\ j \in 1 .. taken
      BY <1>0, <1>1, <1>3, <1>4, <2>1 DEF GroupsAsked, n, r
    <2>3. new[g] = gs[g] /\ g \in 1 .. Len(gs)
      BY <1>1, <2>1 DEF n
    <2> QED BY <1>0, <2>2, <2>3 DEF GroupsInOrder
  <1>10. ResultsBeforeGroups(es, new, acc, taken + 1)
    <2> SUFFICES ASSUME NEW m \in 1 .. Len(es),
                        NEW g \in 1 .. Len(new), NEW k \in 1 .. Len(new[g]),
                        NEW i \in 1 .. taken + 1, NEW j \in 1 .. taken + 1
                 PROVE  /\ es[m].req_id = acc[i] /\ new[g][k] = acc[j]
                        /\ PairOf[acc[i]] = PairOf[acc[j]]
                        => i < j
      BY Zenon DEF ResultsBeforeGroups
    <2> HAVE /\ es[m].req_id = acc[i] /\ new[g][k] = acc[j]
             /\ PairOf[acc[i]] = PairOf[acc[j]]
    <2> g \in 1 .. n + 1
      BY <1>1
    <2>1. i \in 1 .. taken
      BY <1>0, <1>3, <1>4 DEF ResultsAsked, r
    <2>2. CASE g \in 1 .. n
      <3>1. j \in 1 .. taken
        BY <1>0, <1>1, <1>3, <1>4, <2>2 DEF GroupsAsked, n, r
      <3> QED BY <1>0, <1>1, <2>1, <2>2, <3>1 DEF ResultsBeforeGroups, n
    <2>3. CASE g = n + 1
      <3>1. j = taken + 1
        BY <1>1, <1>3, <1>4, <2>3 DEF r
      <3> QED BY <2>1, <3>1
    <2> QED BY <1>2, <2>2, <2>3
  <1> QED BY <1>5, <1>6, <1>7, <1>8, <1>9, <1>10 DEF Ordered

(* ... and into the group of its pair.                                     *)
LEMMA OrderedJoins ==
  ASSUME NEW es \in Seq(Completed), NEW gs \in Seq(Group), NEW new,
         NEW acc, NEW taken \in Nat, NEW g \in 1 .. Len(gs),
         Distinct(acc, taken + 1),
         Joins(gs, new, g, acc[taken + 1]),
         Ordered(es, gs, acc, taken)
  PROVE  Ordered(es, new, acc, taken + 1)
  <1>0. /\ Accounted(es, gs, acc, taken)
        /\ ResultsAsked(es, acc, taken) /\ GroupsAsked(gs, acc, taken)
        /\ ResultsInOrder(es, acc, taken) /\ GroupsInOrder(gs, acc, taken)
        /\ ResultsBeforeGroups(es, gs, acc, taken)
    BY DEF Ordered
  <1> DEFINE r == acc[taken + 1]
             last == Len(gs[g]) + 1
  <1>1. /\ Len(new) = Len(gs)
        /\ \A h \in 1 .. Len(gs) : h # g => new[h] = gs[h]
        /\ Len(new[g]) = last /\ last \in Nat
        /\ \A k \in 1 .. Len(gs[g]) : k \in 1 .. last /\ new[g][k] = gs[g][k]
        /\ \A k \in 1 .. last : k = last \/ k \in 1 .. Len(gs[g])
        /\ new[g][last] = r
    BY LenProperties, GroupElement DEF Joins
  <1>2. \A i \in 1 .. taken + 1 : i \in 1 .. taken \/ i = taken + 1
    OBVIOUS
  <1>3. \A i \in 1 .. taken : i \in 1 .. taken + 1 /\ acc[i] # r
    BY DEF Distinct
  <1>4. \A h \in 1 .. Len(gs) : \A k \in 1 .. Len(new[h]) :
          \/ h = g /\ k = last
          \/ k \in 1 .. Len(gs[h]) /\ new[h][k] = gs[h][k]
    BY <1>1
  <1>5. \A h \in 1 .. Len(gs) : \A k \in 1 .. Len(gs[h]) :
          k \in 1 .. Len(new[h]) /\ new[h][k] = gs[h][k]
    BY <1>1
  <1> HIDE DEF r, last
  <1>6. \A h \in 1 .. Len(gs) : \A k \in 1 .. Len(gs[h]), i \in 1 .. taken + 1 :
          gs[h][k] = acc[i] => i \in 1 .. taken
    BY <1>0, <1>2, <1>3 DEF GroupsAsked, r
  <1>7. Accounted(es, new, acc, taken + 1)
    <2> SUFFICES ASSUME NEW i \in 1 .. taken + 1
                 PROVE  \/ \E m \in 1 .. Len(es) : es[m].req_id = acc[i]
                        \/ \E h \in 1 .. Len(gs) : \E k \in 1 .. Len(new[h]) : new[h][k] = acc[i]
      BY <1>1 DEF Accounted
    <2>1. CASE i = taken + 1
      <3>1. last \in 1 .. Len(new[g])
        BY <1>1 DEF last
      <3> QED BY <1>1, <2>1, <3>1 DEF r
    <2>2. CASE i \in 1 .. taken
      <3>1. CASE \E m \in 1 .. Len(es) : es[m].req_id = acc[i]
        BY <3>1
      <3>2. CASE \E h \in 1 .. Len(gs) : \E k \in 1 .. Len(gs[h]) : gs[h][k] = acc[i]
        BY <1>5, <3>2
      <3> QED BY <1>0, <2>2, <3>1, <3>2 DEF Accounted
    <2> QED BY <1>2, <2>1, <2>2
  <1>8. ResultsAsked(es, acc, taken + 1)
    BY <1>0 DEF ResultsAsked
  <1>9. GroupsAsked(new, acc, taken + 1)
    <2> SUFFICES ASSUME NEW h \in 1 .. Len(gs), NEW k \in 1 .. Len(new[h])
                 PROVE  \E i \in 1 .. taken + 1 : new[h][k] = acc[i]
      BY <1>1 DEF GroupsAsked
    <2>1. CASE h = g /\ k = last
      BY <1>1, <2>1 DEF r
    <2>2. CASE k \in 1 .. Len(gs[h]) /\ new[h][k] = gs[h][k]
      BY <1>0, <1>3, <2>2 DEF GroupsAsked
    <2> QED BY <1>4, <2>1, <2>2
  <1>10. ResultsInOrder(es, acc, taken + 1)
    <2> SUFFICES ASSUME NEW m \in 1 .. Len(es), NEW o \in 1 .. Len(es),
                        NEW i \in 1 .. taken + 1, NEW j \in 1 .. taken + 1,
                        m < o, es[m].req_id = acc[i], es[o].req_id = acc[j],
                        PairOf[acc[i]] = PairOf[acc[j]]
                 PROVE  i < j
      BY Zenon DEF ResultsInOrder
    <2>1. i \in 1 .. taken /\ j \in 1 .. taken
      BY <1>0, <1>2, <1>3 DEF ResultsAsked, r
    <2> QED BY <1>0, <2>1 DEF ResultsInOrder
  <1>11. GroupsInOrder(new, acc, taken + 1)
    <2> SUFFICES ASSUME NEW h \in 1 .. Len(gs),
                        NEW k \in 1 .. Len(new[h]), NEW l \in 1 .. Len(new[h]),
                        NEW i \in 1 .. taken + 1, NEW j \in 1 .. taken + 1,
                        k < l, new[h][k] = acc[i], new[h][l] = acc[j]
                 PROVE  i < j
      BY <1>1 DEF GroupsInOrder
    <2>1. k \in 1 .. Len(gs[h]) /\ new[h][k] = gs[h][k]
      <3>1. CASE h = g /\ k = last
        BY <1>1, <3>1
      <3> QED BY <1>4, <3>1
    <2>2. i \in 1 .. taken
      BY <1>6, <2>1
    <2>3. CASE h = g /\ l = last
      <3>1. j = taken + 1
        BY <1>1, <1>2, <1>3, <2>3
      <3> QED BY <2>2, <3>1
    <2>4. CASE l \in 1 .. Len(gs[h]) /\ new[h][l] = gs[h][l]
      <3>1. j \in 1 .. taken
        BY <1>6, <2>4
      <3>2. gs[h][k] = acc[i] /\ gs[h][l] = acc[j] /\ h \in 1 .. Len(gs)
        BY <1>1, <2>1, <2>4
      <3>3. GroupsInOrder(gs, acc, taken)
        BY <1>0
      <3> QED BY <2>1, <2>2, <2>4, <3>1, <3>2, <3>3 DEF GroupsInOrder
    <2> QED BY <1>4, <2>3, <2>4
  <1>12. ResultsBeforeGroups(es, new, acc, taken + 1)
    <2> SUFFICES ASSUME NEW m \in 1 .. Len(es),
                        NEW h \in 1 .. Len(new), NEW k \in 1 .. Len(new[h]),
                        NEW i \in 1 .. taken + 1, NEW j \in 1 .. taken + 1
                 PROVE  /\ es[m].req_id = acc[i] /\ new[h][k] = acc[j]
                        /\ PairOf[acc[i]] = PairOf[acc[j]]
                        => i < j
      BY Zenon DEF ResultsBeforeGroups
    <2> HAVE /\ es[m].req_id = acc[i] /\ new[h][k] = acc[j]
             /\ PairOf[acc[i]] = PairOf[acc[j]]
    <2> h \in 1 .. Len(gs)
      BY <1>1
    <2>1. i \in 1 .. taken
      BY <1>0, <1>2, <1>3 DEF ResultsAsked, r
    <2>2. CASE h = g /\ k = last
      <3>1. j = taken + 1
        BY <1>1, <1>2, <1>3, <2>2
      <3> QED BY <2>1, <3>1
    <2>3. CASE k \in 1 .. Len(gs[h]) /\ new[h][k] = gs[h][k]
      <3>1. j \in 1 .. taken
        BY <1>6, <2>3
      <3>2. /\ h \in 1 .. Len(gs) /\ k \in 1 .. Len(gs[h]) /\ gs[h][k] = acc[j]
            /\ m \in 1 .. Len(es) /\ es[m].req_id = acc[i]
            /\ PairOf[acc[i]] = PairOf[acc[j]]
        BY <2>3
      <3>3. ResultsBeforeGroups(es, gs, acc, taken)
        BY <1>0
      <3> QED BY <2>1, <3>1, <3>2, <3>3 DEF ResultsBeforeGroups
    <2> QED BY <1>4, <2>2, <2>3
  <1> QED BY <1>7, <1>8, <1>9, <1>10, <1>11, <1>12 DEF Ordered

(* One thunk call: the first group becomes results, in its order, behind   *)
(* the results there are.                                                  *)
Translated(es, gs, es2, gs2) ==
  /\ Len(es2) = Len(es) + Len(gs[1])
  /\ \A m \in 1 .. Len(es) : es2[m] = es[m]
  /\ \A k \in 1 .. Len(gs[1]) : es2[Len(es) + k].req_id = gs[1][k]
  /\ Len(gs2) = Len(gs) - 1
  /\ \A g \in 1 .. Len(gs) - 1 : gs2[g] = gs[g + 1]

LEMMA OrderedTranslated ==
  ASSUME NEW es \in Seq(Completed), NEW gs \in Seq(Group), gs # <<>>,
         NEW es2 \in Seq(Completed), NEW gs2,
         NEW acc, NEW taken \in Nat,
         Translated(es, gs, es2, gs2), OnePair(gs),
         Ordered(es, gs, acc, taken)
  PROVE  Ordered(es2, gs2, acc, taken)
  <1>0. /\ Accounted(es, gs, acc, taken)
        /\ ResultsAsked(es, acc, taken) /\ GroupsAsked(gs, acc, taken)
        /\ ResultsInOrder(es, acc, taken) /\ GroupsInOrder(gs, acc, taken)
        /\ ResultsBeforeGroups(es, gs, acc, taken)
    BY DEF Ordered
  <1> DEFINE e == Len(es)
             first == gs[1]
             rest == Len(gs) - 1
  <1>1. /\ e \in Nat /\ Len(gs) \in Nat \ {0} /\ 1 \in 1 .. Len(gs) /\ rest \in Nat
        /\ Len(first) \in Nat
    BY LenProperties, EmptySeq, GroupElement
  <1>2. \A m \in 1 .. Len(es2) :
          \/ m \in 1 .. e /\ es2[m] = es[m]
          \/ m - e \in 1 .. Len(first) /\ es2[m].req_id = first[m - e]
    <2> SUFFICES ASSUME NEW m \in 1 .. Len(es2), m \notin 1 .. e
                 PROVE  m - e \in 1 .. Len(first) /\ es2[m].req_id = first[m - e]
      BY DEF Translated
    <2>1. m - e \in 1 .. Len(gs[1]) /\ e + (m - e) = m
      BY <1>1 DEF Translated, first
    <2>2. \A k \in 1 .. Len(gs[1]) : es2[e + k].req_id = gs[1][k]
      BY DEF Translated
    <2> QED BY <2>1, <2>2 DEF first
  <1>3. \A g \in 1 .. Len(gs2) : g + 1 \in 1 .. Len(gs) /\ g + 1 # 1 /\ gs2[g] = gs[g + 1]
    BY <1>1 DEF Translated
  <1> HIDE DEF first
  <1>4. Accounted(es2, gs2, acc, taken)
    <2> SUFFICES ASSUME NEW i \in 1 .. taken
                 PROVE  \/ \E m \in 1 .. Len(es2) : es2[m].req_id = acc[i]
                        \/ \E g \in 1 .. Len(gs2) : \E k \in 1 .. Len(gs2[g]) : gs2[g][k] = acc[i]
      BY DEF Accounted
    <2>1. CASE \E m \in 1 .. Len(es) : es[m].req_id = acc[i]
      <3>1. PICK m \in 1 .. Len(es) : es[m].req_id = acc[i]
        BY <2>1
      <3>2. m \in 1 .. Len(es2) /\ es2[m].req_id = acc[i]
        BY <1>1, <3>1 DEF first, Translated
      <3> QED BY <3>2
    <2>2. CASE \E g \in 1 .. Len(gs) : \E k \in 1 .. Len(gs[g]) : gs[g][k] = acc[i]
      <3>1. PICK g \in 1 .. Len(gs) : \E k \in 1 .. Len(gs[g]) : gs[g][k] = acc[i]
        BY <2>2
      <3>2. PICK k \in 1 .. Len(gs[g]) : gs[g][k] = acc[i]
        BY <3>1
      <3>3. CASE g = 1
        <4>1. e + k \in 1 .. Len(es2) /\ es2[e + k].req_id = acc[i]
          BY <1>1, <3>2, <3>3 DEF first, Translated
        <4> QED BY <4>1
      <3>4. CASE g # 1
        <4>1. g - 1 \in 1 .. Len(gs2) /\ gs2[g - 1] = gs[g]
          BY <1>1, <3>4 DEF Translated
        <4> QED BY <3>2, <4>1
      <3> QED BY <3>3, <3>4
    <2> QED BY <1>0, <2>1, <2>2 DEF Accounted
  <1>5. ResultsAsked(es2, acc, taken)
    <2> SUFFICES ASSUME NEW m \in 1 .. Len(es2)
                 PROVE  \E i \in 1 .. taken : es2[m].req_id = acc[i]
      BY Zenon DEF ResultsAsked
    <2>1. CASE m \in 1 .. e /\ es2[m] = es[m]
      BY <1>0, <2>1 DEF ResultsAsked
    <2>2. CASE m - e \in 1 .. Len(first) /\ es2[m].req_id = first[m - e]
      <3> DEFINE k == m - e
      <3>1. 1 \in 1 .. Len(gs) /\ k \in 1 .. Len(gs[1]) /\ es2[m].req_id = gs[1][k]
        BY <1>1, <2>2 DEF first
      <3> HIDE DEF k
      <3> QED BY <1>0, <3>1 DEF GroupsAsked
    <2> QED BY <1>2, <2>1, <2>2
  <1>6. GroupsAsked(gs2, acc, taken)
    <2> SUFFICES ASSUME NEW g \in 1 .. Len(gs2), NEW k \in 1 .. Len(gs2[g])
                 PROVE  \E i \in 1 .. taken : gs2[g][k] = acc[i]
      BY Zenon DEF GroupsAsked
    <2> DEFINE h == g + 1
    <2>1. h \in 1 .. Len(gs) /\ gs2[g] = gs[h]
      BY <1>3
    <2> HIDE DEF h
    <2> QED BY <1>0, <2>1 DEF GroupsAsked
  <1>7. ResultsInOrder(es2, acc, taken)
    <2> SUFFICES ASSUME NEW m \in 1 .. Len(es2), NEW o \in 1 .. Len(es2),
                        NEW i \in 1 .. taken, NEW j \in 1 .. taken,
                        m < o, es2[m].req_id = acc[i], es2[o].req_id = acc[j],
                        PairOf[acc[i]] = PairOf[acc[j]]
                 PROVE  i < j
      BY Zenon DEF ResultsInOrder
    <2>1. CASE o \in 1 .. e /\ es2[o] = es[o]
      <3>1. m \in 1 .. e /\ es2[m] = es[m]
        <4>1. m <= e
          BY <1>1, <2>1
        <4> QED BY <1>1, <1>2, <4>1
      <3> QED BY <1>0, <2>1, <3>1 DEF ResultsInOrder
    <2>2. CASE o - e \in 1 .. Len(first) /\ es2[o].req_id = first[o - e]
      <3>1. CASE m \in 1 .. e /\ es2[m] = es[m]
        <4>1. gs[1][o - e] = acc[j] /\ o - e \in 1 .. Len(gs[1])
          BY <2>2 DEF first
        <4> QED BY <1>0, <1>1, <3>1, <4>1 DEF ResultsBeforeGroups
      <3>2. CASE m - e \in 1 .. Len(first) /\ es2[m].req_id = first[m - e]
        <4> DEFINE k == m - e
                   l == o - e
        <4>1. /\ gs[1][l] = acc[j] /\ l \in 1 .. Len(gs[1])
              /\ gs[1][k] = acc[i] /\ k \in 1 .. Len(gs[1])
              /\ k < l
          BY <1>1, <2>2, <3>2 DEF first
        <4>2. 1 \in 1 .. Len(gs) /\ GroupsInOrder(gs, acc, taken)
          BY <1>0, <1>1
        <4> HIDE DEF k, l
        <4> QED BY <4>1, <4>2 DEF GroupsInOrder
      <3> QED BY <1>2, <3>1, <3>2
    <2> QED BY <1>2, <2>1, <2>2
  <1>8. GroupsInOrder(gs2, acc, taken)
    <2> SUFFICES ASSUME NEW g \in 1 .. Len(gs2),
                        NEW k \in 1 .. Len(gs2[g]), NEW l \in 1 .. Len(gs2[g]),
                        NEW i \in 1 .. taken, NEW j \in 1 .. taken,
                        k < l, gs2[g][k] = acc[i], gs2[g][l] = acc[j]
                 PROVE  i < j
      BY Zenon DEF GroupsInOrder
    <2> DEFINE h == g + 1
    <2>1. h \in 1 .. Len(gs) /\ gs2[g] = gs[h]
      BY <1>3
    <2> HIDE DEF h
    <2> QED BY <1>0, <2>1 DEF GroupsInOrder
  <1>9. ResultsBeforeGroups(es2, gs2, acc, taken)
    <2> SUFFICES ASSUME NEW m \in 1 .. Len(es2),
                        NEW g \in 1 .. Len(gs2), NEW k \in 1 .. Len(gs2[g]),
                        NEW i \in 1 .. taken, NEW j \in 1 .. taken
                 PROVE  /\ es2[m].req_id = acc[i] /\ gs2[g][k] = acc[j]
                        /\ PairOf[acc[i]] = PairOf[acc[j]]
                        => i < j
      BY Zenon DEF ResultsBeforeGroups
    <2> HAVE /\ es2[m].req_id = acc[i] /\ gs2[g][k] = acc[j]
             /\ PairOf[acc[i]] = PairOf[acc[j]]
    <2>1. /\ g + 1 \in 1 .. Len(gs) /\ g + 1 # 1
          /\ k \in 1 .. Len(gs[g + 1]) /\ gs[g + 1][k] = acc[j]
      BY <1>3
    <2>2. CASE m \in 1 .. e /\ es2[m] = es[m]
      BY <1>0, <2>1, <2>2 DEF ResultsBeforeGroups
    <2>3. CASE m - e \in 1 .. Len(first) /\ es2[m].req_id = first[m - e]
      <3>1. PairOf[gs[1][1]] = PairOf[acc[i]]
        <4>1. m - e \in 1 .. Len(gs[1]) /\ gs[1][m - e] = acc[i]
          BY <2>3 DEF first
        <4>2. PairOf[gs[1][m - e]] = PairOf[gs[1][1]]
          BY <1>1, <4>1 DEF OnePair
        <4> QED BY <4>1, <4>2
      <3>2. PairOf[gs[g + 1][1]] = PairOf[acc[j]]
        <4>1. PairOf[gs[g + 1][k]] = PairOf[gs[g + 1][1]]
          BY <2>1 DEF OnePair
        <4> QED BY <2>1, <4>1
      <3> QED BY <1>1, <2>1, <3>1, <3>2 DEF OnePair
    <2> QED BY <1>2, <2>2, <2>3
  <1> QED BY <1>4, <1>5, <1>6, <1>7, <1>8, <1>9 DEF Ordered

-----------------------------------------------------------------------------
(* Every step keeps the order.                                             *)

LEMMA OrderInvInit == Init => OrderInv
  <1> SUFFICES ASSUME Init PROVE OrderInv
    OBVIOUS
  <1>1. /\ workQ = <<>> /\ batch = <<>> /\ groups = <<>> /\ out = <<>>
        /\ doneQ = <<>> /\ accepted = <<>> /\ delivered = <<>>
    BY DEF Init
  <1>2. /\ Len(workQ) = 0 /\ Len(batch) = 0 /\ Len(groups) = 0 /\ Len(accepted) = 0
        /\ Taken = 0
    <2>1. /\ Len(workQ) = 0 /\ Len(batch) = 0 /\ Len(groups) = 0 /\ Len(accepted) = 0
      BY <1>1, EmptySeq
    <2> QED BY <2>1 DEF Taken
  <1>3. Len(Emitted) = 0
    BY <1>1, ConcatEmptySeq, EmptySeq DEF Emitted
  <1>4. Ordered(Emitted, groups, accepted, Taken)
    BY <1>2, <1>3
    DEF Ordered, Accounted, ResultsAsked, GroupsAsked, ResultsInOrder, GroupsInOrder,
        ResultsBeforeGroups
  <1> QED BY <1>2, <1>4, WorkerInvInit DEF OrderInv, Tickets, Distinct, WaitingInOrder

(* A step that neither partitions nor translates leaves the results and the*)
(* groups alone.                                                           *)
LEMMA OrderKept ==
  ASSUME WorkerInv', Tickets', WaitingInOrder', OrderInv,
         Emitted' = Emitted, groups' = groups, Taken' = Taken,
         \A i \in 1 .. Taken : accepted'[i] = accepted[i]
  PROVE  OrderInv'
  <1>1. Taken \in Nat /\ Ordered(Emitted, groups, accepted, Taken)
    BY DEF OrderInv, WaitingInOrder
  <1>2. Ordered(Emitted, groups, accepted', Taken)
    BY <1>1, OrderedLocal
  <1>3. Ordered(Emitted, groups, accepted, Taken)'
    BY <1>2
  <1> QED BY <1>3 DEF OrderInv

LEMMA OrderInvStep == OrderInv /\ [Next]_vars => OrderInv'
  <1> SUFFICES ASSUME OrderInv, [Next]_vars PROVE OrderInv'
    OBVIOUS
  <1>0. WorkerInv /\ WorkerInv'
    BY WorkerInvStep DEF OrderInv
  <1>a. TypeOK /\ WorkerShape /\ TypeOK' /\ Tickets /\ WaitingInOrder
    BY <1>0 DEF WorkerInv, OrderInv
  <1>b. /\ Len(accepted) \in Nat /\ Len(workQ) \in Nat /\ Len(batch) \in Nat
        /\ Len(workQ') \in Nat /\ Len(batch') \in Nat
    BY <1>a, LenProperties DEF TypeOK
  <1>1. CASE UNCHANGED vars
    <2>1. Tickets' /\ WaitingInOrder' /\ Emitted' = Emitted /\ Taken' = Taken
      BY <1>a, <1>1 DEF vars, workerVars, Tickets, Distinct, WaitingInOrder, Emitted, Taken
    <2> QED BY <1>0, <1>1, <2>1, OrderKept DEF vars, workerVars
  <1>2. ASSUME NEW r \in Requests, EnqueueOk(r) PROVE OrderInv'
    <2>1. /\ workQ' = Append(workQ, r) /\ accepted' = Append(accepted, r)
          /\ issued' = issued \cup {r} /\ r \notin issued
          /\ batch' = batch /\ groups' = groups /\ Emitted' = Emitted
      BY <1>2 DEF EnqueueOk, workerVars, Emitted
    <2>2. /\ Len(workQ') = Len(workQ) + 1 /\ Len(accepted') = Len(accepted) + 1
          /\ \A i \in 1 .. Len(workQ) : workQ'[i] = workQ[i]
          /\ \A i \in 1 .. Len(accepted) : accepted'[i] = accepted[i]
          /\ workQ'[Len(workQ) + 1] = r /\ accepted'[Len(accepted) + 1] = r
      BY <1>a, <2>1, AppendProperties DEF TypeOK
    <2>3. Taken' = Taken
      BY <1>b, <2>1, <2>2 DEF Taken
    <2>4. \A i \in 1 .. Taken : accepted'[i] = accepted[i]
      BY <1>a, <1>b, <2>2 DEF Taken, WaitingInOrder
    <2>5. Tickets'
      <3>1. \A i \in 1 .. Len(accepted') : i \in 1 .. Len(accepted) \/ i = Len(accepted) + 1
        BY <1>b, <2>2
      <3> QED BY <1>a, <2>1, <2>2, <3>1 DEF Tickets, Distinct
    <2>6. WaitingInOrder'
      <3>0. Taken \in Nat /\ Taken + Len(batch) + Len(workQ) = Len(accepted)
        BY <1>a, <1>b DEF WaitingInOrder, Taken
      <3>1. ASSUME NEW i \in 1 .. Len(batch)
            PROVE  batch'[i] = accepted'[Taken' + i]
        <4>1. Taken + i \in 1 .. Len(accepted)
          BY <1>b, <3>0
        <4> QED BY <1>a, <2>1, <2>2, <2>3, <4>1 DEF WaitingInOrder
      <3>2. ASSUME NEW i \in 1 .. Len(workQ)
            PROVE  workQ'[i] = accepted'[Taken' + Len(batch') + i]
        <4>1. Taken + Len(batch) + i \in 1 .. Len(accepted)
          BY <1>b, <3>0
        <4> QED BY <1>a, <2>1, <2>2, <2>3, <4>1 DEF WaitingInOrder
      <3>3. workQ'[Len(workQ) + 1] = accepted'[Taken' + Len(batch') + (Len(workQ) + 1)]
        <4>1. Taken + Len(batch) + (Len(workQ) + 1) = Len(accepted) + 1
          BY <1>b, <3>0
        <4> QED BY <2>1, <2>2, <2>3, <4>1
      <3>4. \A i \in 1 .. Len(workQ') : i \in 1 .. Len(workQ) \/ i = Len(workQ) + 1
        BY <1>b, <2>2
      <3> QED BY <1>a, <2>1, <2>3, <3>1, <3>2, <3>3, <3>4 DEF WaitingInOrder
    <2> QED BY <1>0, <2>1, <2>3, <2>4, <2>5, <2>6, OrderKept
  <1>3. ASSUME NEW r \in Requests, EnqueueFull(r) PROVE OrderInv'
    <2>1. /\ accepted' = accepted /\ workQ' = workQ /\ batch' = batch /\ groups' = groups
          /\ issued \subseteq issued' /\ Emitted' = Emitted
      BY <1>3 DEF EnqueueFull, workerVars, Emitted
    <2>2. Tickets' /\ WaitingInOrder' /\ Taken' = Taken
      BY <1>a, <2>1 DEF Tickets, Distinct, WaitingInOrder, Taken
    <2> QED BY <1>0, <2>1, <2>2, OrderKept
  <1>4. CASE Poll
    <2>1. /\ accepted' = accepted /\ workQ' = workQ /\ batch' = batch /\ groups' = groups
          /\ issued' = issued /\ out' = out
      BY <1>4 DEF Poll, workerVars
    <2>2. Emitted' = Emitted
      <3> DEFINE n == AtMost(Len(doneQ), POLL_MAX_RECORDS)
                 taken == SubSeq(doneQ, 1, n)
                 left == SubSeq(doneQ, n + 1, Len(doneQ))
      <3>1. /\ doneQ \in Seq(Completed) /\ delivered \in Seq(Completed) /\ out \in Seq(Completed)
            /\ delivered' = delivered \o taken /\ doneQ' = left
        BY <1>a, <1>4 DEF TypeOK, Poll
      <3>2. n \in 0 .. Len(doneQ)
        BY <3>1, LenProperties, QueueAssumption DEF AtMost
      <3> HIDE DEF n
      <3>3. taken \in Seq(Completed) /\ left \in Seq(Completed) /\ taken \o left = doneQ
        BY <3>1, <3>2, CutAndJoin
      <3> HIDE DEF taken, left
      <3>4. (delivered \o taken) \o left = delivered \o doneQ
        <4>1. /\ delivered \in Seq(Completed) /\ taken \in Seq(Completed)
              /\ left \in Seq(Completed)
          BY <3>1, <3>3
        <4>2. (delivered \o taken) \o left = delivered \o (taken \o left)
          BY <4>1, ResultsAssoc, Zenon
        <4> QED BY <3>3, <4>2
      <3> QED BY <2>1, <3>1, <3>4 DEF Emitted
    <2>3. Tickets' /\ WaitingInOrder' /\ Taken' = Taken
      BY <1>a, <2>1 DEF Tickets, Distinct, WaitingInOrder, Taken
    <2> QED BY <1>0, <2>1, <2>2, <2>3, OrderKept
  <1>5. CASE Recv
    <2>1. /\ accepted' = accepted /\ groups' = groups /\ issued' = issued /\ Emitted' = Emitted
          /\ batch = <<>> /\ batch' = <<Head(workQ)>> /\ workQ' = Tail(workQ) /\ workQ # <<>>
      BY <1>a, <1>5 DEF Recv, Emitted, WorkerShape
    <2>2. /\ Len(batch) = 0 /\ Len(batch') = 1 /\ batch'[1] = workQ[1]
          /\ Len(workQ) > 0 /\ Len(workQ') = Len(workQ) - 1
          /\ \A i \in 1 .. Len(workQ) - 1 : workQ'[i] = workQ[i + 1]
      BY <1>a, <2>1, NonEmptySeq DEF TypeOK
    <2>3. Taken' = Taken
      BY <1>b, <2>1, <2>2 DEF Taken
    <2>4. Tickets'
      BY <1>a, <2>1 DEF Tickets, Distinct
    <2>5. WaitingInOrder'
      BY <1>a, <1>b, <2>1, <2>2, <2>3 DEF WaitingInOrder
    <2> QED BY <1>0, <2>1, <2>3, <2>4, <2>5, OrderKept
  <1>6. CASE Coalesce
    <2>1. /\ accepted' = accepted /\ groups' = groups /\ issued' = issued /\ Emitted' = Emitted
          /\ batch' = Append(batch, Head(workQ)) /\ workQ' = Tail(workQ) /\ workQ # <<>>
      BY <1>6 DEF Coalesce, Emitted
    <2>2. /\ Head(workQ) = workQ[1] /\ workQ[1] \in Requests
          /\ Len(workQ) > 0 /\ Len(workQ') = Len(workQ) - 1
          /\ \A i \in 1 .. Len(workQ) - 1 : workQ'[i] = workQ[i + 1]
      BY <1>a, <2>1, NonEmptySeq DEF TypeOK
    <2>3. /\ Len(batch') = Len(batch) + 1 /\ batch'[Len(batch) + 1] = workQ[1]
          /\ \A i \in 1 .. Len(batch) : batch'[i] = batch[i]
      BY <1>a, <2>1, <2>2, AppendProperties DEF TypeOK
    <2>4. Taken' = Taken
      BY <1>b, <2>1, <2>2, <2>3 DEF Taken
    <2>5. Tickets'
      BY <1>a, <2>1 DEF Tickets, Distinct
    <2>6. WaitingInOrder'
      <3>1. \A i \in 1 .. Len(batch') : i \in 1 .. Len(batch) \/ i = Len(batch) + 1
        BY <1>b, <2>3
      <3>2. \A i \in 1 .. Len(batch') : batch'[i] = accepted'[Taken' + i]
        <4>1. \A i \in 1 .. Len(batch) : batch'[i] = accepted'[Taken' + i]
          BY <1>a, <2>1, <2>3, <2>4 DEF WaitingInOrder
        <4>2. 1 \in 1 .. Len(workQ) /\ Taken \in Nat
          BY <1>a, <1>b, <2>2 DEF WaitingInOrder
        <4>3. workQ[1] = accepted[Taken + Len(batch) + 1]
          BY <1>a, <4>2 DEF WaitingInOrder
        <4>4. Taken' + (Len(batch) + 1) = Taken + Len(batch) + 1
          BY <1>b, <2>4, <4>2
        <4> QED BY <2>1, <2>3, <3>1, <4>1, <4>3, <4>4
      <3>3. \A i \in 1 .. Len(workQ') : workQ'[i] = accepted'[Taken' + Len(batch') + i]
        BY <1>a, <1>b, <2>1, <2>2, <2>3, <2>4 DEF WaitingInOrder
      <3> QED BY <1>a, <2>4, <3>2, <3>3 DEF WaitingInOrder
    <2> QED BY <1>0, <2>1, <2>4, <2>5, <2>6, OrderKept
  <1>7. CASE CloseBatch
    <2>1. /\ accepted' = accepted /\ workQ' = workQ /\ batch' = batch /\ groups' = groups
          /\ issued' = issued /\ Emitted' = Emitted
      BY <1>7 DEF CloseBatch, Emitted
    <2>2. Tickets' /\ WaitingInOrder' /\ Taken' = Taken
      BY <1>a, <2>1 DEF Tickets, Distinct, WaitingInOrder, Taken
    <2> QED BY <1>0, <2>1, <2>2, OrderKept
  <1>8. CASE GroupOne
    <2> DEFINE r == Head(batch)
    <2>1. /\ accepted' = accepted /\ workQ' = workQ /\ issued' = issued /\ Emitted' = Emitted
          /\ batch' = Tail(batch) /\ batch # <<>> /\ groups' = Place(groups, r)
      BY <1>a, <1>8 DEF GroupOne, Emitted, WorkerShape
    <2>2. /\ r = batch[1] /\ r \in Requests
          /\ Len(batch) > 0 /\ Len(batch') = Len(batch) - 1
          /\ \A i \in 1 .. Len(batch) - 1 : batch'[i] = batch[i + 1]
      BY <1>a, <2>1, NonEmptySeq DEF TypeOK
    <2>3. Taken' = Taken + 1 /\ Taken \in Nat /\ Taken + 1 <= Len(accepted)
      BY <1>a, <1>b, <2>1, <2>2 DEF Taken, WaitingInOrder
    <2>4. r = accepted[Taken + 1]
      BY <1>a, <1>b, <2>2 DEF WaitingInOrder
    <2>5. Tickets'
      BY <1>a, <2>1 DEF Tickets, Distinct
    <2>6. WaitingInOrder'
      <3>1. ASSUME NEW i \in 1 .. Len(batch')
            PROVE  batch'[i] = accepted'[Taken' + i]
        <4>1. i + 1 \in 1 .. Len(batch) /\ batch'[i] = batch[i + 1]
          BY <1>b, <2>2
        <4>2. batch[i + 1] = accepted[Taken + (i + 1)]
          BY <1>a, <4>1 DEF WaitingInOrder
        <4> QED BY <2>1, <2>3, <4>1, <4>2
      <3>2. \A i \in 1 .. Len(workQ') : workQ'[i] = accepted'[Taken' + Len(batch') + i]
        <4>1. Taken' + Len(batch') = Taken + Len(batch)
          BY <1>b, <2>2, <2>3
        <4> QED BY <1>a, <2>1, <4>1 DEF WaitingInOrder
      <3> QED BY <2>3, <3>1, <3>2 DEF WaitingInOrder
    <2>7. Distinct(accepted, Taken + 1)
      BY <1>a, <1>b, <2>3 DEF Tickets, Distinct
    <2>8. groups \in Seq(Group) /\ Emitted \in Seq(Completed)
      BY <1>a, ConcatProperties DEF TypeOK, Emitted
    <2>9. Ordered(Emitted, groups, accepted, Taken)
      BY DEF OrderInv
    <2>10. Ordered(Emitted, groups', accepted, Taken + 1)
      <3>1. \/ Opens(groups, groups', r)
            \/ \E g \in 1 .. Len(groups) : Joins(groups, groups', g, r)
        BY <1>0, <2>1, <2>2, <2>8, PlaceEffect DEF WorkerInv, OnePairPerGroup
      <3>2. CASE Opens(groups, groups', r)
        BY <2>3, <2>4, <2>7, <2>8, <2>9, <3>2, OrderedOpens
      <3>3. CASE \E g \in 1 .. Len(groups) : Joins(groups, groups', g, r)
        <4>1. PICK g \in 1 .. Len(groups) : Joins(groups, groups', g, r)
          BY <3>3
        <4> QED BY <2>3, <2>4, <2>7, <2>8, <2>9, <4>1, OrderedJoins
      <3> QED BY <3>1, <3>2, <3>3
    <2>11. Ordered(Emitted, groups, accepted, Taken)'
      BY <2>1, <2>3, <2>10
    <2> QED BY <1>0, <2>5, <2>6, <2>11 DEF OrderInv
  <1>9. ASSUME pc = "translate", NEW statuses \in SlotStatuses(Len(Head(groups))),
               TranslateGroup(statuses)
        PROVE  OrderInv'
    <2>1. /\ accepted' = accepted /\ workQ' = workQ /\ issued' = issued /\ batch' = batch
          /\ delivered' = delivered /\ doneQ' = doneQ
          /\ groups' = Tail(groups) /\ groups # <<>> /\ out = <<>>
      BY <1>a, <1>9 DEF TranslateGroup, WorkerShape
    <2>2. Tickets' /\ WaitingInOrder' /\ Taken' = Taken /\ Taken \in Nat
      BY <1>a, <2>1 DEF Tickets, Distinct, WaitingInOrder, Taken
    <2>3. /\ groups \in Seq(Group) /\ Emitted \in Seq(Completed) /\ Emitted' \in Seq(Completed)
      BY <1>a, ConcatProperties DEF TypeOK, Emitted
    <2>4. /\ Head(groups) = groups[1] /\ Len(groups') = Len(groups) - 1
          /\ \A g \in 1 .. Len(groups) - 1 : groups'[g] = groups[g + 1]
          /\ Len(groups[1]) \in Nat
      <3>1. 1 \in DOMAIN groups
        BY <2>1, <2>3, LenProperties, EmptySeq
      <3> QED BY <2>1, <2>3, <3>1, NonEmptySeq, GroupElement
    <2>5. /\ out' \in Seq(Completed) /\ Len(out') = Len(groups[1])
          /\ \A k \in 1 .. Len(groups[1]) : out'[k].req_id = groups[1][k]
      <3>1. out' = [i \in 1 .. Len(groups[1]) |->
                     [req_id |-> groups[1][i], status |-> statuses[i]]]
        BY <1>9, <2>4 DEF TranslateGroup
      <3>2. out' \in Seq(Completed)
        BY <1>a DEF TypeOK
      <3> QED BY <2>4, <3>1, <3>2, LenProperties
    <2>6. Emitted = delivered \o doneQ /\ Emitted' = Emitted \o out'
      <3>1. (delivered \o doneQ) \o <<>> = delivered \o doneQ
        BY <1>a, ConcatProperties, ConcatEmptySeq DEF TypeOK
      <3> QED BY <2>1, <3>1 DEF Emitted
    <2>7. /\ Len(Emitted') = Len(Emitted) + Len(groups[1])
          /\ \A m \in 1 .. Len(Emitted) : Emitted'[m] = Emitted[m]
          /\ \A k \in 1 .. Len(groups[1]) : Emitted'[Len(Emitted) + k].req_id = groups[1][k]
      <3>1. Len(Emitted) \in Nat
        BY <2>3, LenProperties
      <3> DEFINE es == Emitted
                 new == out'
      <3>2. es \in Seq(Completed) /\ new \in Seq(Completed) /\ Emitted' = es \o new
        BY <2>3, <2>5, <2>6
      <3> HIDE DEF es, new
      <3>3. /\ Len(Emitted') = Len(es) + Len(new)
            /\ \A i \in 1 .. Len(es) + Len(new) :
                 Emitted'[i] = IF i <= Len(es) THEN es[i] ELSE new[i - Len(es)]
        BY <3>2, ConcatProperties
      <3>4. Len(es) \in Nat /\ Len(new) = Len(groups[1])
        BY <3>1, <2>5 DEF es, new
      <3>5. \A k \in 1 .. Len(groups[1]) : Emitted'[Len(es) + k] = new[k]
        BY <2>4, <3>3, <3>4
      <3>6. \A m \in 1 .. Len(es) : Emitted'[m] = es[m]
        BY <2>4, <3>3, <3>4
      <3> QED BY <2>5, <3>3, <3>4, <3>5, <3>6 DEF es, new
    <2>8. OnePair(groups) /\ Translated(Emitted, groups, Emitted', groups')
      BY <1>0, <2>4, <2>7 DEF WorkerInv, OnePairPerGroup, Translated
    <2>9. Ordered(Emitted, groups, accepted, Taken)
      BY DEF OrderInv
    <2>10. Ordered(Emitted', groups', accepted, Taken)
      BY <2>1, <2>2, <2>3, <2>8, <2>9, OrderedTranslated
    <2>11. Ordered(Emitted, groups, accepted, Taken)'
      BY <2>1, <2>2, <2>10
    <2> QED BY <1>0, <2>2, <2>11 DEF OrderInv
  <1>10. CASE Send
    <2>1. /\ accepted' = accepted /\ workQ' = workQ /\ batch' = batch /\ groups' = groups
          /\ issued' = issued /\ delivered' = delivered
          /\ doneQ' = Append(doneQ, Head(out)) /\ out' = Tail(out) /\ out # <<>>
      BY <1>a, <1>10 DEF Send, WorkerShape
    <2>2. Emitted' = Emitted
      <3>1. /\ delivered \in Seq(Completed) /\ doneQ \in Seq(Completed)
            /\ out \in Seq(Completed) /\ out # <<>>
        BY <1>a, <2>1 DEF TypeOK
      <3>2. (delivered \o doneQ') \o out' = (delivered \o doneQ) \o out
        <4> DEFINE one == <<out[1]>>
        <4>1. Head(out) = out[1] /\ out[1] \in Completed
          BY <3>1, NonEmptySeq
        <4>2. doneQ' = doneQ \o one
          BY <2>1, <3>1, <4>1, AppendIsConcat
        <4>3. one \in Seq(Completed)
          BY <4>1
        <4>4. one \o out' = out
          BY <2>1, <3>1, FirstAndRest
        <4>5. out' \in Seq(Completed)
          BY <2>1, <3>1, NonEmptySeq
        <4> HIDE DEF one
        <4>6. /\ delivered \in Seq(Completed) /\ doneQ \in Seq(Completed)
              /\ one \in Seq(Completed) /\ out' \in Seq(Completed)
          BY <3>1, <4>3, <4>5
        <4>7. (delivered \o (doneQ \o one)) \o out' = (delivered \o doneQ) \o (one \o out')
          <5> DEFINE dq == delivered \o doneQ
          <5>1. dq \in Seq(Completed)
            BY <4>6, ResultsJoined, Zenon
          <5>2. dq \o one = delivered \o (doneQ \o one)
            BY <4>6, ResultsAssoc, Zenon
          <5> HIDE DEF dq
          <5>3. one \in Seq(Completed) /\ out' \in Seq(Completed)
            BY <4>6
          <5>4. (dq \o one) \o out' = dq \o (one \o out')
            BY <5>1, <5>3, ResultsAssoc, Zenon
          <5> QED BY <5>2, <5>4, Zenon DEF dq
        <4> QED BY <4>2, <4>4, <4>7
      <3> QED BY <2>1, <3>2 DEF Emitted
    <2>3. Tickets' /\ WaitingInOrder' /\ Taken' = Taken
      BY <1>a, <2>1 DEF Tickets, Distinct, WaitingInOrder, Taken
    <2> QED BY <1>0, <2>1, <2>2, <2>3, OrderKept
  <1> QED
    BY <1>1, <1>2, <1>3, <1>4, <1>5, <1>6, <1>7, <1>8, <1>9, <1>10
    DEF Next, Client, Worker, Translate

LEMMA OrderInvAlways == Spec => []OrderInv
  BY OrderInvInit, OrderInvStep, PTL DEF Spec

-----------------------------------------------------------------------------
(* What follows from the order.                                            *)

(* Where a delivered result sits among all the results.                    *)
LEMMA DeliveredEmitted ==
  ASSUME OrderInv
  PROVE  /\ Len(delivered) \in Nat /\ Len(Emitted) \in Nat /\ Len(delivered) <= Len(Emitted)
         /\ \A m \in 1 .. Len(delivered) : Emitted[m] = delivered[m]
         /\ DOMAIN delivered = 1 .. Len(delivered) /\ DOMAIN accepted = 1 .. Len(accepted)
         /\ DOMAIN Emitted = 1 .. Len(Emitted) /\ Len(accepted) \in Nat
  <1>1. /\ delivered \in Seq(Completed) /\ doneQ \in Seq(Completed) /\ out \in Seq(Completed)
        /\ accepted \in Seq(Requests)
    BY DEF OrderInv, WorkerInv, TypeOK
  <1> DEFINE front == delivered \o doneQ
  <1>2. /\ front \in Seq(Completed) /\ Len(front) = Len(delivered) + Len(doneQ)
        /\ \A i \in 1 .. Len(delivered) + Len(doneQ) :
             front[i] = IF i <= Len(delivered) THEN delivered[i] ELSE doneQ[i - Len(delivered)]
    BY <1>1, ConcatProperties
  <1>3. Emitted = front \o out
    BY DEF Emitted
  <1> HIDE DEF front
  <1>4. /\ Emitted \in Seq(Completed) /\ Len(Emitted) = Len(front) + Len(out)
        /\ \A i \in 1 .. Len(front) + Len(out) :
             Emitted[i] = IF i <= Len(front) THEN front[i] ELSE out[i - Len(front)]
    <2> DEFINE rear == out
               all == Emitted
    <2>1. front \in Seq(Completed) /\ rear \in Seq(Completed) /\ all = front \o rear
      BY <1>1, <1>2, <1>3
    <2> HIDE DEF rear, all
    <2>2. /\ all \in Seq(Completed) /\ Len(all) = Len(front) + Len(rear)
          /\ \A i \in 1 .. Len(front) + Len(rear) :
               all[i] = IF i <= Len(front) THEN front[i] ELSE rear[i - Len(front)]
      BY <2>1, ConcatProperties
    <2> QED BY <2>2 DEF all, rear
  <1>5. /\ Len(delivered) \in Nat /\ Len(doneQ) \in Nat /\ Len(out) \in Nat
        /\ Len(accepted) \in Nat
        /\ DOMAIN delivered = 1 .. Len(delivered) /\ DOMAIN accepted = 1 .. Len(accepted)
        /\ DOMAIN Emitted = 1 .. Len(Emitted)
    BY <1>1, <1>4, LenProperties
  <1> QED BY <1>2, <1>4, <1>5

(* No two results are for one request.                                     *)
LEMMA ResultsDistinct ==
  ASSUME OrderInv,
         NEW m \in 1 .. Len(Emitted), NEW n \in 1 .. Len(Emitted),
         Emitted[m].req_id = Emitted[n].req_id
  PROVE  m = n
  <1>1. Len(Emitted) \in Nat
    BY DeliveredEmitted
  <1>2. Taken \in Nat /\ ResultsAsked(Emitted, accepted, Taken) /\ ResultsInOrder(Emitted, accepted, Taken)
    BY DEF OrderInv, Ordered, WaitingInOrder
  <1>3. PICK i \in 1 .. Taken : Emitted[m].req_id = accepted[i]
    BY <1>2 DEF ResultsAsked
  <1>4. Emitted[n].req_id = accepted[i]
    BY <1>3
  <1>5. m < n => i < i
    BY <1>2, <1>3, <1>4 DEF ResultsInOrder
  <1>6. n < m => i < i
    BY <1>2, <1>3, <1>4 DEF ResultsInOrder
  <1>7. ~(i < i)
    BY <1>2
  <1> QED BY <1>1, <1>5, <1>6, <1>7

(* What the addon relies on, of any sequence of results: one result for a  *)
(* request, and those of a pair in the order they were asked for.          *)
Once(rs) == \A m, n \in 1 .. Len(rs) : rs[m].req_id = rs[n].req_id => m = n

InPairOrder(rs) ==
  \A i, j \in 1 .. Len(accepted), m \in 1 .. Len(rs) :
    /\ i < j /\ PairOf[accepted[i]] = PairOf[accepted[j]]
    /\ rs[m].req_id = accepted[j]
    => \E k \in 1 .. m - 1 : rs[k].req_id = accepted[i]

Sound(rs) == Once(rs) /\ InPairOrder(rs)

(* A result is preceded by those of its pair that were asked for earlier.  *)
LEMMA EmittedInPairOrder ==
  ASSUME OrderInv
  PROVE  InPairOrder(Emitted)
  <1> SUFFICES ASSUME NEW i \in 1 .. Len(accepted), NEW j \in 1 .. Len(accepted),
                      NEW m \in 1 .. Len(Emitted),
                      i < j, PairOf[accepted[i]] = PairOf[accepted[j]],
                      Emitted[m].req_id = accepted[j]
               PROVE  \E k \in 1 .. m - 1 : Emitted[k].req_id = accepted[i]
    BY DEF InPairOrder
  <1>1. /\ Tickets /\ Taken \in Nat
        /\ Accounted(Emitted, groups, accepted, Taken)
        /\ ResultsAsked(Emitted, accepted, Taken)
        /\ ResultsInOrder(Emitted, accepted, Taken)
        /\ ResultsBeforeGroups(Emitted, groups, accepted, Taken)
        /\ Taken <= Len(accepted)
    <2>1. Len(workQ) \in Nat /\ Len(batch) \in Nat
      BY LenProperties DEF OrderInv, WorkerInv, TypeOK
    <2>2. Len(accepted) \in Nat
      BY DeliveredEmitted
    <2>3. Taken <= Len(accepted)
      BY <2>1, <2>2 DEF Taken
    <2> QED BY <2>3 DEF OrderInv, Ordered, WaitingInOrder
  <1>2. /\ i \in 1 .. Len(accepted) /\ j \in 1 .. Len(accepted) /\ Len(accepted) \in Nat
        /\ Len(Emitted) \in Nat
    BY DeliveredEmitted
  <1>3. j \in 1 .. Taken
    <2>1. PICK l \in 1 .. Taken : Emitted[m].req_id = accepted[l]
      BY <1>1, <1>2 DEF ResultsAsked
    <2>2. l = j
      <3>1. l \in 1 .. Len(accepted) /\ accepted[l] = accepted[j]
        BY <1>1, <1>2, <2>1
      <3> QED BY <1>1, <1>2, <3>1 DEF Tickets, Distinct
    <2> QED BY <2>1, <2>2
  <1>4. i \in 1 .. Taken
    BY <1>1, <1>2, <1>3
  <1>5. CASE \E g \in 1 .. Len(groups) : \E k \in 1 .. Len(groups[g]) : groups[g][k] = accepted[i]
    <2>1. j < i
      BY <1>1, <1>2, <1>3, <1>4, <1>5 DEF ResultsBeforeGroups
    <2> QED BY <1>2, <2>1
  <1>6. CASE \E k \in 1 .. Len(Emitted) : Emitted[k].req_id = accepted[i]
    <2>1. PICK k \in 1 .. Len(Emitted) : Emitted[k].req_id = accepted[i]
      BY <1>6
    <2>2. ~(m < k)
      <3>1. m < k => j < i
        BY <1>1, <1>2, <1>3, <1>4, <2>1 DEF ResultsInOrder
      <3> QED BY <1>2, <3>1
    <2>3. m # k
      <3>1. m = k => accepted[i] = accepted[j]
        BY <1>2, <2>1
      <3>2. accepted[i] # accepted[j]
        BY <1>1, <1>2 DEF Tickets, Distinct
      <3> QED BY <3>1, <3>2
    <2>4. k \in 1 .. m - 1 
      BY <1>2, <2>1, <2>2, <2>3
    <2> QED BY <2>1, <2>4
  <1> QED BY <1>1, <1>4, <1>5, <1>6 DEF Accounted

LEMMA EmittedSound ==
  ASSUME OrderInv
  PROVE  Sound(Emitted)
  BY EmittedInPairOrder, ResultsDistinct DEF Sound, Once

(* What comes first of a sound sequence is sound.                          *)
LEMMA FrontIsSound ==
  ASSUME NEW s \in Seq(Completed), NEW t \in Seq(Completed), Sound(s \o t)
  PROVE  Sound(s)
  <1> DEFINE st == s \o t
  <1>1. /\ Len(s) \in Nat /\ Len(st) \in Nat /\ Len(s) <= Len(st)
        /\ \A m \in 1 .. Len(s) : m \in 1 .. Len(st) /\ st[m] = s[m]
    <2>1. /\ Len(s) \in Nat /\ Len(t) \in Nat /\ Len(st) = Len(s) + Len(t)
          /\ \A m \in 1 .. Len(s) + Len(t) :
               st[m] = IF m <= Len(s) THEN s[m] ELSE t[m - Len(s)]
      BY ConcatProperties, LenProperties
    <2> HIDE DEF st
    <2> QED BY <2>1
  <1>2. Once(st) /\ InPairOrder(st)
    BY DEF Sound
  <1> HIDE DEF st
  <1>3. Once(s)
    BY <1>1, <1>2 DEF Once
  <1>4. InPairOrder(s)
    <2> SUFFICES ASSUME NEW i \in 1 .. Len(accepted), NEW j \in 1 .. Len(accepted),
                        NEW m \in 1 .. Len(s),
                        i < j, PairOf[accepted[i]] = PairOf[accepted[j]],
                        s[m].req_id = accepted[j]
                 PROVE  \E k \in 1 .. m - 1 : s[k].req_id = accepted[i]
      BY DEF InPairOrder
    <2>1. m \in 1 .. Len(st) /\ st[m].req_id = accepted[j]
      BY <1>1
    <2>2. PICK k \in 1 .. m - 1 : st[k].req_id = accepted[i]
      BY <1>2, <2>1 DEF InPairOrder
    <2>3. k \in 1 .. Len(s)
      BY <1>1
    <2> QED BY <1>1, <2>2, <2>3
  <1> QED BY <1>3, <1>4 DEF Sound

(* What has been delivered is the first of what is sound.                  *)
LEMMA SoundIsDelivered ==
  ASSUME NEW rest \in Seq(Completed), TypeOK, Sound(delivered \o rest)
  PROVE  AtMostOnce /\ PairFifo
  <1>1. delivered \in Seq(Completed) /\ accepted \in Seq(Requests)
    BY DEF TypeOK
  <1>2. Sound(delivered)
    BY <1>1, FrontIsSound
  <1>3. DOMAIN delivered = 1 .. Len(delivered) /\ DOMAIN accepted = 1 .. Len(accepted)
    BY <1>1, LenProperties
  <1> QED BY <1>2, <1>3 DEF Sound, Once, InPairOrder, AtMostOnce, PairFifo

LEMMA OrderSurfaces ==
  ASSUME OrderInv
  PROVE  /\ TypeOK /\ Sound(delivered \o doneQ)
         /\ AtMostOnce /\ PairFifo
  <1>1. TypeOK
    BY DEF OrderInv, WorkerInv
  <1>2. delivered \in Seq(Completed) /\ doneQ \in Seq(Completed) /\ out \in Seq(Completed)
    BY <1>1 DEF TypeOK
  <1> DEFINE front == delivered \o doneQ
  <1>3. front \in Seq(Completed)
    BY <1>2, ConcatProperties
  <1>4. Sound(front \o out)
    BY EmittedSound DEF Emitted
  <1> HIDE DEF front
  <1>5. Sound(front)
    BY <1>2, <1>3, <1>4, FrontIsSound
  <1>6. Sound(delivered \o doneQ)
    BY <1>5 DEF front
  <1> QED BY <1>1, <1>2, <1>6, SoundIsDelivered

(* The addon is never handed two results for one request.                  *)
THEOREM QueueAtMostOnce == Spec => []AtMostOnce
  BY OrderSurfaces, OrderInvAlways, PTL

(* The lines of one pair reach the addon in the order they were asked.     *)
THEOREM QueuePairFifo == Spec => []PairFifo
  BY OrderSurfaces, OrderInvAlways, PTL

LEMMA OrderLosesNothing ==
  ASSUME OrderInv
  PROVE  NothingLost
  <1> SUFFICES ASSUME NEW k \in DOMAIN accepted
               PROVE  \/ \E m \in DOMAIN Emitted : Emitted[m].req_id = accepted[k]
                      \/ accepted[k] \in Grouped \cup Range(batch) \cup Range(workQ)
    BY DEF NothingLost
  <1>1. /\ TypeOK /\ WaitingInOrder
        /\ Accounted(Emitted, groups, accepted, Taken)
    BY DEF OrderInv, WorkerInv, Ordered
  <1>2. /\ k \in 1 .. Len(accepted) /\ Len(accepted) \in Nat
        /\ DOMAIN Emitted = 1 .. Len(Emitted)
    BY DeliveredEmitted
  <1>3. /\ Len(batch) \in Nat /\ Len(workQ) \in Nat /\ Taken \in Nat
        /\ DOMAIN batch = 1 .. Len(batch) /\ DOMAIN workQ = 1 .. Len(workQ)
        /\ DOMAIN groups = 1 .. Len(groups) /\ groups \in Seq(Group)
    BY <1>1, LenProperties DEF TypeOK, WaitingInOrder
  <1>4. CASE k \in 1 .. Taken
    <2>1. CASE \E m \in 1 .. Len(Emitted) : Emitted[m].req_id = accepted[k]
      BY <1>2, <2>1
    <2>2. CASE \E g \in 1 .. Len(groups) : \E i \in 1 .. Len(groups[g]) : groups[g][i] = accepted[k]
      <3>1. PICK g \in DOMAIN groups : \E i \in 1 .. Len(groups[g]) : groups[g][i] = accepted[k]
        BY <1>3, <2>2
      <3>2. DOMAIN groups[g] = 1 .. Len(groups[g])
        BY <1>3, <3>1, GroupElement
      <3>3. accepted[k] \in Range(groups[g])
        BY <3>1, <3>2 DEF Range
      <3> QED BY <3>1, <3>3 DEF Grouped
    <2> QED BY <1>1, <1>4, <2>1, <2>2 DEF Accounted
  <1>5. CASE k - Taken \in 1 .. Len(batch)
    <2>1. batch[k - Taken] = accepted[Taken + (k - Taken)] /\ Taken + (k - Taken) = k
      BY <1>1, <1>2, <1>3, <1>5 DEF WaitingInOrder
    <2> QED BY <1>3, <1>5, <2>1 DEF Range
  <1>6. CASE k - Taken - Len(batch) \in 1 .. Len(workQ)
    <2> DEFINE i == k - Taken - Len(batch)
    <2>1. workQ[i] = accepted[Taken + Len(batch) + i] /\ Taken + Len(batch) + i = k
      BY <1>1, <1>2, <1>3, <1>6 DEF WaitingInOrder
    <2> QED BY <1>3, <1>6, <2>1 DEF Range
  <1>7. Len(accepted) = Taken + Len(batch) + Len(workQ)
    BY <1>2, <1>3 DEF Taken
  <1> QED BY <1>2, <1>3, <1>4, <1>5, <1>6, <1>7

(* No request that was answered "ok" disappears.                           *)
THEOREM QueueNothingLost == Spec => []NothingLost
  BY OrderLosesNothing, OrderInvAlways, PTL

-----------------------------------------------------------------------------
(* With a worker that may end at any step.                                 *)

(* When the worker is gone, what it has sent is what is left: the channel  *)
(* of results outlives it.                                                 *)
Surfaced == delivered \o doneQ

Gone ==
  /\ pc = "gone" /\ workQ = <<>> /\ batch = <<>> /\ groups = <<>> /\ out = <<>>
  /\ TypeOK /\ Sound(Surfaced)

CrashInv == OrderInv \/ Gone

LEMMA SurfacedKept ==
  ASSUME Sound(Surfaced), Surfaced' = Surfaced, accepted' = accepted
  PROVE  Sound(Surfaced)'
  BY DEF Sound, Once, InPairOrder

LEMMA CrashInvStep == CrashInv /\ [CrashNext]_vars => CrashInv'
  <1> SUFFICES ASSUME CrashInv, [CrashNext]_vars PROVE CrashInv'
    OBVIOUS
  <1>1. CASE OrderInv
    <2>1. pc # "gone"
      BY <1>1 DEF OrderInv, WorkerInv, WorkerShape
    <2>2. CASE [Next]_vars
      BY <1>1, <2>2, OrderInvStep DEF CrashInv
    <2>3. CASE WorkerGone
      <3>1. TypeOK /\ Sound(Surfaced)
        BY <1>1, OrderSurfaces DEF Surfaced
      <3>2. TypeOK'
        <4>1. /\ <<>> \in Seq(Requests) /\ <<>> \in Seq(Group) /\ <<>> \in Seq(Completed)
              /\ "gone" \in WorkerStates
          BY EmptySeq DEF WorkerStates
        <4> QED BY <2>3, <3>1, <4>1 DEF WorkerGone, TypeOK
      <3>3. Sound(Surfaced)'
        BY <2>3, <3>1, SurfacedKept DEF WorkerGone, Surfaced
      <3> QED BY <2>3, <3>2, <3>3 DEF CrashInv, Gone, WorkerGone
    <2> QED BY <2>1, <2>2, <2>3 DEF CrashNext, EnqueueClosed
  <1>2. CASE Gone
    <2>1. /\ pc = "gone" /\ workQ = <<>> /\ batch = <<>> /\ groups = <<>> /\ out = <<>>
          /\ TypeOK /\ Sound(Surfaced)
      BY <1>2 DEF Gone
    <2>2. CASE UNCHANGED vars
      <3>1. Sound(Surfaced)'
        BY <2>1, <2>2, SurfacedKept DEF Surfaced, vars
      <3> QED BY <2>1, <2>2, <3>1 DEF CrashInv, Gone, TypeOK, vars, workerVars
    <2>3. ASSUME NEW r \in Requests, EnqueueClosed(r)
          PROVE  CrashInv'
      <3>1. Sound(Surfaced)'
        BY <2>1, <2>3, SurfacedKept DEF Surfaced, EnqueueClosed
      <3> QED BY <2>1, <2>3, <3>1 DEF CrashInv, Gone, EnqueueClosed, TypeOK, workerVars
    <2>4. CASE Poll
      <3> DEFINE n == AtMost(Len(doneQ), POLL_MAX_RECORDS)
                 first == SubSeq(doneQ, 1, n)
                 rest == SubSeq(doneQ, n + 1, Len(doneQ))
      <3>1. delivered \in Seq(Completed) /\ doneQ \in Seq(Completed)
        BY <2>1 DEF TypeOK
      <3>2. n \in 0 .. Len(doneQ)
        BY <3>1, LenProperties, QueueAssumption DEF AtMost
      <3> HIDE DEF n
      <3>3. first \in Seq(Completed) /\ rest \in Seq(Completed) /\ first \o rest = doneQ
        BY <3>1, <3>2, CutAndJoin
      <3>4. delivered' = delivered \o first /\ doneQ' = rest
            /\ UNCHANGED <<workQ, pc, batch, groups, out, issued, accepted>>
        BY <2>4 DEF Poll, n, workerVars
      <3> HIDE DEF first, rest
      <3>5. /\ delivered \o first \in Seq(Completed)
            /\ (delivered \o first) \o rest = delivered \o (first \o rest)
        <4>1. /\ delivered \in Seq(Completed) /\ first \in Seq(Completed)
              /\ rest \in Seq(Completed)
          BY <3>1, <3>3
        <4>2. delivered \o first \in Seq(Completed)
          BY <4>1, ResultsJoined, Zenon
        <4>3. (delivered \o first) \o rest = delivered \o (first \o rest)
          BY <4>1, ResultsAssoc, Zenon
        <4> QED BY <4>2, <4>3
      <3>6. Surfaced' = Surfaced
        BY <3>3, <3>4, <3>5 DEF Surfaced
      <3>7. Sound(Surfaced)'
        BY <2>1, <3>4, <3>6, SurfacedKept
      <3>8. TypeOK'
        BY <2>1, <3>3, <3>4, <3>5 DEF TypeOK
      <3> QED BY <2>1, <3>4, <3>7, <3>8 DEF CrashInv, Gone
    <2> QED
      BY <2>1, <2>2, <2>3, <2>4
      DEF CrashNext, Next, Client, Worker, Translate, WorkerGone, EnqueueOk, EnqueueFull,
          Recv, Coalesce, CloseBatch, GroupOne, TranslateGroup, Send
  <1> QED BY <1>1, <1>2 DEF CrashInv

LEMMA CrashInvAlways == CrashSpec => []CrashInv
  <1>1. Init => CrashInv
    BY OrderInvInit DEF CrashInv
  <1> QED BY <1>1, CrashInvStep, PTL DEF CrashSpec

(* The channels and the worker keep their types when it ends.              *)
THEOREM CrashTypes == CrashSpec => []TypeOK
  <1>1. CrashInv => TypeOK
    BY OrderSurfaces DEF CrashInv, Gone
  <1> QED BY <1>1, CrashInvAlways, PTL

(* A worker that ends makes no result come twice: what it has sent is      *)
(* delivered once, and what it held never comes.                           *)
THEOREM CrashAtMostOnce == CrashSpec => []AtMostOnce
  <1>1. CrashInv => AtMostOnce
    <2>1. Gone => AtMostOnce
      BY SoundIsDelivered DEF Gone, Surfaced, TypeOK
    <2> QED BY <2>1, OrderSurfaces DEF CrashInv
  <1> QED BY <1>1, CrashInvAlways, PTL

(* While there is a worker, nothing that was answered "ok" disappears.     *)
THEOREM CrashNothingLost == CrashSpec => []NothingLost
  <1>1. CrashInv => NothingLost
    BY OrderLosesNothing DEF CrashInv, Gone, NothingLost
  <1> QED BY <1>1, CrashInvAlways, PTL

(* Wherever the worker ends, no result has overtaken an earlier one of its *)
(* pair: what is lost of a pair is the end of its channel.                 *)
THEOREM CrashPairFifo == CrashSpec => []PairFifo
  <1>1. CrashInv => PairFifo
    <2>1. Gone => PairFifo
      BY SoundIsDelivered DEF Gone, Surfaced, TypeOK
    <2> QED BY <2>1, OrderSurfaces DEF CrashInv
  <1> QED BY <1>1, CrashInvAlways, PTL
-----------------------------------------------------------------------------
(* Induction, over naturals and over sequences, for a set that is closed   *)
(* under the step.                                                         *)

LEMMA NatInd ==
  ASSUME NEW S \in SUBSET Nat, 0 \in S, \A n \in S : n + 1 \in S
  PROVE  S = Nat
  <1> SUFFICES ASSUME Nat \ S # {} PROVE FALSE
    OBVIOUS
  <1> DEFINE R == OpToRel(<, Nat)
             T == Nat \ S
  <1>1. PICK x \in T : \A y \in T : ~(<<y, x>> \in R)
    <2>1. IsWellFoundedOn(R, Nat)
      BY NatLessThanWellFounded
    <2> QED BY <2>1, WFMin
  <1>2. \A y \in T : ~(y < x)
    BY <1>1 DEF OpToRel
  <1> HIDE DEF R
  <1>3. x # 0 /\ x - 1 \in Nat /\ x - 1 < x
    BY <1>1
  <1>4. x - 1 \in S
    BY <1>2, <1>3
  <1>5. (x - 1) + 1 = x
    BY <1>1
  <1>6. x \in S
    BY <1>4, <1>5
  <1> QED BY <1>1, <1>6

(* A sequence is what it is without its last element, and that element.    *)
LEMMA LastAppended ==
  ASSUME NEW A, NEW n \in Nat, NEW s \in Seq(A), Len(s) = n + 1
  PROVE  /\ SubSeq(s, 1, n) \in Seq(A) /\ Len(SubSeq(s, 1, n)) = n
         /\ s[n + 1] \in A /\ Append(SubSeq(s, 1, n), s[n + 1]) = s
  <1> DEFINE f == SubSeq(s, 1, n)
             e == s[n + 1]
             a == Append(f, e)
  <1>1. f \in Seq(A) /\ Len(f) = n /\ \A i \in 1 .. n : f[i] = s[i]
    BY SubSeqProperties, ElementOfSeq
  <1>2. e \in A
    BY ElementOfSeq
  <1> HIDE DEF f, e
  <1>3. /\ a \in Seq(A) /\ Len(a) = n + 1
        /\ \A i \in 1 .. n : a[i] = f[i]
        /\ a[n + 1] = e
    BY <1>1, <1>2, AppendProperties
  <1> HIDE DEF a
  <1>4. \A i \in 1 .. Len(a) : a[i] = s[i]
    BY <1>1, <1>3 DEF e
  <1>5. a = s
    BY <1>3, <1>4, SeqEqual
  <1> QED BY <1>1, <1>2, <1>5 DEF a, e, f

LEMMA SeqInd ==
  ASSUME NEW A, NEW T \in SUBSET Seq(A), <<>> \in T,
         \A s \in T, a \in A : Append(s, a) \in T
  PROVE  T = Seq(A)
  <1> DEFINE S == {n \in Nat : \A s \in Seq(A) : Len(s) = n => s \in T}
  <1>1. 0 \in S
    BY EmptySeq
  <1>2. ASSUME NEW n \in S PROVE n + 1 \in S
    <2> SUFFICES ASSUME NEW s \in Seq(A), Len(s) = n + 1 PROVE s \in T
      BY <1>2
    <2> DEFINE f == SubSeq(s, 1, n)
    <2>1. n \in Nat
      BY <1>2
    <2>2. f \in Seq(A) /\ Len(f) = n /\ s[n + 1] \in A /\ Append(f, s[n + 1]) = s
      BY <2>1, LastAppended, Zenon
    <2> HIDE DEF f
    <2>3. f \in T
      BY <1>2, <2>2
    <2> QED BY <2>2, <2>3
  <1>3. S = Nat
    BY <1>1, <1>2, NatInd
  <1>4. \A s \in Seq(A) : Len(s) \in S
    BY <1>3, LenProperties
  <1> QED BY <1>4

-----------------------------------------------------------------------------
(* ForPair.                                                                *)

Keeps(s, p, n, f) ==
  f = [i \in 0 .. n |->
         IF i = 0 THEN <<>>
         ELSE IF PairOf[s[i]] = p THEN Append(f[i - 1], s[i]) ELSE f[i - 1]]

LEMMA KeepsExists ==
  ASSUME NEW s, NEW p
  PROVE  \A n \in Nat : \E f : Keeps(s, p, n, f)
  <1> DEFINE S == {n \in Nat : \E f : Keeps(s, p, n, f)}
  <1>1. 0 \in S
    <2>1. Keeps(s, p, 0, [i \in 0 .. 0 |-> <<>>])
      BY DEF Keeps
    <2> QED BY <2>1
  <1>2. ASSUME NEW n \in S PROVE n + 1 \in S
    <2>1. PICK f : Keeps(s, p, n, f)
      BY <1>2
    <2> DEFINE last == IF PairOf[s[n + 1]] = p THEN Append(f[n], s[n + 1]) ELSE f[n]
               g == [i \in 0 .. n + 1 |-> IF i = n + 1 THEN last ELSE f[i]]
    <2>2. n \in Nat
      BY <1>2
    <2>3. \A i \in 0 .. n : f[i] = IF i = 0 THEN <<>>
                              ELSE IF PairOf[s[i]] = p THEN Append(f[i - 1], s[i]) ELSE f[i - 1]
      BY <2>1 DEF Keeps
    <2> HIDE DEF last
    <2>4. g[n + 1] = last /\ \A i \in 0 .. n : g[i] = f[i]
      BY <2>2
    <2>5. \A i \in 0 .. n + 1 :
            g[i] = IF i = 0 THEN <<>>
                   ELSE IF PairOf[s[i]] = p THEN Append(g[i - 1], s[i]) ELSE g[i - 1]
      <3> SUFFICES ASSUME NEW i \in 0 .. n + 1
                   PROVE  g[i] = IF i = 0 THEN <<>>
                          ELSE IF PairOf[s[i]] = p THEN Append(g[i - 1], s[i]) ELSE g[i - 1]
        OBVIOUS
      <3> HIDE DEF g
      <3>1. CASE i = n + 1
        <4>1. n + 1 # 0 /\ (n + 1) - 1 = n /\ g[n] = f[n]
          BY <2>2, <2>4
        <4> QED BY <2>4, <3>1, <4>1 DEF last
      <3>2. CASE i \in 0 .. n
        <4>1. i # 0 => i - 1 \in 0 .. n
          BY <2>2, <3>2
        <4> QED BY <2>3, <2>4, <3>2, <4>1
      <3> QED BY <2>2, <3>1, <3>2
    <2>6. Keeps(s, p, n + 1, g)
      <3>1. g = [i \in 0 .. n + 1 |-> g[i]]
        OBVIOUS
      <3> HIDE DEF g
      <3>2. [i \in 0 .. n + 1 |-> g[i]]
            = [i \in 0 .. n + 1 |->
                 IF i = 0 THEN <<>>
                 ELSE IF PairOf[s[i]] = p THEN Append(g[i - 1], s[i]) ELSE g[i - 1]]
        BY <2>5
      <3> QED BY <3>1, <3>2 DEF Keeps
    <2> QED BY <2>2, <2>6
  <1>3. S = Nat
    BY <1>1, <1>2, NatInd
  <1> QED BY <1>3

LEMMA KeepsAgree ==
  ASSUME NEW s, NEW t, NEW p, NEW n \in Nat, NEW m \in Nat, NEW f, NEW g,
         Keeps(s, p, n, f), Keeps(t, p, m, g), n <= m,
         \A i \in 1 .. n : s[i] = t[i]
  PROVE  f[n] = g[n]
  <1> DEFINE S == {i \in Nat : i <= n => f[i] = g[i]}
  <1>0. /\ \A i \in 0 .. n : f[i] = IF i = 0 THEN <<>>
                              ELSE IF PairOf[s[i]] = p THEN Append(f[i - 1], s[i]) ELSE f[i - 1]
        /\ \A i \in 0 .. m : g[i] = IF i = 0 THEN <<>>
                              ELSE IF PairOf[t[i]] = p THEN Append(g[i - 1], t[i]) ELSE g[i - 1]
    BY DEF Keeps
  <1>1. 0 \in S
    BY <1>0
  <1>2. ASSUME NEW i \in S PROVE i + 1 \in S
    <2> SUFFICES ASSUME i + 1 <= n PROVE f[i + 1] = g[i + 1]
      BY <1>2
    <2>1. /\ i + 1 \in 0 .. n /\ i + 1 \in 0 .. m /\ i + 1 # 0 /\ (i + 1) - 1 = i
          /\ f[i] = g[i] /\ i + 1 \in 1 .. n
      BY <1>2
    <2>2. s[i + 1] = t[i + 1]
      BY <2>1
    <2> QED BY <1>0, <2>1, <2>2
  <1>3. S = Nat
    BY <1>1, <1>2, NatInd
  <1> QED BY <1>3

LEMMA ForPairIs ==
  ASSUME NEW s \in Seq(Requests), NEW p
  PROVE  \E f : Keeps(s, p, Len(s), f) /\ ForPair(s, p) = f[Len(s)]
  <1>1. Len(s) \in Nat
    BY LenProperties
  <1> DEFINE n == Len(s)
             kept == CHOOSE f : Keeps(s, p, n, f)
  <1>2. Keeps(s, p, n, kept)
    BY <1>1, KeepsExists
  <1>3. ForPair(s, p) = kept[n]
    BY DEF ForPair, Keeps
  <1> QED BY <1>2, <1>3

(* What ForPair is of the empty sequence, and of one more request.         *)
LEMMA ForPairSteps ==
  ASSUME NEW p
  PROVE  /\ ForPair(<<>>, p) = <<>>
         /\ \A s \in Seq(Requests), r \in Requests :
              ForPair(Append(s, r), p) =
                IF PairOf[r] = p THEN Append(ForPair(s, p), r) ELSE ForPair(s, p)
  <1>1. ForPair(<<>>, p) = <<>>
    <2>1. <<>> \in Seq(Requests) /\ Len(<<>>) = 0
      BY EmptySeq
    <2>2. PICK f : Keeps(<<>>, p, 0, f) /\ ForPair(<<>>, p) = f[0]
      BY <2>1, ForPairIs
    <2> QED BY <2>2 DEF Keeps
  <1>2. ASSUME NEW s \in Seq(Requests), NEW r \in Requests
        PROVE  ForPair(Append(s, r), p) =
                 IF PairOf[r] = p THEN Append(ForPair(s, p), r) ELSE ForPair(s, p)
    <2> DEFINE n == Len(s)
               t == Append(s, r)
    <2>1. /\ n \in Nat /\ t \in Seq(Requests) /\ Len(t) = n + 1
          /\ t[n + 1] = r /\ \A i \in 1 .. n : s[i] = t[i]
      BY AppendProperties, LenProperties
    <2> HIDE DEF t
    <2>2. PICK f : Keeps(s, p, n, f) /\ ForPair(s, p) = f[n]
      BY ForPairIs
    <2>3. PICK g : Keeps(t, p, n + 1, g) /\ ForPair(t, p) = g[n + 1]
      BY <2>1, ForPairIs
    <2> HIDE DEF n
    <2>4. f[n] = g[n]
      <3>1. n + 1 \in Nat /\ n <= n + 1
        BY <2>1
      <3> QED BY <2>1, <2>2, <2>3, <3>1, KeepsAgree
    <2>5. n + 1 \in 0 .. n + 1 /\ n + 1 # 0 /\ (n + 1) - 1 = n
      BY <2>1
    <2>6. g[n + 1] = IF PairOf[t[n + 1]] = p THEN Append(g[n], t[n + 1]) ELSE g[n]
      BY <2>3, <2>5 DEF Keeps
    <2>7. ForPair(t, p) = IF PairOf[r] = p THEN Append(ForPair(s, p), r) ELSE ForPair(s, p)
      BY <2>1, <2>2, <2>3, <2>4, <2>6
    <2> QED BY <2>7 DEF t
  <1> QED BY <1>1, <1>2

LEMMA ForPairType ==
  ASSUME NEW p
  PROVE  \A s \in Seq(Requests) :
           ForPair(s, p) \in Seq(Requests) /\ Len(ForPair(s, p)) <= Len(s)
  <1> DEFINE T == {s \in Seq(Requests) :
                     ForPair(s, p) \in Seq(Requests) /\ Len(ForPair(s, p)) <= Len(s)}
  <1>1. <<>> \in T
    <2>1. <<>> \in Seq(Requests) /\ Len(<<>>) = 0 /\ ForPair(<<>>, p) = <<>>
      BY ForPairSteps, EmptySeq
    <2>2. ForPair(<<>>, p) \in Seq(Requests) /\ Len(ForPair(<<>>, p)) <= Len(<<>>)
      <3>1. 0 <= 0
        OBVIOUS
      <3> QED BY <2>1, <3>1, Zenon
    <2> QED BY <2>1, <2>2, Zenon
  <1>2. ASSUME NEW s \in T, NEW r \in Requests PROVE Append(s, r) \in T
    <2> DEFINE k == ForPair(s, p)
    <2>1. s \in Seq(Requests) /\ k \in Seq(Requests) /\ Len(k) <= Len(s)
      BY <1>2
    <2>2. ForPair(Append(s, r), p) = IF PairOf[r] = p THEN Append(k, r) ELSE k
      BY <2>1, ForPairSteps
    <2> HIDE DEF k
    <2>3. /\ Append(s, r) \in Seq(Requests) /\ Len(Append(s, r)) = Len(s) + 1
          /\ Append(k, r) \in Seq(Requests) /\ Len(Append(k, r)) = Len(k) + 1
          /\ Len(s) \in Nat /\ Len(k) \in Nat
      BY <2>1, AppendProperties, LenProperties
    <2> DEFINE t == Append(s, r)
    <2>4. t \in Seq(Requests) /\ Len(t) = Len(s) + 1
      BY <2>3
    <2>5. ForPair(t, p) \in Seq(Requests) /\ Len(ForPair(t, p)) <= Len(t)
      <3> HIDE DEF t
      <3>1. CASE PairOf[r] = p
        <4>1. ForPair(t, p) = Append(k, r)
          BY <2>2, <3>1 DEF t
        <4> QED BY <2>1, <2>3, <2>4, <4>1
      <3>2. CASE PairOf[r] # p
        <4>1. ForPair(t, p) = k
          BY <2>2, <3>2 DEF t
        <4> QED BY <2>1, <2>3, <2>4, <4>1
      <3> QED BY <3>1, <3>2
    <2> QED BY <2>4, <2>5, Zenon
  <1> HIDE DEF T
  <1>3. T = Seq(Requests)
    <2>1. T \in SUBSET Seq(Requests)
      BY DEF T
    <2> QED BY <1>1, <1>2, <2>1, SeqInd
  <1> QED BY <1>3 DEF T

(* Of two sequences after one another: what it is of each.                 *)
LEMMA ForPairConcat ==
  ASSUME NEW p, NEW s \in Seq(Requests)
  PROVE  \A t \in Seq(Requests) : ForPair(s \o t, p) = ForPair(s, p) \o ForPair(t, p)
  <1> DEFINE k == ForPair(s, p)
             T == {t \in Seq(Requests) : ForPair(s \o t, p) = k \o ForPair(t, p)}
  <1>0. k \in Seq(Requests)
    BY ForPairType
  <1>1. <<>> \in T
    <2>1. s \o <<>> = s /\ k \o <<>> = k /\ <<>> \in Seq(Requests)
      BY <1>0, ConcatEmptySeq, EmptySeq
    <2> QED BY <2>1, ForPairSteps
  <1>2. ASSUME NEW t \in T, NEW r \in Requests PROVE Append(t, r) \in T
    <2> DEFINE st == s \o t
               kt == ForPair(t, p)
               tr == Append(t, r)
    <2>1. t \in Seq(Requests) /\ ForPair(st, p) = k \o kt /\ kt \in Seq(Requests)
      BY <1>2, ForPairType
    <2>2. st \in Seq(Requests) /\ tr \in Seq(Requests)
      BY <2>1, ConcatProperties, AppendProperties
    <2>3. \A x, y \in Seq(Requests) : x \o Append(y, r) = Append(x \o y, r)
      <3> SUFFICES ASSUME NEW x \in Seq(Requests), NEW y \in Seq(Requests)
                   PROVE  x \o Append(y, r) = Append(x \o y, r)
        OBVIOUS
      <3> DEFINE one == <<r>>
                 xy == x \o y
      <3>1. one \in Seq(Requests) /\ xy \in Seq(Requests)
        BY ConcatProperties
      <3>2. Append(y, r) = y \o one /\ Append(xy, r) = xy \o one
        BY <3>1, AppendIsConcat
      <3> HIDE DEF one
      <3> HIDE DEF xy
      <3>3. (x \o y) \o one = x \o (y \o one)
        BY <3>1, Assoc, Zenon
      <3> QED BY <3>2, <3>3 DEF xy
    <2>4. s \o tr = Append(st, r)
      BY <2>1, <2>3
    <2>5. ForPair(s \o tr, p) = IF PairOf[r] = p THEN Append(k \o kt, r) ELSE k \o kt
      <3>1. ForPair(Append(st, r), p) =
              IF PairOf[r] = p THEN Append(ForPair(st, p), r) ELSE ForPair(st, p)
        BY <2>2, ForPairSteps, Zenon
      <3> HIDE DEF st, tr, k, kt
      <3> QED BY <2>1, <2>4, <3>1, Zenon
    <2>6. ForPair(tr, p) = IF PairOf[r] = p THEN Append(kt, r) ELSE kt
      BY <2>1, ForPairSteps
    <2>7. k \o Append(kt, r) = Append(k \o kt, r)
      BY <1>0, <2>1, <2>3
    <2> HIDE DEF k, kt, tr
    <2>8. ForPair(s \o tr, p) = k \o ForPair(tr, p)
      BY <2>5, <2>6, <2>7
    <2> USE DEF k, kt, tr
    <2> QED BY <2>2, <2>8
  <1> HIDE DEF T
  <1>3. T = Seq(Requests)
    <2>1. T \in SUBSET Seq(Requests)
      BY DEF T
    <2> QED BY <1>1, <1>2, <2>1, SeqInd
  <1> QED BY <1>3 DEF T

(* Of requests that are all of one pair: all for that pair, none for       *)
(* another.                                                                *)
LEMMA ForPairOfOne ==
  ASSUME NEW p, NEW q
  PROVE  \A s \in Seq(Requests) :
           (\A i \in 1 .. Len(s) : PairOf[s[i]] = q)
             => ForPair(s, p) = IF p = q THEN s ELSE <<>>
  <1> DEFINE All(s) == \A i \in 1 .. Len(s) : PairOf[s[i]] = q
             T == {s \in Seq(Requests) : All(s) => ForPair(s, p) = IF p = q THEN s ELSE <<>>}
  <1>1. <<>> \in T
    BY ForPairSteps, EmptySeq
  <1>2. ASSUME NEW s \in T, NEW r \in Requests PROVE Append(s, r) \in T
    <2>1. /\ s \in Seq(Requests) /\ Append(s, r) \in Seq(Requests) /\ Len(s) \in Nat
          /\ Len(Append(s, r)) = Len(s) + 1 /\ Append(s, r)[Len(s) + 1] = r
          /\ \A i \in 1 .. Len(s) : Append(s, r)[i] = s[i]
      BY <1>2, AppendProperties, LenProperties
    <2> SUFFICES ASSUME All(Append(s, r))
                 PROVE  ForPair(Append(s, r), p) = IF p = q THEN Append(s, r) ELSE <<>>
      BY <2>1
    <2> DEFINE t == Append(s, r)
    <2> HIDE DEF t
    <2>2. /\ Len(t) = Len(s) + 1 /\ t[Len(s) + 1] = r
          /\ (\A i \in 1 .. Len(s) : t[i] = s[i])
          /\ \A i \in 1 .. Len(t) : PairOf[t[i]] = q
      BY <2>1 DEF t
    <2>3. All(s) /\ PairOf[r] = q
      BY <2>1, <2>2
    <2> HIDE DEF All
    <2>4. ForPair(s, p) = IF p = q THEN s ELSE <<>>
      BY <1>2, <2>3
    <2>5. ForPair(Append(s, r), p) =
            IF PairOf[r] = p THEN Append(ForPair(s, p), r) ELSE ForPair(s, p)
      BY <2>1, ForPairSteps, Zenon
    <2>6. CASE p = q
      BY <2>3, <2>4, <2>5, <2>6, Zenon
    <2>7. CASE p # q
      BY <2>3, <2>4, <2>5, <2>7, Zenon
    <2> QED BY <2>6, <2>7
  <1> HIDE DEF T
  <1>3. T = Seq(Requests)
    <2>1. T \in SUBSET Seq(Requests)
      BY DEF T
    <2> QED BY <1>1, <1>2, <2>1, SeqInd
  <1> QED BY <1>3 DEF T

-----------------------------------------------------------------------------
(* The queues implement the channels of PairChannels.                      *)

LEMMA IdsAre ==
  /\ \A e \in Seq(Completed) :
       /\ Ids(e) \in Seq(Requests) /\ Len(Ids(e)) = Len(e)
       /\ \A i \in 1 .. Len(e) : Ids(e)[i] = e[i].req_id
  /\ \A e, f \in Seq(Completed) : Ids(e \o f) = Ids(e) \o Ids(f)
  /\ Ids(<<>>) = <<>>
  <1>1. ASSUME NEW e \in Seq(Completed)
        PROVE  /\ Ids(e) \in Seq(Requests) /\ Len(Ids(e)) = Len(e)
               /\ \A i \in 1 .. Len(e) : Ids(e)[i] = e[i].req_id
    <2>0. Len(e) \in Nat /\ \A i \in 1 .. Len(e) : e[i] \in Completed
      BY LenProperties, ElementOfSeq
    <2>1. Len(e) \in Nat /\ \A i \in 1 .. Len(e) : e[i].req_id \in Requests
      BY <2>0 DEF Completed
    <2> QED BY <2>1, IsASeq DEF Ids
  <1>2. ASSUME NEW e \in Seq(Completed), NEW f \in Seq(Completed)
        PROVE  Ids(e \o f) = Ids(e) \o Ids(f)
    <2> DEFINE ef == e \o f
               a == Ids(e)
               b == Ids(f)
               ab == a \o b
    <2>1. /\ ef \in Seq(Completed) /\ Len(ef) = Len(e) + Len(f)
          /\ Len(e) \in Nat /\ Len(f) \in Nat
          /\ \A i \in 1 .. Len(e) + Len(f) : ef[i] = IF i <= Len(e) THEN e[i] ELSE f[i - Len(e)]
      BY ConcatProperties, LenProperties
    <2>2. /\ a \in Seq(Requests) /\ Len(a) = Len(e) /\ \A i \in 1 .. Len(e) : a[i] = e[i].req_id
          /\ b \in Seq(Requests) /\ Len(b) = Len(f) /\ \A i \in 1 .. Len(f) : b[i] = f[i].req_id
      BY <1>1
    <2> HIDE DEF ef, a, b
    <2>3. /\ ab \in Seq(Requests) /\ Len(ab) = Len(e) + Len(f)
          /\ \A i \in 1 .. Len(e) + Len(f) : ab[i] = IF i <= Len(e) THEN a[i] ELSE b[i - Len(e)]
      <3>1. /\ ab \in Seq(Requests) /\ Len(ab) = Len(a) + Len(b)
            /\ \A i \in 1 .. Len(a) + Len(b) : ab[i] = IF i <= Len(a) THEN a[i] ELSE b[i - Len(a)]
        <4>1. a \in Seq(Requests) /\ b \in Seq(Requests)
          BY <2>2
        <4> QED BY <4>1, ConcatProperties, Zenon
      <3> HIDE DEF ab
      <3> QED BY <2>2, <3>1
    <2>4. /\ Ids(ef) \in Seq(Requests) /\ Len(Ids(ef)) = Len(ef)
          /\ \A i \in 1 .. Len(ef) : Ids(ef)[i] = ef[i].req_id
      BY <1>1, <2>1
    <2> HIDE DEF ab
    <2>5. \A i \in 1 .. Len(e) + Len(f) : Ids(ef)[i] = ab[i]
      <3> SUFFICES ASSUME NEW i \in 1 .. Len(e) + Len(f) PROVE Ids(ef)[i] = ab[i]
        OBVIOUS
      <3>1. CASE i <= Len(e)
        <4>1. i \in 1 .. Len(e)
          BY <2>1, <3>1
        <4>2. Ids(ef)[i] = ef[i].req_id
          BY <2>1, <2>4
        <4>3. ef[i] = e[i] /\ ab[i] = a[i] /\ a[i] = e[i].req_id
          BY <2>1, <2>2, <2>3, <3>1, <4>1
        <4> QED BY <4>2, <4>3
      <3>2. CASE i > Len(e)
        <4>1. i - Len(e) \in 1 .. Len(f) /\ ~(i <= Len(e))
          BY <2>1, <3>2
        <4>2. Ids(ef)[i] = ef[i].req_id
          BY <2>1, <2>4
        <4>3. ef[i] = f[i - Len(e)] /\ ab[i] = b[i - Len(e)]
          BY <2>1, <2>3, <4>1
        <4>4. b[i - Len(e)] = f[i - Len(e)].req_id
          BY <2>2, <4>1
        <4> QED BY <4>2, <4>3, <4>4
      <3> QED BY <2>1, <3>1, <3>2
    <2>6. Ids(ef) = ab
      <3>1. Len(Ids(ef)) = Len(ab) /\ Len(ab) = Len(e) + Len(f)
        BY <2>1, <2>3, <2>4
      <3> QED BY <2>3, <2>4, <2>5, <3>1, SeqEqual
    <2> QED BY <2>6 DEF ef, ab, a, b
  <1>3. Ids(<<>>) = <<>>
    <2>1. <<>> \in Seq(Completed) /\ Len(<<>>) = 0
      BY EmptySeq
    <2>2. Ids(<<>>) \in Seq(Requests) /\ Len(Ids(<<>>)) = 0
      BY <1>1, <2>1
    <2> QED BY <2>2, EmptySeq
  <1> QED BY <1>1, <1>2, <1>3

(* The group of a pair, if there is one.                                   *)
LEMMA GroupOfIs ==
  ASSUME NEW gs \in Seq(Group), OnePair(gs), NEW p
  PROVE  /\ (\A g \in 1 .. Len(gs) : PairOf[gs[g][1]] # p) => GroupOf(gs, p) = <<>>
         /\ \A g \in 1 .. Len(gs) : PairOf[gs[g][1]] = p => GroupOf(gs, p) = gs[g]
         /\ GroupOf(gs, p) \in Seq(Requests)
  <1> DEFINE of == {g \in DOMAIN gs : PairOf[gs[g][1]] = p}
             one == CHOOSE g \in of : TRUE
  <1>0. DOMAIN gs = 1 .. Len(gs)
    BY LenProperties
  <1>1. (\A g \in 1 .. Len(gs) : PairOf[gs[g][1]] # p) => GroupOf(gs, p) = <<>>
    BY <1>0 DEF GroupOf
  <1>2. ASSUME NEW g \in 1 .. Len(gs), PairOf[gs[g][1]] = p
        PROVE  GroupOf(gs, p) = gs[g]
    <2>1. g \in of
      BY <1>0, <1>2
    <2>2. one \in of
      BY <2>1
    <2>3. one = g
      <3> HIDE DEF one
      <3>1. one \in 1 .. Len(gs) /\ PairOf[gs[one][1]] = p
        BY <1>0, <2>2
      <3> QED BY <1>2, <3>1 DEF OnePair
    <2>4. GroupOf(gs, p) = gs[one]
      BY <2>1 DEF GroupOf
    <2> QED BY <2>3, <2>4
  <1>3. GroupOf(gs, p) \in Seq(Requests)
    <2>1. CASE \A g \in 1 .. Len(gs) : PairOf[gs[g][1]] # p
      BY <1>1, <2>1, EmptySeq
    <2>2. CASE \E g \in 1 .. Len(gs) : PairOf[gs[g][1]] = p
      <3>1. PICK g \in DOMAIN gs : PairOf[gs[g][1]] = p
        BY <1>0, <2>2
      <3>2. gs[g] \in Seq(Requests)
        BY GroupElement
      <3> QED BY <1>0, <1>2, <3>1, <3>2
    <2> QED BY <2>1, <2>2
  <1> QED BY <1>1, <1>2, <1>3

(* The group of a pair, found.                                             *)
LEMMA GroupFound ==
  ASSUME NEW gs \in Seq(Group), OnePair(gs), NEW p, NEW g \in 1 .. Len(gs),
         PairOf[gs[g][1]] = p
  PROVE  GroupOf(gs, p) = gs[g]
  BY GroupOfIs, Zenon

(* One turn of the partition gives the request to the group of its pair.   *)
LEMMA GroupOfPlace ==
  ASSUME NEW gs \in Seq(Group), OnePair(gs), NEW r \in Requests, NEW p,
         OnePair(Place(gs, r))
  PROVE  GroupOf(Place(gs, r), p) =
           IF PairOf[r] = p THEN Append(GroupOf(gs, p), r) ELSE GroupOf(gs, p)
  <1> DEFINE new == Place(gs, r)
  <1>1. CASE Opens(gs, new, r)
    <2>1. /\ new \in Seq(Group) /\ Len(new) = Len(gs) + 1 /\ Len(gs) \in Nat
          /\ \A k \in 1 .. Len(gs) : new[k] = gs[k] /\ PairOf[gs[k][1]] # PairOf[r]
          /\ Len(new[Len(gs) + 1]) = 1 /\ new[Len(gs) + 1][1] = r
      BY <1>1, LenProperties DEF Opens
    <2>2. OnePair(new) /\ Len(gs) + 1 \in 1 .. Len(new)
      BY <2>1
    <2> HIDE DEF new
    <2>3. CASE PairOf[r] = p
      <3>1. GroupOf(gs, p) = <<>>
        BY <2>1, <2>3, GroupOfIs
      <3>2. GroupOf(new, p) = new[Len(gs) + 1]
        BY <2>1, <2>2, <2>3, GroupOfIs
      <3>3. new[Len(gs) + 1] = <<r>>
        <4>1. Len(gs) + 1 \in DOMAIN new
          BY <2>1, <2>2, LenProperties
        <4>2. new[Len(gs) + 1] \in Seq(Requests)
          BY <2>1, <4>1, GroupElement
        <4> DEFINE last == new[Len(gs) + 1]
                   one == <<r>>
        <4>3. one \in Seq(Requests) /\ Len(one) = 1 /\ one[1] = r
          OBVIOUS
        <4> HIDE DEF last, one
        <4>4. last \in Seq(Requests) /\ Len(last) = 1 /\ last[1] = r
          BY <2>1, <4>2 DEF last
        <4>5. last = one
          BY <4>3, <4>4, SeqEqual
        <4> QED BY <4>5 DEF last, one
      <3>4. Append(<<>>, r) = <<r>>
        OBVIOUS
      <3> QED BY <2>3, <3>1, <3>2, <3>3, <3>4 DEF new
    <2>4. CASE PairOf[r] # p
      <3>1. CASE \A k \in 1 .. Len(gs) : PairOf[gs[k][1]] # p
        <4>1. \A k \in 1 .. Len(new) : PairOf[new[k][1]] # p
          BY <2>1, <2>4, <3>1
        <4>2. GroupOf(new, p) = <<>> /\ GroupOf(gs, p) = <<>>
          BY <2>1, <2>2, <3>1, <4>1, GroupOfIs
        <4> QED BY <2>4, <4>2 DEF new
      <3>2. CASE \E k \in 1 .. Len(gs) : PairOf[gs[k][1]] = p
        <4>1. PICK k \in 1 .. Len(gs) : PairOf[gs[k][1]] = p
          BY <3>2
        <4>2. k \in 1 .. Len(new) /\ new[k] = gs[k] /\ PairOf[new[k][1]] = p
          BY <2>1, <4>1
        <4>3. GroupOf(gs, p) = gs[k]
          BY <4>1, GroupFound, Zenon
        <4>4. new \in Seq(Group) /\ OnePair(new) /\ k \in 1 .. Len(new) /\ PairOf[new[k][1]] = p
          BY <2>1, <2>2, <4>2
        <4>5. GroupOf(new, p) = new[k]
          BY <4>4, GroupFound, Zenon
        <4> QED BY <2>4, <4>2, <4>3, <4>5, Zenon DEF new
      <3> QED BY <3>1, <3>2
    <2> QED BY <2>3, <2>4
  <1>2. ASSUME NEW g \in 1 .. Len(gs), Joins(gs, new, g, r)
        PROVE  GroupOf(new, p) = IF PairOf[r] = p THEN Append(GroupOf(gs, p), r) ELSE GroupOf(gs, p)
    <2>0. DOMAIN gs = 1 .. Len(gs) /\ Len(gs) \in Nat
      BY LenProperties
    <2>1. /\ new \in Seq(Group) /\ Len(new) = Len(gs)
          /\ \A k \in 1 .. Len(gs) : k # g => new[k] = gs[k]
          /\ PairOf[gs[g][1]] = PairOf[r]
          /\ Len(new[g]) = Len(gs[g]) + 1
          /\ \A i \in 1 .. Len(gs[g]) : new[g][i] = gs[g][i]
          /\ new[g][Len(gs[g]) + 1] = r
      BY <1>2 DEF Joins
    <2>2. OnePair(new) /\ DOMAIN new = 1 .. Len(gs)
      BY <2>1, LenProperties
    <2>3. gs[g] \in Seq(Requests) /\ new[g] \in Seq(Requests) /\ Len(gs[g]) \in Nat \ {0}
      BY <2>0, <2>1, <2>2, GroupElement
    <2> HIDE DEF new
    <2>4. new[g][1] = gs[g][1] /\ PairOf[new[g][1]] = PairOf[r]
      BY <2>1, <2>3
    <2>5. new[g] = Append(gs[g], r)
      <3> DEFINE a == Append(gs[g], r)
      <3>1. /\ a \in Seq(Requests) /\ Len(a) = Len(gs[g]) + 1
            /\ \A i \in 1 .. Len(gs[g]) : a[i] = gs[g][i]
            /\ a[Len(gs[g]) + 1] = r
        BY <2>3, AppendProperties
      <3> HIDE DEF a
      <3>2. \A i \in 1 .. Len(gs[g]) + 1 : a[i] = new[g][i]
        BY <2>1, <2>3, <3>1
      <3>3. a = new[g]
        BY <2>1, <2>3, <3>1, <3>2, SeqEqual
      <3> QED BY <3>3 DEF a
    <2>6. CASE PairOf[r] = p
      <3>1. GroupOf(new, p) = new[g] /\ GroupOf(gs, p) = gs[g]
        BY <2>1, <2>2, <2>4, <2>6, GroupOfIs
      <3> QED BY <2>5, <2>6, <3>1
    <2>7. CASE PairOf[r] # p
      <3>1. CASE \A k \in 1 .. Len(gs) : PairOf[gs[k][1]] # p
        <4>1. \A k \in 1 .. Len(new) : PairOf[new[k][1]] # p
          BY <2>1, <2>4, <2>7, <3>1
        <4>2. GroupOf(new, p) = <<>> /\ GroupOf(gs, p) = <<>>
          BY <2>1, <2>2, <3>1, <4>1, GroupOfIs
        <4> QED BY <2>7, <4>2
      <3>2. CASE \E k \in 1 .. Len(gs) : PairOf[gs[k][1]] = p
        <4>1. PICK k \in 1 .. Len(gs) : PairOf[gs[k][1]] = p
          BY <3>2
        <4>2. k # g /\ k \in 1 .. Len(new) /\ new[k] = gs[k] /\ PairOf[new[k][1]] = p
          BY <2>1, <2>7, <4>1
        <4>3. GroupOf(gs, p) = gs[k]
          BY <4>1, GroupFound, Zenon
        <4>4. new \in Seq(Group) /\ OnePair(new) /\ k \in 1 .. Len(new) /\ PairOf[new[k][1]] = p
          BY <2>1, <2>2, <4>2
        <4>5. GroupOf(new, p) = new[k]
          BY <4>4, GroupFound, Zenon
        <4> QED BY <2>7, <4>2, <4>3, <4>5, Zenon
      <3> QED BY <3>1, <3>2
    <2> QED BY <2>6, <2>7
  <1> QED BY <1>1, <1>2, PlaceEffect

(* The thunk call takes the first group out: it is all of its pair.        *)
LEMMA GroupOfRest ==
  ASSUME NEW gs \in Seq(Group), OnePair(gs), gs # <<>>, OnePair(Tail(gs)), NEW p
  PROVE  /\ gs[1] \in Seq(Requests)
         /\ GroupOf(gs, p) = ForPair(gs[1], p) \o GroupOf(Tail(gs), p)
  <1> DEFINE rest == Tail(gs)
             q == PairOf[gs[1][1]]
  <1>1. /\ Len(gs) \in Nat \ {0} /\ rest \in Seq(Group) /\ Len(rest) = Len(gs) - 1
        /\ DOMAIN gs = 1 .. Len(gs) /\ \A i \in 1 .. Len(gs) - 1 : rest[i] = gs[i + 1]
    BY NonEmptySeq
  <1>2. 1 \in DOMAIN gs /\ gs[1] \in Seq(Requests)
    <2>1. 1 \in DOMAIN gs
      BY <1>1
    <2> QED BY <2>1, GroupElement
  <1>3. \A i \in 1 .. Len(gs[1]) : PairOf[gs[1][i]] = q
    BY <1>1, <1>2 DEF OnePair
  <1>4. ForPair(gs[1], p) = IF p = q THEN gs[1] ELSE <<>>
    BY <1>2, <1>3, ForPairOfOne, Zenon
  <1>5. GroupOf(rest, p) \in Seq(Requests)
    BY <1>1, GroupOfIs
  <1>6. CASE p = q
    <2>1. GroupOf(gs, p) = gs[1]
      BY <1>1, <1>2, <1>6, GroupOfIs
    <2>2. \A k \in 1 .. Len(rest) : PairOf[rest[k][1]] # p
      <3> SUFFICES ASSUME NEW k \in 1 .. Len(rest), PairOf[rest[k][1]] = p PROVE FALSE
        OBVIOUS
      <3> HIDE DEF rest
      <3>1. k + 1 \in 1 .. Len(gs) /\ 1 \in 1 .. Len(gs) /\ k + 1 # 1 /\ rest[k] = gs[k + 1]
        BY <1>1
      <3> QED BY <1>6, <3>1 DEF OnePair
    <2>3. GroupOf(rest, p) = <<>>
      BY <1>1, <2>2, GroupOfIs
    <2>4. gs[1] \o <<>> = gs[1]
      BY <1>2, ConcatEmptySeq
    <2> QED BY <1>2, <1>4, <1>6, <2>1, <2>3, <2>4
  <1>7. CASE p # q
    <2>1. GroupOf(gs, p) = GroupOf(rest, p)
      <3>1. CASE \A k \in 1 .. Len(gs) : PairOf[gs[k][1]] # p
        <4>1. \A k \in 1 .. Len(rest) : PairOf[rest[k][1]] # p
          <5> SUFFICES ASSUME NEW k \in 1 .. Len(rest) PROVE PairOf[rest[k][1]] # p
            OBVIOUS
          <5> HIDE DEF rest
          <5>1. k + 1 \in 1 .. Len(gs) /\ rest[k] = gs[k + 1]
            BY <1>1
          <5> QED BY <3>1, <5>1
        <4>2. GroupOf(gs, p) = <<>>
          BY <3>1, GroupOfIs
        <4>3. GroupOf(rest, p) = <<>>
          BY <1>1, <4>1, GroupOfIs
        <4> QED BY <4>2, <4>3
      <3>2. CASE \E k \in 1 .. Len(gs) : PairOf[gs[k][1]] = p
        <4>1. PICK k \in 1 .. Len(gs) : PairOf[gs[k][1]] = p
          BY <3>2
        <4>2. k # 1 /\ k - 1 \in 1 .. Len(rest) /\ rest[k - 1] = gs[k]
          <5> HIDE DEF rest
          <5>1. k # 1
            BY <1>7, <4>1
          <5>2. k - 1 \in 1 .. Len(gs) - 1 /\ (k - 1) + 1 = k
            BY <1>1, <5>1
          <5>3. rest[k - 1] = gs[(k - 1) + 1]
            BY <1>1, <5>2
          <5> QED BY <1>1, <5>1, <5>2, <5>3
        <4>3. GroupOf(gs, p) = gs[k]
          BY <4>1, GroupOfIs
        <4>4. GroupOf(rest, p) = rest[k - 1]
          BY <1>1, <4>1, <4>2, GroupOfIs
        <4> QED BY <4>2, <4>3, <4>4
      <3> QED BY <3>1, <3>2
    <2>2. <<>> \o GroupOf(rest, p) = GroupOf(rest, p)
      BY <1>5, ConcatEmptySeq
    <2> QED BY <1>2, <1>4, <1>7, <2>1, <2>2
  <1> QED BY <1>6, <1>7

Results(p) == ForPair(Ids(doneQ \o out), p)

Waiting(p) == ForPair(batch \o workQ, p)

LEMMA ChannelTypes ==
  ASSUME CrashInv
  PROVE  /\ TypeOK /\ OnePair(groups)
         /\ \A p : /\ Results(p) \in Seq(Requests) /\ Waiting(p) \in Seq(Requests)
                   /\ GroupOf(groups, p) \in Seq(Requests)
                   /\ Pipeline(p) \in Seq(Requests)
                   /\ Pipeline(p) = Results(p) \o (GroupOf(groups, p) \o Waiting(p))
  <1>1. TypeOK /\ OnePair(groups)
    <2>1. CASE OrderInv
      BY <2>1 DEF OrderInv, WorkerInv, OnePairPerGroup
    <2>2. CASE Gone
      BY <2>2, EmptySeq DEF Gone, OnePair
    <2> QED BY <2>1, <2>2 DEF CrashInv
  <1>2. /\ doneQ \in Seq(Completed) /\ out \in Seq(Completed) /\ groups \in Seq(Group)
        /\ batch \in Seq(Requests) /\ workQ \in Seq(Requests)
    BY <1>1 DEF TypeOK
  <1> SUFFICES ASSUME NEW p
               PROVE  /\ Results(p) \in Seq(Requests) /\ Waiting(p) \in Seq(Requests)
                      /\ GroupOf(groups, p) \in Seq(Requests)
                      /\ Pipeline(p) \in Seq(Requests)
                      /\ Pipeline(p) = Results(p) \o (GroupOf(groups, p) \o Waiting(p))
    BY <1>1
  <1>3. doneQ \o out \in Seq(Completed) /\ batch \o workQ \in Seq(Requests)
    BY <1>2, ConcatProperties
  <1>4. Results(p) \in Seq(Requests) /\ Waiting(p) \in Seq(Requests)
    BY <1>3, IdsAre, ForPairType, Zenon DEF Results, Waiting
  <1>5. GroupOf(groups, p) \in Seq(Requests)
    BY <1>1, <1>2, GroupOfIs
  <1>6. Pipeline(p) = Results(p) \o (GroupOf(groups, p) \o Waiting(p))
    BY DEF Pipeline, Results, Waiting
  <1>7. Pipeline(p) \in Seq(Requests)
    <2>1. \A x, y \in Seq(Requests) : x \o y \in Seq(Requests)
      BY ConcatProperties
    <2> QED BY <1>4, <1>5, <1>6, <2>1, Zenon
  <1> QED BY <1>4, <1>5, <1>6, <1>7

-----------------------------------------------------------------------------
(* The steps.  The worker's own leave every channel as it is.              *)

Hidden ==
  /\ UNCHANGED <<issued, delivered>> /\ (pc' = "gone" <=> pc = "gone")
  /\ \A p : Pipeline(p)' = Pipeline(p)

LEMMA HiddenStutters ==
  ASSUME Hidden
  PROVE  UNCHANGED Channels!vars
  <1>1. [p \in Pairs |-> Pipeline(p)]' = [p \in Pairs |-> Pipeline(p)]
    BY DEF Hidden
  <1>2. [p \in Pairs |-> ForPair(Ids(delivered), p)]' = [p \in Pairs |-> ForPair(Ids(delivered), p)]
    BY DEF Hidden
  <1>3. (pc = "gone")' = (pc = "gone") /\ issued' = issued
    BY DEF Hidden
  <1> QED BY <1>1, <1>2, <1>3 DEF Channels!vars

LEMMA ForPairOfSingle ==
  ASSUME NEW p, NEW r \in Requests
  PROVE  ForPair(<<r>>, p) = IF PairOf[r] = p THEN <<r>> ELSE <<>>
  <1>1. <<>> \in Seq(Requests) /\ Append(<<>>, r) = <<r>>
    OBVIOUS
  <1>2. ForPair(Append(<<>>, r), p) =
          IF PairOf[r] = p THEN Append(ForPair(<<>>, p), r) ELSE ForPair(<<>>, p)
    BY <1>1, ForPairSteps, Zenon
  <1>3. ForPair(<<>>, p) = <<>>
    BY ForPairSteps
  <1> QED BY <1>1, <1>2, <1>3, Zenon

(* recv and try_recv move a request from the channel to the batch.         *)
LEMMA TakeHidden ==
  ASSUME CrashInv, Recv \/ Coalesce
  PROVE  Hidden
  <1>1. /\ workQ \in Seq(Requests) /\ batch \in Seq(Requests) /\ workQ # <<>>
    BY ChannelTypes DEF TypeOK, Recv, Coalesce
  <1>2. batch' = Append(batch, Head(workQ)) /\ workQ' = Tail(workQ)
    <2>1. CASE Recv
      <3>1. batch = <<>>
        BY <2>1 DEF Recv, CrashInv, Gone, OrderInv, WorkerInv, WorkerShape
      <3>2. <<Head(workQ)>> = Append(<<>>, Head(workQ))
        OBVIOUS
      <3> QED BY <2>1, <3>1, <3>2 DEF Recv
    <2>2. CASE Coalesce
      BY <2>2 DEF Coalesce
    <2> QED BY <2>1, <2>2
  <1>3. /\ Head(workQ) = workQ[1] /\ Head(workQ) \in Requests /\ Tail(workQ) \in Seq(Requests)
        /\ <<Head(workQ)>> \o Tail(workQ) = workQ
    BY <1>1, NonEmptySeq, FirstAndRest
  <1> DEFINE h == Head(workQ)
             t == Tail(workQ)
             one == <<h>>
  <1>4. Append(batch, h) = batch \o one /\ one \in Seq(Requests)
    <2>1. batch \in Seq(Requests) /\ h \in Requests
      BY <1>1, <1>3
    <2> HIDE DEF h
    <2> QED BY <2>1, JoinOne, Zenon
  <1> HIDE DEF h, t, one
  <1>5. h \in Requests /\ t \in Seq(Requests) /\ one \o t = workQ
        /\ batch' = Append(batch, h) /\ workQ' = t
    BY <1>2, <1>3 DEF h, t, one
  <1>6. (batch \o one) \o t = batch \o (one \o t)
    <2>1. batch \in Seq(Requests) /\ one \in Seq(Requests) /\ t \in Seq(Requests)
      BY <1>1, <1>4, <1>5
    <2> QED BY <2>1, Assoc, Zenon
  <1>7. batch' \o workQ' = batch \o workQ
    BY <1>4, <1>5, <1>6, Zenon
  <1>8. UNCHANGED <<groups, out, doneQ, issued, delivered>> /\ (pc' = "gone" <=> pc = "gone")
    BY DEF Recv, Coalesce
  <1>9. \A p : Pipeline(p)' = Pipeline(p)
    BY <1>7, <1>8, Zenon DEF Pipeline
  <1> QED BY <1>8, <1>9 DEF Hidden

(* One turn of the partition: from the batch to the group of the pair.     *)
LEMMA GroupHidden ==
  ASSUME CrashInv, CrashInv', GroupOne
  PROVE  Hidden
  <1>1. /\ workQ \in Seq(Requests) /\ batch \in Seq(Requests) /\ groups \in Seq(Group)
        /\ OnePair(groups)
    BY ChannelTypes DEF TypeOK
  <1>2. batch # <<>>
    BY DEF GroupOne, CrashInv, Gone, OrderInv, WorkerInv, WorkerShape
  <1>3. /\ batch' = Tail(batch) /\ groups' = Place(groups, Head(batch))
        /\ UNCHANGED <<workQ, out, doneQ, issued, delivered>> /\ (pc' = "gone" <=> pc = "gone")
    BY DEF GroupOne
  <1> DEFINE h == Head(batch)
             t == Tail(batch)
             one == <<h>>
  <1>4. h \in Requests /\ t \in Seq(Requests) /\ one \o t = batch
    BY <1>1, <1>2, NonEmptySeq, FirstAndRest
  <1>5. one \in Seq(Requests)
    BY <1>4
  <1> HIDE DEF h, t
  <1>6. OnePair(Place(groups, h))
    <2>1. pc' # "gone"
      BY DEF GroupOne
    <2>2. OnePair(groups')
      BY <2>1 DEF CrashInv, Gone, OrderInv, WorkerInv, OnePairPerGroup
    <2> QED BY <1>3, <2>2 DEF h
  <1> SUFFICES ASSUME NEW p PROVE Pipeline(p)' = Pipeline(p)
    BY <1>3 DEF Hidden
  <1> DEFINE R == Results(p)
             G == GroupOf(groups, p)
             o == ForPair(one, p)
             W == ForPair(t \o workQ, p)
  <1>7. o = IF PairOf[h] = p THEN one ELSE <<>>
    BY <1>4, ForPairOfSingle, Zenon
  <1>8. GroupOf(Place(groups, h), p) = IF PairOf[h] = p THEN Append(G, h) ELSE G
    BY <1>1, <1>4, <1>6, GroupOfPlace, Zenon
  <1>9. R \in Seq(Requests) /\ G \in Seq(Requests)
    BY ChannelTypes
  <1>10. /\ t \o workQ \in Seq(Requests) /\ o \in Seq(Requests) /\ W \in Seq(Requests)
    <2>1. t \in Seq(Requests) /\ workQ \in Seq(Requests)
      BY <1>1, <1>4
    <2>2. t \o workQ \in Seq(Requests)
      BY <2>1, Joined, Zenon
    <2> QED BY <1>5, <2>2, ForPairType, Zenon
  <1>11. Waiting(p) = o \o W
    <2>1. batch \o workQ = one \o (t \o workQ)
      <3>1. (one \o t) \o workQ = one \o (t \o workQ)
        <4>1. one \in Seq(Requests) /\ t \in Seq(Requests) /\ workQ \in Seq(Requests)
          BY <1>1, <1>4, <1>5
        <4> HIDE DEF one
        <4> QED BY <4>1, Assoc, Zenon
      <3> QED BY <1>4, <3>1
    <2>2. ForPair(one \o (t \o workQ), p) = o \o W
      BY <1>5, <1>10, ForPairConcat, Zenon
    <2> QED BY <2>1, <2>2, Zenon DEF Waiting
  <1>12. GroupOf(groups', p) = G \o o
    <2>1. Append(G, h) = G \o one /\ G \o <<>> = G
      <3>1. G \in Seq(Requests) /\ h \in Requests
        BY <1>4, <1>9
      <3> HIDE DEF G
      <3>2. Append(G, h) = G \o one
        BY <3>1, JoinOne, Zenon
      <3>3. G \o <<>> = G
        BY <3>1, JoinNone, Zenon
      <3> QED BY <3>2, <3>3
    <2> HIDE DEF G, o, one
    <2>2. groups' = Place(groups, h)
      BY <1>3 DEF h
    <2> QED BY <1>7, <1>8, <2>1, <2>2, Zenon
  <1>13. Pipeline(p)' = R \o ((G \o o) \o W)
    <2>1. Pipeline(p)' = Results(p)' \o (GroupOf(groups', p) \o Waiting(p)')
      BY DEF Pipeline, Results, Waiting
    <2>2. Results(p)' = R
      BY <1>3 DEF Results
    <2>3. Waiting(p)' = W
      BY <1>3 DEF Waiting, t
    <2> QED BY <1>12, <2>1, <2>2, <2>3, Zenon
  <1>14. Pipeline(p) = R \o (G \o (o \o W))
    BY <1>11, ChannelTypes, Zenon
  <1> HIDE DEF R, G, o, W
  <1>15. (G \o o) \o W = G \o (o \o W)
    <2>1. G \in Seq(Requests) /\ o \in Seq(Requests) /\ W \in Seq(Requests)
      BY <1>9, <1>10
    <2> QED BY <2>1, Assoc, Zenon
  <1> QED BY <1>13, <1>14, <1>15, Zenon

(* The thunk call: the first group becomes results.                        *)
LEMMA TranslateHidden ==
  ASSUME CrashInv, CrashInv', NEW statuses, TranslateGroup(statuses)
  PROVE  Hidden
  <1>1. /\ doneQ \in Seq(Completed) /\ groups \in Seq(Group) /\ OnePair(groups)
        /\ batch \in Seq(Requests) /\ workQ \in Seq(Requests)
    BY ChannelTypes DEF TypeOK
  <1>2. groups # <<>> /\ out = <<>>
    BY DEF TranslateGroup, CrashInv, Gone, OrderInv, WorkerInv, WorkerShape
  <1>3. /\ groups' = Tail(groups) /\ pc' = "send" /\ pc = "translate"
        /\ UNCHANGED <<workQ, batch, doneQ, issued, delivered>>
        /\ out' = [i \in 1 .. Len(Head(groups)) |->
                     [req_id |-> Head(groups)[i], status |-> statuses[i]]]
    BY DEF TranslateGroup
  <1>4. out' \in Seq(Completed) /\ OnePair(Tail(groups))
    <2>1. TypeOK' /\ OnePair(groups')
      BY <1>3 DEF CrashInv, Gone, OrderInv, WorkerInv, OnePairPerGroup
    <2> QED BY <1>3, <2>1 DEF TypeOK
  <1> DEFINE first == groups[1]
             rest == Tail(groups)
  <1>5. Head(groups) = first /\ first \in Seq(Requests)
    BY <1>1, <1>2, <1>4, NonEmptySeq, GroupOfRest
  <1>6. Ids(out') = first
    <2>1. /\ Len(out') = Len(first) /\ \A i \in 1 .. Len(first) : out'[i].req_id = first[i]
          /\ Len(first) \in Nat
      <3>1. Len(first) \in Nat
        BY <1>5, LenProperties
      <3>2. out' = [i \in 1 .. Len(first) |-> [req_id |-> first[i], status |-> statuses[i]]]
        BY <1>3, <1>5
      <3> HIDE DEF first
      <3> QED BY <3>1, <3>2
    <2>2. /\ Ids(out') \in Seq(Requests) /\ Len(Ids(out')) = Len(out')
          /\ \A i \in 1 .. Len(out') : Ids(out')[i] = out'[i].req_id
      BY <1>4, IdsAre, Zenon
    <2> DEFINE ids == Ids(out')
    <2> HIDE DEF ids, first
    <2>3. Len(ids) = Len(first) /\ \A i \in 1 .. Len(first) : ids[i] = first[i]
      BY <2>1, <2>2 DEF ids
    <2>4. ids = first
      BY <1>5, <2>2, <2>3, SeqEqual DEF ids
    <2> QED BY <2>4 DEF ids
  <1> SUFFICES ASSUME NEW p PROVE Pipeline(p)' = Pipeline(p)
    BY <1>3 DEF Hidden
  <1> DEFINE R == ForPair(Ids(doneQ), p)
             F == ForPair(first, p)
             G == GroupOf(rest, p)
             W == Waiting(p)
  <1>7. R \in Seq(Requests) /\ Ids(doneQ) \in Seq(Requests)
    BY <1>1, IdsAre, ForPairType, Zenon
  <1>8. F \in Seq(Requests) /\ G \in Seq(Requests) /\ W \in Seq(Requests)
    <2>1. F \in Seq(Requests)
      BY <1>5, ForPairType, Zenon
    <2>2. rest \in Seq(Group)
      BY <1>1, <1>2, NonEmptySeq
    <2>3. G \in Seq(Requests)
      BY <1>4, <2>2, GroupOfIs
    <2> QED BY <2>1, <2>3, ChannelTypes
  <1>9. Pipeline(p) = R \o ((F \o G) \o W)
    <2>1. Results(p) = R
      <3>1. doneQ \o out = doneQ
        BY <1>1, <1>2, ConcatEmptySeq
      <3> QED BY <3>1 DEF Results
    <2>2. GroupOf(groups, p) = F \o G
      BY <1>1, <1>2, <1>4, GroupOfRest
    <2>3. Pipeline(p) = Results(p) \o (GroupOf(groups, p) \o Waiting(p))
      BY ChannelTypes
    <2> QED BY <2>1, <2>2, <2>3, Zenon
  <1>10. Pipeline(p)' = (R \o F) \o (G \o W)
    <2>1. Ids(doneQ \o out') = Ids(doneQ) \o Ids(out')
      BY <1>1, <1>4, IdsAre, Zenon
    <2>2. ForPair(Ids(doneQ) \o first, p) = R \o F
      BY <1>5, <1>7, ForPairConcat, Zenon
    <2>3. Pipeline(p)' = ForPair(Ids(doneQ' \o out'), p) \o (GroupOf(groups', p) \o Waiting(p)')
      BY DEF Pipeline, Waiting
    <2>4. Waiting(p)' = W
      BY <1>3 DEF Waiting
    <2>5. doneQ' = doneQ /\ groups' = rest
      BY <1>3
    <2> HIDE DEF R, F, W, G, rest, first
    <2>6. ForPair(Ids(doneQ' \o out'), p) = R \o F
      BY <1>6, <2>1, <2>2, <2>5, Zenon
    <2>7. GroupOf(groups', p) = G
      BY <2>5 DEF G
    <2> QED BY <2>3, <2>4, <2>6, <2>7, Zenon
  <1> HIDE DEF R, F, G, W
  <1>11. (R \o F) \o (G \o W) = R \o ((F \o G) \o W)
    <2>1. G \o W \in Seq(Requests)
      BY <1>8, Joined, Zenon
    <2>2. (F \o G) \o W = F \o (G \o W)
      BY <1>8, Assoc, Zenon
    <2> DEFINE GW == G \o W
    <2> HIDE DEF GW
    <2>3. (R \o F) \o GW = R \o (F \o GW)
      <3>1. R \in Seq(Requests) /\ F \in Seq(Requests) /\ GW \in Seq(Requests)
        BY <1>7, <1>8, <2>1 DEF GW, R
      <3> QED BY <3>1, Assoc, Zenon
    <2> QED BY <2>2, <2>3 DEF GW
  <1> QED BY <1>9, <1>10, <1>11, Zenon

(* send moves a result from the worker to the channel.                     *)
LEMMA SendHidden ==
  ASSUME CrashInv, Send
  PROVE  Hidden
  <1>1. doneQ \in Seq(Completed) /\ out \in Seq(Completed)
    BY ChannelTypes DEF TypeOK
  <1>2. out # <<>>
    BY DEF Send, CrashInv, Gone, OrderInv, WorkerInv, WorkerShape
  <1> DEFINE h == Head(out)
             t == Tail(out)
             one == <<h>>
  <1>3. h \in Completed /\ t \in Seq(Completed) /\ one \o t = out
    BY <1>1, <1>2, NonEmptySeq, FirstAndRest
  <1>4. doneQ' = Append(doneQ, h) /\ out' = t
        /\ UNCHANGED <<workQ, batch, groups, issued, delivered>> /\ (pc' = "gone" <=> pc = "gone")
    BY DEF Send
  <1> HIDE DEF h, t
  <1>5. Append(doneQ, h) = doneQ \o one
    BY <1>1, <1>3, AppendIsConcat
  <1>6. one \in Seq(Completed)
    BY <1>3
  <1> HIDE DEF one
  <1>7. (doneQ \o one) \o t = doneQ \o (one \o t)
    <2>1. doneQ \in Seq(Completed) /\ one \in Seq(Completed) /\ t \in Seq(Completed)
      BY <1>1, <1>3, <1>6
    <2> QED BY <2>1, ResultsAssoc, Zenon
  <1>8. doneQ' \o out' = doneQ \o out
    BY <1>3, <1>4, <1>5, <1>7, Zenon
  <1>9. \A p : Pipeline(p)' = Pipeline(p)
    BY <1>4, <1>8, Zenon DEF Pipeline
  <1> QED BY <1>4, <1>9 DEF Hidden

(* The lines of a pair get one more at their end.                          *)
LEMMA EnqueueAccepts ==
  ASSUME CrashInv, NEW r \in Requests, EnqueueOk(r)
  PROVE  Channels!Accept(r)
  <1>1. batch \in Seq(Requests) /\ workQ \in Seq(Requests)
    BY ChannelTypes DEF TypeOK
  <1>2. /\ pc # "gone" /\ r \notin issued /\ workQ' = Append(workQ, r)
        /\ issued' = issued \cup {r} /\ UNCHANGED <<workerVars, doneQ, delivered>>
    BY DEF EnqueueOk
  <1>3. ASSUME NEW p
        PROVE  Pipeline(p)' = IF PairOf[r] = p THEN Append(Pipeline(p), r) ELSE Pipeline(p)
    <2> DEFINE one == <<r>>
               R == Results(p)
               G == GroupOf(groups, p)
               W == Waiting(p)
               o == ForPair(one, p)
    <2>1. R \in Seq(Requests) /\ G \in Seq(Requests) /\ W \in Seq(Requests)
          /\ Pipeline(p) = R \o (G \o W) /\ Pipeline(p) \in Seq(Requests)
      BY ChannelTypes
    <2>2. one \in Seq(Requests)
      OBVIOUS
    <2>3. o = IF PairOf[r] = p THEN one ELSE <<>>
      BY ForPairOfSingle, Zenon
    <2>4. o \in Seq(Requests)
      BY <2>2, ForPairType, Zenon
    <2>5. Waiting(p)' = W \o o
      <3>1. batch' \o workQ' = (batch \o workQ) \o one
        <4>1. Append(workQ, r) = workQ \o one
          BY <1>1, JoinOne, Zenon
        <4> HIDE DEF one
        <4>2. batch \o (workQ \o one) = (batch \o workQ) \o one
          <5>1. batch \in Seq(Requests) /\ workQ \in Seq(Requests) /\ one \in Seq(Requests)
            BY <1>1, <2>2
          <5> QED BY <5>1, Assoc, Zenon
        <4>3. batch' = batch /\ workQ' = workQ \o one
          BY <1>2, <4>1 DEF workerVars
        <4> QED BY <4>2, <4>3, Zenon
      <3>2. batch \o workQ \in Seq(Requests)
        BY <1>1, Joined, Zenon
      <3>3. ForPair((batch \o workQ) \o one, p) = ForPair(batch \o workQ, p) \o o
        BY <2>2, <3>2, ForPairConcat, Zenon
      <3> QED BY <3>1, <3>3, Zenon DEF Waiting
    <2>6. Pipeline(p)' = R \o (G \o (W \o o))
      <3>1. Pipeline(p)' = Results(p)' \o (GroupOf(groups', p) \o Waiting(p)')
        BY DEF Pipeline, Results, Waiting
      <3>2. Results(p)' = R /\ groups' = groups
        BY <1>2 DEF Results, workerVars
      <3> QED BY <2>5, <3>1, <3>2, Zenon
    <2> HIDE DEF R, G, W, o
    <2>7. R \o (G \o (W \o o)) = (R \o (G \o W)) \o o
      <3>0. /\ R \in Seq(Requests) /\ G \in Seq(Requests)
            /\ W \in Seq(Requests) /\ o \in Seq(Requests)
        BY <2>1, <2>4
      <3>1. G \o (W \o o) = (G \o W) \o o /\ G \o W \in Seq(Requests)
        <4>1. G \o (W \o o) = (G \o W) \o o
          BY <3>0, Assoc, Zenon
        <4>2. G \o W \in Seq(Requests)
          BY <3>0, Joined, Zenon
        <4> QED BY <4>1, <4>2
      <3> DEFINE GW == G \o W
      <3> HIDE DEF GW
      <3>2. GW \in Seq(Requests)
        BY <3>1 DEF GW
      <3>3. R \o (GW \o o) = (R \o GW) \o o
        <4>1. R \in Seq(Requests) /\ GW \in Seq(Requests) /\ o \in Seq(Requests)
          BY <3>0, <3>2
        <4> QED BY <4>1, Assoc, Zenon
      <3> QED BY <3>1, <3>3 DEF GW
    <2>8. Pipeline(p)' = Pipeline(p) \o o
      BY <2>1, <2>6, <2>7, Zenon
    <2>9. Pipeline(p) \o one = Append(Pipeline(p), r) /\ Pipeline(p) \o <<>> = Pipeline(p)
      <3>1. Pipeline(p) \in Seq(Requests)
        BY <2>1
      <3>2. Pipeline(p) \o one = Append(Pipeline(p), r)
        BY <3>1, JoinOne, Zenon
      <3>3. Pipeline(p) \o <<>> = Pipeline(p)
        BY <3>1, JoinNone, Zenon
      <3> QED BY <3>2, <3>3
    <2> HIDE DEF one
    <2> QED BY <2>3, <2>8, <2>9, Zenon
  <1>4. PairOf[r] \in Pairs
    BY QueueAssumption
  <1>5. [p \in Pairs |-> Pipeline(p)]' =
          [[p \in Pairs |-> Pipeline(p)] EXCEPT ![PairOf[r]] = Append(@, r)]
    BY <1>3, <1>4
  <1>6. [p \in Pairs |-> ForPair(Ids(delivered), p)]' = [p \in Pairs |-> ForPair(Ids(delivered), p)]
    BY <1>2
  <1>7. (pc = "gone")' = (pc = "gone")
    BY <1>2 DEF workerVars
  <1> QED BY <1>2, <1>5, <1>6, <1>7 DEF Channels!Accept

(* A request that is turned away leaves no trace.                          *)
LEMMA EnqueueRefuses ==
  ASSUME NEW r \in Requests, EnqueueFull(r) \/ EnqueueClosed(r)
  PROVE  Channels!Refuse(r)
  <1>1. /\ r \notin issued /\ issued' = issued \cup {r}
        /\ UNCHANGED <<workQ, workerVars, doneQ, delivered>>
    BY DEF EnqueueFull, EnqueueClosed
  <1>2. [p \in Pairs |-> Pipeline(p)]' = [p \in Pairs |-> Pipeline(p)]
    BY <1>1 DEF Pipeline, workerVars
  <1>3. [p \in Pairs |-> ForPair(Ids(delivered), p)]' = [p \in Pairs |-> ForPair(Ids(delivered), p)]
    BY <1>1
  <1>4. (pc = "gone")' = (pc = "gone")
    BY <1>1 DEF workerVars
  <1> QED BY <1>1, <1>2, <1>3, <1>4 DEF Channels!Refuse

LEMMA NoGroups == \A p : GroupOf(<<>>, p) = <<>>
  <1>1. DOMAIN <<>> = {}
    OBVIOUS
  <1> DEFINE none == <<>>
  <1>2. DOMAIN none = {}
    BY <1>1
  <1>3. \A p : GroupOf(none, p) = <<>>
    <2> HIDE DEF none
    <2> QED BY <1>2 DEF GroupOf
  <1> QED BY <1>3 DEF none

LEMMA CutBetween ==
  \A a, b \in Seq(Requests) :
    /\ Len(a) \in Nat /\ Len(a) <= Len(a \o b)
    /\ SubSeq(a \o b, 1, Len(a)) = a
    /\ SubSeq(a \o b, Len(a) + 1, Len(a \o b)) = b
  <1> SUFFICES ASSUME NEW a \in Seq(Requests), NEW b \in Seq(Requests)
               PROVE  /\ Len(a) \in Nat /\ Len(a) <= Len(a \o b)
                      /\ SubSeq(a \o b, 1, Len(a)) = a
                      /\ SubSeq(a \o b, Len(a) + 1, Len(a \o b)) = b
    OBVIOUS
  <1> DEFINE ab == a \o b
             n == Len(a)
             front == SubSeq(ab, 1, n)
             rear == SubSeq(ab, n + 1, Len(ab))
  <1>1. /\ ab \in Seq(Requests) /\ Len(ab) = n + Len(b) /\ n \in Nat /\ Len(b) \in Nat
        /\ \A i \in 1 .. n + Len(b) : ab[i] = IF i <= n THEN a[i] ELSE b[i - n]
    BY ConcatProperties, LenProperties
  <1> HIDE DEF ab
  <1>2. front = a
    <2>1. /\ front \in Seq(Requests) /\ Len(front) = n
          /\ \A i \in 1 .. n : front[i] = ab[i]
      <3>1. n \in 0 .. Len(ab)
        BY <1>1
      <3>2. /\ front \in Seq(Requests) /\ Len(front) = IF 1 <= n THEN n - 1 + 1 ELSE 0
            /\ \A i \in 1 .. n - 1 + 1 : front[i] = ab[1 + i - 1]
        BY <1>1, <3>1, SubSeqProperties, ElementOfSeq
      <3> HIDE DEF front, n
      <3> QED BY <1>1, <3>2
    <2> HIDE DEF front
    <2>2. \A i \in 1 .. n : front[i] = a[i]
      BY <1>1, <2>1
    <2> QED BY <2>1, <2>2, SeqEqual
  <1>3. rear = b
    <2>1. /\ rear \in Seq(Requests) /\ Len(rear) = Len(b)
          /\ \A i \in 1 .. Len(b) : rear[i] = ab[n + i]
      <3>2. /\ rear \in Seq(Requests)
            /\ Len(rear) = IF n + 1 <= Len(ab) THEN Len(ab) - (n + 1) + 1 ELSE 0
            /\ \A i \in 1 .. Len(ab) - (n + 1) + 1 : rear[i] = ab[(n + 1) + i - 1]
        BY <1>1, SubSeqProperties, ElementOfSeq
      <3> HIDE DEF rear, n
      <3>3. /\ rear \in Seq(Requests) /\ Len(rear) = Len(b)
            /\ Len(ab) - (n + 1) + 1 = Len(b)
        BY <1>1, <3>2
      <3>4. ASSUME NEW i \in 1 .. Len(b) PROVE rear[i] = ab[n + i]
        <4>1. (n + 1) + i - 1 = n + i
          BY <1>1
        <4> QED BY <3>2, <3>3, <4>1
      <3> QED BY <3>3, <3>4
    <2> HIDE DEF rear, n
    <2>2. \A i \in 1 .. Len(b) : rear[i] = b[i]
      <3> SUFFICES ASSUME NEW i \in 1 .. Len(b) PROVE rear[i] = b[i]
        OBVIOUS
      <3>1. n + i \in 1 .. n + Len(b) /\ ~(n + i <= n) /\ (n + i) - n = i
        BY <1>1
      <3> QED BY <1>1, <2>1, <3>1
    <2> QED BY <2>1, <2>2, SeqEqual
  <1> HIDE DEF front, rear
  <1>4. n \in Nat /\ n <= Len(ab)
    BY <1>1
  <1> QED BY <1>2, <1>3, <1>4 DEF ab, front, rear

(* How much of each channel the results at the front are.                  *)
LEMMA CutFits ==
  ASSUME CrashInv, NEW first \in Seq(Completed),
         \A p : Len(ForPair(Ids(first), p)) <= Len(Pipeline(p))
  PROVE  [p \in Pairs |-> Len(ForPair(Ids(first), p))] \in Channels!Cuts
  <1> DEFINE n == [p \in Pairs |-> Len(ForPair(Ids(first), p))]
             held == [p \in Pairs |-> Pipeline(p)]
  <1>1. ASSUME NEW p \in Pairs
        PROVE  /\ n[p] = Len(ForPair(Ids(first), p))
               /\ n[p] \in 0 .. Len(held[p]) /\ n[p] <= Len(held[p])
    <2>1. ForPair(Ids(first), p) \in Seq(Requests) /\ Pipeline(p) \in Seq(Requests)
      BY ChannelTypes, IdsAre, ForPairType, Zenon
    <2>2. Len(ForPair(Ids(first), p)) \in Nat /\ Len(Pipeline(p)) \in Nat
      BY <2>1, LenProperties
    <2>3. n[p] = Len(ForPair(Ids(first), p)) /\ held[p] = Pipeline(p)
      OBVIOUS
    <2> HIDE DEF n, held
    <2> QED BY <2>2, <2>3
  <1>2. n \in [Pairs -> UNION {0 .. Len(held[p]) : p \in Pairs}]
    <2> HIDE DEF held
    <2> QED BY <1>1
  <1> HIDE DEF n
  <1>3. \A p \in Pairs : n[p] <= Len(held[p])
    BY <1>1
  <1> QED BY <1>2, <1>3 DEF Channels!Cuts, n

(* A poll takes the front of every channel.                                *)
LEMMA PollDelivers ==
  ASSUME CrashInv, Poll
  PROVE  \E n \in Channels!Cuts : Channels!Deliver(n)
  <1> DEFINE k == AtMost(Len(doneQ), POLL_MAX_RECORDS)
             first == SubSeq(doneQ, 1, k)
             rest == SubSeq(doneQ, k + 1, Len(doneQ))
             n == [p \in Pairs |-> Len(ForPair(Ids(first), p))]
  <1>1. /\ doneQ \in Seq(Completed) /\ out \in Seq(Completed) /\ delivered \in Seq(Completed)
        /\ Len(doneQ) \in Nat
    BY ChannelTypes, LenProperties DEF TypeOK
  <1>2. k \in 0 .. Len(doneQ)
    BY <1>1, QueueAssumption DEF AtMost
  <1>3. /\ delivered' = delivered \o first /\ doneQ' = rest
        /\ UNCHANGED <<workQ, pc, batch, groups, out, issued>>
    BY DEF Poll, workerVars
  <1> HIDE DEF k
  <1>4. first \in Seq(Completed) /\ rest \in Seq(Completed) /\ first \o rest = doneQ
        /\ Len(first) <= Len(doneQ)
    <2>1. first \in Seq(Completed) /\ rest \in Seq(Completed) /\ first \o rest = doneQ
      BY <1>1, <1>2, CutAndJoin
    <2>2. Len(first) = IF 1 <= k THEN k - 1 + 1 ELSE 0
      BY <1>1, <1>2, SubSeqProperties, ElementOfSeq
    <2> HIDE DEF first, rest
    <2>3. Len(first) <= Len(doneQ)
      <3>1. CASE k = 0
        BY <1>1, <2>2, <3>1
      <3>2. CASE k >= 1
        BY <1>1, <1>2, <2>2, <3>2
      <3> QED BY <1>2, <3>1, <3>2
    <2> QED BY <2>1, <2>3
  <1> HIDE DEF first, rest
  <1>5. ASSUME NEW p
        PROVE  /\ ForPair(Ids(first), p) \in Seq(Requests)
               /\ Pipeline(p)' \in Seq(Requests)
               /\ Pipeline(p) = ForPair(Ids(first), p) \o Pipeline(p)'
               /\ ForPair(Ids(delivered'), p) = ForPair(Ids(delivered), p) \o ForPair(Ids(first), p)
    <2> DEFINE F == ForPair(Ids(first), p)
               ro == rest \o out
               R == ForPair(Ids(ro), p)
               GW == GroupOf(groups, p) \o Waiting(p)
    <2>1. F \in Seq(Requests) /\ Ids(first) \in Seq(Requests)
      BY <1>4, IdsAre, ForPairType, Zenon
    <2>2. ro \in Seq(Completed) /\ doneQ \o out = first \o ro
      <3>1. first \in Seq(Completed) /\ rest \in Seq(Completed) /\ out \in Seq(Completed)
        BY <1>1, <1>4
      <3>2. (first \o rest) \o out = first \o (rest \o out)
        BY <3>1, ResultsAssoc, Zenon
      <3>3. ro \in Seq(Completed)
        BY <3>1, ResultsJoined, Zenon
      <3> QED BY <1>4, <3>2, <3>3
    <2> HIDE DEF ro
    <2>3. R \in Seq(Requests) /\ Ids(ro) \in Seq(Requests)
      BY <2>2, IdsAre, ForPairType, Zenon
    <2>4. Results(p) = F \o R
      <3>1. Ids(first \o ro) = Ids(first) \o Ids(ro)
        BY <1>4, <2>2, IdsAre, Zenon
      <3>2. ForPair(Ids(first) \o Ids(ro), p) = F \o R
        BY <2>1, <2>3, ForPairConcat, Zenon
      <3> QED BY <2>2, <3>1, <3>2, Zenon DEF Results
    <2>5. GW \in Seq(Requests) /\ Pipeline(p) = Results(p) \o GW
      <3>1. GroupOf(groups, p) \in Seq(Requests) /\ Waiting(p) \in Seq(Requests)
            /\ Pipeline(p) = Results(p) \o GW
        BY ChannelTypes
      <3>2. GW \in Seq(Requests)
        BY <3>1, Joined, Zenon
      <3> QED BY <3>1, <3>2
    <2>6. Pipeline(p)' = R \o GW
      <3>1. Pipeline(p)' = ForPair(Ids(doneQ' \o out'), p) \o (GroupOf(groups', p) \o Waiting(p)')
        BY DEF Pipeline, Waiting
      <3>2. doneQ' \o out' = ro /\ groups' = groups /\ Waiting(p)' = Waiting(p)
        BY <1>3 DEF ro, Waiting
      <3> QED BY <3>1, <3>2, Zenon
    <2> HIDE DEF GW, R
    <2>7. (F \o R) \o GW = F \o (R \o GW) /\ R \o GW \in Seq(Requests)
      <3>1. F \in Seq(Requests) /\ R \in Seq(Requests) /\ GW \in Seq(Requests)
        BY <2>1, <2>3, <2>5
      <3> HIDE DEF F
      <3>2. (F \o R) \o GW = F \o (R \o GW)
        BY <3>1, Assoc, Zenon
      <3>3. R \o GW \in Seq(Requests)
        BY <3>1, Joined, Zenon
      <3> QED BY <3>2, <3>3
    <2>8. ForPair(Ids(delivered'), p) = ForPair(Ids(delivered), p) \o F
      <3>1. Ids(delivered \o first) = Ids(delivered) \o Ids(first)
            /\ Ids(delivered) \in Seq(Requests)
        BY <1>1, <1>4, IdsAre, Zenon
      <3>2. ForPair(Ids(delivered) \o Ids(first), p) = ForPair(Ids(delivered), p) \o F
        BY <2>1, <3>1, ForPairConcat, Zenon
      <3> QED BY <1>3, <3>1, <3>2, Zenon
    <2> QED BY <2>1, <2>4, <2>5, <2>6, <2>7, <2>8, Zenon
  <1>6. ASSUME NEW p
        PROVE  /\ Len(ForPair(Ids(first), p)) <= Len(Pipeline(p))
               /\ SubSeq(Pipeline(p), 1, Len(ForPair(Ids(first), p))) = ForPair(Ids(first), p)
               /\ SubSeq(Pipeline(p), Len(ForPair(Ids(first), p)) + 1, Len(Pipeline(p)))
                    = Pipeline(p)'
    <2> DEFINE F == ForPair(Ids(first), p)
               R == Pipeline(p)'
               whole == Pipeline(p)
    <2>1. F \in Seq(Requests) /\ R \in Seq(Requests) /\ whole = F \o R
      BY <1>5
    <2> HIDE DEF F, R, whole
    <2>2. /\ Len(F) <= Len(F \o R) /\ SubSeq(F \o R, 1, Len(F)) = F
          /\ SubSeq(F \o R, Len(F) + 1, Len(F \o R)) = R
      BY <2>1, CutBetween, Zenon
    <2>3. /\ Len(F) <= Len(whole) /\ SubSeq(whole, 1, Len(F)) = F
          /\ SubSeq(whole, Len(F) + 1, Len(whole)) = R
      BY <2>1, <2>2
    <2> QED BY <2>3 DEF F, R, whole
  <1>7. n \in Channels!Cuts
    BY <1>4, <1>6, CutFits
  <1>8. Channels!Deliver(n)
    <2>1. [p \in Pairs |-> Pipeline(p)]' =
            [p \in Pairs |-> SubSeq([q \in Pairs |-> Pipeline(q)][p], n[p] + 1,
                                    Len([q \in Pairs |-> Pipeline(q)][p]))]
      BY <1>6
    <2>2. [p \in Pairs |-> ForPair(Ids(delivered), p)]' =
            [p \in Pairs |-> [q \in Pairs |-> ForPair(Ids(delivered), q)][p]
                              \o SubSeq([q \in Pairs |-> Pipeline(q)][p], 1, n[p])]
      <3>1. \A p \in Pairs : ForPair(Ids(delivered'), p) =
              ForPair(Ids(delivered), p) \o SubSeq(Pipeline(p), 1, n[p])
        BY <1>5, <1>6
      <3> QED BY <3>1
    <2>3. (pc = "gone")' = (pc = "gone") /\ issued' = issued
      BY <1>3
    <2> HIDE DEF n
    <2> QED BY <2>1, <2>2, <2>3 DEF Channels!Deliver
  <1> HIDE DEF n
  <1> QED BY <1>7, <1>8

(* What the worker has sent outlives it, the rest of each channel does not.*)
LEMMA EndCloses ==
  ASSUME CrashInv, CrashInv', WorkerGone
  PROVE  \E n \in Channels!Cuts : Channels!Close(n)
  <1> DEFINE n == [p \in Pairs |-> Len(ForPair(Ids(doneQ), p))]
  <1>1. doneQ \in Seq(Completed) /\ out \in Seq(Completed) /\ Len(doneQ) \in Nat
    BY ChannelTypes, LenProperties DEF TypeOK
  <1>2. /\ pc # "gone" /\ pc' = "gone" /\ issued # {}
        /\ workQ' = <<>> /\ batch' = <<>> /\ groups' = <<>> /\ out' = <<>>
        /\ UNCHANGED <<doneQ, issued, delivered>>
    BY DEF WorkerGone
  <1>3. ASSUME NEW p
        PROVE  /\ Len(ForPair(Ids(doneQ), p)) <= Len(Pipeline(p))
               /\ SubSeq(Pipeline(p), 1, Len(ForPair(Ids(doneQ), p))) = Pipeline(p)'
    <2> DEFINE F == ForPair(Ids(doneQ), p)
               O == ForPair(Ids(out), p)
               GW == GroupOf(groups, p) \o Waiting(p)
    <2>1. /\ Ids(doneQ) \in Seq(Requests) /\ Ids(out) \in Seq(Requests)
          /\ F \in Seq(Requests) /\ O \in Seq(Requests)
      BY <1>1, IdsAre, ForPairType, Zenon
    <2>2. Results(p) = F \o O
      <3>1. Ids(doneQ \o out) = Ids(doneQ) \o Ids(out)
        BY <1>1, IdsAre, Zenon
      <3>2. ForPair(Ids(doneQ) \o Ids(out), p) = F \o O
        BY <2>1, ForPairConcat, Zenon
      <3> QED BY <3>1, <3>2, Zenon DEF Results
    <2>3. GW \in Seq(Requests) /\ Pipeline(p) = Results(p) \o GW
      <3>1. GroupOf(groups, p) \in Seq(Requests) /\ Waiting(p) \in Seq(Requests)
            /\ Pipeline(p) = Results(p) \o GW
        BY ChannelTypes
      <3>2. GW \in Seq(Requests)
        BY <3>1, Joined, Zenon
      <3> QED BY <3>1, <3>2
    <2> HIDE DEF GW, F, O
    <2>4. Pipeline(p) = F \o (O \o GW) /\ O \o GW \in Seq(Requests)
      <3>1. F \in Seq(Requests) /\ O \in Seq(Requests) /\ GW \in Seq(Requests)
        BY <2>1, <2>3
      <3>2. (F \o O) \o GW = F \o (O \o GW)
        BY <3>1, Assoc, Zenon
      <3>3. O \o GW \in Seq(Requests)
        BY <3>1, Joined, Zenon
      <3> QED BY <2>2, <2>3, <3>2, <3>3, Zenon
    <2>5. Pipeline(p)' = F
      <3>1. Pipeline(p)' = ForPair(Ids(doneQ' \o out'), p)
                           \o (GroupOf(groups', p) \o ForPair(batch' \o workQ', p))
        BY DEF Pipeline
      <3>2. doneQ' \o out' = doneQ
        BY <1>1, <1>2, ConcatEmptySeq
      <3>3. GroupOf(groups', p) = <<>>
        BY <1>2, NoGroups
      <3>4. ForPair(batch' \o workQ', p) = <<>>
        <4>1. <<>> \in Seq(Requests) /\ <<>> \o <<>> = <<>>
          BY EmptySeq, ConcatEmptySeq
        <4> QED BY <1>2, <4>1, ForPairSteps
      <3>5. F \o (<<>> \o <<>>) = F
        <4>1. <<>> \in Seq(Requests) /\ F \in Seq(Requests)
          BY <2>1, EmptySeq
        <4>2. <<>> \o <<>> = <<>>
          BY <4>1, JoinNone, Zenon
        <4>3. F \o <<>> = F
          BY <4>1, JoinNone, Zenon
        <4> QED BY <4>2, <4>3
      <3> QED BY <3>1, <3>2, <3>3, <3>4, <3>5, Zenon DEF F
    <2>6. Len(F) <= Len(Pipeline(p)) /\ SubSeq(Pipeline(p), 1, Len(F)) = F
      <3> DEFINE OGW == O \o GW
      <3>1. F \in Seq(Requests) /\ OGW \in Seq(Requests)
        BY <2>1, <2>4
      <3> HIDE DEF OGW
      <3>2. Len(F) <= Len(F \o OGW) /\ SubSeq(F \o OGW, 1, Len(F)) = F
        BY <3>1, CutBetween, Zenon
      <3>3. Pipeline(p) = F \o OGW
        BY <2>4 DEF OGW
      <3> QED BY <3>2, <3>3, Zenon
    <2> QED BY <2>5, <2>6, Zenon DEF F
  <1>4. n \in Channels!Cuts
    BY <1>1, <1>3, CutFits
  <1>5. Channels!Close(n)
    <2>1. [p \in Pairs |-> Pipeline(p)]' =
            [p \in Pairs |-> SubSeq([q \in Pairs |-> Pipeline(q)][p], 1, n[p])]
      BY <1>3
    <2>2. [p \in Pairs |-> ForPair(Ids(delivered), p)]' = [p \in Pairs |-> ForPair(Ids(delivered), p)]
      BY <1>2
    <2>3. (pc = "gone")' = TRUE /\ ~(pc = "gone")
      BY <1>2
    <2> HIDE DEF n
    <2> QED BY <1>2, <2>1, <2>2, <2>3 DEF Channels!Close
  <1> HIDE DEF n
  <1> QED BY <1>4, <1>5

LEMMA StepsAreChannelSteps ==
  CrashInv /\ CrashInv' /\ [CrashNext]_vars => [Channels!Next]_Channels!vars
  <1> SUFFICES ASSUME CrashInv, CrashInv', [CrashNext]_vars
               PROVE  [Channels!Next]_Channels!vars
    OBVIOUS
  <1>1. CASE UNCHANGED vars
    <2>1. Hidden
      BY <1>1 DEF Hidden, vars, Pipeline
    <2> QED BY <2>1, HiddenStutters
  <1>2. CASE Recv \/ Coalesce
    BY <1>2, TakeHidden, HiddenStutters
  <1>3. CASE CloseBatch
    <2>1. Hidden
      BY <1>3 DEF Hidden, CloseBatch, Pipeline
    <2> QED BY <2>1, HiddenStutters
  <1>4. CASE GroupOne
    BY <1>4, GroupHidden, HiddenStutters
  <1>5. ASSUME NEW statuses, TranslateGroup(statuses)
        PROVE  [Channels!Next]_Channels!vars
    BY <1>5, TranslateHidden, HiddenStutters
  <1>6. CASE Send
    BY <1>6, SendHidden, HiddenStutters
  <1>7. ASSUME NEW r \in Requests, EnqueueOk(r)
        PROVE  [Channels!Next]_Channels!vars
    BY <1>7, EnqueueAccepts DEF Channels!Next
  <1>8. ASSUME NEW r \in Requests, EnqueueFull(r) \/ EnqueueClosed(r)
        PROVE  [Channels!Next]_Channels!vars
    BY <1>8, EnqueueRefuses DEF Channels!Next
  <1>9. CASE Poll
    BY <1>9, PollDelivers DEF Channels!Next
  <1>10. CASE WorkerGone
    BY <1>10, EndCloses DEF Channels!Next
  <1> QED
    BY <1>1, <1>2, <1>3, <1>4, <1>5, <1>6, <1>7, <1>8, <1>9, <1>10
    DEF CrashNext, Next, Client, Worker, Translate

(* The request/result queues implement one reliable FIFO channel for each  *)
(* language pair, whose rest is lost when the worker ends: the initial     *)
(* states map to initial states, and every step of either thread to a step *)
(* of the channels or to none.                                             *)
THEOREM QueuesArePairChannels == CrashSpec => ImplementsPairChannels
  <1>1. Init => Channels!Init
    <2> SUFFICES ASSUME Init PROVE Channels!Init
      OBVIOUS
    <2>1. /\ workQ = <<>> /\ doneQ = <<>> /\ pc = "recv" /\ batch = <<>> /\ groups = <<>>
          /\ out = <<>> /\ issued = {} /\ delivered = <<>>
      BY DEF Init
    <2>2. \A p : Pipeline(p) = <<>> /\ ForPair(Ids(delivered), p) = <<>>
      <3> SUFFICES ASSUME NEW p
                   PROVE  Pipeline(p) = <<>> /\ ForPair(Ids(delivered), p) = <<>>
        OBVIOUS
      <3>1. <<>> \o <<>> = <<>> /\ Ids(<<>>) = <<>> /\ ForPair(<<>>, p) = <<>>
        BY ConcatEmptySeq, EmptySeq, IdsAre, ForPairSteps
      <3>2. GroupOf(<<>>, p) = <<>>
        BY NoGroups
      <3> QED BY <2>1, <3>1, <3>2, Zenon DEF Pipeline
    <2>3. (pc = "gone") = FALSE
      BY <2>1
    <2> QED BY <2>1, <2>2, <2>3 DEF Channels!Init
  <1> QED
    BY <1>1, CrashInvAlways, StepsAreChannelSteps, PTL
    DEF CrashSpec, ImplementsPairChannels, Channels!Spec
=============================================================================
