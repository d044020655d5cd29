------------------------ MODULE TurboServicesProofs ------------------------
(***************************************************************************)
(* Two services of wow_turbo that any thread may call: the archive lookup  *)
(* memo (FileCache), for any threads, archives, names and lookups, and the *)
(* log worker (LogWorker), for any callers and any number of records.      *)
(*                                                                         *)
(* Of the memo: no reference leaks, a record is what stock would answer,   *)
(* and its block index is in its archive.  Of the log: WrittenInOrder, and *)
(* that no record is stranded.                                             *)
(***************************************************************************)
EXTENDS FileCache, LogOrder, FiniteSetTheorems, SequenceTheorems, TLAPS

CallFields == {"at", "key", "outs", "hit", "found", "found_in", "ret", "straddled"}
HitFields == {"negative", "found", "found_in", "block", "known", "block_of", "straddled"}

(* The shape of the records, which the EXCEPTs of the model rest on.       *)
LookingUp == {"delegate", "ref_found", "read_block", "ref_found_in", "write", "record"}

IsCall(c) ==
  /\ DOMAIN c = CallFields
  /\ c.at \in LookingUp => c.key \in Keys
  /\ c.at = "record" => DOMAIN c.hit = HitFields

CallShape == DOMAIN call = Threads /\ \A t \in Threads : IsCall(call[t])

TableShape ==
  /\ DOMAIN table = Buckets
  /\ \A b \in Buckets : /\ DOMAIN table[b] = {"ways", "evict_next"}
                        /\ DOMAIN table[b].ways = Ways
                        /\ table[b].evict_next \in Ways

(* What a call has a reference to at each point of a replay.               *)
HoldsNothing == {"idle", "flush", "delegate", "ref_found"}

HoldsRight(c) ==
  /\ c.at \in HoldsNothing => c.found = None
  /\ c.at \in HoldsNothing \cup {"read_block", "ref_found_in"} => c.found_in = None

RefsInv ==
  /\ refs \in [Handles -> Int]
  /\ CallShape /\ TableShape
  /\ \A t \in Threads : HoldsRight(call[t])
  /\ RefsAccounted

-----------------------------------------------------------------------------
(* Counting references.                                                    *)

Is(a, h) == IF a = h THEN 1 ELSE 0

LEMMA CountMoves ==
  ASSUME NEW A \in SUBSET Threads, NEW B \in SUBSET Threads, NEW t, A \ {t} = B \ {t}
  PROVE  /\ Cardinality(A) \in Nat
         /\ Cardinality(B) = Cardinality(A) + (IF t \in B THEN 1 ELSE 0)
                                            - (IF t \in A THEN 1 ELSE 0)
  <1> DEFINE others == A \ {t}
  <1>1. IsFiniteSet(others)
    <2>1. others \in SUBSET Threads
      OBVIOUS
    <2> QED BY <2>1, FileCacheAssumption, FS_Subset
  <1>2. A = IF t \in A THEN others \cup {t} ELSE others
    OBVIOUS
  <1>3. B = IF t \in B THEN others \cup {t} ELSE others
    OBVIOUS
  <1>4. t \notin others
    OBVIOUS
  <1> HIDE DEF others
  <1>5. /\ Cardinality(others) \in Nat
        /\ Cardinality(others \cup {t}) = Cardinality(others) + 1
    BY <1>1, <1>4, FS_AddElement, FS_CardinalityType
  <1>6. Cardinality(A) = Cardinality(others) + (IF t \in A THEN 1 ELSE 0)
    <2>1. CASE t \in A
      BY <1>2, <1>5, <2>1
    <2>2. CASE t \notin A
      BY <1>2, <1>5, <2>2
    <2> QED BY <2>1, <2>2
  <1>7. Cardinality(B) = Cardinality(others) + (IF t \in B THEN 1 ELSE 0)
    <2>1. CASE t \in B
      BY <1>3, <1>5, <2>1
    <2>2. CASE t \notin B
      BY <1>3, <1>5, <2>2
    <2> QED BY <2>1, <2>2
  <1> QED BY <1>5, <1>6, <1>7

(* The references follow one call's found and found_in.                    *)
LEMMA RefsFollow ==
  ASSUME NEW t \in Threads, refs \in [Handles -> Int], RefsAccounted,
         \A u \in Threads \ {t} : /\ call'[u].found = call[u].found
                                  /\ call'[u].found_in = call[u].found_in,
         refs' \in [Handles -> Int],
         \A h \in Handles :
           refs'[h] = refs[h] + Is(call'[t].found, h) - Is(call[t].found, h)
                              + Is(call'[t].found_in, h) - Is(call[t].found_in, h)
  PROVE  RefsAccounted'
  <1> SUFFICES ASSUME NEW h \in Handles
               PROVE  refs'[h] = Cardinality({u \in Threads : call'[u].found = h})
                                 + Cardinality({u \in Threads : call'[u].found_in = h})
    BY DEF RefsAccounted
  <1> DEFINE F == {u \in Threads : call[u].found = h}
             G == {u \in Threads : call'[u].found = h}
             FI == {u \in Threads : call[u].found_in = h}
             GI == {u \in Threads : call'[u].found_in = h}
  <1>1. /\ F \in SUBSET Threads /\ G \in SUBSET Threads /\ F \ {t} = G \ {t}
        /\ FI \in SUBSET Threads /\ GI \in SUBSET Threads /\ FI \ {t} = GI \ {t}
    OBVIOUS
  <1>2. /\ Is(call[t].found, h) = IF t \in F THEN 1 ELSE 0
        /\ Is(call'[t].found, h) = IF t \in G THEN 1 ELSE 0
        /\ Is(call[t].found_in, h) = IF t \in FI THEN 1 ELSE 0
        /\ Is(call'[t].found_in, h) = IF t \in GI THEN 1 ELSE 0
    BY DEF Is
  <1>3. refs[h] = Cardinality(F) + Cardinality(FI)
    BY DEF RefsAccounted
  <1> HIDE DEF F, G, FI, GI
  <1>4. /\ Cardinality(F) \in Nat
        /\ Cardinality(G) = Cardinality(F) + (IF t \in G THEN 1 ELSE 0)
                                           - (IF t \in F THEN 1 ELSE 0)
    BY <1>1, CountMoves
  <1>5. /\ Cardinality(FI) \in Nat
        /\ Cardinality(GI) = Cardinality(FI) + (IF t \in GI THEN 1 ELSE 0)
                                             - (IF t \in FI THEN 1 ELSE 0)
    BY <1>1, CountMoves
  <1>6. refs'[h] = Cardinality(G) + Cardinality(GI)
    BY <1>2, <1>3, <1>4, <1>5
  <1> QED BY <1>6 DEF G, GI

(* What Take and GiveBack do to each handle.                               *)
LEMMA TimesOfFew ==
  ASSUME NEW a, NEW b, NEW h
  PROVE  /\ Times(h, <<>>) = 0
         /\ Times(h, <<a>>) = Is(a, h)
         /\ Times(h, <<a, b>>) = Is(a, h) + Is(b, h)
  <1>1. Times(h, <<>>) = 0
    <2>1. {i \in DOMAIN <<>> : <<>>[i] = h} = {}
      OBVIOUS
    <2> QED BY <2>1, FS_EmptySet DEF Times
  <1>2. Times(h, <<a>>) = Is(a, h)
    <2>1. {i \in DOMAIN <<a>> : <<a>>[i] = h} = IF a = h THEN {1} ELSE {}
      OBVIOUS
    <2> QED BY <2>1, FS_EmptySet, FS_Singleton DEF Times, Is
  <1>3. Times(h, <<a, b>>) = Is(a, h) + Is(b, h)
    <2>1. {i \in DOMAIN <<a, b>> : <<a, b>>[i] = h}
          = (IF a = h THEN {1} ELSE {}) \cup (IF b = h THEN {2} ELSE {})
      <3>1. DOMAIN <<a, b>> = {1, 2}
        OBVIOUS
      <3> QED BY <3>1
    <2>2. Cardinality({1} \cup {2}) = 2 /\ Cardinality({1}) = 1 /\ Cardinality({2}) = 1
      <3>0. 2 \notin {1}
        OBVIOUS
      <3>1. IsFiniteSet({1}) /\ Cardinality({1}) = 1 /\ Cardinality({2}) = 1
        BY FS_Singleton
      <3> DEFINE one == {1}
      <3> HIDE DEF one
      <3>2. Cardinality(one \cup {2}) = Cardinality(one) + 1
        BY <3>0, <3>1, FS_AddElement DEF one
      <3> QED BY <3>1, <3>2 DEF one
    <2>3. {} \cup {2} = {2} /\ {1} \cup {} = {1} /\ {} \cup {} = {}
      OBVIOUS
    <2> QED BY <2>1, <2>2, <2>3, FS_EmptySet DEF Times, Is
  <1> QED BY <1>1, <1>2, <1>3

LEMMA TakeOne ==
  ASSUME refs \in [Handles -> Int], NEW a
  PROVE  /\ Take(<<a>>) => refs' = [h \in Handles |-> refs[h] + Is(a, h)]
         /\ GiveBack(<<>>) => refs' = refs
         /\ GiveBack(<<a>>) => refs' = [h \in Handles |-> refs[h] - Is(a, h)]
  <1>1. \A h : Times(h, <<>>) = 0 /\ Times(h, <<a>>) = Is(a, h)
    BY TimesOfFew
  <1>2. \A h : Is(a, h) \in Int
    BY DEF Is
  <1>3. Take(<<a>>) => refs' = [h \in Handles |-> refs[h] + Is(a, h)]
    BY <1>1 DEF Take, Refs
  <1>4. GiveBack(<<>>) => refs' = refs
    <2> SUFFICES ASSUME GiveBack(<<>>) PROVE refs' = refs
      OBVIOUS
    <2>1. refs' = [h \in Handles |-> refs[h] + -0]
      BY <1>1 DEF GiveBack, Refs
    <2> QED BY <2>1
  <1>5. GiveBack(<<a>>) => refs' = [h \in Handles |-> refs[h] - Is(a, h)]
    <2> SUFFICES ASSUME GiveBack(<<a>>)
                 PROVE  refs' = [h \in Handles |-> refs[h] - Is(a, h)]
      OBVIOUS
    <2>1. refs' = [h \in Handles |-> refs[h] + -Is(a, h)]
      BY <1>1 DEF GiveBack, Refs
    <2>2. \A h \in Handles : refs[h] + -Is(a, h) = refs[h] - Is(a, h)
      BY <1>2
    <2> QED BY <2>1, <2>2
  <1> QED BY <1>3, <1>4, <1>5

LEMMA TakeTwo ==
  ASSUME refs \in [Handles -> Int], NEW a, NEW b
  PROVE  /\ Take(<<a, b>>) => refs' = [h \in Handles |-> refs[h] + (Is(a, h) + Is(b, h))]
         /\ GiveBack(<<a, b>>) => refs' = [h \in Handles |-> refs[h] - (Is(a, h) + Is(b, h))]
  <1>1. \A h : /\ Times(h, <<>>) = 0
               /\ Times(h, <<a>>) = Is(a, h)
               /\ Times(h, <<a, b>>) = Is(a, h) + Is(b, h)
    BY TimesOfFew
  <1>2. \A h : Is(a, h) \in Int /\ Is(b, h) \in Int
    BY DEF Is
  <1>3. Take(<<a, b>>) => refs' = [h \in Handles |-> refs[h] + (Is(a, h) + Is(b, h))]
    BY <1>1 DEF Take, Refs
  <1>4. GiveBack(<<a, b>>) => refs' = [h \in Handles |-> refs[h] - (Is(a, h) + Is(b, h))]
    <2> SUFFICES ASSUME GiveBack(<<a, b>>)
                 PROVE  refs' = [h \in Handles |-> refs[h] - (Is(a, h) + Is(b, h))]
      OBVIOUS
    <2>1. refs' = [h \in Handles |-> refs[h] + -(Is(a, h) + Is(b, h))]
      BY <1>1 DEF GiveBack, Refs
    <2>2. \A h \in Handles :
            refs[h] + -(Is(a, h) + Is(b, h)) = refs[h] - (Is(a, h) + Is(b, h))
      BY <1>2
    <2> QED BY <2>1, <2>2
  <1> QED BY <1>3, <1>4

(* TakeOne call moves on from call[t] to c.                                    *)
LEMMA CallMoves ==
  ASSUME RefsInv, TableShape', NEW t \in Threads, NEW c, IsCall(c), HoldsRight(c),
         call' = [call EXCEPT ![t] = c],
         refs' \in [Handles -> Int],
         \A h \in Handles :
           refs'[h] = refs[h] + Is(c.found, h) - Is(call[t].found, h)
                              + Is(c.found_in, h) - Is(call[t].found_in, h)
  PROVE  RefsInv'
  <1>1. /\ DOMAIN call' = Threads /\ call'[t] = c
        /\ \A u \in Threads \ {t} : call'[u] = call[u]
    BY DEF RefsInv, CallShape
  <1>2. RefsAccounted'
    BY <1>1, RefsFollow DEF RefsInv
  <1>3. CallShape' /\ \A u \in Threads : HoldsRight(call'[u])
    BY <1>1 DEF RefsInv, CallShape
  <1> QED BY <1>2, <1>3 DEF RefsInv, HoldsRight

(* The same when no reference is taken or given back.                      *)
LEMMA CallMovesAlone ==
  ASSUME RefsInv, TableShape', NEW t \in Threads, NEW c, IsCall(c), HoldsRight(c),
         call' = [call EXCEPT ![t] = c], refs' = refs,
         c.found = call[t].found, c.found_in = call[t].found_in
  PROVE  RefsInv'
  <1>1. \A h \in Handles :
          refs'[h] = refs[h] + Is(c.found, h) - Is(call[t].found, h)
                             + Is(c.found_in, h) - Is(call[t].found_in, h)
    BY DEF RefsInv, Is
  <1>2. refs' \in [Handles -> Int]
    BY DEF RefsInv
  <1> QED BY <1>1, <1>2, CallMoves

-----------------------------------------------------------------------------
(* The table.                                                              *)

LEMMA WayIsWay ==
  ASSUME TableShape, NEW k \in Keys
  PROVE  /\ BucketOf[k] \in Buckets
         /\ WayFor(k) \in Ways
         /\ WaysOf(k) # {} => Min(WaysOf(k)) \in WaysOf(k) /\ WayFor(k) = Min(WaysOf(k))
  <1>1. \A S \in SUBSET Ways : S # {} => Min(S) \in S
    <2> SUFFICES ASSUME NEW S \in SUBSET Ways, S # {} PROVE Min(S) \in S
      OBVIOUS
    <2>1. \E x \in S : \A y \in S : x <= y
      <3>1. CASE 0 \in S
        BY <3>1 DEF Ways
      <3>2. CASE 0 \notin S
        <4>1. 1 \in S /\ \A y \in S : y = 1
          BY <3>2 DEF Ways
        <4> QED BY <4>1
      <3> QED BY <3>1, <3>2
    <2> QED BY <2>1 DEF Min
  <1>2. BucketOf[k] \in Buckets
    BY DEF Buckets
  <1>3. WaysOf(k) \in SUBSET Ways
    BY DEF WaysOf
  <1>4. CASE WaysOf(k) # {}
    BY <1>1, <1>2, <1>3, <1>4 DEF WayFor
  <1>5. CASE WaysOf(k) = {}
    <2> DEFINE empty == {w \in Ways : ~table[BucketOf[k]].ways[w].used}
    <2>1. empty # {} => Min(empty) \in Ways
      BY <1>1
    <2>2. table[BucketOf[k]].evict_next \in Ways
      BY <1>2 DEF TableShape
    <2>3. WayFor(k) = IF empty # {} THEN Min(empty) ELSE table[BucketOf[k]].evict_next
      BY <1>5 DEF WayFor
    <2> QED BY <1>2, <1>5, <2>1, <2>2, <2>3
  <1> QED BY <1>2, <1>4, <1>5

(* An insert keeps the table's shape; it changes one way of one bucket.    *)
LEMMA InsertShape ==
  ASSUME TableShape, NEW k \in Keys, NEW hit, Insert(k, hit)
  PROVE  /\ TableShape'
         /\ \A b \in Buckets, w \in Ways :
              table'[b].ways[w] =
                IF b = BucketOf[k] /\ w = WayFor(k)
                THEN [used |-> TRUE, key |-> k,
                      hit |-> IF WaysOf(k) = {} THEN hit
                              ELSE Merged(table[b].ways[w].hit, hit)]
                ELSE table[b].ways[w]
  <1>1. BucketOf[k] \in Buckets /\ WayFor(k) \in Ways
    BY WayIsWay
  <1>2. Touched(WayFor(k)) \in Ways
    BY DEF Touched, Ways
  <1> DEFINE kept == IF WaysOf(k) = {} THEN hit
                     ELSE Merged(table[BucketOf[k]].ways[WayFor(k)].hit, hit)
  <1>3. table' = [table EXCEPT ![BucketOf[k]] =
                   [ways |-> [table[BucketOf[k]].ways EXCEPT
                                ![WayFor(k)] = [used |-> TRUE, key |-> k, hit |-> kept]],
                    evict_next |-> Touched(WayFor(k))]]
    BY DEF Insert
  <1>4. kept = IF WaysOf(k) = {} THEN hit
               ELSE Merged(table[BucketOf[k]].ways[WayFor(k)].hit, hit)
    OBVIOUS
  <1> HIDE DEF kept
  <1>5. TableShape'
    BY <1>1, <1>2, <1>3 DEF TableShape
  <1>6. \A b \in Buckets, w \in Ways :
          table'[b].ways[w] = IF b = BucketOf[k] /\ w = WayFor(k)
                              THEN [used |-> TRUE, key |-> k, hit |-> kept]
                              ELSE table[b].ways[w]
    BY <1>1, <1>3 DEF TableShape
  <1> QED BY <1>4, <1>5, <1>6

-----------------------------------------------------------------------------
(* The steps of a lookup.                                                  *)

LEMMA ProbeKeeps ==
  ASSUME RefsInv, NEW t \in Threads, NEW k \in Keys, NEW outs \in Shapes, Probe(t, k, outs)
  PROVE  RefsInv'
  <1> DEFINE ways == WaysOf(k)
             hit == table[BucketOf[k]].ways[Min(ways)].hit
             begun == [Idle EXCEPT !.key = k, !.outs = outs]
  <1>1. call[t].found = None /\ call[t].found_in = None /\ refs' = refs
    BY DEF RefsInv, HoldsRight, HoldsNothing, Probe, At, stormVars
  <1>2. TableShape'
    <2>1. CASE table' = table
      BY <2>1 DEF RefsInv, TableShape
    <2>2. CASE table' = [table EXCEPT ![BucketOf[k]].evict_next = Touched(Min(ways))]
      <3>1. Touched(Min(ways)) \in Ways
        BY DEF Touched, Ways
      <3>2. BucketOf[k] \in Buckets
        BY DEF Buckets
      <3> HIDE DEF ways
      <3> QED BY <2>2, <3>1, <3>2 DEF RefsInv, TableShape
    <2> QED BY <2>1, <2>2 DEF Probe
  <1>3. \/ call' = [call EXCEPT ![t] = [begun EXCEPT !.at = "delegate"]]
        \/ call' = [call EXCEPT ![t] = [begun EXCEPT !.hit = hit, !.at = AfterProbe(outs)]]
        \/ Return(t, None, None)
    BY DEF Probe
  <1>4. PICK c : /\ call' = [call EXCEPT ![t] = c] /\ IsCall(c) /\ HoldsRight(c)
                 /\ c.found = None /\ c.found_in = None
    <2>1. CASE call' = [call EXCEPT ![t] = [begun EXCEPT !.at = "delegate"]]
      <3> DEFINE c == [begun EXCEPT !.at = "delegate"]
      <3>1. IsCall(c) /\ HoldsRight(c) /\ c.found = None /\ c.found_in = None
        BY DEF Idle, IsCall, HoldsRight, CallFields, LookingUp
      <3> QED BY <2>1, <3>1
    <2>2. CASE call' = [call EXCEPT ![t] = [begun EXCEPT !.hit = hit, !.at = AfterProbe(outs)]]
      <3> DEFINE c == [begun EXCEPT !.hit = hit, !.at = AfterProbe(outs)]
      <3>1. AfterProbe(outs) # "record"
        BY DEF AfterProbe, AfterFound, AfterBlock
      <3> HIDE DEF hit
      <3>2. IsCall(c) /\ HoldsRight(c) /\ c.found = None /\ c.found_in = None
        BY <3>1 DEF Idle, IsCall, HoldsRight, CallFields, LookingUp
      <3> QED BY <2>2, <3>2
    <2>3. CASE Return(t, None, None)
      <3> DEFINE c == [Idle EXCEPT !.at = "idle", !.found = None, !.found_in = None]
      <3>1. call' = [call EXCEPT ![t] = c]
        BY <2>3 DEF Return
      <3>2. IsCall(c) /\ HoldsRight(c) /\ c.found = None /\ c.found_in = None
        BY DEF Idle, IsCall, HoldsRight, CallFields, LookingUp
      <3> QED BY <3>1, <3>2
    <2> QED BY <1>3, <2>1, <2>2, <2>3
  <1> QED BY <1>1, <1>2, <1>4, CallMovesAlone

LEMMA ReplayKeeps ==
  ASSUME RefsInv, NEW t \in Threads,
         RefFound(t) \/ ReadBlock(t) \/ RefFoundIn(t)
  PROVE  RefsInv'
  <1> DEFINE c == call[t]
             givenUp == [Idle EXCEPT !.at = "delegate", !.key = c.key, !.outs = c.outs]
  <1>0. /\ refs \in [Handles -> Int] /\ IsCall(c) /\ HoldsRight(c) /\ TableShape'
        /\ None \notin Handles
    BY FileCacheAssumption DEF RefsInv, CallShape, TableShape, RefFound, ReadBlock, RefFoundIn
  <1>1. IsCall(givenUp) /\ HoldsRight(givenUp) /\ givenUp.found = None /\ givenUp.found_in = None
    <2>1. c.key \in Keys
      BY <1>0 DEF RefFound, ReadBlock, RefFoundIn, At, IsCall, LookingUp
    <2> QED BY <2>1 DEF Idle, IsCall, HoldsRight, CallFields, LookingUp
  <1>2. /\ AfterFound(c.outs) \in {"read_block", "ref_found_in", "write"}
        /\ AfterBlock(c.outs) \in {"ref_found_in", "write"}
    BY DEF AfterFound, AfterBlock
  <1>3. GiveUp(t) => call' = [call EXCEPT ![t] = givenUp]
    BY DEF GiveUp
  <1>4. \A h \in Handles : Is(None, h) = 0
    BY <1>0 DEF Is
  <1>5. CASE RefFound(t)
    <2>1. c.at = "ref_found" /\ c.found = None /\ c.found_in = None
      BY <1>0, <1>5 DEF RefFound, At, HoldsRight, HoldsNothing
    <2>2. CASE IsOpen(c.hit.found)
      <3> DEFINE h0 == c.hit.found
                 d == [c EXCEPT !.found = h0, !.at = AfterFound(c.outs)]
      <3>1. call' = [call EXCEPT ![t] = d] /\ Take(<<h0>>)
        BY <1>5, <2>2 DEF RefFound
      <3>2. IsCall(d) /\ HoldsRight(d) /\ d.found = h0 /\ d.found_in = None
        BY <1>0, <1>2, <2>1 DEF IsCall, HoldsRight, HoldsNothing, CallFields, LookingUp
      <3>3. refs' = [h \in Handles |-> refs[h] + Is(h0, h)]
        BY <1>0, <3>1, TakeOne
      <3> HIDE DEF d
      <3>4. refs' \in [Handles -> Int]
        BY <1>0, <3>3 DEF Is
      <3>5. \A h \in Handles :
              refs'[h] = refs[h] + Is(d.found, h) - Is(c.found, h)
                                 + Is(d.found_in, h) - Is(c.found_in, h)
        BY <1>0, <1>4, <2>1, <3>2, <3>3 DEF Is
      <3> QED BY <1>0, <3>1, <3>2, <3>4, <3>5, CallMoves
    <2>3. CASE ~IsOpen(c.hit.found)
      BY <1>0, <1>1, <1>3, <1>5, <2>1, <2>3, CallMovesAlone DEF RefFound
    <2> QED BY <2>2, <2>3
  <1>6. CASE ReadBlock(t)
    <2>1. c.at = "read_block" /\ c.found_in = None
      BY <1>0, <1>6 DEF ReadBlock, At, HoldsRight, HoldsNothing
    <2>2. CASE UNCHANGED refs /\ Goto(t, AfterBlock(c.outs))
      <3> DEFINE d == [c EXCEPT !.at = AfterBlock(c.outs)]
      <3>1. call' = [call EXCEPT ![t] = d]
        BY <2>2 DEF Goto
      <3>2. IsCall(d) /\ HoldsRight(d) /\ d.found = c.found /\ d.found_in = c.found_in
        BY <1>0, <1>2, <2>1 DEF IsCall, HoldsRight, HoldsNothing, CallFields, LookingUp
      <3> QED BY <1>0, <2>2, <3>1, <3>2, CallMovesAlone
    <2>3. CASE GiveBack(<<c.found>>) /\ GiveUp(t)
      <3>1. refs' = [h \in Handles |-> refs[h] - Is(c.found, h)]
        BY <1>0, <2>3, TakeOne
      <3>2. refs' \in [Handles -> Int]
        BY <1>0, <3>1 DEF Is
      <3>3. \A h \in Handles :
              refs'[h] = refs[h] + Is(givenUp.found, h) - Is(c.found, h)
                                 + Is(givenUp.found_in, h) - Is(c.found_in, h)
        BY <1>0, <1>1, <1>4, <2>1, <3>1 DEF Is
      <3> QED BY <1>0, <1>1, <1>3, <2>3, <3>2, <3>3, CallMoves
    <2> QED BY <1>6, <2>2, <2>3 DEF ReadBlock
  <1>7. CASE RefFoundIn(t)
    <2>1. c.at = "ref_found_in" /\ c.found_in = None
      BY <1>0, <1>7 DEF RefFoundIn, At, HoldsRight, HoldsNothing
    <2>2. CASE IsOpen(c.hit.found_in)
      <3> DEFINE h0 == c.hit.found_in
                 d == [c EXCEPT !.found_in = h0, !.at = "write"]
      <3>1. call' = [call EXCEPT ![t] = d] /\ Take(<<h0>>)
        BY <1>7, <2>2 DEF RefFoundIn
      <3>2. IsCall(d) /\ HoldsRight(d) /\ d.found = c.found /\ d.found_in = h0
        BY <1>0, <2>1 DEF IsCall, HoldsRight, HoldsNothing, CallFields, LookingUp
      <3>3. refs' = [h \in Handles |-> refs[h] + Is(h0, h)]
        BY <1>0, <3>1, TakeOne
      <3> HIDE DEF d
      <3>4. refs' \in [Handles -> Int]
        BY <1>0, <3>3 DEF Is
      <3>5. \A h \in Handles :
              refs'[h] = refs[h] + Is(d.found, h) - Is(c.found, h)
                                 + Is(d.found_in, h) - Is(c.found_in, h)
        BY <1>0, <1>4, <2>1, <3>2, <3>3 DEF Is
      <3> QED BY <1>0, <3>1, <3>2, <3>4, <3>5, CallMoves
    <2>3. CASE GiveBack(<<c.found>>) /\ GiveUp(t)
      <3>1. refs' = [h \in Handles |-> refs[h] - Is(c.found, h)]
        BY <1>0, <2>3, TakeOne
      <3>2. refs' \in [Handles -> Int]
        BY <1>0, <3>1 DEF Is
      <3>3. \A h \in Handles :
              refs'[h] = refs[h] + Is(givenUp.found, h) - Is(c.found, h)
                                 + Is(givenUp.found_in, h) - Is(c.found_in, h)
        BY <1>0, <1>1, <1>4, <2>1, <3>1 DEF Is
      <3> QED BY <1>0, <1>1, <1>3, <2>3, <3>2, <3>3, CallMoves
    <2> QED BY <1>7, <2>2, <2>3 DEF RefFoundIn
  <1> QED BY <1>5, <1>6, <1>7

LEMMA EndKeeps ==
  ASSUME RefsInv, NEW t \in Threads,
         Write(t) \/ Delegate(t) \/ Record(t) \/ CallerDone(t)
  PROVE  RefsInv'
  <1> DEFINE c == call[t]
  <1>0. /\ refs \in [Handles -> Int] /\ IsCall(c) /\ HoldsRight(c) /\ TableShape
        /\ None \notin Handles
    BY FileCacheAssumption DEF RefsInv, CallShape
  <1>1. \A h \in Handles : Is(None, h) = 0
    BY <1>0 DEF Is
  <1>2. \A a, h : Is(a, h) \in Int
    BY DEF Is
  <1>3. CASE Write(t)
    <2> DEFINE lent == "archive" \notin c.outs
               found == IF lent THEN None ELSE c.found
               d == [Idle EXCEPT !.at = IF {found, c.found_in} = {None} THEN "idle" ELSE "returned",
                                 !.found = found, !.found_in = c.found_in]
    <2>1. /\ call' = [call EXCEPT ![t] = d] /\ TableShape'
          /\ GiveBack(IF lent THEN <<c.found>> ELSE <<>>)
      BY <1>0, <1>3 DEF Write, Return, TableShape
    <2>2. IsCall(d) /\ HoldsRight(d) /\ d.found = found /\ d.found_in = c.found_in
      BY DEF Idle, IsCall, HoldsRight, HoldsNothing, CallFields, LookingUp
    <2> HIDE DEF d
    <2>3. CASE lent
      <3>1. refs' = [h \in Handles |-> refs[h] - Is(c.found, h)]
        BY <1>0, <2>1, <2>3, TakeOne
      <3>2. refs' \in [Handles -> Int]
        BY <1>0, <1>2, <3>1
      <3>3. \A h \in Handles :
              refs'[h] = refs[h] + Is(d.found, h) - Is(c.found, h)
                                 + Is(d.found_in, h) - Is(c.found_in, h)
        BY <1>0, <1>1, <1>2, <2>2, <2>3, <3>1
      <3> QED BY <1>0, <2>1, <2>2, <3>2, <3>3, CallMoves
    <2>4. CASE ~lent
      <3>1. refs' = refs
        BY <1>0, <2>1, <2>4, TakeOne
      <3> QED BY <1>0, <2>1, <2>2, <2>4, <3>1, CallMovesAlone
    <2> QED BY <2>3, <2>4
  <1>4. CASE Delegate(t)
    <2>1. PICK d : /\ call' = [call EXCEPT ![t] = d]
                   /\ Take(<<d.found, d.found_in>>)
                   /\ IsCall(d) /\ HoldsRight(d)
      <3> DEFINE owner == Owner(c.key)
                 answers == FoundFor(c.key)
                 found == IF "archive" \in c.outs THEN answers ELSE None
                 found_in == IF "found_in" \in c.outs THEN owner ELSE None
                 hit == IF owner = None THEN NoHit
                        ELSE [negative |-> FALSE, found |-> found, found_in |-> found_in,
                              block |-> IF "block" \in c.outs
                                        THEN blocks[answers][c.key.name] ELSE 0,
                              known |-> c.outs,
                              block_of |-> IF "block" \in c.outs THEN answers ELSE None,
                              straddled |-> FALSE]
                 d == [c EXCEPT !.at = "record", !.found = found, !.found_in = found_in,
                                !.ret = IF owner = None THEN 0 ELSE 1, !.hit = hit]
      <3>1. call' = [call EXCEPT ![t] = d] /\ Take(<<found, found_in>>)
        BY <1>4 DEF Delegate
      <3>2. DOMAIN hit = HitFields
        BY DEF NoHit, HitFields
      <3> HIDE DEF hit
      <3>3. c.key \in Keys
        BY <1>0, <1>4 DEF Delegate, At, IsCall, LookingUp
      <3>4. IsCall(d) /\ HoldsRight(d) /\ d.found = found /\ d.found_in = found_in
        BY <1>0, <3>2, <3>3 DEF IsCall, HoldsRight, HoldsNothing, CallFields, LookingUp
      <3> QED BY <3>1, <3>4
    <2>2. c.found = None /\ c.found_in = None /\ TableShape'
      BY <1>0, <1>4 DEF Delegate, At, HoldsRight, HoldsNothing, TableShape
    <2>3. refs' = [h \in Handles |-> refs[h] + (Is(d.found, h) + Is(d.found_in, h))]
      <3>1. refs \in [Handles -> Int] /\ Take(<<d.found, d.found_in>>)
        BY <1>0, <2>1
      <3> HIDE DEF c
      <3> QED BY <3>1, TakeTwo
    <2>4. refs' \in [Handles -> Int]
      BY <1>0, <1>2, <2>3
    <2>5. \A h \in Handles :
            refs'[h] = refs[h] + Is(d.found, h) - Is(c.found, h)
                               + Is(d.found_in, h) - Is(c.found_in, h)
      <3> SUFFICES ASSUME NEW h \in Handles
                   PROVE  refs'[h] = refs[h] + Is(d.found, h) - Is(c.found, h)
                                             + Is(d.found_in, h) - Is(c.found_in, h)
        OBVIOUS
      <3>1. Is(c.found, h) = 0 /\ Is(c.found_in, h) = 0
        BY <1>1, <2>2
      <3>2. refs'[h] = refs[h] + (Is(d.found, h) + Is(d.found_in, h))
        BY <2>3
      <3>3. Is(d.found, h) \in Int /\ Is(d.found_in, h) \in Int /\ refs[h] \in Int
        BY <1>0, <1>2
      <3> QED BY <3>1, <3>2, <3>3
    <2> QED BY <2>1, <2>2, <2>4, <2>5, CallMoves
  <1>5. CASE Record(t)
    <2> DEFINE d == [Idle EXCEPT !.at = IF {c.found, c.found_in} = {None} THEN "idle" ELSE "returned",
                                 !.found = c.found, !.found_in = c.found_in]
    <2>1. call' = [call EXCEPT ![t] = d] /\ refs' = refs
      BY <1>5 DEF Record, Return, stormVars
    <2>2. IsCall(d) /\ HoldsRight(d) /\ d.found = c.found /\ d.found_in = c.found_in
      BY DEF Idle, IsCall, HoldsRight, HoldsNothing, CallFields, LookingUp
    <2> HIDE DEF d
    <2>3. TableShape'
      <3>1. c.key \in Keys
        BY <1>0, <1>5 DEF Record, At, IsCall, LookingUp
      <3>2. CASE table' = table
        BY <1>0, <3>2 DEF TableShape
      <3>3. CASE Insert(c.key, [c.hit EXCEPT !.straddled = c.straddled])
        BY <1>0, <3>1, <3>3, InsertShape
      <3> QED BY <1>5, <3>2, <3>3 DEF Record
    <2> QED BY <2>1, <2>2, <2>3, CallMovesAlone
  <1>6. CASE CallerDone(t)
    <2>1. /\ call' = [call EXCEPT ![t] = Idle] /\ TableShape'
          /\ GiveBack(<<c.found, c.found_in>>)
      BY <1>0, <1>6 DEF CallerDone, TableShape
    <2>2. IsCall(Idle) /\ HoldsRight(Idle) /\ Idle.found = None /\ Idle.found_in = None
      BY DEF Idle, IsCall, HoldsRight, CallFields, LookingUp
    <2>3. refs' = [h \in Handles |-> refs[h] - (Is(c.found, h) + Is(c.found_in, h))]
      <3>1. refs \in [Handles -> Int] /\ GiveBack(<<c.found, c.found_in>>)
        BY <1>0, <2>1
      <3> HIDE DEF c
      <3> QED BY <3>1, TakeTwo
    <2>4. refs' \in [Handles -> Int]
      BY <1>0, <1>2, <2>3
    <2>5. \A h \in Handles :
            refs'[h] = refs[h] + Is(Idle.found, h) - Is(c.found, h)
                               + Is(Idle.found_in, h) - Is(c.found_in, h)
      <3> SUFFICES ASSUME NEW h \in Handles
                   PROVE  refs'[h] = refs[h] + Is(Idle.found, h) - Is(c.found, h)
                                             + Is(Idle.found_in, h) - Is(c.found_in, h)
        OBVIOUS
      <3>1. Is(Idle.found, h) = 0 /\ Is(Idle.found_in, h) = 0
        BY <1>1, <2>2
      <3>2. refs'[h] = refs[h] - (Is(c.found, h) + Is(c.found_in, h))
        BY <2>3
      <3>3. Is(c.found, h) \in Int /\ Is(c.found_in, h) \in Int /\ refs[h] \in Int
        BY <1>0, <1>2
      <3> QED BY <3>1, <3>2, <3>3
    <2> QED BY <2>1, <2>2, <2>4, <2>5, CallMoves
  <1> QED BY <1>3, <1>4, <1>5, <1>6

-----------------------------------------------------------------------------
(* Mounts and unmounts.                                                    *)

(* What a mount, an unmount and a flush do to the calls: the answers not   *)
(* recorded yet are marked, and the thread's own call may go to its flush. *)
Marked(t) ==
  /\ refs' = refs /\ DOMAIN call' = Threads
  /\ At(t, "idle") \/ At(t, "flush")
  /\ call'[t].at \in {"idle", "flush"} /\ DOMAIN call'[t] = CallFields
  /\ call'[t].found = call[t].found /\ call'[t].found_in = call[t].found_in
  /\ \A u \in Threads \ {t} :
       /\ DOMAIN call'[u] = CallFields
       /\ \A field \in CallFields \ {"straddled"} : call'[u][field] = call[u][field]

LEMMA ChangeMarks ==
  ASSUME RefsInv, NEW t \in Threads, Change(t)
  PROVE  Marked(t) /\ TableShape'
  <1>0. CallShape /\ TableShape
    BY DEF RefsInv
  <1>1. /\ DOMAIN Straddling = Threads
        /\ \A u \in Threads :
             /\ DOMAIN Straddling[u] = CallFields
             /\ \A field \in CallFields \ {"straddled"} : Straddling[u][field] = call[u][field]
    BY <1>0 DEF Straddling, CallShape, IsCall
  <1>2. "at" \in CallFields /\ "found" \in CallFields /\ "found_in" \in CallFields
    BY DEF CallFields
  <1>3. CASE \E h \in Handles, content \in BlockTables, i \in 1 .. Len(open) + 1 :
               Mount(t, h, content, i)
    <2>1. /\ call' = [Straddling EXCEPT ![t].at = "flush"]
          /\ refs' = refs /\ table' = table /\ At(t, "idle")
      BY <1>3 DEF Mount, ListChanges
    <2> QED BY <1>0, <1>1, <1>2, <2>1 DEF Marked, TableShape
  <1>4. CASE \E h \in Handles : Unmount(t, h)
    <2>1. /\ call' = [Straddling EXCEPT ![t].at = "flush"]
          /\ refs' = refs /\ table' = table /\ At(t, "idle")
      BY <1>4 DEF Unmount, ListChanges
    <2> QED BY <1>0, <1>1, <1>2, <2>1 DEF Marked, TableShape
  <1>5. CASE MountFails(t)
    <2>1. /\ call' = [call EXCEPT ![t].at = "flush"]
          /\ refs' = refs /\ table' = table /\ At(t, "idle")
      BY <1>5 DEF MountFails, Goto, stormVars
    <2> QED BY <1>0, <1>2, <2>1 DEF Marked, TableShape, CallShape, IsCall
  <1>6. CASE Flush(t)
    <2>1. /\ call' = [call EXCEPT ![t].at = "idle"]
          /\ refs' = refs /\ table' = [b \in Buckets |-> EmptyBucket] /\ At(t, "flush")
      BY <1>6 DEF Flush, Goto, stormVars
    <2>2. TableShape'
      BY <2>1 DEF TableShape, EmptyBucket, Ways
    <2>3. Marked(t)
      BY <1>0, <1>2, <2>1 DEF Marked, CallShape, IsCall
    <2> QED BY <2>2, <2>3
  <1> QED BY <1>3, <1>4, <1>5, <1>6 DEF Change

LEMMA ChangeKeeps ==
  ASSUME RefsInv, NEW t \in Threads, Change(t)
  PROVE  RefsInv'
  <1>1. Marked(t) /\ TableShape'
    BY ChangeMarks
  <1>2. \A u \in Threads : call'[u].found = call[u].found /\ call'[u].found_in = call[u].found_in
    BY <1>1 DEF Marked, CallFields
  <1>3. RefsAccounted'
    BY <1>1, <1>2 DEF Marked, RefsInv, RefsAccounted
  <1>4. \A u \in Threads : IsCall(call'[u]) /\ HoldsRight(call'[u])
    BY <1>1 DEF Marked, RefsInv, CallShape, IsCall, HoldsRight, HoldsNothing, CallFields,
       LookingUp, At
  <1> QED BY <1>1, <1>3, <1>4 DEF Marked, RefsInv, CallShape

LEMMA RefsInvInit ==
  ASSUME Init
  PROVE  RefsInv
  <1>1. IsCall(Idle) /\ HoldsRight(Idle) /\ Idle.found = None /\ Idle.found_in = None
    BY DEF Idle, IsCall, HoldsRight, CallFields, LookingUp
  <1>2. CallShape /\ \A t \in Threads : HoldsRight(call[t])
    BY <1>1 DEF Init, CallShape
  <1>3. TableShape
    BY DEF Init, TableShape, EmptyBucket, Ways
  <1>4. RefsAccounted
    <2> SUFFICES ASSUME NEW h \in Handles
                 PROVE  refs[h] = Cardinality({t \in Threads : call[t].found = h})
                                  + Cardinality({t \in Threads : call[t].found_in = h})
      BY DEF RefsAccounted
    <2>1. \A t \in Threads : call[t].found # h /\ call[t].found_in # h
      BY <1>1, FileCacheAssumption DEF Init
    <2>2. /\ {t \in Threads : call[t].found = h} = {}
          /\ {t \in Threads : call[t].found_in = h} = {}
      BY <2>1
    <2>3. refs[h] = 0
      BY DEF Init
    <2>4. Cardinality({}) = 0
      BY FS_EmptySet
    <2>5. Cardinality({}) + Cardinality({}) = 0
      BY <2>4
    <2> QED BY <2>2, <2>3, <2>5
  <1> QED BY <1>2, <1>3, <1>4 DEF RefsInv, Init

LEMMA RefsInvStep ==
  ASSUME RefsInv, [Next]_vars
  PROVE  RefsInv'
  <1>1. CASE Next
    <2>1. PICK t \in Threads : Lookup(t) \/ Change(t)
      BY <1>1 DEF Next
    <2>2. CASE Lookup(t)
      BY <2>2, ProbeKeeps, ReplayKeeps, EndKeeps DEF Lookup
    <2>3. CASE Change(t)
      BY <2>3, ChangeKeeps
    <2> QED BY <2>1, <2>2, <2>3
  <1>2. CASE UNCHANGED vars
    BY <1>2 DEF vars, stormVars, RefsInv, CallShape, TableShape, RefsAccounted
  <1> QED BY <1>1, <1>2

(* Every reference to an archive is held by a caller or by a replay that   *)
(* is still running, wherever the replay is given up: RefsAccounted.       *)
THEOREM NoReferenceLeaks == Spec => []RefsAccounted
  <1>1. Init => RefsInv
    BY RefsInvInit
  <1>2. RefsInv /\ [Next]_vars => RefsInv'
    BY RefsInvStep
  <1>3. RefsInv => RefsAccounted
    BY DEF RefsInv
  <1> QED BY <1>1, <1>2, <1>3, PTL DEF Spec

-----------------------------------------------------------------------------
(* Records are current: what a lookup has asked for and not recorded yet   *)
(* is what stock would answer now, unless a change marked it.              *)

InFlight ==
  \A t \in Threads : At(t, "record") => call[t].straddled \/ Agrees(call[t].key, call[t].hit)

RecordsInv == RefsInv /\ InFlight /\ RecordsCurrent

(* An answer depends on the list and on what the archives hold only.       *)
LEMMA AnswersKept ==
  ASSUME UNCHANGED <<open, blocks>>
  PROVE  \A k, hit : Agrees(k, hit)' <=> Agrees(k, hit)
  <1>1. \A k : Owner(k)' = Owner(k)
    BY DEF Owner, Owners
  <1>2. \A k : FoundFor(k)' = FoundFor(k)
    BY <1>1 DEF FoundFor, IsOpen
  <1> QED BY <1>1, <1>2 DEF Agrees

LEMMA MergedAgrees ==
  ASSUME NEW k, NEW old, NEW new,
         old.straddled \/ Agrees(k, old), new.straddled \/ Agrees(k, new)
  PROVE  Merged(old, new).straddled \/ Agrees(k, Merged(old, new))
  <1> DEFINE found == IF "archive" \in new.known THEN new.found ELSE old.found
             keeps == "block" \in new.known \/ ("block" \in old.known /\ found = old.found)
             m == Merged(old, new)
  <1>1. CASE old.negative \/ new.negative
    BY <1>1 DEF Merged
  <1>2. CASE ~(old.negative \/ new.negative)
    <2>1. /\ m.negative = FALSE /\ m.found = found
          /\ m.found_in = IF "found_in" \in new.known THEN new.found_in ELSE old.found_in
          /\ m.block = IF "block" \in new.known THEN new.block ELSE IF keeps THEN old.block ELSE 0
          /\ m.known = ((old.known \cup new.known) \ {"block"})
                       \cup IF keeps THEN {"block"} ELSE {}
          /\ m.straddled = (old.straddled \/ new.straddled)
      BY <1>2 DEF Merged
    <2>2. CASE old.straddled \/ new.straddled
      BY <2>1, <2>2
    <2>3. CASE ~old.straddled /\ ~new.straddled
      <3>1. Agrees(k, old) /\ Agrees(k, new)
        BY <2>3
      <3>2. Owner(k) # None
        BY <1>2, <3>1 DEF Agrees
      <3>3. "archive" \in m.known => m.found = FoundFor(k)
        BY <1>2, <2>1, <3>1 DEF Agrees
      <3>4. "found_in" \in m.known => m.found_in = Owner(k)
        BY <1>2, <2>1, <3>1 DEF Agrees
      <3>5. "block" \in m.known => m.block = blocks[FoundFor(k)][k.name]
        BY <1>2, <2>1, <3>1 DEF Agrees
      <3> QED BY <2>1, <3>2, <3>3, <3>4, <3>5 DEF Agrees
    <2> QED BY <2>2, <2>3
  <1> QED BY <1>1, <1>2

(* What stock just answered agrees with stock.                             *)
LEMMA DelegateAgrees ==
  ASSUME RefsInv, NEW t \in Threads, Delegate(t)
  PROVE  Agrees(call'[t].key, call'[t].hit)
  <1> DEFINE c == call[t]
             owner == Owner(c.key)
             answers == FoundFor(c.key)
             found == IF "archive" \in c.outs THEN answers ELSE None
             found_in == IF "found_in" \in c.outs THEN owner ELSE None
             hit == IF owner = None THEN NoHit
                    ELSE [negative |-> FALSE, found |-> found, found_in |-> found_in,
                          block |-> IF "block" \in c.outs
                                    THEN blocks[answers][c.key.name] ELSE 0,
                          known |-> c.outs,
                          block_of |-> IF "block" \in c.outs THEN answers ELSE None,
                          straddled |-> FALSE]
  <1>1. call' = [call EXCEPT ![t] = [c EXCEPT !.at = "record", !.found = found,
                   !.found_in = found_in, !.ret = IF owner = None THEN 0 ELSE 1, !.hit = hit]]
    BY DEF Delegate
  <1>2. DOMAIN c = CallFields /\ DOMAIN call = Threads
    BY DEF RefsInv, CallShape, IsCall
  <1>3. Agrees(c.key, hit)
    <2>1. CASE owner = None
      BY <2>1 DEF Agrees, NoHit
    <2>2. CASE owner # None
      BY <2>2 DEF Agrees
    <2> QED BY <2>1, <2>2
  <1>4. call'[t].key = c.key /\ call'[t].hit = hit
    <2> HIDE DEF hit, found, found_in
    <2> QED BY <1>1, <1>2 DEF CallFields
  <1> QED BY <1>3, <1>4

(* What a lookup's step does to the other calls and to its own.            *)
LEMMA LookupIsLocal ==
  ASSUME RefsInv, NEW t \in Threads, Lookup(t)
  PROVE  /\ UNCHANGED <<open, blocks>>
         /\ \A u \in Threads \ {t} : call'[u] = call[u]
         /\ call[t].at # "flush" /\ call'[t].at # "flush"
         /\ ~Delegate(t) => call'[t].at # "record"
  <1>1. DOMAIN call = Threads /\ DOMAIN call[t] = CallFields
    BY DEF RefsInv, CallShape, IsCall
  <1>2. \A outs : /\ AfterProbe(outs) \in {"ref_found", "read_block", "ref_found_in", "write"}
                  /\ AfterFound(outs) \in {"read_block", "ref_found_in", "write"}
                  /\ AfterBlock(outs) \in {"ref_found_in", "write"}
    BY DEF AfterProbe, AfterFound, AfterBlock
  <1>3. /\ UNCHANGED <<open, blocks>>
        /\ call[t].at # "flush"
    BY DEF Lookup, Probe, RefFound, ReadBlock, RefFoundIn, Write, Delegate, Record,
           CallerDone, At, stormVars
  <1> DEFINE places == {"idle", "delegate", "ref_found", "read_block", "ref_found_in",
                        "write", "returned"}
             Alone == \A u \in Threads \ {t} : call'[u] = call[u]
             Moves == Alone /\ call'[t].at \in places
  <1>4. \A c : call' = [call EXCEPT ![t] = c] => Alone /\ call'[t] = c
    BY <1>1
  <1>5. GiveUp(t) => Moves
    <2> SUFFICES ASSUME GiveUp(t) PROVE Moves
      OBVIOUS
    <2> DEFINE c == [Idle EXCEPT !.at = "delegate", !.key = call[t].key, !.outs = call[t].outs]
    <2>1. Alone /\ call'[t] = c
      BY <1>4 DEF GiveUp
    <2>2. c.at = "delegate"
      BY DEF Idle
    <2> QED BY <2>1, <2>2
  <1>6. \A f, g : Return(t, f, g) => Moves
    <2> SUFFICES ASSUME NEW f, NEW g, Return(t, f, g) PROVE Moves
      OBVIOUS
    <2> DEFINE at == IF {f, g} = {None} THEN "idle" ELSE "returned"
               c == [Idle EXCEPT !.at = at, !.found = f, !.found_in = g]
    <2>1. Alone /\ call'[t] = c
      BY <1>4 DEF Return
    <2>2. at \in places
      OBVIOUS
    <2> HIDE DEF at
    <2>3. c.at = at
      BY DEF Idle
    <2> QED BY <2>1, <2>2, <2>3
  <1>7. \A where \in places : Goto(t, where) => Moves
    BY <1>1 DEF Goto, CallFields
  <1>8. ASSUME \E k \in Keys, outs \in Shapes : Probe(t, k, outs) PROVE Moves
    <2>1. PICK k \in Keys, outs \in Shapes : Probe(t, k, outs)
      BY <1>8
    <2> DEFINE begun == [Idle EXCEPT !.key = k, !.outs = outs]
               hit == table[BucketOf[k]].ways[Min(WaysOf(k))].hit
               asks == [begun EXCEPT !.at = "delegate"]
               replays == [begun EXCEPT !.hit = hit, !.at = AfterProbe(outs)]
    <2>2. \/ call' = [call EXCEPT ![t] = asks]
          \/ call' = [call EXCEPT ![t] = replays]
          \/ Return(t, None, None)
      BY <2>1 DEF Probe
    <2> HIDE DEF hit
    <2>3. asks.at = "delegate" /\ replays.at = AfterProbe(outs)
      BY DEF Idle
    <2> HIDE DEF asks, replays
    <2>4. CASE call' = [call EXCEPT ![t] = asks]
      BY <1>4, <2>3, <2>4
    <2>5. CASE call' = [call EXCEPT ![t] = replays]
      BY <1>2, <1>4, <2>3, <2>5
    <2> QED BY <1>6, <2>2, <2>4, <2>5
  <1>9. ASSUME RefFound(t) PROVE Moves
    <2> DEFINE c == call[t]
               d == [c EXCEPT !.found = c.hit.found, !.at = AfterFound(c.outs)]
    <2>1. call' = [call EXCEPT ![t] = d] \/ GiveUp(t)
      BY <1>9 DEF RefFound
    <2>2. d.at = AfterFound(c.outs)
      BY <1>1 DEF CallFields
    <2> HIDE DEF d
    <2>3. CASE call' = [call EXCEPT ![t] = d]
      BY <1>2, <1>4, <2>2, <2>3
    <2> QED BY <1>5, <2>1, <2>3
  <1>10. ASSUME ReadBlock(t) PROVE Moves
    <2>1. AfterBlock(call[t].outs) \in places
      BY <1>2
    <2> HIDE DEF Moves, places
    <2> QED BY <1>5, <1>7, <1>10, <2>1 DEF ReadBlock
  <1>11. ASSUME RefFoundIn(t) PROVE Moves
    <2> DEFINE c == call[t]
               d == [c EXCEPT !.found_in = c.hit.found_in, !.at = "write"]
    <2>1. call' = [call EXCEPT ![t] = d] \/ GiveUp(t)
      BY <1>11 DEF RefFoundIn
    <2>2. d.at = "write"
      BY <1>1 DEF CallFields
    <2> HIDE DEF d
    <2>3. CASE call' = [call EXCEPT ![t] = d]
      BY <1>4, <2>2, <2>3
    <2> QED BY <1>5, <2>1, <2>3
  <1>12. ASSUME Write(t) PROVE Moves
    <2>1. \E f, g : Return(t, f, g)
      BY <1>12 DEF Write
    <2> HIDE DEF Moves
    <2> QED BY <1>6, <2>1
  <1>13. ASSUME Record(t) PROVE Moves
    <2>1. \E f, g : Return(t, f, g)
      BY <1>13 DEF Record
    <2> HIDE DEF Moves
    <2> QED BY <1>6, <2>1
  <1>14. ASSUME CallerDone(t) PROVE Moves
    <2>1. call' = [call EXCEPT ![t] = Idle] /\ Idle.at = "idle"
      BY <1>14 DEF CallerDone, Idle
    <2> QED BY <1>4, <2>1
  <1>15. CASE Delegate(t)
    <2> DEFINE c == call[t]
    <2>1. PICK d : call' = [call EXCEPT ![t] = d] /\ d.at = "record"
      <3> DEFINE owner == Owner(c.key)
                 answers == FoundFor(c.key)
                 x == IF "archive" \in c.outs THEN answers ELSE None
                 y == IF "found_in" \in c.outs THEN owner ELSE None
                 z == IF owner = None THEN 0 ELSE 1
                 v == IF owner = None THEN NoHit
                      ELSE [negative |-> FALSE, found |-> x, found_in |-> y,
                            block |-> IF "block" \in c.outs
                                      THEN blocks[answers][c.key.name] ELSE 0,
                            known |-> c.outs,
                            block_of |-> IF "block" \in c.outs THEN answers ELSE None,
                            straddled |-> FALSE]
                 d == [c EXCEPT !.at = "record", !.found = x, !.found_in = y, !.ret = z,
                                !.hit = v]
      <3>1. call' = [call EXCEPT ![t] = d]
        BY <1>15 DEF Delegate
      <3> HIDE DEF x, y, z, v
      <3>2. d.at = "record"
        BY <1>1 DEF CallFields
      <3> QED BY <3>1, <3>2
    <2>2. Alone /\ call'[t].at = "record"
      BY <1>4, <2>1
    <2> QED BY <1>3, <1>15, <2>2
  <1>16. Moves => call'[t].at # "flush" /\ call'[t].at # "record"
    OBVIOUS
  <1>17. Moves \/ Delegate(t)
    <2> HIDE DEF Moves
    <2> QED BY <1>8, <1>9, <1>10, <1>11, <1>12, <1>13, <1>14 DEF Lookup
  <1> QED BY <1>3, <1>15, <1>16, <1>17

LEMMA RecordKeepsCurrent ==
  ASSUME RecordsInv, NEW t \in Threads, Record(t)
  PROVE  RecordsCurrent'
  <1> DEFINE c == call[t]
             hit == [c.hit EXCEPT !.straddled = c.straddled]
  <1>1. /\ At(t, "record") /\ TableShape /\ c.key \in Keys /\ DOMAIN c.hit = HitFields
        /\ c.straddled \/ Agrees(c.key, c.hit)
    BY DEF Record, RecordsInv, RefsInv, CallShape, IsCall, LookingUp, At, InFlight
  <1>2. hit.straddled \/ Agrees(c.key, hit)
    <2>1. /\ hit.straddled = c.straddled /\ hit.negative = c.hit.negative
          /\ hit.found = c.hit.found /\ hit.found_in = c.hit.found_in
          /\ hit.block = c.hit.block /\ hit.known = c.hit.known
      BY <1>1 DEF HitFields
    <2> QED BY <1>1, <2>1 DEF Agrees
  <1>3. /\ \A k, h : Agrees(k, h)' <=> Agrees(k, h)
        /\ \A u \in Threads : At(u, "flush")' <=> At(u, "flush")
    <2>1. Lookup(t)
      BY DEF Lookup
    <2>2. RefsInv
      BY DEF RecordsInv
    <2> QED BY <2>1, <2>2, LookupIsLocal, AnswersKept DEF At
  <1>4. SUFFICES ASSUME \A u \in Threads : ~At(u, "flush"),
                        NEW b \in Buckets, NEW w \in Ways, table'[b].ways[w].used
                 PROVE  \/ table'[b].ways[w].hit.straddled
                        \/ Agrees(table'[b].ways[w].key, table'[b].ways[w].hit)
    BY <1>3 DEF RecordsCurrent
  <1>5. table[b].ways[w].used => \/ table[b].ways[w].hit.straddled
                                 \/ Agrees(table[b].ways[w].key, table[b].ways[w].hit)
    BY <1>4 DEF RecordsInv, RecordsCurrent
  <1>6. CASE table' = table
    BY <1>4, <1>5, <1>6
  <1>7. CASE Insert(c.key, hit)
    <2>1. table'[b].ways[w] =
            IF b = BucketOf[c.key] /\ w = WayFor(c.key)
            THEN [used |-> TRUE, key |-> c.key,
                  hit |-> IF WaysOf(c.key) = {} THEN hit
                          ELSE Merged(table[b].ways[w].hit, hit)]
            ELSE table[b].ways[w]
      BY <1>1, <1>7, InsertShape
    <2> HIDE DEF hit
    <2>2. CASE ~(b = BucketOf[c.key] /\ w = WayFor(c.key))
      BY <1>4, <1>5, <2>1, <2>2
    <2>3. CASE b = BucketOf[c.key] /\ w = WayFor(c.key) /\ WaysOf(c.key) = {}
      BY <1>2, <2>1, <2>3
    <2>4. CASE b = BucketOf[c.key] /\ w = WayFor(c.key) /\ WaysOf(c.key) # {}
      <3>1. table[b].ways[w].used /\ table[b].ways[w].key = c.key
        BY <1>1, <2>4, WayIsWay DEF WaysOf, Matches
      <3> DEFINE old == table[b].ways[w].hit
      <3>2. old.straddled \/ Agrees(c.key, old)
        BY <1>5, <3>1
      <3>3. /\ table'[b].ways[w].key = c.key
            /\ table'[b].ways[w].hit = Merged(old, hit)
        <4>1. table'[b].ways[w] =
                [used |-> TRUE, key |-> c.key, hit |-> Merged(table[b].ways[w].hit, hit)]
          BY <2>1, <2>4, Zenon
        <4> QED BY <4>1
      <3> HIDE DEF old
      <3>4. Merged(old, hit).straddled \/ Agrees(c.key, Merged(old, hit))
        BY <1>2, <3>2, MergedAgrees
      <3> QED BY <3>3, <3>4
    <2> QED BY <2>2, <2>3, <2>4
  <1> QED BY <1>6, <1>7 DEF Record

(* Only Record writes records: the rest of a lookup at most touches a way. *)
LEMMA OnlyRecordWrites ==
  ASSUME RefsInv, NEW t \in Threads, Lookup(t), ~Record(t)
  PROVE  \A b \in Buckets : table'[b].ways = table[b].ways
  <1>1. CASE table' = table
    BY <1>1
  <1>2. CASE \E k \in Keys, outs \in Shapes : Probe(t, k, outs)
    <2>1. PICK k \in Keys, outs \in Shapes : Probe(t, k, outs)
      BY <1>2
    <2>2. CASE table' = [table EXCEPT ![BucketOf[k]].evict_next = Touched(Min(WaysOf(k)))]
      BY <2>2 DEF RefsInv, TableShape
    <2> QED BY <1>1, <2>1, <2>2 DEF Probe
  <1> QED BY <1>1, <1>2 DEF Lookup, RefFound, ReadBlock, RefFoundIn, Write, Delegate, CallerDone

LEMMA ProbeKeepsCurrent ==
  ASSUME RecordsInv, NEW t \in Threads, Lookup(t), ~Record(t)
  PROVE  RecordsCurrent'
  <1>0. RefsInv
    BY DEF RecordsInv
  <1>1. /\ \A k, h : Agrees(k, h)' <=> Agrees(k, h)
        /\ \A u \in Threads : At(u, "flush")' <=> At(u, "flush")
    BY <1>0, LookupIsLocal, AnswersKept DEF At
  <1>2. \A b \in Buckets : table'[b].ways = table[b].ways
    BY <1>0, OnlyRecordWrites
  <1> QED BY <1>1, <1>2 DEF RecordsInv, RecordsCurrent

LEMMA LookupKeepsCurrent ==
  ASSUME RecordsInv, NEW t \in Threads, Lookup(t)
  PROVE  InFlight' /\ RecordsCurrent'
  <1>0. RefsInv
    BY DEF RecordsInv
  <1>1. RecordsCurrent'
    BY RecordKeepsCurrent, ProbeKeepsCurrent
  <1>2. SUFFICES ASSUME NEW u \in Threads, call'[u].at = "record"
                 PROVE  call'[u].straddled \/ Agrees(call'[u].key, call'[u].hit)
    <2>1. \A k, h : Agrees(k, h)' <=> Agrees(k, h)
      BY <1>0, LookupIsLocal, AnswersKept
    <2> QED BY <1>1, <2>1 DEF InFlight, At
  <1>3. CASE u # t
    BY <1>0, <1>2, <1>3, LookupIsLocal DEF RecordsInv, InFlight, At
  <1>4. CASE u = t
    BY <1>0, <1>2, <1>4, LookupIsLocal, DelegateAgrees
  <1> QED BY <1>3, <1>4

LEMMA ChangeKeepsCurrent ==
  ASSUME RecordsInv, NEW t \in Threads, Change(t)
  PROVE  InFlight' /\ RecordsCurrent'
  <1>0. CallShape /\ TableShape
    BY DEF RecordsInv, RefsInv
  <1>1. CASE \/ \E h \in Handles, content \in BlockTables, i \in 1 .. Len(open) + 1 :
                 Mount(t, h, content, i)
             \/ \E h \in Handles : Unmount(t, h)
    <2>1. call' = [Straddling EXCEPT ![t].at = "flush"]
      BY <1>1 DEF Mount, Unmount
    <2>2. /\ DOMAIN Straddling = Threads
          /\ \A u \in Threads :
               /\ "at" \in DOMAIN Straddling[u]
               /\ Straddling[u].at = call[u].at
               /\ At(u, "record") => Straddling[u].straddled
      BY <1>0 DEF Straddling, CallShape, IsCall, CallFields
    <2>3. At(t, "flush")' /\ RecordsCurrent'
      BY <2>1, <2>2 DEF At, RecordsCurrent
    <2>4. InFlight'
      BY <2>1, <2>2 DEF At, InFlight
    <2> QED BY <2>3, <2>4
  <1>2. CASE MountFails(t)
    <2>1. /\ call' = [call EXCEPT ![t].at = "flush"] /\ UNCHANGED <<open, blocks>>
      BY <1>2 DEF MountFails, Goto, stormVars
    <2>2. At(t, "flush")' /\ RecordsCurrent'
      BY <1>0, <2>1 DEF At, RecordsCurrent, CallShape, IsCall, CallFields
    <2>3. InFlight'
      BY <1>0, <2>1, AnswersKept DEF At, InFlight, CallShape, IsCall, CallFields, RecordsInv
    <2> QED BY <2>2, <2>3
  <1>3. CASE Flush(t)
    <2>1. /\ call' = [call EXCEPT ![t].at = "idle"] /\ UNCHANGED <<open, blocks>>
          /\ table' = [b \in Buckets |-> EmptyBucket]
      BY <1>3 DEF Flush, Goto, stormVars
    <2>2. RecordsCurrent'
      BY <2>1 DEF RecordsCurrent, EmptyBucket, EmptyEntry, Ways
    <2>3. InFlight'
      BY <1>0, <2>1, AnswersKept DEF At, InFlight, CallShape, IsCall, CallFields, RecordsInv
    <2> QED BY <2>2, <2>3
  <1> QED BY <1>1, <1>2, <1>3 DEF Change

(* When no flush is to come every record is what stock would answer now,   *)
(* whatever was merged into it: RecordsCurrent.                            *)
THEOREM RecordsAreCurrent == Spec => []RecordsCurrent
  <1>1. Init => RecordsInv
    <2>1. Init => InFlight /\ RecordsCurrent
      BY DEF Init, InFlight, At, Idle, RecordsCurrent, EmptyBucket, EmptyEntry, Ways
    <2> QED BY <2>1, RefsInvInit DEF RecordsInv
  <1>2. RecordsInv /\ [Next]_vars => RecordsInv'
    <2> SUFFICES ASSUME RecordsInv, [Next]_vars PROVE RecordsInv'
      OBVIOUS
    <2>1. RefsInv'
      BY RefsInvStep DEF RecordsInv
    <2>2. CASE Next
      <3>1. PICK t \in Threads : Lookup(t) \/ Change(t)
        BY <2>2 DEF Next
      <3> QED BY <2>1, <3>1, LookupKeepsCurrent, ChangeKeepsCurrent DEF RecordsInv
    <2>3. CASE UNCHANGED vars
      <3>1. \A k, h : Agrees(k, h)' <=> Agrees(k, h)
        BY <2>3, AnswersKept DEF vars, stormVars
      <3>2. InFlight' /\ RecordsCurrent'
        BY <2>3, <3>1 DEF vars, RecordsInv, InFlight, RecordsCurrent, At
      <3> QED BY <2>1, <3>2 DEF RecordsInv
    <2> QED BY <2>2, <2>3
  <1>3. RecordsInv => RecordsCurrent
    BY DEF RecordsInv
  <1> QED BY <1>1, <1>2, <1>3, PTL DEF Spec

-----------------------------------------------------------------------------
(* A block index stands beside its archive: what stock delivers is of a    *)
(* piece, what is recorded of it too, and so is what they merge to.        *)

Delivered ==
  \A t \in Threads : At(t, "record") =>
    LET c == call[t] IN
    /\ c.hit.known \in {{}, c.outs}
    /\ c.ret = 0 => c.hit.known = {}
    /\ {"archive", "block"} \subseteq c.hit.known => c.hit.block_of = c.hit.found

Whole(hit) ==
  "block" \in hit.known => "archive" \in hit.known /\ hit.block_of = hit.found

BlockInv == RefsInv /\ Delivered /\ BlockInItsArchive

LEMMA MergedWhole ==
  ASSUME NEW old, NEW new, Whole(old), Whole(new)
  PROVE  Whole(Merged(old, new))
  <1> DEFINE found == IF "archive" \in new.known THEN new.found ELSE old.found
             keeps == "block" \in new.known \/ ("block" \in old.known /\ found = old.found)
             m == Merged(old, new)
  <1>1. CASE old.negative \/ new.negative
    BY <1>1 DEF Merged
  <1>2. CASE ~(old.negative \/ new.negative)
    <2>1. /\ m.found = found
          /\ m.block_of = IF "block" \in new.known THEN new.block_of
                          ELSE IF keeps THEN old.block_of ELSE None
          /\ m.known = ((old.known \cup new.known) \ {"block"})
                       \cup IF keeps THEN {"block"} ELSE {}
      BY <1>2 DEF Merged
    <2>2. "archive" \in old.known \cup new.known => "archive" \in m.known
      BY <2>1
    <2>3. "block" \in m.known => keeps
      BY <2>1
    <2>4. CASE "block" \in new.known
      BY <2>1, <2>2, <2>4 DEF Whole
    <2>5. CASE "block" \notin new.known
      BY <2>1, <2>2, <2>3, <2>5 DEF Whole
    <2> QED BY <2>4, <2>5
  <1> QED BY <1>1, <1>2

LEMMA DelegateDelivers ==
  ASSUME RefsInv, NEW t \in Threads, Delegate(t)
  PROVE  /\ call'[t].hit.known \in {{}, call'[t].outs}
         /\ call'[t].ret = 0 => call'[t].hit.known = {}
         /\ {"archive", "block"} \subseteq call'[t].hit.known =>
              call'[t].hit.block_of = call'[t].hit.found
  <1> DEFINE c == call[t]
             owner == Owner(c.key)
             answers == FoundFor(c.key)
             found == IF "archive" \in c.outs THEN answers ELSE None
             found_in == IF "found_in" \in c.outs THEN owner ELSE None
             ret == IF owner = None THEN 0 ELSE 1
             hit == IF owner = None THEN NoHit
                    ELSE [negative |-> FALSE, found |-> found, found_in |-> found_in,
                          block |-> IF "block" \in c.outs
                                    THEN blocks[answers][c.key.name] ELSE 0,
                          known |-> c.outs,
                          block_of |-> IF "block" \in c.outs THEN answers ELSE None,
                          straddled |-> FALSE]
  <1>1. call' = [call EXCEPT ![t] = [c EXCEPT !.at = "record", !.found = found,
                   !.found_in = found_in, !.ret = ret, !.hit = hit]]
    BY DEF Delegate
  <1>2. DOMAIN c = CallFields /\ DOMAIN call = Threads
    BY DEF RefsInv, CallShape, IsCall
  <1>3. /\ hit.known \in {{}, c.outs} /\ (ret = 0 => hit.known = {})
        /\ {"archive", "block"} \subseteq hit.known => hit.block_of = hit.found
    <2>1. CASE owner = None
      <3>1. hit.known = {}
        BY <2>1 DEF NoHit
      <3> HIDE DEF hit
      <3> QED BY <3>1
    <2>2. CASE owner # None
      BY <2>2
    <2> QED BY <2>1, <2>2
  <1>4. call'[t].outs = c.outs /\ call'[t].ret = ret /\ call'[t].hit = hit
    <2> HIDE DEF hit, found, found_in, ret
    <2> QED BY <1>1, <1>2 DEF CallFields
  <1> HIDE DEF hit, ret
  <1> QED BY <1>3, <1>4

LEMMA RecordKeepsBlocks ==
  ASSUME BlockInv, NEW t \in Threads, Record(t)
  PROVE  BlockInItsArchive'
  <1> DEFINE c == call[t]
             hit == [c.hit EXCEPT !.straddled = c.straddled]
  <1>1. /\ TableShape /\ c.key \in Keys /\ DOMAIN c.hit = HitFields
        /\ c.hit.known \in {{}, c.outs} /\ (c.ret = 0 => c.hit.known = {})
        /\ {"archive", "block"} \subseteq c.hit.known => c.hit.block_of = c.hit.found
    BY DEF Record, BlockInv, RefsInv, CallShape, IsCall, LookingUp, At, Delivered
  <1>2. hit.known = c.hit.known /\ hit.block_of = c.hit.block_of /\ hit.found = c.hit.found
    BY <1>1 DEF HitFields
  <1> SUFFICES ASSUME NEW b \in Buckets, NEW w \in Ways, table'[b].ways[w].used
               PROVE  Whole(table'[b].ways[w].hit)
    BY DEF BlockInItsArchive, Whole
  <1>3. table[b].ways[w].used => Whole(table[b].ways[w].hit)
    BY DEF BlockInv, BlockInItsArchive, Whole
  <1>4. CASE table' = table
    BY <1>3, <1>4
  <1>5. CASE /\ Insert(c.key, hit)
             /\ c.ret = 0 \/ ("block" \in c.outs => "archive" \in c.outs)
    <2>1. Whole(hit)
      BY <1>1, <1>2, <1>5 DEF Whole
    <2> HIDE DEF hit
    <2>2. table'[b].ways[w] =
            IF b = BucketOf[c.key] /\ w = WayFor(c.key)
            THEN [used |-> TRUE, key |-> c.key,
                  hit |-> IF WaysOf(c.key) = {} THEN hit
                          ELSE Merged(table[b].ways[w].hit, hit)]
            ELSE table[b].ways[w]
      BY <1>1, <1>5, InsertShape
    <2>3. CASE ~(b = BucketOf[c.key] /\ w = WayFor(c.key))
      BY <1>3, <2>2, <2>3
    <2>4. CASE b = BucketOf[c.key] /\ w = WayFor(c.key) /\ WaysOf(c.key) = {}
      BY <2>1, <2>2, <2>4
    <2>5. CASE b = BucketOf[c.key] /\ w = WayFor(c.key) /\ WaysOf(c.key) # {}
      <3>1. table[b].ways[w].used
        BY <1>1, <2>5, WayIsWay DEF WaysOf, Matches
      <3> DEFINE old == table[b].ways[w].hit
      <3>2. Whole(old)
        BY <1>3, <3>1
      <3>3. table'[b].ways[w].hit = Merged(old, hit)
        <4>1. table'[b].ways[w] =
                [used |-> TRUE, key |-> c.key, hit |-> Merged(table[b].ways[w].hit, hit)]
          BY <2>2, <2>5, Zenon
        <4> QED BY <4>1
      <3> HIDE DEF old
      <3> QED BY <2>1, <3>2, <3>3, MergedWhole
    <2> QED BY <2>3, <2>4, <2>5
  <1> QED BY <1>4, <1>5 DEF Record

LEMMA LookupKeepsBlocks ==
  ASSUME BlockInv, NEW t \in Threads, Lookup(t)
  PROVE  Delivered' /\ BlockInItsArchive'
  <1>0. RefsInv
    BY DEF BlockInv
  <1>1. BlockInItsArchive'
    <2>1. CASE Record(t)
      BY <2>1, RecordKeepsBlocks
    <2>2. CASE ~Record(t)
      <3>1. \A b \in Buckets : table'[b].ways = table[b].ways
        BY <1>0, <2>2, OnlyRecordWrites
      <3> QED BY <3>1 DEF BlockInv, BlockInItsArchive
    <2> QED BY <2>1, <2>2
  <1>2. Delivered'
    <2>1. \A u \in Threads \ {t} : call'[u] = call[u]
      BY <1>0, LookupIsLocal
    <2>2. ~Delegate(t) => call'[t].at # "record"
      BY <1>0, LookupIsLocal
    <2> QED BY <1>0, <2>1, <2>2, DelegateDelivers DEF BlockInv, Delivered, At
  <1> QED BY <1>1, <1>2

LEMMA ChangeKeepsBlocks ==
  ASSUME BlockInv, NEW t \in Threads, Change(t)
  PROVE  Delivered' /\ BlockInItsArchive'
  <1>1. Marked(t)
    BY ChangeMarks DEF BlockInv
  <1>2. \A u \in Threads : At(u, "record")' =>
          /\ At(u, "record") /\ call'[u].hit = call[u].hit
          /\ call'[u].outs = call[u].outs /\ call'[u].ret = call[u].ret
    BY <1>1 DEF Marked, At, CallFields
  <1>3. Delivered'
    BY <1>2 DEF BlockInv, Delivered
  <1>4. table' = table \/ table' = [b \in Buckets |-> EmptyBucket]
    BY DEF Change, Mount, MountFails, Unmount, Flush
  <1>5. BlockInItsArchive'
    BY <1>4 DEF BlockInv, BlockInItsArchive, EmptyBucket, EmptyEntry
  <1> QED BY <1>3, <1>5

(* No record has a block index beside the handle of another archive, also  *)
(* when a lookup straddled a change: BlockInItsArchive.                    *)
THEOREM BlocksStayInTheirArchive == Spec => []BlockInItsArchive
  <1>1. Init => BlockInv
    <2>1. Init => Delivered /\ BlockInItsArchive
      BY DEF Init, Delivered, At, Idle, BlockInItsArchive, EmptyBucket, EmptyEntry, Ways
    <2> QED BY <2>1, RefsInvInit DEF BlockInv
  <1>2. BlockInv /\ [Next]_vars => BlockInv'
    <2> SUFFICES ASSUME BlockInv, [Next]_vars PROVE BlockInv'
      OBVIOUS
    <2>1. RefsInv'
      BY RefsInvStep DEF BlockInv
    <2>2. CASE Next
      <3>1. PICK t \in Threads : Lookup(t) \/ Change(t)
        BY <2>2 DEF Next
      <3> QED BY <2>1, <3>1, LookupKeepsBlocks, ChangeKeepsBlocks DEF BlockInv
    <2>3. CASE UNCHANGED vars
      <3>1. Delivered' /\ BlockInItsArchive'
        BY <2>3 DEF vars, stormVars, BlockInv, Delivered, BlockInItsArchive, At
      <3> QED BY <2>1, <3>1 DEF BlockInv
    <2> QED BY <2>2, <2>3
  <1>3. BlockInv => BlockInItsArchive
    BY DEF BlockInv
  <1> QED BY <1>1, <1>2, <1>3, PTL DEF Spec

-----------------------------------------------------------------------------
(* The log worker                                                          *)
(*                                                                         *)
(* The argument: a record whose call has returned is written, with the     *)
(* worker or in the channel (Arrived).  A caller that writes by itself     *)
(* found ACTIVE down after its call began, and while it is down nothing    *)
(* has gone to the channel (DownIsEmpty): what returned before is written. *)
(* A caller that submits appends behind what returned before.              *)

CONSTANTS Callers, Renderer, MaxRecords

VARIABLES STARTED, ACTIVE, worker, queue, taken, at, logged

Log == INSTANCE LogWorker

Wrote(r) == \E i \in DOMAIN written : written[i] = r

Emitting(r) == worker = "emit" /\ taken = r

Queued(r) == \E i \in DOMAIN queue : queue[i] = r

Begun == {r \in Log!Records : r[2] <= logged[r[1]]}

(* ACTIVE means that the worker runs, and until it does nothing is in the  *)
(* channel or on its way there.                                            *)
DownIsEmpty ==
  /\ ~STARTED => worker = "unborn"
  /\ ACTIVE => worker \in {"receive", "emit"}
  /\ ~ACTIVE => /\ worker \in {"unborn", "spawned"}
                /\ queue = <<>>
                /\ \A c \in Callers : at[c] # "submit"

(* Only records whose call has begun are anywhere.                         *)
OnlyBegun ==
  /\ \A c \in Callers : at[c] # "away" => logged[c] >= 1
  /\ worker = "emit" => taken \in Begun
  /\ \A i \in DOMAIN queue : queue[i] \in Begun
  /\ \A i \in DOMAIN written : written[i] \in Begun

Arrived == \A r \in Log!Returned : Wrote(r) \/ Emitting(r) \/ Queued(r)

Past == \A r \in Log!Records : behind[r] \subseteq Log!Returned

(* What must come before a record is ahead of it, wherever it is.          *)
AheadInQueue ==
  \A j \in DOMAIN queue : \A r \in behind[queue[j]] :
    Wrote(r) \/ Emitting(r) \/ \E i \in 1 .. j - 1 : queue[i] = r

AheadOfWorker == worker = "emit" => \A r \in behind[taken] : Wrote(r)

AheadOfCaller ==
  \A c \in Callers : at[c] = "write" => \A r \in behind[Log!Current(c)] : Wrote(r)

LogInv ==
  /\ Log!TypeOK /\ DownIsEmpty /\ OnlyBegun /\ Arrived /\ Past
  /\ AheadInQueue /\ AheadOfWorker /\ AheadOfCaller /\ Log!WrittenInOrder

-----------------------------------------------------------------------------

LEMMA LogInvInit ==
  ASSUME Log!LogAssumption, Log!Init
  PROVE  LogInv
  <1>1. Log!TypeOK
    <2>1. 0 \in 0 .. MaxRecords
      BY DEF Log!LogAssumption
    <2>2. queue \in Seq(Log!Records) /\ written \in Seq(Log!Records)
      BY DEF Log!Init
    <2> QED BY <2>1, <2>2 DEF Log!Init, Log!TypeOK
  <1>2. Log!Returned = {}
    BY DEF Log!Init, Log!Returned, Log!Records
  <1>3. DOMAIN queue = {} /\ DOMAIN written = {}
    BY DEF Log!Init
  <1> QED BY <1>1, <1>2, <1>3
    DEF Log!Init, LogInv, DownIsEmpty, OnlyBegun, Arrived, Past, AheadInQueue, AheadOfWorker,
        AheadOfCaller, Log!WrittenInOrder

(* A call under way is of a record.                                        *)
LEMMA CurrentIsRecord ==
  ASSUME Log!LogAssumption, Log!TypeOK, OnlyBegun, NEW c \in Callers, at[c] # "away"
  PROVE  Log!Current(c) \in Begun
  BY DEF Log!LogAssumption, Log!TypeOK, OnlyBegun, Log!Current, Begun, Log!Records

(* A call that ends adds its record to those whose call has returned.      *)
LEMMA ReturnedAfter ==
  ASSUME Log!TypeOK, NEW c \in Callers, at[c] # "away", Log!Current(c) \in Begun,
         logged' = logged, at' = [at EXCEPT ![c] = "away"]
  PROVE  Log!Returned' = Log!Returned \cup {Log!Current(c)}
  <1>1. \A r \in Log!Records : r[1] \in Callers /\ r[2] \in Nat /\ r = <<r[1], r[2]>>
    BY DEF Log!Records
  <1>2. \A d \in Callers : /\ Log!Current(d)' = Log!Current(d)
                           /\ d # c => at'[d] = at[d]
    BY DEF Log!Current, Log!TypeOK
  <1>3. at'[c] = "away" /\ Log!Current(c)[1] = c /\ Log!Current(c) \in Log!Records
    BY DEF Log!TypeOK, Log!Current, Begun
  <1>4. ASSUME NEW r \in Log!Records PROVE r \in Log!Returned' <=> r \in Log!Returned \/ r = Log!Current(c)
    <2>1. CASE r = Log!Current(c)
      BY <1>2, <1>3, <2>1 DEF Log!Returned, Begun
    <2>2. CASE r # Log!Current(c) /\ r[1] = c
      BY <1>2, <1>3, <2>2 DEF Log!Returned
    <2>3. CASE r[1] # c
      BY <1>1, <1>2, <1>3, <2>3 DEF Log!Returned
    <2> QED BY <2>1, <2>2, <2>3
  <1> QED BY <1>3, <1>4 DEF Log!Returned

(* Appending to a sequence keeps what it has and adds one element.         *)
LEMMA Appended ==
  ASSUME NEW S, NEW s \in Seq(S), NEW x \in S
  PROVE  /\ Append(s, x) \in Seq(S)
         /\ Len(Append(s, x)) = Len(s) + 1
         /\ DOMAIN s = 1 .. Len(s)
         /\ DOMAIN Append(s, x) = 1 .. (Len(s) + 1)
         /\ \A i \in 1 .. Len(s) : Append(s, x)[i] = s[i]
         /\ Append(s, x)[Len(s) + 1] = x
         /\ Len(s) \in Nat
  BY AppendProperties

(* Taking the first element off a sequence moves the others up by one.     *)
LEMMA Shifted ==
  ASSUME NEW S, NEW s \in Seq(S), s # <<>>
  PROVE  /\ Head(s) = s[1] /\ Head(s) \in S /\ Tail(s) \in Seq(S)
         /\ Len(s) \in Nat /\ Len(s) >= 1
         /\ DOMAIN s = 1 .. Len(s)
         /\ DOMAIN Tail(s) = 1 .. (Len(s) - 1)
         /\ \A i \in 1 .. (Len(s) - 1) : Tail(s)[i] = s[i + 1]
  BY HeadTailProperties, LenProperties, EmptySeq

-----------------------------------------------------------------------------

LEMMA LogInvStep ==
  ASSUME Log!LogAssumption, LogInv, [Log!Next]_(Log!vars)
  PROVE  LogInv'
  <1>0. /\ Log!TypeOK /\ DownIsEmpty /\ OnlyBegun /\ Arrived /\ Past
        /\ AheadInQueue /\ AheadOfWorker /\ AheadOfCaller /\ Log!WrittenInOrder
    BY DEF LogInv
  <1>1. CASE UNCHANGED Log!vars
    BY <1>0, <1>1
    DEF Log!vars, Log!workerVars, LogInv, Log!TypeOK, DownIsEmpty, OnlyBegun, Begun, Arrived, Past, AheadInQueue,
        AheadOfWorker, AheadOfCaller, Log!WrittenInOrder, Log!Returned, Log!Records, Log!Current, Wrote,
        Emitting, Queued
  <1>2. ASSUME NEW c \in Callers, NEW entry \in {"log", "defer"}, Log!Call(c, entry) PROVE LogInv'
    <2> DEFINE new == <<c, logged[c] + 1>>
    <2>1. /\ new \in Log!Records /\ new \notin Begun
          /\ logged'[c] = logged[c] + 1 /\ logged[c] \in Nat
          /\ \A d \in Callers \ {c} : logged'[d] = logged[d] /\ at'[d] = at[d]
          /\ at[c] = "away" /\ at'[c] = entry
      BY <1>0, <1>2 DEF Log!LogAssumption, Log!Call, Log!TypeOK, Log!Records, Begun
    <2>2. UNCHANGED <<STARTED, ACTIVE, worker, taken, queue, written>>
      BY <1>2 DEF Log!Call, Log!workerVars
    <2>3. /\ Begun \subseteq Begun'
          /\ Log!Returned' = Log!Returned
      <3>1. \A r \in Log!Records : r[1] \in Callers /\ r[2] \in Nat /\ r = <<r[1], r[2]>>
        BY DEF Log!Records
      <3>2. \A r \in Log!Records : r[1] # c => Log!Current(r[1])' = Log!Current(r[1])
        BY <2>1, <3>1 DEF Log!Current
      <3>3. Log!Current(c)' = new /\ Log!Current(c) = <<c, logged[c]>>
        BY <2>1 DEF Log!Current
      <3>4. \A r \in Log!Records : r \in Log!Returned <=> r \in Log!Returned'
        <4> SUFFICES ASSUME NEW r \in Log!Records PROVE r \in Log!Returned <=> r \in Log!Returned'
          OBVIOUS
        <4>1. CASE r[1] # c
          BY <2>1, <3>1, <3>2, <4>1 DEF Log!Returned
        <4>2. CASE r[1] = c
          <5>1. r \in Log!Returned <=> r[2] <= logged[c]
            BY <2>1, <4>2 DEF Log!Returned
          <5>2. r \in Log!Returned' <=> r[2] <= logged[c] + 1 /\ r # new
            BY <1>2, <2>1, <3>3, <4>2 DEF Log!Returned
          <5>3. r # new <=> r[2] # logged[c] + 1
            BY <3>1, <4>2
          <5> QED BY <2>1, <3>1, <5>1, <5>2, <5>3
        <4> QED BY <4>1, <4>2
      <3>5. Log!Returned' = Log!Returned
        BY <3>4 DEF Log!Returned
      <3>6. Begun \subseteq Begun'
        BY <2>1, <3>1 DEF Begun
      <3> QED BY <3>5, <3>6
    <2>4. /\ \A r \in Begun : behind'[r] = behind[r]
          /\ \A r \in Log!Records : behind'[r] = behind[r] \/ behind'[r] = Log!Returned
          /\ behind' \in [Log!Records -> SUBSET Log!Records]
      BY <1>0, <1>2, <2>1 DEF Log!Call, Log!TypeOK, Begun, Log!Returned
    <2>5. Log!TypeOK'
      <3>1. logged' \in [Callers -> 0 .. MaxRecords]
        BY <1>0, <1>2 DEF Log!LogAssumption, Log!Call, Log!TypeOK
      <3>2. at' \in [Callers -> {"away", "defer", "log", "submit", "write"}]
        BY <1>0, <1>2 DEF Log!Call, Log!TypeOK
      <3> QED BY <1>0, <2>2, <2>4, <3>1, <3>2 DEF Log!TypeOK
    <2>6. DownIsEmpty'
      <3>1. \A d \in Callers : at[d] # "submit" => at'[d] # "submit"
        BY <2>1
      <3> QED BY <1>0, <2>2, <3>1 DEF DownIsEmpty
    <2>7. OnlyBegun'
      BY <1>0, <2>1, <2>2, <2>3 DEF OnlyBegun
    <2>8. Arrived'
      BY <1>0, <2>2, <2>3 DEF Arrived, Wrote, Emitting, Queued
    <2>9. Past'
      BY <1>0, <2>3, <2>4 DEF Past
    <2>10. AheadInQueue' /\ AheadOfWorker' /\ Log!WrittenInOrder'
      BY <1>0, <2>2, <2>4
      DEF AheadInQueue, AheadOfWorker, Log!WrittenInOrder, OnlyBegun, Wrote, Emitting
    <2>11. AheadOfCaller'
      <3> SUFFICES ASSUME NEW d \in Callers, at'[d] = "write"
                   PROVE  \A r \in behind'[Log!Current(d)'] : Wrote(r)'
        BY DEF AheadOfCaller
      <3>1. d # c
        BY <2>1
      <3>2. Log!Current(d)' = Log!Current(d) /\ at[d] = "write"
        BY <2>1, <3>1 DEF Log!Current
      <3>3. behind'[Log!Current(d)'] = behind[Log!Current(d)]
        BY <1>0, <2>4, <3>2, CurrentIsRecord
      <3> QED BY <1>0, <2>2, <3>2, <3>3 DEF AheadOfCaller, Wrote
    <2> QED BY <2>5, <2>6, <2>7, <2>8, <2>9, <2>10, <2>11 DEF LogInv
  <1>3. ASSUME NEW c \in Callers, Log!DeferDecides(c) \/ Log!LogDecides(c) PROVE LogInv'
    <2>1. /\ UNCHANGED <<STARTED, ACTIVE, worker, taken, queue, logged, written, behind>>
          /\ at[c] \in {"defer", "log"}
          /\ at' = [at EXCEPT ![c] = at'[c]]
          /\ at'[c] \in {"log", "submit", "write"}
          /\ at'[c] = "submit" => ACTIVE
          /\ at'[c] = "write" => ~ACTIVE
      BY <1>0, <1>3 DEF Log!DeferDecides, Log!LogDecides, Log!workerVars, Log!TypeOK
    <2>2. \A d \in Callers : /\ Log!Current(d)' = Log!Current(d)
                             /\ d # c => at'[d] = at[d]
      BY <1>0, <2>1 DEF Log!Current, Log!TypeOK
    <2>3. Log!Returned' = Log!Returned /\ Begun' = Begun
      BY <2>1, <2>2 DEF Log!Returned, Log!Records, Begun
    <2>4. Log!TypeOK' /\ DownIsEmpty' /\ OnlyBegun'
      <3>1. Log!TypeOK'
        BY <1>0, <2>1 DEF Log!TypeOK
      <3>2. DownIsEmpty'
        BY <1>0, <2>1, <2>2 DEF DownIsEmpty
      <3>3. OnlyBegun'
        BY <1>0, <2>1, <2>2, <2>3 DEF OnlyBegun
      <3> QED BY <3>1, <3>2, <3>3
    <2>5. Arrived' /\ Past' /\ AheadInQueue' /\ AheadOfWorker' /\ Log!WrittenInOrder'
      BY <1>0, <2>1, <2>3
      DEF Arrived, Past, AheadInQueue, AheadOfWorker, Log!WrittenInOrder, Wrote, Emitting, Queued
    <2>6. AheadOfCaller'
      <3> SUFFICES ASSUME NEW d \in Callers, at'[d] = "write"
                   PROVE  \A r \in behind[Log!Current(d)] : Wrote(r)
        BY <2>1, <2>2 DEF AheadOfCaller, Wrote
      <3>1. CASE d # c
        BY <1>0, <2>2, <3>1 DEF AheadOfCaller
      <3>2. CASE d = c
        <4>1. \A r : ~Emitting(r) /\ ~Queued(r)
          BY <1>0, <2>1, <3>2 DEF DownIsEmpty, Emitting, Queued
        <4>2. Log!Current(d) \in Log!Records
          BY <1>0, <2>1, <3>2, CurrentIsRecord DEF Begun
        <4>3. \A r \in behind[Log!Current(d)] : r \in Log!Returned
          BY <1>0, <4>2 DEF Past
        <4> QED BY <1>0, <4>1, <4>3 DEF Arrived
      <3> QED BY <3>1, <3>2
    <2> QED BY <2>4, <2>5, <2>6 DEF LogInv
  <1>4. ASSUME NEW c \in Callers, Log!Submit(c) PROVE LogInv'
    <2>1. /\ UNCHANGED <<STARTED, ACTIVE, worker, taken, logged, written, behind>>
          /\ at[c] = "submit" /\ ACTIVE /\ queue' = Append(queue, Log!Current(c))
          /\ at' = [at EXCEPT ![c] = "away"]
      BY <1>0, <1>4 DEF Log!Submit, Log!workerVars, DownIsEmpty
    <2>2. /\ \A d \in Callers : Log!Current(d)' = Log!Current(d)
          /\ Log!Current(c) \in Begun /\ Log!Current(c) \in Log!Records /\ Begun' = Begun
      BY <1>0, <2>1, CurrentIsRecord DEF Log!Current, Begun
    <2>3. Log!Returned' = Log!Returned \cup {Log!Current(c)}
      BY <1>0, <2>1, <2>2, ReturnedAfter
    <2>4. /\ queue' \in Seq(Log!Records)
          /\ DOMAIN queue = 1 .. Len(queue) /\ Len(queue) \in Nat
          /\ DOMAIN queue' = 1 .. (Len(queue) + 1)
          /\ \A i \in 1 .. Len(queue) : queue'[i] = queue[i]
          /\ queue'[Len(queue) + 1] = Log!Current(c)
      BY <1>0, <2>1, <2>2, Appended DEF Log!TypeOK
    <2>5. /\ \A r : (Wrote(r)' <=> Wrote(r)) /\ (Emitting(r)' <=> Emitting(r))
          /\ \A r : Queued(r) \/ r = Log!Current(c) => Queued(r)'
      <3>1. \A r : (Wrote(r)' <=> Wrote(r)) /\ (Emitting(r)' <=> Emitting(r))
        BY <2>1 DEF Wrote, Emitting
      <3>2. Len(queue) + 1 \in DOMAIN queue' /\ DOMAIN queue \subseteq DOMAIN queue'
        BY <2>4
      <3>3. \A r : Queued(r) \/ r = Log!Current(c) => Queued(r)'
        BY <2>4, <3>2 DEF Queued
      <3> QED BY <3>1, <3>3
    <2>6. Log!TypeOK'
      BY <1>0, <2>1, <2>4 DEF Log!TypeOK
    <2>7. DownIsEmpty'
      BY <1>0, <2>1 DEF DownIsEmpty
    <2>8. OnlyBegun'
      BY <1>0, <2>1, <2>2, <2>4 DEF OnlyBegun, Log!TypeOK
    <2>9. Arrived'
      BY <1>0, <2>3, <2>5 DEF Arrived
    <2>10. Past'
      BY <1>0, <2>1, <2>3 DEF Past
    <2>11. AheadInQueue'
      <3> SUFFICES ASSUME NEW j \in DOMAIN queue', NEW r \in behind[queue'[j]]
                   PROVE  Wrote(r) \/ Emitting(r) \/ \E i \in 1 .. j - 1 : queue'[i] = r
        BY <2>1, <2>5 DEF AheadInQueue
      <3>1. CASE j \in 1 .. Len(queue)
        BY <1>0, <2>4, <3>1 DEF AheadInQueue
      <3>2. CASE j = Len(queue) + 1
        <4>1. r \in Log!Returned
          BY <1>0, <2>2, <2>4, <3>2 DEF Past
        <4>2. Wrote(r) \/ Emitting(r) \/ Queued(r)
          BY <1>0, <4>1 DEF Arrived
        <4> QED BY <2>4, <3>2, <4>2 DEF Queued
      <3> QED BY <2>4, <3>1, <3>2
    <2>12. AheadOfWorker' /\ AheadOfCaller' /\ Log!WrittenInOrder'
      BY <1>0, <2>1, <2>2, <2>5
      DEF AheadOfWorker, AheadOfCaller, Log!WrittenInOrder, Log!TypeOK
    <2> QED BY <2>6, <2>7, <2>8, <2>9, <2>10, <2>11, <2>12 DEF LogInv
  <1>5. ASSUME NEW c \in Callers, Log!WriteHere(c) PROVE LogInv'
    <2>1. /\ UNCHANGED <<STARTED, ACTIVE, worker, taken, queue, logged, behind>>
          /\ at[c] = "write" /\ written' = Append(written, Log!Current(c))
          /\ at' = [at EXCEPT ![c] = "away"]
      BY <1>5 DEF Log!WriteHere, Log!workerVars
    <2>2. /\ \A d \in Callers : Log!Current(d)' = Log!Current(d)
          /\ Log!Current(c) \in Begun /\ Log!Current(c) \in Log!Records /\ Begun' = Begun
      BY <1>0, <2>1, CurrentIsRecord DEF Log!Current, Begun
    <2>3. Log!Returned' = Log!Returned \cup {Log!Current(c)}
      BY <1>0, <2>1, <2>2, ReturnedAfter
    <2>4. /\ written' \in Seq(Log!Records)
          /\ DOMAIN written = 1 .. Len(written) /\ Len(written) \in Nat
          /\ DOMAIN written' = 1 .. (Len(written) + 1)
          /\ \A i \in 1 .. Len(written) : written'[i] = written[i]
          /\ written'[Len(written) + 1] = Log!Current(c)
      BY <1>0, <2>1, <2>2, Appended DEF Log!TypeOK
    <2>5. /\ \A r : (Queued(r)' <=> Queued(r)) /\ (Emitting(r)' <=> Emitting(r))
          /\ \A r : Wrote(r) \/ r = Log!Current(c) => Wrote(r)'
      <3>1. \A r : (Queued(r)' <=> Queued(r)) /\ (Emitting(r)' <=> Emitting(r))
        BY <2>1 DEF Queued, Emitting
      <3>2. Len(written) + 1 \in DOMAIN written' /\ DOMAIN written \subseteq DOMAIN written'
        BY <2>4
      <3>3. \A r : Wrote(r) \/ r = Log!Current(c) => Wrote(r)'
        BY <2>4, <3>2 DEF Wrote
      <3> QED BY <3>1, <3>3
    <2>6. Log!TypeOK'
      BY <1>0, <2>1, <2>4 DEF Log!TypeOK
    <2>7. DownIsEmpty'
      BY <1>0, <2>1 DEF DownIsEmpty, Log!TypeOK
    <2>8. OnlyBegun'
      BY <1>0, <2>1, <2>2, <2>4 DEF OnlyBegun, Log!TypeOK
    <2>9. Arrived'
      BY <1>0, <2>3, <2>5 DEF Arrived
    <2>10. Past'
      BY <1>0, <2>1, <2>3 DEF Past
    <2>11. Log!WrittenInOrder'
      <3> SUFFICES ASSUME NEW j \in DOMAIN written', NEW r \in behind[written'[j]]
                   PROVE  \E i \in 1 .. j - 1 : written'[i] = r
        BY <2>1 DEF Log!WrittenInOrder
      <3>1. CASE j \in 1 .. Len(written)
        BY <1>0, <2>4, <3>1 DEF Log!WrittenInOrder
      <3>2. CASE j = Len(written) + 1
        <4>1. Wrote(r)
          BY <1>0, <2>1, <2>4, <3>2 DEF AheadOfCaller
        <4> QED BY <2>4, <3>2, <4>1 DEF Wrote
      <3> QED BY <2>4, <3>1, <3>2
    <2>12. AheadOfWorker' /\ AheadInQueue'
      BY <1>0, <2>1, <2>5 DEF AheadOfWorker, AheadInQueue
    <2>13. AheadOfCaller'
      <3>1. \A d \in Callers : at'[d] = "write" => at[d] = "write"
        BY <1>0, <2>1 DEF Log!TypeOK
      <3> QED BY <1>0, <2>1, <2>2, <2>5, <3>1 DEF AheadOfCaller
    <2> QED BY <2>6, <2>7, <2>8, <2>9, <2>10, <2>11, <2>12, <2>13 DEF LogInv
  <1>6. CASE Log!Start
    <2>1. /\ UNCHANGED <<ACTIVE, taken, queue, at, logged, written, behind>>
          /\ worker = "unborn" /\ worker' \in {"spawned", "unborn"} /\ STARTED' = TRUE
      BY <1>0, <1>6 DEF Log!Start, DownIsEmpty
    <2>2. Log!TypeOK' /\ DownIsEmpty'
      BY <1>0, <2>1 DEF Log!TypeOK, DownIsEmpty
    <2>3. Log!Returned' = Log!Returned /\ Begun' = Begun /\ \A c \in Callers : Log!Current(c)' = Log!Current(c)
      BY <2>1 DEF Log!Returned, Begun, Log!Current
    <2>4. \A r : /\ Wrote(r)' <=> Wrote(r)
                 /\ Queued(r)' <=> Queued(r)
                 /\ ~Emitting(r) /\ ~Emitting(r)'
      BY <2>1 DEF Wrote, Queued, Emitting
    <2>5. OnlyBegun' /\ Arrived' /\ Past'
      BY <1>0, <2>1, <2>3, <2>4 DEF OnlyBegun, Arrived, Past
    <2>6. AheadInQueue' /\ AheadOfWorker' /\ AheadOfCaller' /\ Log!WrittenInOrder'
      BY <1>0, <2>1, <2>3, <2>4 DEF AheadInQueue, AheadOfWorker, AheadOfCaller, Log!WrittenInOrder
    <2> QED BY <2>2, <2>5, <2>6 DEF LogInv
  <1>7. CASE Log!Activate
    <2>1. /\ UNCHANGED <<STARTED, taken, queue, at, logged, written, behind>>
          /\ worker = "spawned" /\ worker' = "receive" /\ ACTIVE' = TRUE
      BY <1>7 DEF Log!Activate
    <2> QED BY <1>0, <2>1
      DEF LogInv, Log!TypeOK, DownIsEmpty, OnlyBegun, Begun, Arrived, Past, AheadInQueue, AheadOfWorker,
          AheadOfCaller, Log!WrittenInOrder, Log!Returned, Log!Current, Wrote, Emitting, Queued
  <1>8. CASE Log!Receive
    <2>1. /\ UNCHANGED <<STARTED, ACTIVE, at, logged, written, behind>>
          /\ worker = "receive" /\ worker' = "emit" /\ queue # <<>>
          /\ taken' = Head(queue) /\ queue' = Tail(queue)
      BY <1>8 DEF Log!Receive
    <2>2. Log!Returned' = Log!Returned /\ Begun' = Begun /\ \A c \in Callers : Log!Current(c)' = Log!Current(c)
      BY <2>1 DEF Log!Returned, Begun, Log!Current
    <2>3. /\ taken' = queue[1] /\ taken' \in Log!Records /\ queue' \in Seq(Log!Records)
          /\ Len(queue) \in Nat /\ Len(queue) >= 1
          /\ DOMAIN queue = 1 .. Len(queue)
          /\ DOMAIN queue' = 1 .. (Len(queue) - 1)
          /\ \A i \in 1 .. (Len(queue) - 1) : queue'[i] = queue[i + 1]
      BY <1>0, <2>1, Shifted DEF Log!TypeOK
    <2>4. /\ \A r : Wrote(r)' = Wrote(r) /\ ~Emitting(r)
          /\ \A r : Queued(r) => Queued(r)' \/ Emitting(r)'
      <3>1. \A r : Wrote(r)' = Wrote(r) /\ ~Emitting(r)
        BY <2>1 DEF Wrote, Emitting
      <3>2. ASSUME NEW r, Queued(r) PROVE Queued(r)' \/ Emitting(r)'
        <4>1. PICK i \in 1 .. Len(queue) : queue[i] = r
          BY <2>3, <3>2 DEF Queued
        <4>2. CASE i = 1
          BY <2>1, <2>3, <4>1, <4>2 DEF Emitting
        <4>3. CASE i # 1
          <5>1. i - 1 \in DOMAIN queue' /\ queue'[i - 1] = r
            BY <2>3, <4>1, <4>3
          <5> QED BY <5>1 DEF Queued
        <4> QED BY <4>2, <4>3
      <3> QED BY <3>1, <3>2
    <2>5. Log!TypeOK'
      BY <1>0, <2>1, <2>3 DEF Log!TypeOK
    <2>6. DownIsEmpty'
      BY <1>0, <2>1 DEF DownIsEmpty
    <2>7. OnlyBegun'
      BY <1>0, <2>1, <2>2, <2>3 DEF OnlyBegun
    <2>8. Arrived' /\ Past' /\ AheadOfCaller' /\ Log!WrittenInOrder'
      BY <1>0, <2>1, <2>2, <2>4 DEF Arrived, Past, AheadOfCaller, Log!WrittenInOrder
    <2>9. AheadOfWorker'
      <3>1. \A r \in behind[queue[1]] : Wrote(r)
        BY <1>0, <2>3, <2>4 DEF AheadInQueue
      <3> QED BY <2>1, <2>3, <2>4, <3>1 DEF AheadOfWorker
    <2>10. AheadInQueue'
      <3> SUFFICES ASSUME NEW j \in 1 .. (Len(queue) - 1), NEW r \in behind[queue[j + 1]], ~Wrote(r)
                   PROVE  Emitting(r)' \/ \E i \in 1 .. j - 1 : queue'[i] = r
        <4>1. \A r : Wrote(r)' <=> Wrote(r)
          BY <2>4
        <4>2. \A j \in DOMAIN queue' : j \in 1 .. (Len(queue) - 1) /\ behind'[queue'[j]] = behind[queue[j + 1]]
          BY <2>1, <2>3
        <4> QED BY <4>1, <4>2 DEF AheadInQueue
      <3>1. PICK i \in 1 .. j : queue[i] = r
        BY <1>0, <2>3, <2>4 DEF AheadInQueue
      <3>2. CASE i = 1
        BY <2>1, <2>3, <3>1, <3>2 DEF Emitting
      <3>3. CASE i # 1
        <4>1. i - 1 \in 1 .. j - 1 /\ queue'[i - 1] = r
          BY <2>3, <3>1, <3>3
        <4> QED BY <4>1
      <3> QED BY <3>2, <3>3
    <2> QED BY <2>5, <2>6, <2>7, <2>8, <2>9, <2>10 DEF LogInv
  <1>9. CASE Log!Emit
    <2>1. /\ UNCHANGED <<STARTED, ACTIVE, queue, at, logged, behind>>
          /\ worker = "emit" /\ worker' = "receive" /\ taken' = <<>>
          /\ written' = Append(written, taken)
          /\ taken \in Begun /\ taken \in Log!Records
      BY <1>0, <1>9 DEF Log!Emit, OnlyBegun, Begun
    <2>2. Log!Returned' = Log!Returned /\ Begun' = Begun /\ \A c \in Callers : Log!Current(c)' = Log!Current(c)
      BY <2>1 DEF Log!Returned, Begun, Log!Current
    <2>3. /\ written' \in Seq(Log!Records)
          /\ DOMAIN written = 1 .. Len(written) /\ Len(written) \in Nat
          /\ DOMAIN written' = 1 .. (Len(written) + 1)
          /\ \A i \in 1 .. Len(written) : written'[i] = written[i]
          /\ written'[Len(written) + 1] = taken
      BY <1>0, <2>1, Appended DEF Log!TypeOK
    <2>4. \A r : /\ Queued(r)' = Queued(r)
                 /\ Wrote(r) \/ Emitting(r) => Wrote(r)'
      BY <2>1, <2>3 DEF Wrote, Emitting, Queued
    <2>5. Log!TypeOK'
      BY <1>0, <2>1, <2>3 DEF Log!TypeOK
    <2>6. DownIsEmpty'
      BY <1>0, <2>1 DEF DownIsEmpty
    <2>7. OnlyBegun'
      BY <1>0, <2>1, <2>2, <2>3 DEF OnlyBegun
    <2>8. Arrived' /\ Past' /\ AheadOfCaller' /\ AheadOfWorker' /\ AheadInQueue'
      BY <1>0, <2>1, <2>2, <2>4 DEF Arrived, Past, AheadOfCaller, AheadOfWorker, AheadInQueue
    <2>9. Log!WrittenInOrder'
      <3> SUFFICES ASSUME NEW j \in DOMAIN written', NEW r \in behind[written'[j]]
                   PROVE  \E i \in 1 .. j - 1 : written'[i] = r
        BY <2>1 DEF Log!WrittenInOrder
      <3>1. CASE j \in 1 .. Len(written)
        BY <1>0, <2>3, <3>1 DEF Log!WrittenInOrder
      <3>2. CASE j = Len(written) + 1
        <4>1. Wrote(r)
          BY <1>0, <2>1, <2>3, <3>2 DEF AheadOfWorker
        <4> QED BY <2>3, <3>2, <4>1 DEF Wrote
      <3> QED BY <2>3, <3>1, <3>2
    <2> QED BY <2>5, <2>6, <2>7, <2>8, <2>9 DEF LogInv
  <1> QED
    BY <1>1, <1>2, <1>3, <1>4, <1>5, <1>6, <1>7, <1>8, <1>9 DEF Log!Next, Log!Proceed, Log!Worker

LEMMA LogInvHolds ==
  ASSUME Log!LogAssumption
  PROVE  Log!Spec => []LogInv
  <1>1. Log!Init => LogInv
    BY LogInvInit
  <1>2. LogInv /\ [Log!Next]_(Log!vars) => LogInv'
    BY LogInvStep
  <1> QED BY <1>1, <1>2, PTL DEF Log!Spec

(* The log keeps the order of the calls that were logged, for any number   *)
(* of threads and whenever the worker starts.                              *)
THEOREM LogWrittenInOrder ==
  ASSUME Log!LogAssumption
  PROVE  Log!Spec => []WrittenInOrder
  <1>1. LogInv => WrittenInOrder
    BY DEF LogInv, Log!WrittenInOrder, WrittenInOrder
  <1> QED BY <1>1, LogInvHolds, PTL

(* No record is in a queue nobody drains, the safety that EverythingWritten*)
(* rests on: one whose call has returned is written, or a worker that runs *)
(* has it or will come to it, also when the thread could not be spawned.   *)
NothingStranded ==
  \A r \in Log!Returned :
    Wrote(r) \/ (worker \in {"receive", "emit"} /\ (Emitting(r) \/ Queued(r)))

(* What is logged is on its way to the sink until it is there.             *)
THEOREM LoggedIsOnItsWay ==
  ASSUME Log!LogAssumption
  PROVE  Log!Spec => []NothingStranded
  <1>1. LogInv => NothingStranded
    BY DEF LogInv, Arrived, DownIsEmpty, Log!TypeOK, Emitting, Queued, NothingStranded
  <1> QED BY <1>1, LogInvHolds, PTL
=============================================================================
