-------------------------- MODULE WorkerPoolProofs --------------------------
(***************************************************************************)
(* The safety of the worker pool, for any number of workers and jobs, any  *)
(* lengths and any size of a chunk.                                        *)
(*                                                                         *)
(* The argument has four layers.  PoolInv: active is the number of         *)
(* participants between the raise and the lowering (ActiveCounts), and who *)
(* has a job has one that was published.  ClaimInv: each ticket of a job's *)
(* cursor is used once; what has been worked on, and what someone is about *)
(* to, never exceeds the tickets used for it (TicketsRight), and a ticket  *)
(* its own job used is not forgotten (NothingDropped).  JoinInv: a join    *)
(* that finds the cursor past the end and then active at zero therefore    *)
(* has all of the job.  SweepInv: as long as no participant of another job *)
(* took a ticket of a sweep, nobody works for a job that is over           *)
(* (WorksForTheJob), and what was freed is flushed before it is debited.   *)
(***************************************************************************)
EXTENDS WorkerPool, FiniteSetTheorems, SequenceTheorems, TLAPS

-----------------------------------------------------------------------------
(* The inductive invariant                                                 *)

ActiveAts == {"check", "elect", "scan", "claim", "build", "work", "flush", "lower", "leave"}

LaneAts == ActiveAts \cup {"parked", "spin", "raise"}

LaneTypes ==
  [at : LaneAts, job : JobTypes, next : 0 .. MaxLen, end : 0 .. MaxLen, freed : 0 .. Chunk]

Locked == {"cursor", "freed", "epoch"}

Joining == {"mark", "help", "look", "spent", "quiet", "over", "release"}

ViewTypes ==
  [scanClaimed : BOOLEAN, ready : 0 .. MaxLen, total : 0 .. MaxLen, scanDone : BOOLEAN]

DataTypes ==
  /\ cursor \in 0 .. MaxLen
  /\ done \in BOOLEAN /\ freedStrings \in Nat
  /\ seen \in [Workers -> 0 .. MaxJobs]
  /\ view \in [Epochs -> ViewTypes]
  /\ handled \in [Epochs -> [Items -> Nat]]
  /\ taker \in [Epochs -> [Items -> 0 .. MaxJobs]]
  /\ debited \in [Epochs -> Nat]

GameTypes ==
  [at : {"idle", "publish"} \cup Locked \cup Joining, node : 0 .. MaxLen + 1]

PoolTypes ==
  /\ published \in Seq(JobTypes) /\ Len(published) <= MaxJobs
  /\ lane \in [Lanes -> LaneTypes]
  /\ game \in GameTypes
  /\ DataTypes

Current == Len(published)

(* The jobs a participant can have copied.                                 *)
Known == IF JobLocked THEN Current - 1 ELSE Current

JobsRight ==
  /\ \A e \in 1 .. Current : published[e].epoch = e
  /\ \A w \in Workers : seen[w] <= Current

(* Where the game thread is in a job, and what it keeps for it.            *)
GameRight ==
  /\ game.at \in Locked \cup Joining => Current > 0 /\ Current \in held
  /\ curEpoch = IF JobLocked THEN Current - 1 ELSE Current
  /\ held \subseteq 1 .. Current
  /\ \A e \in held : e # Current => published[e].kind = "Particles"
  /\ game.at \in {"idle", "publish"} /\ Current \in held => job.kind = "Particles"
  /\ game.at = "publish" => Current < MaxJobs
  /\ game.at = "mark" => job.kind = "Mark"
  /\ game.at = "help" => job.kind \in {"Sweep", "AnimateRoots"}
  /\ game.at = "look" => job.kind = "AnimateRoots"
  /\ game.at = "spent" => job.kind \in {"Particles", "AnimateRoots"}
  /\ game.at = "quiet" => job.kind # "Mark"

(* What a participant does where it is, and for which job.                 *)
LaneRight(p) ==
  LET l == lane[p] IN
  /\ l.at # "parked" =>
       /\ l.job.epoch \in 1 .. Known /\ l.job = published[l.job.epoch]
       /\ l.at # "spin" => l.job.kind # "Mark"
  /\ l.at \in {"elect", "scan", "build"} => l.job.kind = "Particles"
  /\ l.at = "work" => l.job.kind \in {"Sweep", "AnimateRoots"}
  /\ l.at = "flush" => l.job.kind = "Sweep"
  /\ l.at \in {"work", "build"} => l.next < l.end /\ l.end <= l.job.len
  /\ l.at = "work" => l.freed + (l.end - l.next) <= Chunk
  /\ l.at \in {"work", "flush"} => l.freed <= l.next
  /\ p = Game /\ l.at # "parked" => game.at = "help" /\ l.job = job

Busy == {p \in Lanes : lane[p].at \in ActiveAts}

ActiveCounts == active = Cardinality(Busy)

PoolInv ==
  /\ PoolTypes /\ JobsRight /\ GameRight /\ (\A p \in Lanes : LaneRight(p)) /\ ActiveCounts

-----------------------------------------------------------------------------
(* Lengths, lanes and the published jobs                                   *)

LEMMA Longest == MaxLen \in Nat /\ \A m \in Lens \cup {0} : m <= MaxLen
  <1>1. \E n \in Lens : \A m \in Lens : m <= n
    BY PoolAssumption
  <1>2. MaxLen \in Lens /\ \A m \in Lens : m <= MaxLen
    BY <1>1 DEF MaxLen
  <1> QED BY <1>2, PoolAssumption

LEMMA LanesAre ==
  /\ IsFiniteSet(Lanes) /\ Game \in Lanes /\ \A w \in Workers : w \in Lanes /\ w # Game
  /\ \A S \in SUBSET Lanes : IsFiniteSet(S) /\ Cardinality(S) \in Nat
  <1>1. IsFiniteSet(Lanes)
    BY PoolAssumption, FS_AddElement DEF Lanes
  <1>2. \A S \in SUBSET Lanes : IsFiniteSet(S) /\ Cardinality(S) \in Nat
    BY <1>1, FS_Subset, FS_CardinalityType
  <1> QED BY <1>1, <1>2, PoolAssumption DEF Lanes

LEMMA JobsAre ==
  ASSUME PoolTypes, JobsRight
  PROVE  /\ Current \in 0 .. MaxJobs
         /\ \A e \in 1 .. Current : published[e] \in JobTypes /\ published[e].epoch = e
         /\ \A e \in 1 .. Current : published[e].len \in 0 .. MaxLen
         /\ Current > 0 => job = published[Current]
         /\ job \in JobTypes /\ job.epoch = Current /\ job.len \in 0 .. MaxLen
         /\ job.kind # "Mark" => Current > 0
  <1>1. Current \in Nat /\ Current <= MaxJobs
    BY LenProperties DEF PoolTypes, Current
  <1>2. \A e \in 1 .. Current : published[e] \in JobTypes
    BY ElementOfSeq DEF PoolTypes, Current
  <1>3. published = <<>> <=> Current = 0
    BY <1>1, EmptySeq DEF PoolTypes, Current
  <1>4. Current > 0 => job = published[Current] /\ job.epoch = Current
    BY <1>1, <1>3 DEF job, JobsRight, Current
  <1>5. Current = 0 => job = NoJob
    BY <1>3 DEF job
  <1>6. NoJob \in JobTypes /\ NoJob.epoch = 0 /\ NoJob.kind = "Mark"
    BY PoolAssumption DEF NoJob, JobTypes
  <1>7. \A j \in JobTypes : j.len \in 0 .. MaxLen
    <2>1. \A n \in Lens \cup {0} : n \in 0 .. MaxLen
      <3>1. Lens \subseteq Nat
        BY PoolAssumption
      <3>2. \A n \in Lens \cup {0} : n \in Nat /\ 0 <= n
        BY <3>1
      <3> QED BY <3>2, Longest
    <2>2. \A j \in JobTypes : j.len \in Lens \cup {0}
      BY DEF JobTypes
    <2> QED BY <2>1, <2>2
  <1>8. job \in JobTypes /\ job.epoch = Current /\ (job.kind # "Mark" => Current > 0)
    BY <1>1, <1>2, <1>4, <1>5, <1>6
  <1> QED BY <1>1, <1>2, <1>4, <1>7, <1>8, PoolAssumption DEF JobsRight

(* A participant that has a job has one that was published.                *)
LEMMA LaneIs ==
  ASSUME PoolInv, NEW p \in Lanes
  PROVE  /\ lane[p] \in LaneTypes
         /\ Known \in 0 .. MaxJobs /\ Known <= Current
         /\ lane[p].at # "parked" =>
              /\ lane[p].job.epoch \in 1 .. Known /\ lane[p].job.epoch \in Epochs
              /\ lane[p].job = published[lane[p].job.epoch]
              /\ lane[p].job \in JobTypes /\ lane[p].job.len \in 0 .. MaxLen
         /\ p = Game /\ lane[p].at # "parked" => game.at = "help" /\ lane[p].job = job
         /\ lane[p].next \in 0 .. MaxLen /\ lane[p].end \in 0 .. MaxLen /\ lane[p].freed \in 0 .. Chunk
  <1>1. lane[p] \in LaneTypes /\ LaneRight(p)
    BY DEF PoolInv, PoolTypes
  <1>2. Known \in 0 .. MaxJobs /\ Known <= Current
    BY JobsAre, PoolAssumption DEF Known, JobLocked, GameRight, Locked, PoolInv
  <1>3. lane[p].at # "parked" =>
          lane[p].job.epoch \in 1 .. Known /\ lane[p].job = published[lane[p].job.epoch]
    BY <1>1 DEF LaneRight
  <1>4. ASSUME lane[p].at # "parked"
        PROVE  /\ lane[p].job.epoch \in Epochs
               /\ lane[p].job \in JobTypes /\ lane[p].job.len \in 0 .. MaxLen
    <2>1. PICK e \in 1 .. Current : lane[p].job.epoch = e /\ lane[p].job = published[e]
      BY <1>2, <1>3, <1>4, JobsAre DEF PoolInv
    <2> QED BY <1>2, <2>1, JobsAre, PoolAssumption DEF PoolInv, Epochs
  <1>5. p = Game /\ lane[p].at # "parked" => game.at = "help" /\ lane[p].job = job
    BY <1>1 DEF LaneRight
  <1> QED BY <1>1, <1>2, <1>3, <1>4, <1>5 DEF LaneTypes

-----------------------------------------------------------------------------
(* A step of one participant                                               *)

(* What of the lanes and the count a step of p may change.                 *)
Moves(p) ==
  /\ lane' \in [Lanes -> LaneTypes]
  /\ \A q \in Lanes \ {p} : lane'[q] = lane[q]
  /\ UNCHANGED <<published, curEpoch, game, held>>

Counts(p) ==
  \/ (lane'[p].at \in ActiveAts <=> lane[p].at \in ActiveAts) /\ active' = active
  \/ lane'[p].at \in ActiveAts /\ lane[p].at \notin ActiveAts /\ active' = active + 1
  \/ lane'[p].at \notin ActiveAts /\ lane[p].at \in ActiveAts /\ active' = active - 1

LEMMA CountsKept ==
  ASSUME PoolInv, NEW p \in Lanes, Counts(p), \A q \in Lanes \ {p} : lane'[q] = lane[q]
  PROVE  ActiveCounts'
  <1>1. active = Cardinality(Busy) /\ IsFiniteSet(Busy)
    BY LanesAre DEF PoolInv, ActiveCounts, Busy
  <1>2. \A q \in Lanes \ {p} : q \in Busy' <=> q \in Busy
    BY DEF Busy
  <1>3. Busy \subseteq Lanes /\ Busy' \subseteq Lanes
    BY DEF Busy
  <1>4. /\ p \in Busy <=> lane[p].at \in ActiveAts
        /\ p \in Busy' <=> lane'[p].at \in ActiveAts
    BY DEF Busy
  <1>5. CASE (lane'[p].at \in ActiveAts <=> lane[p].at \in ActiveAts) /\ active' = active
    <2>1. Busy' = Busy
      BY <1>2, <1>3, <1>4, <1>5
    <2> QED BY <1>1, <1>5, <2>1 DEF ActiveCounts
  <1>6. CASE lane'[p].at \in ActiveAts /\ lane[p].at \notin ActiveAts /\ active' = active + 1
    <2>1. Busy' = Busy \cup {p} /\ p \notin Busy
      BY <1>2, <1>3, <1>4, <1>6
    <2>2. Cardinality(Busy \cup {p}) = Cardinality(Busy) + 1
      BY <1>1, <2>1, FS_AddElement
    <2> QED BY <1>1, <1>6, <2>1, <2>2 DEF ActiveCounts
  <1>7. CASE lane'[p].at \notin ActiveAts /\ lane[p].at \in ActiveAts /\ active' = active - 1
    <2>1. Busy' = Busy \ {p} /\ p \in Busy
      BY <1>2, <1>3, <1>4, <1>7
    <2>2. Cardinality(Busy \ {p}) = Cardinality(Busy) - 1
      BY <1>1, <2>1, FS_RemoveElement
    <2> QED BY <1>1, <1>7, <2>1, <2>2 DEF ActiveCounts
  <1> QED BY <1>5, <1>6, <1>7 DEF Counts

LEMMA LaneMoves ==
  ASSUME PoolInv, NEW p \in Lanes, Moves(p), Counts(p), DataTypes', LaneRight(p)',
         \A w \in Workers : seen'[w] <= Current
  PROVE  PoolInv'
  <1>1. PoolTypes'
    BY DEF PoolInv, PoolTypes, Moves
  <1>2. JobsRight' /\ GameRight'
    BY DEF PoolInv, JobsRight, GameRight, Moves, Current, JobLocked, job
  <1>3. \A q \in Lanes : LaneRight(q)'
    <2> SUFFICES ASSUME NEW q \in Lanes, q # p PROVE LaneRight(q)'
      OBVIOUS
    <2>1. lane'[q] = lane[q] /\ LaneRight(q)
      BY DEF Moves, PoolInv
    <2> QED BY <2>1 DEF Moves, LaneRight, Known, Current, JobLocked, job
  <1>4. ActiveCounts'
    BY CountsKept DEF Moves
  <1> QED BY <1>1, <1>2, <1>3, <1>4 DEF PoolInv

(* Going from one place to another, with all else of the lane as it was.   *)
Goes(p, where) ==
  /\ lane'[p].at = where
  /\ lane'[p].job = lane[p].job /\ lane'[p].next = lane[p].next
  /\ lane'[p].end = lane[p].end /\ lane'[p].freed = lane[p].freed

LEMMA GotoMoves ==
  ASSUME PoolInv, NEW p \in Lanes, NEW where \in LaneAts, Goto(p, where),
         UNCHANGED <<published, curEpoch, game, held>>
  PROVE  Moves(p) /\ Goes(p, where)
  <1>1. lane \in [Lanes -> LaneTypes] /\ lane[p] \in LaneTypes
    BY DEF PoolInv, PoolTypes
  <1>2. lane' = [lane EXCEPT ![p] = [lane[p] EXCEPT !.at = where]]
    BY <1>1 DEF Goto
  <1>3. [lane[p] EXCEPT !.at = where] \in LaneTypes
    BY <1>1 DEF LaneTypes
  <1>4. lane'[p] = [lane[p] EXCEPT !.at = where]
    BY <1>1, <1>2
  <1>5. Goes(p, where)
    BY <1>1, <1>4 DEF Goes, LaneTypes
  <1> QED BY <1>1, <1>2, <1>3, <1>5 DEF Moves

LEMMA ParkedIs ==
  /\ Parked \in LaneTypes /\ Parked.at = "parked" /\ NoJob \in JobTypes
  /\ \A j \in JobTypes, where \in LaneAts :
       LET l == [Parked EXCEPT !.job = j, !.at = where] IN
       /\ l \in LaneTypes /\ l.at = where /\ l.job = j
       /\ l.next = 0 /\ l.end = 0 /\ l.freed = 0
  <1>1. NoJob \in JobTypes
    BY PoolAssumption DEF NoJob, JobTypes
  <1>2. 0 \in 0 .. MaxLen /\ 0 \in 0 .. Chunk
    BY Longest, PoolAssumption
  <1>3. /\ Parked \in LaneTypes /\ Parked.at = "parked"
        /\ Parked.next = 0 /\ Parked.end = 0 /\ Parked.freed = 0
    BY <1>1, <1>2 DEF Parked, LaneTypes, LaneAts
  <1>4. ASSUME NEW j \in JobTypes, NEW where \in LaneAts
        PROVE  LET l == [Parked EXCEPT !.job = j, !.at = where] IN
               /\ l \in LaneTypes /\ l.at = where /\ l.job = j
               /\ l.next = 0 /\ l.end = 0 /\ l.freed = 0
    <2> DEFINE l == [Parked EXCEPT !.job = j, !.at = where]
    <2>1. l.at = where /\ l.job = j /\ l.next = 0 /\ l.end = 0 /\ l.freed = 0
      BY <1>3 DEF LaneTypes
    <2>2. l \in LaneTypes
      BY <1>3 DEF LaneTypes
    <2> QED BY <2>1, <2>2
  <1> QED BY <1>1, <1>3, <1>4

(* A lane that was set to l, and what that is for the step.                *)
LEMMA SetMoves ==
  ASSUME PoolInv, NEW p \in Lanes, NEW l \in LaneTypes, lane' = [lane EXCEPT ![p] = l]
  PROVE  /\ lane' \in [Lanes -> LaneTypes] /\ lane'[p] = l
         /\ \A q \in Lanes \ {p} : lane'[q] = lane[q]
  BY DEF PoolInv, PoolTypes

(* The effect of a claim.                                                  *)
Claims(p) ==
  LET mine == lane[p].job IN
  /\ Moves(p)
  /\ lane[p].at = "claim" /\ lane'[p].job = mine
  /\ cursor' \in 0 .. MaxLen
  /\ cursor >= mine.len => lane'[p].at = "leave"
  /\ cursor < mine.len =>
       /\ lane'[p].at = IF mine.kind = "Particles" THEN "build" ELSE "work"
       /\ lane'[p].next = cursor /\ lane'[p].freed = 0
       /\ cursor < lane'[p].end /\ lane'[p].end <= mine.len
       /\ \A i \in Items : i >= cursor /\ i < lane'[p].end <=>
            i \in cursor .. (cursor + Chunk - 1) /\ i < mine.len
  /\ cursor' >= cursor
  /\ \A i \in Items : i < cursor' <=> i < cursor \/ i \in cursor .. (cursor + Chunk - 1)
  /\ taker' \in [Epochs -> [Items -> 0 .. MaxJobs]]
  /\ \A f \in Epochs, i \in Items :
       taker'[f][i] = IF f = CursorEpoch /\ i \in cursor .. (cursor + Chunk - 1)
                      THEN mine.epoch ELSE taker[f][i]
  /\ lane'[p].end - lane'[p].next <= Chunk \/ lane'[p].at = "leave"
  /\ UNCHANGED <<active, done, freedStrings, seen, view, handled, debited>>

LEMMA ClaimIs ==
  ASSUME PoolInv, NEW p \in Lanes, Claim(p)
  PROVE  Claims(p)
  <1> DEFINE mine == lane[p].job
             end == Earlier(cursor + Chunk, mine.len)
             new == [i \in Items |-> IF i \in cursor .. (cursor + Chunk - 1) THEN mine.epoch
                                     ELSE taker[CursorEpoch][i]]
  <1>1. /\ lane[p].at = "claim" /\ mine.epoch \in Epochs /\ mine.len \in 0 .. MaxLen
        /\ lane[p] \in LaneTypes
    BY LaneIs DEF Claim, At
  <1>2. cursor \in 0 .. MaxLen /\ Chunk \in Nat \ {0} /\ MaxLen \in Nat /\ MaxJobs \in Nat
        /\ taker \in [Epochs -> [Items -> 0 .. MaxJobs]]
    BY Longest, PoolAssumption DEF PoolInv, PoolTypes, DataTypes
  <1>3. end \in 0 .. MaxLen /\ (cursor < mine.len => cursor < end /\ end <= mine.len)
        /\ end - cursor <= Chunk
    BY <1>1, <1>2 DEF Earlier
  <1>4. /\ cursor' = Earlier(cursor + Chunk, MaxLen)
        /\ UNCHANGED <<active, published, curEpoch, done, freedStrings, seen,
                       game, view, held, handled, debited>>
    BY DEF Claim
  <1>5. /\ cursor' \in 0 .. MaxLen /\ cursor' >= cursor
        /\ \A i \in Items : i < cursor' <=> i < cursor \/ i \in cursor .. (cursor + Chunk - 1)
    BY <1>2, <1>4 DEF Earlier, Items
  <1>6. /\ taker' \in [Epochs -> [Items -> 0 .. MaxJobs]]
        /\ \A f \in Epochs, i \in Items :
             taker'[f][i] = IF f = CursorEpoch /\ i \in cursor .. (cursor + Chunk - 1)
                            THEN mine.epoch ELSE taker[f][i]
    <2>1. taker' = [taker EXCEPT ![CursorEpoch] = new]
      BY DEF Claim
    <2>2. CursorEpoch \in Epochs => new \in [Items -> 0 .. MaxJobs]
      BY <1>1, <1>2 DEF Epochs
    <2>3. \A i \in Items : new[i] = IF i \in cursor .. (cursor + Chunk - 1)
                                    THEN mine.epoch ELSE taker[CursorEpoch][i]
      OBVIOUS
    <2> HIDE DEF new, mine
    <2> QED BY <1>2, <2>1, <2>2, <2>3
  <1>7. CASE cursor >= mine.len
    <2>1. Goto(p, "leave")
      BY <1>7 DEF Claim
    <2>2. Moves(p) /\ Goes(p, "leave")
      BY <1>4, <2>1, GotoMoves DEF LaneAts, ActiveAts
    <2>3. ~(cursor < mine.len)
      BY <1>1, <1>2, <1>7
    <2> QED BY <1>1, <1>4, <1>5, <1>6, <1>7, <2>2, <2>3 DEF Claims, Goes
  <1>8. CASE cursor < mine.len
    <2> DEFINE where == IF mine.kind = "Particles" THEN "build" ELSE "work"
               l == [lane[p] EXCEPT !.next = cursor, !.end = end, !.freed = 0, !.at = where]
    <2>1. ~(cursor >= mine.len)
      BY <1>1, <1>2, <1>8
    <2>2. lane \in [Lanes -> LaneTypes]
      BY DEF PoolInv, PoolTypes
    <2>3. lane' = [lane EXCEPT ![p] = l]
      BY <1>1, <2>1, <2>2 DEF Claim
    <2>4. l \in LaneTypes /\ l.next = cursor /\ l.end = end /\ l.freed = 0 /\ l.at = where
          /\ l.job = mine
      <3>1. where \in LaneAts /\ cursor \in 0 .. MaxLen /\ end \in 0 .. MaxLen /\ 0 \in 0 .. Chunk
        BY <1>2, <1>3 DEF LaneAts, ActiveAts
      <3> HIDE DEF end, where, mine
      <3>2. l \in LaneTypes /\ l.next = cursor /\ l.end = end /\ l.freed = 0 /\ l.at = where
        BY <1>1, <3>1 DEF LaneTypes
      <3>3. l.job = lane[p].job
        BY <1>1 DEF LaneTypes
      <3> QED BY <3>2, <3>3 DEF mine
    <2>5. /\ lane'[p] = l /\ lane' \in [Lanes -> LaneTypes]
          /\ \A q \in Lanes \ {p} : lane'[q] = lane[q]
      <3> HIDE DEF l
      <3> QED BY <2>3, <2>4, SetMoves
    <2>6. Moves(p)
      BY <1>4, <2>5 DEF Moves
    <2>7. \A i \in Items : i >= cursor /\ i < end <=>
            i \in cursor .. (cursor + Chunk - 1) /\ i < mine.len
      BY <1>1, <1>2 DEF Earlier, Items
    <2> HIDE DEF l, where, end
    <2> QED BY <1>1, <1>3, <1>4, <1>5, <1>6, <1>8, <2>1, <2>4, <2>5, <2>6, <2>7 DEF Claims, where
  <1> QED BY <1>1, <1>2, <1>7, <1>8

(* The effect of working on an item; a built entry frees nothing.          *)
Handles(p) ==
  LET mine == lane[p].job
      e == mine.epoch
      i == lane[p].next IN
  /\ Moves(p)
  /\ e \in Epochs /\ i \in Items
  /\ lane'[p].job = mine /\ lane'[p].next = i + 1 /\ lane'[p].end = lane[p].end
  /\ handled' \in [Epochs -> [Items -> Nat]]
  /\ \A f \in Epochs, j \in Items :
       handled'[f][j] = IF f = e /\ j = i THEN handled[f][j] + 1 ELSE handled[f][j]
  /\ UNCHANGED <<active, cursor, done, freedStrings, seen, view, taker, debited>>

Works(p) ==
  LET mine == lane[p].job
      i == lane[p].next IN
  /\ Handles(p) /\ lane[p].at = "work"
  /\ lane'[p].at = IF i + 1 < lane[p].end THEN "work"
                   ELSE IF mine.kind = "Sweep" THEN "flush" ELSE "lower"
  /\ lane'[p].freed = lane[p].freed + IF handled[mine.epoch][i] = 0 THEN 1 ELSE 0

Builds(p) ==
  /\ Handles(p) /\ lane[p].at = "build"
  /\ lane'[p].at = IF lane[p].next + 1 < lane[p].end THEN "build" ELSE "lower"
  /\ lane'[p].freed = lane[p].freed

LEMMA HandlesIs ==
  ASSUME PoolInv, NEW p \in Lanes, lane[p].at \in {"work", "build"},
         NEW l \in LaneTypes, lane' = [lane EXCEPT ![p] = l],
         l.job = lane[p].job, l.next = lane[p].next + 1, l.end = lane[p].end,
         handled' = [handled EXCEPT ![lane[p].job.epoch][lane[p].next] = @ + 1],
         UNCHANGED <<poolVars, game, view, held, taker, debited>>
  PROVE  Handles(p) /\ lane'[p] = l
  <1> DEFINE e == lane[p].job.epoch
             i == lane[p].next
  <1>1. lane[p].next < lane[p].end /\ lane[p].end <= lane[p].job.len
    BY DEF PoolInv, LaneRight
  <1>2. e \in Epochs /\ lane[p].job.len \in 0 .. MaxLen /\ i \in 0 .. MaxLen /\ lane[p].end \in 0 .. MaxLen
    BY LaneIs
  <1>3. i \in Items
    BY <1>1, <1>2, Longest DEF Items
  <1>4. handled \in [Epochs -> [Items -> Nat]]
    BY DEF PoolInv, PoolTypes, DataTypes
  <1> HIDE DEF e, i
  <1>5. /\ handled' \in [Epochs -> [Items -> Nat]]
        /\ \A f \in Epochs, j \in Items :
             handled'[f][j] = IF f = e /\ j = i THEN handled[f][j] + 1 ELSE handled[f][j]
    <2>1. handled' = [handled EXCEPT ![e][i] = @ + 1]
      BY DEF e, i
    <2> DEFINE row == [handled[e] EXCEPT ![i] = handled[e][i] + 1]
    <2>2. handled[e] \in [Items -> Nat] /\ handled[e][i] + 1 \in Nat
      BY <1>2, <1>3, <1>4
    <2>3. /\ row \in [Items -> Nat]
          /\ \A j \in Items : row[j] = IF j = i THEN handled[e][j] + 1 ELSE handled[e][j]
      BY <1>3, <2>2
    <2>4. handled' = [handled EXCEPT ![e] = row]
      BY <2>1
    <2> HIDE DEF row
    <2>5. handled' = [f \in Epochs |-> IF f = e THEN row ELSE handled[f]]
      BY <1>4, <2>4
    <2>6. handled' \in [Epochs -> [Items -> Nat]]
      BY <1>4, <2>3, <2>5
    <2> QED BY <1>2, <2>3, <2>5, <2>6
  <1>6. /\ lane' \in [Lanes -> LaneTypes] /\ lane'[p] = l
        /\ \A q \in Lanes \ {p} : lane'[q] = lane[q]
    BY SetMoves
  <1>7. Moves(p)
    BY <1>6 DEF Moves, poolVars
  <1> QED BY <1>2, <1>3, <1>5, <1>6, <1>7 DEF Handles, e, i, poolVars

LEMMA WorkIs ==
  ASSUME PoolInv, NEW p \in Lanes, Work(p)
  PROVE  Works(p)
  <1> DEFINE mine == lane[p].job
             i == lane[p].next
             freed == lane[p].freed + IF handled[mine.epoch][i] = 0 THEN 1 ELSE 0
             where == IF i + 1 < lane[p].end THEN "work"
                      ELSE IF mine.kind = "Sweep" THEN "flush" ELSE "lower"
             l == [lane[p] EXCEPT !.next = i + 1, !.freed = freed, !.at = where]
  <1>1. /\ lane[p].at = "work" /\ i < lane[p].end /\ lane[p].freed + (lane[p].end - i) <= Chunk
    BY DEF Work, At, PoolInv, LaneRight
  <1>2. /\ lane[p] \in LaneTypes /\ i \in 0 .. MaxLen /\ lane[p].end \in 0 .. MaxLen
        /\ lane[p].freed \in 0 .. Chunk /\ MaxLen \in Nat /\ Chunk \in Nat
    BY LaneIs, Longest, PoolAssumption
  <1>3. i + 1 \in 0 .. MaxLen /\ freed \in 0 .. Chunk /\ where \in LaneAts
    BY <1>1, <1>2 DEF LaneAts, ActiveAts
  <1>4. lane' = [lane EXCEPT ![p] = l]
    <2>1. lane \in [Lanes -> LaneTypes]
      BY DEF PoolInv, PoolTypes
    <2> QED BY <1>2, <2>1 DEF Work
  <1> HIDE DEF freed, where
  <1>5. l \in LaneTypes /\ l.next = i + 1 /\ l.freed = freed /\ l.at = where
        /\ l.job = lane[p].job /\ l.end = lane[p].end
    BY <1>2, <1>3 DEF LaneTypes
  <1> HIDE DEF l
  <1>6. Handles(p) /\ lane'[p] = l
    BY <1>1, <1>4, <1>5, HandlesIs DEF Work
  <1> QED BY <1>1, <1>5, <1>6 DEF Works, freed, where

LEMMA BuildIs ==
  ASSUME PoolInv, NEW p \in Lanes, BuildEntry(p)
  PROVE  Builds(p)
  <1> DEFINE i == lane[p].next
             where == IF i + 1 < lane[p].end THEN "build" ELSE "lower"
             l == [lane[p] EXCEPT !.next = i + 1, !.at = where]
  <1>1. lane[p].at = "build" /\ i < lane[p].end
    BY DEF BuildEntry, At, PoolInv, LaneRight
  <1>2. lane[p] \in LaneTypes /\ i \in 0 .. MaxLen /\ lane[p].end \in 0 .. MaxLen /\ MaxLen \in Nat
    BY LaneIs, Longest
  <1>3. i + 1 \in 0 .. MaxLen /\ where \in LaneAts
    BY <1>1, <1>2 DEF LaneAts, ActiveAts
  <1>4. lane' = [lane EXCEPT ![p] = l]
    <2>1. lane \in [Lanes -> LaneTypes]
      BY DEF PoolInv, PoolTypes
    <2> QED BY <1>2, <2>1 DEF BuildEntry
  <1> HIDE DEF where
  <1>5. l \in LaneTypes /\ l.next = i + 1 /\ l.at = where
        /\ l.job = lane[p].job /\ l.end = lane[p].end /\ l.freed = lane[p].freed
    BY <1>2, <1>3 DEF LaneTypes
  <1> HIDE DEF l
  <1>6. Handles(p) /\ lane'[p] = l
    BY <1>1, <1>4, <1>5, HandlesIs DEF BuildEntry
  <1> QED BY <1>1, <1>5, <1>6 DEF Builds, where

(* The effect of a step that neither claims nor works: of what is counted, *)
(* only a flush changes anything.                                          *)
Passes(p) ==
  /\ Moves(p)
  /\ lane'[p].at \notin {"work", "build", "flush"}
  /\ lane[p].at \notin {"work", "flush"}
  /\ lane[p].at = "build" => lane[p].job.kind = "Particles"
  /\ p = Game /\ job.kind = "Sweep" /\ lane'[p].at \in {"parked", "leave"} => lane[p].at = "leave"
  /\ UNCHANGED <<cursor, freedStrings, handled, taker, debited>>

Flushes(p) ==
  /\ Moves(p) /\ Goes(p, "lower") /\ lane[p].at = "flush"
  /\ freedStrings' = freedStrings + lane[p].freed
  /\ UNCHANGED <<active, cursor, done, seen, view, handled, taker, debited>>

-----------------------------------------------------------------------------
(* The steps of a participant keep the invariant, and have one of the five *)
(* effects.                                                                *)

LEMMA ClaimStep ==
  ASSUME PoolInv, NEW p \in Lanes, Claim(p)
  PROVE  PoolInv' /\ Claims(p)
  <1>1. Claims(p)
    BY ClaimIs
  <1>2. LaneRight(p) /\ lane[p].at = "claim" /\ DataTypes /\ lane'[p].job = lane[p].job
    BY <1>1 DEF PoolInv, PoolTypes, Claims
  <1>3. DataTypes'
    BY <1>1, <1>2 DEF Claims, DataTypes
  <1>4. cursor \in Nat /\ lane[p].job.len \in Nat /\ Chunk \in Nat /\ lane'[p].end \in Nat
    <2>1. lane'[p].end \in 0 .. MaxLen
      BY <1>1 DEF Claims, Moves, LaneTypes
    <2> QED BY <1>2, <2>1, LaneIs, Longest, PoolAssumption DEF DataTypes
  <1>5. lane[p].job.kind \in {"Sweep", "Particles", "AnimateRoots"}
    BY <1>2, LaneIs DEF LaneRight, JobTypes
  <1>6. LaneRight(p)'
    <2>1. CASE cursor >= lane[p].job.len
      BY <1>1, <1>2, <2>1 DEF Claims, Moves, LaneRight, Known, Current, JobLocked, job
    <2>2. CASE cursor < lane[p].job.len
      <3>1. lane'[p].at = IF lane[p].job.kind = "Particles" THEN "build" ELSE "work"
        BY <1>1, <2>2 DEF Claims
      <3>2. /\ lane'[p].next < lane'[p].end /\ lane'[p].end <= lane'[p].job.len
            /\ lane'[p].freed = 0 /\ lane'[p].freed <= lane'[p].next
            /\ lane'[p].end - lane'[p].next <= Chunk
        BY <1>1, <1>2, <1>4, <2>2, <3>1 DEF Claims
      <3>3. lane'[p].freed + (lane'[p].end - lane'[p].next) <= Chunk
        BY <1>1, <1>4, <2>2, <3>2 DEF Claims
      <3> QED BY <1>1, <1>2, <1>5, <3>1, <3>2, <3>3
              DEF Claims, Moves, LaneRight, Known, Current, JobLocked, job
    <2> QED BY <1>4, <2>1, <2>2
  <1>7. Counts(p)
    <2>1. lane'[p].at \in {"leave", "build", "work"}
      BY <1>1, <1>4 DEF Claims
    <2> QED BY <1>1, <1>2, <2>1 DEF Claims, Counts, ActiveAts
  <1>8. \A w \in Workers : seen'[w] <= Current
    BY <1>1 DEF Claims, PoolInv, JobsRight
  <1>9. Moves(p)
    BY <1>1 DEF Claims
  <1> QED BY <1>1, <1>3, <1>6, <1>7, <1>8, <1>9, LaneMoves

LEMMA HandlesKept ==
  ASSUME PoolInv, NEW p \in Lanes, Handles(p), lane[p].at \in {"work", "build"},
         lane'[p].at \in {"work", "build", "flush", "lower"}, LaneRight(p)'
  PROVE  PoolInv'
  <1>1. DataTypes'
    BY DEF Handles, PoolInv, PoolTypes, DataTypes
  <1>2. Counts(p)
    BY DEF Handles, Counts, ActiveAts
  <1>3. \A w \in Workers : seen'[w] <= Current
    BY DEF Handles, PoolInv, JobsRight
  <1>4. Moves(p)
    BY DEF Handles
  <1> QED BY <1>1, <1>2, <1>3, <1>4, LaneMoves

LEMMA WorkStep ==
  ASSUME PoolInv, NEW p \in Lanes, Work(p)
  PROVE  PoolInv' /\ Works(p)
  <1>1. Works(p)
    BY WorkIs
  <1>2. /\ LaneRight(p) /\ lane[p].at = "work" /\ lane'[p].job = lane[p].job
        /\ lane'[p].next = lane[p].next + 1 /\ lane'[p].end = lane[p].end
        /\ UNCHANGED <<published, game>>
    BY <1>1 DEF PoolInv, Works, Handles, Moves
  <1>3. /\ lane[p].next \in Nat /\ lane[p].end \in Nat /\ lane[p].freed \in Nat /\ Chunk \in Nat
        /\ lane'[p].freed \in {lane[p].freed, lane[p].freed + 1}
    BY <1>1, LaneIs, Longest, PoolAssumption DEF Works
  <1>4. /\ lane'[p].at = "work" => lane'[p].next < lane'[p].end
        /\ lane'[p].at \in {"work", "flush", "lower"}
        /\ lane'[p].at = "flush" => lane[p].job.kind = "Sweep"
    BY <1>1, <1>2 DEF Works
  <1>5. /\ lane[p].next < lane[p].end /\ lane[p].end <= lane[p].job.len
        /\ lane[p].freed + (lane[p].end - lane[p].next) <= Chunk /\ lane[p].freed <= lane[p].next
    BY <1>2 DEF LaneRight
  <1>6. /\ lane'[p].freed <= lane'[p].next
        /\ lane'[p].freed + (lane'[p].end - lane'[p].next) <= Chunk
        /\ lane'[p].end <= lane'[p].job.len
    BY <1>2, <1>3, <1>5
  <1>7. LaneRight(p)'
    BY <1>2, <1>4, <1>6 DEF LaneRight, Known, Current, JobLocked, job
  <1> QED BY <1>1, <1>2, <1>4, <1>7, HandlesKept DEF Works

LEMMA BuildStep ==
  ASSUME PoolInv, NEW p \in Lanes, BuildEntry(p)
  PROVE  PoolInv' /\ Builds(p)
  <1>1. Builds(p)
    BY BuildIs
  <1>2. /\ LaneRight(p) /\ lane[p].at = "build" /\ lane'[p].job = lane[p].job
        /\ lane'[p].next = lane[p].next + 1 /\ lane'[p].end = lane[p].end
        /\ UNCHANGED <<published, game>>
    BY <1>1 DEF PoolInv, Builds, Handles, Moves
  <1>3. /\ lane'[p].at = "build" => lane'[p].next < lane'[p].end
        /\ lane'[p].at \in {"build", "lower"}
    BY <1>1, <1>2 DEF Builds
  <1>4. LaneRight(p)'
    BY <1>2, <1>3 DEF LaneRight, Known, Current, JobLocked, job
  <1> QED BY <1>1, <1>2, <1>3, <1>4, HandlesKept DEF Builds

LEMMA FlushStep ==
  ASSUME PoolInv, NEW p \in Lanes, Flush(p)
  PROVE  PoolInv' /\ Flushes(p)
  <1>1. Moves(p) /\ Goes(p, "lower")
    BY GotoMoves DEF Flush, LaneAts, ActiveAts
  <1>2. /\ lane[p].at = "flush" /\ freedStrings' = freedStrings + lane[p].freed
        /\ UNCHANGED <<active, cursor, done, seen, view, handled, taker, debited>>
    BY DEF Flush, At
  <1>3. DataTypes /\ LaneRight(p) /\ lane[p].freed \in Nat
    BY LaneIs, PoolAssumption DEF PoolInv, PoolTypes
  <1>4. DataTypes'
    BY <1>2, <1>3 DEF DataTypes
  <1>5. LaneRight(p)'
    BY <1>1, <1>2, <1>3 DEF Goes, Moves, LaneRight, Known, Current, JobLocked, job
  <1>6. Counts(p) /\ \A w \in Workers : seen'[w] <= Current
    BY <1>1, <1>2 DEF Goes, Counts, ActiveAts, PoolInv, JobsRight
  <1> QED BY <1>1, <1>2, <1>4, <1>5, <1>6, LaneMoves DEF Flushes

LEMMA PassingStep ==
  ASSUME PoolInv, NEW p \in Lanes,
         \/ Raise(p) \/ Check(p) \/ Elect(p) \/ ScanEntry(p) \/ ScanEnds(p)
         \/ BuildExhausted(p) \/ Lower(p) \/ Leave(p)
  PROVE  PoolInv' /\ Passes(p)
  <1>1. /\ lane[p] \in LaneTypes /\ LaneRight(p) /\ lane \in [Lanes -> LaneTypes] /\ DataTypes
        /\ \A w \in Workers : seen[w] <= Current
    BY DEF PoolInv, PoolTypes, JobsRight
  <1>2. lane[p].at # "parked" =>
          lane[p].job.epoch \in Epochs /\ lane[p].job \in JobTypes /\ lane[p].job.len \in 0 .. MaxLen
    BY LaneIs
  <1>3. ASSUME NEW where \in {"check", "leave", "elect", "claim", "scan", "lower"},
               Goto(p, where), UNCHANGED <<published, curEpoch, game, held, seen, cursor, freedStrings, handled, taker, debited>>,
               Counts(p), lane[p].at \notin {"parked", "spin", "work", "flush"},
               where \in {"elect", "scan"} => lane[p].job.kind = "Particles",
               p = Game /\ job.kind = "Sweep" /\ where = "leave" => lane[p].at = "leave",
               view' \in [Epochs -> ViewTypes], done' = done
        PROVE  PoolInv' /\ Passes(p)
    <2>1. Moves(p) /\ Goes(p, where)
      BY <1>3, GotoMoves DEF LaneAts, ActiveAts
    <2>2. DataTypes'
      BY <1>1, <1>3 DEF DataTypes
    <2>3. LaneRight(p)'
      BY <1>1, <1>3, <2>1 DEF Goes, Moves, LaneRight, Known, Current, JobLocked, job
    <2>4. PoolInv'
      BY <1>1, <1>3, <2>1, <2>2, <2>3, LaneMoves
    <2> QED BY <1>1, <1>3, <2>1, <2>4 DEF Passes, Goes, LaneRight
  <1>4. CASE Raise(p)
    <2>1. Goto(p, "check") /\ lane[p].at = "raise"
      BY <1>4 DEF Raise, At
    <2>2. lane'[p].at = "check"
      BY <1>1, <2>1 DEF Goto, LaneTypes
    <2>3. Counts(p)
      BY <1>4, <2>1, <2>2 DEF Counts, Raise, ActiveAts
    <2> QED BY <1>1, <1>3, <1>4, <2>1, <2>3 DEF Raise, DataTypes
  <1>5. ASSUME NEW from \in ActiveAts, NEW where \in ActiveAts, Goto(p, where), lane[p].at = from,
               active' = active
        PROVE  Counts(p)
    <2>1. lane'[p].at = where
      BY <1>1, <1>5 DEF Goto, LaneTypes
    <2> QED BY <1>5, <2>1 DEF Counts
  <1>6. CASE Check(p)
    <2> DEFINE where == IF curEpoch # lane[p].job.epoch THEN "leave"
                        ELSE IF lane[p].job.kind = "Particles" THEN "elect" ELSE "claim"
    <2>1. lane[p].at = "check" /\ Goto(p, where) /\ where \in {"leave", "elect", "claim"}
          /\ (where = "elect" => lane[p].job.kind = "Particles")
      BY <1>6 DEF Check, At
    <2>2. p = Game => where # "leave"
      <3> SUFFICES ASSUME p = Game PROVE curEpoch = lane[p].job.epoch
        OBVIOUS
      <3>1. game.at = "help" /\ lane[p].job = job
        BY <2>1, LaneIs
      <3>2. curEpoch = Current
        BY <3>1 DEF PoolInv, GameRight, JobLocked
      <3> QED BY <3>1, <3>2, JobsAre DEF PoolInv
    <2> HIDE DEF where
    <2>3. Counts(p)
      BY <1>5, <1>6, <2>1 DEF Check, poolVars, ActiveAts
    <2>4. /\ view' \in [Epochs -> ViewTypes] /\ done' = done
          /\ UNCHANGED <<published, curEpoch, game, held, seen, cursor, freedStrings, handled, taker, debited>>
      BY <1>1, <1>6 DEF Check, poolVars, DataTypes
    <2> QED BY <1>3, <2>1, <2>2, <2>3, <2>4
  <1>7. CASE Elect(p)
    <2> DEFINE e == lane[p].job.epoch
    <2>1. lane[p].at = "elect" /\ lane[p].job.kind = "Particles" /\ e \in Epochs /\ view[e] \in ViewTypes
      BY <1>1, <1>2, <1>7 DEF Elect, At, LaneRight, DataTypes
    <2>2. PICK won \in BOOLEAN : /\ Goto(p, IF won THEN "scan" ELSE "claim")
                                 /\ view' = [view EXCEPT ![e].scanClaimed = @ \/ won]
      <3>1. view[e].scanClaimed \in BOOLEAN
        BY <2>1 DEF ViewTypes
      <3>2. PICK won \in (IF e \in held THEN {~view[e].scanClaimed} ELSE BOOLEAN) :
                 /\ Goto(p, IF won THEN "scan" ELSE "claim")
                 /\ view' = [view EXCEPT ![e].scanClaimed = @ \/ won]
        BY <1>7 DEF Elect
      <3>3. won \in BOOLEAN
        BY <3>2
      <3> QED BY <3>2, <3>3
    <2>3. PICK where \in {"scan", "claim"} : Goto(p, where)
      BY <2>2
    <2>4. view' \in [Epochs -> ViewTypes]
      <3>1. view' = [view EXCEPT ![e] = [view[e] EXCEPT !.scanClaimed = view[e].scanClaimed \/ won]]
        BY <2>2
      <3>2. [view[e] EXCEPT !.scanClaimed = view[e].scanClaimed \/ won] \in ViewTypes
        <4>1. (view[e].scanClaimed \/ won) \in BOOLEAN
          OBVIOUS
        <4> DEFINE b == view[e].scanClaimed \/ won
        <4>2. b \in BOOLEAN
          BY <4>1
        <4> HIDE DEF b, e
        <4>3. [view[e] EXCEPT !.scanClaimed = b] \in ViewTypes
          BY <2>1, <4>2 DEF ViewTypes
        <4> QED BY <4>3 DEF b
      <3> HIDE DEF e
      <3> QED BY <1>1, <3>1, <3>2 DEF DataTypes
    <2>5. Counts(p)
      BY <1>5, <1>7, <2>1, <2>3 DEF Elect, poolVars, ActiveAts
    <2>6. done' = done
          /\ UNCHANGED <<published, curEpoch, game, held, seen, cursor, freedStrings, handled, taker, debited>>
      BY <1>7 DEF Elect, poolVars
    <2> QED BY <1>3, <2>1, <2>3, <2>4, <2>5, <2>6
  <1>8. CASE ScanEntry(p)
    <2> DEFINE e == lane[p].job.epoch
    <2>1. lane[p].at = "scan" /\ e \in Epochs /\ view[e].ready < lane[p].job.len
          /\ view[e] \in ViewTypes /\ lane[p].job.len \in 0 .. MaxLen
          /\ view' = [view EXCEPT ![e].ready = @ + 1]
          /\ UNCHANGED <<poolVars, lane, game, held, handled, taker, debited>>
      BY <1>1, <1>2, <1>8 DEF ScanEntry, At, DataTypes
    <2>2. view' \in [Epochs -> ViewTypes]
      <3>1. view[e].ready + 1 \in 0 .. MaxLen
        BY <2>1, Longest DEF ViewTypes
      <3>2. [view[e] EXCEPT !.ready = view[e].ready + 1] \in ViewTypes
        BY <2>1, <3>1 DEF ViewTypes
      <3>3. view' = [view EXCEPT ![e] = [view[e] EXCEPT !.ready = view[e].ready + 1]]
        BY <2>1
      <3> HIDE DEF e
      <3> QED BY <1>1, <2>1, <3>2, <3>3 DEF DataTypes
    <2> HIDE DEF e
    <2>3. Moves(p) /\ Counts(p) /\ LaneRight(p)'
      BY <1>1, <2>1 DEF Moves, Counts, poolVars, LaneRight, Known, Current, JobLocked, job
    <2>4. DataTypes' /\ \A w \in Workers : seen'[w] <= Current
      BY <1>1, <2>1, <2>2 DEF DataTypes, poolVars
    <2> QED BY <2>1, <2>3, <2>4, LaneMoves DEF Passes, poolVars
  <1>9. CASE ScanEnds(p)
    <2> DEFINE e == lane[p].job.epoch
    <2>1. /\ lane[p].at = "scan" /\ e \in Epochs /\ view[e] \in ViewTypes /\ Goto(p, "lower")
          /\ view' = [view EXCEPT ![e].total = view[e].ready, ![e].scanDone = TRUE]
          /\ UNCHANGED <<poolVars, game, held, handled, taker, debited>>
      BY <1>1, <1>2, <1>9 DEF ScanEnds, At, DataTypes
    <2>2. view' \in [Epochs -> ViewTypes]
      <3>1. [view[e] EXCEPT !.total = view[e].ready, !.scanDone = TRUE] \in ViewTypes
        BY <2>1 DEF ViewTypes
      <3>2. view' = [view EXCEPT ![e] = [view[e] EXCEPT !.total = view[e].ready, !.scanDone = TRUE]]
        BY <1>1, <2>1 DEF DataTypes
      <3> HIDE DEF e
      <3> QED BY <1>1, <2>1, <3>1, <3>2 DEF DataTypes
    <2>3. Counts(p)
      BY <1>5, <2>1 DEF poolVars, ActiveAts
    <2> QED BY <1>3, <2>1, <2>2, <2>3 DEF poolVars
  <1>10. CASE BuildExhausted(p)
    <2>1. lane[p].at = "build" /\ Goto(p, "leave") /\ lane[p].job.kind = "Particles"
          /\ UNCHANGED <<poolVars, game, view, held, handled, taker, debited>>
      BY <1>1, <1>10 DEF BuildExhausted, At, LaneRight
    <2>2. p = Game => job.kind = "Particles"
      BY <2>1, LaneIs
    <2>3. Counts(p)
      BY <1>5, <2>1 DEF poolVars, ActiveAts
    <2> QED BY <1>1, <1>3, <2>1, <2>2, <2>3 DEF poolVars, DataTypes
  <1>11. ASSUME NEW l \in LaneTypes, lane' = [lane EXCEPT ![p] = l],
                l = Parked \/ (l.at = "raise" /\ l.job = lane[p].job),
                lane[p].at \in {"lower", "leave"}, active' = active - 1,
                l.at = "parked" => lane[p].at = "leave" \/ p # Game \/ job.kind # "Sweep",
                UNCHANGED <<published, curEpoch, cursor, done, freedStrings, seen,
                            game, view, held, handled, taker, debited>>
         PROVE  PoolInv' /\ Passes(p)
    <2>1. /\ lane' \in [Lanes -> LaneTypes] /\ lane'[p] = l
          /\ \A q \in Lanes \ {p} : lane'[q] = lane[q]
      BY <1>11, SetMoves
    <2>2. Moves(p)
      BY <1>11, <2>1 DEF Moves
    <2>3. l.at \in {"parked", "raise"}
      BY <1>11, ParkedIs
    <2>4. Counts(p)
      BY <1>11, <2>1, <2>3 DEF Counts, ActiveAts
    <2>5. LaneRight(p)'
      <3>1. CASE l = Parked
        BY <2>1, <3>1, ParkedIs DEF LaneRight
      <3>2. CASE l.at = "raise" /\ l.job = lane[p].job
        BY <1>1, <1>11, <2>1, <3>2 DEF LaneRight, Known, Current, JobLocked, job
      <3> QED BY <1>11, <3>1, <3>2
    <2>6. DataTypes' /\ \A w \in Workers : seen'[w] <= Current
      BY <1>1, <1>11 DEF DataTypes
    <2>7. PoolInv'
      BY <2>2, <2>4, <2>5, <2>6, LaneMoves
    <2> QED BY <1>11, <2>1, <2>2, <2>3, <2>7 DEF Passes
  <1>12. CASE Lower(p)
    <2> DEFINE l == IF p = Game /\ lane[p].job.kind = "AnimateRoots" THEN Parked
                    ELSE [Parked EXCEPT !.job = lane[p].job, !.at = "raise"]
    <2>1. lane[p].at = "lower" /\ lane[p].job \in JobTypes
      BY <1>2, <1>12 DEF Lower, At
    <2>2. /\ l \in LaneTypes
          /\ l = Parked \/ (l.at = "raise" /\ l.job = lane[p].job)
          /\ l.at = "parked" => p = Game /\ lane[p].job.kind = "AnimateRoots"
      <3>1. "raise" \in LaneAts
        BY DEF LaneAts
      <3>2. CASE p = Game /\ lane[p].job.kind = "AnimateRoots"
        BY <3>2, ParkedIs
      <3>3. CASE ~(p = Game /\ lane[p].job.kind = "AnimateRoots")
        <4>1. l = [Parked EXCEPT !.job = lane[p].job, !.at = "raise"]
          BY <3>3
        <4> HIDE DEF l
        <4>2. l \in LaneTypes /\ l.job = lane[p].job /\ l.at = "raise"
          BY <2>1, <3>1, <4>1, ParkedIs
        <4> QED BY <4>2
      <3> QED BY <3>2, <3>3
    <2>3. p = Game => lane[p].job = job
      BY <2>1, LaneIs
    <2>4. lane' = [lane EXCEPT ![p] = l] /\ active' = active - 1
          /\ UNCHANGED <<published, curEpoch, cursor, done, freedStrings, seen,
                         game, view, held, handled, taker, debited>>
      BY <1>12 DEF Lower
    <2> HIDE DEF l
    <2> QED BY <1>11, <2>1, <2>2, <2>3, <2>4
  <1>13. CASE Leave(p)
    <2>1. lane[p].at = "leave" /\ lane' = [lane EXCEPT ![p] = Parked] /\ active' = active - 1
          /\ UNCHANGED <<published, curEpoch, cursor, done, freedStrings, seen,
                         game, view, held, handled, taker, debited>>
      BY <1>13 DEF Leave, At
    <2> QED BY <1>11, <2>1, ParkedIs
  <1> QED BY <1>4, <1>6, <1>7, <1>8, <1>9, <1>10, <1>12, <1>13

LEMMA WorkerPasses ==
  ASSUME PoolInv, NEW w \in Workers, Wake(w) \/ SpinDone(w)
  PROVE  PoolInv' /\ Passes(w)
  <1>1. /\ w \in Lanes /\ w # Game /\ lane \in [Lanes -> LaneTypes] /\ LaneRight(w) /\ DataTypes
        /\ \A v \in Workers : seen[v] <= Current
    BY LanesAre DEF PoolInv, PoolTypes, JobsRight
  <1>2. CASE Wake(w)
    <2> DEFINE l == [Parked EXCEPT !.job = job, !.at = IF job.kind = "Mark" THEN "spin" ELSE "raise"]
    <2>1. /\ lane[w].at = "parked" /\ ~JobLocked /\ job.epoch # seen[w]
          /\ seen' = [seen EXCEPT ![w] = job.epoch]
          /\ lane' = [lane EXCEPT ![w] = l]
          /\ UNCHANGED <<published, curEpoch, cursor, done, active, freedStrings,
                         game, view, held, handled, taker, debited>>
      BY <1>2 DEF Wake, At
    <2>2. job \in JobTypes /\ job.epoch = Current /\ Current \in 0 .. MaxJobs
          /\ (Current > 0 => job = published[Current])
      BY JobsAre DEF PoolInv
    <2>3. l \in LaneTypes /\ l.job = job /\ l.at = IF job.kind = "Mark" THEN "spin" ELSE "raise"
      <3> DEFINE where == IF job.kind = "Mark" THEN "spin" ELSE "raise"
      <3>1. where \in LaneAts
        BY DEF LaneAts
      <3>2. l = [Parked EXCEPT !.job = job, !.at = where]
        OBVIOUS
      <3> HIDE DEF where, l
      <3>3. l \in LaneTypes /\ l.job = job /\ l.at = where
        BY <2>2, <3>1, <3>2, ParkedIs
      <3> QED BY <3>3 DEF where
    <2>4. Current > 0 /\ Known = Current
      BY <1>1, <2>1, <2>2, PoolAssumption DEF DataTypes, Known
    <2>5. DataTypes' /\ \A v \in Workers : seen'[v] <= Current
      BY <1>1, <2>1, <2>2, PoolAssumption DEF DataTypes
    <2> HIDE DEF l
    <2>6. /\ lane' \in [Lanes -> LaneTypes] /\ lane'[w] = l
          /\ \A q \in Lanes \ {w} : lane'[q] = lane[q]
      BY <1>1, <2>1, <2>3, SetMoves
    <2>7. Moves(w) /\ Counts(w)
      BY <2>1, <2>3, <2>6 DEF Moves, Counts, ActiveAts
    <2>8. LaneRight(w)'
      <3>1. Known' = Known /\ published' = published
        BY <2>1 DEF Known, Current, JobLocked
      <3>2. lane'[w].job.epoch \in 1 .. Known /\ lane'[w].job = published[lane'[w].job.epoch]
        BY <2>2, <2>3, <2>4, <2>6
      <3>3. lane'[w].at # "spin" => lane'[w].job.kind # "Mark"
        BY <2>3, <2>6
      <3>4. lane'[w].at \in {"spin", "raise"}
        BY <2>3, <2>6
      <3> QED BY <1>1, <3>1, <3>2, <3>3, <3>4 DEF LaneRight
    <2>9. PoolInv'
      BY <1>1, <2>5, <2>7, <2>8, LaneMoves
    <2> QED BY <1>1, <2>1, <2>3, <2>6, <2>7, <2>9 DEF Passes
  <1>3. CASE SpinDone(w)
    <2>1. /\ lane[w].at = "spin" /\ lane' = [lane EXCEPT ![w] = Parked]
          /\ UNCHANGED <<poolVars, game, view, held, handled, taker, debited>>
      BY <1>3 DEF SpinDone, At
    <2>2. /\ lane' \in [Lanes -> LaneTypes] /\ lane'[w] = Parked /\ Parked.at = "parked"
          /\ \A q \in Lanes \ {w} : lane'[q] = lane[q]
      BY <1>1, <2>1, SetMoves, ParkedIs
    <2>3. Moves(w) /\ Counts(w) /\ LaneRight(w)'
      BY <1>1, <2>1, <2>2 DEF Moves, Counts, ActiveAts, poolVars, LaneRight
    <2>4. DataTypes' /\ \A v \in Workers : seen'[v] <= Current
      BY <1>1, <2>1 DEF DataTypes, poolVars
    <2> QED BY <1>1, <2>1, <2>2, <2>3, <2>4, LaneMoves DEF Passes, poolVars
  <1> QED BY <1>2, <1>3

(* Every step of a participant is one of the five.                         *)
LEMMA LaneSteps ==
  ASSUME PoolInv, NEW p \in Lanes, LaneStep(p) \/ (p \in Workers /\ WorkerStep(p))
  PROVE  PoolInv' /\ (Claims(p) \/ Works(p) \/ Builds(p) \/ Flushes(p) \/ Passes(p))
  <1>1. CASE LaneStep(p)
    BY <1>1, ClaimStep, WorkStep, BuildStep, FlushStep, PassingStep DEF LaneStep
  <1>2. CASE p \in Workers /\ WorkerStep(p)
    BY <1>1, <1>2, WorkerPasses DEF WorkerStep
  <1> QED BY <1>1, <1>2

-----------------------------------------------------------------------------
(* A step of the game thread                                               *)

(* What it does to the lanes: nothing, or it becomes a participant itself. *)
Joins ==
  /\ lane' \in [Lanes -> LaneTypes] /\ active' = active
  /\ \A q \in Workers : lane'[q] = lane[q]
  /\ \/ lane'[Game] = lane[Game]
     \/ lane[Game].at = "parked" /\ lane'[Game].at = "raise" /\ lane'[Game].job = job

Starts == lane' = [lane EXCEPT ![Game] = [Parked EXCEPT !.job = job, !.at = "raise"]]

LEMMA StartsIs ==
  ASSUME PoolInv, active' = active
  PROVE  /\ game.at # "help" => lane[Game].at = "parked"
         /\ lane' = lane => Joins
         /\ Starts /\ game.at # "help" => Joins /\ lane'[Game].at = "raise" /\ lane'[Game].job = job
  <1>1. lane \in [Lanes -> LaneTypes] /\ Game \in Lanes /\ (game.at # "help" => lane[Game].at = "parked")
    BY LanesAre, LaneIs DEF PoolInv, PoolTypes
  <1>2. lane' = lane => Joins
    BY <1>1 DEF Joins
  <1>3. Starts /\ game.at # "help" => Joins /\ lane'[Game].at = "raise" /\ lane'[Game].job = job
    <2> SUFFICES ASSUME Starts, game.at # "help"
                 PROVE  Joins /\ lane'[Game].at = "raise" /\ lane'[Game].job = job
      OBVIOUS
    <2> DEFINE l == [Parked EXCEPT !.job = job, !.at = "raise"]
    <2>1. job \in JobTypes /\ "raise" \in LaneAts
      BY JobsAre DEF PoolInv, LaneAts
    <2>2. lane' = [lane EXCEPT ![Game] = l]
      BY DEF Starts
    <2>3. l \in LaneTypes /\ l.at = "raise" /\ l.job = job
      BY <2>1, ParkedIs
    <2> HIDE DEF l
    <2>4. /\ lane' \in [Lanes -> LaneTypes] /\ lane'[Game] = l
          /\ \A q \in Lanes \ {Game} : lane'[q] = lane[q]
      BY <1>1, <2>2, <2>3, SetMoves
    <2> QED BY <1>1, <2>3, <2>4, LanesAre DEF Joins
  <1> QED BY <1>1, <1>2, <1>3

LEMMA GameMoves ==
  ASSUME PoolInv, UNCHANGED <<published, seen>>, Joins, DataTypes', game' \in GameTypes, GameRight',
         lane'[Game].at # "parked" =>
           game'.at = "help" /\ Current > 0 /\ job.kind # "Mark",
         JobLocked' => JobLocked
  PROVE  PoolInv'
  <1>1. PoolTypes'
    BY DEF PoolInv, PoolTypes, Joins
  <1>2. JobsRight'
    BY DEF PoolInv, JobsRight, Current
  <1>3. ActiveCounts'
    <2>1. \A q \in Lanes : lane'[q].at \in ActiveAts <=> lane[q].at \in ActiveAts
      <3>1. lane'[Game].at \in ActiveAts <=> lane[Game].at \in ActiveAts
        BY DEF Joins, ActiveAts
      <3> QED BY <3>1 DEF Joins, Lanes
    <2>2. Busy' = Busy
      BY <2>1 DEF Busy
    <2> QED BY <2>2 DEF PoolInv, ActiveCounts, Joins
  <1>4. \A q \in Lanes : LaneRight(q)'
    <2> SUFFICES ASSUME NEW q \in Lanes PROVE LaneRight(q)'
      OBVIOUS
    <2>0. /\ job' = job /\ Current' = Current /\ published' = published
          /\ Known \in 0 .. MaxJobs /\ Known' \in {Known, Current} /\ Known <= Current
          /\ Current \in 0 .. MaxJobs /\ job.epoch = Current
          /\ Current > 0 => job = published[Current]
      BY LaneIs, JobsAre DEF PoolInv, job, Current, Known
    <2>1. LaneRight(q) /\ lane'[q] \in LaneTypes
      BY DEF PoolInv, Joins
    <2>2. CASE q = Game /\ lane'[q].at = "parked"
      BY <2>2 DEF LaneRight
    <2>3. CASE q = Game /\ lane'[q].at # "parked" /\ lane'[q] # lane[q]
      <3>1. lane'[q].at = "raise" /\ lane'[q].job = job
        BY <2>3 DEF Joins
      <3>2. game'.at = "help" /\ Current > 0 /\ job.kind # "Mark" /\ Known' = Current
        BY <2>0, <2>3 DEF Known, JobLocked
      <3> QED BY <2>0, <3>1, <3>2 DEF LaneRight
    <2>4. CASE lane'[q] = lane[q] /\ (q = Game /\ lane'[q].at # "parked" => game'.at = "help")
      <3>1. lane[q].at # "parked" =>
               lane[q].job.epoch \in 1 .. Known' /\ lane[q].job = published'[lane[q].job.epoch]
        BY <2>0, <2>1 DEF LaneRight
      <3>2. q = Game /\ lane'[q].at # "parked" => game'.at = "help" /\ lane'[q].job = job'
        BY <2>0, <2>1, <2>4 DEF LaneRight
      <3> QED BY <2>1, <2>4, <3>1, <3>2 DEF LaneRight
    <2> QED BY <2>2, <2>3, <2>4 DEF Joins, Lanes
  <1> QED BY <1>1, <1>2, <1>3, <1>4 DEF PoolInv

(* The steps of a join, by what they do.                                   *)
JoinMoves == HelpEnds \/ NodeReady \/ NodeNotReady \/ LookSpent \/ Help \/ LookAgain
             \/ LookQuiet \/ MarkEnds \/ JoinTimesOut \/ RaiseDone

LEMMA JoinMovesAre ==
  ASSUME PoolInv, JoinMoves
  PROVE  /\ UNCHANGED <<published, curEpoch, cursor, active, freedStrings, seen,
                        view, held, handled, taker, debited>>
         /\ game' \in GameTypes /\ done' \in BOOLEAN
         /\ game.at \in Joining /\ ~JobLocked'
         /\ Joins /\ (Help \/ lane' = lane) /\ lane[Game].at = "parked"
         /\ Help => game'.at = "help" /\ lane'[Game].at = "raise" /\ lane'[Game].job = job
         /\ ~Help => game'.at # "help"
         /\ job.kind # "AnimateRoots" => ~Help
  <1>1. game \in GameTypes /\ done \in BOOLEAN
    BY DEF PoolInv, PoolTypes, DataTypes
  <1>2. /\ UNCHANGED <<published, curEpoch, cursor, active, freedStrings, seen,
                       view, held, handled, taker, debited>>
        /\ game.at \in Joining
    BY DEF JoinMoves, HelpEnds, NodeReady, NodeNotReady, LookSpent, Help, LookAgain, LookQuiet,
           MarkEnds, JoinTimesOut, RaiseDone, poolVars, Joining
  <1>3. /\ done' \in BOOLEAN
        /\ lane' = lane \/ Help
    BY <1>1 DEF JoinMoves, HelpEnds, NodeReady, NodeNotReady, LookSpent, Help, LookAgain, LookQuiet,
           MarkEnds, JoinTimesOut, RaiseDone, poolVars
  <1>4. Help => Starts /\ job.kind = "AnimateRoots" /\ game.at # "help" /\ game'.at = "help"
    BY <1>1 DEF Help, Starts, GameGoes, GameTypes
  <1>5. game.at = "help" => lane[Game].at = "parked"
    BY DEF JoinMoves, HelpEnds, NodeReady, NodeNotReady, LookSpent, Help, LookAgain, LookQuiet,
           MarkEnds, JoinTimesOut, RaiseDone, At
  <1>6. /\ Joins /\ lane[Game].at = "parked"
        /\ Help => lane'[Game].at = "raise" /\ lane'[Game].job = job
    BY <1>2, <1>3, <1>4, <1>5, StartsIs
  <1>7. ASSUME NEW where \in {"quiet", "look", "spent", "help", "over", "release", "idle"}, GameGoes(where)
        PROVE  game' \in GameTypes /\ game'.at = where /\ game'.node = game.node
    BY <1>1, <1>7 DEF GameGoes, GameTypes, Joining
  <1>8. /\ game' \in GameTypes
        /\ game'.at \in {"quiet", "look", "spent", "over", "release", "idle"} \/ Help
    <2>1. CASE HelpEnds
      BY <1>7, <2>1 DEF HelpEnds
    <2>2. CASE NodeNotReady
      BY <1>7, <2>2 DEF NodeNotReady
    <2>3. CASE LookSpent
      BY <1>7, <2>3 DEF LookSpent
    <2>4. CASE Help
      BY <1>7, <2>4 DEF Help
    <2>5. CASE LookAgain
      BY <1>7, <2>5 DEF LookAgain
    <2>6. CASE MarkEnds
      BY <1>7, <2>6 DEF MarkEnds
    <2>7. CASE JoinTimesOut
      BY <1>7, <2>7 DEF JoinTimesOut
    <2>8. CASE RaiseDone
      BY <1>7, <2>8 DEF RaiseDone
    <2>9. CASE NodeReady
      <3>1. game' = [game EXCEPT !.node = @ + 1] /\ game.node < job.len /\ game.at = "look"
        BY <2>9 DEF NodeReady
      <3>2. game.node + 1 \in 0 .. MaxLen + 1 /\ job.len \in 0 .. MaxLen
        BY <1>1, <3>1, JobsAre, Longest DEF PoolInv, GameTypes
      <3> QED BY <1>1, <3>1, <3>2 DEF GameTypes
    <2>10. CASE LookQuiet
      <3>1. CASE job.kind = "AnimateRoots" /\ game.node <= job.len
        <4>1. game.node + 1 \in 0 .. MaxLen + 1
          BY <1>1, <3>1, JobsAre, Longest DEF PoolInv, GameTypes
        <4>2. game' = [at |-> IF game.node = job.len THEN "spent" ELSE "look", node |-> game.node + 1]
          BY <2>10, <3>1 DEF LookQuiet
        <4> QED BY <4>1, <4>2 DEF GameTypes, Joining
      <3>2. CASE ~(job.kind = "AnimateRoots" /\ game.node <= job.len)
        <4>1. GameGoes("over")
          BY <2>10, <3>2 DEF LookQuiet, GameGoes
        <4> QED BY <1>7, <4>1
      <3> QED BY <3>1, <3>2
    <2> QED BY <2>1, <2>2, <2>3, <2>4, <2>5, <2>6, <2>7, <2>8, <2>9, <2>10 DEF JoinMoves
  <1>9. ~JobLocked'
    BY <1>4, <1>8 DEF JobLocked
  <1> QED BY <1>2, <1>3, <1>4, <1>6, <1>8, <1>9

LEMMA JoinMovesStep ==
  ASSUME PoolInv, JoinMoves
  PROVE  PoolInv'
  <1>1. /\ UNCHANGED <<published, curEpoch, cursor, active, freedStrings, seen,
                       view, held, handled, taker, debited>>
        /\ game' \in GameTypes /\ done' \in BOOLEAN /\ game.at \in Joining /\ ~JobLocked'
        /\ Joins /\ (Help \/ lane' = lane) /\ lane[Game].at = "parked"
    BY JoinMovesAre
  <1>2. DataTypes'
    BY <1>1 DEF PoolInv, PoolTypes, DataTypes
  <1>3. GameRight /\ job' = job /\ Current' = Current
    BY <1>1 DEF PoolInv, job, Current
  <1>4. Current > 0 /\ Current \in held /\ curEpoch = Current
    BY <1>1, <1>3 DEF GameRight, Joining, JobLocked
  <1>5. GameRight'
    <2>1. /\ game'.at = "mark" => FALSE
          /\ game'.at = "help" => job.kind = "AnimateRoots"
          /\ game'.at = "look" => job.kind = "AnimateRoots"
          /\ game'.at = "spent" => job.kind \in {"Particles", "AnimateRoots"}
          /\ game'.at = "quiet" => job.kind # "Mark"
          /\ game'.at = "idle" => job.kind = "Particles"
          /\ game'.at # "publish"
      <3>1. game \in GameTypes
        BY DEF PoolInv, PoolTypes
      <3>2. \A where : GameGoes(where) => game'.at = where
        BY <3>1 DEF GameGoes, GameTypes
      <3>3. NodeReady => game'.at = game.at
        BY <3>1 DEF NodeReady, GameTypes
      <3>4. LookQuiet => \/ game'.at \in {"spent", "look"} /\ job.kind = "AnimateRoots"
                         \/ game'.at = "over"
        BY <3>1 DEF LookQuiet, GameTypes
      <3>5. CASE HelpEnds \/ NodeNotReady \/ LookSpent
        BY <1>3, <3>2, <3>5 DEF HelpEnds, NodeNotReady, LookSpent, GameRight
      <3>6. CASE Help \/ LookAgain \/ MarkEnds \/ JoinTimesOut \/ RaiseDone
        BY <1>3, <3>2, <3>6 DEF Help, LookAgain, MarkEnds, JoinTimesOut, RaiseDone, GameRight
      <3>7. CASE NodeReady \/ LookQuiet
        BY <1>3, <3>3, <3>4, <3>7 DEF NodeReady, GameRight
      <3> QED BY <3>5, <3>6, <3>7 DEF JoinMoves
    <2> QED BY <1>1, <1>3, <1>4, <2>1 DEF GameRight
  <1>6. lane'[Game].at # "parked" => game'.at = "help" /\ Current > 0 /\ job.kind # "Mark"
    BY <1>1, <1>4, JoinMovesAre DEF Help
  <1>7. UNCHANGED <<published, seen>>
    BY <1>1
  <1> QED BY <1>1, <1>2, <1>5, <1>6, <1>7, GameMoves

LEMMA Going ==
  ASSUME PoolInv, NEW where \in {"idle", "publish"} \cup Locked \cup Joining, GameGoes(where)
  PROVE  game' \in GameTypes /\ game'.at = where /\ game'.node = game.node
  BY DEF PoolInv, PoolTypes, GameGoes, GameTypes

(* The lanes stay where they are while the game thread opens a job.        *)
LEMMA GameAlone ==
  ASSUME PoolInv, UNCHANGED <<published, seen, lane, active>>, game.at # "help",
         DataTypes', game' \in GameTypes, GameRight', JobLocked' => JobLocked
  PROVE  PoolInv'
  <1>1. Joins /\ lane'[Game].at = "parked"
    BY StartsIs
  <1> QED BY <1>1, GameMoves

LEMMA BeginStep ==
  ASSUME PoolInv, Begin
  PROVE  PoolInv'
  <1>1. /\ game.at = "idle" /\ game' \in GameTypes /\ game'.at = "publish"
        /\ done' = FALSE /\ Len(published) < MaxJobs
        /\ UNCHANGED <<published, curEpoch, cursor, active, freedStrings, seen,
                       lane, view, held, handled, taker, debited>>
    BY Going DEF Begin, Locked, Joining
  <1>2. DataTypes'
    BY <1>1 DEF PoolInv, PoolTypes, DataTypes
  <1>3. GameRight' /\ ~JobLocked'
    BY <1>1 DEF PoolInv, GameRight, JobLocked, job, Current, Locked, Joining
  <1> QED BY <1>1, <1>2, <1>3, GameAlone

LEMMA ResetCursorStep ==
  ASSUME PoolInv, ResetCursor
  PROVE  PoolInv' /\ game'.at = "freed"
  <1>1. /\ game.at = "cursor" /\ game' \in GameTypes /\ game'.at = "freed" /\ cursor' = 0
        /\ UNCHANGED <<published, curEpoch, done, active, freedStrings, seen,
                       lane, view, held, handled, taker, debited>>
    BY Going DEF ResetCursor, Locked
  <1>2. DataTypes'
    BY <1>1, Longest DEF PoolInv, PoolTypes, DataTypes
  <1>3. GameRight' /\ JobLocked
    BY <1>1 DEF PoolInv, GameRight, JobLocked, job, Current, Locked, Joining
  <1> QED BY <1>1, <1>2, <1>3, GameAlone

LEMMA ResetFreedStep ==
  ASSUME PoolInv, ResetFreed
  PROVE  PoolInv' /\ game'.at = "epoch"
  <1>1. /\ game.at = "freed" /\ game' \in GameTypes /\ game'.at = "epoch" /\ freedStrings' = 0
        /\ UNCHANGED <<published, curEpoch, cursor, done, active, seen,
                       lane, view, held, handled, taker, debited>>
    BY Going DEF ResetFreed, Locked
  <1>2. DataTypes'
    BY <1>1 DEF PoolInv, PoolTypes, DataTypes
  <1>3. GameRight' /\ JobLocked
    BY <1>1 DEF PoolInv, GameRight, JobLocked, job, Current, Locked, Joining
  <1> QED BY <1>1, <1>2, <1>3, GameAlone

LEMMA StoreEpochIs ==
  ASSUME PoolInv, StoreEpoch
  PROVE  /\ game.at = "epoch" /\ curEpoch' = Current /\ Current > 0 /\ Current \in held
         /\ game' \in GameTypes /\ game'.node = 0
         /\ game'.at = CASE job.kind = "Mark" -> "mark" [] job.kind = "Sweep" -> "help"
                         [] job.kind = "Particles" -> "spent" [] OTHER -> "look"
         /\ Joins /\ (job.kind = "Sweep" => lane'[Game].at = "raise" /\ lane'[Game].job = job)
         /\ job.kind # "Sweep" => lane'[Game] = lane[Game]
         /\ lane[Game].at = "parked"
         /\ UNCHANGED <<published, cursor, done, active, freedStrings, seen,
                        view, held, handled, taker, debited>>
  <1> DEFINE where == CASE job.kind = "Mark" -> "mark" [] job.kind = "Sweep" -> "help"
                        [] job.kind = "Particles" -> "spent" [] OTHER -> "look"
  <1>1. /\ game.at = "epoch" /\ curEpoch' = job.epoch /\ game' = [at |-> where, node |-> 0]
        /\ UNCHANGED <<published, cursor, done, active, freedStrings, seen,
                       view, held, handled, taker, debited>>
    BY DEF StoreEpoch
  <1>2. job.epoch = Current /\ Current > 0 /\ Current \in held
    BY <1>1, JobsAre DEF PoolInv, GameRight, Locked
  <1>3. where \in {"mark", "help", "spent", "look"}
    OBVIOUS
  <1>4. game'.at = where /\ game'.node = 0 /\ game' \in GameTypes
    <2>1. 0 \in 0 .. MaxLen + 1
      BY Longest
    <2> HIDE DEF where
    <2> QED BY <1>1, <1>3, <2>1 DEF GameTypes, Joining
  <1>5. /\ job.kind = "Sweep" => Starts
        /\ job.kind # "Sweep" => lane' = lane
    BY DEF StoreEpoch, Starts
  <1>6. /\ Joins /\ (job.kind = "Sweep" => lane'[Game].at = "raise" /\ lane'[Game].job = job)
        /\ lane[Game].at = "parked"
    BY <1>1, <1>5, StartsIs
  <1> QED BY <1>1, <1>2, <1>4, <1>5, <1>6

LEMMA StoreEpochStep ==
  ASSUME PoolInv, StoreEpoch
  PROVE  PoolInv'
  <1>1. DataTypes'
    BY StoreEpochIs DEF PoolInv, PoolTypes, DataTypes
  <1>2. job' = job /\ Current' = Current /\ published' = published /\ job \in JobTypes
    BY StoreEpochIs, JobsAre DEF PoolInv, job, Current
  <1>3. \/ job.kind = "Mark" /\ game'.at = "mark"
        \/ job.kind = "Sweep" /\ game'.at = "help"
        \/ job.kind = "Particles" /\ game'.at = "spent"
        \/ job.kind = "AnimateRoots" /\ game'.at = "look"
    BY <1>2, StoreEpochIs DEF JobTypes
  <1>4. GameRight' /\ ~JobLocked'
    <2>1. game'.at \in {"mark", "help", "spent", "look"}
      BY <1>3
    <2>2. ~JobLocked' /\ curEpoch' = Current' /\ Current' > 0 /\ Current' \in held' /\ held' = held
      BY <1>2, <2>1, StoreEpochIs DEF JobLocked
    <2> QED BY <1>2, <1>3, <2>1, <2>2 DEF PoolInv, GameRight
  <1>5. lane'[Game].at # "parked" => game'.at = "help" /\ Current > 0 /\ job.kind # "Mark"
    BY <1>3, StoreEpochIs
  <1>6. UNCHANGED <<published, seen>> /\ Joins /\ game' \in GameTypes
    BY StoreEpochIs
  <1> QED BY <1>1, <1>4, <1>5, <1>6, GameMoves

LEMMA ReleaseStep ==
  ASSUME PoolInv, Release
  PROVE  PoolInv'
  <1>1. /\ game.at = "release" /\ game' = [at |-> "idle", node |-> 0] /\ held' = held \ {job.epoch}
        /\ UNCHANGED <<poolVars, lane, view, handled, taker>>
    BY DEF Release
  <1>2. DataTypes /\ job.epoch = Current /\ Current \in 0 .. MaxJobs /\ MaxLen \in Nat
    BY JobsAre, Longest DEF PoolInv, PoolTypes
  <1>3. debited' \in [Epochs -> Nat]
    BY <1>2 DEF Release, DataTypes
  <1>4. DataTypes'
    BY <1>1, <1>2, <1>3 DEF DataTypes, poolVars
  <1>5. game' \in GameTypes /\ game'.at = "idle"
    BY <1>1, <1>2 DEF GameTypes
  <1>6. GameRight' /\ ~JobLocked'
    BY <1>1, <1>2, <1>5 DEF PoolInv, GameRight, JobLocked, job, Current, Locked, Joining, poolVars
  <1> QED BY <1>1, <1>4, <1>5, <1>6, GameAlone DEF poolVars

(* A job was published: the last one of one more, at its epoch.            *)
LEMMA PublishIs ==
  ASSUME PoolInv, Publish
  PROVE  /\ game.at = "publish" /\ game' \in GameTypes /\ game'.at = "cursor"
         /\ Current \in Nat /\ Current' = Current + 1 /\ Current' \in Epochs
         /\ published' \in Seq(JobTypes) /\ Current' <= MaxJobs
         /\ \A e \in 1 .. Current : published'[e] = published[e]
         /\ published'[Current'].epoch = Current'
         /\ job' = published'[Current'] /\ held' = held \cup {Current'}
         /\ UNCHANGED <<curEpoch, cursor, done, active, freedStrings, seen,
                        lane, view, handled, taker, debited>>
  <1>1. /\ game.at = "publish" /\ game' \in GameTypes /\ game'.at = "cursor"
        /\ held' = held \cup {Current + 1}
        /\ UNCHANGED <<curEpoch, cursor, done, active, freedStrings, seen,
                       lane, view, handled, taker, debited>>
    BY Going DEF Publish, Locked, Current
  <1>2. PICK kind \in Kinds, len \in Lens \cup {0} :
          published' = Append(published, [epoch |-> Current + 1, kind |-> kind, len |-> len])
    BY DEF Publish, Current
  <1>3. Current \in 0 .. MaxJobs /\ published \in Seq(JobTypes)
    BY JobsAre DEF PoolInv, PoolTypes
  <1> DEFINE j == [epoch |-> Current + 1, kind |-> kind, len |-> len]
  <1>4. Current < MaxJobs
    BY <1>1, <1>3 DEF PoolInv, GameRight
  <1>5. j \in JobTypes /\ j.epoch = Current + 1
    <2>1. Current + 1 \in 0 .. MaxJobs
      BY <1>3, <1>4, PoolAssumption
    <2> QED BY <2>1, PoolAssumption DEF JobTypes
  <1>6. published' = Append(published, j)
    BY <1>2
  <1> HIDE DEF j
  <1>7. /\ published' \in Seq(JobTypes) /\ Len(published') = Len(published) + 1
        /\ \A e \in 1 .. Len(published) : published'[e] = published[e]
        /\ published'[Len(published) + 1] = j
    BY <1>3, <1>5, <1>6, AppendProperties
  <1>8. Current' = Current + 1 /\ job' = published'[Current']
    <2>1. published' # <<>>
      BY <1>3, <1>7, EmptySeq DEF Current
    <2> QED BY <1>7, <2>1 DEF Current, job
  <1>9. Current' \in Epochs /\ Current' <= MaxJobs
    BY <1>3, <1>4, <1>8, PoolAssumption DEF Epochs
  <1> QED BY <1>1, <1>3, <1>5, <1>7, <1>8, <1>9 DEF Current

LEMMA PublishStep ==
  ASSUME PoolInv, Publish
  PROVE  PoolInv'
  <1> DEFINE C == Current
  <1>1. DataTypes'
    BY PublishIs DEF PoolInv, PoolTypes, DataTypes
  <1>2. PoolTypes'
    BY <1>1, PublishIs DEF PoolInv, PoolTypes, Current
  <1>3. JobsRight'
    <2>1. \A e \in 1 .. C + 1 : published'[e].epoch = e
      BY PublishIs DEF PoolInv, JobsRight
    <2>2. \A w \in Workers : seen'[w] <= C + 1
      <3>1. \A w \in Workers : seen[w] \in 0 .. MaxJobs /\ seen[w] <= C
        BY DEF PoolInv, PoolTypes, DataTypes, JobsRight
      <3> QED BY <3>1, PublishIs, PoolAssumption
    <2> QED BY <2>1, <2>2, PublishIs DEF JobsRight
  <1>4. GameRight'
    <2>1. /\ Current \in Nat /\ Current' = Current + 1 /\ held' = held \cup {Current'}
          /\ \A e \in 1 .. Current : published'[e] = published[e]
          /\ game.at = "publish" /\ game'.at = "cursor" /\ curEpoch' = curEpoch
      BY PublishIs
    <2>2. /\ held \subseteq 1 .. Current /\ curEpoch = Current
          /\ \A e \in held : e # Current => published[e].kind = "Particles"
          /\ Current \in held => job.kind = "Particles"
      BY <2>1 DEF PoolInv, GameRight, JobLocked
    <2>3. Current \in held => published[Current].kind = "Particles"
      BY <2>1, <2>2, JobsAre DEF PoolInv
    <2>4. \A e \in held : published'[e].kind = "Particles"
      BY <2>1, <2>2, <2>3
    <2>5. JobLocked'
      BY <2>1 DEF JobLocked
    <2> QED BY <2>1, <2>2, <2>4, <2>5 DEF GameRight
  <1>5. \A p \in Lanes : LaneRight(p)'
    <2> SUFFICES ASSUME NEW p \in Lanes PROVE LaneRight(p)'
      OBVIOUS
    <2>1. /\ Known = Current /\ Known' = Current /\ Current \in Nat /\ lane' = lane
          /\ \A e \in 1 .. Current : published'[e] = published[e]
      <3>1. game.at = "publish" /\ game'.at = "cursor" /\ Current \in Nat /\ Current' = Current + 1
        BY PublishIs
      <3>2. ~JobLocked /\ JobLocked'
        BY <3>1 DEF JobLocked
      <3> QED BY <3>1, <3>2, PublishIs DEF Known
    <2>2. LaneRight(p) /\ (p = Game => lane[p].at = "parked")
      BY PublishIs, LaneIs DEF PoolInv
    <2>3. lane[p].at # "parked" =>
            lane[p].job.epoch \in 1 .. Known' /\ lane[p].job = published'[lane[p].job.epoch]
      BY <2>1, <2>2 DEF LaneRight
    <2> QED BY <2>1, <2>2, <2>3 DEF LaneRight
  <1>6. ActiveCounts'
    BY PublishIs DEF PoolInv, ActiveCounts, Busy
  <1> QED BY <1>2, <1>3, <1>4, <1>5, <1>6 DEF PoolInv

-----------------------------------------------------------------------------

LEMMA PoolInvInit == Init => PoolInv
  <1> SUFFICES ASSUME Init PROVE PoolInv
    OBVIOUS
  <1>1. MaxLen \in Nat /\ MaxJobs \in Nat /\ Chunk \in Nat
    BY Longest, PoolAssumption
  <1>2. lane \in [Lanes -> LaneTypes] /\ \A p \in Lanes : lane[p].at = "parked"
    BY ParkedIs DEF Init
  <1>3. DataTypes
    <2>1. [scanClaimed |-> FALSE, ready |-> 0, total |-> 0, scanDone |-> FALSE] \in ViewTypes
      BY <1>1 DEF ViewTypes
    <2>2. view \in [Epochs -> ViewTypes]
      BY <2>1 DEF Init
    <2>3. 0 \in 0 .. MaxJobs /\ 0 \in 0 .. MaxLen /\ 0 \in Nat
      BY <1>1
    <2>4. handled \in [Epochs -> [Items -> Nat]]
      BY <2>3 DEF Init
    <2>5. taker \in [Epochs -> [Items -> 0 .. MaxJobs]]
      BY <2>3 DEF Init
    <2>6. seen \in [Workers -> 0 .. MaxJobs] /\ debited \in [Epochs -> Nat]
      BY <2>3 DEF Init
    <2> QED BY <2>2, <2>3, <2>4, <2>5, <2>6 DEF Init, DataTypes
  <1>4. published \in Seq(JobTypes) /\ Len(published) = 0
    BY EmptySeq DEF Init
  <1>5. PoolTypes
    BY <1>1, <1>2, <1>3, <1>4 DEF Init, PoolTypes, GameTypes
  <1>6. JobsRight /\ GameRight
    BY <1>1, <1>4 DEF Init, JobsRight, GameRight, Current, JobLocked, Locked, Joining
  <1>7. \A p \in Lanes : LaneRight(p)
    BY <1>2 DEF LaneRight
  <1>8. ActiveCounts
    <2>1. Busy = {}
      BY <1>2 DEF Busy, ActiveAts
    <2> QED BY <2>1, FS_EmptySet DEF Init, ActiveCounts
  <1> QED BY <1>5, <1>6, <1>7, <1>8 DEF PoolInv

LEMMA GameStepKeeps ==
  ASSUME PoolInv, Begin \/ Publish \/ ResetCursor \/ ResetFreed \/ StoreEpoch \/ JoinMoves \/ Release
  PROVE  PoolInv'
  BY BeginStep, PublishStep, ResetCursorStep, ResetFreedStep, StoreEpochStep, JoinMovesStep,
     ReleaseStep

(* A step is one of a participant or one of the game thread's own.         *)
LEMMA Steps ==
  ASSUME Next
  PROVE  \/ \E p \in Lanes : LaneStep(p) \/ (p \in Workers /\ WorkerStep(p))
         \/ Begin \/ Publish \/ ResetCursor \/ ResetFreed \/ StoreEpoch \/ JoinMoves \/ Release
  BY LanesAre DEF Next, GameStep, JoinStep, JoinMoves

LEMMA PoolInvStep == PoolInv /\ [Next]_vars => PoolInv'
  <1> SUFFICES ASSUME PoolInv, [Next]_vars PROVE PoolInv'
    OBVIOUS
  <1>1. CASE UNCHANGED vars
    BY <1>1 DEF vars, poolVars, PoolInv, PoolTypes, DataTypes, JobsRight, GameRight, LaneRight,
                ActiveCounts, Busy, Current, Known, JobLocked, job
  <1>2. CASE Next
    BY <1>2, Steps, LaneSteps, GameStepKeeps
  <1> QED BY <1>1, <1>2

(* The first layer always holds: what there is, who does what, and active.  *)
THEOREM PoolAlways == Spec => []PoolInv
  BY PoolInvInit, PoolInvStep, PTL DEF Spec

(* Every variable has its type: among them active, which counts the lanes  *)
(* between the raise and the lowering, so the game thread never waits for  *)
(* more participants than there are.                                       *)
THEOREM PoolTypesHold == Spec => []TypeOK
  <1>1. PoolInv => TypeOK
    <2> SUFFICES ASSUME PoolInv PROVE TypeOK
      OBVIOUS
    <2>1. active \in 0 .. Cardinality(Lanes)
      <3>1. active = Cardinality(Busy) /\ Busy \in SUBSET Lanes
        BY DEF PoolInv, ActiveCounts, Busy
      <3>2. Cardinality(Busy) \in Nat /\ Cardinality(Lanes) \in Nat
            /\ Cardinality(Busy) <= Cardinality(Lanes)
        BY <3>1, LanesAre, FS_Subset, FS_CardinalityType
      <3> QED BY <3>1, <3>2
    <2>2. /\ Current \in 0 .. MaxJobs /\ MaxJobs \in Nat
          /\ curEpoch \in 0 .. MaxJobs
      <3>1. Current \in 0 .. MaxJobs /\ MaxJobs \in Nat
        BY JobsAre, PoolAssumption DEF PoolInv
      <3>2. curEpoch = (IF JobLocked THEN Current - 1 ELSE Current) /\ (JobLocked => Current > 0)
        BY DEF PoolInv, GameRight, JobLocked, Locked
      <3> QED BY <3>1, <3>2
    <2>3. held \subseteq Epochs
      BY <2>2 DEF PoolInv, GameRight, Epochs
    <2>4. \A p \in Lanes : lane[p] \in LaneTypes
      BY DEF PoolInv, PoolTypes
    <2>5. game \in GameTypes
      BY DEF PoolInv, PoolTypes
    <2>6. /\ published \in Seq(JobTypes) /\ Len(published) <= MaxJobs /\ DataTypes
      BY DEF PoolInv, PoolTypes
    <2> QED BY <2>1, <2>2, <2>3, <2>4, <2>5, <2>6
            DEF TypeOK, LaneTypes, LaneAts, ActiveAts, GameTypes, Locked, Joining, DataTypes, ViewTypes
  <1> QED BY <1>1, PoolAlways, PTL

-----------------------------------------------------------------------------
(* Tickets                                                                 *)

(* The tickets below the cursor have been used, those from it on not.      *)
CursorRight ==
  /\ \A f \in Epochs, i \in Items : taker[f][i] <= Known
  /\ \A f \in Epochs : f > CursorEpoch => \A i \in Items : taker[f][i] = 0
  /\ CursorEpoch \in Epochs => \A i \in Items : taker[CursorEpoch][i] = 0 <=> i >= cursor

(* Who is about to work on an item, and the jobs whose ticket was used.    *)
IsAbout(p, e, i) ==
  /\ lane[p].at \in {"work", "build"} /\ lane[p].job.epoch = e
  /\ lane[p].next <= i /\ i < lane[p].end

About(e, i) == {p \in Lanes : IsAbout(p, e, i)}

Tickets(e, i) == {f \in Epochs : taker[f][i] = e}

TicketsRight ==
  \A e \in Epochs, i \in Items : handled[e][i] + Cardinality(About(e, i)) <= Cardinality(Tickets(e, i))

Whole(e) == published[e].kind \in {"Sweep", "AnimateRoots"}

NothingDropped ==
  \A e \in 1 .. Current : Whole(e) =>
    \A i \in ItemsOf(e) : taker[e][i] = e => handled[e][i] > 0 \/ About(e, i) # {}

ClaimInv == CursorRight /\ TicketsRight /\ NothingDropped

LEMMA CursorEpochIs ==
  ASSUME PoolInv
  PROVE  /\ CursorEpoch \in 0 .. MaxJobs /\ Current - 1 <= CursorEpoch /\ CursorEpoch <= Current
         /\ game.at # "cursor" => CursorEpoch = Current
         /\ game.at = "cursor" => CursorEpoch = Current - 1 /\ Current > 0
         /\ Known <= CursorEpoch
  <1>1. Current \in 0 .. MaxJobs /\ job.epoch = Current /\ MaxJobs \in Nat
    BY JobsAre, PoolAssumption DEF PoolInv
  <1>2. game.at = "cursor" => Current > 0 /\ JobLocked
    BY DEF PoolInv, GameRight, Locked, JobLocked
  <1> QED BY <1>1, <1>2 DEF CursorEpoch, Known

ItemsFit ==
  \A e \in 1 .. Current :
    /\ e \in Epochs /\ \A i \in ItemsOf(e) : i \in Items /\ i < published[e].len
    /\ published[e].len \in 0 .. MaxLen
    /\ \A i \in Items : i < published[e].len => i \in ItemsOf(e)

LEMMA ItemsAre == PoolInv => ItemsFit
  <1> SUFFICES ASSUME PoolInv, NEW e \in 1 .. Current
               PROVE  /\ e \in Epochs /\ \A i \in ItemsOf(e) : i \in Items /\ i < published[e].len
                      /\ published[e].len \in 0 .. MaxLen
                      /\ \A i \in Items : i < published[e].len => i \in ItemsOf(e)
    BY DEF ItemsFit
  <1>1. published[e].len \in 0 .. MaxLen /\ Current \in 0 .. MaxJobs
    BY JobsAre DEF PoolInv
  <1>2. MaxLen \in Nat /\ MaxJobs \in Nat
    BY Longest, PoolAssumption
  <1> QED BY <1>1, <1>2 DEF ItemsOf, Items, Epochs

LEMMA CountsAre ==
  /\ \A e, i : IsFiniteSet(About(e, i)) /\ Cardinality(About(e, i)) \in Nat
  /\ \A e, i : IsFiniteSet(Tickets(e, i)) /\ Cardinality(Tickets(e, i)) \in Nat
  <1>1. IsFiniteSet(Epochs)
    BY FS_Interval, PoolAssumption DEF Epochs
  <1>2. \A e, i : About(e, i) \in SUBSET Lanes /\ Tickets(e, i) \in SUBSET Epochs
    BY DEF About, Tickets
  <1> QED BY <1>1, <1>2, LanesAre, FS_Subset, FS_CardinalityType

(* What is to be done of a job and what was is kept, whoever it is.        *)
LEMMA ClaimsKept ==
  ASSUME PoolInv, PoolInv', TicketsRight, NothingDropped, CursorRight, CursorRight',
         UNCHANGED <<taker, handled>>,
         \A e \in 1 .. Current : published'[e] = published[e],
         Current' \in {Current, Current + 1},
         \A q \in Lanes, e \in Epochs, i \in Items : IsAbout(q, e, i)' => IsAbout(q, e, i),
         \A q \in Lanes, e \in 1 .. Current, i \in Items :
            Whole(e) /\ IsAbout(q, e, i) => IsAbout(q, e, i)'
  PROVE  ClaimInv'
  <1>1. TicketsRight'
    <2> SUFFICES ASSUME NEW e \in Epochs, NEW i \in Items
                 PROVE  handled[e][i] + Cardinality(About(e, i)') <= Cardinality(Tickets(e, i))
      BY DEF TicketsRight, Tickets
    <2>1. About(e, i)' \in SUBSET About(e, i)
      BY DEF About
    <2>2. Cardinality(About(e, i)') <= Cardinality(About(e, i)) /\ Cardinality(About(e, i)') \in Nat
      BY <2>1, CountsAre, FS_Subset, FS_CardinalityType
    <2>3. handled[e][i] + Cardinality(About(e, i)) <= Cardinality(Tickets(e, i)) /\ handled[e][i] \in Nat
      BY DEF TicketsRight, PoolInv, PoolTypes, DataTypes
    <2> QED BY <2>2, <2>3, CountsAre
  <1>2. NothingDropped'
    <2> SUFFICES ASSUME NEW e \in 1 .. Current', Whole(e)', NEW i \in ItemsOf(e)', taker'[e][i] = e
                 PROVE  (handled[e][i] > 0 \/ About(e, i) # {})'
      BY DEF NothingDropped
    <2>1. Current \in Nat
      BY JobsAre DEF PoolInv
    <2>2. CASE e \in 1 .. Current
      <3>1. Whole(e) /\ i \in ItemsOf(e) /\ i \in Items
        BY <2>2, ItemsAre DEF ItemsFit, Whole, ItemsOf
      <3>2. handled[e][i] > 0 \/ About(e, i) # {}
        BY <2>2, <3>1 DEF NothingDropped
      <3> QED BY <2>2, <3>1, <3>2 DEF About
    <2>3. CASE e \notin 1 .. Current
      <3>1. e = Current + 1 /\ e \in Epochs /\ i \in Items
        <4>1. ItemsFit'
          BY ItemsAre, PTL
        <4> QED BY <2>1, <2>3, <4>1 DEF ItemsFit
      <3>2. taker[e][i] <= Known /\ Known <= Current /\ Known \in Nat /\ taker[e][i] \in Nat
        <4>1. taker[e][i] \in 0 .. MaxJobs
          BY <3>1 DEF PoolInv, PoolTypes, DataTypes
        <4>2. Known \in 0 .. MaxJobs /\ Known <= Current
          BY LanesAre, LaneIs
        <4> QED BY <3>1, <4>1, <4>2 DEF CursorRight
      <3> QED BY <2>1, <3>1, <3>2
    <2> QED BY <2>2, <2>3
  <1> QED BY <1>1, <1>2 DEF ClaimInv

(* A ticket that was used is used for good, and what was worked on stays.  *)
History ==
  \A e \in Epochs, i \in Items :
    /\ taker[e][i] # 0 => taker'[e][i] = taker[e][i]
    /\ handled'[e][i] >= handled[e][i]

LEMMA HistoryStill ==
  ASSUME PoolInv, UNCHANGED <<taker, handled>>
  PROVE  History
  BY DEF History, PoolInv, PoolTypes, DataTypes

(* The lane that claims has a job some ticket of which it can still use.   *)
LEMMA ClaimerIs ==
  ASSUME PoolInv, NEW p \in Lanes, Claims(p)
  PROVE  /\ CursorEpoch \in Epochs /\ lane[p].job.epoch \in 1 .. Known /\ lane[p].job.epoch \in Epochs
         /\ lane[p].job = published[lane[p].job.epoch] /\ lane[p].job.epoch \in 1 .. Current
         /\ lane[p].job.len \in 0 .. MaxLen /\ cursor \in 0 .. MaxLen /\ MaxLen \in Nat
         /\ UNCHANGED <<published, game>> /\ CursorEpoch' = CursorEpoch /\ Known' = Known
  <1>1. lane[p].at = "claim" /\ UNCHANGED <<published, game>>
    BY DEF Claims, Moves
  <1>2. /\ lane[p].job.epoch \in 1 .. Known /\ lane[p].job.epoch \in Epochs /\ Known \in 0 .. MaxJobs
        /\ lane[p].job = published[lane[p].job.epoch] /\ lane[p].job.len \in 0 .. MaxLen
        /\ Known <= Current
    BY <1>1, LaneIs
  <1>3. Current \in 0 .. MaxJobs /\ cursor \in 0 .. MaxLen /\ MaxLen \in Nat /\ MaxJobs \in Nat
    BY JobsAre, Longest, PoolAssumption DEF PoolInv, PoolTypes, DataTypes
  <1>4. CursorEpoch \in Epochs
    BY <1>2, <1>3, CursorEpochIs DEF Epochs
  <1> QED BY <1>1, <1>2, <1>3, <1>4 DEF CursorEpoch, Known, Current, job, JobLocked

LEMMA ClaimClaims ==
  ASSUME PoolInv, PoolInv', ClaimInv, NEW p \in Lanes, Claims(p)
  PROVE  ClaimInv' /\ History
  <1> DEFINE mine == lane[p].job
             C == CursorEpoch
             range == cursor .. (cursor + Chunk - 1)
  <1>1. /\ C \in Epochs /\ mine.epoch \in 1 .. Known /\ mine.epoch \in Epochs
        /\ mine = published[mine.epoch] /\ mine.epoch \in 1 .. Current
        /\ mine.len \in 0 .. MaxLen /\ cursor \in 0 .. MaxLen
        /\ UNCHANGED <<published, game>> /\ C' = C /\ Known' = Known
    BY ClaimerIs
  <1>2. /\ taker \in [Epochs -> [Items -> 0 .. MaxJobs]]
        /\ taker' \in [Epochs -> [Items -> 0 .. MaxJobs]]
        /\ handled \in [Epochs -> [Items -> Nat]] /\ handled' = handled
    BY DEF PoolInv, PoolTypes, DataTypes, Claims
  <1>3. /\ \A i \in Items : i < cursor' <=> i < cursor \/ i \in range
        /\ cursor' \in 0 .. MaxLen /\ cursor' >= cursor
        /\ \A f \in Epochs, i \in Items :
             taker'[f][i] = IF f = C /\ i \in range THEN mine.epoch ELSE taker[f][i]
    BY DEF Claims
  <1>4. \A i \in Items : taker[C][i] = 0 <=> i >= cursor
    BY <1>1 DEF ClaimInv, CursorRight
  <1>5. \A i \in range : i >= cursor
    BY <1>1
  <1> HIDE DEF range, C
  <1>6. \A i \in Items : i \in range => taker[C][i] = 0
    BY <1>4, <1>5
  <1>7. History
    BY <1>2, <1>3, <1>6 DEF History
  <1>8. mine.epoch # 0 /\ mine.epoch <= Known
    BY <1>1, LaneIs
  <1>9. CursorRight'
    <2>1. \A f \in Epochs, i \in Items : taker'[f][i] <= Known
      BY <1>3, <1>8 DEF ClaimInv, CursorRight
    <2>2. \A f \in Epochs : f > C => \A i \in Items : taker'[f][i] = 0
      <3> SUFFICES ASSUME NEW f \in Epochs, f > C, NEW i \in Items PROVE taker'[f][i] = 0
        OBVIOUS
      <3>1. f # C /\ taker[f][i] = 0
        BY <1>1 DEF ClaimInv, CursorRight, C, Epochs
      <3> QED BY <1>3, <3>1
    <2>3. ASSUME NEW i \in Items PROVE taker'[C][i] = 0 <=> i >= cursor'
      <3>1. CASE i \in range
        <4>1. taker'[C][i] = mine.epoch /\ i < cursor'
          BY <1>1, <1>3, <3>1
        <4> QED BY <1>3, <1>8, <4>1 DEF Items
      <3>2. CASE i \notin range
        <4>1. taker'[C][i] = taker[C][i]
          BY <1>1, <1>3, <3>2
        <4> QED BY <1>1, <1>3, <1>4, <3>2, <4>1 DEF Items
      <3> QED BY <3>1, <3>2
    <2> QED BY <1>1, <2>1, <2>2, <2>3 DEF CursorRight, C
  <1>10. \A e \in Epochs, i \in Items : Tickets(e, i) \subseteq Tickets(e, i)'
    <2> SUFFICES ASSUME NEW e \in Epochs, NEW i \in Items, NEW f \in Tickets(e, i)
                 PROVE  f \in Tickets(e, i)'
      OBVIOUS
    <2>1. f \in Epochs /\ taker[f][i] = e /\ e # 0
      BY DEF Tickets, Epochs
    <2> QED BY <1>7, <2>1 DEF Tickets, History
  <1>11. \A q \in Lanes \ {p} : \A e, i : IsAbout(q, e, i)' <=> IsAbout(q, e, i)
    BY DEF Claims, Moves, IsAbout
  <1>12. \A e, i : ~IsAbout(p, e, i)
    BY DEF Claims, IsAbout
  <1>13. \A e \in Epochs, i \in Items :
           IsAbout(p, e, i)' <=> e = mine.epoch /\ i \in range /\ i < mine.len /\ cursor < mine.len
    <2> SUFFICES ASSUME NEW e \in Epochs, NEW i \in Items
                 PROVE  IsAbout(p, e, i)' <=>
                          e = mine.epoch /\ i \in range /\ i < mine.len /\ cursor < mine.len
      OBVIOUS
    <2>1. CASE cursor >= mine.len
      <3>1. lane'[p].at = "leave"
        BY <2>1 DEF Claims
      <3> QED BY <1>1, <2>1, <3>1, Longest DEF IsAbout
    <2>2. CASE cursor < mine.len
      <3>1. /\ lane'[p].at \in {"work", "build"} /\ lane'[p].job = mine /\ lane'[p].next = cursor
            /\ i >= cursor /\ i < lane'[p].end <=> i \in range /\ i < mine.len
        BY <2>2 DEF Claims, range
      <3>2. i >= cursor <=> cursor <= i
        BY <1>1 DEF Items
      <3> QED BY <2>2, <3>1, <3>2 DEF IsAbout
    <2> QED BY <1>1, <2>1, <2>2, Longest
  <1>14. TicketsRight'
    <2> SUFFICES ASSUME NEW e \in Epochs, NEW i \in Items
                 PROVE  handled[e][i] + Cardinality(About(e, i)') <= Cardinality(Tickets(e, i)')
      BY <1>2 DEF TicketsRight
    <2>1. handled[e][i] + Cardinality(About(e, i)) <= Cardinality(Tickets(e, i)) /\ handled[e][i] \in Nat
      BY <1>2 DEF ClaimInv, TicketsRight
    <2>2. /\ IsFiniteSet(About(e, i)) /\ Cardinality(About(e, i)) \in Nat
          /\ IsFiniteSet(Tickets(e, i)) /\ Cardinality(Tickets(e, i)) \in Nat
      BY CountsAre
    <2>3. Tickets(e, i)' \in SUBSET Epochs /\ IsFiniteSet(Epochs)
      BY FS_Interval, PoolAssumption DEF Tickets, Epochs
    <2>4. IsFiniteSet(Tickets(e, i)') /\ Cardinality(Tickets(e, i)') \in Nat
      BY <2>3, FS_Subset, FS_CardinalityType
    <2>5. p \notin About(e, i) /\ \A q \in Lanes \ {p} : q \in About(e, i)' <=> q \in About(e, i)
      BY <1>11, <1>12 DEF About
    <2>6. About(e, i) \subseteq Lanes /\ About(e, i)' \subseteq Lanes
      BY DEF About
    <2>7. CASE ~IsAbout(p, e, i)'
      <3>1. p \notin About(e, i)'
        BY <2>7 DEF About
      <3>2. About(e, i)' = About(e, i)
        BY <2>5, <2>6, <3>1
      <3>3. Cardinality(Tickets(e, i)) <= Cardinality(Tickets(e, i)')
        <4>1. Tickets(e, i) \in SUBSET (Tickets(e, i)')
          BY <1>10
        <4> QED BY <2>4, <4>1, FS_Subset
      <3> QED BY <2>1, <2>2, <2>4, <3>2, <3>3
    <2>8. CASE IsAbout(p, e, i)'
      <3>1. e = mine.epoch /\ i \in range
        BY <1>13, <2>8
      <3>2. p \in About(e, i)'
        BY <2>8 DEF About
      <3>3. About(e, i)' = About(e, i) \cup {p}
        BY <2>5, <2>6, <3>2
      <3>4. Cardinality(About(e, i)') = Cardinality(About(e, i)) + 1
        <4>1. Cardinality(About(e, i) \cup {p}) = Cardinality(About(e, i)) + 1
          BY <2>2, <2>5, FS_AddElement
        <4> QED BY <3>3, <4>1
      <3>5. C \in Tickets(e, i)' /\ C \notin Tickets(e, i)
        BY <1>1, <1>3, <1>6, <1>8, <3>1 DEF Tickets
      <3>6. Tickets(e, i) \cup {C} \in SUBSET (Tickets(e, i)')
        BY <1>10, <3>5
      <3>7. Cardinality(Tickets(e, i) \cup {C}) = Cardinality(Tickets(e, i)) + 1
        BY <2>2, <3>5, FS_AddElement
      <3>8. Cardinality(Tickets(e, i) \cup {C}) <= Cardinality(Tickets(e, i)')
        BY <2>4, <3>6, FS_Subset
      <3> QED BY <2>1, <2>2, <2>4, <3>4, <3>7, <3>8
    <2> QED BY <2>7, <2>8
  <1>15. NothingDropped'
    <2> SUFFICES ASSUME NEW e \in 1 .. Current, Whole(e), NEW i \in ItemsOf(e), taker'[e][i] = e
                 PROVE  handled[e][i] > 0 \/ About(e, i)' # {}
      BY <1>1, <1>2 DEF NothingDropped, Whole, ItemsOf, Current
    <2>1. e \in Epochs /\ i \in Items /\ i < published[e].len
      BY ItemsAre DEF ItemsFit
    <2>2. CASE taker[e][i] = e
      <3>1. handled[e][i] > 0 \/ About(e, i) # {}
        BY <2>2 DEF ClaimInv, NothingDropped
      <3> QED BY <1>11, <1>12, <3>1 DEF About
    <2>3. CASE taker[e][i] # e
      <3>1. e = C /\ i \in range /\ e = mine.epoch
        BY <1>3, <2>1, <2>3
      <3>2. cursor < mine.len
        BY <1>1, <1>5, <2>1, <3>1 DEF Items
      <3>3. IsAbout(p, e, i)'
        BY <1>1, <1>13, <2>1, <3>1, <3>2
      <3> QED BY <3>3 DEF About
    <2> QED BY <2>2, <2>3
  <1> QED BY <1>7, <1>9, <1>14, <1>15 DEF ClaimInv

LEMMA HandleClaims ==
  ASSUME PoolInv, PoolInv', ClaimInv, NEW p \in Lanes, Works(p) \/ Builds(p)
  PROVE  ClaimInv' /\ History
  <1> DEFINE e == lane[p].job.epoch
             i == lane[p].next
  <1>1. /\ Handles(p) /\ Moves(p) /\ e \in Epochs /\ i \in Items
        /\ lane[p].at \in {"work", "build"} /\ lane'[p].job = lane[p].job
        /\ lane'[p].next = i + 1 /\ lane'[p].end = lane[p].end
        /\ lane'[p].at \in {"work", "build"} <=> i + 1 < lane[p].end
        /\ UNCHANGED <<published, game, taker, cursor>>
    BY DEF Works, Builds, Handles, Moves
  <1>2. /\ handled \in [Epochs -> [Items -> Nat]] /\ handled' \in [Epochs -> [Items -> Nat]]
        /\ \A f \in Epochs, j \in Items :
             handled'[f][j] = IF f = e /\ j = i THEN handled[f][j] + 1 ELSE handled[f][j]
    BY <1>1 DEF Handles, PoolInv, PoolTypes, DataTypes
  <1>3. i < lane[p].end /\ i \in Nat /\ lane[p].end \in Nat
    BY <1>1, LaneIs, Longest DEF PoolInv, LaneRight
  <1>4. IsAbout(p, e, i)
    BY <1>1, <1>3 DEF IsAbout
  <1> HIDE DEF e, i
  <1>5. History
    <2> SUFFICES ASSUME NEW f \in Epochs, NEW j \in Items PROVE handled'[f][j] >= handled[f][j]
      BY <1>1 DEF History
    <2>1. handled[f][j] \in Nat /\ handled'[f][j] \in {handled[f][j], handled[f][j] + 1}
      BY <1>2
    <2> QED BY <2>1
  <1>6. CursorRight'
    BY <1>1 DEF ClaimInv, CursorRight, Known, CursorEpoch, Current, JobLocked, job
  <1>7. \A q \in Lanes \ {p} : \A f, j : IsAbout(q, f, j)' <=> IsAbout(q, f, j)
    BY <1>1 DEF Moves, IsAbout
  <1>8. \A f : \A j \in Items : IsAbout(p, f, j)' <=> IsAbout(p, f, j) /\ ~(f = e /\ j = i)
    <2> SUFFICES ASSUME NEW f, NEW j \in Items
                 PROVE  IsAbout(p, f, j)' <=> IsAbout(p, f, j) /\ ~(f = e /\ j = i)
      OBVIOUS
    <2>0. j \in Nat
      BY Longest DEF Items
    <2>1. IsAbout(p, f, j)' <=> i + 1 < lane[p].end /\ e = f /\ i + 1 <= j /\ j < lane[p].end
      BY <1>1 DEF IsAbout, e, i
    <2>2. IsAbout(p, f, j) <=> e = f /\ i <= j /\ j < lane[p].end
      BY <1>1 DEF IsAbout, e, i
    <2> QED BY <1>3, <2>0, <2>1, <2>2
  <1>9. TicketsRight'
    <2> SUFFICES ASSUME NEW f \in Epochs, NEW j \in Items
                 PROVE  handled'[f][j] + Cardinality(About(f, j)') <= Cardinality(Tickets(f, j))
      BY <1>1 DEF TicketsRight, Tickets
    <2>1. handled[f][j] + Cardinality(About(f, j)) <= Cardinality(Tickets(f, j)) /\ handled[f][j] \in Nat
      BY <1>2 DEF ClaimInv, TicketsRight
    <2>2. /\ IsFiniteSet(About(f, j)) /\ Cardinality(About(f, j)) \in Nat
          /\ Cardinality(Tickets(f, j)) \in Nat
          /\ About(f, j) \subseteq Lanes /\ About(f, j)' \subseteq Lanes
      BY CountsAre DEF About
    <2>3. CASE f = e /\ j = i
      <3>1. p \in About(f, j) /\ p \notin About(f, j)'
        BY <1>4, <1>8, <2>3 DEF About
      <3>2. About(f, j)' = About(f, j) \ {p}
        BY <1>7, <2>2, <3>1 DEF About
      <3>3. Cardinality(About(f, j) \ {p}) = Cardinality(About(f, j)) - 1
        BY <2>2, <3>1, FS_RemoveElement
      <3>4. handled'[f][j] = handled[f][j] + 1
        BY <1>2, <2>3
      <3> QED BY <2>1, <2>2, <3>2, <3>3, <3>4
    <2>4. CASE ~(f = e /\ j = i)
      <3>1. About(f, j)' = About(f, j)
        BY <1>7, <1>8, <2>2, <2>4 DEF About
      <3>2. handled'[f][j] = handled[f][j]
        BY <1>2, <2>4
      <3> QED BY <2>1, <3>1, <3>2
    <2> QED BY <2>3, <2>4
  <1>10. NothingDropped'
    <2> SUFFICES ASSUME NEW f \in 1 .. Current, Whole(f), NEW j \in ItemsOf(f), taker[f][j] = f
                 PROVE  handled'[f][j] > 0 \/ About(f, j)' # {}
      BY <1>1 DEF NothingDropped, Whole, ItemsOf, Current
    <2>1. f \in Epochs /\ j \in Items
      BY ItemsAre DEF ItemsFit
    <2>2. handled[f][j] > 0 \/ About(f, j) # {}
      BY DEF ClaimInv, NothingDropped
    <2>3. CASE f = e /\ j = i
      <3>1. handled'[f][j] = handled[f][j] + 1 /\ handled[f][j] \in Nat
        BY <1>2, <2>1, <2>3
      <3> QED BY <3>1
    <2>4. CASE ~(f = e /\ j = i)
      <3>1. About(f, j)' = About(f, j)
        BY <1>7, <1>8, <2>1, <2>4 DEF About
      <3>2. handled'[f][j] = handled[f][j]
        BY <1>2, <2>1, <2>4
      <3> QED BY <2>2, <3>1, <3>2
    <2> QED BY <2>3, <2>4
  <1> QED BY <1>5, <1>6, <1>9, <1>10 DEF ClaimInv

LEMMA PassClaims ==
  ASSUME PoolInv, PoolInv', ClaimInv, NEW p \in Lanes, Passes(p) \/ Flushes(p)
  PROVE  ClaimInv' /\ History
  <1>1. /\ Moves(p) /\ lane'[p].at \notin {"work", "build", "flush"}
        /\ lane[p].at \notin {"work"} /\ (lane[p].at = "build" => lane[p].job.kind = "Particles")
        /\ UNCHANGED <<published, game, taker, cursor, handled>>
    BY DEF Passes, Flushes, Goes, Moves
  <1>2. CursorRight'
    BY <1>1 DEF ClaimInv, CursorRight, Known, CursorEpoch, Current, JobLocked, job
  <1>3. \A q \in Lanes \ {p} : \A e, i : IsAbout(q, e, i)' <=> IsAbout(q, e, i)
    BY <1>1 DEF Moves, IsAbout
  <1>4. \A e, i : ~IsAbout(p, e, i)'
    BY <1>1 DEF IsAbout
  <1>5. \A e, i : IsAbout(p, e, i) => ~Whole(e)
    <2> SUFFICES ASSUME NEW e, NEW i, IsAbout(p, e, i) PROVE ~Whole(e)
      OBVIOUS
    <2>1. lane[p].at = "build" /\ lane[p].job.kind = "Particles" /\ lane[p].job.epoch = e
      BY <1>1 DEF IsAbout
    <2>2. lane[p].job = published[e]
      BY <2>1, LaneIs
    <2> QED BY <2>1, <2>2 DEF Whole
  <1>6. ClaimInv'
    <2>1. /\ TicketsRight /\ NothingDropped /\ CursorRight /\ UNCHANGED <<taker, handled>>
          /\ \A e \in 1 .. Current : published'[e] = published[e]
          /\ Current' \in {Current, Current + 1}
      BY <1>1 DEF ClaimInv, Current
    <2>2. /\ \A q \in Lanes, e \in Epochs, i \in Items : IsAbout(q, e, i)' => IsAbout(q, e, i)
          /\ \A q \in Lanes, e \in 1 .. Current, i \in Items :
               Whole(e) /\ IsAbout(q, e, i) => IsAbout(q, e, i)'
      BY <1>3, <1>4, <1>5
    <2> QED BY <1>2, <2>1, <2>2, ClaimsKept
  <1> QED BY <1>1, <1>6, HistoryStill

(* The game thread's own steps move the cursor's epoch, never a ticket.    *)
LEMMA GameClaims ==
  ASSUME PoolInv, PoolInv', ClaimInv,
         Begin \/ Publish \/ ResetCursor \/ ResetFreed \/ StoreEpoch \/ JoinMoves \/ Release
  PROVE  ClaimInv' /\ History
  <1>1. UNCHANGED <<taker, handled>>
    BY JoinMovesAre DEF Begin, Publish, ResetCursor, ResetFreed, StoreEpoch, Release
  <1>2. Joins \/ lane' = lane
    BY JoinMovesAre, StoreEpochIs DEF Begin, Publish, ResetCursor, ResetFreed, Release
  <1>3. \A q \in Lanes : \A e, i : IsAbout(q, e, i)' <=> IsAbout(q, e, i)
    <2> SUFFICES ASSUME NEW q \in Lanes, NEW e, NEW i PROVE IsAbout(q, e, i)' <=> IsAbout(q, e, i)
      OBVIOUS
    <2>1. lane'[q] = lane[q] \/ (lane[q].at = "parked" /\ lane'[q].at = "raise")
      BY <1>2 DEF Joins, Lanes
    <2> QED BY <2>1 DEF IsAbout
  <1>4. /\ \A e \in 1 .. Current : published'[e] = published[e]
        /\ Current' \in {Current, Current + 1}
    <2>1. CASE Publish
      BY <2>1, PublishIs
    <2>2. CASE ~Publish
      <3>1. published' = published
        BY <2>2, JoinMovesAre DEF Begin, ResetCursor, ResetFreed, StoreEpoch, Release, poolVars
      <3> QED BY <3>1 DEF Current
    <2> QED BY <2>1, <2>2
  <1>5. CursorRight'
    <2>0. /\ taker \in [Epochs -> [Items -> 0 .. MaxJobs]] /\ Known \in 0 .. MaxJobs
          /\ Current \in 0 .. MaxJobs /\ MaxJobs \in Nat /\ CursorRight /\ Known <= Current
          /\ job.epoch = Current
      BY PoolAssumption, LaneIs, LanesAre, JobsAre DEF PoolInv, PoolTypes, DataTypes, ClaimInv
    <2>1. CASE Publish
      <3>1. Known' = Known /\ CursorEpoch' = CursorEpoch /\ cursor' = cursor
        <4>1. /\ game.at = "publish" /\ game'.at = "cursor" /\ Current' = Current + 1
              /\ Current' \in Epochs /\ cursor' = cursor /\ job'.epoch = Current'
          BY <2>1, PublishIs
        <4>2. ~JobLocked /\ JobLocked'
          BY <4>1 DEF JobLocked
        <4> QED BY <2>0, <4>1, <4>2 DEF Known, CursorEpoch
      <3> QED BY <1>1, <2>0, <3>1 DEF CursorRight
    <2>2. CASE ResetCursor
      <3>1. /\ game.at = "cursor" /\ game'.at = "freed" /\ cursor' = 0
            /\ job' = job /\ Current' = Current
        BY <2>2, ResetCursorStep DEF ResetCursor, job, Current
      <3>2. /\ CursorEpoch = Current - 1 /\ CursorEpoch' = Current /\ Known' = Known
        BY <2>0, <3>1 DEF CursorEpoch, Known, JobLocked
      <3>3. \A f \in Epochs : f >= Current => \A i \in Items : taker[f][i] = 0
        BY <2>0, <3>2 DEF CursorRight, Epochs
      <3>4. \A i \in Items : i >= 0
        BY Longest DEF Items
      <3>5. \A f \in Epochs : f > Current' => f >= Current
        BY <2>0, <3>1 DEF Epochs
      <3> QED BY <1>1, <2>0, <3>1, <3>2, <3>3, <3>4, <3>5 DEF CursorRight
    <2>3. CASE ~Publish /\ ~ResetCursor
      <3>1. /\ published' = published /\ cursor' = cursor /\ game.at # "cursor" /\ game'.at # "cursor"
            /\ JobLocked' => JobLocked
        <4>1. CASE Begin
          BY <4>1, Going DEF Begin, JobLocked
        <4>2. CASE ResetFreed
          BY <4>2, ResetFreedStep DEF ResetFreed, JobLocked
        <4>3. CASE StoreEpoch
          BY <4>3, StoreEpochIs DEF JobLocked
        <4>4. CASE JoinMoves
          BY <4>4, JoinMovesAre DEF JobLocked, Joining
        <4>5. CASE Release
          BY <4>5 DEF Release, poolVars, JobLocked
        <4> QED BY <2>3, <4>1, <4>2, <4>3, <4>4, <4>5
      <3>2. CursorEpoch' = CursorEpoch /\ Known' \in {Known, Current} /\ Current' = Current
        BY <3>1 DEF CursorEpoch, Known, Current, job
      <3>3. \A f \in Epochs, i \in Items : taker[f][i] <= Known'
        BY <2>0, <3>2 DEF CursorRight
      <3> QED BY <1>1, <2>0, <3>1, <3>2, <3>3 DEF CursorRight
    <2> QED BY <2>1, <2>2, <2>3
  <1>6. ClaimInv'
    <2>1. TicketsRight /\ NothingDropped /\ CursorRight
      BY DEF ClaimInv
    <2>2. /\ \A q \in Lanes, e \in Epochs, i \in Items : IsAbout(q, e, i)' => IsAbout(q, e, i)
          /\ \A q \in Lanes, e \in 1 .. Current, i \in Items :
               Whole(e) /\ IsAbout(q, e, i) => IsAbout(q, e, i)'
      BY <1>3
    <2> QED BY <1>1, <1>4, <1>5, <2>1, <2>2, ClaimsKept
  <1> QED BY <1>1, <1>6, HistoryStill

LEMMA ClaimInvInit == Init => ClaimInv
  <1> SUFFICES ASSUME Init PROVE ClaimInv
    OBVIOUS
  <1>1. PoolInv
    BY PoolInvInit
  <1>2. \A e \in Epochs, i \in Items : taker[e][i] = 0 /\ handled[e][i] = 0
    BY DEF Init
  <1>3. Current = 0 /\ \A p \in Lanes : lane[p].at = "parked"
    BY EmptySeq, ParkedIs DEF Init, Current
  <1>4. CursorRight
    <2>1. CursorEpoch = 0 /\ Known = 0
      BY <1>1, <1>3, JobsAre DEF Init, CursorEpoch, Known, JobLocked, PoolInv
    <2>2. 0 \notin Epochs
      BY DEF Epochs
    <2> QED BY <1>2, <2>1, <2>2 DEF CursorRight
  <1>5. TicketsRight
    <2> SUFFICES ASSUME NEW e \in Epochs, NEW i \in Items
                 PROVE  handled[e][i] + Cardinality(About(e, i)) <= Cardinality(Tickets(e, i))
      BY DEF TicketsRight
    <2>1. About(e, i) = {}
      BY <1>3 DEF About, IsAbout
    <2> QED BY <1>2, <2>1, FS_EmptySet, CountsAre
  <1>6. NothingDropped
    BY <1>3 DEF NothingDropped
  <1> QED BY <1>4, <1>5, <1>6 DEF ClaimInv

LEMMA ClaimInvStep == PoolInv /\ PoolInv' /\ ClaimInv /\ [Next]_vars => ClaimInv' /\ History
  <1> SUFFICES ASSUME PoolInv, PoolInv', ClaimInv, [Next]_vars PROVE ClaimInv' /\ History
    OBVIOUS
  <1>1. CASE UNCHANGED vars
    <2>1. ClaimInv'
      BY <1>1 DEF vars, poolVars, ClaimInv, CursorRight, TicketsRight, NothingDropped, About,
         IsAbout,
                  Tickets, Whole, ItemsOf, CursorEpoch, Current, Known, JobLocked, job
    <2> QED BY <1>1, <2>1, HistoryStill DEF vars
  <1>2. CASE Next
    <2>1. ASSUME NEW p \in Lanes, LaneStep(p) \/ (p \in Workers /\ WorkerStep(p))
          PROVE  ClaimInv' /\ History
      <3>1. Claims(p) \/ Works(p) \/ Builds(p) \/ Flushes(p) \/ Passes(p)
        BY <2>1, LaneSteps
      <3> QED BY <3>1, ClaimClaims, HandleClaims, PassClaims
    <2> QED BY <1>2, <2>1, Steps, GameClaims
  <1> QED BY <1>1, <1>2

(* The second layer always holds: where each ticket of the cursor went.     *)
THEOREM ClaimsAlways == Spec => []ClaimInv
  BY PoolInvStep, PoolAlways, ClaimInvInit, ClaimInvStep, PTL DEF Spec

(* An item is worked on at most once for each ticket with its number that  *)
(* was used for its job: two lanes never sweep one bucket or build one     *)
(* entry because of a claim.                                               *)
THEOREM TicketsOnce == Spec => []OncePerTicket
  <1>1. PoolInv /\ ClaimInv => OncePerTicket
    <2> SUFFICES ASSUME PoolInv, ClaimInv, NEW e \in Epochs, NEW i \in Items
                 PROVE  handled[e][i] <= Cardinality(Tickets(e, i))
      BY DEF OncePerTicket, Tickets
    <2>1. handled[e][i] + Cardinality(About(e, i)) <= Cardinality(Tickets(e, i)) /\ handled[e][i] \in Nat
      BY DEF ClaimInv, TicketsRight, PoolInv, PoolTypes, DataTypes
    <2> QED BY <2>1, CountsAre
  <1> QED BY <1>1, PoolAlways, ClaimsAlways, PTL

-----------------------------------------------------------------------------
(* The joins                                                               *)

(* The tickets of a job have been used, and what its own participants took *)
(* is done.                                                                *)
Covered(e) ==
  \A i \in ItemsOf(e) : taker[e][i] # 0 /\ (taker[e][i] = e => handled[e][i] > 0)

(* The game thread leaves a sweep, finds a sweep or an animation quiet and *)
(* ends it only behind the last ticket.                                    *)
HelpRight ==
  game.at = "help" /\ job.kind = "Sweep" /\ lane[Game].at \in {"parked", "leave"} => cursor >= job.len

QuietRight ==
  game.at \in {"quiet", "over", "release"} /\ job.kind \in {"Sweep", "AnimateRoots"} => cursor >= job.len

OverRight ==
  game.at \in {"over", "release"} /\ job.kind \in {"Sweep", "AnimateRoots"} => Covered(Current)

(* A job that is over is covered, and its cursor has nothing left.         *)
JoinedRight ==
  /\ CursorEpoch > 0 /\ CursorEpoch \notin held /\ Whole(CursorEpoch) =>
       cursor >= published[CursorEpoch].len
  /\ \A e \in 1 .. Current : e \notin held /\ Whole(e) => Covered(e)

(* The walk is behind what is animated.                                    *)
WalkRight ==
  game.at \in Joining /\ job.kind = "AnimateRoots" =>
    \A i \in ItemsOf(Current) :
      i < game.node /\ taker[Current][i] \in {0, Current} => handled[Current][i] > 0

JoinInv == HelpRight /\ QuietRight /\ OverRight /\ JoinedRight /\ WalkRight

(* A cursor past the end and nobody active: the job is covered.            *)
LEMMA QuietIsCovered ==
  ASSUME PoolInv, ClaimInv, game.at \in Joining, job.kind \in {"Sweep", "AnimateRoots"},
         cursor >= job.len, active = 0
  PROVE  Covered(Current)
  <1>1. /\ CursorEpoch = Current /\ Current \in 1 .. Current /\ Current \in Epochs
        /\ job = published[Current] /\ job.len \in 0 .. MaxLen
    <2>1. Current > 0 /\ game.at # "cursor"
      BY DEF PoolInv, GameRight, Joining
    <2>2. Current \in 0 .. MaxJobs
      BY JobsAre DEF PoolInv
    <2> QED BY <2>1, <2>2, CursorEpochIs, JobsAre, PoolAssumption DEF PoolInv, Epochs
  <1>2. Busy = {}
    <2>1. IsFiniteSet(Busy) /\ Cardinality(Busy) = 0
      BY LanesAre DEF PoolInv, ActiveCounts, Busy
    <2> QED BY <2>1, FS_EmptySet
  <1>3. \A i : About(Current, i) = {}
    BY <1>2 DEF About, IsAbout, Busy, ActiveAts
  <1> SUFFICES ASSUME NEW i \in ItemsOf(Current)
               PROVE  taker[Current][i] # 0 /\ (taker[Current][i] = Current => handled[Current][i] > 0)
    BY DEF Covered
  <1>4. i \in Items /\ i < published[Current].len /\ cursor \in 0 .. MaxLen
    BY <1>1, ItemsAre DEF ItemsFit, PoolInv, PoolTypes, DataTypes
  <1>5. ~(i >= cursor)
    BY <1>1, <1>4, Longest DEF Items
  <1>6. taker[Current][i] # 0
    BY <1>1, <1>4, <1>5 DEF ClaimInv, CursorRight
  <1>7. taker[Current][i] = Current => handled[Current][i] > 0
    BY <1>1, <1>3 DEF ClaimInv, NothingDropped, Whole
  <1> QED BY <1>6, <1>7

LEMMA CoveredStays ==
  ASSUME PoolInv, PoolInv', History, NEW e \in 1 .. Current, Covered(e), published'[e] = published[e]
  PROVE  Covered(e)'
  <1> SUFFICES ASSUME NEW i \in ItemsOf(e)
               PROVE  taker'[e][i] # 0 /\ (taker'[e][i] = e => handled'[e][i] > 0)
    BY DEF Covered, ItemsOf
  <1>1. e \in Epochs /\ i \in Items
    BY ItemsAre DEF ItemsFit
  <1>2. taker'[e][i] = taker[e][i] /\ handled'[e][i] >= handled[e][i] /\ taker[e][i] # 0
        /\ (taker[e][i] = e => handled[e][i] > 0)
    BY <1>1 DEF History, Covered
  <1>3. handled[e][i] \in Nat /\ handled'[e][i] \in Nat
    BY <1>1 DEF PoolInv, PoolTypes, DataTypes
  <1> QED BY <1>2, <1>3

(* What is behind the walk stays so.                                       *)
LEMMA WalkStays ==
  ASSUME PoolInv, PoolInv', History, Current > 0, Current' = Current, published' = published,
         \A i \in ItemsOf(Current) :
           i < game'.node /\ taker[Current][i] \in {0, Current} => handled[Current][i] > 0
  PROVE  WalkRight'
  <1> DEFINE C == Current
  <1>1. C \in 1 .. C /\ C' = C
    BY JobsAre DEF PoolInv
  <1> HIDE DEF C
  <1> SUFFICES ASSUME NEW i \in ItemsOf(C), i < game'.node, taker'[C][i] \in {0, C}
               PROVE  handled'[C][i] > 0
    BY <1>1 DEF WalkRight, ItemsOf, C
  <1>2. C \in Epochs /\ i \in Items
    BY <1>1, ItemsAre DEF ItemsFit, C
  <1>3. taker[C][i] \in {0, C}
    BY <1>2 DEF History
  <1>4. handled[C][i] > 0
    BY <1>3 DEF C
  <1>5. handled[C][i] \in Nat /\ handled'[C][i] \in Nat /\ handled'[C][i] >= handled[C][i]
    BY <1>2 DEF PoolInv, PoolTypes, DataTypes, History
  <1> QED BY <1>4, <1>5

LEMMA LaneJoins ==
  ASSUME PoolInv, PoolInv', ClaimInv, JoinInv, History, NEW p \in Lanes,
         Claims(p) \/ Works(p) \/ Builds(p) \/ Flushes(p) \/ Passes(p)
  PROVE  JoinInv'
  <1>1. Moves(p) /\ cursor' \in 0 .. MaxLen /\ cursor \in 0 .. MaxLen /\ cursor' >= cursor
    BY Longest DEF Claims, Works, Builds, Handles, Flushes, Passes, PoolInv, PoolTypes, DataTypes
  <1>2. /\ UNCHANGED <<published, game, held>> /\ job' = job /\ Current' = Current
        /\ CursorEpoch' = CursorEpoch
    BY <1>1 DEF Moves, job, Current, CursorEpoch
  <1>3. /\ job.len \in 0 .. MaxLen /\ MaxLen \in Nat
        /\ \A e \in 1 .. Current : published[e].len \in 0 .. MaxLen
    BY JobsAre, Longest DEF PoolInv
  <1>4. \A n \in 0 .. MaxLen : cursor >= n => cursor' >= n
    BY <1>1, Longest
  <1>5. HelpRight'
    <2> SUFFICES ASSUME game.at = "help", job.kind = "Sweep", lane'[Game].at \in {"parked", "leave"}
                 PROVE  cursor' >= job.len
      BY <1>2 DEF HelpRight
    <2>1. CASE p # Game
      <3>1. lane'[Game] = lane[Game]
        BY <1>1, <2>1, LanesAre DEF Moves
      <3> QED BY <1>3, <1>4, <3>1 DEF JoinInv, HelpRight
    <2>2. CASE p = Game
      <3>1. CASE Claims(p)
        <4>1. lane[p].job = job
          BY <2>2, <3>1, LaneIs DEF Claims
        <4>2. cursor < job.len => lane'[p].at \in {"build", "work"}
          BY <3>1, <4>1 DEF Claims
        <4>3. cursor >= job.len
          BY <1>1, <1>3, <2>2, <4>2
        <4> QED BY <1>3, <1>4, <4>3
      <3>2. CASE Works(p) \/ Builds(p) \/ Flushes(p)
        BY <2>2, <3>2 DEF Works, Builds, Flushes, Goes
      <3>3. CASE Passes(p)
        <4>1. lane[Game].at = "leave"
          BY <2>2, <3>3 DEF Passes
        <4> QED BY <1>3, <1>4, <4>1 DEF JoinInv, HelpRight
      <3> QED BY <3>1, <3>2, <3>3
    <2> QED BY <2>1, <2>2
  <1>6. QuietRight'
    BY <1>2, <1>3, <1>4 DEF JoinInv, QuietRight
  <1>7. OverRight'
    <2> SUFFICES ASSUME game.at \in {"over", "release"}, job.kind \in {"Sweep", "AnimateRoots"}
                 PROVE  Covered(Current)'
      BY <1>2 DEF OverRight
    <2>1. PICK e \in 1 .. Current : e = Current
      BY JobsAre DEF PoolInv
    <2>2. Covered(e)
      BY <2>1 DEF JoinInv, OverRight
    <2>3. Covered(e)'
      BY <1>2, <2>2, CoveredStays
    <2>4. Current' = e
      BY <1>2, <2>1
    <2> QED BY <2>3, <2>4 DEF Covered, ItemsOf
  <1>8. JoinedRight'
    <2>1. \A e \in 1 .. Current : e \notin held /\ Whole(e) => Covered(e)'
      BY <1>2, CoveredStays DEF JoinInv, JoinedRight
    <2>2. CursorEpoch > 0 /\ CursorEpoch \notin held /\ Whole(CursorEpoch) =>
            cursor' >= published[CursorEpoch].len
      <3>1. CursorEpoch > 0 => CursorEpoch \in 1 .. Current
        BY CursorEpochIs, JobsAre DEF PoolInv
      <3> QED BY <1>3, <1>4, <3>1 DEF JoinInv, JoinedRight
    <2> QED BY <1>2, <2>1, <2>2 DEF JoinedRight, Whole
  <1>9. WalkRight'
    <2>1. CASE game.at \in Joining /\ job.kind = "AnimateRoots"
      <3>1. Current > 0
        BY <2>1 DEF PoolInv, GameRight
      <3>2. \A i \in ItemsOf(Current) :
              i < game'.node /\ taker[Current][i] \in {0, Current} => handled[Current][i] > 0
        BY <1>2, <2>1 DEF JoinInv, WalkRight
      <3> QED BY <1>2, <3>1, <3>2, WalkStays
    <2>2. CASE ~(game.at \in Joining /\ job.kind = "AnimateRoots")
      BY <1>2, <2>2 DEF WalkRight
    <2> QED BY <2>1, <2>2
  <1> QED BY <1>5, <1>6, <1>7, <1>8, <1>9 DEF JoinInv

LEMMA JoinJoins ==
  ASSUME PoolInv, PoolInv', ClaimInv, JoinInv, History, JoinMoves
  PROVE  JoinInv'
  <1>1. /\ UNCHANGED <<published, cursor, active, held, handled, taker>>
        /\ game' \in GameTypes /\ game.at \in Joining /\ game \in GameTypes
        /\ job' = job /\ Current' = Current /\ lane[Game].at = "parked"
    BY JoinMovesAre DEF PoolInv, PoolTypes, job, Current
  <1>2. Current > 0 /\ CursorEpoch' = CursorEpoch
    <2>1. game.at # "cursor" /\ game'.at # "cursor"
      BY <1>1, JoinMovesAre DEF Joining, JobLocked
    <2> QED BY <1>1, <2>1 DEF PoolInv, GameRight, CursorEpoch
  <1>3. \A where : GameGoes(where) => game'.at = where /\ game'.node = game.node
    BY <1>1 DEF GameGoes, GameTypes
  <1>4. HelpRight'
    BY <1>1, JoinMovesAre DEF HelpRight, Help
  <1>5. game'.at = "quiet" /\ job.kind \in {"Sweep", "AnimateRoots"} => cursor >= job.len
    <2> SUFFICES ASSUME game'.at = "quiet", job.kind \in {"Sweep", "AnimateRoots"} PROVE cursor >= job.len
      OBVIOUS
    <2>1. HelpEnds \/ LookSpent
      <3>1. ~Help /\ ~NodeNotReady /\ ~LookAgain /\ ~MarkEnds /\ ~JoinTimesOut /\ ~RaiseDone
        BY <1>3 DEF Help, NodeNotReady, LookAgain, MarkEnds, JoinTimesOut, RaiseDone
      <3>2. ~NodeReady /\ ~LookQuiet
        BY <1>1 DEF NodeReady, LookQuiet, GameTypes
      <3> QED BY <3>1, <3>2 DEF JoinMoves
    <2>2. CASE HelpEnds
      <3>1. job.kind = "Sweep" /\ game.at = "help"
        <4>1. game.at = "help" /\ GameGoes(IF job.kind = "Sweep" THEN "quiet" ELSE "look")
          BY <2>2 DEF HelpEnds
        <4> QED BY <1>3, <4>1
      <3> QED BY <1>1, <3>1 DEF JoinInv, HelpRight
    <2>3. CASE LookSpent
      BY <2>3 DEF LookSpent, Spent
    <2> QED BY <2>1, <2>2, <2>3
  <1>6. game'.at \in {"over", "release"} /\ job.kind \in {"Sweep", "AnimateRoots"} =>
          cursor >= job.len /\ Covered(Current)
    <2> SUFFICES ASSUME game'.at \in {"over", "release"}, job.kind \in {"Sweep", "AnimateRoots"}
                 PROVE  cursor >= job.len /\ Covered(Current)
      OBVIOUS
    <2>1. LookQuiet \/ RaiseDone
      <3>1. ~HelpEnds /\ ~Help /\ ~NodeNotReady /\ ~LookSpent /\ ~LookAgain /\ ~JoinTimesOut
        BY <1>3 DEF HelpEnds, Help, NodeNotReady, LookSpent, LookAgain, JoinTimesOut
      <3>2. ~NodeReady
        BY <1>1 DEF NodeReady, GameTypes
      <3>3. ~MarkEnds
        BY DEF MarkEnds, PoolInv, GameRight
      <3> QED BY <3>1, <3>2, <3>3 DEF JoinMoves
    <2>2. CASE LookQuiet
      <3>1. game.at = "quiet" /\ active = 0
        BY <2>2 DEF LookQuiet
      <3>2. cursor >= job.len
        BY <3>1 DEF JoinInv, QuietRight
      <3> QED BY <1>1, <3>1, <3>2, QuietIsCovered
    <2>3. CASE RaiseDone
      BY <2>3 DEF RaiseDone, JoinInv, QuietRight, OverRight
    <2> QED BY <2>1, <2>2, <2>3
  <1>7. QuietRight'
    BY <1>1, <1>5, <1>6 DEF QuietRight
  <1>8. OverRight'
    BY <1>1, <1>6 DEF OverRight, Covered, ItemsOf
  <1>9. JoinedRight'
    BY <1>1, <1>2 DEF JoinInv, JoinedRight, Covered, ItemsOf, Whole
  <1>10. WalkRight'
    <2>1. ASSUME game'.at \in Joining, job.kind = "AnimateRoots", NEW i \in ItemsOf(Current),
                 i < game'.node, taker[Current][i] \in {0, Current}
          PROVE  handled[Current][i] > 0
      <3>1. PICK e \in 1 .. Current : e = Current
        BY <1>2, JobsAre DEF PoolInv
      <3>2. i \in Items /\ Current \in Epochs /\ i \in 0 .. MaxLen /\ game.node \in 0 .. MaxLen + 1
        BY <1>1, <3>1, ItemsAre, Longest DEF ItemsFit, Items, GameTypes
      <3>3. i < game.node => handled[Current][i] > 0
        BY <1>1, <2>1 DEF JoinInv, WalkRight
      <3>4. CASE game'.node = game.node
        BY <2>1, <3>3, <3>4
      <3>5. CASE NodeReady
        <4>1. game'.node = game.node + 1 /\ handled[job.epoch][game.node] > 0 /\ job.epoch = Current
          BY <1>1, <3>5, JobsAre DEF NodeReady, GameTypes, PoolInv
        <4>2. CASE i < game.node
          BY <3>3, <4>2
        <4>3. CASE i = game.node
          BY <4>1, <4>3
        <4> QED BY <2>1, <3>2, <4>1, <4>2, <4>3, Longest
      <3>6. CASE LookQuiet
        <4>1. game.at = "quiet" /\ active = 0
          BY <3>6 DEF LookQuiet
        <4>2. cursor >= job.len
          BY <2>1, <4>1 DEF JoinInv, QuietRight
        <4>3. Covered(Current)
          BY <1>1, <2>1, <4>1, <4>2, QuietIsCovered
        <4> QED BY <2>1, <4>3 DEF Covered
      <3>7. CASE ~NodeReady /\ ~LookQuiet
        <4>1. game'.node = game.node
          BY <1>3, <3>7 DEF JoinMoves, HelpEnds, NodeNotReady, LookSpent, Help, LookAgain,
                            MarkEnds, JoinTimesOut, RaiseDone
        <4> QED BY <3>4, <4>1
      <3> QED BY <3>5, <3>6, <3>7
    <2> QED BY <1>1, <2>1 DEF WalkRight, ItemsOf
  <1> QED BY <1>4, <1>7, <1>8, <1>9, <1>10 DEF JoinInv

LEMMA OpenJoins ==
  ASSUME PoolInv, PoolInv', ClaimInv, JoinInv,
         Begin \/ Publish \/ ResetCursor \/ ResetFreed \/ StoreEpoch
  PROVE  JoinInv'
  <1>1. UNCHANGED <<taker, handled>>
    BY DEF Begin, Publish, ResetCursor, ResetFreed, StoreEpoch
  <1>2. game'.at \in {"publish", "mark", "help", "spent", "look"} \cup Locked
    <2>1. CASE StoreEpoch
      <3>1. job.kind \in {"Mark", "Sweep", "Particles", "AnimateRoots"}
        BY JobsAre DEF PoolInv, JobTypes
      <3> QED BY <2>1, <3>1, StoreEpochIs
    <2> QED BY <2>1, Going, PublishIs, ResetCursorStep, ResetFreedStep DEF Begin, Locked
  <1>3. QuietRight' /\ OverRight'
    BY <1>2 DEF QuietRight, OverRight, Locked
  <1>4. HelpRight'
    <2> SUFFICES ASSUME game'.at = "help" PROVE lane'[Game].at = "raise"
      BY DEF HelpRight
    <2>1. StoreEpoch
      BY Going, PublishIs, ResetCursorStep, ResetFreedStep DEF Begin, Locked
    <2> QED BY <2>1, StoreEpochIs
  <1>5. WalkRight'
    <2> SUFFICES ASSUME game'.at \in Joining PROVE \A i \in ItemsOf(Current)' : ~(i < game'.node)
      BY DEF WalkRight
    <2>1. StoreEpoch
      BY Going, PublishIs, ResetCursorStep, ResetFreedStep DEF Begin, Locked, Joining
    <2>2. game'.node = 0
      BY <2>1, StoreEpochIs
    <2> QED BY <2>2 DEF ItemsOf
  <1>6. JoinedRight'
    <2>1. Current \in 0 .. MaxJobs /\ CursorEpoch \in 0 .. MaxJobs /\ CursorEpoch <= Current
      BY JobsAre, CursorEpochIs DEF PoolInv
    <2>2. CASE Publish
      <3>1. /\ Current' = Current + 1 /\ held' = held \cup {Current'} /\ cursor' = cursor
            /\ \A e \in 1 .. Current : published'[e] = published[e]
            /\ game.at = "publish" /\ game'.at = "cursor" /\ job'.epoch = Current'
        BY <2>2, PublishIs
      <3>2. CursorEpoch' = Current /\ CursorEpoch = Current
        BY <2>1, <3>1, CursorEpochIs DEF CursorEpoch
      <3>3. \A e \in 1 .. Current' : e \notin held' /\ Whole(e)' => Covered(e)'
        <4> SUFFICES ASSUME NEW e \in 1 .. Current', e \notin held', Whole(e)' PROVE Covered(e)'
          OBVIOUS
        <4>1. e \in 1 .. Current /\ e \notin held
          BY <2>1, <3>1
        <4>2. published'[e] = published[e] /\ Whole(e)
          BY <3>1, <4>1 DEF Whole
        <4>3. Covered(e)
          BY <4>1, <4>2 DEF JoinInv, JoinedRight
        <4> QED BY <1>1, <4>2, <4>3 DEF Covered, ItemsOf
      <3>4. ASSUME CursorEpoch' > 0, CursorEpoch' \notin held', Whole(CursorEpoch)'
            PROVE  cursor' >= published'[CursorEpoch'].len
        <4>1. Current > 0 /\ Current \notin held /\ published'[Current] = published[Current]
          BY <2>1, <3>1, <3>2, <3>4
        <4>2. Whole(CursorEpoch)
          BY <3>2, <3>4, <4>1 DEF Whole
        <4>3. cursor >= published[CursorEpoch].len
          BY <3>2, <4>1, <4>2 DEF JoinInv, JoinedRight
        <4> QED BY <3>1, <3>2, <4>1, <4>3
      <3> QED BY <3>3, <3>4 DEF JoinedRight
    <2>3. CASE ~Publish
      <3>1. /\ published' = published /\ held' = held /\ Current' = Current /\ job' = job
            /\ ResetCursor \/ (cursor' = cursor /\ game.at # "cursor" /\ game'.at # "cursor")
        <4>1. CASE Begin
          BY <4>1, Going DEF Begin, Current, job
        <4>2. CASE ResetCursor
          BY <4>2 DEF ResetCursor, Current, job
        <4>3. CASE ResetFreed
          BY <4>3, ResetFreedStep DEF ResetFreed, Current, job
        <4>4. CASE StoreEpoch
          <5>1. /\ published' = published /\ held' = held /\ cursor' = cursor
                /\ game.at # "cursor" /\ ~JobLocked'
            <6>1. game'.at \in {"mark", "help", "spent", "look"}
              <7>1. job.kind \in {"Mark", "Sweep", "Particles", "AnimateRoots"}
                BY JobsAre DEF PoolInv, JobTypes
              <7> QED BY <4>4, <7>1, StoreEpochIs
            <6> QED BY <4>4, <6>1, StoreEpochIs DEF JobLocked
          <5> QED BY <5>1 DEF Current, job, JobLocked
        <4> QED BY <2>3, <4>1, <4>2, <4>3, <4>4
      <3>2. \A e \in 1 .. Current' : e \notin held' /\ Whole(e)' => Covered(e)'
        BY <1>1, <3>1 DEF JoinInv, JoinedRight, Covered, ItemsOf, Whole
      <3>3. CASE ResetCursor
        <4>1. CursorEpoch' = Current /\ Current \in held
          BY <2>1, <3>1, <3>3, ResetCursorStep, JobsAre
             DEF ResetCursor, CursorEpoch, PoolInv, GameRight, Locked
        <4> QED BY <3>1, <3>2, <4>1 DEF JoinedRight
      <3>4. CASE ~ResetCursor
        <4>1. CursorEpoch' = CursorEpoch
          BY <3>1, <3>4 DEF CursorEpoch
        <4> QED BY <3>1, <3>2, <3>4, <4>1 DEF JoinInv, JoinedRight, Whole
      <3> QED BY <3>3, <3>4
    <2> QED BY <2>2, <2>3
  <1> QED BY <1>3, <1>4, <1>5, <1>6 DEF JoinInv

LEMMA ReleaseJoins ==
  ASSUME PoolInv, JoinInv, Release
  PROVE  JoinInv'
  <1>1. /\ game.at = "release" /\ game'.at = "idle" /\ held' = held \ {Current}
        /\ UNCHANGED <<published, cursor, taker, handled>>
        /\ Current \in 0 .. MaxJobs /\ job' = job /\ Current' = Current /\ job.epoch = Current
    BY JobsAre DEF Release, poolVars, PoolInv, job, Current
  <1>2. Current > 0 /\ job = published[Current]
    BY <1>1, JobsAre DEF PoolInv, GameRight, Joining
  <1>3. CursorEpoch = Current /\ CursorEpoch' = Current
    BY <1>1 DEF CursorEpoch
  <1>4. \A e \in 1 .. Current : e \notin held' /\ Whole(e) => Covered(e)
    BY <1>1, <1>2 DEF JoinInv, JoinedRight, OverRight, Whole
  <1>5. Whole(Current) => cursor >= published[Current].len
    BY <1>1, <1>2 DEF JoinInv, QuietRight, Whole
  <1>6. JoinedRight'
    BY <1>1, <1>3, <1>4, <1>5 DEF JoinedRight, Whole, Covered, ItemsOf
  <1>7. HelpRight' /\ QuietRight' /\ OverRight' /\ WalkRight'
    BY <1>1 DEF HelpRight, QuietRight, OverRight, WalkRight, Joining
  <1> QED BY <1>6, <1>7 DEF JoinInv

LEMMA JoinInvInit == Init => JoinInv
  <1> SUFFICES ASSUME Init PROVE JoinInv
    OBVIOUS
  <1>1. Current = 0 /\ game.at = "idle" /\ PoolInv
    BY EmptySeq, PoolInvInit DEF Init, Current
  <1>2. CursorEpoch = 0
    BY <1>1, JobsAre DEF CursorEpoch, PoolInv
  <1>3. JoinedRight
    BY <1>1, <1>2 DEF JoinedRight
  <1> QED BY <1>1, <1>3 DEF JoinInv, HelpRight, QuietRight, OverRight, WalkRight, Joining

LEMMA JoinInvStep ==
  PoolInv /\ PoolInv' /\ ClaimInv /\ JoinInv /\ [Next]_vars => JoinInv'
  <1> SUFFICES ASSUME PoolInv, PoolInv', ClaimInv, JoinInv, [Next]_vars PROVE JoinInv'
    OBVIOUS
  <1>0. History
    BY ClaimInvStep
  <1>1. CASE UNCHANGED vars
    BY <1>1 DEF vars, poolVars, JoinInv, HelpRight, QuietRight, OverRight, JoinedRight, WalkRight,
                Covered, Whole, ItemsOf, CursorEpoch, Current, job
  <1>2. CASE Next
    <2>1. ASSUME NEW p \in Lanes, LaneStep(p) \/ (p \in Workers /\ WorkerStep(p))
          PROVE  JoinInv'
      <3>1. Claims(p) \/ Works(p) \/ Builds(p) \/ Flushes(p) \/ Passes(p)
        BY <2>1, LaneSteps
      <3> QED BY <1>0, <3>1, LaneJoins
    <2> QED BY <1>0, <1>2, <2>1, Steps, JoinJoins, OpenJoins, ReleaseJoins
  <1> QED BY <1>1, <1>2

(* The third layer always holds: what the game thread knows as it joins.    *)
THEOREM JoinsAlways == Spec => []JoinInv
  BY PoolInvStep, PoolAlways, ClaimsAlways, JoinInvInit, JoinInvStep, PTL DEF Spec

(* A sweep or an animation that is over has used every ticket, and what    *)
(* its own participants took is done.                                      *)
THEOREM JoinsCover == Spec => []JoinCoversJob
  <1>1. PoolInv /\ JoinInv => JoinCoversJob
    BY DEF JoinInv, JoinedRight, Covered, Whole, JoinCoversJob, Joined, Current
  <1> QED BY <1>1, PoolAlways, JoinsAlways, PTL

(* The walk over the visible list is only past roots that are animated.    *)
THEOREM WalkIsAnimated == Spec => []AnimatedBeforeUse
  <1>1. PoolInv /\ JoinInv => AnimatedBeforeUse
    <2> SUFFICES ASSUME PoolInv, JoinInv,
                        game.at \in {"look", "spent", "quiet", "help", "over", "release"},
                        job.kind = "AnimateRoots"
                 PROVE  \A i \in ItemsOf(job.epoch) :
                          i < game.node /\ taker[job.epoch][i] \in {0, job.epoch} =>
                            handled[job.epoch][i] > 0
      BY DEF AnimatedBeforeUse
    <2>1. job.epoch = Current
      BY JobsAre DEF PoolInv
    <2> QED BY <2>1 DEF JoinInv, WalkRight, Joining
  <1> QED BY <1>1, PoolAlways, JoinsAlways, PTL

-----------------------------------------------------------------------------
(* The accounting of a sweep                                               *)

(* Without stolen tickets, a participant sweeps or animates only for the   *)
(* job that is being joined.                                               *)
WorksForTheJob ==
  \A p \in Lanes : lane[p].at \in {"work", "flush"} =>
    lane[p].job.epoch = Current /\ game.at \in {"help", "look", "spent", "quiet"}

(* The buckets a participant has swept and not accounted for yet.          *)
Unflushed(p) ==
  IF lane[p].at \in {"work", "flush"} THEN (lane[p].next - lane[p].freed) .. (lane[p].next - 1) ELSE {}

Handled(e) == {i \in ItemsOf(e) : handled[e][i] > 0}

UnflushedRight ==
  /\ \A p \in Lanes : \A i \in Unflushed(p) : i \in Handled(Current)
  /\ \A p, q \in Lanes : p # q => Unflushed(p) \cap Unflushed(q) = {}

(* What is counted is what was swept, but for what is not accounted for.   *)
Flushed == {i \in Handled(Current) : \A p \in Lanes : i \notin Unflushed(p)}

FreedRight ==
  game.at \in {"epoch", "help", "quiet", "over", "release"} /\ job.kind = "Sweep" =>
    freedStrings = Cardinality(Flushed)

DebitRight ==
  \A e \in 1 .. Current :
    e \notin held /\ published[e].kind = "Sweep" => debited[e] = Cardinality(Handled(e))

SweepInv == Stolen = {} => WorksForTheJob /\ UnflushedRight /\ FreedRight /\ DebitRight

(* A ticket that was stolen stays stolen.                                  *)
LEMMA TheftStays ==
  ASSUME History, Stolen' = {}
  PROVE  Stolen = {}
  <1> SUFFICES ASSUME NEW e \in Epochs, NEW i \in Items, taker[e][i] \notin {0, e} PROVE FALSE
    BY DEF Stolen
  <1>1. taker'[e][i] \notin {0, e}
    BY DEF History
  <1>2. <<e, i>> \in Epochs \X Items /\ <<e, i>>[1] = e /\ <<e, i>>[2] = i
    OBVIOUS
  <1> QED BY <1>1, <1>2 DEF Stolen

LEMMA NoTheft ==
  ASSUME Stolen = {}
  PROVE  \A e \in Epochs, i \in Items : taker[e][i] \in {0, e}
  <1> SUFFICES ASSUME NEW e \in Epochs, NEW i \in Items, taker[e][i] \notin {0, e} PROVE FALSE
    OBVIOUS
  <1>1. <<e, i>> \in Epochs \X Items /\ <<e, i>>[1] = e /\ <<e, i>>[2] = i
    OBVIOUS
  <1> QED BY <1>1 DEF Stolen

(* An item someone is about to work on has not been worked on.             *)
LEMMA AboutIsFresh ==
  ASSUME PoolInv, ClaimInv, Stolen = {}, NEW e \in Epochs, NEW i \in Items,
         NEW p \in Lanes, IsAbout(p, e, i)
  PROVE  handled[e][i] = 0
  <1>1. Tickets(e, i) \in SUBSET {e}
    <2> SUFFICES ASSUME NEW f \in Tickets(e, i) PROVE f = e
      OBVIOUS
    <2>1. f \in Epochs /\ taker[f][i] = e /\ e # 0
      BY DEF Tickets, Epochs
    <2> QED BY <2>1, NoTheft
  <1>2. Cardinality(Tickets(e, i)) <= 1
    <2>1. IsFiniteSet({e}) /\ Cardinality({e}) = 1
      BY FS_Singleton
    <2> QED BY <1>1, <2>1, FS_Subset
  <1>3. About(e, i) # {}
    BY DEF About
  <1>4. Cardinality(About(e, i)) # 0
    BY <1>3, CountsAre, FS_EmptySet
  <1>5. handled[e][i] + Cardinality(About(e, i)) <= Cardinality(Tickets(e, i)) /\ handled[e][i] \in Nat
    BY DEF ClaimInv, TicketsRight, PoolInv, PoolTypes, DataTypes
  <1> QED BY <1>2, <1>4, <1>5, CountsAre

LEMMA HandledAre ==
  ASSUME PoolInv, NEW e \in 1 .. Current
  PROVE  IsFiniteSet(Handled(e)) /\ Cardinality(Handled(e)) \in Nat
  <1>1. published[e].len - 1 \in Int /\ 0 \in Int
    BY JobsAre, Longest DEF PoolInv
  <1>2. IsFiniteSet(ItemsOf(e))
    BY <1>1, FS_Interval DEF ItemsOf
  <1>3. Handled(e) \in SUBSET ItemsOf(e)
    BY DEF Handled
  <1> QED BY <1>2, <1>3, FS_Subset, FS_CardinalityType

(* The accounts stay when nothing that counts for them moves.              *)
LEMMA AccountsKept ==
  ASSUME PoolInv, UnflushedRight, FreedRight, DebitRight,
         UNCHANGED <<published, game, held, freedStrings, debited>>,
         \A q \in Lanes : Unflushed(q)' = Unflushed(q),
         \A e \in 1 .. Current : published[e].kind # "Particles" => Handled(e)' = Handled(e),
         \A i \in Handled(Current) : i \in Handled(Current)'
  PROVE  UnflushedRight' /\ FreedRight' /\ DebitRight'
  <1>1. Current' = Current /\ job' = job
    BY DEF Current, job
  <1>2. UnflushedRight'
    BY DEF UnflushedRight
  <1>3. FreedRight'
    <2> SUFFICES ASSUME game.at \in {"epoch", "help", "quiet", "over", "release"}, job.kind = "Sweep"
                 PROVE  freedStrings = Cardinality(Flushed')
      BY <1>1 DEF FreedRight
    <2>1. PICK e \in 1 .. Current : e = Current /\ published[e] = job
      BY JobsAre DEF PoolInv
    <2>2. Handled(e)' = Handled(e) /\ Current' = e
      BY <1>1, <2>1
    <2>3. Handled(Current)' = Handled(Current)
      BY <2>1, <2>2 DEF Handled, ItemsOf
    <2>4. Flushed' = Flushed
      BY <2>3 DEF Flushed
    <2> QED BY <2>4 DEF FreedRight
  <1>4. DebitRight'
    <2> SUFFICES ASSUME NEW e \in 1 .. Current, e \notin held, published[e].kind = "Sweep"
                 PROVE  debited[e] = Cardinality(Handled(e)')
      BY <1>1 DEF DebitRight
    <2>1. Handled(e)' = Handled(e)
      OBVIOUS
    <2> QED BY <2>1 DEF DebitRight
  <1> QED BY <1>2, <1>3, <1>4

(* A lane that moves without sweeping has nothing to account for.          *)
LEMMA UnflushedKept ==
  ASSUME PoolInv, NEW p \in Lanes, Moves(p), Unflushed(p) = {}, Unflushed(p)' = {}
  PROVE  \A q \in Lanes : Unflushed(q)' = Unflushed(q)
  BY DEF Moves, Unflushed

SweepParts == WorksForTheJob /\ UnflushedRight /\ FreedRight /\ DebitRight

(* The accounts of a lane that is where it was but for one that claims.    *)
LEMMA ClaimSweeps ==
  ASSUME PoolInv, PoolInv', JoinInv, SweepParts, Stolen' = {}, NEW p \in Lanes, Claims(p)
  PROVE  SweepParts'
  <1> DEFINE mine == lane[p].job
             C == CursorEpoch
  <1>1. /\ C \in Epochs /\ mine.epoch \in 1 .. Known /\ mine.epoch \in Epochs
        /\ mine = published[mine.epoch] /\ mine.epoch \in 1 .. Current
        /\ mine.len \in 0 .. MaxLen /\ cursor \in 0 .. MaxLen /\ MaxLen \in Nat
    BY ClaimerIs
  <1>2. /\ Moves(p) /\ lane[p].at = "claim" /\ lane'[p].job = mine
        /\ UNCHANGED <<published, game, held, freedStrings, handled, debited>>
    BY DEF Claims, Moves
  <1>3. /\ lane'[p].at \in {"leave", "work", "build"}
        /\ lane'[p].at = "work" => /\ cursor < mine.len /\ mine.kind # "Particles"
                                   /\ lane'[p].next = cursor /\ lane'[p].freed = 0
    <2>1. CASE cursor >= mine.len
      BY <2>1 DEF Claims
    <2>2. CASE cursor < mine.len
      BY <2>2 DEF Claims
    <2> QED BY <1>1, <2>1, <2>2
  <1>4. Unflushed(p) = {} /\ Unflushed(p)' = {}
    <2>1. Unflushed(p) = {}
      BY <1>2 DEF Unflushed
    <2>2. CASE lane'[p].at = "work"
      <3>1. Unflushed(p)' = (cursor - 0) .. (cursor - 1)
        BY <1>3, <2>2 DEF Unflushed
      <3> QED BY <1>1, <2>1, <3>1
    <2>3. CASE lane'[p].at # "work"
      BY <1>3, <2>1, <2>3 DEF Unflushed
    <2> QED BY <2>1, <2>2, <2>3
  <1>5. UnflushedRight' /\ FreedRight' /\ DebitRight'
    <2>1. \A q \in Lanes : Unflushed(q)' = Unflushed(q)
      BY <1>2, <1>4, UnflushedKept
    <2>2. \A e : Handled(e)' = Handled(e)
      BY <1>2 DEF Handled, ItemsOf
    <2>3. \A i \in Handled(Current) : i \in Handled(Current)'
      BY <1>2 DEF Handled, ItemsOf, Current
    <2> QED BY <1>2, <2>1, <2>2, <2>3, AccountsKept DEF SweepParts
  <1>6. ASSUME lane'[p].at = "work"
        PROVE  mine.epoch = Current /\ game.at \in {"help", "look", "spent", "quiet"}
    <2>1. cursor < mine.len /\ mine.kind # "Particles" /\ cursor \in Items
      BY <1>1, <1>3, <1>6 DEF Items
    <2>2. mine.epoch = C
      <3>1. cursor \in cursor .. (cursor + Chunk - 1)
        BY <1>1, PoolAssumption
      <3>2. taker'[C][cursor] = mine.epoch
        BY <1>1, <2>1, <3>1 DEF Claims
      <3>3. \A e \in Epochs, i \in Items : taker'[e][i] \in {0, e}
        <4> SUFFICES ASSUME NEW e \in Epochs, NEW i \in Items, taker'[e][i] \notin {0, e} PROVE FALSE
          OBVIOUS
        <4>1. <<e, i>> \in Epochs \X Items /\ <<e, i>>[1] = e /\ <<e, i>>[2] = i
          OBVIOUS
        <4> QED BY <4>1 DEF Stolen
      <3> QED BY <1>1, <2>1, <3>2, <3>3 DEF Epochs
    <2>3. mine.kind \in {"Sweep", "AnimateRoots"}
      <3>1. mine.kind # "Mark"
        BY <1>2 DEF PoolInv, LaneRight
      <3>2. mine.kind \in {"Mark", "Sweep", "Particles", "AnimateRoots"}
        BY <1>1, JobsAre DEF PoolInv, JobTypes
      <3> QED BY <2>1, <3>1, <3>2
    <2>4. C \in held
      <3> SUFFICES ASSUME C \notin held PROVE FALSE
        OBVIOUS
      <3>1. C > 0 /\ Whole(C)
        BY <1>1, <2>2, <2>3 DEF Whole, Epochs
      <3>2. cursor >= published[C].len
        BY <3>1 DEF JoinInv, JoinedRight
      <3> QED BY <1>1, <2>1, <2>2, <3>2
    <2>5. C = Current
      BY <1>1, <2>1, <2>2, <2>4 DEF PoolInv, GameRight
    <2>6. game.at # "cursor" /\ ~JobLocked
      <3>1. Current \in 0 .. MaxJobs /\ MaxJobs \in Nat
        BY JobsAre, PoolAssumption DEF PoolInv
      <3>2. mine.epoch <= Known /\ Known \in 0 .. MaxJobs
        BY <1>1, LaneIs
      <3> QED BY <2>2, <2>5, <3>1, <3>2 DEF Known, JobLocked
    <2>7. job = mine
      BY <1>1, <2>2, <2>5, JobsAre DEF PoolInv
    <2>8. game.at \notin {"idle", "publish"}
      BY <2>1, <2>4, <2>5, <2>7 DEF PoolInv, GameRight
    <2>9. game.at \notin {"over", "release", "mark"}
      <3>1. game.at # "mark"
        BY <2>3, <2>7 DEF PoolInv, GameRight
      <3>2. game.at \in {"over", "release"} => cursor >= mine.len
        BY <2>3, <2>7 DEF JoinInv, QuietRight
      <3> QED BY <1>1, <2>1, <3>1, <3>2
    <2> QED BY <2>2, <2>5, <2>6, <2>8, <2>9
            DEF JobLocked, PoolInv, PoolTypes, GameTypes, Locked, Joining
  <1>7. WorksForTheJob'
    <2> SUFFICES ASSUME NEW q \in Lanes, lane'[q].at \in {"work", "flush"}
                 PROVE  lane'[q].job.epoch = Current /\ game.at \in {"help", "look", "spent", "quiet"}
      BY <1>2 DEF WorksForTheJob, Current
    <2>1. CASE q = p
      BY <1>2, <1>3, <1>6, <2>1
    <2>2. CASE q # p
      BY <1>2, <2>2 DEF Moves, SweepParts, WorksForTheJob
    <2> QED BY <2>1, <2>2
  <1> QED BY <1>5, <1>7 DEF SweepParts

LEMMA OtherLanes ==
  ASSUME WorksForTheJob, NEW p \in Lanes, Moves(p),
         lane'[p].at \in {"work", "flush"} => lane[p].at = "work" /\ lane'[p].job = lane[p].job
  PROVE  WorksForTheJob'
  BY DEF Moves, WorksForTheJob, Current

LEMMA PassSweeps ==
  ASSUME PoolInv, PoolInv', SweepParts, NEW p \in Lanes, Passes(p)
  PROVE  SweepParts'
  <1>1. /\ Moves(p) /\ Unflushed(p) = {} /\ Unflushed(p)' = {}
        /\ UNCHANGED <<published, game, held, freedStrings, handled, debited>>
        /\ lane'[p].at \notin {"work", "flush"}
    BY DEF Passes, Moves, Unflushed
  <1>2. \A q \in Lanes : Unflushed(q)' = Unflushed(q)
    BY <1>1, UnflushedKept
  <1>3. (\A e : Handled(e)' = Handled(e)) /\ \A i \in Handled(Current) : i \in Handled(Current)'
    BY <1>1 DEF Handled, ItemsOf, Current
  <1>4. UnflushedRight' /\ FreedRight' /\ DebitRight'
    BY <1>1, <1>2, <1>3, AccountsKept DEF SweepParts
  <1>5. WorksForTheJob'
    BY <1>1, OtherLanes DEF SweepParts
  <1> QED BY <1>4, <1>5 DEF SweepParts

LEMMA BuildSweeps ==
  ASSUME PoolInv, PoolInv', SweepParts, NEW p \in Lanes, Builds(p)
  PROVE  SweepParts'
  <1> DEFINE e == lane[p].job.epoch
  <1>1. /\ Moves(p) /\ Unflushed(p) = {} /\ Unflushed(p)' = {}
        /\ UNCHANGED <<published, game, held, freedStrings, debited>>
        /\ lane[p].at = "build" /\ lane'[p].at \notin {"work", "flush"}
    BY DEF Builds, Handles, Moves, Unflushed
  <1>2. published[e].kind = "Particles"
    <2>1. lane[p].job = published[e]
      BY <1>1, LaneIs
    <2>2. lane[p].job.kind = "Particles"
      BY <1>1 DEF PoolInv, LaneRight
    <2> QED BY <2>1, <2>2
  <1>3. \A q \in Lanes : Unflushed(q)' = Unflushed(q)
    BY <1>1, UnflushedKept
  <1>4. \A f \in Epochs, j \in Items :
          /\ handled'[f][j] >= handled[f][j] /\ handled[f][j] \in Nat /\ handled'[f][j] \in Nat
          /\ f # e => handled'[f][j] = handled[f][j]
    <2> SUFFICES ASSUME NEW f \in Epochs, NEW j \in Items
                 PROVE  /\ handled'[f][j] >= handled[f][j] /\ handled[f][j] \in Nat /\ handled'[f][j] \in Nat
                        /\ f # e => handled'[f][j] = handled[f][j]
      OBVIOUS
    <2>1. handled[f][j] \in Nat
      BY DEF PoolInv, PoolTypes, DataTypes
    <2>2. handled'[f][j] = IF f = e /\ j = lane[p].next THEN handled[f][j] + 1 ELSE handled[f][j]
      BY DEF Builds, Handles
    <2> QED BY <2>1, <2>2
  <1>5. \A f \in 1 .. Current : published[f].kind # "Particles" => Handled(f)' = Handled(f)
    <2> SUFFICES ASSUME NEW f \in 1 .. Current, published[f].kind # "Particles" PROVE Handled(f)' = Handled(f)
      OBVIOUS
    <2>1. f # e /\ f \in Epochs /\ \A i \in ItemsOf(f) : i \in Items
      BY <1>2, ItemsAre DEF ItemsFit
    <2> QED BY <1>1, <1>4, <2>1 DEF Handled, ItemsOf
  <1>6. \A i \in Handled(Current) : i \in Handled(Current)'
    <2>1. PICK f \in 1 .. Current : f = Current
      <3>1. lane[p].job.epoch \in 1 .. Known /\ Known <= Current /\ Known \in 0 .. MaxJobs
        BY <1>1, LaneIs
      <3>2. Current \in 0 .. MaxJobs /\ MaxJobs \in Nat
        BY JobsAre, PoolAssumption DEF PoolInv
      <3> QED BY <3>1, <3>2
    <2>2. f \in Epochs /\ \A i \in ItemsOf(f) : i \in Items
      BY ItemsAre DEF ItemsFit
    <2>3. \A i \in ItemsOf(f) : handled[f][i] > 0 => handled'[f][i] > 0
      BY <1>4, <2>2
    <2>4. Current' = f /\ \A i : i \in ItemsOf(f)' <=> i \in ItemsOf(f)
      BY <1>1, <2>1 DEF ItemsOf, Current
    <2> QED BY <2>1, <2>3, <2>4 DEF Handled, ItemsOf
  <1>7. UnflushedRight' /\ FreedRight' /\ DebitRight'
    BY <1>1, <1>3, <1>5, <1>6, AccountsKept DEF SweepParts
  <1>8. WorksForTheJob'
    BY <1>1, OtherLanes DEF SweepParts
  <1> QED BY <1>7, <1>8 DEF SweepParts

LEMMA WorkSweeps ==
  ASSUME PoolInv, PoolInv', ClaimInv, SweepParts, Stolen = {}, NEW p \in Lanes, Works(p)
  PROVE  SweepParts'
  <1>0. PICK e \in Epochs, i \in Items : e = lane[p].job.epoch /\ i = lane[p].next
    BY DEF Works, Handles
  <1>1. /\ Moves(p) /\ lane[p].at = "work" /\ lane'[p].job = lane[p].job
        /\ lane'[p].next = i + 1 /\ lane'[p].end = lane[p].end
        /\ UNCHANGED <<published, game, held, freedStrings, debited>>
        /\ lane'[p].freed = lane[p].freed + IF handled[e][i] = 0 THEN 1 ELSE 0
        /\ lane'[p].at = IF i + 1 < lane[p].end THEN "work"
                         ELSE IF lane[p].job.kind = "Sweep" THEN "flush" ELSE "lower"
    BY <1>0 DEF Works, Handles, Moves
  <1>2. /\ e = Current /\ game.at \in {"help", "look", "spent", "quiet"}
    BY <1>0, <1>1 DEF SweepParts, WorksForTheJob
  <1>3. /\ Current > 0 /\ Current \in held /\ Current' = Current /\ job' = job
        /\ job = published[e] /\ lane[p].job = job /\ e \in 1 .. Current
    <2>1. Current > 0 /\ Current \in held
      BY <1>2 DEF PoolInv, GameRight, Joining
    <2>2. lane[p].job = published[e]
      BY <1>0, <1>1, LaneIs
    <2> QED BY <1>1, <1>2, <2>1, <2>2, JobsAre DEF PoolInv, Current, job
  <1>4. /\ i < lane[p].end /\ lane[p].end <= lane[p].job.len /\ lane[p].freed <= i
        /\ i \in Nat /\ lane[p].end \in Nat /\ lane[p].freed \in Nat /\ lane[p].job.len \in Nat
        /\ lane[p].job.kind \in {"Sweep", "AnimateRoots"}
    <2>1. /\ lane[p].at # "parked" /\ lane[p].job.len \in 0 .. MaxLen
          /\ i \in 0 .. MaxLen /\ lane[p].end \in 0 .. MaxLen
          /\ lane[p].freed \in 0 .. Chunk
      BY <1>0, <1>1, LaneIs
    <2>2. MaxLen \in Nat /\ Chunk \in Nat
      BY Longest, PoolAssumption
    <2>3. LaneRight(p)
      BY DEF PoolInv
    <2>4. /\ i < lane[p].end /\ lane[p].end <= lane[p].job.len /\ lane[p].freed <= i
          /\ lane[p].job.kind \in {"Sweep", "AnimateRoots"}
      BY <1>0, <1>1, <2>3 DEF LaneRight
    <2> QED BY <2>1, <2>2, <2>4
  <1>5. handled[e][i] = 0
    <2>1. IsAbout(p, e, i)
      BY <1>0, <1>1, <1>4 DEF IsAbout
    <2> QED BY <1>1, <2>1, AboutIsFresh
  <1>6. lane'[p].next = i + 1 /\ lane'[p].freed = lane[p].freed + 1
    BY <1>0, <1>1, <1>5
  <1>7. i \in ItemsOf(e)
    BY <1>1, <1>3, <1>4, ItemsAre DEF ItemsFit
  <1>8. \A f \in Epochs, j \in Items :
          handled'[f][j] = IF f = e /\ j = i THEN handled[f][j] + 1 ELSE handled[f][j]
    BY <1>0 DEF Works, Handles
  <1>9. \A f \in 1 .. Current : f # e => Handled(f)' = Handled(f)
    <2> SUFFICES ASSUME NEW f \in 1 .. Current, f # e PROVE Handled(f)' = Handled(f)
      OBVIOUS
    <2>1. f \in Epochs /\ \A j \in ItemsOf(f) : j \in Items
      BY ItemsAre DEF ItemsFit
    <2> QED BY <1>1, <1>8, <2>1 DEF Handled, ItemsOf
  <1>10. Handled(e)' = Handled(e) \cup {i}
    <2>1. \A j \in ItemsOf(e) : j \in Items /\ handled[e][j] \in Nat
      BY <1>1, <1>3, ItemsAre DEF ItemsFit, PoolInv, PoolTypes, DataTypes
    <2>2. \A j \in ItemsOf(e) : handled'[e][j] > 0 <=> j = i \/ handled[e][j] > 0
      BY <1>1, <1>5, <1>8, <2>1
    <2>3. \A j : j \in ItemsOf(e)' <=> j \in ItemsOf(e)
      BY <1>1 DEF ItemsOf
    <2> QED BY <1>7, <2>2, <2>3 DEF Handled, ItemsOf
  <1>11. /\ Handled(Current)' = Handled(e)' /\ Handled(Current) = Handled(e)
         /\ i \notin Handled(e)
    BY <1>2, <1>3, <1>5 DEF Handled, ItemsOf
  <1>12. \A q \in Lanes \ {p} : Unflushed(q)' = Unflushed(q)
    BY <1>1 DEF Moves, Unflushed
  <1>13. Unflushed(p) = (i - lane[p].freed) .. (i - 1)
    BY <1>0, <1>1 DEF Unflushed
  <1>14. Unflushed(p)' = {} \/ Unflushed(p)' = Unflushed(p) \cup {i}
    <2>1. CASE lane'[p].at \in {"work", "flush"}
      <3>1. Unflushed(p)' = (i + 1 - (lane[p].freed + 1)) .. (i + 1 - 1)
        BY <1>4, <1>6, <2>1 DEF Unflushed
      <3>2. \A j : j \in (i + 1 - (lane[p].freed + 1)) .. (i + 1 - 1) <=>
                    j \in (i - lane[p].freed) .. (i - 1) \/ j = i
        BY <1>4
      <3> QED BY <1>13, <3>1, <3>2
    <2>2. CASE lane'[p].at \notin {"work", "flush"}
      BY <2>2 DEF Unflushed
    <2> QED BY <2>1, <2>2
  <1>15. job.kind = "Sweep" => Unflushed(p)' = Unflushed(p) \cup {i}
    <2> SUFFICES ASSUME job.kind = "Sweep" PROVE i \in Unflushed(p)'
      BY <1>14
    <2>1. lane'[p].at \in {"work", "flush"}
      BY <1>1, <1>3
    <2>2. Unflushed(p)' = (i + 1 - (lane[p].freed + 1)) .. (i + 1 - 1)
      BY <1>4, <1>6, <2>1 DEF Unflushed
    <2>3. i \in Nat /\ lane[p].freed \in Nat
      BY <1>4
    <2> QED BY <2>2, <2>3
  <1>16. UnflushedRight /\ FreedRight /\ DebitRight
    BY DEF SweepParts
  <1>17. UnflushedRight'
    <2>1. \A q \in Lanes : \A j \in Unflushed(q)' : j \in Handled(Current)'
      BY <1>10, <1>11, <1>12, <1>14, <1>16 DEF UnflushedRight
    <2>2. \A q \in Lanes : i \notin Unflushed(q)
      BY <1>11, <1>16 DEF UnflushedRight
    <2>3. \A q, r \in Lanes : q # r => Unflushed(q)' \cap Unflushed(r)' = {}
      <3> SUFFICES ASSUME NEW q \in Lanes, NEW r \in Lanes, q # r
                   PROVE  Unflushed(q)' \cap Unflushed(r)' = {}
        OBVIOUS
      <3>1. Unflushed(q) \cap Unflushed(r) = {} /\ i \notin Unflushed(q) /\ i \notin Unflushed(r)
        BY <1>16, <2>2 DEF UnflushedRight
      <3> QED BY <1>12, <1>14, <3>1
    <2> QED BY <2>1, <2>3 DEF UnflushedRight
  <1>18. FreedRight'
    <2> SUFFICES ASSUME game.at \in {"epoch", "help", "quiet", "over", "release"}, job.kind = "Sweep"
                 PROVE  freedStrings = Cardinality(Flushed')
      BY <1>1, <1>3 DEF FreedRight
    <2>1. \A j : j \in Flushed' <=> j \in Flushed
      <3>1. \A j : j \in Flushed' <=>
               (j \in Handled(e) \/ j = i) /\ \A q \in Lanes : j \notin Unflushed(q)'
        BY <1>10, <1>11 DEF Flushed
      <3>2. \A j : j \in Flushed <=> j \in Handled(e) /\ \A q \in Lanes : j \notin Unflushed(q)
        BY <1>11 DEF Flushed
      <3>3. i \notin Flushed /\ i \in Unflushed(p)'
        BY <1>11, <1>15, <3>2
      <3>4. \A q \in Lanes : \A j : j # i => (j \in Unflushed(q)' <=> j \in Unflushed(q))
        BY <1>12, <1>15
      <3> QED BY <3>1, <3>2, <3>3, <3>4
    <2>2. Flushed' = Flushed
      BY <2>1 DEF Flushed
    <2> QED BY <1>16, <2>2 DEF FreedRight
  <1>19. DebitRight'
    <2> SUFFICES ASSUME NEW f \in 1 .. Current, f \notin held, published[f].kind = "Sweep"
                 PROVE  debited[f] = Cardinality(Handled(f)')
      BY <1>1, <1>3 DEF DebitRight
    <2>1. f # e
      BY <1>2, <1>3
    <2> QED BY <1>9, <1>16, <2>1 DEF DebitRight
  <1>20. WorksForTheJob'
    BY <1>1, OtherLanes DEF SweepParts
  <1> QED BY <1>17, <1>18, <1>19, <1>20 DEF SweepParts

LEMMA FlushSweeps ==
  ASSUME PoolInv, PoolInv', SweepParts, NEW p \in Lanes, Flushes(p)
  PROVE  SweepParts'
  <1>1. /\ Moves(p) /\ lane[p].at = "flush" /\ lane'[p].at = "lower"
        /\ UNCHANGED <<published, game, held, handled, debited>>
        /\ freedStrings' = freedStrings + lane[p].freed
    BY DEF Flushes, Goes, Moves
  <1>2. /\ lane[p].job.epoch = Current /\ game.at \in {"help", "look", "spent", "quiet"}
        /\ lane[p].job.kind = "Sweep" /\ lane[p].job = published[Current]
        /\ lane[p].freed <= lane[p].next /\ lane[p].freed \in Nat /\ lane[p].next \in Nat
    <2>1. lane[p].job.epoch = Current /\ game.at \in {"help", "look", "spent", "quiet"}
      BY <1>1 DEF SweepParts, WorksForTheJob
    <2>2. lane[p].job.kind = "Sweep" /\ lane[p].freed <= lane[p].next
      BY <1>1 DEF PoolInv, LaneRight
    <2> QED BY <1>1, <2>1, <2>2, LaneIs, Longest, PoolAssumption
  <1>3. /\ Current > 0 /\ job = lane[p].job /\ Current' = Current /\ job' = job
    BY <1>1, <1>2, JobsAre DEF PoolInv, GameRight, Joining, Current, job
  <1>4. game.at \in {"help", "quiet"}
    BY <1>2, <1>3 DEF PoolInv, GameRight
  <1>5. UnflushedRight /\ freedStrings = Cardinality(Flushed) /\ DebitRight
    BY <1>2, <1>3, <1>4 DEF SweepParts, FreedRight
  <1>6. (\A e : Handled(e)' = Handled(e)) /\ Handled(Current)' = Handled(Current)
    BY <1>1, <1>3 DEF Handled, ItemsOf
  <1>7. Unflushed(p)' = {} /\ \A q \in Lanes \ {p} : Unflushed(q)' = Unflushed(q)
    BY <1>1 DEF Moves, Unflushed
  <1>8. UnflushedRight'
    BY <1>5, <1>6, <1>7 DEF UnflushedRight
  <1>9. Flushed' = Flushed \cup Unflushed(p) /\ Flushed \cap Unflushed(p) = {}
    <2>1. \A j : j \in Flushed' <=> j \in Handled(Current) /\ \A q \in Lanes \ {p} : j \notin Unflushed(q)
      BY <1>6, <1>7 DEF Flushed
    <2>2. \A j \in Unflushed(p) : j \in Handled(Current) /\ \A q \in Lanes \ {p} : j \notin Unflushed(q)
      BY <1>5 DEF UnflushedRight
    <2>3. \A j : j \in Flushed <=> j \in Handled(Current) /\ \A q \in Lanes : j \notin Unflushed(q)
      BY DEF Flushed
    <2> QED BY <2>1, <2>2, <2>3
  <1>10. Cardinality(Unflushed(p)) = lane[p].freed /\ IsFiniteSet(Unflushed(p))
    <2>1. Unflushed(p) = (lane[p].next - lane[p].freed) .. (lane[p].next - 1)
      BY <1>1 DEF Unflushed
    <2>2. lane[p].next - lane[p].freed \in Int /\ lane[p].next - 1 \in Int
      BY <1>2
    <2> DEFINE m == lane[p].next - lane[p].freed
               n == lane[p].next - 1
    <2>3. m \in Int /\ n \in Int /\ Unflushed(p) = m .. n
      BY <2>1, <2>2
    <2>4. n - m + 1 = lane[p].freed /\ (m > n <=> lane[p].freed = 0)
      BY <1>2
    <2> HIDE DEF m, n
    <2>5. IsFiniteSet(m .. n) /\ Cardinality(m .. n) = IF m > n THEN 0 ELSE n - m + 1
      BY <2>3, FS_Interval
    <2> QED BY <2>3, <2>4, <2>5
  <1>11. IsFiniteSet(Flushed)
    <2>1. PICK e \in 1 .. Current : e = Current
      BY <1>3, JobsAre DEF PoolInv
    <2>2. Flushed \in SUBSET Handled(e)
      BY <2>1 DEF Flushed
    <2> QED BY <2>2, HandledAre, FS_Subset
  <1>12. Cardinality(Flushed') = freedStrings'
    <2>1. Cardinality(Flushed \cup Unflushed(p)) =
            Cardinality(Flushed) + Cardinality(Unflushed(p)) - Cardinality(Flushed \cap Unflushed(p))
      BY <1>10, <1>11, FS_Union
    <2>2. Cardinality(Flushed \cap Unflushed(p)) = 0
      BY <1>9, FS_EmptySet
    <2>3. freedStrings \in Nat
      BY DEF PoolInv, PoolTypes, DataTypes
    <2> QED BY <1>1, <1>2, <1>5, <1>9, <1>10, <2>1, <2>2, <2>3
  <1>13. FreedRight' /\ DebitRight'
    BY <1>1, <1>3, <1>5, <1>6, <1>12 DEF FreedRight, DebitRight
  <1>14. WorksForTheJob'
    BY <1>1, OtherLanes DEF SweepParts
  <1> QED BY <1>8, <1>13, <1>14 DEF SweepParts

(* Nobody sweeps while the game thread is between jobs.                    *)
LEMMA NothingUnflushed ==
  ASSUME WorksForTheJob, game.at \notin {"help", "look", "spent", "quiet"}
  PROVE  \A p \in Lanes : lane[p].at \notin {"work", "flush"} /\ Unflushed(p) = {}
  BY DEF WorksForTheJob, Unflushed

LEMMA JoiningLanes ==
  ASSUME Joins \/ lane' = lane
  PROVE  \A q \in Lanes :
           /\ Unflushed(q)' = Unflushed(q)
           /\ lane'[q].at \in {"work", "flush"} =>
                lane[q].at \in {"work", "flush"} /\ lane'[q].job = lane[q].job
  <1> SUFFICES ASSUME NEW q \in Lanes
               PROVE  /\ Unflushed(q)' = Unflushed(q)
                      /\ lane'[q].at \in {"work", "flush"} =>
                           lane[q].at \in {"work", "flush"} /\ lane'[q].job = lane[q].job
    OBVIOUS
  <1>1. lane'[q] = lane[q] \/ (lane[q].at = "parked" /\ lane'[q].at = "raise")
    BY DEF Joins, Lanes
  <1> QED BY <1>1 DEF Unflushed

LEMMA JoinSweeps ==
  ASSUME PoolInv, PoolInv', SweepParts, JoinMoves
  PROVE  SweepParts'
  <1>1. /\ UNCHANGED <<published, active, freedStrings, held, handled, debited>>
        /\ game.at \in Joining /\ game \in GameTypes /\ game' \in GameTypes /\ Joins
        /\ job' = job /\ Current' = Current
    BY JoinMovesAre DEF PoolInv, PoolTypes, job, Current
  <1>2. \A where : GameGoes(where) => game'.at = where
    BY <1>1 DEF GameGoes, GameTypes
  <1>3. \A q \in Lanes : Unflushed(q)' = Unflushed(q)
    BY <1>1, JoiningLanes
  <1>4. /\ \A e : Handled(e)' = Handled(e)
        /\ Handled(Current)' = Handled(Current) /\ Flushed' = Flushed
    BY <1>1, <1>3 DEF Handled, ItemsOf, Flushed
  <1>5. active = 0 => \A p \in Lanes : lane[p].at \notin {"work", "flush"}
    <2> SUFFICES ASSUME active = 0 PROVE \A p \in Lanes : lane[p].at \notin {"work", "flush"}
      OBVIOUS
    <2>1. IsFiniteSet(Busy) /\ Cardinality(Busy) = 0
      BY LanesAre DEF PoolInv, ActiveCounts, Busy
    <2>2. Busy = {}
      BY <2>1, FS_EmptySet
    <2> QED BY <2>2 DEF Busy, ActiveAts
  <1>6. WorksForTheJob'
    <2> SUFFICES ASSUME NEW p \in Lanes, lane'[p].at \in {"work", "flush"}
                 PROVE  lane'[p].job.epoch = Current /\ game'.at \in {"help", "look", "spent", "quiet"}
      BY <1>1 DEF WorksForTheJob
    <2>1. lane[p].at \in {"work", "flush"} /\ lane'[p].job = lane[p].job
      BY <1>1, JoiningLanes
    <2>2. lane[p].job.epoch = Current /\ game.at \in {"help", "look", "spent", "quiet"}
      BY <2>1 DEF SweepParts, WorksForTheJob
    <2>3. active # 0
      BY <1>5, <2>1
    <2>4. job.kind # "Particles"
      <3>1. lane[p].job.kind \in {"Sweep", "AnimateRoots"} /\ lane[p].job = published[Current]
        BY <2>1, <2>2, LaneIs DEF PoolInv, LaneRight
      <3>2. Current > 0
        BY <1>1 DEF PoolInv, GameRight
      <3> QED BY <3>1, <3>2, JobsAre DEF PoolInv
    <2>5. ~LookQuiet /\ ~MarkEnds /\ ~JoinTimesOut /\ ~RaiseDone
      BY <2>2, <2>3, <2>4 DEF LookQuiet, MarkEnds, JoinTimesOut, RaiseDone
    <2>6. game'.at \in {"help", "look", "spent", "quiet"}
      <3>1. CASE NodeReady
        BY <1>1, <2>2, <3>1 DEF NodeReady, GameTypes
      <3>2. CASE HelpEnds \/ NodeNotReady \/ LookSpent \/ Help \/ LookAgain
        BY <1>2, <3>2 DEF HelpEnds, NodeNotReady, LookSpent, Help, LookAgain
      <3> QED BY <2>5, <3>1, <3>2 DEF JoinMoves
    <2> QED BY <2>1, <2>2, <2>6
  <1>7. FreedRight'
    <2> SUFFICES ASSUME game'.at \in {"epoch", "help", "quiet", "over", "release"}, job.kind = "Sweep"
                 PROVE  game.at \in {"epoch", "help", "quiet", "over", "release"}
      BY <1>1, <1>4 DEF FreedRight, SweepParts
    <2>1. game.at \notin {"mark", "look", "spent"}
      BY DEF PoolInv, GameRight
    <2> QED BY <1>1, <2>1 DEF Joining
  <1>8. UnflushedRight' /\ DebitRight'
    BY <1>1, <1>3, <1>4 DEF SweepParts, UnflushedRight, DebitRight
  <1> QED BY <1>6, <1>7, <1>8 DEF SweepParts

LEMMA OpenSweeps ==
  ASSUME PoolInv, PoolInv', ClaimInv, SweepParts,
         Begin \/ Publish \/ ResetCursor \/ ResetFreed \/ StoreEpoch \/ Release
  PROVE  SweepParts'
  <1>1. /\ UNCHANGED handled /\ (Joins \/ lane' = lane)
        /\ game.at \in {"idle", "publish", "cursor", "freed", "epoch", "release"}
    BY StoreEpochIs DEF Begin, Publish, ResetCursor, ResetFreed, StoreEpoch, Release, poolVars
  <1>2. \A p \in Lanes : /\ lane[p].at \notin {"work", "flush"} /\ Unflushed(p) = {}
                         /\ lane'[p].at \notin {"work", "flush"} /\ Unflushed(p)' = {}
    BY <1>1, NothingUnflushed, JoiningLanes DEF SweepParts
  <1>3. WorksForTheJob' /\ UnflushedRight'
    BY <1>2 DEF WorksForTheJob, UnflushedRight
  <1>4. Flushed = Handled(Current) /\ Flushed' = Handled(Current)'
    BY <1>2 DEF Flushed
  <1>5. CASE Publish
    <2>1. /\ game'.at = "cursor" /\ Current' = Current + 1 /\ held' = held \cup {Current'}
          /\ debited' = debited /\ Current \in Nat
          /\ \A e \in 1 .. Current : published'[e] = published[e]
      BY <1>5, PublishIs
    <2>2. DebitRight'
      <3> SUFFICES ASSUME NEW e \in 1 .. Current', e \notin held', published'[e].kind = "Sweep"
                   PROVE  debited[e] = Cardinality(Handled(e)')
        BY <2>1 DEF DebitRight
      <3>1. e \in 1 .. Current /\ e \notin held /\ published'[e] = published[e]
        BY <2>1
      <3>2. Handled(e)' = Handled(e)
        BY <1>1, <3>1 DEF Handled, ItemsOf
      <3> QED BY <3>1, <3>2 DEF SweepParts, DebitRight
    <2> QED BY <1>3, <2>1, <2>2 DEF SweepParts, FreedRight
  <1>6. CASE Release
    <2>1. /\ game.at = "release" /\ game'.at = "idle" /\ held' = held \ {Current} /\ published' = published
          /\ debited' = IF job.kind = "Sweep" THEN [debited EXCEPT ![Current] = freedStrings] ELSE debited
          /\ Current' = Current
      BY <1>6, JobsAre DEF Release, poolVars, PoolInv, Current
    <2>2. /\ Current > 0 /\ job = published[Current] /\ Current \in 1 .. Current
          /\ debited \in [Epochs -> Nat] /\ Current \in Epochs
      <3>1. PICK e \in 1 .. Current : e = Current
        BY <2>1, JobsAre DEF PoolInv, GameRight, Joining
      <3> QED BY <3>1, ItemsAre, JobsAre DEF ItemsFit, PoolInv, PoolTypes, DataTypes
    <2>3. \A e : Handled(e)' = Handled(e)
      BY <1>1, <2>1 DEF Handled, ItemsOf
    <2>4. job.kind = "Sweep" => freedStrings = Cardinality(Handled(Current))
      BY <1>4, <2>1 DEF SweepParts, FreedRight
    <2>5. DebitRight'
      <3> SUFFICES ASSUME NEW e \in 1 .. Current, e \notin held', published[e].kind = "Sweep"
                   PROVE  debited'[e] = Cardinality(Handled(e))
        BY <2>1, <2>3 DEF DebitRight
      <3>1. CASE e = Current
        BY <2>1, <2>2, <2>4, <3>1
      <3>2. CASE e # Current
        <4>1. e \notin held /\ debited'[e] = debited[e]
          BY <2>1, <2>2, <3>2
        <4> QED BY <4>1 DEF SweepParts, DebitRight
      <3> QED BY <3>1, <3>2
    <2> QED BY <1>3, <2>1, <2>5 DEF SweepParts, FreedRight
  <1>7. CASE Begin \/ ResetCursor \/ ResetFreed \/ StoreEpoch
    <2>1. UNCHANGED <<published, held, debited>> /\ Current' = Current /\ job' = job
      BY <1>7, StoreEpochIs DEF Begin, ResetCursor, ResetFreed, Current, job
    <2>2. (\A e : Handled(e)' = Handled(e)) /\ Handled(Current)' = Handled(Current)
      BY <1>1, <2>1 DEF Handled, ItemsOf
    <2>3. DebitRight'
      BY <2>1, <2>2 DEF SweepParts, DebitRight
    <2>4. FreedRight'
      <3>1. CASE Begin
        <4>1. game'.at = "publish"
          BY <3>1, Going DEF Begin
        <4> QED BY <4>1 DEF FreedRight
      <3>2. CASE ResetCursor
        <4>1. game'.at = "freed"
          BY <3>2, ResetCursorStep
        <4> QED BY <4>1 DEF FreedRight
      <3>3. CASE ResetFreed
        <4>1. freedStrings' = 0 /\ game.at = "freed"
          BY <3>3 DEF ResetFreed
        <4>2. PICK e \in 1 .. Current : e = Current
          BY <4>1, JobsAre DEF PoolInv, GameRight, Locked
        <4>3. Known < e
          BY <4>1, <4>2, JobsAre DEF Known, JobLocked, PoolInv
        <4>4. Handled(e) = {}
          <5> SUFFICES ASSUME NEW i \in ItemsOf(e) PROVE ~(handled[e][i] > 0)
            BY DEF Handled
          <5>1. e \in Epochs /\ i \in Items
            BY ItemsAre DEF ItemsFit
          <5>2. Tickets(e, i) = {}
            <6> SUFFICES ASSUME NEW f \in Epochs, taker[f][i] = e PROVE FALSE
              BY DEF Tickets
            <6>1. taker[f][i] <= Known
              BY <5>1 DEF ClaimInv, CursorRight
            <6>2. Known \in 0 .. MaxJobs /\ Known <= Current
              BY LanesAre, LaneIs
            <6> QED BY <4>3, <6>1, <6>2
          <5>3. handled[e][i] + Cardinality(About(e, i)) <= Cardinality(Tickets(e, i)) /\ handled[e][i] \in Nat
            BY <5>1 DEF ClaimInv, TicketsRight, PoolInv, PoolTypes, DataTypes
          <5> QED BY <5>2, <5>3, CountsAre, FS_EmptySet
        <4>5. Handled(Current) = {}
          BY <4>2, <4>4
        <4>6. Cardinality(Flushed') = 0
          BY <1>4, <2>2, <4>5, FS_EmptySet
        <4> QED BY <4>1, <4>6 DEF FreedRight
      <3>4. CASE StoreEpoch
        <4>1. game.at = "epoch" /\ freedStrings' = freedStrings
          BY <3>4, StoreEpochIs
        <4> QED BY <1>4, <2>1, <2>2, <4>1 DEF SweepParts, FreedRight
      <3> QED BY <1>7, <3>1, <3>2, <3>3, <3>4
    <2> QED BY <1>3, <2>3, <2>4 DEF SweepParts
  <1> QED BY <1>5, <1>6, <1>7

LEMMA SweepInvInit == Init => SweepInv
  <1> SUFFICES ASSUME Init PROVE SweepParts
    BY DEF SweepInv, SweepParts
  <1>1. Current = 0 /\ game.at = "idle" /\ \A p \in Lanes : lane[p].at = "parked"
    BY EmptySeq, ParkedIs DEF Init, Current
  <1>2. \A p \in Lanes : Unflushed(p) = {}
    BY <1>1 DEF Unflushed
  <1> QED BY <1>1, <1>2 DEF SweepParts, WorksForTheJob, UnflushedRight, FreedRight, DebitRight

LEMMA SweepInvStep ==
  PoolInv /\ PoolInv' /\ ClaimInv /\ JoinInv /\ SweepInv /\ [Next]_vars => SweepInv'
  <1> SUFFICES ASSUME PoolInv, PoolInv', ClaimInv, JoinInv, SweepInv, [Next]_vars, Stolen' = {}
               PROVE  SweepParts'
    BY DEF SweepInv, SweepParts
  <1>0. Stolen = {} /\ SweepParts
    BY ClaimInvStep, TheftStays DEF SweepInv, SweepParts
  <1>1. CASE UNCHANGED vars
    <2>1. UNCHANGED <<published, game, lane, held, handled, debited, freedStrings>>
      BY <1>1 DEF vars, poolVars
    <2>2. /\ Current' = Current /\ job' = job
          /\ (\A q : Unflushed(q)' = Unflushed(q)) /\ \A e : Handled(e)' = Handled(e)
      BY <2>1 DEF Current, job, Unflushed, Handled, ItemsOf
    <2>3. Handled(Current)' = Handled(Current) /\ Flushed' = Flushed
      BY <2>1, <2>2 DEF Handled, ItemsOf, Flushed
    <2> QED BY <1>0, <2>1, <2>2, <2>3
            DEF SweepParts, WorksForTheJob, UnflushedRight, FreedRight, DebitRight
  <1>2. CASE Next
    <2>1. ASSUME NEW p \in Lanes, LaneStep(p) \/ (p \in Workers /\ WorkerStep(p))
          PROVE  SweepParts'
      <3>1. Claims(p) \/ Works(p) \/ Builds(p) \/ Flushes(p) \/ Passes(p)
        BY <2>1, LaneSteps
      <3> QED BY <1>0, <3>1, ClaimSweeps, WorkSweeps, BuildSweeps, FlushSweeps, PassSweeps
    <2> QED BY <1>0, <1>2, <2>1, Steps, JoinSweeps, OpenSweeps
  <1> QED BY <1>1, <1>2

(* What a sweep debits is every string it freed, as long as no participant *)
(* of another job took one of its tickets: no accounting is flushed after  *)
(* the game thread has read it.                                            *)
THEOREM SweepIsDebited == Spec => []FreedIsDebited
  <1>1. PoolInv /\ SweepInv => FreedIsDebited
    BY DEF SweepInv, DebitRight, FreedIsDebited, Joined, Handled, Current
  <1>2. Spec => []SweepInv
    BY PoolInvStep, PoolAlways, ClaimsAlways, JoinsAlways, SweepInvInit, SweepInvStep, PTL DEF Spec
  <1> QED BY <1>1, <1>2, PoolAlways, PTL
=============================================================================
