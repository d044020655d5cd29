----------------------------- MODULE WorkerPool -----------------------------
(* The worker pool of wow_turbo (win/hooks.rs): GcParShared, gc_par_begin,  *)
(* gc_par_worker and the participants that claim chunks off the shared      *)
(* cursor: the string-table sweep, the particle build and the bone          *)
(* animation.  The game thread publishes one job after another, takes part  *)
(* in some, joins each and lets its buffers go.                             *)
(*                                                                          *)
(* One action is one atomic operation on the shared state.  A mark job is   *)
(* here only what it does to the workers (they stay until done is raised);  *)
(* GcMark models its propagation.  A bucket, a root or a particle entry is  *)
(* an item; a swept bucket frees one string.                                *)
EXTENDS Naturals, FiniteSets, Sequences

CONSTANTS
  Workers,
  Game,       \* the game thread
  Kinds,      \* the kinds of job that are published
  MaxJobs,    \* bound: jobs published
  Lens,       \* the numbers of items of a job
  Capacity,   \* entries of the table behind a particle job's view
  Chunk       \* items claimed at a time

ASSUME PoolAssumption ==
  /\ IsFiniteSet(Workers) /\ Game \notin Workers
  /\ Kinds \subseteq {"Mark", "Sweep", "Particles", "AnimateRoots"}
  /\ MaxJobs \in Nat \ {0} /\ Chunk \in Nat \ {0}
  /\ Lens \subseteq Nat /\ Capacity \in Lens
  /\ \E n \in Lens : \A m \in Lens : m <= n

Lanes == Workers \cup {Game}
Epochs == 1 .. MaxJobs
MaxLen == CHOOSE n \in Lens : \A m \in Lens : m <= n
Items == 0 .. (MaxLen - 1)

VARIABLES
  published,     \* history: the jobs so far; job is the last of them
  curEpoch, cursor, done, active, freedStrings,
  seen,          \* the epoch each worker has last copied
  lane,          \* what each participant is doing, and for which job
  game,          \* what the game thread is doing
  view,          \* the PqJobView of each particle job
  held,          \* the jobs whose buffers the game thread keeps alive
  handled,       \* history: how often each item of each job was worked on
  taker,         \* history: for which job each ticket of the cursor was used
  debited        \* history: what each sweep took off strt.nuse

poolVars == <<published, curEpoch, cursor, done, active, freedStrings, seen>>
vars == <<poolVars, lane, game, view, held, handled, taker, debited>>

(* GcJob::mark(0), what the pool is created with.                           *)
NoJob == [epoch |-> 0, kind |-> "Mark", len |-> 0]

job == IF published = <<>> THEN NoJob ELSE published[Len(published)]

JobTypes == [epoch : 0 .. MaxJobs, kind : {"Mark", "Sweep", "Particles", "AnimateRoots"},
             len : Lens \cup {0}]

Parked == [at |-> "parked", job |-> NoJob, next |-> 0, end |-> 0, freed |-> 0]

Init ==
  /\ published = <<>> /\ curEpoch = 0 /\ cursor = 0
  /\ done = FALSE /\ active = 0 /\ freedStrings = 0
  /\ seen = [w \in Workers |-> 0]
  /\ lane = [p \in Lanes |-> Parked]
  /\ game = [at |-> "idle", node |-> 0]
  /\ view = [e \in Epochs |->
               [scanClaimed |-> FALSE, ready |-> 0, total |-> 0, scanDone |-> FALSE]]
  /\ held = {}
  /\ handled = [e \in Epochs |-> [i \in Items |-> 0]]
  /\ taker = [e \in Epochs |-> [i \in Items |-> 0]]
  /\ debited = [e \in Epochs |-> 0]

At(p, where) == lane[p].at = where

Goto(p, where) == lane' = [lane EXCEPT ![p].at = where]

-----------------------------------------------------------------------------
(* gc_par_worker                                                           *)

(* The job mutex is held from the write of the spec to that of cur_epoch.  *)
JobLocked == game.at \in {"cursor", "freed", "epoch"}

(* Wait for a new epoch and copy the spec.                                 *)
Wake(w) ==
  /\ At(w, "parked") /\ ~JobLocked /\ job.epoch # seen[w]
  /\ seen' = [seen EXCEPT ![w] = job.epoch]
  /\ lane' = [lane EXCEPT ![w] =
                [Parked EXCEPT !.job = job, !.at = IF job.kind = "Mark" THEN "spin" ELSE "raise"]]
  /\ UNCHANGED <<published, curEpoch, cursor, done, active, freedStrings,
                 game, view, held, handled, taker, debited>>

(* A mark participant leaves when done is raised.                          *)
SpinDone(w) ==
  /\ At(w, "spin") /\ done
  /\ lane' = [lane EXCEPT ![w] = Parked]
  /\ UNCHANGED <<poolVars, game, view, held, handled, taker, debited>>

-----------------------------------------------------------------------------
(* A claim: raise active, revalidate the epoch, take a chunk, lower active *)

Raise(p) ==
  /\ At(p, "raise")
  /\ active' = active + 1
  /\ Goto(p, "check")
  /\ UNCHANGED <<published, curEpoch, cursor, done, freedStrings, seen,
                 game, view, held, handled, taker, debited>>

Check(p) ==
  /\ At(p, "check")
  /\ Goto(p, IF curEpoch # lane[p].job.epoch THEN "leave"
             ELSE IF lane[p].job.kind = "Particles" THEN "elect" ELSE "claim")
  /\ UNCHANGED <<poolVars, game, view, held, handled, taker, debited>>

(* The first to swap scan_claimed scans.  What the swap finds in a view    *)
(* that was freed is anything.                                             *)
Elect(p) ==
  LET e == lane[p].job.epoch IN
  /\ At(p, "elect")
  /\ \E won \in IF e \in held THEN {~view[e].scanClaimed} ELSE BOOLEAN :
       /\ Goto(p, IF won THEN "scan" ELSE "claim")
       /\ view' = [view EXCEPT ![e].scanClaimed = @ \/ won]
  /\ UNCHANGED <<poolVars, game, held, handled, taker, debited>>

(* The scan streams entries out through ready.                             *)
ScanEntry(p) ==
  LET e == lane[p].job.epoch IN
  /\ At(p, "scan") /\ ~view[e].scanDone /\ view[e].ready < lane[p].job.len
  /\ view' = [view EXCEPT ![e].ready = @ + 1]
  /\ UNCHANGED <<poolVars, lane, game, held, handled, taker, debited>>

(* PqScanDone::drop: the final count, then scan_done.                      *)
ScanEnds(p) ==
  LET e == lane[p].job.epoch IN
  /\ At(p, "scan")
  /\ view' = [view EXCEPT ![e].total = view[e].ready, ![e].scanDone = TRUE]
  /\ Goto(p, "lower")
  /\ UNCHANGED <<poolVars, game, held, handled, taker, debited>>

(* The job the cursor counts for: between the write of the spec and the    *)
(* reset of the cursor it is still the one before.                         *)
CursorEpoch == IF game.at = "cursor" THEN job.epoch - 1 ELSE job.epoch

Earlier(m, n) == IF m < n THEN m ELSE n

ClaimOverlaps(p) ==
  LET mine == lane[p].job
      start == cursor
      end == Earlier(start + Chunk, mine.len) IN
  /\ At(p, "claim")
  /\ cursor' = Earlier(start + Chunk - 1, MaxLen)
  /\ taker' = [taker EXCEPT ![CursorEpoch] =
                 [i \in Items |-> IF i \in start .. (start + Chunk - 1) THEN mine.epoch
                                 ELSE @[i]]]
  /\ IF start >= mine.len
     THEN Goto(p, "leave")
     ELSE lane' = [lane EXCEPT ![p].next = start, ![p].end = end, ![p].freed = 0,
                     ![p].at = IF mine.kind = "Particles" THEN "build" ELSE "work"]
  /\ UNCHANGED <<published, curEpoch, done, active, freedStrings, seen,
                 game, view, held, handled, debited>>

(* fetch_add on the cursor.  Past the longest job its values are all the   *)
(* same to everyone, and MaxLen stands for them.                           *)
Claim(p) ==
  LET mine == lane[p].job
      start == cursor
      end == Earlier(start + Chunk, mine.len) IN
  /\ At(p, "claim")
  /\ cursor' = Earlier(start + Chunk, MaxLen)
  /\ taker' = [taker EXCEPT ![CursorEpoch] =
                 [i \in Items |-> IF i \in start .. (start + Chunk - 1) THEN mine.epoch
                                 ELSE @[i]]]
  /\ IF start >= mine.len
     THEN Goto(p, "leave")
     ELSE lane' = [lane EXCEPT ![p].next = start, ![p].end = end, ![p].freed = 0,
                     ![p].at = IF mine.kind = "Particles" THEN "build" ELSE "work"]
  /\ UNCHANGED <<published, curEpoch, done, active, freedStrings, seen,
                 game, view, held, handled, debited>>

(* The next item of the chunk: a bucket swept, a root animated.            *)
Work(p) ==
  LET e == lane[p].job.epoch
      i == lane[p].next IN
  /\ At(p, "work")
  /\ handled' = [handled EXCEPT ![e][i] = @ + 1]
  /\ lane' = [lane EXCEPT ![p].next = i + 1,
                ![p].freed = @ + IF handled[e][i] = 0 THEN 1 ELSE 0,
                ![p].at = IF i + 1 < lane[p].end THEN "work"
                          ELSE IF lane[p].job.kind = "Sweep" THEN "flush" ELSE "lower"]
  /\ UNCHANGED <<poolVars, game, view, held, taker, debited>>

(* An entry is built once the scan has published it.                       *)
BuildEntry(p) ==
  LET e == lane[p].job.epoch
      i == lane[p].next IN
  /\ At(p, "build") /\ i < view[e].ready
  /\ handled' = [handled EXCEPT ![e][i] = @ + 1]
  /\ lane' = [lane EXCEPT ![p].next = i + 1,
                ![p].at = IF i + 1 < lane[p].end THEN "build" ELSE "lower"]
  /\ UNCHANGED <<poolVars, game, view, held, taker, debited>>

(* The chunk reaches past the final count, or its 5 ms deadline passes:    *)
(* the lane leaves the job.                                                *)
BuildExhausted(p) ==
  /\ At(p, "build") /\ lane[p].next >= view[lane[p].job.epoch].ready
  /\ Goto(p, "leave")
  /\ UNCHANGED <<poolVars, game, view, held, handled, taker, debited>>

(* The accounting is flushed before active is lowered.                     *)
Flush(p) ==
  /\ At(p, "flush")
  /\ freedStrings' = freedStrings + lane[p].freed
  /\ Goto(p, "lower")
  /\ UNCHANGED <<published, curEpoch, cursor, done, active, seen,
                 game, view, held, handled, taker, debited>>

(* Around the claim loop; the game thread animates one chunk at a time.    *)
Lower(p) ==
  LET mine == lane[p].job IN
  /\ At(p, "lower")
  /\ active' = active - 1
  /\ lane' = [lane EXCEPT ![p] =
                IF p = Game /\ mine.kind = "AnimateRoots" THEN Parked
                ELSE [Parked EXCEPT !.job = mine, !.at = "raise"]]
  /\ UNCHANGED <<published, curEpoch, cursor, done, freedStrings, seen,
                 game, view, held, handled, taker, debited>>

(* Out of the claim loop.                                                  *)
Leave(p) ==
  /\ At(p, "leave")
  /\ active' = active - 1
  /\ lane' = [lane EXCEPT ![p] = Parked]
  /\ UNCHANGED <<published, curEpoch, cursor, done, freedStrings, seen,
                 game, view, held, handled, taker, debited>>
-----------------------------------------------------------------------------
(* gc_par_begin                                                            *)

GameGoes(where) == game' = [game EXCEPT !.at = where]

Begin ==
  /\ game.at = "idle" /\ Len(published) < MaxJobs
  /\ done' = FALSE
  /\ GameGoes("publish")
  /\ UNCHANGED <<published, curEpoch, cursor, active, freedStrings, seen,
                 lane, view, held, handled, taker, debited>>

(* The spec is written under the job lock.  A particle job's length is the *)
(* capacity of its table.                                                  *)
Publish ==
  LET e == Len(published) + 1 IN
  /\ game.at = "publish"
  /\ \E kind \in Kinds, len \in Lens \cup {0} :
       /\ (kind = "Mark") = (len = 0)
       /\ kind = "Particles" => len = Capacity
       /\ published' = Append(published, [epoch |-> e, kind |-> kind, len |-> len])
  /\ held' = held \cup {e}
  /\ GameGoes("cursor")
  /\ UNCHANGED <<curEpoch, cursor, done, active, freedStrings, seen,
                 lane, view, handled, taker, debited>>

ResetCursor ==
  /\ game.at = "cursor"
  /\ cursor' = 0
  /\ GameGoes("freed")
  /\ UNCHANGED <<published, curEpoch, done, active, freedStrings, seen,
                 lane, view, held, handled, taker, debited>>

ResetFreedForgotten ==
  /\ game.at = "freed"
  /\ GameGoes("epoch")
  /\ UNCHANGED <<poolVars, lane, view, held, handled, taker, debited>>

ResetFreed ==
  /\ game.at = "freed"
  /\ freedStrings' = 0
  /\ GameGoes("epoch")
  /\ UNCHANGED <<published, curEpoch, cursor, done, active, seen,
                 lane, view, held, handled, taker, debited>>

(* cur_epoch is stored last; the game thread goes on with its own part: it *)
(* propagates, claims buckets, walks the batch pass or the visible list.   *)
StoreEpoch ==
  /\ game.at = "epoch"
  /\ curEpoch' = job.epoch
  /\ game' = [at |-> CASE job.kind = "Mark" -> "mark" [] job.kind = "Sweep" -> "help"
                       [] job.kind = "Particles" -> "spent" [] OTHER -> "look",
              node |-> 0]
  /\ lane' = IF job.kind = "Sweep"
             THEN [lane EXCEPT ![Game] = [Parked EXCEPT !.job = job, !.at = "raise"]]
             ELSE lane
  /\ UNCHANGED <<published, cursor, done, active, freedStrings, seen,
                 view, held, handled, taker, debited>>

-----------------------------------------------------------------------------
(* The joins                                                               *)

(* The game thread comes back from claiming.                               *)
HelpEnds ==
  /\ game.at = "help" /\ At(Game, "parked")
  /\ GameGoes(IF job.kind = "Sweep" THEN "quiet" ELSE "look")
  /\ UNCHANGED <<poolVars, lane, view, held, handled, taker, debited>>

(* await_node: the walk goes on at once past an instance that is stamped.  *)
(* Behind the roots it meets one that never will be.                       *)
NodeReady ==
  /\ game.at = "look" /\ game.node < job.len /\ handled[job.epoch][game.node] > 0
  /\ game' = [game EXCEPT !.node = @ + 1]
  /\ UNCHANGED <<poolVars, lane, view, held, handled, taker, debited>>

NodeAwaitsStamp ==
  /\ game.at = "look" /\ game.node < job.len
  /\ handled[job.epoch][game.node] = 0
  /\ GameGoes("spent")
  /\ UNCHANGED <<poolVars, lane, view, held, handled, taker, debited>>

NodeNotReady ==
  /\ game.at = "look"
  /\ game.node < job.len => handled[job.epoch][game.node] = 0
  /\ GameGoes("spent")
  /\ UNCHANGED <<poolVars, lane, view, held, handled, taker, debited>>

(* drained, and the join of a particle pass: no claim is left to begin.    *)
Spent == IF job.kind = "Particles"
         THEN view[job.epoch].scanDone /\ cursor >= view[job.epoch].total
         ELSE cursor >= job.len

LookQuietBefore ==
  /\ game.at = "spent" /\ active = 0
  /\ GameGoes("quiet")
  /\ UNCHANGED <<poolVars, lane, view, held, handled, taker, debited>>

LookSpent ==
  /\ game.at = "spent" /\ Spent
  /\ GameGoes("quiet")
  /\ UNCHANGED <<poolVars, lane, view, held, handled, taker, debited>>

(* Work is left: the game thread animates a chunk; in a particle pass it   *)
(* only looks again.                                                       *)
Help ==
  /\ job.kind = "AnimateRoots"
  /\ \/ game.at = "spent" /\ ~Spent
     \/ game.at = "quiet" /\ active # 0
  /\ GameGoes("help")
  /\ lane' = [lane EXCEPT ![Game] = [Parked EXCEPT !.job = job, !.at = "raise"]]
  /\ UNCHANGED <<poolVars, view, held, handled, taker, debited>>

LookAgain ==
  /\ game.at = "quiet" /\ active # 0 /\ job.kind = "Particles"
  /\ GameGoes("spent")
  /\ UNCHANGED <<poolVars, lane, view, held, handled, taker, debited>>

LookQuietUnasked ==
  /\ game.at = "quiet"
  /\ game' = IF job.kind = "AnimateRoots" /\ game.node <= job.len
             THEN [at |-> IF game.node = job.len THEN "spent" ELSE "look",
                   node |-> game.node + 1]
             ELSE [game EXCEPT !.at = "over"]
  /\ UNCHANGED <<poolVars, lane, view, held, handled, taker, debited>>

(* Nobody is active either: the walk passes its node; past the last one,   *)
(* and in every other kind of job, the job is over.                        *)
LookQuiet ==
  /\ game.at = "quiet" /\ active = 0
  /\ game' = IF job.kind = "AnimateRoots" /\ game.node <= job.len
             THEN [at |-> IF game.node = job.len THEN "spent" ELSE "look",
                   node |-> game.node + 1]
             ELSE [game EXCEPT !.at = "over"]
  /\ UNCHANGED <<poolVars, lane, view, held, handled, taker, debited>>

(* A mark pass ends when no participant is active (and its queues are      *)
(* empty, in GcMark).                                                      *)
MarkEnds ==
  /\ game.at = "mark" /\ active = 0
  /\ GameGoes("over")
  /\ UNCHANGED <<poolVars, lane, view, held, handled, taker, debited>>

(* The particle join gives up after 50 ms and leaks the buffers.           *)
JoinTimesOut ==
  /\ game.at \in {"spent", "quiet"} /\ job.kind = "Particles"
  /\ done' = TRUE
  /\ GameGoes("idle")
  /\ UNCHANGED <<published, curEpoch, cursor, active, freedStrings, seen,
                 lane, view, held, handled, taker, debited>>

RaiseDone ==
  /\ game.at = "over"
  /\ done' = TRUE
  /\ GameGoes("release")
  /\ UNCHANGED <<published, curEpoch, cursor, active, freedStrings, seen,
                 lane, view, held, handled, taker, debited>>

(* A sweep debits strt.nuse; the buffers are let go.                       *)
Release ==
  /\ game.at = "release"
  /\ debited' = IF job.kind = "Sweep" THEN [debited EXCEPT ![job.epoch] = freedStrings]
                ELSE debited
  /\ held' = held \ {job.epoch}
  /\ game' = [at |-> "idle", node |-> 0]
  /\ UNCHANGED <<poolVars, lane, view, handled, taker>>

-----------------------------------------------------------------------------

LaneStep(p) ==
  \/ Raise(p) \/ Check(p) \/ Elect(p) \/ ScanEntry(p) \/ ScanEnds(p) \/ Claim(p)
  \/ Work(p) \/ BuildEntry(p) \/ BuildExhausted(p) \/ Flush(p) \/ Lower(p) \/ Leave(p)

WorkerStep(w) == Wake(w) \/ SpinDone(w) \/ LaneStep(w)

JoinStep ==
  \/ HelpEnds \/ NodeReady \/ NodeNotReady \/ LookSpent \/ Help \/ LookAgain \/ LookQuiet
  \/ MarkEnds \/ JoinTimesOut \/ RaiseDone \/ Release

GameStep ==
  \/ Publish \/ ResetCursor \/ ResetFreed \/ StoreEpoch
  \/ JoinStep \/ LaneStep(Game)

Next == Begin \/ GameStep \/ \E w \in Workers : WorkerStep(w)

(* The threads of a process keep running.  Nothing makes the client start  *)
(* another job.                                                            *)
Fairness == WF_vars(GameStep) /\ \A w \in Workers : WF_vars(WorkerStep(w))

Spec == Init /\ [][Next]_vars /\ Fairness

-----------------------------------------------------------------------------
(* Properties                                                              *)

TypeOK ==
  /\ published \in Seq(JobTypes) /\ Len(published) <= MaxJobs
  /\ curEpoch \in 0 .. MaxJobs /\ cursor \in 0 .. MaxLen
  /\ done \in BOOLEAN /\ active \in 0 .. Cardinality(Lanes) /\ freedStrings \in Nat
  /\ seen \in [Workers -> 0 .. MaxJobs]
  /\ \A p \in Lanes :
       /\ lane[p].at \in {"parked", "spin", "raise", "check", "elect", "scan", "claim",
                          "build", "work", "flush", "lower", "leave"}
       /\ lane[p].job \in JobTypes
       /\ lane[p].next \in 0 .. MaxLen /\ lane[p].end \in 0 .. MaxLen
       /\ lane[p].freed \in 0 .. Chunk
  /\ game.at \in {"idle", "publish", "cursor", "freed", "epoch", "mark", "help", "look",
                  "spent", "quiet", "over", "release"}
  /\ game.node \in 0 .. MaxLen + 1
  /\ view \in [Epochs -> [scanClaimed : BOOLEAN, ready : 0 .. MaxLen, total : 0 .. MaxLen,
                          scanDone : BOOLEAN]]
  /\ held \subseteq Epochs
  /\ handled \in [Epochs -> [Items -> Nat]]
  /\ taker \in [Epochs -> [Items -> 0 .. MaxJobs]]
  /\ debited \in [Epochs -> Nat]

(* Tickets of a job's cursor that a participant of another job used.       *)
Stolen == {t \in Epochs \X Items : taker[t[1]][t[2]] \notin {0, t[1]}}

ItemsOf(e) == 0 .. (published[e].len - 1)

Joined(e) == e \in 1 .. Len(published) /\ e \notin held

(* The join covers the job: when the sweep or the animation is over every  *)
(* item's ticket has been used, and its user, unless a stale participant,  *)
(* has finished the item.  A missed bucket keeps dead strings, a missed    *)
(* root draws a stale pose.                                                *)
JoinCoversJob ==
  \A e \in Epochs :
    Joined(e) /\ published[e].kind \in {"Sweep", "AnimateRoots"} =>
      \A i \in ItemsOf(e) :
        /\ taker[e][i] # 0
        /\ taker[e][i] = e => handled[e][i] > 0

(* No item is worked on more often than tickets with its number were used  *)
(* for its job: two lanes never sweep one bucket or build one entry at the *)
(* same time.                                                              *)
OncePerTicket ==
  \A e \in Epochs, i \in Items :
    handled[e][i] <= Cardinality({f \in Epochs : taker[f][i] = e})

(* The debit of strt.nuse is every string the sweep freed: no accounting   *)
(* is flushed after the coordinator has read it ("the coordinator observes *)
(* cursor-exhausted and active = 0 only once no participant holds unswept  *)
(* buckets or unflushed accounting").                                      *)
FreedIsDebited ==
  \A e \in Epochs :
    Joined(e) /\ published[e].kind = "Sweep" /\ Stolen = {} =>
      debited[e] = Cardinality({i \in ItemsOf(e) : handled[e][i] > 0})

(* The walk over the visible list passes a root only when it is animated.  *)
AnimatedBeforeUse ==
  game.at \in {"look", "spent", "quiet", "help", "over", "release"} /\ job.kind = "AnimateRoots" =>
    \A i \in ItemsOf(job.epoch) :
      i < game.node /\ taker[job.epoch][i] \in {0, job.epoch} => handled[job.epoch][i] > 0

(* Every job is over some time, whoever else is late or asleep, and its    *)
(* join does not wait for ever.                                            *)
JobsEnd == game.at # "idle" ~> game.at = "idle"

(* Who has found its epoch current, with active raised, uses the buffers   *)
(* of its job.                                                             *)
UsesBuffers(p) == lane[p].at \in {"elect", "scan", "build", "work"}

(* "The driver keeps the view alive until the join drains every            *)
(* participant", "the epoch was validated with active held": no            *)
(* participant uses the buffers of a job that were let go.                 *)
BuffersOutliveUse == \A p \in Lanes : UsesBuffers(p) => lane[p].job.epoch \in held
=============================================================================
