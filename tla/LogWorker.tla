----------------------------- MODULE LogWorker -----------------------------
(***************************************************************************)
(* The logging worker of wow_turbo (windows/turbo/src/log_worker.rs).      *)
(* Any thread logs; until the worker runs, and for good when it cannot be  *)
(* spawned, a record is written by the caller, afterwards it goes through  *)
(* a channel the worker drains.  The switch is one flag that callers read  *)
(* without a lock, so that while the worker starts both paths are in use.  *)
(*                                                                         *)
(* A record is its caller and its number.  Writing one is one step: the    *)
(* backend's pipe is locked while it writes, whichever sink the bytes go   *)
(* to.  What the worker logs itself (its reports) is written directly and  *)
(* touches neither the queue nor the records of others; it is left out, as *)
(* are the level filter and the send to a worker that is gone: no step of  *)
(* the worker ends it, and a panic aborts the process.                     *)
(***************************************************************************)
EXTENDS Naturals, Sequences, SequencesExt, LogOrder

CONSTANTS
  Callers,     \* threads that log
  Renderer,    \* the one whose scene-end hook starts the worker
  MaxRecords   \* records each caller logs

ASSUME LogAssumption == Renderer \in Callers /\ MaxRecords \in Nat \ {0}

Records == Callers \X (1 .. MaxRecords)

VARIABLES
  STARTED,  \* start() has been called
  ACTIVE,   \* the worker is consuming the queue
  worker,   \* where the worker is
  queue,    \* the channel
  taken,    \* the message the worker is emitting
  at,       \* where each caller is
  logged    \* records each caller has begun to log

workerVars == <<worker, taken>>
vars == <<STARTED, ACTIVE, workerVars, queue, at, logged, written, behind>>

Init ==
  /\ STARTED = FALSE /\ ACTIVE = FALSE
  /\ worker = "unborn" /\ taken = <<>> /\ queue = <<>>
  /\ at = [c \in Callers |-> "away"]
  /\ logged = [c \in Callers |-> 0]
  /\ written = <<>>
  /\ behind = [r \in Records |-> {}]

-----------------------------------------------------------------------------
(* The callers                                                             *)

Current(c) == <<c, logged[c]>>

Returned == {r \in Records : r[2] <= logged[r[1]] /\ (r = Current(r[1]) => at[r[1]] = "away")}

(* log!() enters Logger::log, defer_log!() enters defer.                   *)
Call(c, entry) ==
  /\ at[c] = "away" /\ logged[c] < MaxRecords
  /\ at' = [at EXCEPT ![c] = entry]
  /\ logged' = [logged EXCEPT ![c] = @ + 1]
  /\ behind' = [behind EXCEPT ![<<c, logged[c] + 1>>] = Returned]
  /\ UNCHANGED <<STARTED, ACTIVE, workerVars, queue, written>>

(* defer reads ACTIVE; on FALSE the closure runs here, and the log!() in   *)
(* it looks again.                                                         *)
DeferDecides(c) ==
  /\ at[c] = "defer"
  /\ at' = [at EXCEPT ![c] = IF ACTIVE THEN "submit" ELSE "log"]
  /\ UNCHANGED <<STARTED, ACTIVE, workerVars, queue, logged, written, behind>>

LogDecidesOnStarted(c) ==
  /\ at[c] = "log"
  /\ at' = [at EXCEPT ![c] = IF STARTED THEN "submit" ELSE "write"]
  /\ UNCHANGED <<STARTED, ACTIVE, workerVars, queue, logged, written, behind>>

LogDecidesOnBacklog(c) ==
  /\ at[c] = "log"
  /\ at' = [at EXCEPT ![c] = IF ACTIVE /\ queue # <<>> THEN "submit" ELSE "write"]
  /\ UNCHANGED <<STARTED, ACTIVE, workerVars, queue, logged, written, behind>>

LogDecides(c) ==
  /\ at[c] = "log"
  /\ at' = [at EXCEPT ![c] = IF ACTIVE THEN "submit" ELSE "write"]
  /\ UNCHANGED <<STARTED, ACTIVE, workerVars, queue, logged, written, behind>>

Submit(c) ==
  /\ at[c] = "submit"
  /\ queue' = Append(queue, Current(c))
  /\ at' = [at EXCEPT ![c] = "away"]
  /\ UNCHANGED <<STARTED, ACTIVE, workerVars, logged, written, behind>>

WriteHere(c) ==
  /\ at[c] = "write"
  /\ written' = Append(written, Current(c))
  /\ at' = [at EXCEPT ![c] = "away"]
  /\ UNCHANGED <<STARTED, ACTIVE, workerVars, queue, logged, behind>>

(* The first scene end: the receiver is taken, and the thread is spawned   *)
(* or it is not.  (The warning about the latter is logged like any other   *)
(* record.)                                                                *)
Start ==
  /\ ~STARTED /\ at[Renderer] = "away"
  /\ STARTED' = TRUE
  /\ worker' \in {"spawned", "unborn"}
  /\ UNCHANGED <<ACTIVE, taken, queue, at, logged, written, behind>>

-----------------------------------------------------------------------------
(* The worker                                                              *)

Activate ==
  /\ worker = "spawned"
  /\ ACTIVE' = TRUE
  /\ worker' = "receive"
  /\ UNCHANGED <<STARTED, taken, queue, at, logged, written, behind>>

Receive ==
  /\ worker = "receive" /\ queue # <<>>
  /\ taken' = Head(queue) /\ queue' = Tail(queue)
  /\ worker' = "emit"
  /\ UNCHANGED <<STARTED, ACTIVE, at, logged, written, behind>>

(* A text is handed to the backend; a deferred closure runs its log!(),    *)
(* which ON_WORKER keeps from going round through the queue again.         *)
Emit ==
  /\ worker = "emit"
  /\ written' = Append(written, taken)
  /\ worker' = "receive" /\ taken' = <<>>
  /\ UNCHANGED <<STARTED, ACTIVE, queue, at, logged, behind>>

Proceed(c) == DeferDecides(c) \/ LogDecides(c) \/ Submit(c) \/ WriteHere(c)

Worker == Activate \/ Receive \/ Emit

Next ==
  \/ \E c \in Callers : Proceed(c) \/ \E entry \in {"log", "defer"} : Call(c, entry)
  \/ Start
  \/ Worker

(* Threads run on: a call that has begun proceeds, and so does the worker. *)
Fairness == WF_vars(Worker) /\ \A c \in Callers : WF_vars(Proceed(c))

Spec == Init /\ [][Next]_vars /\ Fairness

-----------------------------------------------------------------------------
(* Properties                                                              *)

TypeOK ==
  /\ STARTED \in BOOLEAN /\ ACTIVE \in BOOLEAN
  /\ worker \in {"unborn", "spawned", "receive", "emit"}
  /\ taken \in Records \cup {<<>>}
  /\ queue \in Seq(Records) /\ written \in Seq(Records)
  /\ at \in [Callers -> {"away", "defer", "log", "submit", "write"}]
  /\ logged \in [Callers -> 0 .. MaxRecords]
  /\ behind \in [Records -> SUBSET Records]

(* Whatever is logged is written in the end: "until then, or if spawning   *)
(* fails, output stays synchronous", and nothing is left in a queue nobody *)
(* drains.                                                                 *)
EverythingWritten ==
  \A r \in Records : r[2] <= logged[r[1]] ~> Contains(written, r)
=============================================================================
