------------------------------ MODULE LogOrder ------------------------------
(***************************************************************************)
(* What can be seen of the log: the records that have been written, and    *)
(* for each record those that were logged before it.  LogWorker fills in   *)
(* by which path a record gets there.                                      *)
(***************************************************************************)
EXTENDS Naturals

VARIABLES
  written,  \* what has reached the sink, in order
  behind    \* history: for each record, those whose call had returned when its own began

(* The log tells what happened in the order it happened: a record whose    *)
(* call had returned before another's began is written before it, on one   *)
(* thread or two, while the worker starts and afterwards, whichever of the *)
(* two paths each of them takes.                                           *)
WrittenInOrder ==
  \A j \in DOMAIN written : \A r \in behind[written[j]] :
    \E i \in 1 .. j - 1 : written[i] = r
=============================================================================
