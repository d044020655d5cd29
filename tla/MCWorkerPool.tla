----------------------------- MODULE MCWorkerPool -----------------------------
(* Small instances of the worker pool.                                      *)
EXTENDS WorkerPool

(* The second job claims from the cursor, after a job of any kind but two   *)
(* particle passes in a row; a sweep and an animation have a chunk of two   *)
(* and one of one, a particle pass a table of two entries.                  *)
Schedule ==
  \A e \in DOMAIN published' :
    LET this == published'[e] IN
    /\ this.kind \in {"Sweep", "AnimateRoots"} => this.len = 3
    /\ e > 1 => /\ this.kind # "Mark"
                /\ this.kind = "Particles" => published'[e - 1].kind # "Particles"

ScheduleSpec == Init /\ [][Next /\ Schedule]_vars /\ Fairness
=============================================================================
