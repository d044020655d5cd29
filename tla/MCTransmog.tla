----------------------------- MODULE MCTransmog -----------------------------
(* A small instance: a table in which two keys collide and probes wrap.     *)
(* The units' entries and the player's share nothing but the flag and the   *)
(* flush, so a behaviour writes to one of the two ("scene").                *)
EXTENDS Transmog, TLC

CONSTANTS a, b, u1, u2, u3

VARIABLE scene

\* All but u3 start at the last index, so that their probe wraps into u3's.
CollidingBucket == [k \in Keys |-> IF k[1] = u3 THEN 0 ELSE UNIT_TABLE_LEN - 1]

\* u1 and u2 hash alike, and nothing tells the items apart.
Alike == Permutations({u1, u2}) \cup Permutations({a, b})

Scenes == {"units", "player"}

SceneInit == Init /\ scene \in Scenes

\* u3 is there for its place in the table: it stays in sight, and it is shown
\* one value only.
Bystands(u) ==
  /\ u \in alive'
  /\ \A k \in Keys : k[1] = u => server'[k] \in {0, 1}

SceneNext ==
  /\ Next
  /\ scene' = scene
  /\ scene = "units" => UNCHANGED playerVars /\ Bystands(u3)
  /\ scene = "player" => UNCHANGED unitVars

SceneSpec == SceneInit /\ [][SceneNext]_<<vars, scene>>
=============================================================================
