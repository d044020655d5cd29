---------------------------- MODULE MCPortraits ----------------------------
(* A player and two creatures of one display, in two frames, with as many   *)
(* texture addresses as there are keys.                                     *)
EXTENDS Portraits, TLC

CONSTANTS player, wolf, cub, t1, t2, target, party

MCKeyOf == [g \in Guids |-> IF g = player THEN "player" ELSE "display"]

Alike == Permutations({wolf, cub}) \cup Permutations({t1, t2})
         \cup Permutations({target, party})
=============================================================================
