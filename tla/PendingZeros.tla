---------------------------- MODULE PendingZeros ----------------------------
(***************************************************************************)
(* What the coalescer of visible-item writes promises for the fields of    *)
(* other units: a set of zeros that are held back, at most one per field.  *)
(* A value that is written shows at once and ends what is held back; a     *)
(* zero shows at once or is held back until nobody has renewed it for the  *)
(* restore window and a flush blanks the field.  The table, where it keeps *)
(* an entry, for which zeros it has room, in which order a flush comes to  *)
(* them, and which writes are swallowed as restores, is not visible here.  *)
(* Time goes on while a flush runs; the flush goes by its own clock, which *)
(* it has read at the beginning.                                           *)
(***************************************************************************)
EXTENDS Integers

CONSTANTS Units, Keys, Field, RESTORE_WINDOW,
          FLUSH_TICKS             \* bound: ticks during one flush

VARIABLES
  alive, field, server,   \* as in Transmog
  overtaken,              \* fields written, or forgotten, behind a flush's back
  pending,                \* the zeros that are held back: [key, age]
  hand,                   \* the field a flush is about to blank
  since                   \* ticks since the flush that runs read the clock

vars == <<alive, field, server, overtaken, pending, hand, since>>

Empty == [pc |-> "empty"]

NoFlush == -1

Init ==
  /\ alive = Units
  /\ field = [k \in Keys |-> 0] /\ server = field
  /\ overtaken = {} /\ pending = {} /\ hand = Empty
  /\ since = NoFlush

InHand(k) == hand # Empty /\ hand.key = k

(* What is held back for other fields.                                     *)
Others(k) == {e \in pending : e.key # k}

Shows(k, v) ==
  /\ v # 0
  /\ field' = [field EXCEPT ![k] = v]
  /\ pending' = Others(k)

(* A zero goes through if nothing is shown; or if there is no room for it, *)
(* and then none is held back for the field.                               *)
Passes(k, v) ==
  /\ v = 0
  /\ field[k] = 0 \/ Others(k) = pending
  /\ field' = [field EXCEPT ![k] = 0]
  /\ UNCHANGED pending

Defers(k, v) ==
  /\ v = 0 /\ field[k] # 0
  /\ pending' = Others(k) \cup {[key |-> k, age |-> 0]}
  /\ UNCHANGED field

Write(k, v) ==
  /\ k[1] \in alive
  /\ Shows(k, v) \/ Passes(k, v) \/ Defers(k, v)
  /\ server' = [server EXCEPT ![k] = v]
  /\ overtaken' = IF InHand(k) THEN overtaken \cup {k} ELSE overtaken \ {k}
  /\ UNCHANGED <<alive, hand, since>>

(* A unit leaves sight; it comes back blank.  What is held back stays.     *)
Gone(u) ==
  /\ u \in alive
  /\ alive' = alive \ {u}
  /\ UNCHANGED <<field, server, overtaken, pending, hand, since>>

Appears(u) ==
  LET blank(f) == [k \in Keys |-> IF k[1] = u THEN 0 ELSE f[k]] IN
  /\ u \notin alive
  /\ alive' = alive \cup {u}
  /\ field' = blank(field) /\ server' = blank(server)
  /\ overtaken' = {k \in overtaken : k[1] # u \/ InHand(k)}
  /\ UNCHANGED <<pending, hand, since>>

(* A flush reads the clock, and ends when it has left nothing behind whose *)
(* window was over at that time.                                           *)
Begins ==
  /\ since = NoFlush
  /\ since' = 0
  /\ UNCHANGED <<alive, field, server, overtaken, pending, hand>>

Ends ==
  /\ since # NoFlush /\ hand = Empty
  /\ \A e \in pending : e.age - since < RESTORE_WINDOW
  /\ since' = NoFlush
  /\ UNCHANGED <<alive, field, server, overtaken, pending, hand>>

(* It blanks one field after the other, each in three steps; writes may    *)
(* come between them.  It takes a zero whose window was over when it read  *)
(* the clock; and one from after that time, whose age comes out as a huge  *)
(* number (transmog.rs:401).                                               *)
Takes(e) ==
  /\ since # NoFlush /\ hand = Empty
  /\ e.age - since >= RESTORE_WINDOW \/ e.age < since
  /\ hand' = [pc |-> "remove", key |-> e.key]
  /\ UNCHANGED <<alive, field, server, overtaken, pending, since>>

(* The zero it has taken goes; if the field was written meanwhile, any one *)
(* zero or none.                                                           *)
Removes(gone) ==
  /\ hand # Empty /\ hand.pc = "remove"
  /\ hand.key \notin overtaken => \E e \in gone : e.key = hand.key
  /\ pending' = pending \ gone
  /\ overtaken' = overtaken \cup ({e.key : e \in gone} \ {hand.key})
  /\ hand' = [hand EXCEPT !.pc = "apply"]
  /\ UNCHANGED <<alive, field, server, since>>

Blanks ==
  /\ hand # Empty /\ hand.pc = "apply"
  /\ field' = IF hand.key[1] \in alive THEN [field EXCEPT ![hand.key] = 0] ELSE field
  /\ hand' = Empty
  /\ UNCHANGED <<alive, server, overtaken, pending, since>>

Ages ==
  /\ since < FLUSH_TICKS
  /\ since' = IF since = NoFlush THEN NoFlush ELSE since + 1
  /\ pending' = {[e EXCEPT !.age = IF @ < RESTORE_WINDOW + FLUSH_TICKS THEN @ + 1 ELSE @]
                   : e \in pending}
  /\ UNCHANGED <<alive, field, server, overtaken, hand>>

Next ==
  \/ \E k \in Keys, v \in Field : Write(k, v)
  \/ \E u \in Units : Gone(u) \/ Appears(u)
  \/ Begins \/ Ends
  \/ \E e \in pending : Takes(e) \/ Removes({e})
  \/ Removes({})
  \/ Blanks \/ Ages

Spec == Init /\ [][Next]_vars
=============================================================================
