------------------------------ MODULE Transmog ------------------------------
(***************************************************************************)
(* The coalescer of visible-item writes: the kernel of                     *)
(* windows/turbo/src/transmog.rs and the adapter of                        *)
(* windows/turbo/src/win/transmog.rs around it.  The server's writes to    *)
(* the descriptors of units, of the local player and of equipped items     *)
(* pass through intercept_write; flush runs at the end of every scene.     *)
(*                                                                         *)
(* A field holds 0 (nothing shown) or a member of Values.  An entry's age  *)
(* stands for now_ms - stamp_ms, counted in ticks and capped where it has  *)
(* ceased to matter.  A write is one step; flush gives up its lock between *)
(* its steps, so writes may come in between, and the clock may go on: all  *)
(* its steps compare with the one time it has read at its beginning.       *)
(*                                                                         *)
(* The model of the unit behind a descriptor, its refreshes with their cap *)
(* of 16 units, and the enter-world downgrade are not modelled; neither    *)
(* are the time a write may take between its own clock and the lock, and   *)
(* the login before the token "player" names anybody.                      *)
(***************************************************************************)
EXTENDS Integers, FiniteSets, FiniteSetsExt

CONSTANTS Units, UnitSlots,       \* other units, and their visible slots
          PlayerSlots, Items,     \* the local player's slots, what they hold
          Values,                 \* what a field other than 0 can hold
          UNIT_TABLE_LEN, UNIT_PROBE_LIMIT,
          Bucket,                 \* unit_bucket, on Units \X UnitSlots
          RESTORE_WINDOW, PLAYER_PENDING_TTL,  \* in ticks
          FLUSH_TICKS     \* bound: the ticks that may pass during one flush

Keys == Units \X UnitSlots
Field == Values \cup {0}
TableIndex == 0 .. UNIT_TABLE_LEN - 1

ASSUME TransmogAssumption ==
  /\ UNIT_TABLE_LEN \in Nat \ {0}
  /\ UNIT_PROBE_LIMIT \in 1 .. UNIT_TABLE_LEN
  /\ RESTORE_WINDOW \in Nat \ {0} /\ PLAYER_PENDING_TTL \in Nat \ {0}
  /\ FLUSH_TICKS \in Nat
  /\ Values \subseteq Nat \ {0}
  /\ 0 \notin Items
  /\ Bucket \in [Keys -> TableIndex]

None == [none |-> TRUE]
NotParked == -1

VARIABLES alive,         \* the units the object manager finds
          field,         \* the visible fields of their descriptors
          server,        \* what the server wrote last to each of them
          units,         \* the unit table
          overtaken,     \* keys written while a flush was about to blank them
          flushing,      \* where a running flush has got to, and how many
                         \* ticks ago it has read the clock (late)
          PENDING,
          playerField, playerServer,  \* likewise for the player
          equipField,    \* the item GUID in each of the player's slots
          itemField, itemServer,      \* the items' field 0x2e
          bound,         \* "no", "yes", or "stale" (an object since replaced)
          last_value, equip_guids,    \* the mirrors of the player
          player,        \* the pending zero of each slot, or None
          lapsed,        \* slots whose pending zero was dropped by its age
          carried        \* slots whose pending zero comes from the mirrors of
                         \* another player object, or of none

unitVars == <<alive, field, server, units, overtaken>>
playerVars == <<playerField, playerServer, equipField, itemField, itemServer,
                bound, last_value, equip_guids, player, lapsed, carried>>
vars == <<unitVars, playerVars, flushing, PENDING>>

Resting == [pc |-> "resting"]

Init ==
  /\ alive = Units
  /\ field = [k \in Keys |-> 0] /\ server = field
  /\ units = [i \in TableIndex |-> None]
  /\ overtaken = {}
  /\ flushing = Resting
  /\ PENDING = FALSE
  /\ playerField = [p \in PlayerSlots |-> 0] /\ playerServer = playerField
  /\ equipField = playerField
  /\ itemField = [i \in Items |-> 0] /\ itemServer = itemField
  /\ bound = "no"
  /\ last_value = playerField /\ equip_guids = playerField
  /\ player = [p \in PlayerSlots |-> None]
  /\ lapsed = {} /\ carried = {}

-----------------------------------------------------------------------------
\* The unit table: open addressing, linear probing, entries removed in place.

\* The index a key's probe visits at a step.
ProbeAt(k, step) == (Bucket[k] + step) % UNIT_TABLE_LEN

\* A probe that takes a hole for the end of the run.
unit_findUpToHole(k) == {step \in 0 .. UNIT_PROBE_LIMIT - 1 :
                           /\ \A s \in 0 .. step : units[ProbeAt(k, s)] # None
                           /\ units[ProbeAt(k, step)].key = k}

\* The steps of its probe at which a key's entry lies.
unit_find(k) == {step \in 0 .. UNIT_PROBE_LIMIT - 1 :
                   LET e == units[ProbeAt(k, step)] IN e # None /\ e.key = k}

Free(k) == {step \in 0 .. UNIT_PROBE_LIMIT - 1 : units[ProbeAt(k, step)] = None}

First(k, steps) == ProbeAt(k, Min(steps))

Fresh(k) == [key |-> k, age |-> 0]

\* A write reaches the descriptor.
StockWrite(k, v) == field' = [field EXCEPT ![k] = v]

\* A window that takes any value for the restore.
UnitShowsAnything(k, v) ==
  LET found == unit_find(k)
      idx == First(k, found)
      restores == found # {} /\ units[idx].age < RESTORE_WINDOW
  IN /\ v # 0
     /\ units' = IF found = {} THEN units ELSE [units EXCEPT ![idx] = None]
     /\ IF restores THEN UNCHANGED field ELSE StockWrite(k, v)

\* A write of something to a unit: a restore inside the window of what is
\* still shown is swallowed; any other takes the entry away and goes through.
UnitShows(k, v) ==
  LET found == unit_find(k)
      idx == First(k, found)
      restores == found # {} /\ units[idx].age < RESTORE_WINDOW /\ field[k] = v
  IN /\ v # 0
     /\ units' = IF found = {} THEN units ELSE [units EXCEPT ![idx] = None]
     /\ IF restores THEN UNCHANGED field ELSE StockWrite(k, v)

\* A write of zero: swallowed and remembered, unless nothing was shown or
\* there is no room left within the probe.
UnitBlanks(k, v) ==
  LET found == unit_find(k)
      free == Free(k)
  IN /\ v = 0
     /\ CASE field[k] = 0 -> UNCHANGED units /\ StockWrite(k, 0)
          [] field[k] # 0 /\ found # {} ->
               /\ units' = [units EXCEPT ![First(k, found)].age = 0]
               /\ UNCHANGED field
          [] field[k] # 0 /\ found = {} /\ free # {} ->
               /\ units' = [units EXCEPT ![First(k, free)] = Fresh(k)]
               /\ UNCHANGED field
          [] OTHER -> UNCHANGED units /\ StockWrite(k, 0)

\* Whether a flush holds this key as due and has not blanked it yet.
AboutToBlank(k) == flushing.pc \in {"remove", "apply"} /\ flushing.key = k

\* visible_write for a unit that is not the player.
UnitWrite(k, v) ==
  /\ k[1] \in alive
  /\ UnitShows(k, v) \/ UnitBlanks(k, v)
  /\ server' = [server EXCEPT ![k] = v]
  /\ overtaken' = IF AboutToBlank(k) THEN overtaken \cup {k} ELSE overtaken \ {k}
  /\ PENDING' = TRUE
  /\ UNCHANGED <<alive, playerVars, flushing>>

\* The client destroys a unit (it left sight); its entries stay.
UnitGone(u) ==
  /\ u \in alive
  /\ alive' = alive \ {u}
  /\ UNCHANGED <<field, server, units, overtaken, playerVars, flushing, PENDING>>

\* It comes back with a blank descriptor, which writes then fill in.
UnitAppears(u) ==
  LET blank(f) == [k \in Keys |-> IF k[1] = u THEN 0 ELSE f[k]]
  IN /\ u \notin alive
     /\ alive' = alive \cup {u}
     /\ field' = blank(field) /\ server' = blank(server)
     /\ overtaken' = {k \in overtaken : k[1] # u \/ AboutToBlank(k)}
     /\ UNCHANGED <<units, playerVars, flushing, PENDING>>

-----------------------------------------------------------------------------
\* The local player.

\* ensure_bound keeps a binding to this very object; otherwise it reads the
\* mirrors anew if the object manager finds the player, and unbinds if not.
\* The write is the player's in any case.
Binds(found) == bound = "yes" \/ found

Mirrored(mirror, live, found) == IF bound # "yes" /\ found THEN live ELSE mirror

Zeroed(value) == [value |-> value, age |-> 0, parked |-> NotParked]

\* A swallowed restore hands the parked value to the item in the slot.
Deliver(item, parked) ==
  itemField' = IF parked # NotParked /\ item # 0
               THEN [itemField EXCEPT ![item] = parked] ELSE itemField

\* A write of something to slot p with no entry, or of another value.
PlayerShowsNew(p, v, last) ==
  /\ v # 0
  /\ player[p] # None => player[p].value # v
  /\ player' = [player EXCEPT ![p] = None]
  /\ last_value' = [last EXCEPT ![p] = v]
  /\ playerField' = [playerField EXCEPT ![p] = v]
  /\ UNCHANGED itemField

\* A restore that is not compared with what was shown.
PlayerRestoresAnything(p, v, last, equip) ==
  /\ v # 0 /\ player[p] # None
  /\ player' = [player EXCEPT ![p] = None]
  /\ last_value' = last
  /\ UNCHANGED playerField /\ Deliver(equip[p], player[p].parked)

\* The restore of a swallowed zero; a parked zero lets it through instead.
PlayerRestores(p, v, last, equip) ==
  /\ v # 0 /\ player[p] # None /\ player[p].value = v
  /\ player' = [player EXCEPT ![p] = None]
  /\ last_value' = last
  /\ IF player[p].parked = 0
     THEN playerField' = [playerField EXCEPT ![p] = v] /\ UNCHANGED itemField
     ELSE UNCHANGED playerField /\ Deliver(equip[p], player[p].parked)

\* A zero that goes through: nothing was shown, or the slot of a bound player
\* is empty.
PlayerEmpties(p, v, last, equip, binds) ==
  /\ v = 0
  /\ last[p] = 0 \/ (binds /\ equip[p] = 0)
  /\ last_value' = [last EXCEPT ![p] = 0]
  /\ playerField' = [playerField EXCEPT ![p] = 0]
  /\ UNCHANGED <<player, itemField>>

\* A zero that is swallowed and remembered: an unbound player's whatever the
\* slot holds.
PlayerBlanks(p, v, last, equip, binds) ==
  /\ v = 0 /\ last[p] # 0 /\ (binds => equip[p] # 0)
  /\ player' = [player EXCEPT ![p] = Zeroed(last[p])]
  /\ last_value' = last
  /\ UNCHANGED <<playerField, itemField>>

PlayerDecides(p, v, last, equip, binds) ==
  \/ PlayerShowsNew(p, v, last)
     /\ carried' = carried \ {p}
  \/ PlayerRestores(p, v, last, equip)
     /\ carried' = IF playerField'[p] = v THEN carried \ {p} ELSE carried
  \/ PlayerEmpties(p, v, last, equip, binds)
     /\ carried' = IF player[p] = None THEN carried \ {p} ELSE carried
  \/ PlayerBlanks(p, v, last, equip, binds)
     /\ carried' = IF binds THEN carried \ {p} ELSE carried \cup {p}

\* visible_write for the player.
PlayerWrite(p, v, found) ==
  LET last == Mirrored(last_value, playerField, found)
      equip == Mirrored(equip_guids, equipField, found)
  IN /\ PlayerDecides(p, v, last, equip, Binds(found))
     /\ equip_guids' = equip
     /\ bound' = IF Binds(found) THEN "yes" ELSE "no"
     /\ playerServer' = [playerServer EXCEPT ![p] = v]
     /\ lapsed' = lapsed \ {p}
     /\ PENDING' = TRUE
     /\ UNCHANGED <<unitVars, equipField, itemServer, flushing>>

\* The pending zero is dropped and not applied.
ApplyZeroFirstForgotten(p, last) ==
  /\ last_value' = [last EXCEPT ![p] = 0]
  /\ player' = [player EXCEPT ![p] = None]
  /\ UNCHANGED playerField

ApplyZeroFirst(p, last) ==
  /\ last_value' = [last EXCEPT ![p] = 0]
  /\ player' = [player EXCEPT ![p] = None]
  /\ playerField' = [playerField EXCEPT ![p] = 0]

\* inv_guid_write, for both halves of a slot's GUID: a slot that empties
\* blanks its visible field at once if its zero was pending.
InvGuidWrite(p, item, found) ==
  LET last == Mirrored(last_value, playerField, found)
      empties == item = 0 /\ player[p] # None
  IN /\ item # equipField[p]
     /\ item = 0 \/ \A q \in PlayerSlots : equipField[q] # item
     /\ equip_guids' = [Mirrored(equip_guids, equipField, found) EXCEPT ![p] = item]
     /\ equipField' = [equipField EXCEPT ![p] = item]
     /\ IF empties
        THEN ApplyZeroFirst(p, last)
        ELSE last_value' = last /\ UNCHANGED <<player, playerField>>
     /\ carried' = IF empties THEN carried \ {p} ELSE carried
     /\ bound' = IF Binds(found) THEN "yes" ELSE "no"
     /\ PENDING' = TRUE
     /\ UNCHANGED <<unitVars, playerServer, itemField, itemServer, lapsed, flushing>>

\* item_write: parked behind the pending zero of the slot the item is in.
ItemWrite(item, x) ==
  LET slots == {p \in PlayerSlots : equip_guids[p] = item /\ player[p] # None}
      parked == bound # "no" /\ slots # {}
  IN /\ itemServer' = [itemServer EXCEPT ![item] = x]
     /\ IF parked
        THEN /\ player' = [p \in PlayerSlots |-> IF p \in slots
                             THEN [player[p] EXCEPT !.parked = x, !.age = 0]
                             ELSE player[p]]
             /\ UNCHANGED itemField
        ELSE itemField' = [itemField EXCEPT ![item] = x] /\ UNCHANGED player
     /\ PENDING' = (PENDING \/ bound # "no")
     /\ UNCHANGED <<unitVars, playerField, playerServer, equipField, bound,
                    last_value, equip_guids, lapsed, carried, flushing>>

\* The client destroys the player object and makes a new one at another
\* address, with a blank descriptor (a map change, another login).  What was
\* pending for the old object stays pending.
PlayerReplaced ==
  /\ bound' = IF bound = "yes" THEN "stale" ELSE bound
  /\ playerField' = [p \in PlayerSlots |-> 0]
  /\ playerServer' = [p \in PlayerSlots |-> 0]
  /\ equipField' = [p \in PlayerSlots |-> 0]
  /\ lapsed' = {}
  /\ carried' = {p \in PlayerSlots : player[p] # None}
  /\ UNCHANGED <<unitVars, itemField, itemServer, last_value, equip_guids,
                 player, flushing, PENDING>>

-----------------------------------------------------------------------------
\* flush: each step is one stretch between two points where it holds no lock.

idle == /\ \A i \in TableIndex : units[i] = None
        /\ \A p \in PlayerSlots : player[p] = None

\* The flag, and then the clock, are read before the lock is taken.
FlushLooks ==
  /\ flushing = Resting /\ PENDING
  /\ flushing' = [pc |-> "begin", late |-> 0]
  /\ UNCHANGED <<unitVars, playerVars, PENDING>>

\* The time from a stamp to the clock reading of the flush that runs has
\* reached the limit.  For a stamp later than that reading the subtraction
\* wraps around, beyond any limit.
Over(age, limit) == age < flushing.late \/ age - flushing.late >= limit

Expired(p) == player[p] # None /\ Over(player[p].age, PLAYER_PENDING_TTL)

\* Nothing pending: clear the flag.  Otherwise drop the player's old zeros.
FlushBegins ==
  LET expired == {p \in PlayerSlots : Expired(p)}
  IN /\ flushing.pc = "begin"
     /\ PENDING' = ~idle
     /\ player' = [p \in PlayerSlots |-> IF p \in expired THEN None ELSE player[p]]
     /\ lapsed' = lapsed \cup expired
     /\ carried' = carried \ expired
     /\ flushing' = IF idle THEN Resting
                    ELSE [pc |-> "due", from |-> 0, late |-> flushing.late]
     /\ UNCHANGED <<unitVars, playerField, playerServer, equipField, itemField,
                    itemServer, bound, last_value, equip_guids>>

\* A flush that does not wait for the last tick of the window.
unit_dueEarly(from) == {i \in TableIndex : i >= from /\ units[i] # None
                                           /\ Over(units[i].age + 1, RESTORE_WINDOW)}

unit_due(from) == {i \in TableIndex : i >= from /\ units[i] # None
                                      /\ Over(units[i].age, RESTORE_WINDOW)}

\* A flush that clears the flag when it has drained the table.
FlushFindsClearing ==
  LET due == unit_due(flushing.from)
  IN /\ flushing.pc = "due"
     /\ flushing' = IF due = {} THEN Resting
                    ELSE [pc |-> "remove", idx |-> Min(due), key |-> units[Min(due)].key,
                          late |-> flushing.late]
     /\ PENDING' = (due # {})
     /\ UNCHANGED <<unitVars, playerVars>>

\* The next entry that is due, or the end of the flush.
FlushFinds ==
  LET due == unit_due(flushing.from)
  IN /\ flushing.pc = "due"
     /\ flushing' = IF due = {} THEN Resting
                    ELSE [pc |-> "remove", idx |-> Min(due), key |-> units[Min(due)].key,
                          late |-> flushing.late]
     /\ UNCHANGED <<unitVars, playerVars, PENDING>>

\* The entry is removed by its index, whatever that holds by now.
FlushRemoves ==
  LET e == units[flushing.idx]
  IN /\ flushing.pc = "remove"
     /\ units' = [units EXCEPT ![flushing.idx] = None]
     /\ overtaken' = IF e = None \/ e.key = flushing.key THEN overtaken
                     ELSE overtaken \cup {e.key}
     /\ flushing' = [flushing EXCEPT !.pc = "apply"]
     /\ UNCHANGED <<alive, field, server, playerVars, PENDING>>

\* One index too far.
OnwardTwice == [pc |-> "due", from |-> flushing.idx + 2, late |-> flushing.late]

Onward == [pc |-> "due", from |-> flushing.idx + 1, late |-> flushing.late]

\* The zero is written if the unit is still there.
FlushApplies ==
  LET k == flushing.key
  IN /\ flushing.pc = "apply"
     /\ IF k[1] \in alive THEN StockWrite(k, 0) ELSE UNCHANGED field
     /\ flushing' = Onward
     /\ UNCHANGED <<alive, server, units, overtaken, playerVars, PENDING>>

Flush == FlushLooks \/ FlushBegins \/ FlushFinds \/ FlushRemoves \/ FlushApplies

Older(age, cap) == IF age < cap THEN age + 1 ELSE age

\* GetTickCount moves on, between two flushes or during one.
Tick ==
  /\ flushing # Resting => flushing.late < FLUSH_TICKS
  /\ flushing' = IF flushing = Resting THEN Resting ELSE [flushing EXCEPT !.late = @ + 1]
  /\ units' = [i \in TableIndex |-> IF units[i] = None THEN None
                 ELSE [units[i] EXCEPT !.age = Older(@, RESTORE_WINDOW + FLUSH_TICKS)]]
  /\ player' = [p \in PlayerSlots |-> IF player[p] = None THEN None
                  ELSE [player[p] EXCEPT !.age = Older(@, PLAYER_PENDING_TTL + FLUSH_TICKS)]]
  /\ UNCHANGED <<alive, field, server, overtaken, PENDING, playerField,
                 playerServer, equipField, itemField, itemServer, bound,
                 last_value, equip_guids, lapsed, carried>>

ServerWrites ==
  \/ \E k \in Keys, v \in Field : UnitWrite(k, v)
  \/ \E p \in PlayerSlots, v \in Field, found \in BOOLEAN : PlayerWrite(p, v, found)
  \/ \E p \in PlayerSlots, item \in Items \cup {0}, found \in BOOLEAN :
       InvGuidWrite(p, item, found)
  \/ \E item \in Items, x \in Field : ItemWrite(item, x)

Objects ==
  \/ \E u \in Units : UnitGone(u) \/ UnitAppears(u)
  \/ PlayerReplaced

Next == ServerWrites \/ Objects \/ Flush \/ Tick

Spec == Init /\ [][Next]_vars

-----------------------------------------------------------------------------
Entry == [key : Keys, age : 0 .. RESTORE_WINDOW + FLUSH_TICKS]
PlayerEntry == [value : Values, age : 0 .. PLAYER_PENDING_TTL + FLUSH_TICKS,
                parked : Field \cup {NotParked}]
Late == 0 .. FLUSH_TICKS
Step == {Resting} \cup [pc : {"begin"}, late : Late]
        \cup [pc : {"due"}, from : 0 .. UNIT_TABLE_LEN, late : Late]
        \cup [pc : {"remove", "apply"}, idx : TableIndex, key : Keys, late : Late]

TypeOK ==
  /\ alive \subseteq Units /\ overtaken \subseteq Keys
  /\ field \in [Keys -> Field] /\ server \in [Keys -> Field]
  /\ units \in [TableIndex -> Entry \cup {None}]
  /\ flushing \in Step
  /\ PENDING \in BOOLEAN
  /\ playerField \in [PlayerSlots -> Field] /\ playerServer \in [PlayerSlots -> Field]
  /\ itemField \in [Items -> Field] /\ itemServer \in [Items -> Field]
  /\ equipField \in [PlayerSlots -> Items \cup {0}]
  /\ equip_guids \in [PlayerSlots -> Items \cup {0}]
  /\ last_value \in [PlayerSlots -> Field]
  /\ bound \in {"no", "yes", "stale"}
  /\ player \in [PlayerSlots -> PlayerEntry \cup {None}]
  /\ lapsed \subseteq PlayerSlots /\ carried \subseteq PlayerSlots

\* Entries come and go in any order and leave holes inside other keys' probes;
\* no key ever has two entries, and every entry lies where a probe finds it.
OneEntryPerKey ==
  \A i \in TableIndex : units[i] # None =>
    /\ i \in {ProbeAt(units[i].key, s) : s \in 0 .. UNIT_PROBE_LIMIT - 1}
    /\ \A j \in TableIndex : units[j] # None /\ units[j].key = units[i].key => i = j

HasEntry(k) == \E i \in TableIndex : units[i] # None /\ units[i].key = k

\* A unit's field shows what the server wrote last, or the server wrote zero
\* and an entry (or a flush that has just taken it) will blank it.  Only a
\* write from another thread, landing while a flush has the entry in hand,
\* can be lost; on one thread there is no such write.
UnitFieldExplained ==
  \A k \in Keys : k[1] \in alive /\ field[k] # server[k] =>
    \/ server[k] = 0 /\ (HasEntry(k) \/ AboutToBlank(k))
    \/ k \in overtaken

\* The flag the flush reads without the lock is never clear while a zero is
\* pending, for a unit or for the player.
FlagHonest ==
  \/ \E i \in TableIndex : units[i] # None
  \/ \E p \in PlayerSlots : player[p] # None
  => PENDING

\* A flush leaves no entry whose window was over when it read the clock,
\* whatever was written and however the clock has gone on since.
FlushDrains ==
  [][flushing # Resting /\ flushing' = Resting =>
       \A i \in TableIndex : units[i] # None =>
         units[i].age - flushing.late < RESTORE_WINDOW]_vars

\* The player's field shows what the server wrote last, or the server wrote
\* zero and that zero is pending or was dropped by its age (after five seconds,
\* or at once if it was stamped after the flush that runs had read the clock);
\* only a zero from other mirrors than this player object's can hide more.
PlayerFieldExplained ==
  \A p \in PlayerSlots : playerField[p] # playerServer[p] =>
    \/ playerServer[p] = 0 /\ (player[p] # None \/ p \in lapsed)
    \/ p \in carried

\* A slot the item has left, and whose zero has not lapsed, shows nothing,
\* in whichever order the zero and the GUID arrive.  Not so a zero that came
\* while the object manager did not find the player: it is swallowed and
\* nothing is blanked, as the repository's own test says
\* (unbound_mirrors_swallow_zero_without_apply).
EmptiedSlotBlank ==
  \A p \in PlayerSlots :
    equipField[p] = 0 /\ playerServer[p] = 0 /\ p \notin lapsed \cup carried
      => playerField[p] = 0

\* The zeros that are held back for units, the one a flush has in hand, and
\* how long ago the flush has read the clock, wherever the table keeps them.
Held == {units[i] : i \in {j \in TableIndex : units[j] # None}}

Hand == IF flushing.pc \in {"remove", "apply"}
        THEN [pc |-> flushing.pc, key |-> flushing.key] ELSE [pc |-> "empty"]

Since == IF flushing = Resting THEN -1 ELSE flushing.late

Zeros == INSTANCE PendingZeros WITH pending <- Held, hand <- Hand, since <- Since

\* The probe table is a set with one zero per field: whatever holes the
\* removals leave in the probes, no write misses, doubles or loses an entry.
\* A flush takes a zero whose window was over when it read the clock, or that
\* was stamped after that, and it removes that field's zero and no other,
\* unless somebody wrote to the field meanwhile.
ImplementsPendingZeros == Zeros!Spec
=============================================================================
