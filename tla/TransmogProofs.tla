--------------------------- MODULE TransmogProofs ---------------------------
(***************************************************************************)
(* The coalescer of visible-item writes, for any units, slots, values,     *)
(* table size, probe limit, hash and windows: types, the unit table, what  *)
(* the fields show, the flag and what a flush leaves behind.               *)
(***************************************************************************)
EXTENDS Transmog, WellFoundedInduction, TLAPS

-----------------------------------------------------------------------------
(* Types.                                                                  *)

UnitTypes ==
  /\ alive \subseteq Units /\ overtaken \subseteq Keys
  /\ field \in [Keys -> Field] /\ server \in [Keys -> Field]
  /\ units \in [TableIndex -> Entry \cup {None}]

PlayerTypes ==
  /\ playerField \in [PlayerSlots -> Field] /\ playerServer \in [PlayerSlots -> Field]
  /\ itemField \in [Items -> Field] /\ itemServer \in [Items -> Field]
  /\ equipField \in [PlayerSlots -> Items \cup {0}]
  /\ equip_guids \in [PlayerSlots -> Items \cup {0}]
  /\ last_value \in [PlayerSlots -> Field]
  /\ bound \in {"no", "yes", "stale"}
  /\ player \in [PlayerSlots -> PlayerEntry \cup {None}]
  /\ lapsed \subseteq PlayerSlots /\ carried \subseteq PlayerSlots

LEMMA TypesInParts == TypeOK <=> UnitTypes /\ PlayerTypes /\ flushing \in Step /\ PENDING \in BOOLEAN
  BY DEF TypeOK, UnitTypes, PlayerTypes

(* The least of a set of naturals.                                         *)
LEMMA LeastOf ==
  ASSUME NEW S \in SUBSET Nat, S # {}
  PROVE  Min(S) \in S /\ \A y \in S : Min(S) <= y
  <1> DEFINE R == OpToRel(<, Nat)
  <1>1. IsWellFoundedOn(R, Nat)
    BY NatLessThanWellFounded
  <1>2. PICK x \in S : \A y \in Nat : <<y, x>> \in R => y \notin S
    <2> HIDE DEF R
    <2> QED BY <1>1, WFMin, Zenon
  <1>3. \A y \in S : x <= y
    <2> SUFFICES ASSUME NEW y \in S, ~(x <= y) PROVE FALSE
      OBVIOUS
    <2>1. y < x /\ x \in Nat /\ y \in Nat
      OBVIOUS
    <2>2. <<y, x>> \in R
      BY <2>1 DEF OpToRel
    <2> QED BY <1>2, <2>1, <2>2
  <1> QED BY <1>3 DEF Min

(* Where a probe looks is an index of the table.                           *)
LEMMA ProbesTheTable ==
  ASSUME NEW k \in Keys, NEW s \in 0 .. UNIT_PROBE_LIMIT - 1
  PROVE  ProbeAt(k, s) \in TableIndex
  <1>1. Bucket[k] \in Nat /\ s \in Nat /\ UNIT_TABLE_LEN \in Nat \ {0}
    BY TransmogAssumption DEF TableIndex
  <1>2. \A a \in Nat : a % UNIT_TABLE_LEN \in 0 .. UNIT_TABLE_LEN - 1
    BY <1>1
  <1> QED BY <1>1, <1>2 DEF ProbeAt, TableIndex

LEMMA FirstOfProbe ==
  ASSUME NEW k \in Keys, NEW steps \in SUBSET (0 .. UNIT_PROBE_LIMIT - 1), steps # {}
  PROVE  /\ First(k, steps) \in TableIndex
         /\ \E s \in steps : First(k, steps) = ProbeAt(k, s)
  <1>1. steps \in SUBSET Nat
    OBVIOUS
  <1>2. Min(steps) \in steps
    BY <1>1, LeastOf
  <1> QED BY <1>2, ProbesTheTable DEF First

-----------------------------------------------------------------------------
(* What a write to a unit does to its field and to the table.              *)

EntryAt(i, k) == i \in TableIndex /\ units[i] # None /\ units[i].key = k

Shown(k, v) ==
  /\ v # 0 /\ StockWrite(k, v)
  /\ \/ units' = units /\ unit_find(k) = {}
     \/ \E i \in TableIndex : EntryAt(i, k) /\ units' = [units EXCEPT ![i] = None]

Passed(k, v) ==
  /\ v = 0 /\ StockWrite(k, 0) /\ units' = units
  /\ field[k] = 0 \/ unit_find(k) = {}

Renewed(k, v) ==
  /\ v = 0 /\ field' = field /\ field[k] # 0
  /\ \E i \in TableIndex : EntryAt(i, k) /\ units' = [units EXCEPT ![i].age = 0]

Remembered(k, v) ==
  /\ v = 0 /\ field' = field /\ field[k] # 0 /\ unit_find(k) = {}
  /\ \E s \in 0 .. UNIT_PROBE_LIMIT - 1 :
       units[ProbeAt(k, s)] = None /\ units' = [units EXCEPT ![ProbeAt(k, s)] = Fresh(k)]

LEMMA WriteEffect ==
  ASSUME UnitTypes, NEW k \in Keys, NEW v, UnitShows(k, v) \/ UnitBlanks(k, v)
  PROVE  Shown(k, v) \/ Passed(k, v) \/ Renewed(k, v) \/ Remembered(k, v)
  <1> DEFINE found == unit_find(k)
             free == Free(k)
  <1>1. found # {} => EntryAt(First(k, found), k)
    <2> SUFFICES ASSUME found # {} PROVE EntryAt(First(k, found), k)
      OBVIOUS
    <2>1. found \in SUBSET (0 .. UNIT_PROBE_LIMIT - 1)
      BY DEF unit_find
    <2>2. \A s \in found : units[ProbeAt(k, s)] # None /\ units[ProbeAt(k, s)].key = k
      BY DEF unit_find
    <2> QED BY <2>1, <2>2, FirstOfProbe DEF EntryAt
  <1>2. free # {} => \E s \in 0 .. UNIT_PROBE_LIMIT - 1 :
                       First(k, free) = ProbeAt(k, s) /\ units[ProbeAt(k, s)] = None
    <2> SUFFICES ASSUME free # {}
                 PROVE  \E s \in 0 .. UNIT_PROBE_LIMIT - 1 :
                          First(k, free) = ProbeAt(k, s) /\ units[ProbeAt(k, s)] = None
      OBVIOUS
    <2>1. free \in SUBSET (0 .. UNIT_PROBE_LIMIT - 1)
      BY DEF Free
    <2>2. \A s \in free : units[ProbeAt(k, s)] = None
      BY DEF Free
    <2> QED BY <2>1, <2>2, FirstOfProbe
  <1> HIDE DEF found, free
  <1>3. ASSUME UnitShows(k, v) PROVE Shown(k, v)
    <2> DEFINE idx == First(k, found)
    <2>1. /\ v # 0
          /\ units' = IF found = {} THEN units ELSE [units EXCEPT ![idx] = None]
          /\ StockWrite(k, v) \/ (field' = field /\ field[k] = v)
      BY <1>3 DEF UnitShows, found
    <2>2. StockWrite(k, v)
      BY <2>1 DEF StockWrite, UnitTypes
    <2>3. found # {} => idx \in TableIndex
      BY <1>1 DEF EntryAt
    <2> QED BY <1>1, <2>1, <2>2, <2>3 DEF Shown, found
  <1>4. ASSUME UnitBlanks(k, v) PROVE Passed(k, v) \/ Renewed(k, v) \/ Remembered(k, v)
    <2> DEFINE idx == First(k, found)
               gap == First(k, free)
    <2>1. /\ v = 0
          /\ \/ units' = units /\ StockWrite(k, 0) /\ (field[k] = 0 \/ found = {})
             \/ /\ found # {} /\ field[k] # 0
                /\ units' = [units EXCEPT ![idx].age = 0] /\ field' = field
             \/ /\ found = {} /\ free # {} /\ field[k] # 0
                /\ units' = [units EXCEPT ![gap] = Fresh(k)] /\ field' = field
      BY <1>4 DEF UnitBlanks, found, free
    <2>2. CASE units' = units /\ StockWrite(k, 0) /\ (field[k] = 0 \/ found = {})
      BY <2>1, <2>2 DEF Passed, found
    <2>3. CASE /\ found # {} /\ field[k] # 0
               /\ units' = [units EXCEPT ![idx].age = 0] /\ field' = field
      <3>1. EntryAt(idx, k) /\ idx \in TableIndex
        BY <1>1, <2>3 DEF EntryAt
      <3> QED BY <2>1, <2>3, <3>1 DEF Renewed
    <2>4. CASE /\ found = {} /\ free # {} /\ field[k] # 0
               /\ units' = [units EXCEPT ![gap] = Fresh(k)] /\ field' = field
      BY <1>2, <2>1, <2>4 DEF Remembered, found
    <2> QED BY <2>1, <2>2, <2>3, <2>4
  <1> QED BY <1>3, <1>4

LEMMA WriteTypes ==
  ASSUME UnitTypes, NEW k \in Keys, NEW v \in Field, UnitShows(k, v) \/ UnitBlanks(k, v)
  PROVE  field' \in [Keys -> Field] /\ units' \in [TableIndex -> Entry \cup {None}]
  <1>1. 0 \in Field /\ 0 \in 0 .. RESTORE_WINDOW + FLUSH_TICKS /\ Fresh(k) \in Entry
    BY TransmogAssumption DEF Field, Fresh, Entry
  <1>2. \A i : EntryAt(i, k) => [units[i] EXCEPT !.age = 0] \in Entry
    BY <1>1 DEF EntryAt, UnitTypes, Entry
  <1>3. CASE Shown(k, v)
    BY <1>3 DEF Shown, StockWrite, UnitTypes
  <1>4. CASE Passed(k, v)
    BY <1>1, <1>4 DEF Passed, StockWrite, UnitTypes
  <1>5. CASE Renewed(k, v)
    BY <1>2, <1>5 DEF Renewed, UnitTypes
  <1>6. CASE Remembered(k, v)
    BY <1>1, <1>6, ProbesTheTable DEF Remembered, UnitTypes
  <1> QED BY <1>3, <1>4, <1>5, <1>6, WriteEffect

-----------------------------------------------------------------------------
(* What a write to the player keeps.                                       *)

LEMMA DecideTypes ==
  ASSUME PlayerTypes, NEW p \in PlayerSlots, NEW v \in Field,
         NEW last \in [PlayerSlots -> Field], NEW equip \in [PlayerSlots -> Items \cup {0}],
         NEW binds, PlayerDecides(p, v, last, equip, binds)
  PROVE  /\ playerField' \in [PlayerSlots -> Field] /\ itemField' \in [Items -> Field]
         /\ last_value' \in [PlayerSlots -> Field]
         /\ player' \in [PlayerSlots -> PlayerEntry \cup {None}]
         /\ carried' \subseteq PlayerSlots
  <1>0. carried' \subseteq carried \cup {p} /\ carried \subseteq PlayerSlots
    BY DEF PlayerDecides, PlayerTypes
  <1>1. 0 \in Field
    BY DEF Field
  <1>2. CASE PlayerShowsNew(p, v, last)
    BY <1>0, <1>2 DEF PlayerShowsNew, PlayerTypes
  <1>3. CASE PlayerRestores(p, v, last, equip)
    <2>1. /\ player' = [player EXCEPT ![p] = None] /\ last_value' = last
          /\ \/ playerField' = [playerField EXCEPT ![p] = v] /\ itemField' = itemField
             \/ playerField' = playerField /\ Deliver(equip[p], player[p].parked)
      BY <1>3 DEF PlayerRestores
    <2>2. Deliver(equip[p], player[p].parked) => itemField' \in [Items -> Field]
      <3>1. player[p] \in PlayerEntry /\ equip[p] \in Items \cup {0}
        BY <1>3 DEF PlayerRestores, PlayerTypes
      <3>2. player[p].parked # NotParked => player[p].parked \in Field
        BY <3>1 DEF PlayerEntry
      <3> QED BY <3>1, <3>2 DEF Deliver, PlayerTypes
    <2> QED BY <1>0, <2>1, <2>2 DEF PlayerTypes
  <1>4. CASE PlayerEmpties(p, v, last, equip, binds)
    BY <1>0, <1>1, <1>4 DEF PlayerEmpties, PlayerTypes
  <1>5. CASE PlayerBlanks(p, v, last, equip, binds)
    <2>1. last[p] \in Values
      BY <1>5 DEF PlayerBlanks, Field
    <2>2. Zeroed(last[p]) \in PlayerEntry
      BY <2>1, TransmogAssumption DEF Zeroed, PlayerEntry
    <2> QED BY <1>0, <1>5, <2>2 DEF PlayerBlanks, PlayerTypes
  <1> QED BY <1>2, <1>3, <1>4, <1>5 DEF PlayerDecides

LEMMA MirroredTypes ==
  ASSUME PlayerTypes, NEW found
  PROVE  /\ Mirrored(last_value, playerField, found) \in [PlayerSlots -> Field]
         /\ Mirrored(equip_guids, equipField, found) \in [PlayerSlots -> Items \cup {0}]
  BY DEF Mirrored, PlayerTypes

LEMMA ServerTypes ==
  ASSUME TypeOK, ServerWrites
  PROVE  TypeOK'
  <1>0. UnitTypes /\ PlayerTypes /\ flushing \in Step /\ PENDING \in BOOLEAN
    BY TypesInParts
  <1>1. SUFFICES UnitTypes' /\ PlayerTypes' /\ flushing' \in Step /\ PENDING' \in BOOLEAN
    BY DEF TypeOK, UnitTypes, PlayerTypes
  <1>2. CASE \E k \in Keys, v \in Field : UnitWrite(k, v)
    <2>1. PICK k \in Keys, v \in Field : UnitWrite(k, v)
      BY <1>2
    <2>2. field' \in [Keys -> Field] /\ units' \in [TableIndex -> Entry \cup {None}]
      BY <1>0, <2>1, WriteTypes DEF UnitWrite
    <2>3. UnitTypes'
      BY <1>0, <2>1, <2>2 DEF UnitWrite, UnitTypes
    <2>4. PlayerTypes' /\ flushing' \in Step /\ PENDING' \in BOOLEAN
      BY <1>0, <2>1 DEF UnitWrite, PlayerTypes, playerVars
    <2> QED BY <2>3, <2>4
  <1>3. CASE \E p \in PlayerSlots, v \in Field, found \in BOOLEAN : PlayerWrite(p, v, found)
    <2>1. PICK p \in PlayerSlots, v \in Field, found \in BOOLEAN : PlayerWrite(p, v, found)
      BY <1>3
    <2>2. UnitTypes' /\ flushing' \in Step /\ PENDING' \in BOOLEAN
      BY <1>0, <2>1 DEF PlayerWrite, UnitTypes, unitVars
    <2> DEFINE last == Mirrored(last_value, playerField, found)
               equip == Mirrored(equip_guids, equipField, found)
    <2>3. /\ PlayerDecides(p, v, last, equip, Binds(found))
          /\ equip_guids' = equip /\ bound' \in {"no", "yes"}
          /\ playerServer' = [playerServer EXCEPT ![p] = v]
          /\ lapsed' \subseteq lapsed
          /\ UNCHANGED <<equipField, itemServer>>
      BY <2>1 DEF PlayerWrite
    <2>4. last \in [PlayerSlots -> Field] /\ equip \in [PlayerSlots -> Items \cup {0}]
      BY <1>0, MirroredTypes
    <2> HIDE DEF last, equip
    <2>5. /\ playerField' \in [PlayerSlots -> Field] /\ itemField' \in [Items -> Field]
          /\ last_value' \in [PlayerSlots -> Field]
          /\ player' \in [PlayerSlots -> PlayerEntry \cup {None}]
          /\ carried' \subseteq PlayerSlots
      BY <1>0, <2>3, <2>4, DecideTypes
    <2>6. PlayerTypes'
      BY <1>0, <2>3, <2>4, <2>5 DEF PlayerTypes
    <2> QED BY <2>2, <2>6
  <1>4. CASE \E p \in PlayerSlots, item \in Items \cup {0}, found \in BOOLEAN :
               InvGuidWrite(p, item, found)
    <2>1. PICK p \in PlayerSlots, item \in Items \cup {0}, found \in BOOLEAN :
            InvGuidWrite(p, item, found)
      BY <1>4
    <2>2. UnitTypes' /\ flushing' \in Step /\ PENDING' \in BOOLEAN
      BY <1>0, <2>1 DEF InvGuidWrite, UnitTypes, unitVars
    <2> DEFINE last == Mirrored(last_value, playerField, found)
    <2>3. last \in [PlayerSlots -> Field] /\ 0 \in Field
      BY <1>0, MirroredTypes DEF Field
    <2>4. /\ equip_guids' = [Mirrored(equip_guids, equipField, found) EXCEPT ![p] = item]
          /\ equipField' = [equipField EXCEPT ![p] = item]
          /\ carried' \subseteq carried /\ bound' \in {"no", "yes"}
          /\ UNCHANGED <<playerServer, itemField, itemServer, lapsed>>
          /\ ApplyZeroFirst(p, last) \/ (last_value' = last /\ UNCHANGED <<player, playerField>>)
      BY <2>1 DEF InvGuidWrite
    <2>5. equip_guids' \in [PlayerSlots -> Items \cup {0}]
      BY <1>0, <2>4, MirroredTypes
    <2> HIDE DEF last
    <2>6. PlayerTypes'
      BY <1>0, <2>3, <2>4, <2>5 DEF PlayerTypes, ApplyZeroFirst
    <2> QED BY <2>2, <2>6
  <1>5. CASE \E item \in Items, x \in Field : ItemWrite(item, x)
    <2>1. PICK item \in Items, x \in Field : ItemWrite(item, x)
      BY <1>5
    <2>2. UnitTypes' /\ flushing' \in Step /\ PENDING' \in BOOLEAN
      BY <1>0, <2>1 DEF ItemWrite, UnitTypes, unitVars
    <2>3. player' \in [PlayerSlots -> PlayerEntry \cup {None}] /\ itemField' \in [Items -> Field]
      <3> DEFINE slots == {p \in PlayerSlots : equip_guids[p] = item /\ player[p] # None}
      <3>1. \/ /\ player' = [p \in PlayerSlots |-> IF p \in slots
                               THEN [player[p] EXCEPT !.parked = x, !.age = 0] ELSE player[p]]
               /\ itemField' = itemField
            \/ itemField' = [itemField EXCEPT ![item] = x] /\ player' = player
        BY <2>1 DEF ItemWrite
      <3>2. \A p \in slots : [player[p] EXCEPT !.parked = x, !.age = 0] \in PlayerEntry
        <4>1. \A e \in PlayerEntry : [e EXCEPT !.parked = x, !.age = 0] \in PlayerEntry
          <5>1. 0 \in 0 .. PLAYER_PENDING_TTL + FLUSH_TICKS
            BY TransmogAssumption
          <5> QED BY <5>1 DEF PlayerEntry
        <4>2. \A p \in slots : player[p] \in PlayerEntry
          BY <1>0 DEF PlayerTypes
        <4> QED BY <4>1, <4>2
      <3> HIDE DEF slots
      <3>3. CASE /\ player' = [p \in PlayerSlots |-> IF p \in slots
                               THEN [player[p] EXCEPT !.parked = x, !.age = 0] ELSE player[p]]
                 /\ itemField' = itemField
        <4>1. player' \in [PlayerSlots -> PlayerEntry \cup {None}]
          BY <1>0, <3>2, <3>3 DEF PlayerTypes
        <4> QED BY <1>0, <3>3, <4>1 DEF PlayerTypes
      <3>4. CASE itemField' = [itemField EXCEPT ![item] = x] /\ player' = player
        BY <1>0, <3>4 DEF PlayerTypes
      <3> QED BY <3>1, <3>3, <3>4
    <2>4. itemServer' \in [Items -> Field]
      BY <1>0, <2>1 DEF ItemWrite, PlayerTypes
    <2>5. PlayerTypes'
      BY <1>0, <2>1, <2>3, <2>4 DEF PlayerTypes, ItemWrite
    <2> QED BY <2>2, <2>5
  <1> QED BY <1>2, <1>3, <1>4, <1>5 DEF ServerWrites

LEMMA ObjectTypes ==
  ASSUME TypeOK, Objects
  PROVE  TypeOK'
  <1>1. 0 \in Field
    BY DEF Field
  <1>2. CASE \E u \in Units : UnitGone(u)
    BY <1>2 DEF UnitGone, TypeOK, playerVars
  <1>3. CASE \E u \in Units : UnitAppears(u)
    BY <1>1, <1>3 DEF UnitAppears, TypeOK, playerVars
  <1>4. CASE PlayerReplaced
    BY <1>1, <1>4 DEF PlayerReplaced, TypeOK, unitVars
  <1> QED BY <1>2, <1>3, <1>4 DEF Objects

(* The places of a flush.                                                  *)
LEMMA Places ==
  ASSUME flushing \in Step
  PROVE  /\ flushing.pc \in {"resting", "begin", "due", "remove", "apply"}
         /\ flushing = Resting <=> flushing.pc = "resting"
         /\ flushing # Resting => flushing.late \in Late
         /\ flushing.pc = "begin" => flushing = [pc |-> "begin", late |-> flushing.late]
         /\ flushing.pc = "due" =>
              /\ flushing.from \in 0 .. UNIT_TABLE_LEN
              /\ flushing = [pc |-> "due", from |-> flushing.from, late |-> flushing.late]
         /\ flushing.pc \in {"remove", "apply"} =>
              /\ flushing.idx \in TableIndex /\ flushing.key \in Keys
              /\ flushing = [pc |-> flushing.pc, idx |-> flushing.idx, key |-> flushing.key,
                             late |-> flushing.late]
  BY DEF Step, Resting

(* A tick finds the flush where it was.                                    *)
LEMMA TickPlaces ==
  ASSUME flushing \in Step, Tick
  PROVE  /\ flushing' \in Step
         /\ flushing'.pc = flushing.pc
         /\ flushing.pc = "due" => flushing'.from = flushing.from
         /\ flushing.pc \in {"remove", "apply"} =>
              flushing'.idx = flushing.idx /\ flushing'.key = flushing.key
         /\ flushing # Resting => flushing'.late = flushing.late + 1
  <1>1. CASE flushing = Resting
    BY <1>1 DEF Tick, Resting, Step
  <1>2. CASE flushing # Resting
    <2> DEFINE later == flushing.late + 1
    <2>1. flushing' = [flushing EXCEPT !.late = later] /\ flushing.late < FLUSH_TICKS
      BY <1>2 DEF Tick
    <2>2. later \in Late
      BY <1>2, <2>1, Places, TransmogAssumption DEF Late
    <2> HIDE DEF later
    <2>3. CASE flushing.pc = "begin"
      <3>1. flushing' = [pc |-> "begin", late |-> later]
        BY <2>1, <2>3, Places
      <3> QED BY <2>2, <2>3, <3>1 DEF Step, later
    <2>4. CASE flushing.pc = "due"
      <3>1. flushing' = [pc |-> "due", from |-> flushing.from, late |-> later]
        BY <2>1, <2>4, Places
      <3>2. flushing.from \in 0 .. UNIT_TABLE_LEN
        BY <2>4, Places
      <3> QED BY <2>2, <2>4, <3>1, <3>2 DEF Step, later
    <2>5. CASE flushing.pc \in {"remove", "apply"}
      <3>1. flushing' = [pc |-> flushing.pc, idx |-> flushing.idx, key |-> flushing.key,
                         late |-> later]
        BY <2>1, <2>5, Places
      <3>2. flushing.idx \in TableIndex /\ flushing.key \in Keys
        BY <2>5, Places
      <3> QED BY <2>2, <2>5, <3>1, <3>2 DEF Step, later
    <2> QED BY <1>2, <2>3, <2>4, <2>5, Places
  <1> QED BY <1>1, <1>2

LEMMA FirstDue ==
  ASSUME UnitTypes, NEW from, unit_due(from) # {}
  PROVE  /\ Min(unit_due(from)) \in unit_due(from)
         /\ \A i \in unit_due(from) : Min(unit_due(from)) <= i
         /\ Min(unit_due(from)) \in TableIndex
         /\ units[Min(unit_due(from))] \in Entry
  <1>1. unit_due(from) \in SUBSET TableIndex
    BY DEF unit_due
  <1>2. TableIndex \in SUBSET Nat
    BY TransmogAssumption DEF TableIndex
  <1>3. \A i \in unit_due(from) : units[i] \in Entry
    BY DEF unit_due, UnitTypes
  <1> QED BY <1>1, <1>2, <1>3, LeastOf

LEMMA FlushTypes ==
  ASSUME TypeOK, Flush \/ Tick
  PROVE  TypeOK'
  <1>0. UnitTypes /\ PlayerTypes /\ flushing \in Step /\ PENDING \in BOOLEAN /\ 0 \in Field
    BY TypesInParts DEF Field
  <1>1. SUFFICES UnitTypes' /\ PlayerTypes' /\ flushing' \in Step /\ PENDING' \in BOOLEAN
    BY DEF TypeOK, UnitTypes, PlayerTypes
  <1>2. CASE FlushLooks
    <2>1. [pc |-> "begin", late |-> 0] \in Step
      BY TransmogAssumption DEF Step, Late
    <2> QED BY <1>0, <1>2, <2>1 DEF FlushLooks, UnitTypes, PlayerTypes, unitVars, playerVars
  <1>3. CASE FlushBegins
    <2>1. UnitTypes' /\ PlayerTypes'
      BY <1>0, <1>3 DEF FlushBegins, UnitTypes, PlayerTypes, unitVars
    <2>2. flushing.late \in Late
      BY <1>0, <1>3, Places DEF FlushBegins, Resting
    <2>3. [pc |-> "due", from |-> 0, late |-> flushing.late] \in Step /\ Resting \in Step
      BY <2>2, TransmogAssumption DEF Step
    <2> QED BY <1>3, <2>1, <2>3 DEF FlushBegins, idle
  <1>4. CASE FlushFinds
    <2> DEFINE due == unit_due(flushing.from)
               next == [pc |-> "remove", idx |-> Min(due), key |-> units[Min(due)].key,
                       late |-> flushing.late]
    <2>1. due # {} => next \in Step
      <3> SUFFICES ASSUME due # {} PROVE next \in Step
        OBVIOUS
      <3>1. Min(due) \in TableIndex /\ units[Min(due)].key \in Keys
        BY <1>0, FirstDue DEF Entry
      <3>2. flushing.late \in Late
        BY <1>0, <1>4, Places DEF FlushFinds, Resting
      <3> QED BY <3>1, <3>2 DEF Step
    <2>2. flushing' = IF due = {} THEN Resting ELSE next
      BY <1>4 DEF FlushFinds
    <2>3. flushing' \in Step
      BY <2>1, <2>2 DEF Step
    <2> QED BY <1>0, <1>4, <2>3 DEF FlushFinds, UnitTypes, PlayerTypes, unitVars, playerVars
  <1>5. CASE FlushRemoves
    <2>1. /\ flushing.idx \in TableIndex /\ flushing.key \in Keys /\ flushing.late \in Late
          /\ flushing = [pc |-> "remove", idx |-> flushing.idx, key |-> flushing.key,
                         late |-> flushing.late]
      BY <1>0, <1>5, Places DEF FlushRemoves, Resting
    <2>2. flushing' = [pc |-> "apply", idx |-> flushing.idx, key |-> flushing.key,
                       late |-> flushing.late]
      BY <1>5, <2>1 DEF FlushRemoves
    <2>3. flushing' \in Step
      BY <2>1, <2>2 DEF Step
    <2>4. overtaken' \subseteq Keys
      <3>1. units[flushing.idx] # None => units[flushing.idx].key \in Keys
        BY <1>0, <2>1 DEF UnitTypes, Entry
      <3> QED BY <1>0, <1>5, <3>1 DEF FlushRemoves, UnitTypes
    <2> QED BY <1>0, <1>5, <2>3, <2>4 DEF FlushRemoves, UnitTypes, PlayerTypes, playerVars
  <1>6. CASE FlushApplies
    <2>1. flushing.idx \in TableIndex /\ flushing.late \in Late
      BY <1>0, <1>6, Places DEF FlushApplies, Resting
    <2>2. Onward \in Step
      BY <2>1, TransmogAssumption DEF Onward, Step, TableIndex
    <2> QED BY <1>0, <1>6, <2>2 DEF FlushApplies, UnitTypes, PlayerTypes, playerVars, StockWrite
  <1>7. CASE Tick
    <2> DEFINE W == RESTORE_WINDOW + FLUSH_TICKS
               T == PLAYER_PENDING_TTL + FLUSH_TICKS
    <2>1. \A age \in 0 .. W : Older(age, W) \in 0 .. W
      BY TransmogAssumption DEF Older
    <2>2. \A age \in 0 .. T : Older(age, T) \in 0 .. T
      BY TransmogAssumption DEF Older
    <2>3. units' \in [TableIndex -> Entry \cup {None}]
      <3>1. \A i \in TableIndex : units[i] # None =>
              [units[i] EXCEPT !.age = Older(units[i].age, W)] \in Entry
        BY <1>0, <2>1 DEF UnitTypes, Entry
      <3>2. units' = [i \in TableIndex |-> IF units[i] = None THEN None
                 ELSE [units[i] EXCEPT !.age = Older(units[i].age, W)]]
        BY <1>7 DEF Tick
      <3> QED BY <3>1, <3>2
    <2>4. player' \in [PlayerSlots -> PlayerEntry \cup {None}]
      <3>1. \A p \in PlayerSlots : player[p] # None =>
              [player[p] EXCEPT !.age = Older(player[p].age, T)] \in PlayerEntry
        BY <1>0, <2>2 DEF PlayerTypes, PlayerEntry
      <3>2. player' = [p \in PlayerSlots |-> IF player[p] = None THEN None
                  ELSE [player[p] EXCEPT !.age = Older(player[p].age, T)]]
        BY <1>7 DEF Tick
      <3> QED BY <3>1, <3>2
    <2>5. flushing' \in Step
      BY <1>0, <1>7, TickPlaces
    <2> QED BY <1>0, <1>7, <2>3, <2>4, <2>5 DEF Tick, UnitTypes, PlayerTypes
  <1> QED BY <1>2, <1>3, <1>4, <1>5, <1>6, <1>7 DEF Flush

(* The variables keep their types.                                         *)
THEOREM TypeCorrect == Spec => []TypeOK
  <1>1. Init => TypeOK
    <2>1. 0 \in Field
      BY DEF Field
    <2> QED BY <2>1 DEF Init, TypeOK, Step
  <1>2. TypeOK /\ [Next]_vars => TypeOK'
    <2>1. TypeOK /\ UNCHANGED vars => TypeOK'
      BY DEF vars, unitVars, playerVars, TypeOK
    <2> QED BY <2>1, ServerTypes, ObjectTypes, FlushTypes DEF Next
  <1> QED BY <1>1, <1>2, PTL DEF Spec

-----------------------------------------------------------------------------
(* The unit table.  An entry means that zero is what the server wrote      *)
(* last, and so does a key in a flush's hand, unless it was overtaken.     *)

EntryIsZero == \A i \in TableIndex : units[i] # None => server[units[i].key] = 0

BlankIsZero == \A k \in Keys : AboutToBlank(k) => server[k] = 0 \/ k \in overtaken

\* The entry a flush is about to remove is the one it has found, unless the
\* field was written meanwhile.
InPlace ==
  flushing.pc = "remove" /\ flushing.key \notin overtaken =>
    EntryAt(flushing.idx, flushing.key)

UnitInv == OneEntryPerKey /\ EntryIsZero /\ BlankIsZero /\ UnitFieldExplained /\ InPlace

LEMMA NotFoundIsNowhere ==
  ASSUME OneEntryPerKey, NEW k \in Keys, unit_find(k) = {}
  PROVE  \A i \in TableIndex : units[i] # None => units[i].key # k
  <1> SUFFICES ASSUME NEW i \in TableIndex, units[i] # None, units[i].key = k PROVE FALSE
    OBVIOUS
  <1>1. PICK s \in 0 .. UNIT_PROBE_LIMIT - 1 : i = ProbeAt(k, s)
    BY DEF OneEntryPerKey
  <1>2. s \in unit_find(k)
    BY <1>1 DEF unit_find
  <1> QED BY <1>2

(* Which entries there are after a write to k: the other keys' are as they *)
(* were, and k has one only if v is 0.                                     *)
LEMMA WriteEntries ==
  ASSUME TypeOK, UnitInv, NEW k \in Keys, NEW v \in Field, UnitShows(k, v) \/ UnitBlanks(k, v)
  PROVE  /\ \A i \in TableIndex : units[i] # None /\ units[i].key # k =>
              units'[i] # None /\ units'[i].key = units[i].key
         /\ v # 0 => \A i \in TableIndex : units'[i] # None => units'[i].key # k
         /\ \E n \in TableIndex : \A i \in TableIndex : units'[i] # None =>
              \/ units[i] # None /\ units'[i].key = units[i].key
              \/ /\ i = n /\ units'[i].key = k /\ unit_find(k) = {}
                 /\ i \in {ProbeAt(k, s) : s \in 0 .. UNIT_PROBE_LIMIT - 1}
         /\ field' = [field EXCEPT ![k] = v]
            \/ (field' = field /\ v = 0 /\ \E i \in TableIndex : units'[i] # None /\ units'[i].key = k)
  <1>0. /\ units \in [TableIndex -> Entry \cup {None}] /\ UnitTypes
        /\ OneEntryPerKey /\ 0 \in TableIndex
    BY TypesInParts, TransmogAssumption DEF UnitInv, UnitTypes, TableIndex
  <1>1. CASE Shown(k, v)
    <2>1. CASE units' = units /\ unit_find(k) = {}
      BY <1>0, <1>1, <2>1, NotFoundIsNowhere DEF Shown, StockWrite
    <2>2. CASE \E i \in TableIndex : EntryAt(i, k) /\ units' = [units EXCEPT ![i] = None]
      <3>1. PICK j \in TableIndex : EntryAt(j, k) /\ units' = [units EXCEPT ![j] = None]
        BY <2>2
      <3>2. \A i \in TableIndex : units'[i] = IF i = j THEN None ELSE units[i]
        BY <1>0, <3>1
      <3>3. \A i \in TableIndex : units[i] # None /\ units[i].key = k => i = j
        BY <1>0, <3>1 DEF OneEntryPerKey, EntryAt
      <3>4. \A i \in TableIndex : units'[i] # None =>
              units[i] # None /\ units'[i] = units[i] /\ units[i].key # k
        BY <3>2, <3>3
      <3>5. \A i \in TableIndex : units[i] # None /\ units[i].key # k => units'[i] = units[i]
        BY <3>1, <3>2 DEF EntryAt
      <3> QED BY <1>0, <1>1, <3>4, <3>5 DEF Shown, StockWrite
    <2> QED BY <1>1, <2>1, <2>2 DEF Shown
  <1>2. CASE Passed(k, v)
    BY <1>0, <1>2 DEF Passed, StockWrite
  <1>3. CASE Renewed(k, v)
    <2>1. PICK j \in TableIndex : EntryAt(j, k) /\ units' = [units EXCEPT ![j].age = 0]
      BY <1>3 DEF Renewed
    <2>2. \A i \in TableIndex :
            units'[i] = IF i = j THEN [units[j] EXCEPT !.age = 0] ELSE units[i]
      BY <1>0, <2>1
    <2>3. units[j] \in Entry /\ units[j] # None /\ units[j].key = k
      BY <1>0, <2>1 DEF EntryAt
    <2>4. [units[j] EXCEPT !.age = 0].key = k /\ [units[j] EXCEPT !.age = 0] # None
      BY <2>3 DEF Entry, None
    <2>5. units'[j] # None /\ units'[j].key = k
      BY <2>2, <2>4
    <2>6. \A i \in TableIndex : units'[i] # None => units[i] # None /\ units'[i].key = units[i].key
      BY <2>2, <2>3, <2>5
    <2>7. \A i \in TableIndex : units[i] # None /\ units[i].key # k => units'[i] = units[i]
      BY <2>2, <2>3
    <2> QED BY <1>0, <1>3, <2>5, <2>6, <2>7 DEF Renewed
  <1>4. CASE Remembered(k, v)
    <2>1. PICK s \in 0 .. UNIT_PROBE_LIMIT - 1 :
            units[ProbeAt(k, s)] = None /\ units' = [units EXCEPT ![ProbeAt(k, s)] = Fresh(k)]
      BY <1>4 DEF Remembered
    <2> DEFINE j == ProbeAt(k, s)
    <2>2. j \in TableIndex /\ j \in {ProbeAt(k, r) : r \in 0 .. UNIT_PROBE_LIMIT - 1}
      BY ProbesTheTable
    <2>3. Fresh(k) # None /\ Fresh(k).key = k
      BY DEF Fresh, None
    <2> HIDE DEF j
    <2>4. \A i \in TableIndex : units'[i] = IF i = j THEN Fresh(k) ELSE units[i]
      BY <1>0, <2>1, <2>2 DEF j
    <2>5. units[j] = None
      BY <2>1 DEF j
    <2>6. units'[j] # None /\ units'[j].key = k
      BY <2>2, <2>3, <2>4
    <2>7. \A i \in TableIndex : units'[i] # None => i = j \/ units'[i] = units[i]
      BY <2>4
    <2>8. \A i \in TableIndex : units[i] # None => units'[i] = units[i]
      BY <2>4, <2>5
    <2> QED BY <1>0, <1>4, <2>2, <2>6, <2>7, <2>8 DEF Remembered
  <1> QED BY <1>0, <1>1, <1>2, <1>3, <1>4, WriteEffect

LEMMA WriteKeepsUnits ==
  ASSUME TypeOK, UnitInv, NEW k \in Keys, NEW v \in Field, UnitWrite(k, v)
  PROVE  UnitInv'
  <1>0. /\ UnitTypes /\ OneEntryPerKey /\ EntryIsZero /\ BlankIsZero /\ UnitFieldExplained
        /\ UnitShows(k, v) \/ UnitBlanks(k, v)
        /\ server' = [server EXCEPT ![k] = v] /\ alive' = alive /\ flushing' = flushing
    BY TypesInParts DEF UnitInv, UnitWrite
  <1>1. \A i \in TableIndex : units[i] # None /\ units[i].key # k =>
              units'[i] # None /\ units'[i].key = units[i].key
    BY <1>0, WriteEntries
  <1>2. v # 0 => \A i \in TableIndex : units'[i] # None => units'[i].key # k
    BY <1>0, WriteEntries
  <1>3. PICK n \in TableIndex : \A i \in TableIndex : units'[i] # None =>
              \/ units[i] # None /\ units'[i].key = units[i].key
              \/ /\ i = n /\ units'[i].key = k /\ unit_find(k) = {}
                 /\ i \in {ProbeAt(k, s) : s \in 0 .. UNIT_PROBE_LIMIT - 1}
    BY <1>0, WriteEntries
  <1>4. field' = [field EXCEPT ![k] = v]
            \/ (field' = field /\ v = 0 /\ \E i \in TableIndex : units'[i] # None /\ units'[i].key = k)
    BY <1>0, WriteEntries
  <1>5. OneEntryPerKey'
    <2> SUFFICES ASSUME NEW i \in TableIndex, units'[i] # None
                 PROVE  /\ i \in {ProbeAt(units'[i].key, s) : s \in 0 .. UNIT_PROBE_LIMIT - 1}
                        /\ \A j \in TableIndex :
                             units'[j] # None /\ units'[j].key = units'[i].key => i = j
      BY DEF OneEntryPerKey, ProbeAt
    <2>1. i \in {ProbeAt(units'[i].key, s) : s \in 0 .. UNIT_PROBE_LIMIT - 1}
      BY <1>0, <1>3 DEF OneEntryPerKey
    <2>2. ASSUME NEW j \in TableIndex, units'[j] # None, units'[j].key = units'[i].key
          PROVE  i = j
      <3>1. CASE units[i] # None /\ units'[i].key = units[i].key
                 /\ units[j] # None /\ units'[j].key = units[j].key
        BY <1>0, <2>2, <3>1 DEF OneEntryPerKey
      <3>2. CASE unit_find(k) = {}
        <4>1. \A m \in TableIndex : units[m] # None => units[m].key # k
          BY <1>0, <3>2, NotFoundIsNowhere
        <4> QED BY <1>0, <1>3, <2>2, <3>1, <4>1
      <3> QED BY <1>3, <2>2, <3>1, <3>2
    <2> QED BY <2>1, <2>2
  <1>6. EntryIsZero'
    <2> SUFFICES ASSUME NEW i \in TableIndex, units'[i] # None
                 PROVE  server'[units'[i].key] = 0
      BY DEF EntryIsZero
    <2>1. \A k2 \in Keys : server'[k2] = IF k2 = k THEN v ELSE server[k2]
      BY <1>0 DEF UnitTypes
    <2>2. CASE units'[i].key = k
      BY <1>2, <2>1, <2>2
    <2>3. CASE units'[i].key # k
      <3>1. units[i] # None /\ units'[i].key = units[i].key
        BY <1>3, <2>3
      <3>2. units[i].key \in Keys /\ server[units[i].key] = 0
        BY <1>0, <3>1 DEF EntryIsZero, UnitTypes, Entry
      <3> QED BY <2>1, <2>3, <3>1, <3>2
    <2> QED BY <2>2, <2>3
  <1>7. BlankIsZero' /\ UnitFieldExplained'
    <2>1. \A k2 \in Keys : AboutToBlank(k2)' <=> AboutToBlank(k2)
      BY <1>0 DEF AboutToBlank
    <2>2. overtaken' = IF AboutToBlank(k) THEN overtaken \cup {k} ELSE overtaken \ {k}
      BY DEF UnitWrite
    <2>3. \A k2 \in Keys : k2 # k => (k2 \in overtaken' <=> k2 \in overtaken)
      BY <2>2
    <2>4. \A k2 \in Keys : k2 # k => server'[k2] = server[k2] /\ field'[k2] = field[k2]
      BY <1>0, <1>4 DEF UnitTypes
    <2>5. \A k2 \in Keys : k2 # k /\ HasEntry(k2) => HasEntry(k2)'
      BY <1>1 DEF HasEntry
    <2>6. server'[k] = v /\ (field'[k] = v \/ (v = 0 /\ HasEntry(k)'))
      BY <1>0, <1>4 DEF UnitTypes, HasEntry
    <2>7. BlankIsZero'
      BY <1>0, <2>1, <2>2, <2>3, <2>4 DEF BlankIsZero
    <2>8. UnitFieldExplained'
      BY <1>0, <2>1, <2>3, <2>4, <2>5, <2>6 DEF UnitFieldExplained
    <2> QED BY <2>7, <2>8
  <1>8. InPlace'
    <2> SUFFICES ASSUME flushing.pc = "remove", flushing.key \notin overtaken'
                 PROVE  EntryAt(flushing.idx, flushing.key)'
      BY <1>0 DEF InPlace, EntryAt
    <2>1. overtaken' = IF AboutToBlank(k) THEN overtaken \cup {k} ELSE overtaken \ {k}
      BY DEF UnitWrite
    <2>2. flushing.key # k /\ flushing.key \notin overtaken
      BY <2>1 DEF AboutToBlank
    <2>3. EntryAt(flushing.idx, flushing.key)
      BY <2>2 DEF UnitInv, InPlace
    <2> QED BY <1>0, <1>1, <2>2, <2>3 DEF EntryAt
  <1> QED BY <1>5, <1>6, <1>7, <1>8 DEF UnitInv

LEMMA ObjectsKeepUnits ==
  ASSUME TypeOK, UnitInv, NEW u \in Units, UnitGone(u) \/ UnitAppears(u)
  PROVE  UnitInv'
  <1>0. /\ UnitTypes /\ OneEntryPerKey /\ EntryIsZero /\ BlankIsZero /\ UnitFieldExplained
        /\ units' = units /\ flushing' = flushing
    BY TypesInParts DEF UnitInv, UnitGone, UnitAppears
  <1>1. OneEntryPerKey'
    BY <1>0 DEF OneEntryPerKey, ProbeAt
  <1>2. \A k \in Keys : (AboutToBlank(k)' <=> AboutToBlank(k)) /\ (HasEntry(k)' <=> HasEntry(k))
    BY <1>0 DEF AboutToBlank, HasEntry
  <1>3. InPlace'
    <2>1. AboutToBlank(flushing.key) /\ flushing.key \in overtaken => flushing.key \in overtaken'
      <3>1. CASE UnitGone(u)
        BY <3>1 DEF UnitGone
      <3>2. CASE UnitAppears(u)
        BY <3>2 DEF UnitAppears
      <3> QED BY <3>1, <3>2
    <2> QED BY <1>0, <2>1 DEF UnitInv, InPlace, EntryAt, AboutToBlank
  <1>4. CASE UnitGone(u)
    <2>1. /\ server' = server /\ field' = field /\ overtaken' = overtaken
          /\ alive' = alive \ {u}
      BY <1>4 DEF UnitGone
    <2>2. EntryIsZero' /\ BlankIsZero'
      BY <1>0, <1>2, <2>1 DEF EntryIsZero, BlankIsZero
    <2>3. UnitFieldExplained'
      BY <1>0, <1>2, <2>1 DEF UnitFieldExplained
    <2> QED BY <1>1, <1>3, <2>2, <2>3 DEF UnitInv
  <1>5. CASE UnitAppears(u)
    <2>1. /\ \A k \in Keys : /\ server'[k] = IF k[1] = u THEN 0 ELSE server[k]
                             /\ field'[k] = IF k[1] = u THEN 0 ELSE field[k]
                             /\ k[1] # u => (k \in overtaken' <=> k \in overtaken)
          /\ alive' = alive \cup {u}
      BY <1>5 DEF UnitAppears
    <2>2. EntryIsZero'
      <3>1. \A i \in TableIndex : units[i] # None => units[i].key \in Keys
        BY <1>0 DEF UnitTypes, Entry
      <3> QED BY <1>0, <2>1, <3>1 DEF EntryIsZero
    <2>3. BlankIsZero'
      BY <1>0, <1>2, <2>1 DEF BlankIsZero
    <2>4. UnitFieldExplained'
      BY <1>0, <1>2, <2>1 DEF UnitFieldExplained
    <2> QED BY <1>1, <1>3, <2>2, <2>3, <2>4 DEF UnitInv
  <1> QED BY <1>4, <1>5

LEMMA FlushKeepsUnits ==
  ASSUME TypeOK, UnitInv, Flush
  PROVE  UnitInv'
  <1>0. /\ UnitTypes /\ OneEntryPerKey /\ EntryIsZero /\ BlankIsZero /\ UnitFieldExplained
        /\ flushing \in Step /\ server' = server /\ alive' = alive
    BY TypesInParts DEF UnitInv, Flush, FlushLooks, FlushBegins, FlushFinds, FlushRemoves,
                        FlushApplies, unitVars
  <1>1. ASSUME units' = units, field' = field, overtaken' = overtaken,
               \A k : AboutToBlank(k) => AboutToBlank(k)',
               \A k \in Keys : AboutToBlank(k)' => AboutToBlank(k) \/ server[k] = 0,
               InPlace'
        PROVE  UnitInv'
    <2>1. OneEntryPerKey' /\ EntryIsZero' /\ BlankIsZero'
      BY <1>0, <1>1 DEF OneEntryPerKey, ProbeAt, EntryIsZero, BlankIsZero
    <2>2. \A k : HasEntry(k)' <=> HasEntry(k)
      BY <1>1 DEF HasEntry
    <2>3. UnitFieldExplained'
      BY <1>0, <1>1, <2>2 DEF UnitFieldExplained
    <2> QED BY <1>1, <2>1, <2>3 DEF UnitInv
  <1>2. CASE FlushLooks
    BY <1>1, <1>2 DEF FlushLooks, AboutToBlank, InPlace, unitVars, Resting
  <1>3. CASE FlushBegins
    BY <1>1, <1>3 DEF FlushBegins, AboutToBlank, InPlace, unitVars, Resting
  <1>4. CASE FlushFinds
    <2> DEFINE due == unit_due(flushing.from)
               next == [pc |-> "remove", idx |-> Min(due), key |-> units[Min(due)].key,
                       late |-> flushing.late]
    <2>1. flushing' = (IF due = {} THEN Resting ELSE next) /\ flushing.pc = "due"
      BY <1>4 DEF FlushFinds
    <2>2. due # {} => server[units[Min(due)].key] = 0
      <3> SUFFICES ASSUME due # {} PROVE server[units[Min(due)].key] = 0
        OBVIOUS
      <3>1. Min(due) \in TableIndex /\ units[Min(due)] # None
        BY <1>0, FirstDue DEF unit_due
      <3> QED BY <1>0, <3>1 DEF EntryIsZero
    <2>3. InPlace'
      <3>1. due # {} => EntryAt(Min(due), units[Min(due)].key)
        BY <1>0, FirstDue DEF unit_due, EntryAt
      <3>2. units' = units
        BY <1>4 DEF FlushFinds, unitVars
      <3> HIDE DEF due
      <3> QED BY <2>1, <3>1, <3>2 DEF InPlace, EntryAt, Resting
    <2> HIDE DEF due
    <2>4. \A k \in Keys : AboutToBlank(k)' => server[k] = 0
      BY <2>1, <2>2 DEF AboutToBlank, Resting
    <2>5. \A k : ~AboutToBlank(k)
      BY <2>1 DEF AboutToBlank
    <2> QED BY <1>1, <1>4, <2>3, <2>4, <2>5 DEF FlushFinds, unitVars
  <1>5. CASE FlushRemoves
    <2> DEFINE j == flushing.idx
               e == units[j]
    <2>1. /\ j \in TableIndex /\ flushing.pc = "remove" /\ field' = field
          /\ units' = [units EXCEPT ![j] = None]
          /\ overtaken' = IF e = None \/ e.key = flushing.key THEN overtaken
                          ELSE overtaken \cup {e.key}
      BY <1>0, <1>5, Places DEF FlushRemoves
    <2>2. \A k : AboutToBlank(k)' <=> AboutToBlank(k)
      <3>1. flushing' = [pc |-> "apply", idx |-> flushing.idx, key |-> flushing.key,
                         late |-> flushing.late]
        BY <1>0, <1>5, Places DEF FlushRemoves
      <3> QED BY <2>1, <3>1 DEF AboutToBlank
    <2>3. \A i \in TableIndex : units'[i] = IF i = j THEN None ELSE units[i]
      BY <1>0, <2>1 DEF UnitTypes
    <2>4. OneEntryPerKey'
      <3>1. \A i \in TableIndex : units'[i] # None => units'[i] = units[i] /\ units[i] # None
        BY <2>3
      <3> QED BY <1>0, <3>1 DEF OneEntryPerKey, ProbeAt
    <2>5. EntryIsZero' /\ BlankIsZero'
      BY <1>0, <2>1, <2>2, <2>3 DEF EntryIsZero, BlankIsZero
    <2>6. UnitFieldExplained'
      <3> SUFFICES ASSUME NEW k \in Keys, k[1] \in alive, field[k] # server[k], k \notin overtaken'
                   PROVE  server[k] = 0 /\ (HasEntry(k)' \/ AboutToBlank(k))
        BY <1>0, <2>1, <2>2 DEF UnitFieldExplained
      <3>1. server[k] = 0 /\ (HasEntry(k) \/ AboutToBlank(k))
        BY <1>0, <2>1 DEF UnitFieldExplained
      <3>2. CASE HasEntry(k)
        <4>1. PICK i \in TableIndex : units[i] # None /\ units[i].key = k
          BY <3>2 DEF HasEntry
        <4>2. CASE i # j
          BY <2>3, <3>1, <4>1, <4>2 DEF HasEntry
        <4>3. CASE i = j
          <5>1. e.key = flushing.key
            BY <2>1, <4>1, <4>3
          <5> QED BY <2>1, <3>1, <4>1, <4>3, <5>1 DEF AboutToBlank
        <4> QED BY <4>2, <4>3
      <3> QED BY <3>1, <3>2
    <2>7. InPlace'
      <3>1. flushing'.pc = "apply"
        BY <1>0, <1>5, Places DEF FlushRemoves
      <3> QED BY <3>1 DEF InPlace
    <2> QED BY <2>4, <2>5, <2>6, <2>7 DEF UnitInv
  <1>6. CASE FlushApplies
    <2> DEFINE k0 == flushing.key
    <2>1. /\ k0 \in Keys /\ AboutToBlank(k0) /\ units' = units /\ overtaken' = overtaken
          /\ \A k : AboutToBlank(k) => k = k0
          /\ \A k : ~AboutToBlank(k)'
      BY <1>0, <1>6, Places DEF FlushApplies, AboutToBlank, Onward
    <2>2. /\ k0[1] \in alive => field'[k0] = 0
          /\ \A k \in Keys : k # k0 => field'[k] = field[k]
      BY <1>0, <1>6, <2>1 DEF FlushApplies, StockWrite, UnitTypes
    <2>3. OneEntryPerKey' /\ EntryIsZero' /\ BlankIsZero'
      BY <1>0, <2>1 DEF OneEntryPerKey, ProbeAt, EntryIsZero, BlankIsZero
    <2>4. \A k : HasEntry(k)' <=> HasEntry(k)
      BY <2>1 DEF HasEntry
    <2>5. UnitFieldExplained'
      <3> SUFFICES ASSUME NEW k \in Keys, k[1] \in alive, field'[k] # server[k], k \notin overtaken
                   PROVE  server[k] = 0 /\ HasEntry(k)
        BY <1>0, <2>1, <2>4 DEF UnitFieldExplained
      <3>1. k # k0
        BY <1>0, <2>1, <2>2 DEF BlankIsZero
      <3> QED BY <1>0, <2>1, <2>2, <3>1 DEF UnitFieldExplained
    <2>6. InPlace'
      BY <1>6 DEF FlushApplies, Onward, InPlace
    <2> QED BY <2>3, <2>5, <2>6 DEF UnitInv
  <1> QED BY <1>2, <1>3, <1>4, <1>5, <1>6 DEF Flush

(* The ages aside, a tick changes nothing here.                            *)
LEMMA TickKeepsUnits ==
  ASSUME TypeOK, UnitInv, Tick
  PROVE  UnitInv'
  <1>0. /\ UnitTypes /\ OneEntryPerKey /\ EntryIsZero /\ BlankIsZero /\ UnitFieldExplained
        /\ UNCHANGED <<alive, field, server, overtaken>> /\ flushing \in Step
    BY TypesInParts DEF UnitInv, Tick
  <1>1. \A i \in TableIndex : /\ units'[i] # None <=> units[i] # None
                              /\ units[i] # None => units'[i].key = units[i].key
    <2>1. \A i \in TableIndex : units'[i] = IF units[i] = None THEN None
                 ELSE [units[i] EXCEPT !.age = Older(units[i].age, RESTORE_WINDOW + FLUSH_TICKS)]
      BY DEF Tick
    <2>2. \A e \in Entry : \A age : [e EXCEPT !.age = age].key = e.key /\ [e EXCEPT !.age = age] # None
      BY DEF Entry, None
    <2>3. \A i \in TableIndex : units[i] # None => units[i] \in Entry
      BY <1>0 DEF UnitTypes
    <2> SUFFICES ASSUME NEW i \in TableIndex
                 PROVE  /\ units'[i] # None <=> units[i] # None
                        /\ units[i] # None => units'[i].key = units[i].key
      OBVIOUS
    <2>4. CASE units[i] = None
      BY <2>1, <2>4
    <2>5. CASE units[i] # None
      <3>1. units'[i] = [units[i] EXCEPT !.age = Older(units[i].age, RESTORE_WINDOW + FLUSH_TICKS)]
        BY <2>1, <2>5
      <3> QED BY <2>2, <2>3, <2>5, <3>1
    <2> QED BY <2>4, <2>5
  <1>2. OneEntryPerKey'
    BY <1>0, <1>1 DEF OneEntryPerKey, ProbeAt
  <1>3. \A k : AboutToBlank(k)' <=> AboutToBlank(k)
    BY <1>0, TickPlaces DEF AboutToBlank
  <1>4. EntryIsZero' /\ BlankIsZero'
    BY <1>0, <1>1, <1>3 DEF EntryIsZero, BlankIsZero
  <1>5. \A k : HasEntry(k)' <=> HasEntry(k)
    BY <1>1 DEF HasEntry
  <1>6. UnitFieldExplained'
    BY <1>0, <1>3, <1>5 DEF UnitFieldExplained
  <1>7. InPlace'
    <2> SUFFICES ASSUME flushing.pc = "remove", flushing.key \notin overtaken
                 PROVE  EntryAt(flushing.idx, flushing.key)'
      BY <1>0, TickPlaces DEF InPlace, EntryAt
    <2>1. EntryAt(flushing.idx, flushing.key)
      BY DEF UnitInv, InPlace
    <2>2. flushing'.idx = flushing.idx /\ flushing'.key = flushing.key
      BY <1>0, TickPlaces
    <2> QED BY <1>1, <2>1, <2>2 DEF EntryAt
  <1> QED BY <1>2, <1>4, <1>6, <1>7 DEF UnitInv

LEMMA UnitInvInit ==
  ASSUME Init
  PROVE  UnitInv
  BY DEF Init, UnitInv, OneEntryPerKey, EntryIsZero, BlankIsZero, UnitFieldExplained,
         AboutToBlank, InPlace, Resting

LEMMA UnitInvStep ==
  ASSUME TypeOK, UnitInv, [Next]_vars
  PROVE  UnitInv'
  <1>1. ASSUME UNCHANGED <<unitVars, flushing>> PROVE UnitInv'
    BY <1>1 DEF unitVars, UnitInv, OneEntryPerKey, ProbeAt, EntryIsZero, BlankIsZero,
                UnitFieldExplained, AboutToBlank, HasEntry, InPlace, EntryAt
  <1>2. CASE ServerWrites
    <2>1. CASE \E k \in Keys, v \in Field : UnitWrite(k, v)
      BY <2>1, WriteKeepsUnits
    <2>2. CASE ~\E k \in Keys, v \in Field : UnitWrite(k, v)
      BY <1>1, <1>2, <2>2 DEF ServerWrites, PlayerWrite, InvGuidWrite, ItemWrite
    <2> QED BY <2>1, <2>2
  <1>3. CASE Objects
    BY <1>1, <1>3, ObjectsKeepUnits DEF Objects, PlayerReplaced
  <1>4. CASE Flush \/ Tick
    BY <1>4, FlushKeepsUnits, TickKeepsUnits
  <1>5. CASE UNCHANGED vars
    BY <1>1, <1>5 DEF vars
  <1> QED BY <1>2, <1>3, <1>4, <1>5 DEF Next

LEMMA UnitsAlways == Spec => [](TypeOK /\ UnitInv)
  <1>1. Init => UnitInv
    BY UnitInvInit
  <1>2. TypeOK /\ UnitInv /\ [Next]_vars => UnitInv'
    BY UnitInvStep
  <1> QED BY <1>1, <1>2, TypeCorrect, PTL DEF Spec

(* Whatever comes and goes in the table, a key has one entry at most, and  *)
(* it lies where a probe of its key finds it: OneEntryPerKey.              *)
THEOREM TableIsAProbeTable == Spec => []OneEntryPerKey
  <1>1. UnitInv => OneEntryPerKey
    BY DEF UnitInv
  <1> QED BY <1>1, UnitsAlways, PTL

(* A unit's field shows what the server wrote last, or zero is still to be *)
(* written to it, or a write came in while a flush had its key in hand:    *)
(* UnitFieldExplained.                                                     *)
THEOREM UnitsShowTheServer == Spec => []UnitFieldExplained
  <1>1. UnitInv => UnitFieldExplained
    BY DEF UnitInv
  <1> QED BY <1>1, UnitsAlways, PTL

-----------------------------------------------------------------------------
(* What a flush leaves behind: every entry it has passed was still in its  *)
(* window when the flush read the clock, or was written since.             *)

Young(i) == units[i] # None => units[i].age - flushing.late < RESTORE_WINDOW

Passing ==
  \A i \in TableIndex :
    /\ flushing.pc = "due" /\ i < flushing.from => Young(i)
    /\ flushing.pc = "remove" /\ i < flushing.idx => Young(i)
    /\ flushing.pc = "apply" /\ i <= flushing.idx => Young(i)

FlushLeaves ==
  flushing # Resting /\ flushing' = Resting =>
    \A i \in TableIndex : units[i] # None =>
      units[i].age - flushing.late < RESTORE_WINDOW

LEMMA WritesAreYoung ==
  ASSUME TypeOK, NEW k \in Keys, NEW v, UnitShows(k, v) \/ UnitBlanks(k, v),
         flushing # Resting, flushing' = flushing
  PROVE  \A i \in TableIndex : Young(i) => Young(i)'
  <1>0. UnitTypes /\ units \in [TableIndex -> Entry \cup {None}]
    BY TypesInParts DEF UnitTypes
  <1>1. 0 - flushing.late < RESTORE_WINDOW /\ Fresh(k).age = 0
    <2>1. flushing.late \in Nat
      BY TransmogAssumption, Places DEF TypeOK, Late
    <2> QED BY <2>1, TransmogAssumption DEF Fresh
  <1>2. CASE Shown(k, v)
    BY <1>0, <1>2 DEF Shown, Young
  <1>3. CASE Passed(k, v)
    BY <1>3 DEF Passed, Young
  <1>4. CASE Renewed(k, v)
    <2>1. PICK j \in TableIndex : EntryAt(j, k) /\ units' = [units EXCEPT ![j].age = 0]
      BY <1>4 DEF Renewed
    <2>2. units[j] \in Entry
      BY <1>0, <2>1 DEF EntryAt
    <2>3. [units[j] EXCEPT !.age = 0].age = 0
      BY <2>2 DEF Entry
    <2>4. \A i \in TableIndex :
            units'[i] = IF i = j THEN [units[j] EXCEPT !.age = 0] ELSE units[i]
      BY <1>0, <2>1
    <2>5. units'[j].age - flushing.late < RESTORE_WINDOW
      BY <1>1, <2>3, <2>4
    <2>6. \A i \in TableIndex : i # j => units'[i] = units[i]
      BY <2>4
    <2> QED BY <2>5, <2>6 DEF Young
  <1>5. CASE Remembered(k, v)
    <2>1. PICK j : units' = [units EXCEPT ![j] = Fresh(k)]
      BY <1>5 DEF Remembered
    <2>2. \A i \in TableIndex : units'[i] = IF i = j THEN Fresh(k) ELSE units[i]
      BY <1>0, <2>1
    <2> QED BY <1>1, <2>2 DEF Young
  <1> QED BY <1>0, <1>2, <1>3, <1>4, <1>5, WriteEffect

(* An entry's age and the time since the flush read the clock grow         *)
(* together.                                                               *)
LEMMA TickIsYoung ==
  ASSUME UnitTypes, flushing \in Step, flushing # Resting, Tick
  PROVE  \A i \in TableIndex : Young(i) => Young(i)'
  <1> DEFINE W == RESTORE_WINDOW + FLUSH_TICKS
  <1> SUFFICES ASSUME NEW i \in TableIndex, Young(i), units'[i] # None
               PROVE  units'[i].age - flushing'.late < RESTORE_WINDOW
    BY DEF Young
  <1>1. units[i] # None /\ units'[i] = [units[i] EXCEPT !.age = Older(units[i].age, W)]
    BY DEF Tick
  <1>2. units[i] \in Entry
    BY <1>1 DEF UnitTypes
  <1>3. units'[i].age = Older(units[i].age, W)
    BY <1>1, <1>2 DEF Entry
  <1>4. units[i].age \in Nat /\ RESTORE_WINDOW \in Nat
    BY <1>2, TransmogAssumption DEF Entry
  <1>5. units'[i].age \in Nat /\ units'[i].age <= units[i].age + 1
    BY <1>3, <1>4 DEF Older
  <1>6. flushing.late \in Nat /\ flushing'.late = flushing.late + 1
    BY TickPlaces, Places, TransmogAssumption DEF Late
  <1>7. units[i].age - flushing.late < RESTORE_WINDOW
    BY <1>1 DEF Young
  <1> QED BY <1>4, <1>5, <1>6, <1>7

LEMMA PassingStep ==
  ASSUME TypeOK, Passing, [Next]_vars
  PROVE  Passing' /\ FlushLeaves
  <1>0. UnitTypes /\ flushing \in Step /\ TableIndex \in SUBSET Nat
    BY TypesInParts, TransmogAssumption DEF TableIndex
  <1>1. ASSUME flushing' = flushing,
               flushing # Resting => \A i \in TableIndex : Young(i) => Young(i)'
        PROVE  Passing' /\ FlushLeaves
    BY <1>1 DEF Passing, FlushLeaves, Resting
  <1>2. units' = units /\ flushing' = flushing => \A i \in TableIndex : Young(i) => Young(i)'
    BY DEF Young
  <1>3. CASE ServerWrites \/ Objects \/ UNCHANGED vars
    <2>1. CASE \E k \in Keys, v \in Field : UnitWrite(k, v)
      <3>1. PICK k \in Keys, v \in Field : UnitWrite(k, v)
        BY <2>1
      <3> QED BY <1>1, <3>1, WritesAreYoung DEF UnitWrite
    <2>2. CASE ~\E k \in Keys, v \in Field : UnitWrite(k, v)
      <3>1. units' = units /\ flushing' = flushing
        BY <1>3, <2>2 DEF ServerWrites, Objects, PlayerWrite, InvGuidWrite, ItemWrite,
                          UnitGone, UnitAppears, PlayerReplaced, vars, unitVars
      <3> QED BY <1>1, <1>2, <3>1
    <2> QED BY <2>1, <2>2
  <1>4. CASE Tick
    <2>1. CASE flushing = Resting
      BY <1>4, <2>1 DEF Tick, Passing, FlushLeaves, Resting
    <2>2. CASE flushing # Resting
      <3>1. \A i \in TableIndex : Young(i) => Young(i)'
        BY <1>0, <1>4, <2>2, TickIsYoung
      <3>2. flushing'.pc = flushing.pc /\ flushing' # Resting
        BY <1>0, <1>4, <2>2, TickPlaces, Places DEF Resting
      <3>3. /\ flushing.pc = "due" => flushing'.from = flushing.from
            /\ flushing.pc \in {"remove", "apply"} => flushing'.idx = flushing.idx
        BY <1>0, <1>4, TickPlaces
      <3> QED BY <3>1, <3>2, <3>3 DEF Passing, FlushLeaves
    <2> QED BY <2>1, <2>2
  <1>5. CASE FlushLooks
    BY <1>5 DEF FlushLooks, Passing, FlushLeaves, Resting
  <1>6. CASE FlushBegins
    <2>1. FlushLeaves
      BY <1>6 DEF FlushBegins, FlushLeaves, idle, Resting
    <2>2. Passing'
      <3>1. CASE idle
        <4>1. flushing' = Resting
          BY <1>6, <3>1 DEF FlushBegins
        <4> QED BY <4>1 DEF Passing, Resting
      <3>2. CASE ~idle
        <4>1. flushing' = [pc |-> "due", from |-> 0, late |-> flushing.late]
          BY <1>6, <3>2 DEF FlushBegins
        <4>2. \A i \in TableIndex : ~(i < 0)
          BY <1>0
        <4> QED BY <4>1, <4>2 DEF Passing
      <3> QED BY <3>1, <3>2
    <2> QED BY <2>1, <2>2
  <1>7. CASE FlushFinds
    <2> DEFINE due == unit_due(flushing.from)
    <2>1. flushing.pc = "due" /\ flushing.from \in Nat /\ units' = units
      BY <1>0, <1>7, Places DEF FlushFinds, unitVars
    <2>2. \A i \in TableIndex : i \notin due => Young(i)
      <3> SUFFICES ASSUME NEW i \in TableIndex, i \notin due, units[i] # None
                   PROVE  units[i].age - flushing.late < RESTORE_WINDOW
        BY DEF Young
      <3>1. /\ units[i].age \in Nat /\ RESTORE_WINDOW \in Nat /\ i \in Nat
            /\ flushing.late \in Nat
        BY <1>0, <2>1, TransmogAssumption, Places DEF UnitTypes, Entry, Late, Resting
      <3>2. CASE i < flushing.from
        BY <2>1, <3>2 DEF Passing, Young
      <3>3. CASE i >= flushing.from
        <4>1. ~Over(units[i].age, RESTORE_WINDOW)
          BY <3>3 DEF unit_due
        <4> QED BY <3>1, <4>1 DEF Over
      <3> QED BY <2>1, <3>1, <3>2, <3>3
    <2>3. CASE due = {}
      <3>1. flushing' = Resting
        BY <1>7, <2>3 DEF FlushFinds
      <3> QED BY <2>2, <2>3, <3>1 DEF Passing, FlushLeaves, Young, Resting
    <2>4. CASE due # {}
      <3>1. flushing' = [pc |-> "remove", idx |-> Min(due), key |-> units[Min(due)].key,
                         late |-> flushing.late]
        BY <1>7, <2>4 DEF FlushFinds
      <3>2. \A i \in due : Min(due) <= i
        BY <1>0, <2>4, FirstDue
      <3>3. Min(due) \in Nat
        BY <1>0, <2>4, FirstDue
      <3> HIDE DEF due
      <3>4. \A i \in TableIndex : i < Min(due) => i \notin due
        BY <1>0, <3>2, <3>3
      <3>5. \A i \in TableIndex : i < Min(due) => Young(i)'
        BY <2>1, <2>2, <3>1, <3>4 DEF Young
      <3> QED BY <3>1, <3>5 DEF Passing, FlushLeaves, Resting
    <2> QED BY <2>3, <2>4
  <1>8. CASE FlushRemoves
    <2>1. /\ flushing.pc = "remove" /\ flushing.idx \in TableIndex
          /\ flushing' = [pc |-> "apply", idx |-> flushing.idx, key |-> flushing.key,
                          late |-> flushing.late]
          /\ units' = [units EXCEPT ![flushing.idx] = None]
      BY <1>0, <1>8, Places DEF FlushRemoves
    <2>2. \A i \in TableIndex : i <= flushing.idx => i < flushing.idx \/ i = flushing.idx
      <3>1. flushing.idx \in Nat /\ \A i \in TableIndex : i \in Nat
        BY <1>0, <2>1
      <3> QED BY <3>1
    <2>3. \A i \in TableIndex : i <= flushing.idx => Young(i)'
      BY <1>0, <2>1, <2>2 DEF Passing, Young, UnitTypes
    <2> QED BY <2>1, <2>3 DEF Passing, FlushLeaves, Resting
  <1>9. CASE FlushApplies
    <2>1. /\ flushing.pc = "apply" /\ flushing.idx \in TableIndex
          /\ flushing' = [pc |-> "due", from |-> flushing.idx + 1, late |-> flushing.late]
          /\ units' = units
      BY <1>0, <1>9, Places DEF FlushApplies, Onward
    <2>2. \A i \in TableIndex : i < flushing.idx + 1 => i <= flushing.idx
      <3>1. flushing.idx \in Nat /\ \A i \in TableIndex : i \in Nat
        BY <1>0, <2>1
      <3> QED BY <3>1
    <2>3. \A i \in TableIndex : i < flushing.idx + 1 => Young(i)'
      BY <2>1, <2>2 DEF Passing, Young
    <2> QED BY <2>1, <2>3 DEF Passing, FlushLeaves, Resting
  <1> QED BY <1>3, <1>4, <1>5, <1>6, <1>7, <1>8, <1>9 DEF Next, Flush

(* A flush leaves no entry whose window was over when it read the clock:   *)
(* FlushDrains.                                                            *)
THEOREM FlushLeavesNothingDue == Spec => FlushDrains
  <1>1. Init => Passing
    BY DEF Init, Passing, Resting
  <1>2. TypeOK /\ Passing /\ [Next]_vars => Passing' /\ FlushLeaves
    BY PassingStep
  <1>3. FlushLeaves => [flushing # Resting /\ flushing' = Resting =>
          \A i \in TableIndex : units[i] # None =>
            units[i].age - flushing.late < RESTORE_WINDOW]_vars
    BY DEF FlushLeaves
  <1> QED BY <1>1, <1>2, <1>3, TypeCorrect, PTL DEF Spec, FlushDrains

-----------------------------------------------------------------------------
(* The flag is never clear while a zero is pending.                        *)

LEMMA FlagStep ==
  ASSUME TypeOK, FlagHonest, [Next]_vars
  PROVE  FlagHonest'
  <1>0. units \in [TableIndex -> Entry \cup {None}] /\ PENDING \in BOOLEAN
    BY DEF TypeOK
  <1>1. CASE PENDING'
    BY <1>1 DEF FlagHonest
  <1>2. ASSUME PENDING' = PENDING,
               \A i \in TableIndex : units'[i] # None => units[i] # None,
               \A p \in PlayerSlots : player'[p] # None => player[p] # None
        PROVE  FlagHonest'
    BY <1>2 DEF FlagHonest
  <1>3. CASE ServerWrites
    <2>1. PENDING' \/ (PENDING' = PENDING /\ units' = units /\ player' = player)
      <3>1. CASE \E item \in Items, x \in Field : ItemWrite(item, x)
        <4>1. CASE bound = "no"
          BY <1>0, <3>1, <4>1 DEF ItemWrite, unitVars
        <4>2. CASE bound # "no"
          BY <3>1, <4>2 DEF ItemWrite
        <4> QED BY <4>1, <4>2
      <3>2. CASE ~\E item \in Items, x \in Field : ItemWrite(item, x)
        BY <1>3, <3>2 DEF ServerWrites, UnitWrite, PlayerWrite, InvGuidWrite
      <3> QED BY <3>1, <3>2
    <2> QED BY <1>1, <1>2, <2>1
  <1>4. CASE Objects \/ UNCHANGED vars
    <2>1. PENDING' = PENDING /\ units' = units /\ player' = player
      BY <1>4 DEF Objects, UnitGone, UnitAppears, PlayerReplaced, unitVars, playerVars, vars
    <2> QED BY <1>2, <2>1
  <1>5. CASE FlushLooks \/ FlushFinds \/ FlushApplies
    <2>1. PENDING' = PENDING /\ units' = units /\ player' = player
      BY <1>5 DEF FlushLooks, FlushFinds, FlushApplies, unitVars, playerVars
    <2> QED BY <1>2, <2>1
  <1>6. CASE FlushBegins
    <2>1. /\ PENDING' = ~idle /\ units' = units
          /\ \A p \in PlayerSlots : player'[p] # None => player[p] # None
      BY <1>6 DEF FlushBegins, unitVars
    <2> QED BY <2>1 DEF FlagHonest, idle
  <1>7. CASE FlushRemoves
    <2>1. /\ PENDING' = PENDING /\ player' = player
          /\ \A i \in TableIndex : units'[i] # None => units[i] # None
      BY <1>0, <1>7 DEF FlushRemoves, playerVars
    <2> QED BY <1>2, <2>1
  <1>8. CASE Tick
    <2>1. /\ PENDING' = PENDING
          /\ \A i \in TableIndex : units'[i] # None => units[i] # None
          /\ \A p \in PlayerSlots : player'[p] # None => player[p] # None
      BY <1>8 DEF Tick
    <2> QED BY <1>2, <2>1
  <1> QED BY <1>3, <1>4, <1>5, <1>6, <1>7, <1>8 DEF Next, Flush

(* The flag a flush reads without the lock is set whenever there is a zero *)
(* to write: FlagHonest.                                                   *)
THEOREM FlagIsHonest == Spec => []FlagHonest
  <1>1. Init => FlagHonest
    BY DEF Init, FlagHonest
  <1>2. TypeOK /\ FlagHonest /\ [Next]_vars => FlagHonest'
    BY FlagStep
  <1> QED BY <1>1, <1>2, TypeCorrect, PTL DEF Spec

-----------------------------------------------------------------------------
(* The player's slots.  A pending zero stands for the server's, and what   *)
(* it blanks is what was shown; one that came to a bound player finds its  *)
(* slot taken.                                                             *)

SlotInv(p) ==
  /\ player[p] # None =>
       /\ playerServer[p] = 0
       /\ playerField[p] \in {0, player[p].value}
       /\ last_value[p] \in {0, player[p].value}
  /\ bound = "yes" => last_value[p] \in {0, playerField[p]}
  /\ last_value[p] = 0 \/ playerField[p] \in {0, last_value[p]}
  /\ player[p] # None /\ p \notin carried =>
       /\ bound = "yes" /\ equip_guids[p] # 0
       /\ player[p].value = playerField[p] /\ player[p].value = last_value[p]

PlayerInv ==
  /\ bound = "yes" => equip_guids = equipField
  /\ \A p \in PlayerSlots : SlotInv(p)
  /\ PlayerFieldExplained

ExplainedAt(p) ==
  playerField[p] # playerServer[p] =>
    \/ playerServer[p] = 0 /\ (player[p] # None \/ p \in lapsed)
    \/ p \in carried

LEMMA SlotsInParts ==
  ASSUME PlayerInv, NEW p \in PlayerSlots
  PROVE  SlotInv(p) /\ ExplainedAt(p)
  BY DEF PlayerInv, PlayerFieldExplained, ExplainedAt

(* What ensure_bound leaves in the mirrors, of slot p.                     *)
BoundSlot(p, last, equip, binds) ==
  /\ binds => last[p] \in {0, playerField[p]}
  /\ last[p] = 0 \/ playerField[p] \in {0, last[p]}
  /\ player[p] # None => last[p] \in {0, player[p].value}
  /\ player[p] # None /\ p \notin carried =>
       binds /\ equip[p] # 0 /\ player[p].value = playerField[p] /\ player[p].value = last[p]

LEMMA Bound ==
  ASSUME PlayerInv, NEW p \in PlayerSlots, NEW found,
         NEW last, last = Mirrored(last_value, playerField, found),
         NEW equip, equip = Mirrored(equip_guids, equipField, found)
  PROVE  /\ Binds(found) => equip = equipField
         /\ BoundSlot(p, last, equip, Binds(found))
  <1>1. SlotInv(p)
    BY SlotsInParts
  <1>2. CASE bound = "yes"
    <2>1. last = last_value /\ equip = equip_guids
      BY <1>2 DEF Mirrored
    <2>2. equip_guids = equipField
      BY <1>2 DEF PlayerInv
    <2> QED BY <1>1, <1>2, <2>1, <2>2 DEF SlotInv, BoundSlot, Binds
  <1>3. CASE bound # "yes" /\ found
    <2>1. last = playerField /\ equip = equipField
      BY <1>3 DEF Mirrored
    <2> QED BY <1>1, <1>3, <2>1 DEF SlotInv, BoundSlot, Binds
  <1>4. CASE bound # "yes" /\ ~found
    <2>1. last = last_value /\ equip = equip_guids /\ ~Binds(found)
      BY <1>4 DEF Mirrored, Binds
    <2> QED BY <1>1, <1>4, <2>1 DEF SlotInv, BoundSlot
  <1> QED BY <1>2, <1>3, <1>4

(* What a write decides for its slot keeps the invariant there.            *)
LEMMA DecideKeepsSlot ==
  ASSUME PlayerTypes, NEW p \in PlayerSlots, NEW v \in Field,
         NEW last \in [PlayerSlots -> Field], NEW equip, NEW binds \in BOOLEAN,
         SlotInv(p), ExplainedAt(p), BoundSlot(p, last, equip, binds),
         PlayerDecides(p, v, last, equip, binds),
         equip_guids'[p] = equip[p], playerServer'[p] = v,
         bound' = IF binds THEN "yes" ELSE "no"
  PROVE  SlotInv(p)' /\ ExplainedAt(p)'
  <1>1. bound' = "yes" <=> binds
    OBVIOUS
  <1>2. CASE PlayerShowsNew(p, v, last)
    <2>1. player'[p] = None /\ last_value'[p] = v /\ playerField'[p] = v
      BY <1>2 DEF PlayerShowsNew, PlayerTypes
    <2> QED BY <2>1 DEF SlotInv, ExplainedAt
  <1>3. CASE PlayerRestores(p, v, last, equip)
             /\ carried' = IF playerField'[p] = v THEN carried \ {p} ELSE carried
    <2>1. /\ player'[p] = None /\ last_value' = last /\ v # 0 /\ player[p].value = v
          /\ player[p] # None
          /\ playerField'[p] = v \/ playerField' = playerField
      BY <1>3 DEF PlayerRestores, PlayerTypes
    <2>2. last[p] \in {0, v}
      BY <2>1 DEF BoundSlot
    <2>3. CASE playerField'[p] = v
      BY <2>1, <2>2, <2>3 DEF SlotInv, ExplainedAt
    <2>4. CASE playerField'[p] # v
      <3>1. playerField' = playerField /\ playerField[p] # v /\ carried' = carried
        BY <1>3, <2>1, <2>4
      <3>2. p \in carried
        BY <2>1, <3>1 DEF BoundSlot
      <3>3. SlotInv(p)'
        BY <1>1, <2>1, <3>1 DEF SlotInv, BoundSlot
      <3> QED BY <3>1, <3>2, <3>3 DEF ExplainedAt
    <2> QED BY <2>3, <2>4
  <1>4. CASE PlayerEmpties(p, v, last, equip, binds)
             /\ carried' = IF player[p] = None THEN carried \ {p} ELSE carried
    <2>1. /\ player' = player /\ last_value'[p] = 0 /\ playerField'[p] = 0 /\ v = 0
          /\ last[p] = 0 \/ equip[p] = 0
      BY <1>4 DEF PlayerEmpties, PlayerTypes
    <2>2. player[p] # None => player[p].value # 0
      BY TransmogAssumption DEF PlayerTypes, PlayerEntry
    <2>3. player[p] # None => p \in carried
      BY <2>1, <2>2 DEF BoundSlot
    <2>4. player[p] # None => p \in carried'
      BY <1>4, <2>3
    <2> QED BY <2>1, <2>4 DEF SlotInv, ExplainedAt
  <1>5. CASE PlayerBlanks(p, v, last, equip, binds)
             /\ carried' = IF binds THEN carried \ {p} ELSE carried \cup {p}
    <2>1. /\ player'[p] = Zeroed(last[p]) /\ last_value' = last /\ playerField' = playerField
          /\ v = 0 /\ last[p] # 0 /\ (binds => equip[p] # 0)
      BY <1>5 DEF PlayerBlanks, PlayerTypes
    <2>2. player'[p] # None /\ player'[p].value = last[p]
      BY <2>1 DEF Zeroed, None
    <2>3. playerField[p] \in {0, last[p]}
      BY <2>1 DEF BoundSlot
    <2>4. CASE binds
      <3>1. last[p] = playerField[p]
        BY <2>1, <2>4 DEF BoundSlot
      <3> QED BY <1>1, <2>1, <2>2, <2>4, <3>1 DEF SlotInv, ExplainedAt
    <2>5. CASE ~binds
      <3>1. p \in carried'
        BY <1>5, <2>5
      <3> QED BY <1>1, <2>1, <2>2, <2>3, <2>5, <3>1 DEF SlotInv, ExplainedAt
    <2> QED BY <2>4, <2>5
  <1> QED BY <1>2, <1>3, <1>4, <1>5 DEF PlayerDecides

(* A write to one slot leaves the others.                                  *)
LEMMA OtherSlots ==
  ASSUME NEW q \in PlayerSlots, NEW last, NEW equip, NEW binds \in BOOLEAN,
         SlotInv(q), ExplainedAt(q), BoundSlot(q, last, equip, binds),
         player'[q] = player[q], playerField'[q] = playerField[q],
         playerServer'[q] = playerServer[q], bound' = IF binds THEN "yes" ELSE "no",
         last_value'[q] = last[q], equip_guids'[q] = equip[q],
         q \in carried' <=> q \in carried, q \in lapsed' <=> q \in lapsed
  PROVE  SlotInv(q)' /\ ExplainedAt(q)'
  <1>1. bound' = "yes" <=> binds
    OBVIOUS
  <1>2. SlotInv(q)'
    BY <1>1 DEF SlotInv, BoundSlot
  <1>3. ExplainedAt(q)'
    BY DEF ExplainedAt
  <1> QED BY <1>2, <1>3

LEMMA PlayerWriteKeeps ==
  ASSUME PlayerTypes, PlayerInv, NEW p \in PlayerSlots, NEW v \in Field,
         NEW found \in BOOLEAN, PlayerWrite(p, v, found)
  PROVE  PlayerInv'
  <1> DEFINE last == Mirrored(last_value, playerField, found)
             equip == Mirrored(equip_guids, equipField, found)
             binds == Binds(found)
  <1>1. /\ PlayerDecides(p, v, last, equip, binds)
        /\ equip_guids' = equip /\ equipField' = equipField
        /\ bound' = IF binds THEN "yes" ELSE "no"
        /\ playerServer' = [playerServer EXCEPT ![p] = v]
        /\ \A q : q # p => (q \in lapsed' <=> q \in lapsed)
    BY DEF PlayerWrite
  <1>2. last \in [PlayerSlots -> Field] /\ binds \in BOOLEAN
    BY MirroredTypes DEF Binds
  <1>3. binds => equip = equipField
    BY Bound
  <1>4. \A q \in PlayerSlots : BoundSlot(q, last, equip, binds)
    BY Bound
  <1>5. \A q \in PlayerSlots : SlotInv(q) /\ ExplainedAt(q)
    BY SlotsInParts
  <1> HIDE DEF last, equip, binds
  <1>6. \A q \in PlayerSlots : q # p =>
          /\ player'[q] = player[q] /\ playerField'[q] = playerField[q]
          /\ last_value'[q] = last[q] /\ (q \in carried' <=> q \in carried)
    <2>1. CASE PlayerShowsNew(p, v, last) /\ carried' = carried \ {p}
      BY <1>2, <2>1 DEF PlayerShowsNew, PlayerTypes
    <2>2. CASE PlayerRestores(p, v, last, equip)
               /\ carried' = IF playerField'[p] = v THEN carried \ {p} ELSE carried
      BY <1>2, <2>2 DEF PlayerRestores, PlayerTypes
    <2>3. CASE PlayerEmpties(p, v, last, equip, binds)
               /\ carried' = IF player[p] = None THEN carried \ {p} ELSE carried
      BY <1>2, <2>3 DEF PlayerEmpties, PlayerTypes
    <2>4. CASE PlayerBlanks(p, v, last, equip, binds)
               /\ carried' = IF binds THEN carried \ {p} ELSE carried \cup {p}
      BY <1>2, <2>4 DEF PlayerBlanks, PlayerTypes
    <2> QED BY <1>1, <2>1, <2>2, <2>3, <2>4 DEF PlayerDecides
  <1>7. \A q \in PlayerSlots : playerServer'[q] = IF q = p THEN v ELSE playerServer[q]
    BY <1>1 DEF PlayerTypes
  <1>8. \A q \in PlayerSlots : q # p => SlotInv(q)' /\ ExplainedAt(q)'
    <2> SUFFICES ASSUME NEW q \in PlayerSlots, q # p PROVE SlotInv(q)' /\ ExplainedAt(q)'
      OBVIOUS
    <2>1. /\ player'[q] = player[q] /\ playerField'[q] = playerField[q]
          /\ playerServer'[q] = playerServer[q] /\ last_value'[q] = last[q]
          /\ equip_guids'[q] = equip[q] /\ bound' = IF binds THEN "yes" ELSE "no"
          /\ q \in carried' <=> q \in carried
          /\ q \in lapsed' <=> q \in lapsed
      BY <1>1, <1>6, <1>7
    <2>2. SlotInv(q) /\ ExplainedAt(q) /\ BoundSlot(q, last, equip, binds)
      BY <1>4, <1>5
    <2> QED BY <1>2, <2>1, <2>2, OtherSlots
  <1>9. SlotInv(p)' /\ ExplainedAt(p)'
    <2>1. /\ SlotInv(p) /\ ExplainedAt(p) /\ BoundSlot(p, last, equip, binds)
          /\ equip_guids'[p] = equip[p] /\ playerServer'[p] = v
      BY <1>1, <1>4, <1>5, <1>7
    <2> QED BY <1>1, <1>2, <2>1, DecideKeepsSlot
  <1>10. PlayerFieldExplained' /\ \A q \in PlayerSlots : SlotInv(q)'
    BY <1>8, <1>9 DEF PlayerFieldExplained, ExplainedAt
  <1> QED BY <1>1, <1>3, <1>10 DEF PlayerInv

LEMMA InvGuidKeeps ==
  ASSUME PlayerTypes, PlayerInv, NEW p \in PlayerSlots, NEW item \in Items \cup {0},
         NEW found \in BOOLEAN, InvGuidWrite(p, item, found)
  PROVE  PlayerInv'
  <1> DEFINE last == Mirrored(last_value, playerField, found)
             equip == Mirrored(equip_guids, equipField, found)
             binds == Binds(found)
             empties == item = 0 /\ player[p] # None
  <1>1. /\ equip_guids' = [equip EXCEPT ![p] = item]
        /\ equipField' = [equipField EXCEPT ![p] = item]
        /\ IF empties THEN ApplyZeroFirst(p, last)
                      ELSE last_value' = last /\ UNCHANGED <<player, playerField>>
        /\ carried' = IF empties THEN carried \ {p} ELSE carried
        /\ bound' = IF binds THEN "yes" ELSE "no"
        /\ playerServer' = playerServer /\ lapsed' = lapsed
    BY DEF InvGuidWrite
  <1>2. /\ last \in [PlayerSlots -> Field] /\ equip \in [PlayerSlots -> Items \cup {0}]
        /\ binds \in BOOLEAN
    BY MirroredTypes DEF Binds
  <1>3. binds => equip = equipField
    BY Bound
  <1>4. \A q \in PlayerSlots : BoundSlot(q, last, equip, binds)
    BY Bound
  <1>5. \A q \in PlayerSlots : SlotInv(q) /\ ExplainedAt(q)
    BY SlotsInParts
  <1> HIDE DEF last, equip, binds
  <1>6. \A q \in PlayerSlots : q # p => SlotInv(q)' /\ ExplainedAt(q)'
    <2> SUFFICES ASSUME NEW q \in PlayerSlots, q # p PROVE SlotInv(q)' /\ ExplainedAt(q)'
      OBVIOUS
    <2>1. /\ player'[q] = player[q] /\ playerField'[q] = playerField[q]
          /\ last_value'[q] = last[q]
      BY <1>1, <1>2 DEF ApplyZeroFirst, PlayerTypes
    <2>2. /\ playerServer'[q] = playerServer[q] /\ bound' = IF binds THEN "yes" ELSE "no"
          /\ equip_guids'[q] = equip[q]
          /\ q \in carried' <=> q \in carried
          /\ q \in lapsed' <=> q \in lapsed
      BY <1>1, <1>2
    <2>3. SlotInv(q) /\ ExplainedAt(q) /\ BoundSlot(q, last, equip, binds)
      BY <1>4, <1>5
    <2> QED BY <1>2, <2>1, <2>2, <2>3, OtherSlots
  <1>7. SlotInv(p)' /\ ExplainedAt(p)'
    <2>1. equip_guids'[p] = item
      BY <1>1, <1>2
    <2>2. SlotInv(p) /\ ExplainedAt(p) /\ BoundSlot(p, last, equip, binds)
      BY <1>4, <1>5
    <2>3. bound' = "yes" <=> binds
      BY <1>1
    <2>4. CASE empties
      <3>1. last_value'[p] = 0 /\ player'[p] = None /\ playerField'[p] = 0 /\ p \notin carried'
        BY <1>1, <1>2, <2>4 DEF ApplyZeroFirst, PlayerTypes
      <3>2. playerServer'[p] = 0
        BY <1>1, <2>2, <2>4 DEF SlotInv
      <3> QED BY <3>1, <3>2 DEF SlotInv, ExplainedAt
    <2>5. CASE ~empties
      <3>1. /\ last_value' = last /\ player' = player /\ playerField' = playerField
            /\ carried' = carried
            /\ player[p] # None => item # 0
        BY <1>1, <2>5
      <3>2. SlotInv(p)'
        BY <1>1, <2>1, <2>2, <2>3, <3>1 DEF SlotInv, BoundSlot
      <3> QED BY <1>1, <2>2, <3>1, <3>2 DEF ExplainedAt
    <2> QED BY <2>4, <2>5
  <1>8. PlayerFieldExplained' /\ \A q \in PlayerSlots : SlotInv(q)'
    BY <1>6, <1>7 DEF PlayerFieldExplained, ExplainedAt
  <1>9. bound' = "yes" => equip_guids' = equipField'
    BY <1>1, <1>3
  <1> QED BY <1>8, <1>9 DEF PlayerInv

(* Steps that change ages, or what is parked, and no more.                 *)
LEMMA SameSlots ==
  ASSUME PlayerInv,
         UNCHANGED <<playerField, playerServer, equipField, bound, last_value, equip_guids,
                     lapsed, carried>>,
         \A p \in PlayerSlots : /\ player'[p] # None <=> player[p] # None
                                /\ player[p] # None => player'[p].value = player[p].value
  PROVE  PlayerInv'
  <1>1. \A p \in PlayerSlots : SlotInv(p)'
    BY DEF PlayerInv, SlotInv
  <1>2. PlayerFieldExplained'
    BY DEF PlayerInv, PlayerFieldExplained
  <1> QED BY <1>1, <1>2 DEF PlayerInv

LEMMA PlayerInvStep ==
  ASSUME TypeOK, PlayerInv, [Next]_vars
  PROVE  PlayerInv'
  <1>0. PlayerTypes
    BY TypesInParts
  <1>1. ASSUME UNCHANGED <<playerField, playerServer, equipField, bound, last_value,
                           equip_guids, player, lapsed, carried>>
        PROVE  PlayerInv'
    BY <1>1, SameSlots
  <1>2. CASE \E p \in PlayerSlots, v \in Field, found \in BOOLEAN : PlayerWrite(p, v, found)
    BY <1>0, <1>2, PlayerWriteKeeps
  <1>3. CASE \E p \in PlayerSlots, item \in Items \cup {0}, found \in BOOLEAN :
               InvGuidWrite(p, item, found)
    BY <1>0, <1>3, InvGuidKeeps
  <1>4. CASE \E item \in Items, x \in Field : ItemWrite(item, x)
    <2>1. PICK item \in Items, x \in Field : ItemWrite(item, x)
      BY <1>4
    <2> DEFINE slots == {p \in PlayerSlots : equip_guids[p] = item /\ player[p] # None}
    <2>2. \/ player' = player
          \/ player' = [p \in PlayerSlots |-> IF p \in slots
                               THEN [player[p] EXCEPT !.parked = x, !.age = 0] ELSE player[p]]
      BY <2>1 DEF ItemWrite
    <2>3. \A e \in PlayerEntry : /\ [e EXCEPT !.parked = x, !.age = 0].value = e.value
                                 /\ [e EXCEPT !.parked = x, !.age = 0] # None
      BY DEF PlayerEntry, None
    <2>4. \A p \in PlayerSlots : player[p] # None => player[p] \in PlayerEntry
      BY <1>0 DEF PlayerTypes
    <2>5. \A p \in slots : p \in PlayerSlots /\ player[p] # None
      OBVIOUS
    <2> HIDE DEF slots
    <2>6. \A p \in PlayerSlots : /\ player'[p] # None <=> player[p] # None
                                 /\ player[p] # None => player'[p].value = player[p].value
      <3> SUFFICES ASSUME NEW p \in PlayerSlots
                   PROVE  /\ player'[p] # None <=> player[p] # None
                          /\ player[p] # None => player'[p].value = player[p].value
        OBVIOUS
      <3>1. CASE player'[p] = player[p]
        BY <3>1
      <3>2. CASE p \in slots /\ player'[p] = [player[p] EXCEPT !.parked = x, !.age = 0]
        BY <2>3, <2>4, <2>5, <3>2
      <3> QED BY <2>2, <3>1, <3>2
    <2> QED BY <2>1, <2>6, SameSlots DEF ItemWrite
  <1>5. CASE PlayerReplaced
    <2>1. /\ bound' # "yes"
          /\ \A p \in PlayerSlots : playerField'[p] = 0 /\ playerServer'[p] = 0
          /\ player' = player /\ \A p \in PlayerSlots : p \in carried' <=> player[p] # None
      BY <1>5 DEF PlayerReplaced
    <2>2. last_value' = last_value
      BY <1>5 DEF PlayerReplaced
    <2>3. \A p \in PlayerSlots : SlotInv(p)'
      BY <2>1, <2>2 DEF PlayerInv, SlotInv
    <2> QED BY <2>1, <2>3 DEF PlayerInv, PlayerFieldExplained
  <1>6. CASE FlushBegins
    <2> DEFINE expired == {p \in PlayerSlots : Expired(p)}
    <2>1. /\ player' = [p \in PlayerSlots |-> IF p \in expired THEN None ELSE player[p]]
          /\ lapsed' = lapsed \cup expired /\ carried' = carried \ expired
          /\ UNCHANGED <<playerField, playerServer, equipField, bound, last_value, equip_guids>>
      BY <1>6 DEF FlushBegins
    <2>2. \A p \in expired : player[p] # None
      BY DEF Expired
    <2> HIDE DEF expired
    <2>3. ASSUME NEW p \in PlayerSlots PROVE SlotInv(p)' /\ ExplainedAt(p)'
      <3>1. SlotInv(p) /\ ExplainedAt(p)
        BY DEF PlayerInv, PlayerFieldExplained, ExplainedAt
      <3>2. CASE p \in expired
        BY <2>1, <2>2, <3>1, <3>2 DEF SlotInv, ExplainedAt
      <3>3. CASE p \notin expired
        BY <2>1, <3>1, <3>3 DEF SlotInv, ExplainedAt
      <3> QED BY <3>2, <3>3
    <2>4. PlayerFieldExplained' /\ \A p \in PlayerSlots : SlotInv(p)'
      BY <2>3 DEF PlayerFieldExplained, ExplainedAt
    <2> QED BY <2>1, <2>4 DEF PlayerInv
  <1>7. CASE Tick
    <2>1. \A p \in PlayerSlots : player'[p] = IF player[p] = None THEN None
              ELSE [player[p] EXCEPT !.age = Older(player[p].age, PLAYER_PENDING_TTL + FLUSH_TICKS)]
      BY <1>7 DEF Tick
    <2>2. \A e \in PlayerEntry : \A age : /\ [e EXCEPT !.age = age].value = e.value
                                      /\ [e EXCEPT !.age = age] # None
      BY DEF PlayerEntry, None
    <2>3. \A p \in PlayerSlots : player[p] # None => player[p] \in PlayerEntry
      BY <1>0 DEF PlayerTypes
    <2>4. \A p \in PlayerSlots : /\ player'[p] # None <=> player[p] # None
                                 /\ player[p] # None => player'[p].value = player[p].value
      <3> SUFFICES ASSUME NEW p \in PlayerSlots
                   PROVE  /\ player'[p] # None <=> player[p] # None
                          /\ player[p] # None => player'[p].value = player[p].value
        OBVIOUS
      <3>1. CASE player[p] = None
        BY <2>1, <3>1
      <3>2. CASE player[p] # None
        <4>1. player'[p] = [player[p] EXCEPT !.age = Older(player[p].age, PLAYER_PENDING_TTL + FLUSH_TICKS)]
          BY <2>1, <3>2
        <4> QED BY <2>2, <2>3, <3>2, <4>1
      <3> QED BY <3>1, <3>2
    <2> QED BY <1>7, <2>4, SameSlots DEF Tick
  <1>8. CASE UNCHANGED playerVars
    BY <1>1, <1>8 DEF playerVars
  <1>9. \/ UNCHANGED playerVars \/ PlayerReplaced \/ FlushBegins \/ Tick
        \/ \E p \in PlayerSlots, v \in Field, found \in BOOLEAN : PlayerWrite(p, v, found)
        \/ \E p \in PlayerSlots, item \in Items \cup {0}, found \in BOOLEAN :
             InvGuidWrite(p, item, found)
        \/ \E item \in Items, x \in Field : ItemWrite(item, x)
    BY DEF Next, ServerWrites, Objects, Flush, UnitWrite, UnitGone, UnitAppears, FlushLooks,
           FlushFinds, FlushRemoves, FlushApplies, vars
  <1> QED BY <1>2, <1>3, <1>4, <1>5, <1>6, <1>7, <1>8, <1>9

LEMMA PlayerAlways == Spec => []PlayerInv
  <1>1. Init => PlayerInv
    BY DEF Init, PlayerInv, SlotInv, PlayerFieldExplained
  <1>2. TypeOK /\ PlayerInv /\ [Next]_vars => PlayerInv'
    BY PlayerInvStep
  <1> QED BY <1>1, <1>2, TypeCorrect, PTL DEF Spec

(* The player's slot shows what the server wrote last, or the server wrote *)
(* zero and that is pending or has lapsed, or a zero outlived its player   *)
(* object: PlayerFieldExplained.                                           *)
THEOREM PlayerShowsTheServer == Spec => []PlayerFieldExplained
  <1>1. PlayerInv => PlayerFieldExplained
    BY DEF PlayerInv
  <1> QED BY <1>1, PlayerAlways, PTL

(* A slot the item has left, and whose zero has not lapsed, shows nothing, *)
(* in whichever order the zero and the GUID arrive, unless the zero met    *)
(* mirrors that were not this player object's: EmptiedSlotBlank.           *)
THEOREM EmptiedSlotsAreBlank == Spec => []EmptiedSlotBlank
  <1>1. PlayerInv => EmptiedSlotBlank
    BY DEF PlayerInv, SlotInv, PlayerFieldExplained, EmptiedSlotBlank
  <1> QED BY <1>1, PlayerAlways, PTL

-----------------------------------------------------------------------------
(* The table is a set of zeros, one per field (PendingZeros).              *)

LEMMA HeldIs ==
  ASSUME UnitTypes
  PROVE  /\ Held \subseteq Entry
         /\ \A e : e \in Held <=> \E i \in TableIndex : units[i] # None /\ units[i] = e
  BY DEF Held, UnitTypes

LEMMA HeldBecomes ==
  \A e : e \in Held' <=> \E i \in TableIndex : units'[i] # None /\ units'[i] = e
  BY DEF Held

LEMMA InHandIs ==
  ASSUME flushing \in Step, NEW k \in Keys
  PROVE  Zeros!InHand(k) <=> AboutToBlank(k)
  BY Places DEF Zeros!InHand, Zeros!Empty, Hand, AboutToBlank

(* Entries of other keys: all, if the probe finds none of k's.             *)
LEMMA OthersAre ==
  ASSUME UnitTypes, NEW k
  PROVE  \A e : e \in Zeros!Others(k) <=>
           \E i \in TableIndex : units[i] # None /\ units[i] = e /\ units[i].key # k
  BY HeldIs DEF Zeros!Others

LEMMA WriteIsWrite ==
  ASSUME TypeOK, UnitInv, NEW k \in Keys, NEW v \in Field, UnitWrite(k, v)
  PROVE  Zeros!Write(k, v)
  <1>0. /\ UnitTypes /\ OneEntryPerKey /\ flushing \in Step
        /\ units \in [TableIndex -> Entry \cup {None}] /\ flushing' = flushing
        /\ UnitShows(k, v) \/ UnitBlanks(k, v)
    BY TypesInParts DEF UnitInv, UnitWrite, UnitTypes
  <1>1. unit_find(k) = {} => Zeros!Others(k) = Held
    <2>1. ASSUME unit_find(k) = {}, NEW e PROVE e \in Zeros!Others(k) <=> e \in Held
      BY <1>0, <2>1, NotFoundIsNowhere, OthersAre, HeldIs
    <2> QED BY <2>1
  <1>2. ASSUME NEW j \in TableIndex, EntryAt(j, k)
        PROVE  \A e : e \in Zeros!Others(k) <=>
                 \E i \in TableIndex \ {j} : units[i] # None /\ units[i] = e
    <2>1. \A i \in TableIndex : units[i] # None => (units[i].key = k <=> i = j)
      BY <1>0, <1>2 DEF OneEntryPerKey, EntryAt
    <2> QED BY <1>0, <2>1, OthersAre
  <1>3. Fresh(k) = [key |-> k, age |-> 0] /\ Fresh(k) # None
    BY DEF Fresh, None
  <1>4. Zeros!Shows(k, v) \/ Zeros!Passes(k, v) \/ Zeros!Defers(k, v)
    <2>1. CASE Shown(k, v)
      <3>1. CASE units' = units /\ unit_find(k) = {}
        <4>1. Held' = Held
          BY <3>1 DEF Held
        <4> QED BY <1>1, <2>1, <3>1, <4>1 DEF Shown, StockWrite, Zeros!Shows
      <3>2. CASE \E i \in TableIndex : EntryAt(i, k) /\ units' = [units EXCEPT ![i] = None]
        <4>1. PICK j \in TableIndex : EntryAt(j, k) /\ units' = [units EXCEPT ![j] = None]
          BY <3>2
        <4>2. \A i \in TableIndex : units'[i] = IF i = j THEN None ELSE units[i]
          BY <1>0, <4>1
        <4>3. \A e : e \in Held' <=> e \in Zeros!Others(k)
          BY <1>2, <4>1, <4>2, HeldBecomes
        <4>4. Held' = Zeros!Others(k)
          BY <4>3
        <4> QED BY <2>1, <4>4 DEF Shown, StockWrite, Zeros!Shows
      <3> QED BY <2>1, <3>1, <3>2 DEF Shown
    <2>2. CASE Passed(k, v)
      <3>1. Held' = Held
        BY <2>2 DEF Passed, Held
      <3> QED BY <1>1, <2>2, <3>1 DEF Passed, StockWrite, Zeros!Passes
    <2>3. CASE Renewed(k, v)
      <3>1. PICK j \in TableIndex : EntryAt(j, k) /\ units' = [units EXCEPT ![j].age = 0]
        BY <2>3 DEF Renewed
      <3>2. units[j] \in Entry /\ units[j].key = k
        BY <1>0, <3>1 DEF EntryAt
      <3>3. [units[j] EXCEPT !.age = 0] = Fresh(k)
        BY <1>3, <3>2 DEF Entry
      <3>4. \A i \in TableIndex : units'[i] = IF i = j THEN Fresh(k) ELSE units[i]
        BY <1>0, <3>1, <3>3
      <3>5. \A e : e \in Held' <=> e \in Zeros!Others(k) \/ e = Fresh(k)
        BY <1>2, <1>3, <3>1, <3>4, HeldBecomes
      <3>6. Held' = Zeros!Others(k) \cup {[key |-> k, age |-> 0]}
        BY <1>3, <3>5
      <3> QED BY <2>3, <3>6 DEF Renewed, Zeros!Defers
    <2>4. CASE Remembered(k, v)
      <3>1. PICK s \in 0 .. UNIT_PROBE_LIMIT - 1 :
              units[ProbeAt(k, s)] = None /\ units' = [units EXCEPT ![ProbeAt(k, s)] = Fresh(k)]
        BY <2>4 DEF Remembered
      <3>2. PICK j \in TableIndex : j = ProbeAt(k, s)
        BY ProbesTheTable
      <3>3. units[j] = None /\ \A i \in TableIndex : units'[i] = IF i = j THEN Fresh(k) ELSE units[i]
        BY <1>0, <3>1, <3>2
      <3>4. \A e : e \in Held' <=> e \in Held \/ e = Fresh(k)
        BY <1>0, <1>3, <3>3, HeldBecomes, HeldIs
      <3>5. Held' = Zeros!Others(k) \cup {[key |-> k, age |-> 0]}
        BY <1>1, <1>3, <2>4, <3>4 DEF Remembered
      <3> QED BY <2>4, <3>5 DEF Remembered, Zeros!Defers
    <2> QED BY <1>0, <2>1, <2>2, <2>3, <2>4, WriteEffect
  <1>5. Hand' = Hand /\ Since' = Since
    BY <1>0 DEF Hand, Since
  <1>6. overtaken' = IF Zeros!InHand(k) THEN overtaken \cup {k} ELSE overtaken \ {k}
    BY <1>0, InHandIs DEF UnitWrite
  <1> QED BY <1>4, <1>5, <1>6 DEF UnitWrite, Zeros!Write

LEMMA ObjectsAreObjects ==
  ASSUME flushing \in Step, NEW u \in Units, UnitGone(u) \/ UnitAppears(u)
  PROVE  Zeros!Gone(u) \/ Zeros!Appears(u)
  <1>1. Held' = Held /\ Hand' = Hand /\ Since' = Since
    BY DEF UnitGone, UnitAppears, Held, Hand, Since
  <1>2. CASE UnitGone(u)
    BY <1>1, <1>2 DEF UnitGone, Zeros!Gone
  <1>3. CASE UnitAppears(u)
    <2>1. overtaken' = {k \in overtaken : k[1] # u \/ AboutToBlank(k)}
      BY <1>3 DEF UnitAppears
    <2>2. \A k : AboutToBlank(k) <=> Zeros!InHand(k)
      BY Places DEF Zeros!InHand, Zeros!Empty, Hand, AboutToBlank
    <2>3. overtaken' = {k \in overtaken : k[1] # u \/ Zeros!InHand(k)}
      BY <2>1, <2>2
    <2> QED BY <1>1, <1>3, <2>3 DEF UnitAppears, Zeros!Appears
  <1> QED BY <1>2, <1>3

(* The time since a running flush read the clock.                          *)
LEMMA SinceIs ==
  ASSUME flushing \in Step
  PROVE  /\ flushing = Resting => Since = Zeros!NoFlush
         /\ flushing # Resting => Since = flushing.late /\ Since # Zeros!NoFlush
  <1>1. flushing # Resting => flushing.late \in Nat
    BY Places, TransmogAssumption DEF Late
  <1> QED BY <1>1 DEF Since, Zeros!NoFlush

(* A flush that finds nothing due leaves nothing behind whose window was   *)
(* over when it read the clock.                                            *)
LEMMA EndsWhenDrained ==
  ASSUME TypeOK, Passing, FlushFinds, unit_due(flushing.from) = {}
  PROVE  Zeros!Ends
  <1>0. UnitTypes /\ flushing \in Step /\ flushing.pc = "due" /\ flushing # Resting
    BY TypesInParts, Places DEF FlushFinds, Resting
  <1>1. flushing' = Resting /\ UNCHANGED unitVars
    BY DEF FlushFinds
  <1>2. FlushLeaves
    BY PassingStep DEF Next, Flush
  <1>3. \A i \in TableIndex : units[i] # None => units[i].age - flushing.late < RESTORE_WINDOW
    BY <1>0, <1>1, <1>2 DEF FlushLeaves
  <1>4. Since = flushing.late /\ Since # Zeros!NoFlush /\ Since' = Zeros!NoFlush
    BY <1>0, <1>1, SinceIs DEF Since, Zeros!NoFlush
  <1>5. \A e \in Held : e.age - Since < RESTORE_WINDOW
    BY <1>0, <1>3, <1>4, HeldIs
  <1>6. Hand = Zeros!Empty /\ Hand' = Hand /\ Held' = Held
    BY <1>0, <1>1 DEF Hand, Held, Zeros!Empty, Resting, unitVars
  <1> QED BY <1>1, <1>4, <1>5, <1>6 DEF Zeros!Ends, unitVars

(* A flush reads the clock, takes an entry that is due, removes it, blanks *)
(* the field it took, and ends when nothing is due; its other steps do not *)
(* show.                                                                   *)
LEMMA FlushIsFlush ==
  ASSUME TypeOK, UnitInv, Passing, Flush
  PROVE  [Zeros!Next]_(Zeros!vars)
  <1>0. /\ UnitTypes /\ OneEntryPerKey /\ InPlace /\ flushing \in Step
        /\ units \in [TableIndex -> Entry \cup {None}]
    BY TypesInParts DEF UnitInv, UnitTypes
  <1>1. units' = units => Held' = Held
    BY DEF Held
  <1>2. CASE FlushLooks
    <2>1. /\ Hand' = Hand /\ Held' = Held
          /\ Since = Zeros!NoFlush /\ Since' = 0
      BY <1>1, <1>2 DEF FlushLooks, Hand, Resting, Since, Zeros!NoFlush, unitVars
    <2>2. Zeros!Begins
      BY <1>2, <2>1 DEF FlushLooks, unitVars, Zeros!Begins
    <2> QED BY <2>2 DEF Zeros!Next
  <1>3. CASE FlushBegins
    <2>1. Hand = Zeros!Empty /\ Hand' = Hand /\ Held' = Held /\ UNCHANGED unitVars
      <3>1. flushing.pc = "begin" /\ flushing'.pc \in {"resting", "due"}
        BY <1>3 DEF FlushBegins, Resting
      <3> QED BY <1>1, <1>3, <3>1 DEF FlushBegins, Hand, Zeros!Empty, unitVars
    <2>2. flushing # Resting
      BY <1>3 DEF FlushBegins, Resting
    <2>3. CASE idle
      <3>1. Held = {} /\ Since # Zeros!NoFlush /\ Since' = Zeros!NoFlush
        <4>1. flushing' = Resting
          BY <1>3, <2>3 DEF FlushBegins
        <4> QED BY <1>0, <2>2, <2>3, <4>1, SinceIs DEF idle, Held, Since, Zeros!NoFlush
      <3>2. Zeros!Ends
        BY <2>1, <3>1 DEF Zeros!Ends, unitVars
      <3> QED BY <3>2 DEF Zeros!Next
    <2>4. CASE ~idle
      <3>1. flushing' = [pc |-> "due", from |-> 0, late |-> flushing.late]
        BY <1>3, <2>4 DEF FlushBegins
      <3>2. Since' = Since
        BY <2>2, <3>1 DEF Since, Resting
      <3> QED BY <2>1, <3>2 DEF unitVars, Zeros!vars
    <2> QED BY <2>3, <2>4
  <1>4. CASE FlushFinds
    <2> DEFINE due == unit_due(flushing.from)
    <2>1. CASE due = {}
      BY <1>4, <2>1, EndsWhenDrained DEF Zeros!Next
    <2>2. CASE due # {}
      <3>1. PICK i \in due : i = Min(due)
        BY <1>0, <2>2, FirstDue
      <3>2. /\ i \in TableIndex /\ units[i] # None /\ Over(units[i].age, RESTORE_WINDOW)
            /\ units[i] \in Held
        BY <3>1 DEF unit_due, Held
      <3>3. flushing' = [pc |-> "remove", idx |-> i, key |-> units[i].key,
                         late |-> flushing.late]
            /\ flushing.pc = "due" /\ UNCHANGED unitVars
        BY <1>4, <2>2, <3>1 DEF FlushFinds
      <3>4. Hand = Zeros!Empty /\ Hand' = [pc |-> "remove", key |-> units[i].key]
        BY <3>3 DEF Hand, Zeros!Empty
      <3>5. flushing # Resting /\ flushing' # Resting /\ flushing'.late = flushing.late
        BY <3>3 DEF Resting
      <3>6. Since = flushing.late /\ Since # Zeros!NoFlush /\ Since' = Since
        BY <1>0, <3>5, SinceIs DEF Since
      <3>7. units[i].age - Since >= RESTORE_WINDOW \/ units[i].age < Since
        BY <3>2, <3>6 DEF Over
      <3>8. Zeros!Takes(units[i])
        BY <1>1, <3>3, <3>4, <3>6, <3>7 DEF unitVars, Zeros!Takes
      <3> QED BY <3>2, <3>8 DEF Zeros!Next
    <2> QED BY <2>1, <2>2
  <1>5. CASE FlushRemoves
    <2>1. PICK j \in TableIndex : j = flushing.idx
      BY <1>0, <1>5, Places DEF FlushRemoves
    <2>2. flushing' = [pc |-> "apply", idx |-> flushing.idx, key |-> flushing.key,
                       late |-> flushing.late]
          /\ flushing.pc = "remove"
      BY <1>0, <1>5, Places DEF FlushRemoves
    <2>3. /\ Hand = [pc |-> "remove", key |-> flushing.key]
          /\ Hand' = [pc |-> "apply", key |-> flushing.key]
      BY <2>2 DEF Hand
    <2>4. /\ Hand # Zeros!Empty /\ Hand.pc = "remove" /\ Hand.key = flushing.key
          /\ Hand' = [Hand EXCEPT !.pc = "apply"]
      BY <2>3 DEF Zeros!Empty
    <2>5. Since' = Since
      BY <1>0, <2>2 DEF Since, Resting
    <2>6. \A i \in TableIndex : units'[i] = IF i = j THEN None ELSE units[i]
      BY <1>0, <1>5, <2>1 DEF FlushRemoves
    <2>7. flushing.key \notin overtaken => units[j] # None /\ units[j].key = flushing.key
      BY <1>0, <2>1, <2>2 DEF InPlace, EntryAt
    <2>8. UNCHANGED <<alive, field, server>>
      BY <1>5 DEF FlushRemoves
    <2>9. CASE units[j] = None
      <3>1. units' = units
        BY <1>0, <1>5, <2>1, <2>9 DEF FlushRemoves
      <3>2. Held' = Held \ {}
        BY <3>1 DEF Held
      <3>3. overtaken' = overtaken \cup ({e.key : e \in {}} \ {Hand.key})
        BY <1>5, <2>1, <2>9 DEF FlushRemoves
      <3>4. Hand.key \in overtaken
        BY <2>4, <2>7, <2>9
      <3>5. Zeros!Removes({})
        BY <2>4, <2>5, <2>8, <3>2, <3>3, <3>4 DEF Zeros!Removes
      <3> QED BY <3>5 DEF Zeros!Next
    <2>10. CASE units[j] # None
      <3>1. \A i \in TableIndex : units[i] # None /\ units[i] = units[j] => i = j
        BY <1>0, <2>10 DEF OneEntryPerKey
      <3>2. \A e : e \in Held' <=> e \in Held \ {units[j]}
        BY <1>0, <2>6, <2>10, <3>1, HeldIs, HeldBecomes
      <3>3. Held' = Held \ {units[j]} /\ units[j] \in Held
        BY <2>10, <3>2 DEF Held
      <3>4. overtaken' = overtaken \cup ({e.key : e \in {units[j]}} \ {Hand.key})
        BY <1>5, <2>1, <2>4, <2>10 DEF FlushRemoves
      <3>5. Hand.key \notin overtaken => \E e \in {units[j]} : e.key = Hand.key
        BY <2>4, <2>7
      <3>6. Zeros!Removes({units[j]})
        BY <2>4, <2>5, <2>8, <3>3, <3>4, <3>5 DEF Zeros!Removes
      <3> QED BY <3>3, <3>6 DEF Zeros!Next
    <2> QED BY <2>9, <2>10
  <1>6. CASE FlushApplies
    <2>1. /\ Hand # Zeros!Empty /\ Hand.pc = "apply" /\ Hand.key = flushing.key
          /\ Hand' = Zeros!Empty
      BY <1>6 DEF FlushApplies, Hand, Zeros!Empty, Onward
    <2>2. Held' = Held
      BY <1>6 DEF FlushApplies, Held
    <2>3. Since' = Since
      <3>1. /\ flushing.pc = "apply"
            /\ flushing' = [pc |-> "due", from |-> flushing.idx + 1, late |-> flushing.late]
        BY <1>6 DEF FlushApplies, Onward
      <3> QED BY <1>0, <3>1 DEF Since, Resting
    <2>4. Zeros!Blanks
      BY <1>6, <2>1, <2>2, <2>3 DEF FlushApplies, StockWrite, Zeros!Blanks
    <2> QED BY <2>4 DEF Zeros!Next
  <1> QED BY <1>2, <1>3, <1>4, <1>5, <1>6 DEF Flush

LEMMA TickIsAges ==
  ASSUME TypeOK, Tick
  PROVE  Zeros!Ages
  <1> DEFINE W == RESTORE_WINDOW + FLUSH_TICKS
             Aged(e) == [e EXCEPT !.age = IF @ < W THEN @ + 1 ELSE @]
  <1>0. UnitTypes /\ flushing \in Step
    BY TypesInParts
  <1>1. Hand' = Hand
    BY <1>0, TickPlaces DEF Hand
  <1>2. Since < FLUSH_TICKS /\ Since' = IF Since = Zeros!NoFlush THEN Zeros!NoFlush ELSE Since + 1
    <2>1. CASE flushing = Resting
      <3>1. Since = -1 /\ Since' = -1
        BY <2>1 DEF Tick, Since
      <3> QED BY <3>1, TransmogAssumption DEF Zeros!NoFlush
    <2>2. CASE flushing # Resting
      <3>1. flushing' # Resting /\ flushing'.late = flushing.late + 1
        BY <1>0, <2>2, TickPlaces, Places DEF Resting
      <3>2. Since = flushing.late /\ Since # Zeros!NoFlush /\ Since' = Since + 1
        BY <1>0, <2>2, <3>1, SinceIs DEF Since
      <3> QED BY <2>2, <3>2 DEF Tick
    <2> QED BY <2>1, <2>2
  <1>3. \A i \in TableIndex : units'[i] = IF units[i] = None THEN None ELSE Aged(units[i])
    BY DEF Tick, Older
  <1>4. \A e \in Entry : Aged(e) # None
    BY DEF Entry, None
  <1>5. \A i \in TableIndex : units[i] # None => units[i] \in Entry
    BY <1>0 DEF UnitTypes
  <1> HIDE DEF Aged
  <1>6. \A e : e \in Held' <=> \E i \in TableIndex : units[i] # None /\ Aged(units[i]) = e
    BY <1>3, <1>4, <1>5, HeldBecomes
  <1>7. \A e : e \in Held' <=> e \in {Aged(f) : f \in Held}
    BY <1>0, <1>6, HeldIs
  <1>8. Held' = {Aged(f) : f \in Held}
    BY <1>7
  <1>9. UNCHANGED <<alive, field, server, overtaken>>
    BY DEF Tick
  <1> QED BY <1>1, <1>2, <1>8, <1>9 DEF Zeros!Ages, Aged

LEMMA ZerosInit ==
  ASSUME Init
  PROVE  Zeros!Init
  <1>1. Held = {} /\ Hand = Zeros!Empty /\ Since = Zeros!NoFlush
    BY DEF Init, Held, Hand, Resting, Since, Zeros!Empty, Zeros!NoFlush
  <1> QED BY <1>1 DEF Init, Zeros!Init

LEMMA ZerosStep ==
  ASSUME TypeOK, UnitInv, Passing, [Next]_vars
  PROVE  [Zeros!Next]_(Zeros!vars)
  <1>1. ASSUME UNCHANGED <<unitVars, flushing>> PROVE UNCHANGED Zeros!vars
    BY <1>1 DEF unitVars, Held, Hand, Since, Zeros!vars
  <1>2. CASE ServerWrites
    <2>1. CASE \E k \in Keys, v \in Field : UnitWrite(k, v)
      BY <2>1, WriteIsWrite DEF Zeros!Next
    <2>2. CASE ~\E k \in Keys, v \in Field : UnitWrite(k, v)
      BY <1>1, <1>2, <2>2 DEF ServerWrites, PlayerWrite, InvGuidWrite, ItemWrite
    <2> QED BY <2>1, <2>2
  <1>3. CASE Objects
    <2>1. CASE PlayerReplaced
      BY <1>1, <2>1 DEF PlayerReplaced
    <2>2. CASE \E u \in Units : UnitGone(u) \/ UnitAppears(u)
      BY <2>2, ObjectsAreObjects DEF TypeOK, Zeros!Next
    <2> QED BY <1>3, <2>1, <2>2 DEF Objects
  <1>4. CASE Flush
    BY <1>4, FlushIsFlush
  <1>5. CASE Tick
    BY <1>5, TickIsAges DEF Zeros!Next
  <1>6. CASE UNCHANGED vars
    BY <1>1, <1>6 DEF vars
  <1> QED BY <1>2, <1>3, <1>4, <1>5, <1>6 DEF Next

(* The probe table, with its bounded probes and the holes its removals     *)
(* leave, and the flush that gives up its lock between its steps, do what  *)
(* a set with one pending zero per field would: ImplementsPendingZeros.    *)
(* What a flush takes had its window over, or was younger than the clock   *)
(* reading it goes by, and it is this that it removes.                     *)
THEOREM TableIsASetOfZeros == Spec => ImplementsPendingZeros
  <1>1. Init => Zeros!Init
    BY ZerosInit
  <1>2. Init => Passing
    BY DEF Init, Passing, Resting
  <1>3. TypeOK /\ UnitInv /\ Passing /\ [Next]_vars => [Zeros!Next]_(Zeros!vars)
    BY ZerosStep
  <1>4. TypeOK /\ Passing /\ [Next]_vars => Passing'
    BY PassingStep
  <1> QED BY <1>1, <1>2, <1>3, <1>4, UnitsAlways, PTL DEF Spec, ImplementsPendingZeros, Zeros!Spec
=============================================================================
