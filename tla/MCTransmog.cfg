SPECIFICATION SceneSpec
CONSTANTS
  Units = {u1, u2, u3}
  u1 = u1
  u2 = u2
  u3 = u3
  UnitSlots = {1}
  PlayerSlots = {1}
  Items = {a, b}
  a = a
  b = b
  Values = {1, 2}
  UNIT_TABLE_LEN = 3
  UNIT_PROBE_LIMIT = 2
  Bucket <- CollidingBucket
  RESTORE_WINDOW = 1
  PLAYER_PENDING_TTL = 2
  FLUSH_TICKS = 1
SYMMETRY Alike
INVARIANTS
  OneEntryPerKey
  UnitFieldExplained
  FlagHonest
  PlayerFieldExplained
  EmptiedSlotBlank
PROPERTIES
  FlushDrains
  ImplementsPendingZeros
