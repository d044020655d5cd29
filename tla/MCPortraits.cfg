SPECIFICATION Spec
CONSTANTS
  Guids = {player, wolf, cub}
  player = player
  wolf = wolf
  cub = cub
  Keys = {"player", "display"}
  Players = {"player"}
  KeyOf <- MCKeyOf
  Textures = {t1, t2}
  t1 = t1
  t2 = t2
  Frames = {target, party}
  target = target
  party = party
SYMMETRY Alike
INVARIANTS
  DefaultPoolEmpty
  LostIsRefreshed
