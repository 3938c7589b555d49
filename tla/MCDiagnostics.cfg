SPECIFICATION Spec
CONSTANTS
  Codes = {a, b, masked, e51}
  Enabled = {a, b, e51}
  Err51 = e51
  NoErrorLimit = 1
  ShortNo = 1
  ShortHas = 2
  LongNo = 3
  LongHas = 4
  SeenMax = 3
INVARIANTS
  LampHolds
PROPERTIES
  StoredSoundly
  PersistentIsStored
