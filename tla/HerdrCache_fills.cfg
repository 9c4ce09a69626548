\* Three processes over one cache, dying anywhere, and a binary that goes bad.
CONSTANTS
  r1 = r1
  r2 = r2
  r3 = r3
  Runs <- Three
  Asset = Asset
  Damaged = Damaged
  None = None
  MaxDamages = 2
SPECIFICATION Spec
INVARIANTS TypeOK TrustedIsAsset ReturnedIsThere
SYMMETRY RunSymmetry
CHECK_DEADLOCK FALSE
