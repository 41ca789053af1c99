SPECIFICATION Spec
CONSTANTS
  k1 = k1
  k2 = k2
  Requests = {r1, r2}
  Keys <- MCKeys
  Contents <- MCContents
  Never = Never
  NoKey = NoKey
  NoRequest = NoRequest
  MaxVersion = 2
  MaxTime = 1
SYMMETRY Symmetry
INVARIANT
  AllowedByItsVersion
