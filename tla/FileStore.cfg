\* Four failing calls and two crashes in any order; access() tells the truth.
SPECIFICATION FileSpec
CONSTANTS
  v1 = v1
  v2 = v2
  v3 = v3
  Contents = {v1, v2, v3}
  Missing = Missing
  Torn = Torn
  NoRequest = NoRequest
  MaxFaults = 4
  MaxBlind = 0
  MaxCrashes = 2
SYMMETRY ContentsSymmetry
PROPERTIES
  ImplementsAtomicFile
