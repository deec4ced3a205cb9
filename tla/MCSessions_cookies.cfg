\* Two browsers that share addresses, a session life of one second.
SPECIFICATION Spec
CONSTANTS
  Browsers = {b1, b2}
  NoCookie = NoCookie
  Users <- MCUsers
  MaxAge = 1
  CleanEvery = 1
  MaxTime = 3
  MaxDrawn = 2
  MaxRestarts = 1
SYMMETRY Symmetry
INVARIANTS
  TypeOK
  KeepsItsCookie
  CountsOneUser
  IdsAreApart
  CleanedInTime
PROPERTIES
  EndsForAReason
