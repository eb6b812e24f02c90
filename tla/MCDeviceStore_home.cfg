SPECIFICATION Spec
CONSTANTS
  d1 = d1
  d2 = d2
  u1 = u1
  u2 = u2
  o1 = o1
  o2 = o2
  g1 = g1
  g2 = g2
  w1 = w1
  NoAction = NoAction
  Devices = {d1, d2}
  Urns = {u1, u2}
  OpNames = {o1, o2}
  Actors = {g1, g2, w1}
  Web = {w1}
  MaxBegun = 4
INVARIANTS
  NothingLost
  RepairedAlone
SYMMETRY Alike
CHECK_DEADLOCK FALSE
