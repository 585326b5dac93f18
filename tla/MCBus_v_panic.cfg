SPECIFICATION Spec
CONSTANTS
  p1 = p1
  p2 = p2
  s1 = s1
  s2 = s2
  k1 = k1
  k2 = k2
  Publishers = {p1, p2}
  Keys = {k1, k2}
  PubKey <- PubKeys
  Subs = {s1, s2}
  SubKeys <- OneEach
  MaxMessages = 2
INVARIANTS NoPanic
CHECK_DEADLOCK FALSE
