\* Two messages, two sockets on two instances; commands to Redis may be refused.
CONSTANTS
  Instances = {a, b}
  Sockets = {s1, s2}
  Home <- TwoHomes
  Msgs = {m1, m2}
  Attempts = 2
  MayFail = TRUE
  a = a
  b = b
  s1 = s1
  s2 = s2
  m1 = m1
  m2 = m2
SPECIFICATION FairSpec
CONSTRAINT OneOfEach
INVARIANTS GoneIsOffline AtMostTwice Accounted
PROPERTIES EverySettles
CHECK_DEADLOCK FALSE
