\* Two tips and two checkers, that may ask about the same one: a request
\* beside a tick, or a tick beside the next.
CONSTANTS
  Tips = {t1, t2}
  Checkers = {c1, c2}
  None = None
  MaxPosts = 2
  MayFail = TRUE
  MayRestart = TRUE
SPECIFICATION FairSpec
INVARIANTS NoFalseSettlement ToldOnce
PROPERTIES SettledStays EventuallySettled
