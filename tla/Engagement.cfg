\* One call at a time, any of which may fail: threads of four comments; two reactions and a tip on two.
CONSTANTS
  Users = {ann, bob}
  Types = {like, heart}
  CommentIds = {i1, i2, i3, i4}
  ReactionIds = {r1, r2}
  TipIds = {t1}
  Calls = {c1}
  None = None
  Limit = 2
  MaxFailures = 1
SPECIFICATION Spec
CONSTRAINT ThreadsAlone
SYMMETRY Symmetry
INVARIANTS ThreadComplete RepliesCounted ReactionsExact

