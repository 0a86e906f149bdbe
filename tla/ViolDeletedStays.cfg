\* Two calls on one comment.
CONSTANTS
  Users = {ann}
  Types = {like}
  CommentIds = {i1}
  ReactionIds = {r1}
  TipIds = {t1}
  Calls = {c1, c2}
  None = None
  Limit = 2
  MaxFailures = 0
SPECIFICATION Spec
PROPERTIES DeletedStays
