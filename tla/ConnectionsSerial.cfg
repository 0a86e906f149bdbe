\* One call at a time, none failing: three users, every block ends in separation.
CONSTANTS
  Users = {ann, bob, cid}
  Calls = {c1}
  RowIds = {k1, k2}
  NoRow = NoRow
  NoArg = NoArg
  MayFail = FALSE
SPECIFICATION FairSpec
INVARIANTS OneRowPerPair BlockSevers
PROPERTIES ImplementsRelationships BlockEventuallySevers
