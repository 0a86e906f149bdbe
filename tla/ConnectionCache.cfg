\* One call, which may fail, and one cached reader; three users, one block.
CONSTANTS
  Users = {ann, bob, cid}
  Calls = {c1}
  RowIds = {k1, k2}
  NoRow = NoRow
  NoArg = NoArg
  MayFail = TRUE
  Readers = {d1}
  Views <- BothKeys
  ann = ann
  bob = bob
  Miss = Miss
  NoRead = NoRead
SPECIFICATION CSpec
SYMMETRY Symmetry
CONSTRAINT OneBlock
INVARIANTS StaleOnlyByRace
