\* Two overlapping calls on two users; any await may fail.
CONSTANTS
  Users = {ann, bob}
  Calls = {c1, c2}
  RowIds = {k1, k2, k3}
  NoRow = NoRow
  NoArg = NoArg
  MayFail = TRUE
SPECIFICATION Spec
SYMMETRY Symmetry
PROPERTIES AddresseeDecides NoResurrection
