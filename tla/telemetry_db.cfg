SPECIFICATION Spec
CONSTANTS
  Mints = {m1, m2}
  MaxErrors = 1
SYMMETRY MintSymmetry
INVARIANTS
  RowsJustified
  DrainedBooksAgree
CHECK_DEADLOCK FALSE
