SPECIFICATION Spec
CONSTANTS
  A = A
  B = B
  Names = {A, B}
  Scalars = {"u32"}
  Blank = Blank
  Rows <- FamilyRows
  MaxRows = 2
  MaxFiles = 1
CHECK_DEADLOCK FALSE
INVARIANT InheritingAreChildren
