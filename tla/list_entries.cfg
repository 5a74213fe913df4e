SPECIFICATION Spec
CONSTANTS
  Clients = {c1, c2}
  Strings <- StringsMC
  Entries <- EntriesMC
  Folded <- FoldedMC
  Pieces <- PiecesMC
  None = None
  MaxOperations = 3
  MaxEdits = 2
  c1 = c1
  c2 = c2
  a = a
  A = A
  b = b
  ab = ab
SYMMETRY ClientSymmetry
INVARIANTS TypeOK RestoreVerifies CleanUndoesRestore
PROPERTIES KeepsOthers
CHECK_DEADLOCK FALSE
