SPECIFICATION Spec
CONSTANTS
  Proc = {w1}
  NoTable = NoTable
SYMMETRY ProcSymmetry
INVARIANT DropDrops
