SPECIFICATION Spec
CONSTANTS
  Proc = {w1, w2, w3}
  NoTable = NoTable
SYMMETRY ProcSymmetry
INVARIANT TypeOK
INVARIANT HeadFitsModel
INVARIANT OneMaker
INVARIANT ReadyHasTable
INVARIANT LegacyMigrates
