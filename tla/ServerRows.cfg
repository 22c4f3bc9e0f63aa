SPECIFICATION Spec
CONSTANTS
  None = None
  Addresses = {a1}
  Machines = {m1, m2, m3}
SYMMETRY Symmetry
INVARIANTS
  TypeOK
  PickFitsRow
PROPERTY PickKept
