SPECIFICATION Spec
CONSTANTS
  None = None
  Addresses = {a1}
  Machines = {m1, m2}
SYMMETRY Symmetry
INVARIANT StalePickGone
