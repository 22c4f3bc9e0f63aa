SPECIFICATION Spec
CONSTANTS
  None = None
  Factory = Factory
  NoLeaf = None
  Slots = {}
  Importers = {w1}
  Leaves <- MCLeaves
  Tokens <- MCTokens
  Lex <- MCLex
  Place <- MCLex
  LaterPage = {"HGX_FW_GPU_0"}
  Images <- MCImages
  TargetOf <- MCTargetOf
  Spelled <- MCSpelled
  NamedAfter <- MCNamedAfter
  Bundles = {"hgxImage"}
  Packages = {}
  Machines <- MCMachines
  Lossy = {"root", "page", "BMC"}
  MaxErrors = 2
  MaxFlashes = 2
CHECK_DEADLOCK FALSE
CONSTRAINT StoreNearFlash
PROPERTY TransientTolerated
