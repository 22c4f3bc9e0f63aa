SPECIFICATION Spec
CONSTANTS
  Leaves = {}
  Tokens <- NoNames
  Lex <- NoNames
  Place <- NoNames
  LaterPage = {}
  NoLeaf = None
  Slots = {"usb", "s1", "s2"}
  Optical = {"s1", "s2"}
  SlotOrder <- MCOrder
  LegacySlot = "s2"
  Lossy = {"root", "media", "s1", "resetInfo"}
  Servers <- MCServers
CHECK_DEADLOCK FALSE
CONSTRAINT ForeignInFirst
PROPERTY IntentKept
INVARIANTS
  TypeOK
  RestartBootsInstaller
  EjectFindsIso
