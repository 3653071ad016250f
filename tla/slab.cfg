SPECIFICATION Spec
CONSTANTS
  Page = {p1, p2}
  NoPage = NoPage
  NObjects = 3
INVARIANTS TypeOK Accounted ChainFree PageOnce PartialIsPartial
