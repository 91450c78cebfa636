SPECIFICATION Spec
CONSTANTS
  Names <- MCNames
  Paths <- MCPaths
  Contents <- MCContents
  Operators <- MCOperators
  NoSyncer = NoSyncer
  Docs <- TwoEntryDocs
  Handed <- HandSwap
  MaxEdits = 2
  MaxGuestEdits = 1
  MaxBoots = 1
  Meddling <- AnyState
  MaxOpFailures = 1
  MaxFaults = 0
INVARIANTS TypeOK OwnFileIsNoLocalEdit
PROPERTIES LocalEditsSurvive WritersStayApart
