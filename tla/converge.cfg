SPECIFICATION FairSpec
CONSTANTS
  Names <- OneName
  Paths <- OneFile
  Contents <- MCContents
  Operators <- NoOperators
  NoSyncer = NoSyncer
  Docs <- OneEntryDocs
  Handed <- NoHandOver
  MaxEdits = 2
  MaxGuestEdits = 1
  MaxBoots = 2
  Meddling <- Unparsable
  MaxOpFailures = 0
  MaxFaults = 1
PROPERTY FilesConverge
