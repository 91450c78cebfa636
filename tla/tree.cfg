CONSTANTS
  BadNames <- MCBadNames
  Views <- MCViews
  Payloads <- MCPayloads
  Patches <- MCPatches
  HandWritten <- MCHandWritten
SPECIFICATION Spec
CONSTRAINT Small
INVARIANTS TypeOK TouchedTellsTheWrite NotesFollowTheirKeys StrippedReadWritesBack
  ReplaceStoresThePayload MergeIsRfc7386 NullsOnlyDelete MergeTwiceIsOnce
