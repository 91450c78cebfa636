CONSTANTS
  BadNames = {"?"}
  LoadsAs <- CheckSchemaDialect
  Plan <- PlanWrite
  LintOf <- Lint
  Answerable <- AnswerableFindings
  Names <- MCNames
  Tags = {"t"}
  Nodes = {"n1", "n2"}
  BadNodes = {"n?"}
  Packaged <- MCPackaged
  HandWritten <- MCHandWritten
  Edits <- MCEdits
  Requests <- MCRequests
  Documents <- MCDocuments
  MaxChanges = 2
SPECIFICATION Spec
INVARIANTS TypeOK FindingsAreWhatIsWrong IndexIsSchemaAt RefusedForOwnChanges
  UnforcedWritesKeepTheSchema
PROPERTIES NamedDigestIsAtomic EditsKeepItLoading
