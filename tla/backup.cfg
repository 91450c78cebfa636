CONSTANTS
  UserNotes <- MCUserNotes
  Documents <- MCDocuments
  MaxYaml = 2
  MaxLines = 9
  MaxEdits = 1
SPECIFICATION Spec
INVARIANTS CarriedDocumentComesBack UserTextStays NoBlockLeftToImport
