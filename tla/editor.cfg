CONSTANTS
  Keys = {k1, k2}
  Values = {unset, v1, v2}
  Unset = unset
  Garbled = Garbled
  Missing = Missing
  None = None
  Patient = TRUE
  MaxChanges = 2
  MaxFailures = 1
SPECIFICATION Spec
SYMMETRY Symmetry
INVARIANTS NoLostUpdate RowsMatchTheDigest MemberEditsSpareTheRest
PROPERTY UnwrittenTextIsKept
