CONSTANTS
  Keys = {k1, k2}
  Values = {unset, v1}
  Unset = unset
  Garbled = Garbled
  Missing = Missing
  None = None
  Patient = FALSE
  MaxChanges = 2
  MaxFailures = 0
SPECIFICATION Spec
SYMMETRY Symmetry
INVARIANT NoLostUpdate
