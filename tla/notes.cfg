CONSTANTS
  Keys = {k1}
  Snaps = {s1}
  Procs = {p1, p2}
  NoProc = NoProc
  Nodes = {n1}
  Jobs = {"set", "scan", "create", "destroy", "rm"}
  Serial = FALSE
  MaxGen = 2
  MaxFaults = 1
SPECIFICATION Spec
SYMMETRY Symmetry
INVARIANTS PurgeSparesTheLiving PastedBlockStaysOut NoMarkerOutlivesItsCreate
PROPERTY OnlyCreateMakesAGuest
