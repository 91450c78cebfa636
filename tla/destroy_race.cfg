CONSTANTS
  Keys = {k1}
  Snaps = {s1}
  Procs = {p1, p2}
  NoProc = NoProc
  Nodes = {n1, n2}
  Jobs = {"request", "rm", "create", "destroy"}
  Serial = FALSE
  MaxGen = 2
  MaxFaults = 0
SPECIFICATION Spec
SYMMETRY Symmetry
INVARIANTS PurgeSparesTheLiving
