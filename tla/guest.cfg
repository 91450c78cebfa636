CONSTANTS
  Keys = {k1}
  Snaps = {s1}
  Procs = {p1, p2}
  NoProc = NoProc
  Nodes = {n1}
  Jobs = {"request", "create", "destroy"}
  Serial = FALSE
  MaxGen = 2
  MaxFaults = 1
SPECIFICATION Spec
SYMMETRY Symmetry
INVARIANTS SettledGuestOwnsItsFiles DeadGuestLeavesNothing
