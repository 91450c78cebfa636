CONSTANTS
  Keys = {k1}
  Snaps = {s1}
  Procs = {p1, p2}
  NoProc = NoProc
  Nodes = {n1}
  Jobs = {"request", "snapshot", "rollback", "delsnap", "create"}
  Serial = TRUE
  MaxGen = 2
  MaxFaults = 0
SPECIFICATION Spec
SYMMETRY Symmetry
INVARIANTS PlannedWriteIsFresh RollbackMatchesSnapshot
PROPERTY RequestsAreAtomic
