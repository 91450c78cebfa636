CONSTANTS
  Keys = {}
  Snaps = {s1}
  Procs = {p1, p2}
  NoProc = NoProc
  Nodes = {n1, n2}
  Jobs = {"request", "scan", "create", "destroy"}
  Serial = FALSE
  MaxGen = 1
  MaxFaults = 0
SPECIFICATION FairSpec
INVARIANT DocumentLock
PROPERTIES RequestsAreAnswered DocumentLockIsLetGo
